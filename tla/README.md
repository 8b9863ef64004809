# TLA+ models of gwsdb

gwsdb keeps a pool of Google addresses that answer from China. A scanner (Go)
probes addresses and submits what it finds to an API on Cloudflare Pages
(TypeScript, D1 database). Visitors' browsers keep a snapshot of the pool that
they bring up to date with deltas, and can ask for a probe of a single address.
This directory models the parts where the order of events decides whether the
data stays right, checks them with TLC, and proves with TLAPS every safety property
that the runs find to hold, for any size of the parameters (section 4 has the
hypotheses, where there are any).

## 1. Inventory

| Part | State it keeps | Operations | Hard behaviour | What makes it correct |
|---|---|---|---|---|
| Pool API (`functions/api/pool.ts`, `pool/changes.ts`, `src/pool.ts`) | edge caches keyed by version | full pool, delta since a version | a commit between any two reads of a handler; cached answers of any age | an answer is exactly the pool (or the delta) of the version it carries |
| Browser snapshot (`public/static/home.js`) | IndexedDB: rows and one metadata record, shared by tabs | load, apply a delta, replace everything | answers of different age stored by several tabs; lost requests | the snapshot is the pool of the version it claims, never goes back, catches up, loses deleted rows |
| Database writers (`src/store.ts`, `functions/ingest.ts`, `check.ts`, `recheck/result.ts`) | `ip_checks`, `ip_pool`, `pool_revision`, `ptr_cache` | ingest a batch, save an on-demand probe, prune, evict, save a PTR | requests interleave between statements, die half-way, are sent twice, outlive their client | no success is lost, status is that of the newest check, history stays bounded, every visible change has a revision |
| Scanner (`internal/scan`) | check buffer, batch in flight, recheck states, known-good set, prune candidates | scan, recheck, seed states, flush, retry, shut down | stale snapshots, suppressed results, lost and half-failed submits, cancellation | the server ends up with what the probes found; nothing is left behind |
| Ingest client (`internal/ingest/client.go`, `filter.go`) | none | submit, fetch known-good, fetch pool, filter | every call can fail before or after the server acted | as above |
| Probe consensus (`internal/recheck/sni.go`, `ping.go`) | none | several attempts merged into ok, failure or mixed | cancellation, disagreement | a transient outcome is not recorded |
| PTR refresh (`src/ptrRefresh.ts`, `dnsWire.ts`) | `ptr_checked_at` in `ip_pool`, `ptr_cache` | pick, resolve, save | queries pipelined on one connection, answers in any order, twice or never; refreshes overlap | an answer goes to its address, a failure is not an answer, every address is refreshed in turn |
| History sync (`functions/api/history.ts`, `query.js`) | IndexedDB record per address, edge cache | sync by `MAX(id)`, refresh after a probe | overlapping syncs, an answer without rows, ids that are reused | the page shows the retained history of its version, never an older one, and the probe that was just made |
| DNS publishing (`src/publish.ts`) | DNS records, `lastSyncAt` per isolate | reconcile | several isolates, failures between calls | the records converge to the top addresses and the name is not emptied on the way |
| Rate limit (`checkRateLimit`) | counter per client and window | check and count | concurrent requests, a window that ends meanwhile | the limit bounds what passes |
| Query page and gates (`functions/query.ts`, `check.ts`, `src/dnsCache.ts`, `resolver.ts`, `asn.ts`, `doh.ts`) | `asn_cache`, `ptr_cache`, `host_cache` | origin AS, PTR record, addresses of a hostname, each looked up behind a cache | lookups that fail or time out, answers saved out of order | a gate says the truth or that it does not know; what is cached is complete and not older than its TTL |

Stateless or purely I/O: IP normalisation, address ranges, network monitor, probe
server and proxy, DNS wire format, log parsing, command line, rendering.
`PROJECT.json` lists every part with its status.

How they interact: the scanner calls `GET/POST /ingest` and `GET /api/pool`; the
browser calls `/api/pool`, `/api/pool/changes`, `/query` and `/check`; `/check`
calls the scanner's probe server through a worker. Ingests and probes start a
publishing sync, and ingests a PTR refresh, after the response. Everything else is
shared through D1.
D1 runs one statement, or one `db.batch()`, atomically, and nothing larger.

## 2. Modules

```
PoolRevision      what the writers promise the readers           (abstract)
  |-- PoolSync    handlers, edge caches, tabs, on top of it      MCPoolSync      PoolSyncProofs
  `-- Store       the writers, statement by statement, which
                  implement PoolRevision                         MCStore         StoreProofs
Scanner           the scanner process and what it sees of
                  the server                                     MCScanner       ScannerProofs
HistorySync       one address's history: handler, edge cache,
                  pages                                          MCHistorySync   HistorySyncProofs
Publish           DNS publishing from several isolates           MCPublish       PublishProofs
PTRRefresh        the round-robin PTR refresh                    MCPTRRefresh    PTRRefreshProofs
Query             rate limit, gates and cached lookups           MCQuery         QueryProofs
```

**PoolRevision** has the pool (what a reader sees of each row and its
revision), `version` and `resetVersion`. Its two actions are `Publish`, a batch
that bumps the version and stamps the rows it touches, and `Evict`, a batch that
also raises the reset version and deletes rows.

**PoolSync** extends it with the readers. A tab's load is a small program whose
`pc` names the next await: the handler of `/api/pool/changes` reads the version,
reads the reset version, looks in the edge cache, loads rows, reads the version
again; `/api/pool` does the same without the reset; then the browser stores the
answer in one IndexedDB transaction and reads it back. A lookup may miss although
the entry exists, since entries expire and live per data centre. `hist` is a
history variable with the pool at every version; only properties read it.

**Store** has the tables and a slot per request. Each action is one statement or
one `db.batch()` of `insertCheckRows`, `updatePoolBatch`, `saveRecheckResult`,
`updatePoolForCheck` and `pruneCheckHistory`, in the order in which the handlers
await them. A request may die (`FailIngest`, `FailPrune`, `Drop`) or outlive its
client (`TimeOut`); the scanner then sends the same batch again. `/check` and
`/recheck/result` make the same calls and are one kind of request.

**Scanner** has the fields of the `Scanner` struct. What happens under the mutex
is one action. A submit is three: the batch is taken, the server commits it, the
response arrives; it can fail at each, and a commit can include a failed prune.
Of the server it keeps one record per address; `Ingested` says what Store does
to it. The history variable `latest` holds the last result of every address.

**HistorySync** has the rows of one address with their ids, the handler of
`/api/history` cut at its awaits, and any number of pages, each with several calls
of `sync()` under way and all with one IndexedDB record. An id is the largest of
the table plus one, as for any SQLite rowid, so other addresses take part through
the largest id they hold. Saving a check and the update of `history_count` that
follows are one step: readers of the history do not see the count, it only decides
when pruning deletes. `hist` is a history variable with what a reader saw at each
version.

**Publish** has the pool as topIPsForPublish sees it (status, times seen, round-trip
time), the set of addresses that have a record, and per isolate the throttle and
the sync under way. Reading the top set, listing, and every create and delete are
steps. The DNS service is external: one record per address, creating what exists
and deleting by an id that is gone are errors, and an error ends the family, as the
exception does. Pool writers may set any of the pools in `Pools`.

**PTRRefresh** keeps `ptr_checked_at` as an order: `unchecked` (NULL), `line` (the
rest, oldest first) and how many of these are `due`. A run selects in two
statements, sends all queries at once, and takes answers by their message id,
`IdOf`, as often and in whatever order they come; `Without` takes the elements of a
set out of an order and is written by ranks, which can be reasoned about for sequences
of any length; `Finish` drops what is not
definitive and `SaveChunk` saves the rest, both tables in one batch. The query page
saves single names meanwhile (`SavePTR`), and addresses come and go.

**Query** follows a request through checkRateLimit (three statements), the gate
(cache, lookup, save) and, on the query page, the PTR record or the two hostname
forms. It is the front of `/check` as well; what a probe that passes does is in
Store. What a visitor asks for is fixed per behaviour (`asks`), because requests
for addresses and for hostnames share nothing but the counter. A lookup takes at
most `Timeout`, a statement any time; `checkedAt` is taken between the two, as in
the code, and an entry is good from then on. `admitted` and `ended` are history
variables: who was counted in, and until when a PTR record was what it was.

Data is abstracted to what the properties tell apart: addresses are model values,
a check is an address, a time and an outcome, and what a reader sees of a row is
its status, last success and PTR entry. Left out (except where said): round-trip times, reasons, the
statistics sent with the pool, log counters and chunking of large batches.

Each module has a few definitions marked as faulty variants, placed before the
definition they vary (`MergeAll` before `Merge`). They are plausible mistakes;
`PROJECT.json` pairs each with the property that notices it, and no specification
uses them.

## 3. Runs

| Run | Checks | Shows |
|---|---|---|
| `pool_sync_tabs` | TypeOK, ResponsesExact, AtWorstDeleted, NeverBack | two tabs, writers, caches and a lost request in every order |
| `pool_sync_one_tab` | SnapshotExact, CatchesUp | one tab is exact, deleted rows included, and catches up |
| `store_concurrent` | SuccessInPool, EvictsOnlyDead, Revisions | ingest, on-demand probes, pruning and PTR updates overlap, and requests die or outlive their client; every writer implements PoolRevision |
| `store_scanner` | TypeOK, StatusIsNewest, CountCovers, PruneComplete, SuccessLands | the scanner alone, with a failing and repeated batch |
| `scanner_states` | TypeOK, StatusAgrees, HeartbeatFresh, PruneRemembered, FullBufferWakes, StopsEmpty | suppression, seeding and merging of states, up to three failed requests, cancellation at any moment |
| `scanner_live` | SuccessDelivered, PruneHappens, Stops | delivery, pruning and termination, with on-demand probes |
| `history_sync` | TypeOK, VersionDetermines, HistoryExact, SyncShowsProbe, NeverBack | a page with two syncs under way, checks that are saved out of order and pruned, failures anywhere |
| `publish` | TypeOK, NeverBare, Converges | two isolates, a changing pool, failing calls, one family that may fail for ever: the records still become the top set of the other |
| `ptr_refresh` | TypeOK, CacheTrue, CheckedCached, EveryoneChecked | two refreshes, answers out of order, repeated and missing, an address that is refused for ever |
| `query` | TypeOK, LimitExcess, GateTrue, ServedRecent, HostComplete | two requests at a time, every statement and lookup may fail, a PTR record changes, a window ends |

Two more runs expect a violation; section 6 has what they show.

### Bounds

- PoolSync: three commits are an insertion, a deletion and one more, so a
  snapshot can be before, at or after a reset; one address suffices to tell exact
  from deleted, a second lets one commit touch a row and leave another alone. Two
  tabs are the smallest number that can store answers out of order. The theorems
  drop all of these bounds.
- Store: `Retention` is 1 or 2 instead of 300 and `Window` 1 time unit instead of
  six hours, so that histories fill up and windows end within three to six probes.
  `store_scanner` repeats one batch: each repetition may count its rows once too
  often, and with a retention of 2 (not 300) two of them would evict an address
  that the code would keep; CountCovers and PruneComplete need fewer failed requests
  than retained checks (section 6). Two slots give every overlap of two requests.
- Scanner: `Heartbeat` 2 or 3 makes both sides of the 24-hour comparison happen within
  four results; `scanner_states` has two workers, so that a recheck and a scan of one
  address overlap, and the others have one; `MaxFaults` 3 lets all three attempts of the
  final flush fail. `scanner_live` has one failure and a clock of three, which is
  room for a success, a failure and their retry.
- HistorySync: `Retention` 2 and three checks are a check that comes late but is
  retained and one that pushes another out. One page with two calls of `sync()`
  has all the disorder of answers and transactions there is; a second page adds
  another cache in front of the same record. `Late` is FALSE in `history_sync`: no
  check is older than everything retained. VersionDetermines needs that, and
  HistoryExact, SyncShowsProbe and NeverBack rest on it (section 6). `Early` is FALSE:
  a probe takes longer than reading IndexedDB. If it did not, the read could replace the snapshot whose version a request has
  sent, and the answer "unchanged", which has no rows, would blank the history.
- Publish: three addresses of one family for two records make the top set change in
  part, in full and to nothing; five pools differ in rank, ties, status and missing
  times. The other family has one address and fails as often as it likes (`Flaky`);
  beyond that one call fails or one isolate disappears.
- PTRRefresh: a batch of two for three addresses, of which one is always refused, so
  that the batch is full and the refused address is in front. Chunks of one make a
  save end half-way. `IdSpace` 4 stands for 65536: `Limit < IdSpace` is what the
  comment on buildPTRQuery asks of its callers. Three insertions let an evicted
  address come back.
- Query: a limit of one, windows of two units, a TTL of zero under a floor of one, and
  a clock of three: a window ends under a request, and an entry is saved late, expires
  and is replaced. `LimitExcess` is exact: the bound is reached with two requests at a
  time. One prefix of Google's lies inside a foreign one (section 6 has the other
  way round). One failure and one change of a PTR record can come at any point.
- `CHECK_DEADLOCK FALSE` is set for Store, Scanner and HistorySync: their clocks
  and ids are bounded, and a stopped scanner does nothing more.
- In `store_scanner`, `Slow` is FALSE: time does not pass between the two gates of
  one ingest. With TRUE they can disagree, and CountCovers and PruneComplete fail
  (section 6); StatusIsNewest holds, as StatusNewestSafe proves. SuccessInPool
  leaves out on-demand requests that die: one that dies after its INSERT leaves a
  success without a pool row, and nobody repeats it.

### Fairness

- PoolSync: weak fairness of a tab's next load and of each step. A request that is
  not lost is answered, and a visitor keeps coming back. Nothing about writers;
  lost requests are bounded, otherwise a visitor could lose every one.
- Store: weak fairness of every handler and of the flusher's submit, which a
  ticker triggers.
- Scanner: weak fairness of probes under way and of the flusher, whose calls all have
  timeouts or tickers; strong fairness of `StartFinal`, because a cancelled context
  stays ready in every `select` and Go chooses among ready cases at random. Scans,
  rechecks, on-demand probes and cancellation may never happen.
- Publish: ingests keep coming, so that some isolate, whichever, starts a sync and the
  throttle of some isolate ends; a sync takes its steps. Nothing about which isolate,
  about failures, or about pool writers: Converges assumes that the pool rests.
- PTRRefresh: ingests keep coming, a refresh takes its steps, and the resolver answers
  something; which answer comes next, and that every one comes, is not assumed, and
  what fails is bounded.
- Query states no fairness: its properties are safety properties.

## 4. Theorems

Every safety property of the passing runs is a theorem `Spec => []P` (or
`Spec => P` for an action property), for any sets of addresses, tabs, pages, requests,
workers and isolates, and any value of the numbers. Assumed of the constants is
what each module's `...Assumption` says: numbers are natural, sets that are counted are
finite, null values are not rows. A theorem with a further hypothesis says so in its
ASSUME, and the table says why it is needed. Each inductive invariant below was
checked by TLC on an instance first.

| Theorem | Property | Hypothesis, and why |
|---|---|---|
| PoolSyncProofs: SnapshotSafe, ResponsesSafe, NeverBackSafe | AtWorstDeleted, ResponsesExact, NeverBack | |
| PoolSyncProofs: OneTabSafe | SnapshotExact | at most one tab: two can bring a deleted row back (section 6) |
| StoreProofs: SuccessSafe, EvictsOnlyDeadSafe | SuccessInPool, EvictsOnlyDead | |
| StoreProofs: Refinement | Revisions (`Spec => Readers!PoolSpec`) | |
| StoreProofs: StatusNewestSafe | StatusIsNewest | `ScannerOnly`: no probes on demand, no request that outlives its client. Section 6 has what happens otherwise. Time may pass between the two gates of one ingest |
| StoreProofs: CountSafe, PruneCompleteSafe | CountCovers, PruneComplete | `ScannerOnly`; `~Slow`: one time for both gates; and `MaxRetries < Retention`: fewer failed requests than retained checks (300 in the code; section 6) |
| ScannerProofs: FullBufferSafe, PruneSafe, StopSafe | FullBufferWakes, PruneRemembered, StopsEmpty | |
| ScannerProofs: ScannedSafe | StatusAgrees for every address visitors do not probe | |
| ScannerProofs: StatusSafe, HeartbeatSafe | StatusAgrees, HeartbeatFresh | `OnDemand = {}`: a failure found by a visitor is unknown to the scanner (section 6) |
| HistorySyncProofs: VersionSafe | VersionDetermines | `~Late`: otherwise an id is used twice (section 6) |
| HistorySyncProofs: HistorySafe, NeverBackSafe, ShowsProbeSafe | HistoryExact, NeverBack, SyncShowsProbe | `~Late`, `~Early`: otherwise an "unchanged" blanks the history (section 3) |
| QueryProofs: LimitSafe, HostSafe, RecentSafe | LimitExcess, HostComplete, ServedRecent | |
| QueryProofs: GateSafe | GateTrue | `NoForeignInside`: no foreign prefix inside one of Google's (section 6) |
| PublishProofs: NeverBareSafe, UndisturbedSafe | NeverBare; and what an undisturbed sync leaves | |
| PTRRefreshProofs: CacheSafe, CheckedSafe | CacheTrue, CheckedCached | |

Every module also has `TypeCorrect`: `Spec => []TypeOK`. A hypothesis excludes a
behaviour of the code, not of the proof: the run of the property is on an instance that
satisfies it, and TLC finds the property violated on one that does not.

Why the invariants are what they are:

**PoolSync.** `AtWorstDeleted` is not inductive: a tab may be about to store anything.
The invariant `Inv` adds, in this order,

1. `History`: the last entry of `hist` is the current pool; revisions do not
   exceed their version; resets grow; a row of version n with a revision of at
   most m was the same at m (`Untouched`); a row that is gone by n was deleted by
   a reset after m (`Deleted`). This is all that readers need of PoolRevision;
2. `EdgeExact`: cached answers are exact for their key;
3. `LoadsOK`: what a handler may rely on at each await. The rows it loaded are
   those of its version *if the version has not moved*, which is what the second
   read of the version tests; and a delta under way starts at a version that the
   stored one has reached (`since <= meta`);
4. `meta <= version`.

With these, `ApplyChanges` splits on whether the delta's version is newer than the
stored one. If it is, a row that the delta does not carry was untouched since the
stored version or is gone, and a row it carries is the newer one. If it is older,
every row it carries is either already there in a newer state or has been deleted
since: the second disjunct of `AtWorstDeleted`, and the reason why it is there. With
one tab (`OneTabInv`) nobody else stores, `since` *is* `meta`, and the second case
does not occur.

**Store.** `StepEffect` sorts all statements of all writers into three: what readers see
stays the same (`SameToReaders`), rows get the next version as their revision
(`Stamps`), or rows without a success go with a raised reset (`EvictsDead`). That
gives EvictsOnlyDead at once, and the refinement: each of the three is a stutter, a
`Publish` or an `Evict` of PoolRevision, so what PoolSyncProofs proves about readers
holds of the detailed writers. `SuccessKept`: an address with a
success and no row has a success *underway* (`Underway`): buffered, in a request that
has not reached its pool update, or in an on-demand request between its UPDATE and
its INSERT. The retry that puts a batch back is what keeps it true.

For the scanner alone, `StatusInv` says that there is one request at a time, that
no two checks of an address have one time, that what is buffered while a request runs
is newer than all that is recorded or sent, and that an address is *settled* (its row
has the status of the newest check, and a time that no check is after) or the batch
that arrives next *writes* it. Failing after the INSERT and before the update leaves a row unsettled; the
repeated batch still has the newest check, and its gate is still open because time
only opens gates. Where the second gate lets through what the first one refused
(`Refused`), it writes that a row is down that was down, at a time that is newer.

`CountInv` adds that `history_count` covers all checks up to `last_checked_at`, and that whatever the batch could insert behind that time is there
already (`Kept`). Pruning could remove exactly such a check; `Lags` bounds how many
newer ones it has by the number of failures so far, one per repetition, and with fewer
failures than retained checks pruning does not reach it. `PruneInv` follows one
request through its two SELECTs, with `RetainedFew`: the ROW_NUMBER condition leaves at
most `Retention` checks, since each has a different number of newer ones.

**Scanner.** `WakeInv` keeps the wake-up of a full buffer while a flush is under way.
`PruneInv` strengthens PruneRemembered by what a later FilterChecks may drop (`Stays`):
known-good addresses must be in the pool for ever, and after a prune that
succeeded only the buffer has something left. `StatusAgrees` and `HeartbeatFresh` need
`AgreeInv`, six conditions per address that only the scanner probes: a known state has
the status the server will show and the time of a success it has or is about to get
(`StateOK`), an unknown address has no success pending (`StatelessOK`), the last result
agrees with both (`LatestOK`), a fetched pool may be stale but not newer than what is
known (`FeederOK`), what a commit has made of an address (`SentOK`), and a batch that
is submitted again goes in front of what came later (`FrontOK`). `OrderInv` has the
order of result times they rest on; `FilterKeeps` shows that FilterChecks never drops
what decides the status.

**HistorySync.** `TableInv`: the row with the largest id is retained (`LastRetained`), so
ids only grow and a version stands for one history, each later one covering the earlier
(`Covers`). `SyncInv`: IndexedDB, the edge cache and every page have the history of
the version they name, and a call under way has sent a version that is not newer than
what it will be compared with (`CallOK`).

**Query.** `GoogleCached` and `GateOK` follow the gate's answer from the lookup to its
use; `HostReady` says that both families have answered before anything is saved;
`RowTrue` and `Knows` say since when a name is known to have been true. `LimitInv`
counts, per client and window, the requests admitted and those between read and
increment: a live window's counter covers them (`Counted`), and one that has ended, whose
row may be pruned under them, has at most one more for each of them (`Over`).

**Publish.** `Exact`: in the loops of an undisturbed sync the family has the records
wanted, less those to create, plus those to delete. As deletes come after creates, it is
never empty unless nothing is wanted. That a top set exists for every pool is shown by
extending selections that leave out nothing better (`Closed`) one by one.

**PTRRefresh.** `AskedApart`: what the first SELECT returned is not among what the second
one can, although a batch may be saved between them; so no address is asked twice in one run
and, below 65536 queries, an id means one address. `ResultsTrue` then carries the answer
to its address until it is saved.

Only model-checked: liveness (CatchesUp, SuccessLands, SuccessDelivered, PruneHappens,
Stops, Converges, EveryoneChecked), which is out of the prover's reach. `EveryoneChecked`,
for example, rests on ENABLED of a run's steps under fairness.

## 5. Not modelled

Time is discrete and every probe has a time of its own, so two checks of one
address never carry the same timestamp. A worker's time and its turn at the mutex
are one step. A server restored from a backup, which would lower the version, is
outside the model: its lower version would make every page fetch everything and
writeFullCache refuse it. `times_seen`, which a repeated batch raises again, orders
the published addresses; Publish takes it as it is. The merging of probe attempts is
planned (section 7). Not modelled: the text of addresses (normalizeIPAddress), which
would be a transliteration of string handling; the bytes of DNS messages, HTTP and
TLS; rendering, the lookup tables for places, and forwarding. `ptrResolve.js` is not
loaded by any page.

The names that the PTR refresh saves are at most its deadline of two minutes old,
where Query has the timeout of three seconds; ServedRecent is about the entries of
the query page. A peer that accepts the refresh's connection and never reads makes
`writer.write` wait without a timeout until the runtime ends the request, which is
`Fail` in PTRRefresh. Two addresses saved by one refresh carry the same time, and
their order in `line` is not told apart.

## 6. Where code and comments disagree

Two have a run whose property states the comment; TLC's counterexample is the
behaviour of the code.

- `pool_sync_deleted` / DeletedRowsGo: two tabs; a delta answered before a deletion
  and stored after the full pool that followed it brings the row back for good.
- `scanner_cancelled` / HealthyStaysUp: a probe cut short by shutdown is recorded
  as a failure.

Others were met while modelling and have no run of their own:

- A success saved late overwrites the status of a newer failure (store.ts:942), and
  the address is published, although store.ts:281 says that only addresses "whose
  most recent check succeeded" are. `StatusIsNewest` fails once `OnDemand` is not
  empty.
- A failure that an on-demand probe put on the server is unknown to the scanner,
  which suppresses the success that follows (scanner.go:404), although the comment
  above says that a success "persists on recovery".
- An address has more rows than are retained and waits for pruning; an old log is
  ingested, its check gets the largest id and is pruned at once; the next check of
  the address gets the same id (store.ts:792). Whoever read the history in between,
  the edge cache included, takes it for unchanged; store.ts:787 and migration 0018
  rule this out. `VersionDetermines` fails with `Late = TRUE`.
- Only Google's prefixes are cached, so the covering prefix of Google's decides about
  an address in a foreign prefix inside it as long as its row is good; the comment on
  getASN says "longest-prefix-match, same as real routing". `GateTrue` fails on routes
  nested that way.
- Addresses whose reverse zone answers REFUSED are never marked as checked and come
  first at every refresh. With as many as BATCH_LIMIT of them nothing else is ever
  refreshed; ptrRefresh.ts:41 calls skipping them acceptable, and query.ts:129 says
  that large parts of Google's reverse space are like that. `PTRAssumption` states
  the bound under which `EveryoneChecked` holds.
- Two isolates that sync one family with different top sets can delete each other's
  records and leave the name without any until the next sync; NeverBare is about a
  sync that nobody disturbs.
- The comment on checkRateLimit knows that two requests may both pass. A request of
  the next window that prunes the row under them lets as many pass once more:
  `LimitExcess` has both.
- `history_count` misses a check that arrives with an older time than
  `last_checked_at` (store.ts:115; the comment above it knows only over-counts), so
  `CountCovers` is checked with the scanner as the only writer.
- The same comment says that the count of a batch sent again errs upwards only. A batch
  sent again as often as checks are retained can have had its last success pruned
  meanwhile, by the request whose answer was lost; it inserts that check once more
  and, as it is older than `last_checked_at`, does not count it. `CountCovers` fails with
  `MaxRetries = Retention`; with 300 retained this takes 300 lost answers.
- The two dedup gates of one ingest read the clock separately (store.ts:68 and 120), so
  a failure that was not inserted can still move the row, although store.ts:111 says
  that "a gated insert never has a dangling pool update". If that request's answer is lost
  and it is repeated, its check is inserted at a time that `last_checked_at` has reached
  and is not counted: `CountCovers` and `PruneComplete` fail with `Slow = TRUE`.
- On-demand probes add addresses that the scanner's known-good set lacks until the
  next hourly fetch (flush.go:107 expects only deletions).
- The feeder never offers an address that is down (client.go:101), while store.ts:48
  says that recheck workers do so continuously.

## 7. Plan

Done: PoolRevision, PoolSync, Store, Scanner, HistorySync, Publish, PTRRefresh and Query
with their proofs. Next, in this order:

1. `Consensus`: merging of attempts (`checkSNIMulti`, `mergeFailures`, `Ping`)
   against a reference definition, with cancellation between attempts, and
   Scanner's probes as its abstraction.
2. `Coalesce`: `coalesceCheckRows` and `FilterChecks` on sequences, against the set
   definitions that Store and Scanner use.
3. In Scanner, the time of a result taken before the mutex.
4. Bounds that are not yet in theorems: StatusIsNewest for the addresses that only the
   scanner probes while visitors probe others, as ScannedSafe has it for Scanner.
