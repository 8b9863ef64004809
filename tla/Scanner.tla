------------------------------ MODULE Scanner -------------------------------
(***************************************************************************)
(* The scanner process (internal/scan): workers that probe addresses, a    *)
(* feeder that hands the known-good ones to the recheck workers, and a     *)
(* flusher that submits what they found to POST /ingest, all sharing one   *)
(* buffer and one map of recheck states; and its shutdown.                 *)
(*                                                                         *)
(* Everything done under the mutex is one step.  A request is three: the   *)
(* batch is taken, the server commits it, the response arrives, and each   *)
(* can fail.  Of the server this module keeps what the scanner sees of it; *)
(* Store.tla has the statements.                                           *)
(*                                                                         *)
(* Times are small numbers: every result has a time of its own, 0 is Go's  *)
(* zero time, and 1 the time before the process started.  Waiting          *)
(* (tickers, backoff, the maintenance and hourly intervals) is a step that *)
(* may happen at any moment.  Counters and the in-memory pool only feed    *)
(* log lines and are left out.  One feeder stands for the two families,    *)
(* which share nothing but the buffer and the states.                      *)
(*                                                                         *)
(* A definition placed before another whose name it extends is a faulty    *)
(* variant of it, used to show that the properties notice: no              *)
(* specification uses it.                                                  *)
(***************************************************************************)
EXTENDS Integers, FiniteSets

CONSTANTS
    IPs,          \* addresses
    Healthy,      \* addresses that answer every probe that is not cut short
    OnDemand,     \* addresses that visitors probe through the API
    Workers,      \* probe workers
    FlushSize,    \* -flush-size
    Heartbeat,    \* recheckSuccessInterval
    MaxTime,      \* bound on the clock
    MaxFaults,    \* bound on failed requests
    MayStop,      \* whether the process may be told to stop
    None          \* no row, no state, no job, not fetched

ASSUME ScannerAssumption ==
    /\ Healthy \subseteq IPs
    /\ OnDemand \subseteq IPs
    /\ FlushSize \in Nat \ {0}
    /\ Heartbeat \in Nat \ {0}
    /\ MaxFaults \in Nat
    /\ MaxTime \in Nat \ {0}
    /\ MayStop \in BOOLEAN

VARIABLES
    now,        \* wall clock
    checks,     \* Scanner.checks, the buffer
    inFlight,   \* Scanner.inFlightChecks, the batch flush has taken
    ready,      \* flushReady: a wake-up is waiting
    states,     \* Scanner.recheckStates
    knownGood,  \* Scanner.knownGood
    pruneIPs,   \* Scanner.pruneIPs
    due, hold,  \* maintenance is due; a failed prune is cooling down
    flusher,    \* the goroutine of runFlusher, later that of flushFinal
    feeder,     \* the pool a feeder has fetched but not seeded
    queue,      \* targets offered to the recheck workers
    worker,     \* the probe each worker has under way
    cancelled,  \* ctx is cancelled
    srv,        \* server: the pool
    unpruned,   \* server: addresses with rows newer than their last prune
    faults,     \* failed requests so far
    latest      \* history variable: the last result of each address

stateVars == <<states, latest>>
flushVars == <<inFlight, knownGood, pruneIPs, due, hold, flusher, srv, unpruned, faults>>
probeVars == <<now, states, latest, ready, feeder, queue, worker>>
vars == <<checks, cancelled, flushVars, probeVars>>

Times == 0..MaxTime
Checks == [ip : IPs, ok : BOOLEAN, ts : Times]
States == [lastOK : BOOLEAN, lastSuccess : Times, lastResultAt : Times]
Targets == [ip : IPs, last : Times]
Jobs == [kind : {"scan", "recheck"}, target : Targets]
ServerRows == [ok : BOOLEAN, at : Times, last : Times]
FlusherPCs == {"wait", "fetch", "send", "sent", "final", "stopped", "gaveup"}

ASSUME ScannerNoneAssumption ==
    /\ None \notin States \cup Jobs \cup ServerRows
    /\ \A set \in (SUBSET IPs) \cup (SUBSET Targets) : set # None

TypeOK ==
    /\ now \in Times
    /\ checks \subseteq Checks
    /\ inFlight \subseteq Checks
    /\ ready \in BOOLEAN
    /\ states \in [IPs -> States \cup {None}]
    /\ knownGood \in (SUBSET IPs) \cup {None}
    /\ pruneIPs \subseteq IPs
    /\ due \in BOOLEAN /\ hold \in BOOLEAN
    /\ flusher \in [pc : FlusherPCs, retry : BOOLEAN, maint : BOOLEAN, pruned : BOOLEAN,
                    attempt : 0..3]
    /\ feeder \in (SUBSET Targets) \cup {None}
    /\ queue \subseteq Targets
    /\ worker \in [Workers -> Jobs \cup {None}]
    /\ cancelled \in BOOLEAN
    /\ srv \in [IPs -> ServerRows \cup {None}]
    /\ unpruned \subseteq IPs
    /\ faults \in 0..MaxFaults
    /\ latest \in [IPs -> [ok : BOOLEAN, ts : Times] \cup {None}]

\* A process that starts with whatever pool the server has from earlier ones.
Init ==
    /\ now = 1
    /\ checks = {} /\ inFlight = {} /\ ready = FALSE
    /\ states = [ip \in IPs |-> None]
    /\ knownGood = None
    /\ pruneIPs = {}
    /\ due = TRUE /\ hold = FALSE
    /\ flusher = [pc |-> "wait", retry |-> FALSE, maint |-> FALSE, pruned |-> FALSE,
                  attempt |-> 0]
    /\ feeder = None
    /\ queue = {}
    /\ worker = [w \in Workers |-> None]
    /\ cancelled = FALSE
    /\ srv \in [IPs -> [ok : BOOLEAN, at : {1}, last : {1}] \cup {None}]
    /\ unpruned = {}
    /\ faults = 0
    /\ latest = [ip \in IPs |-> None]

-----------------------------------------------------------------------------
(* Operators on batches                                                    *)

InPool(ip) == srv[ip] # None

IPsOf(rows) == {c.ip : c \in rows}

Of(rows, ip) == {c \in rows : c.ip = ip}

Successes(rows) == {c \in rows : c.ok}

Latest(rows) == CHOOSE c \in rows : \A d \in rows : d.ts <= c.ts

\* FilterChecks: per address its latest success, and the failures of addresses
\* that are known to be good or are found to be in this batch.
FilterChecks(rows) ==
    {c \in rows : IF c.ok THEN c = Latest(Successes(Of(rows, c.ip)))
                  ELSE c.ip \in knownGood \/ Successes(Of(rows, c.ip)) # {}}

-----------------------------------------------------------------------------
(* Workers                                                                 *)

StartScan(w, ip) ==
    /\ worker[w] = None
    /\ ~cancelled
    /\ worker' = [worker EXCEPT ![w] =
                    [kind |-> "scan", target |-> [ip |-> ip, last |-> 0]]]
    /\ UNCHANGED <<checks, cancelled, flushVars, now, stateVars, ready, feeder, queue>>

StartRecheck(w, target) ==
    /\ worker[w] = None
    /\ ~cancelled
    /\ target \in queue
    /\ queue' = queue \ {target}
    /\ worker' = [worker EXCEPT ![w] = [kind |-> "recheck", target |-> target]]
    /\ UNCHANGED <<checks, cancelled, flushVars, now, stateVars, ready, feeder>>

\* recordResultLocked: the check joins the buffer, and a full buffer wakes the
\* flusher.
RecordResultLate(c, persist) ==
    /\ checks' = IF persist THEN checks \cup {c} ELSE checks
    /\ ready' = (ready \/ (persist /\ Cardinality(checks) > FlushSize))

RecordResult(c, persist) ==
    /\ checks' = IF persist THEN checks \cup {c} ELSE checks
    /\ ready' = (ready \/ (persist /\ Cardinality(checks') >= FlushSize))

\* A random scan: every result is buffered.  A failure is only noted for an
\* address that already has a state.
Record(ip, ok, ts) ==
    /\ RecordResult([ip |-> ip, ok |-> ok, ts |-> ts], TRUE)
    /\ states' =
         [states EXCEPT ![ip] =
            IF ok THEN [lastOK |-> TRUE, lastSuccess |-> ts, lastResultAt |-> ts]
            ELSE IF @ # None THEN [@ EXCEPT !.lastOK = FALSE, !.lastResultAt = ts]
            ELSE None]

\* A success that repeats a success is only worth a heartbeat.
PersistRecovery(state, ok, ts) == ~ok \/ ~state.lastOK

Persist(state, ok, ts) ==
    ~ok \/ ~state.lastOK \/ state.lastSuccess = 0 \/ ts - state.lastSuccess >= Heartbeat

RecordRecheck(target, ok, ts) ==
    LET ip == target.ip
        state == IF states[ip] # None THEN states[ip]
                 ELSE [lastOK |-> TRUE, lastSuccess |-> target.last, lastResultAt |-> target.last]
        persist == Persist(state, ok, ts)
    IN /\ RecordResult([ip |-> ip, ok |-> ok, ts |-> ts], persist)
       /\ states' = [states EXCEPT ![ip] =
            [lastOK |-> ok,
             lastSuccess |-> IF ok /\ persist THEN ts ELSE state.lastSuccess,
             lastResultAt |-> ts]]

\* The probe ends: a healthy address answers, unless ctx is cancelled under the
\* probe, which then fails at its next dial.
Finish(w, ok) ==
    /\ worker[w] # None
    /\ now < MaxTime
    /\ LET target == worker[w].target
       IN /\ target.ip \in Healthy /\ ~cancelled => ok
          /\ IF worker[w].kind = "scan" THEN Record(target.ip, ok, now + 1)
                                        ELSE RecordRecheck(target, ok, now + 1)
          /\ latest' = [latest EXCEPT ![target.ip] = [ok |-> ok, ts |-> now + 1]]
    /\ now' = now + 1
    /\ worker' = [worker EXCEPT ![w] = None]
    /\ UNCHANGED <<cancelled, flushVars, feeder, queue>>

\* Attempts that disagree: nothing is recorded.
FinishMixed(w) ==
    /\ worker[w] # None
    /\ worker' = [worker EXCEPT ![w] = None]
    /\ UNCHANGED <<checks, cancelled, flushVars, now, stateVars, ready, feeder, queue>>

-----------------------------------------------------------------------------
(* The feeder                                                              *)

\* FetchPool keeps the reachable addresses.
FetchPool ==
    /\ feeder = None
    /\ queue = {}
    /\ ~cancelled
    /\ feeder' = {[ip |-> ip, last |-> srv[ip].last] : ip \in {i \in IPs : InPool(i) /\ srv[i].ok}}
    /\ UNCHANGED <<checks, cancelled, flushVars, now, stateVars, ready, queue, worker>>

\* checks a seed must not overlook: the server may not have them yet
PendingBuffered(ip) == Of(checks, ip)

Pending(ip) == Of(checks \cup inFlight, ip)

Seeded(ip, last) ==
    LET old == states[ip]
        base == IF old = None
                THEN [lastOK |-> TRUE, lastSuccess |-> last, lastResultAt |-> last]
                ELSE [lastOK |-> last > old.lastResultAt \/ old.lastOK,
                      lastSuccess |-> IF last > old.lastSuccess THEN last ELSE old.lastSuccess,
                      lastResultAt |-> IF last > old.lastResultAt THEN last
                                                                  ELSE old.lastResultAt]
        check == Latest(Pending(ip))
    IN IF Pending(ip) # {} /\ check.ts > base.lastResultAt
       THEN [lastOK |-> check.ok,
             lastSuccess |-> IF check.ok THEN check.ts ELSE base.lastSuccess,
             lastResultAt |-> check.ts]
       ELSE base

SeedRecheckStates ==
    /\ feeder # None
    /\ flusher.attempt = 0
    /\ states' = [ip \in IPs |->
         IF \E t \in feeder : t.ip = ip
         THEN Seeded(ip, (CHOOSE t \in feeder : t.ip = ip).last)
         ELSE states[ip]]
    /\ queue' = feeder
    /\ feeder' = None
    /\ UNCHANGED <<checks, cancelled, flushVars, now, latest, ready, worker>>

-----------------------------------------------------------------------------
(* The flusher                                                             *)

\* how often flushFinal tries
AttemptsOneMore == 4

Attempts == 3

\* flush returns: runFlusher backs off after a failure; flushFinal is done, or
\* tries again.  prune is the new pruneIPs.
Return(ok, prune) ==
    flusher' =
      [flusher EXCEPT
         !.retry = ~ok,
         !.pc = IF flusher.attempt = 0 THEN "wait"
                ELSE IF ok /\ prune = {} THEN "stopped"
                ELSE IF flusher.attempt = Attempts THEN "gaveup"
                ELSE "final",
         !.attempt = IF @ \in 1..(Attempts - 1) /\ ~(ok /\ prune = {}) THEN @ + 1 ELSE @]

\* The start of flush: take the buffer, unless there is nothing to do.
Take(maint) ==
    IF checks = {} /\ ~(maint /\ pruneIPs # {})
    THEN /\ Return(TRUE, pruneIPs)
         /\ UNCHANGED <<checks, inFlight>>
    ELSE /\ flusher' = [flusher EXCEPT !.pc = "fetch", !.maint = maint]
         /\ inFlight' = checks
         /\ checks' = {}

FlushOnTick ==
    /\ flusher.pc = "wait" /\ ~flusher.retry
    /\ Take(due /\ ~hold)
    /\ UNCHANGED <<cancelled, knownGood, pruneIPs, due, hold, srv, unpruned, faults, probeVars>>

FlushOnWake ==
    /\ flusher.pc = "wait" /\ ~flusher.retry
    /\ ready
    /\ ready' = FALSE
    /\ Take(due /\ ~hold)
    /\ UNCHANGED <<cancelled, knownGood, pruneIPs, due, hold, srv, unpruned, faults,
                   now, stateVars, feeder, queue, worker>>

FlushOnRetry ==
    /\ flusher.pc = "wait" /\ flusher.retry
    /\ Take(due /\ ~hold)
    /\ UNCHANGED <<cancelled, knownGood, pruneIPs, due, hold, srv, unpruned, faults, probeVars>>

\* no request of runFlusher gets out after ctx is cancelled
CanSend == ~cancelled \/ flusher.attempt > 0

\* A request fails: the network or the server does, or ctx is cancelled under
\* runFlusher's request (flushFinal has a context of its own).
Fails ==
    IF CanSend THEN faults < MaxFaults /\ faults' = faults + 1
               ELSE UNCHANGED faults

RequeueDrop ==
    /\ checks' = checks
    /\ inFlight' = {}
    /\ Return(FALSE, pruneIPs)

Requeue ==
    /\ checks' = checks \cup inFlight
    /\ inFlight' = {}
    /\ Return(FALSE, pruneIPs)

\* GET /ingest, the first time and every hour
FetchKnownGood ==
    /\ flusher.pc = "fetch"
    /\ CanSend
    /\ knownGood' = {ip \in IPs : InPool(ip)}
    /\ flusher' = [flusher EXCEPT !.pc = "send"]
    /\ UNCHANGED <<checks, cancelled, inFlight, pruneIPs, due, hold, srv, unpruned, faults,
                   probeVars>>

\* a set that is recent, or that could not be refreshed, will do
KeepKnownGood ==
    /\ flusher.pc = "fetch"
    /\ CanSend
    /\ knownGood # None
    /\ flusher' = [flusher EXCEPT !.pc = "send"]
    /\ UNCHANGED <<checks, cancelled, inFlight, knownGood, pruneIPs, due, hold, srv, unpruned,
                   faults, probeVars>>

FetchKnownGoodFails ==
    /\ flusher.pc = "fetch"
    /\ knownGood = None \/ ~CanSend
    /\ Fails
    /\ Requeue
    /\ UNCHANGED <<cancelled, knownGood, pruneIPs, due, hold, srv, unpruned, probeVars>>

PruneCandidates == IF flusher.maint THEN pruneIPs \cup IPsOf(FilterChecks(inFlight)) ELSE {}

\* What the server makes of a batch, as Store.tla has it in detail: an address
\* with a success is in the pool, a failure is recorded for one that is.
Ingested(rows) ==
    [ip \in IPs |->
       LET mine == Of(rows, ip)
           last == Latest(mine)
       IN IF Successes(mine) # {}
          THEN [ok |-> last.ok, at |-> last.ts, last |-> Latest(Successes(mine)).ts]
          ELSE IF mine # {} /\ InPool(ip) /\ srv[ip].ok
          THEN [srv[ip] EXCEPT !.ok = FALSE, !.at = last.ts]
          ELSE srv[ip]]

\* The server commits the checks and then prunes, which may fail by itself.
Commit(pruned) ==
    /\ flusher.pc = "send"
    /\ IF pruned THEN UNCHANGED faults ELSE flusher.maint /\ Fails
    /\ LET rows == FilterChecks(inFlight)
       IN /\ srv' = Ingested(rows)
          /\ unpruned' = (unpruned \cup {ip \in IPsOf(rows) : srv'[ip] # None})
                           \ (IF pruned THEN PruneCandidates ELSE {})
    /\ flusher' = [flusher EXCEPT !.pc = "sent", !.pruned = pruned]
    /\ UNCHANGED <<checks, cancelled, inFlight, knownGood, pruneIPs, due, hold, probeVars>>

Reject ==
    /\ flusher.pc = "send"
    /\ Fails
    /\ Requeue
    /\ UNCHANGED <<cancelled, knownGood, pruneIPs, due, hold, srv, unpruned, probeVars>>

\* mergeSubmittedStates
Merged(rows) ==
    [ip \in IPs |->
       LET mine == Of(rows, ip)
           last == Latest(mine)
           success == Latest(Successes(mine))
           old == IF states[ip] # None THEN states[ip]
                  ELSE [lastOK |-> FALSE, lastSuccess |-> 0, lastResultAt |-> 0]
       IN IF mine = {} THEN states[ip]
          ELSE [lastOK |-> IF last.ts > old.lastResultAt THEN last.ok ELSE old.lastOK,
                lastResultAt |-> IF last.ts > old.lastResultAt THEN last.ts
                                                               ELSE old.lastResultAt,
                lastSuccess |-> IF Successes(mine) # {} /\ success.ts > old.lastSuccess
                                THEN success.ts ELSE old.lastSuccess]]

\* recordPruneCandidates: only a completed maintenance clears the accumulator.
RecordPruneCandidatesAny(rows, complete) == IF flusher.maint THEN {} ELSE pruneIPs \cup IPsOf(rows)

RecordPruneCandidates(rows, complete) == IF complete THEN {} ELSE pruneIPs \cup IPsOf(rows)

\* A 200 arrives.  If its body is truncated the outcome of the prune is unknown,
\* which counts as a failure of the prune alone.
Accepted(readable) ==
    /\ flusher.pc = "sent"
    /\ IF readable THEN UNCHANGED faults ELSE Fails
    /\ LET rows == FilterChecks(inFlight)
           complete == flusher.maint /\ flusher.pruned /\ readable
       IN /\ pruneIPs' = RecordPruneCandidates(rows, complete)
          /\ due' = (due /\ ~complete)
          /\ hold' = IF flusher.maint THEN ~complete ELSE hold
          /\ states' = Merged(rows)
          /\ knownGood' = knownGood \cup IPsOf(Successes(inFlight))
          /\ Return(TRUE, pruneIPs')
    /\ inFlight' = {}
    /\ UNCHANGED <<checks, cancelled, srv, unpruned, now, latest, ready, feeder, queue, worker>>

\* The response is lost after the commit.
Lost ==
    /\ flusher.pc = "sent"
    /\ Fails
    /\ Requeue
    /\ UNCHANGED <<cancelled, knownGood, pruneIPs, due, hold, srv, unpruned, probeVars>>

\* maintenanceInterval and pruneRetryInterval elapse.
MaintenanceDue ==
    /\ ~due
    /\ flusher.attempt = 0
    /\ due' = TRUE
    /\ UNCHANGED <<checks, cancelled, inFlight, knownGood, pruneIPs, hold, flusher, srv,
                   unpruned, faults, probeVars>>

PruneRetryDue ==
    /\ hold
    /\ hold' = FALSE
    /\ UNCHANGED <<checks, cancelled, inFlight, knownGood, pruneIPs, due, flusher, srv,
                   unpruned, faults, probeVars>>

-----------------------------------------------------------------------------
(* Shutdown                                                                *)

Cancel ==
    /\ MayStop /\ ~cancelled
    /\ cancelled' = TRUE
    /\ UNCHANGED <<checks, flushVars, probeVars>>

\* wg.Wait: every goroutine has returned.  flushFinal makes maintenance due.
AllStoppedDrained ==
    flusher.pc = "wait" /\ checks = {} /\ \A w \in Workers : worker[w] = None

AllStoppedFlusher == flusher.pc = "wait"

AllStopped == flusher.pc = "wait" /\ \A w \in Workers : worker[w] = None

StartFinal ==
    /\ cancelled
    /\ AllStopped
    /\ flusher' = [flusher EXCEPT !.pc = "final", !.attempt = 1]
    /\ due' = TRUE
    /\ UNCHANGED <<checks, cancelled, inFlight, knownGood, pruneIPs, hold, srv, unpruned,
                   faults, probeVars>>

FinalAttempt ==
    /\ flusher.pc = "final"
    /\ hold' = FALSE
    /\ Take(due)
    /\ UNCHANGED <<cancelled, knownGood, pruneIPs, due, srv, unpruned, faults, probeVars>>

\* Two failed attempts can use up the two minutes.
FinalTimeout ==
    /\ flusher.pc = "final" /\ flusher.attempt = 3
    /\ flusher' = [flusher EXCEPT !.pc = "gaveup"]
    /\ UNCHANGED <<checks, cancelled, inFlight, knownGood, pruneIPs, due, hold, srv, unpruned,
                   faults, probeVars>>

-----------------------------------------------------------------------------
(* The world outside                                                       *)

Tick ==
    /\ now < MaxTime
    /\ now' = now + 1
    /\ UNCHANGED <<checks, cancelled, flushVars, stateVars, ready, feeder, queue, worker>>

\* A visitor's probe (/check, /recheck/result) reaches the server directly.
ProbeOnDemand(ip, ok) ==
    /\ now < MaxTime
    /\ now' = now + 1
    /\ srv' = [srv EXCEPT ![ip] =
         IF ok THEN [ok |-> TRUE, at |-> now + 1, last |-> now + 1]
         ELSE IF @ # None THEN [@ EXCEPT !.ok = FALSE, !.at = now + 1]
         ELSE None]
    /\ UNCHANGED <<checks, cancelled, inFlight, knownGood, pruneIPs, due, hold, flusher,
                   unpruned, faults, stateVars, ready, feeder, queue, worker>>

-----------------------------------------------------------------------------
Probing(w) == FinishMixed(w) \/ \E ok \in BOOLEAN : Finish(w, ok)

Trigger == FlushOnTick \/ FlushOnRetry \/ FinalAttempt

Flushing ==
    \/ FetchKnownGood
    \/ KeepKnownGood
    \/ FetchKnownGoodFails
    \/ \E pruned \in BOOLEAN : Commit(pruned)
    \/ Reject
    \/ \E readable \in BOOLEAN : Accepted(readable)
    \/ Lost

Next ==
    \/ \E w \in Workers, ip \in IPs : StartScan(w, ip)
    \/ \E w \in Workers, target \in queue : StartRecheck(w, target)
    \/ \E w \in Workers : Probing(w)
    \/ FetchPool
    \/ SeedRecheckStates
    \/ Trigger
    \/ FlushOnWake
    \/ Flushing
    \/ MaintenanceDue
    \/ PruneRetryDue
    \/ Cancel
    \/ StartFinal
    \/ FinalTimeout
    \/ Tick
    \/ \E ip \in OnDemand, ok \in BOOLEAN : ProbeOnDemand(ip, ok)

Spec == Init /\ [][Next]_vars

\* Every goroutine makes progress: probes and requests have timeouts, tickers
\* and timers fire.  A cancelled context is ready in every select of runFlusher,
\* which picks among the ready cases at random, so it is not passed over for
\* ever (strong fairness).  Cancellation itself, scans and probes on demand may
\* never happen.
Fairness ==
    /\ \A w \in Workers : WF_vars(Probing(w))
    /\ WF_vars(Trigger)
    /\ WF_vars(Flushing)
    /\ WF_vars(MaintenanceDue)
    /\ WF_vars(PruneRetryDue)
    /\ SF_vars(StartFinal)

FairSpec == Spec /\ Fairness

-----------------------------------------------------------------------------
(* Properties                                                              *)

Drained == checks = {} /\ inFlight = {}

\* Suppressing repeated successes never hides a change: whenever the buffer is
\* drained, the server shows for every pooled address what its last probe found,
\* whichever of the scan and recheck workers, the flusher and the feeder's stale
\* snapshot came first (record, recordRecheck, seedRecheckStates,
\* mergeSubmittedStates).
StatusAgrees ==
    Drained => \A ip \in IPs :
      InPool(ip) /\ latest[ip] # None => srv[ip].ok = latest[ip].ok

\* Nor does it let last_seen grow old: after a successful probe the server has,
\* or is about to get, a success less than a heartbeat older than it
\* (recordRecheck, recheckSuccessInterval).
HeartbeatFresh ==
    \A ip \in IPs :
      latest[ip] # None /\ latest[ip].ok =>
        \E ts \in {c.ts : c \in Successes(Of(checks \cup inFlight, ip))}
                  \cup {srv[i].last : i \in {i \in {ip} : InPool(i)}} :
          latest[ip].ts - ts < Heartbeat

\* An address with rows the server has not pruned since is remembered, as a
\* candidate or through a check that will be submitted again, across failed
\* submits, failed prunes, truncated and lost responses (pruneCandidates,
\* recordPruneCandidates, requeue).
PruneRemembered == unpruned \subseteq pruneIPs \cup IPsOf(checks \cup inFlight)

\* A full buffer is never left waiting for the ticker: unless the flusher is
\* backing off or already at work, a wake-up is pending (recordResultLocked,
\* runFlusher's wake channel).
FullBufferWakes ==
    Cardinality(checks) >= FlushSize /\ flusher.pc = "wait" /\ ~flusher.retry => ready

\* When Run returns without having given up, nothing is left behind: "no late
\* check can miss the drain" (Run, flushFinal).
StopsEmpty ==
    flusher.pc = "stopped" => Drained /\ pruneIPs = {} /\ unpruned = {}

\* A success that was buffered reaches the server although requests and
\* responses are lost and the process may be told to stop (requeue, flushFinal).
SuccessDelivered ==
    \A ip \in IPs, ts \in Times :
      [ip |-> ip, ok |-> TRUE, ts |-> ts] \in checks ~> InPool(ip) /\ srv[ip].last >= ts

\* Rows the server has not pruned are pruned some day (maintenance, its retry,
\* and the final flush).
PruneHappens == \A ip \in IPs : ip \in unpruned ~> ip \notin unpruned

\* Told to stop, the process stops (Run, flushFinal's bounded retries).
Stops == cancelled ~> flusher.pc \in {"stopped", "gaveup"}

\* sni.go on CheckSNI: no "transient failure is allowed to become the IP's
\* recorded state": the server never turns from up to down for an address that
\* answers every probe.
HealthyStaysUp ==
    [][\A ip \in Healthy : InPool(ip) /\ srv[ip].ok => srv'[ip] # None /\ srv'[ip].ok]_vars

=============================================================================
