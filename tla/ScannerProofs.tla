---------------------------- MODULE ScannerProofs ----------------------------
(***************************************************************************)
(* Theorems about the scanner process, for any addresses, workers and      *)
(* parameters: what the flusher must remember for the server to prune,     *)
(* what is left when the process returns, the wake-up of a full buffer,    *)
(* and that the statuses the server shows are not hidden by the            *)
(* suppression of repeated successes.                                      *)
(***************************************************************************)
EXTENDS Scanner, FiniteSetTheorems, TLAPS

Flushers == [pc : FlusherPCs, retry : BOOLEAN, maint : BOOLEAN, pruned : BOOLEAN, attempt : 0..3]

Sending == {"fetch", "send", "sent"}

\* TypeOK, and what the pc of the flusher says: a batch goes out only against a set
\* of known-good addresses, and there is none when no request is under way.
TypeInv ==
    /\ TypeOK
    /\ flusher.pc \in {"send", "sent"} => knownGood # None
    /\ flusher.pc \notin Sending => inFlight = {}

-----------------------------------------------------------------------------
(* Operators on batches *)

\* A batch that is not empty has a latest check, and it is a check of the batch.
LEMMA LatestIn ==
    ASSUME NEW rows \in SUBSET Checks, rows # {}
    PROVE  Latest(rows) \in rows /\ \A d \in rows : d.ts <= Latest(rows).ts
<1> DEFINE N == {MaxTime - c.ts : c \in rows}
<1>0. MaxTime \in Nat
  BY ScannerAssumption
<1>1. \A c \in rows : c.ts \in Nat /\ MaxTime - c.ts \in Nat
  BY <1>0 DEF Checks, Times
<1>2. N \in SUBSET Nat /\ N # {}
  BY <1>1
<1>3. PICK n \in N : \A m \in N : ~(<<m, n>> \in OpToRel(<, Nat))
  BY <1>2, NatLessThanWellFounded, WFMin, Zenon
<1>4. \A m \in N : ~(m < n)
  BY <1>2, <1>3 DEF OpToRel
<1>5. PICK c \in rows : n = MaxTime - c.ts
  OBVIOUS
<1>6. ASSUME NEW d \in rows PROVE d.ts <= c.ts
  <2>1. ~(MaxTime - d.ts < MaxTime - c.ts)
    BY <1>4, <1>5
  <2> HIDE DEF N
  <2> QED
    BY <1>0, <1>1, <2>1
<1> HIDE DEF N
<1> QED
  BY <1>6 DEF Latest

\* The parts of a batch.
LEMMA BatchParts ==
    ASSUME NEW rows \in SUBSET Checks, NEW ip
    PROVE  /\ Of(rows, ip) \subseteq rows /\ Successes(rows) \subseteq rows
           /\ Of(rows, ip) \in SUBSET Checks /\ Successes(Of(rows, ip)) \in SUBSET Checks
           /\ Successes(Of(rows, ip)) \subseteq Of(rows, ip)
           /\ FilterChecks(rows) \subseteq rows /\ FilterChecks(rows) \in SUBSET Checks
           /\ IPsOf(rows) \subseteq IPs /\ IPsOf(FilterChecks(rows)) \subseteq IPsOf(rows)
           /\ IPsOf(Successes(rows)) \subseteq IPs
BY DEF Of, Successes, FilterChecks, IPsOf, Checks

-----------------------------------------------------------------------------
(* Types *)

\* Where a flush returns to.
LEMMA Returns ==
    ASSUME flusher \in Flushers, NEW ok \in BOOLEAN, NEW prune, Return(ok, prune)
    PROVE  /\ flusher' \in Flushers
           /\ flusher'.pc \in {"wait", "stopped", "gaveup", "final"}
           /\ flusher'.retry = ~ok
           /\ flusher.attempt = 0 <=> flusher'.attempt = 0
           /\ flusher.attempt = 0 <=> flusher'.pc = "wait"
           /\ flusher'.pc = "stopped" => ok /\ prune = {}
           /\ flusher'.maint = flusher.maint /\ flusher'.pruned = flusher.pruned
<1> DEFINE pc == IF flusher.attempt = 0 THEN "wait"
                 ELSE IF ok /\ prune = {} THEN "stopped"
                 ELSE IF flusher.attempt = Attempts THEN "gaveup"
                 ELSE "final"
           a == flusher.attempt
           attempt == IF a \in 1..(Attempts - 1) /\ ~(ok /\ prune = {}) THEN a + 1 ELSE a
           retry == ~ok
<1>1. flusher' = [flusher EXCEPT !.retry = retry, !.pc = pc, !.attempt = attempt]
  BY DEF Return
<1>2. a \in 0..3
  BY DEF Flushers
<1>3. attempt \in 0..3 /\ (a = 0 <=> attempt = 0)
  BY <1>2 DEF Attempts
<1>4. /\ pc \in {"wait", "stopped", "gaveup", "final"} /\ pc \in FlusherPCs
      /\ a = 0 <=> pc = "wait"
      /\ pc = "stopped" => ok /\ prune = {}
  BY DEF FlusherPCs
<1>5. retry \in BOOLEAN
  OBVIOUS
<1> HIDE DEF pc, attempt, retry
<1>6. /\ flusher' \in Flushers /\ flusher'.pc = pc /\ flusher'.attempt = attempt /\ flusher'.retry = retry
      /\ flusher'.maint = flusher.maint /\ flusher'.pruned = flusher.pruned
  BY <1>1, <1>3, <1>4, <1>5 DEF Flushers
<1> QED
  BY <1>3, <1>4, <1>6 DEF retry

\* The start of a flush.
LEMMA Takes ==
    ASSUME TypeInv, NEW maint \in BOOLEAN, Take(maint), inFlight = {}
    PROVE  /\ flusher' \in Flushers /\ checks' = {} /\ inFlight' \subseteq Checks
           /\ flusher'.pc \notin {"send", "sent"}
           /\ flusher'.pc \notin Sending => inFlight' = {}
           /\ checks' \cup inFlight' = checks
           /\ flusher.attempt = 0 <=> flusher'.attempt = 0
           /\ flusher'.pc = "wait" => flusher.attempt = 0
           /\ flusher'.pc = "stopped" => checks = {} /\ pruneIPs = {}
           /\ flusher'.pc = "fetch" => inFlight' = checks /\ flusher'.retry = flusher.retry
<1>0. flusher \in Flushers /\ checks \subseteq Checks
  BY DEF TypeInv, TypeOK, Flushers
<1>1. CASE checks = {} /\ ~(maint /\ pruneIPs # {})
  <2>1. Return(TRUE, pruneIPs) /\ checks' = checks /\ inFlight' = inFlight
    BY <1>1 DEF Take
  <2> QED
    BY <1>0, <1>1, <2>1, Returns DEF Sending
<1>2. CASE ~(checks = {} /\ ~(maint /\ pruneIPs # {}))
  <2>1. flusher' = [flusher EXCEPT !.pc = "fetch", !.maint = maint] /\ inFlight' = checks /\ checks' = {}
    BY <1>2 DEF Take
  <2>2. /\ flusher' \in Flushers /\ flusher'.pc = "fetch" /\ flusher'.attempt = flusher.attempt
        /\ flusher'.retry = flusher.retry
    BY <1>0, <2>1 DEF Flushers, FlusherPCs
  <2> QED
    BY <1>0, <2>1, <2>2 DEF Sending
<1> QED
  BY <1>1, <1>2

\* What the next result of a probe may be.
Result(ip, ok) == [ip |-> ip, ok |-> ok, ts |-> now + 1]

\* A result is buffered or not, and that is all that happens to the buffer.
LEMMA Recorded ==
    ASSUME TypeInv, NEW c \in Checks, NEW persist \in BOOLEAN, RecordResult(c, persist)
    PROVE  /\ checks' \subseteq Checks /\ ready' \in BOOLEAN
           /\ checks' = IF persist THEN checks \cup {c} ELSE checks
           /\ ready => ready'
           /\ persist /\ Cardinality(checks') >= FlushSize => ready'
BY DEF RecordResult, TypeInv, TypeOK

\* record: the types of what it leaves.
LEMMA Records ==
    ASSUME TypeInv, NEW ip \in IPs, NEW ok \in BOOLEAN, NEW ts \in Times, Record(ip, ok, ts)
    PROVE  /\ states' \in [IPs -> States \cup {None}]
           /\ checks' = checks \cup {[ip |-> ip, ok |-> ok, ts |-> ts]}
           /\ checks' \subseteq Checks /\ ready' \in BOOLEAN
           /\ ready => ready'
           /\ Cardinality(checks') >= FlushSize => ready'
<1>1. [ip |-> ip, ok |-> ok, ts |-> ts] \in Checks
  BY DEF Checks
<1>2. states \in [IPs -> States \cup {None}]
  BY DEF TypeInv, TypeOK
<1> DEFINE new == IF ok THEN [lastOK |-> TRUE, lastSuccess |-> ts, lastResultAt |-> ts]
                  ELSE IF states[ip] # None
                  THEN [states[ip] EXCEPT !.lastOK = FALSE, !.lastResultAt = ts]
                  ELSE None
<1>3. states' = [states EXCEPT ![ip] = new]
  BY DEF Record
<1>4. new \in States \cup {None}
  BY <1>2 DEF States
<1> HIDE DEF new
<1>5. states' \in [IPs -> States \cup {None}]
  BY <1>2, <1>3, <1>4
<1> QED
  BY <1>1, <1>5, Recorded DEF Record

\* The state a recheck starts from: what is known, or what the feeder was told.
Base(target) ==
    IF states[target.ip] # None THEN states[target.ip]
    ELSE [lastOK |-> TRUE, lastSuccess |-> target.last, lastResultAt |-> target.last]

\* recordRecheck: the types of what it leaves, and what it is.
LEMMA Rechecks ==
    ASSUME TypeInv, NEW target \in Targets, NEW ok \in BOOLEAN, NEW ts \in Times,
           RecordRecheck(target, ok, ts)
    PROVE  /\ states' \in [IPs -> States \cup {None}]
           /\ Base(target) \in States
           /\ Persist(Base(target), ok, ts) \in BOOLEAN
           /\ states' = [states EXCEPT ![target.ip] =
                [lastOK |-> ok,
                 lastSuccess |-> IF ok /\ Persist(Base(target), ok, ts) THEN ts
                                 ELSE Base(target).lastSuccess,
                 lastResultAt |-> ts]]
           /\ checks' = IF Persist(Base(target), ok, ts)
                        THEN checks \cup {[ip |-> target.ip, ok |-> ok, ts |-> ts]} ELSE checks
           /\ checks' \subseteq Checks /\ ready' \in BOOLEAN
           /\ ready => ready'
           /\ checks' # checks /\ Cardinality(checks') >= FlushSize => ready'
<1> DEFINE base == Base(target)
           persist == Persist(base, ok, ts)
           c == [ip |-> target.ip, ok |-> ok, ts |-> ts]
           new == [lastOK |-> ok, lastSuccess |-> IF ok /\ persist THEN ts ELSE base.lastSuccess,
                   lastResultAt |-> ts]
<1>0. target.ip \in IPs /\ target.last \in Times /\ states \in [IPs -> States \cup {None}]
  BY DEF Targets, TypeInv, TypeOK
<1>1. c \in Checks
  BY <1>0 DEF Checks
<1>2. base \in States
  BY <1>0 DEF Base, States
<1>3. persist \in BOOLEAN
  BY DEF Persist
<1>4. new \in States
  BY <1>2 DEF States
<1>5. RecordResult(c, persist) /\ states' = [states EXCEPT ![target.ip] = new]
  BY DEF RecordRecheck, Base
<1> HIDE DEF base, persist, c
<1>6. states' \in [IPs -> States \cup {None}]
  BY <1>0, <1>4, <1>5
<1>7. /\ checks' \subseteq Checks /\ ready' \in BOOLEAN
      /\ checks' = IF persist THEN checks \cup {c} ELSE checks
      /\ ready => ready'
      /\ persist /\ Cardinality(checks') >= FlushSize => ready'
  BY <1>1, <1>3, <1>5, Recorded
<1>8. states' = [states EXCEPT ![target.ip] = new]
  BY <1>5
<1> QED
  BY <1>2, <1>3, <1>6, <1>7, <1>8 DEF base, persist, c

\* A probe that ends: what it leaves, whichever kind it was.
LEMMA Finishes ==
    ASSUME TypeInv, NEW w \in Workers, NEW ok \in BOOLEAN, Finish(w, ok)
    PROVE  \E job \in Jobs :
             LET c == Result(job.target.ip, ok) IN
             /\ worker[w] = job /\ c \in Checks /\ now' = now + 1 /\ now' \in Times
             /\ worker' = [worker EXCEPT ![w] = None]
             /\ worker' \in [Workers -> Jobs \cup {None}]
             /\ states' \in [IPs -> States \cup {None}]
             /\ latest' = [latest EXCEPT ![job.target.ip] = [ok |-> ok, ts |-> now + 1]]
             /\ latest' \in [IPs -> [ok : BOOLEAN, ts : Times] \cup {None}]
             /\ checks' \in {checks, checks \cup {c}}
             /\ checks' \subseteq Checks /\ ready' \in BOOLEAN
             /\ ready => ready'
             /\ checks' # checks /\ Cardinality(checks') >= FlushSize => ready'
             /\ UNCHANGED <<cancelled, flushVars, feeder, queue>>
<1>0. /\ worker \in [Workers -> Jobs \cup {None}] /\ now \in Times
      /\ latest \in [IPs -> [ok : BOOLEAN, ts : Times] \cup {None}]
  BY DEF TypeInv, TypeOK
<1>1. PICK job \in Jobs : worker[w] = job
  BY <1>0 DEF Finish
<1>2. job.target \in Targets /\ job.target.ip \in IPs
  BY <1>1 DEF Jobs, Targets
<1>3. now + 1 \in Times
  BY <1>0, ScannerAssumption DEF Finish, Times
<1>4. Result(job.target.ip, ok) \in Checks
  BY <1>2, <1>3 DEF Result, Checks
<1>5. /\ now' = now + 1 /\ worker' = [worker EXCEPT ![w] = None]
      /\ latest' = [latest EXCEPT ![job.target.ip] = [ok |-> ok, ts |-> now + 1]]
      /\ UNCHANGED <<cancelled, flushVars, feeder, queue>>
  BY <1>1 DEF Finish
<1>6. /\ worker' \in [Workers -> Jobs \cup {None}]
      /\ latest' \in [IPs -> [ok : BOOLEAN, ts : Times] \cup {None}]
  BY <1>0, <1>2, <1>3, <1>5
<1>7. CASE job.kind = "scan"
  <2>1. Record(job.target.ip, ok, now + 1)
    BY <1>1, <1>7 DEF Finish
  <2>2. /\ states' \in [IPs -> States \cup {None}]
        /\ checks' = checks \cup {Result(job.target.ip, ok)}
        /\ checks' \subseteq Checks /\ ready' \in BOOLEAN
        /\ ready => ready'
        /\ Cardinality(checks') >= FlushSize => ready'
    BY <1>2, <1>3, <2>1, Records DEF Result
  <2> QED
    BY <1>1, <1>3, <1>4, <1>5, <1>6, <2>2
<1>8. CASE job.kind # "scan"
  <2>1. RecordRecheck(job.target, ok, now + 1)
    BY <1>1, <1>8 DEF Finish
  <2>2. /\ states' \in [IPs -> States \cup {None}]
        /\ checks' \in {checks, checks \cup {Result(job.target.ip, ok)}}
        /\ checks' \subseteq Checks /\ ready' \in BOOLEAN
        /\ ready => ready'
        /\ checks' # checks /\ Cardinality(checks') >= FlushSize => ready'
    <3> DEFINE target == job.target
               persist == Persist(Base(target), ok, now + 1)
    <3>1. /\ states' \in [IPs -> States \cup {None}]
          /\ persist \in BOOLEAN
          /\ checks' = IF persist THEN checks \cup {[ip |-> target.ip, ok |-> ok, ts |-> now + 1]}
                       ELSE checks
          /\ checks' \subseteq Checks /\ ready' \in BOOLEAN
          /\ ready => ready'
          /\ checks' # checks /\ Cardinality(checks') >= FlushSize => ready'
      BY <1>2, <1>3, <2>1, Rechecks
    <3> HIDE DEF persist
    <3>2. checks' \in {checks, checks \cup {Result(target.ip, ok)}}
      BY <3>1 DEF Result
    <3> QED
      BY <3>1, <3>2
  <2> QED
    BY <1>1, <1>3, <1>4, <1>5, <1>6, <2>2
<1> QED
  BY <1>7, <1>8

\* seedRecheckStates leaves a state of every address it is given.
LEMMA Seeds ==
    ASSUME TypeInv, NEW ip \in IPs, NEW last \in Times
    PROVE  Seeded(ip, last) \in States
<1> DEFINE old == states[ip]
           base == IF old = None
                   THEN [lastOK |-> TRUE, lastSuccess |-> last, lastResultAt |-> last]
                   ELSE [lastOK |-> last > old.lastResultAt \/ old.lastOK,
                         lastSuccess |-> IF last > old.lastSuccess THEN last ELSE old.lastSuccess,
                         lastResultAt |-> IF last > old.lastResultAt THEN last
                                                                     ELSE old.lastResultAt]
           check == Latest(Pending(ip))
<1>0. old \in States \cup {None} /\ checks \cup inFlight \in SUBSET Checks
  BY DEF TypeInv, TypeOK
<1>1. base \in States
  BY <1>0 DEF States
<1>2. Pending(ip) \in SUBSET Checks
  BY <1>0, BatchParts DEF Pending
<1>3. Pending(ip) # {} => check \in Checks
  BY <1>2, LatestIn
<1>4. Seeded(ip, last) = IF Pending(ip) # {} /\ check.ts > base.lastResultAt
                         THEN [lastOK |-> check.ok,
                               lastSuccess |-> IF check.ok THEN check.ts ELSE base.lastSuccess,
                               lastResultAt |-> check.ts]
                         ELSE base
  BY DEF Seeded
<1> HIDE DEF base, check
<1> QED
  BY <1>1, <1>3, <1>4 DEF States, Checks

\* The server's rows after a batch.
LEMMA Ingests ==
    ASSUME TypeInv, NEW rows \in SUBSET Checks
    PROVE  /\ Ingested(rows) \in [IPs -> ServerRows \cup {None}]
           /\ \A ip \in IPs : srv[ip] # None => Ingested(rows)[ip] # None
           /\ \A ip \in IPs : Successes(Of(rows, ip)) # {} => Ingested(rows)[ip] # None
<1> SUFFICES ASSUME NEW ip \in IPs
             PROVE  /\ Ingested(rows)[ip] \in ServerRows \cup {None}
                    /\ srv[ip] # None => Ingested(rows)[ip] # None
                    /\ Successes(Of(rows, ip)) # {} => Ingested(rows)[ip] # None
  BY DEF Ingested
<1> DEFINE mine == Of(rows, ip)
           last == Latest(mine)
           success == Latest(Successes(mine))
<1>0. srv[ip] \in ServerRows \cup {None}
  BY DEF TypeInv, TypeOK
<1>1. mine \in SUBSET Checks /\ Successes(mine) \in SUBSET Checks /\ Successes(mine) \subseteq mine
  BY BatchParts
<1>2. mine # {} => last \in Checks
  BY <1>1, LatestIn
<1>3. Successes(mine) # {} => success \in Checks /\ last \in Checks
  BY <1>1, <1>2, LatestIn
<1>4. Ingested(rows)[ip] = IF Successes(mine) # {}
                           THEN [ok |-> last.ok, at |-> last.ts, last |-> success.ts]
                           ELSE IF mine # {} /\ InPool(ip) /\ srv[ip].ok
                           THEN [srv[ip] EXCEPT !.ok = FALSE, !.at = last.ts]
                           ELSE srv[ip]
  BY DEF Ingested
<1> HIDE DEF mine, last, success
<1>5. CASE Successes(mine) # {}
  BY <1>3, <1>4, <1>5, ScannerNoneAssumption DEF ServerRows, Checks, mine
<1>6. CASE Successes(mine) = {} /\ mine # {} /\ InPool(ip) /\ srv[ip].ok
  <2>1. srv[ip] \in ServerRows
    BY <1>0, <1>6 DEF InPool
  <2>2. Ingested(rows)[ip] \in ServerRows
    BY <1>2, <1>4, <1>6, <2>1 DEF ServerRows, Checks
  <2> QED
    BY <1>6, <2>2, ScannerNoneAssumption DEF mine
<1>7. CASE Successes(mine) = {} /\ ~(mine # {} /\ InPool(ip) /\ srv[ip].ok)
  BY <1>0, <1>4, <1>7 DEF mine
<1> QED
  BY <1>5, <1>6, <1>7

\* mergeSubmittedStates
LEMMA Merges ==
    ASSUME TypeInv, NEW rows \in SUBSET Checks
    PROVE  /\ Merged(rows) \in [IPs -> States \cup {None}]
           /\ \A ip \in IPs : Of(rows, ip) # {} => Merged(rows)[ip] \in States
<1> SUFFICES ASSUME NEW ip \in IPs
             PROVE  /\ Merged(rows)[ip] \in States \cup {None}
                    /\ Of(rows, ip) # {} => Merged(rows)[ip] \in States
  BY DEF Merged
<1> DEFINE mine == Of(rows, ip)
           last == Latest(mine)
           success == Latest(Successes(mine))
           old == IF states[ip] # None THEN states[ip]
                  ELSE [lastOK |-> FALSE, lastSuccess |-> 0, lastResultAt |-> 0]
<1>0. states[ip] \in States \cup {None}
  BY DEF TypeInv, TypeOK
<1>1. mine \in SUBSET Checks /\ Successes(mine) \in SUBSET Checks
  BY BatchParts
<1>2. mine # {} => last \in Checks
  BY <1>1, LatestIn
<1>3. Successes(mine) # {} => success \in Checks
  BY <1>1, LatestIn
<1>4. old \in States
  BY <1>0, ScannerAssumption DEF States, Times
<1>5. Merged(rows)[ip] =
        IF mine = {} THEN states[ip]
        ELSE [lastOK |-> IF last.ts > old.lastResultAt THEN last.ok ELSE old.lastOK,
              lastResultAt |-> IF last.ts > old.lastResultAt THEN last.ts ELSE old.lastResultAt,
              lastSuccess |-> IF Successes(mine) # {} /\ success.ts > old.lastSuccess
                              THEN success.ts ELSE old.lastSuccess]
  BY DEF Merged
<1> HIDE DEF mine, last, success, old
<1>6. CASE mine = {}
  BY <1>0, <1>5, <1>6 DEF mine
<1>7. CASE mine # {}
  BY <1>2, <1>3, <1>4, <1>5, <1>7 DEF States, Checks
<1> QED
  BY <1>6, <1>7

\* A batch goes back to the buffer.
LEMMA Requeues ==
    ASSUME TypeInv, Requeue
    PROVE  /\ checks' = checks \cup inFlight /\ checks' \subseteq Checks /\ inFlight' = {}
           /\ flusher' \in Flushers /\ flusher'.retry
           /\ flusher'.pc \in {"wait", "gaveup", "final"}
           /\ flusher.attempt = 0 <=> flusher'.attempt = 0
           /\ flusher.attempt = 0 <=> flusher'.pc = "wait"
<1>1. flusher \in Flushers /\ checks \subseteq Checks /\ inFlight \subseteq Checks
  BY DEF TypeInv, TypeOK, Flushers
<1>2. Return(FALSE, pruneIPs) /\ checks' = checks \cup inFlight /\ inFlight' = {}
  BY DEF Requeue
<1>3. /\ flusher' \in Flushers /\ flusher'.retry
      /\ flusher'.pc \in {"wait", "stopped", "gaveup", "final"} /\ flusher'.pc # "stopped"
      /\ flusher.attempt = 0 <=> flusher'.attempt = 0
      /\ flusher.attempt = 0 <=> flusher'.pc = "wait"
  BY <1>1, <1>2, Returns
<1> QED
  BY <1>1, <1>2, <1>3

\* A failed request counts at most once.
LEMMA FailsCount ==
    ASSUME TypeInv, Fails
    PROVE  faults' \in 0..MaxFaults
BY ScannerAssumption DEF Fails, TypeInv, TypeOK

\* The steps of the workers and the feeder keep the types.
LEMMA ProbeTypes ==
    ASSUME TypeInv,
           \/ \E w \in Workers, ip \in IPs : StartScan(w, ip)
           \/ \E w \in Workers, target \in queue : StartRecheck(w, target)
           \/ \E w \in Workers : Probing(w)
           \/ FetchPool
           \/ SeedRecheckStates
    PROVE  TypeInv' /\ UNCHANGED <<cancelled, flushVars>>
<1>0. TypeOK
  BY DEF TypeInv
<1>1. ASSUME NEW w \in Workers, NEW ip \in IPs, StartScan(w, ip) PROVE TypeInv' /\ UNCHANGED <<cancelled, flushVars>>
  <2>1. [kind |-> "scan", target |-> [ip |-> ip, last |-> 0]] \in Jobs
    BY ScannerAssumption DEF Jobs, Targets, Times
  <2>2. worker' \in [Workers -> Jobs \cup {None}]
    BY <1>0, <1>1, <2>1 DEF StartScan, TypeOK
  <2> QED
    BY <1>1, <2>2 DEF StartScan, TypeInv, TypeOK, flushVars, stateVars
<1>2. ASSUME NEW w \in Workers, NEW target \in queue, StartRecheck(w, target)
      PROVE  TypeInv' /\ UNCHANGED <<cancelled, flushVars>>
  <2>1. [kind |-> "recheck", target |-> target] \in Jobs
    BY <1>0 DEF Jobs, TypeOK
  <2>2. worker' \in [Workers -> Jobs \cup {None}] /\ queue' \subseteq Targets
    BY <1>0, <1>2, <2>1 DEF StartRecheck, TypeOK
  <2> QED
    BY <1>2, <2>2 DEF StartRecheck, TypeInv, TypeOK, flushVars, stateVars
<1>3. ASSUME NEW w \in Workers, FinishMixed(w) PROVE TypeInv' /\ UNCHANGED <<cancelled, flushVars>>
  <2>1. worker' \in [Workers -> Jobs \cup {None}]
    BY <1>0, <1>3 DEF FinishMixed, TypeOK
  <2> QED
    BY <1>3, <2>1 DEF FinishMixed, TypeInv, TypeOK, flushVars, stateVars
<1>4. ASSUME NEW w \in Workers, NEW ok \in BOOLEAN, Finish(w, ok)
      PROVE  TypeInv' /\ UNCHANGED <<cancelled, flushVars>>
  <2>1. /\ now' \in Times
        /\ worker' \in [Workers -> Jobs \cup {None}]
        /\ states' \in [IPs -> States \cup {None}]
        /\ latest' \in [IPs -> [ok : BOOLEAN, ts : Times] \cup {None}]
        /\ checks' \subseteq Checks /\ ready' \in BOOLEAN
        /\ UNCHANGED <<cancelled, flushVars, feeder, queue>>
    BY <1>4, Finishes
  <2> QED
    BY <2>1 DEF TypeInv, TypeOK, flushVars
<1>5. CASE FetchPool
  <2>1. feeder' \in SUBSET Targets
    <3>1. \A ip \in IPs : InPool(ip) => srv[ip] \in ServerRows
      BY <1>0 DEF InPool, TypeOK
    <3>2. \A ip \in IPs : InPool(ip) => [ip |-> ip, last |-> srv[ip].last] \in Targets
      BY <3>1 DEF ServerRows, Targets
    <3> QED
      BY <1>5, <3>2 DEF FetchPool
  <2> QED
    BY <1>5, <2>1 DEF FetchPool, TypeInv, TypeOK, flushVars, stateVars
<1>6. CASE SeedRecheckStates
  <2>0. feeder \subseteq Targets /\ states \in [IPs -> States \cup {None}]
    BY <1>0, <1>6 DEF SeedRecheckStates, TypeOK
  <2>1. ASSUME NEW ip \in IPs, \E t \in feeder : t.ip = ip
        PROVE  Seeded(ip, (CHOOSE t \in feeder : t.ip = ip).last) \in States
    <3>1. (CHOOSE t \in feeder : t.ip = ip) \in Targets
      BY <2>0, <2>1
    <3>2. (CHOOSE t \in feeder : t.ip = ip).last \in Times
      BY <3>1 DEF Targets
    <3> QED
      BY <3>2, Seeds
  <2>2. states' \in [IPs -> States \cup {None}]
    BY <1>6, <2>0, <2>1 DEF SeedRecheckStates
  <2> QED
    BY <1>6, <2>0, <2>2 DEF SeedRecheckStates, TypeInv, TypeOK, flushVars
<1> QED
  BY <1>1, <1>2, <1>3, <1>4, <1>5, <1>6, ScannerAssumption DEF Probing

\* The start of a flush, whatever wakes the flusher.
LEMMA TakeTypes ==
    ASSUME TypeInv, Trigger \/ FlushOnWake
    PROVE  TypeInv' /\ inFlight = {} /\ \E maint \in BOOLEAN : Take(maint)
<1>0. TypeOK
  BY DEF TypeInv
<1>1. \/ flusher.pc = "wait" /\ Take(due /\ ~hold)
      \/ flusher.pc = "final" /\ Take(due)
  BY DEF Trigger, FlushOnTick, FlushOnWake, FlushOnRetry, FinalAttempt
<1>2. inFlight = {} /\ due \in BOOLEAN /\ hold \in BOOLEAN
  BY <1>1 DEF TypeInv, TypeOK, Sending
<1>3. (due /\ ~hold) \in BOOLEAN
  OBVIOUS
<1>4. PICK maint \in BOOLEAN : Take(maint)
  BY <1>1, <1>2, <1>3
<1>5. /\ flusher' \in Flushers /\ checks' = {} /\ inFlight' \subseteq Checks
      /\ flusher'.pc \notin {"send", "sent"}
      /\ flusher'.pc \notin Sending => inFlight' = {}
  BY <1>2, <1>4, Takes
<1>6. /\ UNCHANGED <<cancelled, knownGood, pruneIPs, due, srv, unpruned, faults,
                     now, stateVars, feeder, queue, worker>>
      /\ hold' \in BOOLEAN /\ ready' \in BOOLEAN
  BY <1>0, <1>2 DEF Trigger, FlushOnTick, FlushOnWake, FlushOnRetry, FinalAttempt, probeVars,
                    stateVars, TypeOK
<1>7. TypeInv'
  BY <1>0, <1>5, <1>6 DEF TypeInv, TypeOK, stateVars, Flushers
<1> QED
  BY <1>2, <1>4, <1>7

\* The requests and what becomes of them.
LEMMA FlushTypes ==
    ASSUME TypeInv, Flushing
    PROVE  TypeInv' /\ UNCHANGED <<cancelled, now, latest, ready, feeder, queue, worker>>
<1>0. TypeOK /\ flusher \in Flushers
  BY DEF TypeInv, TypeOK, Flushers
<1>1. ASSUME FetchKnownGood \/ KeepKnownGood
      PROVE  TypeInv' /\ UNCHANGED <<cancelled, now, latest, ready, feeder, queue, worker>>
  <2>1. knownGood' \in SUBSET IPs
    BY <1>0, <1>1 DEF FetchKnownGood, KeepKnownGood, TypeOK
  <2>2. knownGood' # None
    BY <2>1, ScannerNoneAssumption
  <2>3. flusher' \in Flushers /\ flusher'.pc = "send"
    BY <1>0, <1>1 DEF FetchKnownGood, KeepKnownGood, Flushers, FlusherPCs
  <2>4. UNCHANGED <<checks, cancelled, inFlight, pruneIPs, due, hold, srv, unpruned, faults, probeVars>>
    BY <1>1 DEF FetchKnownGood, KeepKnownGood
  <2> QED
    BY <1>0, <2>1, <2>2, <2>3, <2>4 DEF TypeInv, TypeOK, probeVars, stateVars, Sending, Flushers
<1>2. ASSUME FetchKnownGoodFails \/ Reject \/ Lost
      PROVE  TypeInv' /\ UNCHANGED <<cancelled, now, latest, ready, feeder, queue, worker>>
  <2>1. /\ checks' \subseteq Checks /\ inFlight' = {} /\ flusher' \in Flushers
        /\ flusher'.pc \in {"wait", "gaveup", "final"}
    BY <1>2, Requeues DEF FetchKnownGoodFails, Reject, Lost
  <2>2. faults' \in 0..MaxFaults
    BY <1>2, FailsCount DEF FetchKnownGoodFails, Reject, Lost
  <2>3. UNCHANGED <<cancelled, knownGood, pruneIPs, due, hold, srv, unpruned, probeVars>>
    BY <1>2 DEF FetchKnownGoodFails, Reject, Lost
  <2> QED
    BY <1>0, <2>1, <2>2, <2>3 DEF TypeInv, TypeOK, probeVars, stateVars, Flushers
<1>3. ASSUME NEW pruned \in BOOLEAN, Commit(pruned)
      PROVE  TypeInv' /\ UNCHANGED <<cancelled, now, latest, ready, feeder, queue, worker>>
  <2>1. FilterChecks(inFlight) \in SUBSET Checks /\ inFlight \in SUBSET Checks
    BY <1>0, BatchParts DEF TypeOK
  <2>2. srv' \in [IPs -> ServerRows \cup {None}]
    BY <1>3, <2>1, Ingests DEF Commit
  <2>3. IPsOf(FilterChecks(inFlight)) \subseteq IPs
    BY <2>1, BatchParts
  <2>4. unpruned' \subseteq IPs
    BY <1>0, <1>3, <2>3 DEF Commit, TypeOK
  <2>5. faults' \in 0..MaxFaults
    BY <1>0, <1>3, FailsCount DEF Commit, TypeOK
  <2>6. flusher' \in Flushers /\ flusher'.pc = "sent" /\ flusher.pc = "send"
    BY <1>0, <1>3 DEF Commit, Flushers, FlusherPCs
  <2>7. UNCHANGED <<checks, cancelled, inFlight, knownGood, pruneIPs, due, hold, probeVars>>
    BY <1>3 DEF Commit
  <2> QED
    BY <1>0, <2>2, <2>4, <2>5, <2>6, <2>7 DEF TypeInv, TypeOK, probeVars, stateVars, Sending, Flushers
<1>4. ASSUME NEW readable \in BOOLEAN, Accepted(readable)
      PROVE  TypeInv' /\ UNCHANGED <<cancelled, now, latest, ready, feeder, queue, worker>>
  <2>1. FilterChecks(inFlight) \in SUBSET Checks /\ inFlight \in SUBSET Checks
    BY <1>0, BatchParts DEF TypeOK
  <2>2. states' \in [IPs -> States \cup {None}]
    BY <1>4, <2>1, Merges DEF Accepted
  <2>3. IPsOf(FilterChecks(inFlight)) \subseteq IPs /\ IPsOf(Successes(inFlight)) \subseteq IPs
    BY <2>1, BatchParts
  <2>4. pruneIPs' \subseteq IPs
    BY <1>0, <1>4, <2>3 DEF Accepted, RecordPruneCandidates, TypeOK
  <2>5. knownGood' \in SUBSET IPs
    BY <1>0, <1>4, <2>3 DEF Accepted, TypeInv, TypeOK
  <2>6. faults' \in 0..MaxFaults
    BY <1>0, <1>4, FailsCount DEF Accepted, TypeOK
  <2>7. due' \in BOOLEAN /\ hold' \in BOOLEAN
    BY <1>0, <1>4 DEF Accepted, TypeOK
  <2>8. PICK prune : prune = pruneIPs' /\ Return(TRUE, prune)
    BY <1>4 DEF Accepted
  <2>9. flusher' \in Flushers /\ flusher'.pc \in {"wait", "stopped", "gaveup", "final"}
    BY <1>0, <2>8, Returns
  <2>10. inFlight' = {} /\ UNCHANGED <<checks, cancelled, srv, unpruned, now, latest, ready, feeder, queue, worker>>
    BY <1>4 DEF Accepted
  <2> QED
    BY <1>0, <2>2, <2>4, <2>5, <2>6, <2>7, <2>9, <2>10 DEF TypeInv, TypeOK, Sending, Flushers
<1> QED
  BY <1>1, <1>2, <1>3, <1>4 DEF Flushing

\* The rest: time, timers, shutdown, visitors.
LEMMA OtherTypes ==
    ASSUME TypeInv,
           \/ MaintenanceDue \/ PruneRetryDue \/ Cancel \/ StartFinal \/ FinalTimeout \/ Tick
           \/ \E ip \in OnDemand, ok \in BOOLEAN : ProbeOnDemand(ip, ok)
    PROVE  TypeInv' /\ UNCHANGED <<checks, inFlight, knownGood, pruneIPs, unpruned, states, latest,
                                   ready, feeder, queue, worker>>
<1>0. TypeOK /\ flusher \in Flushers
  BY DEF TypeInv, TypeOK, Flushers
<1>1. CASE MaintenanceDue \/ PruneRetryDue \/ Cancel
  BY <1>0, <1>1 DEF MaintenanceDue, PruneRetryDue, Cancel, TypeInv, TypeOK, probeVars, stateVars, flushVars
<1>2. CASE StartFinal \/ FinalTimeout
  <2>1. flusher' \in Flushers /\ flusher'.pc \in {"final", "gaveup"} /\ flusher.pc \in {"wait", "final"}
    <3>1. CASE StartFinal
      <4>1. flusher' = [flusher EXCEPT !.pc = "final", !.attempt = 1] /\ flusher.pc = "wait"
        BY <3>1 DEF StartFinal, AllStopped
      <4>2. 1 \in 0..3 /\ "final" \in FlusherPCs
        BY DEF FlusherPCs
      <4> QED
        BY <1>0, <4>1, <4>2 DEF Flushers
    <3>2. CASE FinalTimeout
      BY <1>0, <3>2 DEF FinalTimeout, Flushers, FlusherPCs
    <3> QED
      BY <1>2, <3>1, <3>2
  <2>2. /\ UNCHANGED <<checks, cancelled, inFlight, knownGood, pruneIPs, hold, srv, unpruned, faults, probeVars>>
        /\ due' \in BOOLEAN
    BY <1>0, <1>2 DEF StartFinal, FinalTimeout, TypeOK
  <2> QED
    BY <1>0, <2>1, <2>2 DEF TypeInv, TypeOK, probeVars, stateVars, Sending, Flushers
<1>3. CASE Tick
  <2>1. now' \in Times
    BY <1>0, <1>3, ScannerAssumption DEF Tick, TypeOK, Times
  <2> QED
    BY <1>0, <1>3, <2>1 DEF Tick, TypeInv, TypeOK, stateVars, flushVars
<1>4. ASSUME NEW ip \in OnDemand, NEW ok \in BOOLEAN, ProbeOnDemand(ip, ok)
      PROVE  TypeInv' /\ UNCHANGED <<checks, inFlight, knownGood, pruneIPs, unpruned, states, latest,
                                     ready, feeder, queue, worker>>
  <2>a. ip \in IPs
    BY ScannerAssumption
  <2>b. now \in Times /\ now < MaxTime
    BY <1>0, <1>4 DEF ProbeOnDemand, TypeOK
  <2>0. ip \in IPs /\ now + 1 \in Times
    BY <2>a, <2>b, ScannerAssumption DEF Times
  <2>1. now' \in Times /\ srv \in [IPs -> ServerRows \cup {None}]
    BY <1>0, <1>4, <2>0 DEF ProbeOnDemand, TypeOK
  <2> DEFINE new == IF ok THEN [ok |-> TRUE, at |-> now + 1, last |-> now + 1]
                    ELSE IF srv[ip] # None THEN [srv[ip] EXCEPT !.ok = FALSE, !.at = now + 1]
                    ELSE None
  <2>2. new \in ServerRows \cup {None}
    BY <2>0, <2>1 DEF ServerRows
  <2>3. srv' = [srv EXCEPT ![ip] = new]
    BY <1>4 DEF ProbeOnDemand
  <2> HIDE DEF new
  <2>4. srv' \in [IPs -> ServerRows \cup {None}]
    BY <2>1, <2>2, <2>3
  <2>5. UNCHANGED <<checks, cancelled, inFlight, knownGood, pruneIPs, due, hold, flusher,
                    unpruned, faults, states, latest, ready, feeder, queue, worker>>
    BY <1>4 DEF ProbeOnDemand, stateVars
  <2> QED
    BY <1>0, <2>1, <2>4, <2>5 DEF TypeInv, TypeOK
<1> QED
  BY <1>1, <1>2, <1>3, <1>4

\* Every step keeps the types.
LEMMA TypeStep ==
    ASSUME TypeInv, [Next]_vars
    PROVE  TypeInv'
<1>1. CASE UNCHANGED vars
  BY <1>1 DEF vars, flushVars, probeVars, stateVars, TypeInv, TypeOK
<1>2. CASE Next
  BY <1>2, ProbeTypes, TakeTypes, FlushTypes, OtherTypes DEF Next
<1> QED
  BY <1>1, <1>2

\* The process starts in a state of these types.
LEMMA TypeStart == Init => TypeInv
<1> SUFFICES ASSUME Init PROVE TypeInv
  OBVIOUS
<1>1. 1 \in Times /\ 0 \in 0..MaxFaults
  BY ScannerAssumption DEF Times
<1>2. [ok : BOOLEAN, at : {1}, last : {1}] \subseteq ServerRows
  BY <1>1 DEF ServerRows
<1>3. srv \in [IPs -> ServerRows \cup {None}]
  BY <1>2 DEF Init
<1>4. flusher \in Flushers /\ flusher.pc = "wait"
  BY DEF Init, Flushers, FlusherPCs
<1>5. now \in Times /\ faults \in 0..MaxFaults
  BY <1>1 DEF Init
<1>6. /\ states \in [IPs -> States \cup {None}] /\ worker \in [Workers -> Jobs \cup {None}]
      /\ latest \in [IPs -> [ok : BOOLEAN, ts : Times] \cup {None}]
  BY DEF Init
<1>7. /\ checks = {} /\ inFlight = {} /\ ready = FALSE /\ knownGood = None /\ pruneIPs = {}
      /\ due = TRUE /\ hold = FALSE /\ feeder = None /\ queue = {} /\ cancelled = FALSE /\ unpruned = {}
  BY DEF Init
<1>8. TypeOK
  BY <1>3, <1>4, <1>5, <1>6, <1>7 DEF TypeOK, Flushers
<1> QED
  BY <1>4, <1>7, <1>8 DEF TypeInv

\* TypeInv holds in every state.
LEMMA TypeInvariant == Spec => []TypeInv
BY TypeStart, TypeStep, PTL DEF Spec

\* TypeOK holds in every state.
THEOREM TypeCorrect == Spec => []TypeOK
<1>1. TypeInv => TypeOK
  BY DEF TypeInv
<1> QED
  BY <1>1, TypeInvariant, PTL

-----------------------------------------------------------------------------
(* A full buffer wakes the flusher *)

\* A wake-up once given is kept while a flush is under way, which checks recorded
\* meanwhile rely on: runFlusher takes the buffer after it has taken the wake-up.
WakeInv ==
    Cardinality(checks) >= FlushSize
    /\ (flusher.pc \in Sending \/ (flusher.pc = "wait" /\ ~flusher.retry)) => ready

\* Every step keeps the wake-up of a full buffer.
LEMMA WakeStep ==
    ASSUME TypeInv, WakeInv, [Next]_vars
    PROVE  WakeInv'
<1>0. flusher \in Flushers
  BY DEF TypeInv, TypeOK, Flushers
<1>u. UNCHANGED <<checks, ready, flusher>> => WakeInv'
  BY DEF WakeInv
<1>1. ASSUME NEW w \in Workers, NEW ok \in BOOLEAN, Finish(w, ok) PROVE WakeInv'
  <2>1. /\ checks' # checks /\ Cardinality(checks') >= FlushSize => ready'
        /\ ready => ready'
        /\ flusher' = flusher
    BY <1>1, Finishes DEF flushVars
  <2>2. CASE checks' = checks
    BY <2>1, <2>2 DEF WakeInv
  <2>3. CASE checks' # checks
    BY <2>1, <2>3 DEF WakeInv
  <2> QED
    BY <2>2, <2>3
<1>2. CASE \/ \E w \in Workers, ip \in IPs : StartScan(w, ip)
           \/ \E w \in Workers, target \in queue : StartRecheck(w, target)
           \/ \E w \in Workers : FinishMixed(w)
           \/ FetchPool \/ SeedRecheckStates
  BY <1>2, <1>u DEF StartScan, StartRecheck, FinishMixed, FetchPool, SeedRecheckStates, flushVars
<1>3. CASE Trigger \/ FlushOnWake
  <2>1. inFlight = {} /\ \E maint \in BOOLEAN : Take(maint)
    BY <1>3, TakeTypes
  <2>2. checks' = {}
    BY <2>1, Takes
  <2>3. Cardinality(checks') = 0
    BY <2>2, FS_EmptySet
  <2> QED
    BY <2>3, ScannerAssumption DEF WakeInv
<1>4. CASE Flushing
  <2>0. ready' = ready
    BY <1>4, FlushTypes
  <2>1. CASE FetchKnownGoodFails \/ Reject \/ Lost
    <3>1. flusher'.retry /\ flusher'.pc \in {"wait", "gaveup", "final"}
      BY <2>1, Requeues DEF FetchKnownGoodFails, Reject, Lost
    <3> QED
      BY <3>1 DEF WakeInv, Sending
  <2>2. CASE ~(FetchKnownGoodFails \/ Reject \/ Lost)
    <3>1. checks' = checks /\ flusher.pc \in Sending
      BY <1>4, <2>2 DEF Flushing, FetchKnownGood, KeepKnownGood, Commit, Accepted, Sending
    <3> QED
      BY <2>0, <3>1 DEF WakeInv
  <2> QED
    BY <2>1, <2>2
<1>5. CASE \/ MaintenanceDue \/ PruneRetryDue \/ Cancel \/ Tick
           \/ \E ip \in OnDemand, ok \in BOOLEAN : ProbeOnDemand(ip, ok)
  BY <1>5, <1>u DEF MaintenanceDue, PruneRetryDue, Cancel, Tick, ProbeOnDemand, probeVars, flushVars
<1>6. CASE StartFinal \/ FinalTimeout
  <2>1. flusher'.pc \in {"final", "gaveup"}
    BY <1>0, <1>6 DEF StartFinal, FinalTimeout, Flushers
  <2> QED
    BY <2>1 DEF WakeInv, Sending
<1>7. CASE UNCHANGED vars
  BY <1>7, <1>u DEF vars, flushVars, probeVars
<1> QED
  BY <1>1, <1>2, <1>3, <1>4, <1>5, <1>6, <1>7 DEF Next, Probing

\* A full buffer is never left waiting for the ticker: unless the flusher is backing
\* off or already at work, a wake-up is pending (recordResultLocked, the wake channel).
THEOREM FullBufferSafe == Spec => []FullBufferWakes
<1>1. Init => WakeInv
  BY FS_EmptySet, ScannerAssumption DEF Init, WakeInv
<1>2. TypeInv /\ WakeInv /\ [Next]_vars => WakeInv'
  BY WakeStep
<1>3. WakeInv => FullBufferWakes
  BY DEF WakeInv, FullBufferWakes
<1> QED
  BY <1>1, <1>2, <1>3, TypeInvariant, PTL DEF Spec

-----------------------------------------------------------------------------
(* What the server has not pruned is remembered *)

\* The addresses of a batch that FilterChecks does not leave out.
StaysOf(batch, known) == {ip \in IPsOf(batch) : ip \in known \/ Successes(Of(batch, ip)) # {}}

Known == IF knownGood = None THEN {} ELSE knownGood

Stays(batch) == StaysOf(batch, Known)

\* Stronger than PruneRemembered, which is not inductive: a check that is requeued
\* counts only if no later submit can filter it out, so that known-good addresses must
\* be in the pool for ever; and once the server has pruned, what is left to prune is in
\* the buffer alone.
PruneInv ==
    /\ unpruned \subseteq pruneIPs \cup Stays(checks) \cup Stays(inFlight)
    /\ \A ip \in Known : ip \in IPs /\ srv[ip] # None
    /\ flusher.pc = "sent" =>
         \A ip \in IPs : Successes(Of(inFlight, ip)) # {} => srv[ip] # None
    /\ flusher.pc = "sent" /\ flusher.pruned /\ flusher.maint => unpruned \subseteq Stays(checks)

\* More checks or more known addresses leave out less.
LEMMA StaysGrows ==
    ASSUME NEW rows, NEW more, rows \subseteq more, NEW known, NEW larger, known \subseteq larger
    PROVE  StaysOf(rows, known) \subseteq StaysOf(more, larger)
<1>1. IPsOf(rows) \subseteq IPsOf(more)
  BY DEF IPsOf
<1>2. \A ip : Successes(Of(rows, ip)) \subseteq Successes(Of(more, ip))
  BY DEF Successes, Of
<1> QED
  BY <1>1, <1>2 DEF StaysOf

\* FilterChecks leaves out no address that was to stay: of its successes the latest
\* is kept.
LEMMA StaysFilter ==
    ASSUME TypeInv, knownGood # None, NEW rows \in SUBSET Checks
    PROVE  IPsOf(FilterChecks(rows)) = Stays(rows)
<1>1. ASSUME NEW c \in FilterChecks(rows) PROVE c.ip \in Stays(rows)
  <2>1. c \in rows /\ c.ip \in IPsOf(rows)
    BY DEF FilterChecks, IPsOf
  <2>2. CASE c.ok
    BY <2>1, <2>2 DEF Stays, StaysOf, Successes, Of
  <2>3. CASE ~c.ok
    BY <2>1, <2>3 DEF FilterChecks, Stays, StaysOf, Known
  <2> QED
    BY <2>2, <2>3
<1>2. ASSUME NEW ip \in Stays(rows) PROVE \E c \in FilterChecks(rows) : c.ip = ip
  <2>1. CASE Successes(Of(rows, ip)) # {}
    <3> DEFINE c == Latest(Successes(Of(rows, ip)))
    <3>1. c \in Successes(Of(rows, ip))
      BY <2>1, LatestIn, BatchParts
    <3> HIDE DEF c
    <3>2. c \in rows /\ c.ip = ip /\ c.ok
      BY <3>1 DEF Successes, Of
    <3>3. c = Latest(Successes(Of(rows, c.ip)))
      BY <3>2 DEF c
    <3> QED
      BY <3>2, <3>3 DEF FilterChecks
  <2>2. CASE Successes(Of(rows, ip)) = {}
    <3>1. PICK c \in rows : c.ip = ip
      BY DEF Stays, StaysOf, IPsOf
    <3>2. ip \in knownGood
      BY <2>2 DEF Stays, StaysOf, Known
    <3>3. ~c.ok
      BY <2>2, <3>1 DEF Successes, Of
    <3> QED
      BY <3>1, <3>2, <3>3 DEF FilterChecks
  <2> QED
    BY <2>1, <2>2
<1> QED
  BY <1>1, <1>2 DEF IPsOf

\* The server's commit: what it does not prune, the scanner still has.
LEMMA CommitRemembers ==
    ASSUME TypeInv, PruneInv, NEW pruned \in BOOLEAN, Commit(pruned)
    PROVE  PruneInv'
<1> DEFINE rows == FilterChecks(inFlight)
<1>0. /\ flusher.pc = "send" /\ knownGood # None /\ inFlight \in SUBSET Checks
      /\ flusher \in Flushers
  BY DEF Commit, TypeInv, TypeOK, Flushers
<1>1. rows \in SUBSET Checks
  BY <1>0, BatchParts
<1>2. IPsOf(rows) = Stays(inFlight)
  BY <1>0, StaysFilter
<1>3. /\ srv' = Ingested(rows) /\ UNCHANGED <<checks, inFlight, knownGood, pruneIPs>>
      /\ flusher' = [flusher EXCEPT !.pc = "sent", !.pruned = pruned]
      /\ unpruned' = (unpruned \cup {ip \in IPsOf(rows) : srv'[ip] # None})
                       \ (IF pruned THEN PruneCandidates ELSE {})
  BY DEF Commit
<1>4. flusher'.pc = "sent" /\ flusher'.pruned = pruned /\ flusher'.maint = flusher.maint
  BY <1>0, <1>3 DEF Flushers
<1>5. Stays(checks)' = Stays(checks) /\ Stays(inFlight)' = Stays(inFlight) /\ Known' = Known
  BY <1>3 DEF Stays, Known
<1>6. unpruned' \subseteq pruneIPs \cup Stays(checks) \cup Stays(inFlight)
  BY <1>2, <1>3 DEF PruneInv
<1>7. \A ip \in IPs : srv[ip] # None => srv'[ip] # None
  BY <1>1, <1>3, Ingests
<1>8. ASSUME NEW ip \in IPs, Successes(Of(inFlight, ip)) # {} PROVE srv'[ip] # None
  <2> DEFINE c == Latest(Successes(Of(inFlight, ip)))
  <2>1. c \in Successes(Of(inFlight, ip))
    BY <1>0, <1>8, LatestIn, BatchParts
  <2> HIDE DEF c
  <2>2. c \in inFlight /\ c.ip = ip /\ c.ok
    BY <2>1 DEF Successes, Of
  <2>3. c = Latest(Successes(Of(inFlight, c.ip)))
    BY <2>2 DEF c
  <2>4. c \in rows
    BY <2>2, <2>3 DEF FilterChecks
  <2>5. Successes(Of(rows, ip)) # {}
    BY <2>2, <2>4 DEF Successes, Of
  <2> QED
    BY <1>1, <1>3, <2>5, Ingests
<1>9. ASSUME pruned, flusher.maint PROVE unpruned' \subseteq Stays(checks)
  <2>1. PruneCandidates = pruneIPs \cup IPsOf(rows)
    BY <1>9 DEF PruneCandidates
  <2> QED
    BY <1>2, <1>3, <1>6, <1>9, <2>1
<1> HIDE DEF rows
<1> QED
  BY <1>3, <1>4, <1>5, <1>6, <1>7, <1>8, <1>9 DEF PruneInv

\* The response: only a completed maintenance clears the candidates, and then the
\* server has nothing left to prune but what the buffer has.
LEMMA AcceptedRemembers ==
    ASSUME TypeInv, PruneInv, NEW readable \in BOOLEAN, Accepted(readable)
    PROVE  PruneInv'
<1> DEFINE rows == FilterChecks(inFlight)
           complete == flusher.maint /\ flusher.pruned /\ readable
<1>0. /\ flusher.pc = "sent" /\ knownGood # None /\ inFlight \in SUBSET Checks
      /\ flusher \in Flushers /\ knownGood \subseteq IPs
  BY DEF Accepted, TypeInv, TypeOK, Flushers
<1>2. IPsOf(rows) = Stays(inFlight)
  BY <1>0, StaysFilter
<1>3. /\ pruneIPs' = IF complete THEN {} ELSE pruneIPs \cup IPsOf(rows)
      /\ knownGood' = knownGood \cup IPsOf(Successes(inFlight))
      /\ inFlight' = {} /\ UNCHANGED <<checks, srv, unpruned>>
  BY DEF Accepted, RecordPruneCandidates
<1>4. PICK prune : Return(TRUE, prune)
  BY DEF Accepted
<1>5. flusher'.pc # "sent"
  BY <1>0, <1>4, Returns
<1>6. knownGood' # None
  <2>1. knownGood' \in SUBSET IPs
    BY <1>0, <1>3, BatchParts
  <2> QED
    BY <2>1, ScannerNoneAssumption
<1>7. Known' = Known \cup IPsOf(Successes(inFlight))
  BY <1>0, <1>3, <1>6 DEF Known
<1>8. Stays(checks) \subseteq Stays(checks)'
  <2>1. Stays(checks)' = StaysOf(checks, Known')
    BY <1>3 DEF Stays
  <2>2. Known \subseteq Known'
    BY <1>7
  <2> HIDE DEF rows, complete
  <2>3. StaysOf(checks, Known) \subseteq StaysOf(checks, Known')
    BY <2>2, StaysGrows
  <2> QED
    BY <2>1, <2>3 DEF Stays
<1>9. unpruned \subseteq pruneIPs' \cup Stays(checks)
  <2>1. CASE complete
    BY <1>0, <2>1 DEF PruneInv
  <2>2. CASE ~complete
    BY <1>2, <1>3, <2>2 DEF PruneInv
  <2> QED
    BY <2>1, <2>2
<1>10. ASSUME NEW ip \in IPsOf(Successes(inFlight)) PROVE ip \in IPs /\ srv[ip] # None
  <2>1. PICK c \in inFlight : c.ok /\ c.ip = ip
    BY DEF IPsOf, Successes
  <2>2. ip \in IPs
    BY <1>0, <2>1 DEF Checks
  <2>3. c \in Successes(Of(inFlight, ip))
    BY <2>1 DEF Successes, Of
  <2> QED
    BY <1>0, <2>2, <2>3 DEF PruneInv
<1> HIDE DEF rows, complete
<1> QED
  BY <1>3, <1>5, <1>7, <1>8, <1>9, <1>10 DEF PruneInv

\* Steps under which nothing is forgotten: the buffer grows, more is known, addresses
\* stay in the pool, and no request has been committed.
LEMMA Remembers ==
    ASSUME PruneInv, checks \subseteq checks', inFlight \subseteq inFlight' \cup checks',
           \/ inFlight' = inFlight
           \/ inFlight \subseteq checks' /\ inFlight' = {},
           Known \subseteq Known', \A ip \in Known' : ip \in IPs /\ srv'[ip] # None,
           UNCHANGED <<pruneIPs, unpruned>>, flusher'.pc # "sent"
    PROVE  PruneInv'
<1>1. StaysOf(checks, Known) \subseteq StaysOf(checks', Known')
  BY StaysGrows
<1>2. inFlight' = inFlight => StaysOf(inFlight, Known) \subseteq StaysOf(inFlight', Known')
  BY StaysGrows
<1>3. inFlight \subseteq checks' => StaysOf(inFlight, Known) \subseteq StaysOf(checks', Known')
  BY StaysGrows
<1>4. Stays(checks)' = StaysOf(checks', Known') /\ Stays(inFlight)' = StaysOf(inFlight', Known')
  BY DEF Stays
<1>5. unpruned' \subseteq (pruneIPs \cup Stays(checks) \cup Stays(inFlight))'
  BY <1>1, <1>2, <1>3, <1>4 DEF PruneInv, Stays
<1> QED
  BY <1>5 DEF PruneInv

\* Every step remembers what has to be pruned.
LEMMA PruneStep ==
    ASSUME TypeInv, PruneInv, [Next]_vars
    PROVE  PruneInv'
<1>0. /\ flusher \in Flushers /\ checks \in SUBSET Checks /\ inFlight \in SUBSET Checks
      /\ srv \in [IPs -> ServerRows \cup {None}] /\ OnDemand \subseteq IPs
  BY ScannerAssumption DEF TypeInv, TypeOK, Flushers
<1>k. knownGood' = knownGood => Known' = Known
  BY DEF Known
<1>g. ASSUME checks \subseteq checks',
             UNCHANGED <<inFlight, knownGood, pruneIPs, unpruned>>,
             \A ip \in IPs : srv[ip] # None => srv'[ip] # None,
             flusher'.pc = "sent" => UNCHANGED flusher
      PROVE  PruneInv'
  <2>0. Known' = Known
    BY <1>g DEF Known
  <2>1. StaysOf(checks, Known) \subseteq StaysOf(checks', Known)
    BY <1>g, StaysGrows
  <2>2. Stays(checks)' = StaysOf(checks', Known) /\ Stays(inFlight)' = Stays(inFlight)
    BY <1>g, <2>0 DEF Stays
  <2>3. Stays(checks) \subseteq Stays(checks)'
    BY <2>1, <2>2 DEF Stays
  <2> QED
    BY <1>g, <2>0, <2>2, <2>3 DEF PruneInv
<1>1. ASSUME NEW w \in Workers, NEW ok \in BOOLEAN, Finish(w, ok) PROVE PruneInv'
  <2>1. UNCHANGED flushVars /\ checks \subseteq checks'
    BY <1>1, Finishes
  <2> QED
    BY <1>g, <2>1 DEF flushVars
<1>2. CASE \/ \E w \in Workers, ip \in IPs : StartScan(w, ip)
           \/ \E w \in Workers, target \in queue : StartRecheck(w, target)
           \/ \E w \in Workers : FinishMixed(w)
           \/ FetchPool \/ SeedRecheckStates
  BY <1>2, <1>g DEF StartScan, StartRecheck, FinishMixed, FetchPool, SeedRecheckStates, flushVars
<1>3. CASE Trigger \/ FlushOnWake
  <2>1. inFlight = {} /\ \E maint \in BOOLEAN : Take(maint)
    BY <1>3, TakeTypes
  <2>2. /\ checks' = {} /\ checks' \cup inFlight' = checks
        /\ flusher'.pc \notin {"send", "sent"}
    BY <2>1, Takes
  <2>3. UNCHANGED <<knownGood, pruneIPs, srv, unpruned>>
    BY <1>3 DEF Trigger, FlushOnTick, FlushOnWake, FlushOnRetry, FinalAttempt
  <2>4. Stays(inFlight)' = Stays(checks) /\ Known' = Known
    BY <2>2, <2>3 DEF Stays, Known
  <2>5. Stays(inFlight) = {}
    BY <2>1 DEF Stays, StaysOf, IPsOf
  <2> QED
    BY <2>2, <2>3, <2>4, <2>5 DEF PruneInv
<1>4. CASE FetchKnownGood
  <2>1. /\ UNCHANGED <<checks, inFlight, pruneIPs, srv, unpruned>> /\ flusher'.pc = "send"
        /\ knownGood' = {ip \in IPs : InPool(ip)}
    BY <1>0, <1>4 DEF FetchKnownGood, Flushers
  <2>2. knownGood' # None
    BY <2>1, ScannerNoneAssumption
  <2>3. Known' = {ip \in IPs : srv[ip] # None}
    BY <2>1, <2>2 DEF Known, InPool
  <2>4. Known \subseteq Known' /\ \A ip \in Known' : ip \in IPs /\ srv'[ip] # None
    BY <2>1, <2>3 DEF PruneInv
  <2> QED
    BY <2>1, <2>4, Remembers
<1>5. CASE KeepKnownGood
  <2>1. /\ UNCHANGED <<checks, inFlight, knownGood, pruneIPs, srv, unpruned>> /\ flusher'.pc = "send"
    BY <1>0, <1>5 DEF KeepKnownGood, Flushers
  <2> QED
    BY <1>g, <2>1
<1>6. CASE FetchKnownGoodFails \/ Reject \/ Lost
  <2>1. checks' = checks \cup inFlight /\ inFlight' = {} /\ flusher'.pc \in {"wait", "gaveup", "final"}
    BY <1>6, Requeues DEF FetchKnownGoodFails, Reject, Lost
  <2>2. UNCHANGED <<knownGood, pruneIPs, srv, unpruned>>
    BY <1>6 DEF FetchKnownGoodFails, Reject, Lost
  <2>3. Known' = Known /\ \A ip \in Known' : ip \in IPs /\ srv'[ip] # None
    BY <2>2 DEF Known, PruneInv
  <2> QED
    BY <2>1, <2>2, <2>3, Remembers
<1>7. ASSUME NEW pruned \in BOOLEAN, Commit(pruned) PROVE PruneInv'
  BY <1>7, CommitRemembers
<1>8. ASSUME NEW readable \in BOOLEAN, Accepted(readable) PROVE PruneInv'
  BY <1>8, AcceptedRemembers
<1>9. CASE MaintenanceDue \/ PruneRetryDue \/ Cancel \/ Tick
  BY <1>9, <1>g DEF MaintenanceDue, PruneRetryDue, Cancel, Tick, probeVars, flushVars
<1>10. CASE StartFinal \/ FinalTimeout
  <2>1. flusher'.pc \in {"final", "gaveup"}
    BY <1>0, <1>10 DEF StartFinal, FinalTimeout, Flushers
  <2> QED
    BY <1>10, <1>g, <2>1 DEF StartFinal, FinalTimeout, probeVars
<1>11. ASSUME NEW ip \in OnDemand, NEW ok \in BOOLEAN, ProbeOnDemand(ip, ok) PROVE PruneInv'
  <2>1. UNCHANGED <<checks, inFlight, knownGood, pruneIPs, unpruned, flusher>>
    BY <1>11 DEF ProbeOnDemand
  <2>2. now + 1 \in Times
    BY <1>11, ScannerAssumption DEF ProbeOnDemand, TypeInv, TypeOK, Times
  <2>3. srv[ip] # None => [srv[ip] EXCEPT !.ok = FALSE, !.at = now + 1] \in ServerRows
    BY <1>0, <2>2 DEF ServerRows
  <2>4. [ok |-> TRUE, at |-> now + 1, last |-> now + 1] \in ServerRows
    BY <2>2 DEF ServerRows
  <2>5. \A i \in IPs : srv[i] # None => srv'[i] # None
    BY <1>0, <1>11, <2>3, <2>4, ScannerNoneAssumption DEF ProbeOnDemand
  <2> QED
    BY <1>g, <2>1, <2>5
<1>12. CASE UNCHANGED vars
  BY <1>12, <1>g DEF vars, flushVars, probeVars
<1> QED
  BY <1>1, <1>2, <1>3, <1>4, <1>5, <1>6, <1>7, <1>8, <1>9, <1>10, <1>11, <1>12
  DEF Next, Probing, Flushing

\* PruneInv holds in every state.
LEMMA PruneInvariant == Spec => []PruneInv
<1>1. Init => PruneInv
  BY DEF Init, PruneInv, Known
<1>2. TypeInv /\ PruneInv /\ [Next]_vars => PruneInv'
  BY PruneStep
<1> QED
  BY <1>1, <1>2, TypeInvariant, PTL DEF Spec

\* An address with rows the server has not pruned since is remembered, as a candidate
\* or through a check that will be submitted again, across failed submits, failed
\* prunes, truncated and lost responses (pruneCandidates, requeue).
THEOREM PruneSafe == Spec => []PruneRemembered
<1>1. PruneInv => PruneRemembered
  <2>1. Stays(checks) \subseteq IPsOf(checks) /\ Stays(inFlight) \subseteq IPsOf(inFlight)
    BY DEF Stays, StaysOf
  <2>2. IPsOf(checks \cup inFlight) = IPsOf(checks) \cup IPsOf(inFlight)
    BY DEF IPsOf
  <2> QED
    BY <2>1, <2>2 DEF PruneInv, PruneRemembered
<1> QED
  BY <1>1, PruneInvariant, PTL

-----------------------------------------------------------------------------
(* Nothing is left behind *)

\* From wg.Wait on there is no worker that could add to the buffer, so that what
\* flushFinal has taken is all there is.
StopInv ==
    /\ flusher.attempt # 0 =>
         /\ cancelled
         /\ \A w \in Workers : worker[w] = None
         /\ flusher.pc \in Sending => checks = {}
    /\ flusher.pc = "wait" => flusher.attempt = 0
    /\ flusher.pc \in {"final", "stopped", "gaveup"} => flusher.attempt # 0
    /\ flusher.pc = "stopped" => checks = {} /\ pruneIPs = {}

\* Every step keeps what flushFinal may rely on.
LEMMA StopStep ==
    ASSUME TypeInv, StopInv, [Next]_vars
    PROVE  StopInv'
<1>0. flusher \in Flushers /\ worker \in [Workers -> Jobs \cup {None}] /\ flusher' \in Flushers
  BY TypeStep DEF TypeInv, TypeOK, Flushers
<1>u. UNCHANGED <<checks, cancelled, flusher, worker, pruneIPs>> => StopInv'
  BY DEF StopInv
<1>1. ASSUME flusher.attempt # 0, NEW w \in Workers, worker[w] # None \/ ~cancelled PROVE FALSE
  BY <1>1 DEF StopInv
<1>2. CASE \/ \E w \in Workers, ip \in IPs : StartScan(w, ip)
           \/ \E w \in Workers, target \in queue : StartRecheck(w, target)
           \/ \E w \in Workers : Probing(w)
  <2>1. flusher.attempt = 0
    BY <1>1, <1>2 DEF StartScan, StartRecheck, Probing, FinishMixed, Finish
  <2>2. UNCHANGED flushVars
    BY <1>2, ProbeTypes
  <2>3. flusher' = flusher
    BY <2>2 DEF flushVars
  <2> QED
    BY <2>1, <2>3 DEF StopInv
<1>3. CASE FetchPool \/ SeedRecheckStates
  BY <1>3, <1>u DEF FetchPool, SeedRecheckStates, flushVars
<1>4. CASE Trigger \/ FlushOnWake
  <2>1. inFlight = {} /\ \E maint \in BOOLEAN : Take(maint)
    BY <1>4, TakeTypes
  <2>2. /\ checks' = {}
        /\ flusher.attempt = 0 <=> flusher'.attempt = 0
        /\ flusher'.pc = "wait" => flusher.attempt = 0
        /\ flusher'.pc = "stopped" => pruneIPs = {}
    BY <2>1, Takes
  <2>3. UNCHANGED <<cancelled, pruneIPs, worker>>
    BY <1>4 DEF Trigger, FlushOnTick, FlushOnWake, FlushOnRetry, FinalAttempt, probeVars
  <2>4. flusher'.pc \in {"final", "stopped", "gaveup"} => flusher.attempt # 0
    <3>1. flusher.attempt = 0 => flusher'.pc \in {"wait", "fetch"}
      <4>1. PICK maint \in BOOLEAN : Take(maint)
        BY <2>1
      <4>2. CASE Return(TRUE, pruneIPs)
        BY <1>0, <4>2, Returns
      <4>3. CASE flusher' = [flusher EXCEPT !.pc = "fetch", !.maint = maint]
        BY <1>0, <4>3 DEF Flushers
      <4> QED
        BY <4>1, <4>2, <4>3 DEF Take
    <3> QED
      BY <3>1
  <2> QED
    BY <2>2, <2>3, <2>4 DEF StopInv
<1>5. CASE FetchKnownGood \/ KeepKnownGood \/ \E pruned \in BOOLEAN : Commit(pruned)
  <2>1. /\ flusher'.pc \in Sending /\ flusher.pc \in Sending
        /\ flusher'.attempt = flusher.attempt
    BY <1>0, <1>5 DEF FetchKnownGood, KeepKnownGood, Commit, Flushers, Sending
  <2>2. UNCHANGED <<checks, cancelled, worker, pruneIPs>>
    BY <1>5 DEF FetchKnownGood, KeepKnownGood, Commit, probeVars
  <2> QED
    BY <2>1, <2>2 DEF StopInv, Sending
<1>6. CASE FetchKnownGoodFails \/ Reject \/ Lost
  <2>1. /\ flusher'.pc \in {"wait", "gaveup", "final"}
        /\ flusher.attempt = 0 <=> flusher'.attempt = 0
        /\ flusher.attempt = 0 <=> flusher'.pc = "wait"
    BY <1>6, Requeues DEF FetchKnownGoodFails, Reject, Lost
  <2>2. UNCHANGED <<cancelled, worker>>
    BY <1>6 DEF FetchKnownGoodFails, Reject, Lost, probeVars
  <2> QED
    BY <2>1, <2>2 DEF StopInv, Sending
<1>7. ASSUME NEW readable \in BOOLEAN, Accepted(readable) PROVE StopInv'
  <2>1. PICK prune : prune = pruneIPs' /\ Return(TRUE, prune)
    BY <1>7 DEF Accepted
  <2>2. /\ flusher'.pc \in {"wait", "stopped", "gaveup", "final"}
        /\ flusher.attempt = 0 <=> flusher'.attempt = 0
        /\ flusher.attempt = 0 <=> flusher'.pc = "wait"
        /\ flusher'.pc = "stopped" => pruneIPs' = {}
    BY <1>0, <2>1, Returns
  <2>3. UNCHANGED <<checks, cancelled, worker>> /\ flusher.pc \in Sending
    BY <1>7 DEF Accepted, Sending
  <2> QED
    BY <2>2, <2>3 DEF StopInv, Sending
<1>8. CASE \/ MaintenanceDue \/ PruneRetryDue \/ Tick
           \/ \E ip \in OnDemand, ok \in BOOLEAN : ProbeOnDemand(ip, ok)
  BY <1>8, <1>u DEF MaintenanceDue, PruneRetryDue, Tick, ProbeOnDemand, probeVars, flushVars
<1>9. CASE Cancel
  <2>1. cancelled' /\ UNCHANGED <<checks, flusher, worker, pruneIPs>>
    BY <1>9 DEF Cancel, flushVars, probeVars
  <2> QED
    BY <2>1 DEF StopInv
<1>10. CASE StartFinal
  <2>1. cancelled /\ (\A w \in Workers : worker[w] = None) /\ flusher' = [flusher EXCEPT !.pc = "final", !.attempt = 1]
    BY <1>10 DEF StartFinal, AllStopped
  <2>2. flusher'.pc = "final" /\ flusher'.attempt = 1
    BY <1>0, <2>1 DEF Flushers
  <2>3. UNCHANGED <<cancelled, worker>>
    BY <1>10 DEF StartFinal, probeVars
  <2> QED
    BY <2>1, <2>2, <2>3 DEF StopInv, Sending
<1>11. CASE FinalTimeout
  <2>1. flusher.attempt = 3 /\ flusher'.pc = "gaveup" /\ flusher'.attempt = 3
    BY <1>0, <1>11 DEF FinalTimeout, Flushers
  <2>2. UNCHANGED <<checks, cancelled, worker, pruneIPs>>
    BY <1>11 DEF FinalTimeout, probeVars
  <2> QED
    BY <2>1, <2>2 DEF StopInv, Sending
<1>12. CASE UNCHANGED vars
  BY <1>12, <1>u DEF vars, flushVars, probeVars
<1> QED
  BY <1>2, <1>3, <1>4, <1>5, <1>6, <1>7, <1>8, <1>9, <1>10, <1>11, <1>12 DEF Next, Flushing

\* When Run returns without having given up, nothing is left behind: "no late check
\* can miss the drain" (Run, flushFinal).
THEOREM StopSafe == Spec => []StopsEmpty
<1>1. Init => StopInv
  BY DEF Init, StopInv
<1>2. TypeInv /\ StopInv /\ [Next]_vars => StopInv'
  BY StopStep
<1>3. TypeInv /\ PruneInv /\ StopInv => StopsEmpty
  <2> SUFFICES ASSUME TypeInv, PruneInv, StopInv, flusher.pc = "stopped"
               PROVE  Drained /\ pruneIPs = {} /\ unpruned = {}
    BY DEF StopsEmpty
  <2>1. checks = {} /\ inFlight = {} /\ pruneIPs = {}
    BY DEF StopInv, TypeInv, Sending
  <2>2. Stays(checks) = {} /\ Stays(inFlight) = {}
    BY <2>1 DEF Stays, StaysOf, IPsOf
  <2> QED
    BY <2>1, <2>2 DEF PruneInv, Drained
<1> QED
  BY <1>1, <1>2, <1>3, TypeInvariant, PruneInvariant, PTL DEF Spec

-----------------------------------------------------------------------------
(* Statuses and heartbeats: the invariant *)

\* Result times: every one is its own, no batch overtakes another, and a recheck
\* always finds a state, so that the feeder's word for an unknown address never
\* decides.
OrderInv ==
    /\ now >= 1
    /\ \A c \in checks \cup inFlight : 2 <= c.ts /\ c.ts <= now
    /\ \A c, d \in checks \cup inFlight : c.ts = d.ts => c = d
    /\ flusher.pc \in Sending => \A c \in inFlight, d \in checks : c.ts < d.ts
    /\ \A t \in queue : states[t.ip] # None
    /\ \A w \in Workers : worker[w] # None /\ worker[w].kind = "recheck"
                            => states[worker[w].target.ip] # None

\* The batch that the next commit takes, or has taken.
Front == IF flusher.pc \in Sending THEN inFlight ELSE checks

\* What the server will show of an address once the buffer is drained.
Status(ip) == IF Pending(ip) # {} THEN Latest(Pending(ip)).ok ELSE srv[ip].ok

\* The successes of an address that the server has or is about to get.
Marks(ip) == {c.ts : c \in Successes(Pending(ip))} \cup {srv[i].last : i \in {i \in {ip} : InPool(i)}}

\* A known state has the status the server will show, and does not make more of a
\* success than the server can know.
StateOK(ip) ==
    states[ip] # None =>
      /\ states[ip].lastOK = Status(ip)
      /\ InPool(ip) \/ Successes(Pending(ip)) # {}
      /\ \A m \in Marks(ip) : m <= states[ip].lastResultAt
      /\ states[ip].lastResultAt <= now
      /\ states[ip].lastSuccess # 0 => \E m \in Marks(ip) : states[ip].lastSuccess <= m

\* Without a state there has been no success since the process started.
StatelessOK(ip) ==
    states[ip] = None =>
      /\ Successes(Pending(ip)) = {}
      /\ latest[ip] # None => ~latest[ip].ok
      /\ InPool(ip) => srv[ip].last = 1

LatestOK(ip) ==
    latest[ip] # None =>
      /\ InPool(ip) \/ Pending(ip) # {} => Status(ip) = latest[ip].ok
      /\ latest[ip].ok => \E m \in Marks(ip) : latest[ip].ts - m < Heartbeat

\* A pool that has been fetched may be stale, but not newer than what is known.
FeederOK(ip) ==
    feeder # None => \A t \in feeder : t.ip = ip =>
      /\ InPool(ip)
      /\ \E m \in Marks(ip) : t.last <= m
      /\ states[ip] = None => t.last = 1 /\ (Pending(ip) # {} \/ srv[ip].ok)

\* What a commit has made of an address.
SentOK(ip) ==
    flusher.pc = "sent" =>
      /\ InPool(ip) /\ Of(inFlight, ip) # {} => srv[ip].ok = Latest(Of(inFlight, ip)).ok
      /\ \A c \in Successes(Of(inFlight, ip)) : InPool(ip) /\ c.ts <= srv[ip].last

\* What is submitted again, because the response was lost, goes first.
FrontOK(ip) ==
    InPool(ip) =>
      /\ knownGood # None => ip \in knownGood \/ Successes(Of(Front, ip)) # {}
      /\ \A c \in Successes(Pending(ip)) :
           srv[ip].last <= c.ts \/ \E d \in Successes(Of(Front, ip)) : d.ts = srv[ip].last

AgreeInv(ip) ==
    StateOK(ip) /\ StatelessOK(ip) /\ LatestOK(ip) /\ FeederOK(ip) /\ SentOK(ip) /\ FrontOK(ip)

AllAgree == \A ip \in IPs \ OnDemand : AgreeInv(ip)

-----------------------------------------------------------------------------
(* The latest of a batch *)

Distinct(rows) == \A c, d \in rows : c.ts = d.ts => c = d

\* With distinct times there is one latest check.
LEMMA LatestIs ==
    ASSUME NEW rows \in SUBSET Checks, Distinct(rows), NEW c \in rows, \A d \in rows : d.ts <= c.ts
    PROVE  Latest(rows) = c
<1>1. Latest(rows) \in rows /\ c.ts <= Latest(rows).ts
  BY LatestIn
<1>2. Latest(rows).ts <= c.ts
  BY <1>1
<1>3. \A d \in rows : d.ts \in Nat
  BY ScannerAssumption DEF Checks, Times
<1>4. c.ts \in Nat /\ Latest(rows).ts \in Nat
  BY <1>1, <1>3
<1>5. Latest(rows).ts = c.ts
  BY <1>1, <1>2, <1>4
<1> QED
  BY <1>1, <1>5 DEF Distinct

\* The latest of two parts, of which one is later throughout.
LEMMA LatestLater ==
    ASSUME NEW old \in SUBSET Checks, NEW new \in SUBSET Checks, new # {},
           \A c \in old, d \in new : c.ts < d.ts, Distinct(old \cup new)
    PROVE  Latest(old \cup new) = Latest(new)
<1> DEFINE c == Latest(new)
<1>1. c \in new /\ \A d \in new : d.ts <= c.ts
  BY LatestIn
<1>2. \A d \in old \cup new : d.ts \in Nat
  BY ScannerAssumption DEF Checks, Times
<1> HIDE DEF c
<1>3. \A d \in old : d.ts <= c.ts
  BY <1>1, <1>2
<1>4. Latest(old \cup new) = c
  BY <1>1, <1>3, LatestIs
<1> QED
  BY <1>4 DEF c

\* A batch taken apart by address and by result.
LEMMA PartsJoin ==
    ASSUME NEW a, NEW b, NEW ip
    PROVE  /\ Of(a \cup b, ip) = Of(a, ip) \cup Of(b, ip)
           /\ Successes(a \cup b) = Successes(a) \cup Successes(b)
           /\ Successes(Of(a \cup b, ip)) = Successes(Of(a, ip)) \cup Successes(Of(b, ip))
           /\ Of({}, ip) = {} /\ Successes({}) = {}
BY DEF Of, Successes

\* FilterChecks leaves out all the checks of an address or none but earlier successes:
\* what is left has the latest check and the latest success of the batch.
LEMMA FilterKeeps ==
    ASSUME TypeInv, NEW rows \in SUBSET Checks, Distinct(rows), NEW ip \in IPs, Of(rows, ip) # {}
    PROVE  /\ (ip \in knownGood \/ Successes(Of(rows, ip)) # {})
              => /\ Of(FilterChecks(rows), ip) # {}
                 /\ Latest(Of(FilterChecks(rows), ip)) = Latest(Of(rows, ip))
           /\ ~(ip \in knownGood) /\ Successes(Of(rows, ip)) = {} => Of(FilterChecks(rows), ip) = {}
           /\ Successes(Of(rows, ip)) # {}
              => /\ Successes(Of(FilterChecks(rows), ip)) # {}
                 /\ Latest(Successes(Of(FilterChecks(rows), ip))) = Latest(Successes(Of(rows, ip)))
           /\ Successes(Of(FilterChecks(rows), ip)) # {} => Successes(Of(rows, ip)) # {}
<1> DEFINE mine == Of(rows, ip)
           good == Successes(mine)
           kept == Of(FilterChecks(rows), ip)
<1>0. /\ mine \in SUBSET Checks /\ good \in SUBSET Checks /\ good \subseteq mine
      /\ FilterChecks(rows) \in SUBSET Checks /\ kept \in SUBSET Checks
      /\ Successes(kept) \in SUBSET Checks
  BY BatchParts
<1>1. kept = {c \in mine : IF c.ok THEN c = Latest(good) ELSE ip \in knownGood \/ good # {}}
  BY DEF FilterChecks, Of
<1>2. good = {c \in mine : c.ok} /\ Successes(kept) = {c \in kept : c.ok}
  BY DEF Successes
<1>3. Distinct(mine) /\ Distinct(good) /\ Distinct(kept) /\ Distinct(Successes(kept))
  BY <1>1, <1>2 DEF Distinct, Of
<1>4. Latest(mine) \in mine /\ \A d \in mine : d.ts <= Latest(mine).ts
  BY <1>0, LatestIn
<1>5. good # {} => Latest(good) \in good /\ \A d \in good : d.ts <= Latest(good).ts
  BY <1>0, LatestIn
<1>6. \A d \in mine : d.ts \in Nat
  BY <1>0, ScannerAssumption DEF Checks, Times
<1> HIDE DEF mine, good, kept
<1>7. ASSUME ip \in knownGood \/ good # {}
      PROVE  kept # {} /\ Latest(kept) = Latest(mine)
  <2>1. Latest(mine) \in kept
    <3>1. CASE Latest(mine).ok
      <4>1. Latest(mine) \in good
        BY <1>2, <1>4, <3>1
      <4>2. Latest(good) = Latest(mine)
        BY <1>0, <1>2, <1>3, <1>4, <4>1, LatestIs
      <4> QED
        BY <1>1, <1>4, <3>1, <4>2
    <3>2. CASE ~Latest(mine).ok
      BY <1>1, <1>4, <1>7, <3>2
    <3> QED
      BY <3>1, <3>2
  <2>2. \A d \in kept : d.ts <= Latest(mine).ts
    BY <1>1, <1>4
  <2> QED
    BY <1>0, <1>3, <2>1, <2>2, LatestIs
<1>8. ~(ip \in knownGood) /\ good = {} => kept = {}
  BY <1>1, <1>2
<1>9. ASSUME good # {}
      PROVE  Successes(kept) # {} /\ Latest(Successes(kept)) = Latest(good)
  <2>1. Latest(good) \in Successes(kept)
    BY <1>1, <1>2, <1>5, <1>9
  <2>2. \A d \in Successes(kept) : d.ts <= Latest(good).ts
    BY <1>1, <1>2, <1>5, <1>9
  <2> QED
    BY <1>0, <1>3, <2>1, <2>2, LatestIs
<1>10. Successes(kept) # {} => good # {}
  BY <1>1, <1>2
<1> QED
  BY <1>7, <1>8, <1>9, <1>10 DEF mine, good, kept

-----------------------------------------------------------------------------
(* What the steps do to one address *)

\* A result that is not worth a row repeats a success that is recent.
LEMMA Suppressed ==
    ASSUME NEW state \in States, NEW ok \in BOOLEAN, NEW ts \in Times, ~Persist(state, ok, ts)
    PROVE  ok /\ state.lastOK /\ state.lastSuccess # 0 /\ ~(ts - state.lastSuccess >= Heartbeat)
BY DEF Persist, States

\* A probe of an address says what becomes of its state.
LEMMA FinishState ==
    ASSUME TypeInv, OrderInv, NEW w \in Workers, NEW ok \in BOOLEAN, Finish(w, ok),
           NEW ip \in IPs, worker[w].target.ip = ip
    PROVE  \/ /\ states[ip] = None /\ ~ok /\ states'[ip] = None
              /\ checks' = checks \cup {Result(ip, ok)}
           \/ /\ states'[ip] \in States
              /\ states'[ip].lastOK = ok /\ states'[ip].lastResultAt = now + 1
              /\ checks' = checks \cup {Result(ip, ok)}
              /\ states'[ip].lastSuccess = IF ok THEN now + 1 ELSE states[ip].lastSuccess
              /\ ok \/ states[ip] # None
           \/ /\ states[ip] # None /\ states'[ip] \in States
              /\ ok /\ states[ip].lastOK /\ states[ip].lastSuccess # 0
              /\ ~(now + 1 - states[ip].lastSuccess >= Heartbeat)
              /\ states'[ip].lastOK /\ states'[ip].lastResultAt = now + 1
              /\ checks' = checks
              /\ states'[ip].lastSuccess = states[ip].lastSuccess
<1>0. /\ worker \in [Workers -> Jobs \cup {None}] /\ now \in Times /\ now + 1 \in Times
      /\ states \in [IPs -> States \cup {None}]
  BY ScannerAssumption DEF Finish, TypeInv, TypeOK, Times
<1>1. worker[w] \in Jobs /\ worker[w].target \in Targets /\ worker[w].kind \in {"scan", "recheck"}
  BY <1>0 DEF Finish, Jobs
<1>2. CASE worker[w].kind = "scan"
  <2>1. Record(ip, ok, now + 1)
    BY <1>2 DEF Finish
  <2> DEFINE new == IF ok THEN [lastOK |-> TRUE, lastSuccess |-> now + 1, lastResultAt |-> now + 1]
                    ELSE IF states[ip] # None
                    THEN [states[ip] EXCEPT !.lastOK = FALSE, !.lastResultAt = now + 1]
                    ELSE None
  <2>2. states' = [states EXCEPT ![ip] = new] /\ checks' = checks \cup {Result(ip, ok)}
    BY <2>1 DEF Record, RecordResult, Result
  <2>3. states'[ip] = new
    BY <1>0, <2>2
  <2>4. CASE ok
    BY <1>0, <2>2, <2>3, <2>4 DEF States
  <2>5. CASE ~ok /\ states[ip] # None
    <3>1. states[ip] \in States
      BY <1>0, <2>5
    <3>2. states'[ip] = [states[ip] EXCEPT !.lastOK = FALSE, !.lastResultAt = now + 1]
      BY <2>3, <2>5
    <3> HIDE DEF new
    <3> QED
      BY <1>0, <2>2, <2>5, <3>1, <3>2 DEF States
  <2>6. CASE ~ok /\ states[ip] = None
    BY <2>2, <2>3, <2>6
  <2> QED
    BY <2>4, <2>5, <2>6
<1>3. CASE worker[w].kind = "recheck"
  <2>0. PICK target \in Targets : target = worker[w].target
    BY <1>1
  <2>i. target.ip = ip
    BY <2>0
  <2> DEFINE persist == Persist(Base(target), ok, now + 1)
  <2>1. RecordRecheck(target, ok, now + 1)
    BY <1>3, <2>0 DEF Finish
  <2>2. states[ip] # None /\ states[ip] \in States
    BY <1>0, <1>1, <1>3 DEF OrderInv, Finish
  <2>3. Base(target) = states[ip]
    BY <2>2, <2>i DEF Base
  <2>a. /\ persist \in BOOLEAN
        /\ states' = [states EXCEPT ![target.ip] =
                [lastOK |-> ok,
                 lastSuccess |-> IF ok /\ persist THEN now + 1 ELSE Base(target).lastSuccess,
                 lastResultAt |-> now + 1]]
        /\ checks' = IF persist THEN checks \cup {[ip |-> target.ip, ok |-> ok, ts |-> now + 1]} ELSE checks
    BY <1>0, <2>1, Rechecks
  <2>p. persist = Persist(states[ip], ok, now + 1)
    BY <2>3
  <2> HIDE DEF persist
  <2>4. /\ persist \in BOOLEAN
        /\ states' = [states EXCEPT ![ip] =
                [lastOK |-> ok,
                 lastSuccess |-> IF ok /\ persist THEN now + 1 ELSE states[ip].lastSuccess,
                 lastResultAt |-> now + 1]]
        /\ checks' = IF persist THEN checks \cup {Result(ip, ok)} ELSE checks
    BY <2>a, <2>3, <2>i DEF Result
  <2>5. states'[ip] = [lastOK |-> ok,
                       lastSuccess |-> IF ok /\ persist THEN now + 1 ELSE states[ip].lastSuccess,
                       lastResultAt |-> now + 1]
    BY <1>0, <2>4
  <2>6. ~persist => /\ ok /\ states[ip].lastOK /\ states[ip].lastSuccess # 0
                    /\ ~(now + 1 - states[ip].lastSuccess >= Heartbeat)
    <3> SUFFICES ASSUME ~persist
                 PROVE  /\ ok /\ states[ip].lastOK /\ states[ip].lastSuccess # 0
                        /\ ~(now + 1 - states[ip].lastSuccess >= Heartbeat)
      OBVIOUS
    <3>1. PICK ts \in Times : ts = now + 1
      BY <1>0
    <3>2. PICK state \in States : state = states[ip]
      BY <2>2
    <3>3. ~Persist(state, ok, ts)
      BY <2>p, <3>1, <3>2
    <3>4. ok /\ state.lastOK /\ state.lastSuccess # 0 /\ ~(ts - state.lastSuccess >= Heartbeat)
      BY <3>3, Suppressed
    <3>5. ok
      BY <3>4
    <3>6. states[ip].lastOK
      BY <3>2, <3>4
    <3>7. states[ip].lastSuccess # 0
      BY <3>2, <3>4
    <3>8. ~(now + 1 - states[ip].lastSuccess >= Heartbeat)
      <4>1. states[ip].lastSuccess = state.lastSuccess
        BY <3>2
      <4>2. now \in Int /\ ts \in Int /\ state.lastSuccess \in Int /\ Heartbeat \in Int
        BY <1>0, ScannerAssumption DEF States, Times
      <4>3. ~(ts - state.lastSuccess >= Heartbeat)
        BY <3>4
      <4> QED
        BY <3>1, <4>1, <4>2, <4>3
    <3> QED
      BY <3>5, <3>6, <3>7, <3>8
  <2>7. states[ip].lastSuccess \in Times
    BY <2>2 DEF States
  <2>8. /\ states'[ip] \in States /\ states'[ip].lastOK = ok /\ states'[ip].lastResultAt = now + 1
        /\ states'[ip].lastSuccess = IF ok /\ persist THEN now + 1 ELSE states[ip].lastSuccess
    BY <1>0, <2>5, <2>7 DEF States
  <2>9. CASE persist
    BY <2>2, <2>4, <2>8, <2>9
  <2>10. CASE ~persist
    BY <2>2, <2>4, <2>6, <2>8, <2>10
  <2> QED
    BY <2>9, <2>10
<1> QED
  BY <1>1, <1>2, <1>3

\* A state is never forgotten.
LEMMA StatesStay ==
    ASSUME TypeInv, OrderInv, [Next]_vars, NEW ip \in IPs, states[ip] # None
    PROVE  states'[ip] # None
<1>0. states \in [IPs -> States \cup {None}] /\ None \notin States
  BY ScannerNoneAssumption DEF TypeInv, TypeOK
<1>1. ASSUME NEW w \in Workers, NEW ok \in BOOLEAN, Finish(w, ok) PROVE states'[ip] # None
  <2>1. CASE worker[w].target.ip = ip
    BY <1>0, <1>1, <2>1, FinishState
  <2>2. CASE worker[w].target.ip # ip
    BY <1>0, <1>1, <2>2 DEF Finish, Record, RecordRecheck
  <2> QED
    BY <2>1, <2>2
<1>2. CASE SeedRecheckStates
  <2>1. CASE \E t \in feeder : t.ip = ip
    <3>1. (CHOOSE t \in feeder : t.ip = ip) \in feeder
      BY <2>1
    <3>2. feeder \subseteq Targets
      BY <1>2 DEF SeedRecheckStates, TypeInv, TypeOK
    <3>3. (CHOOSE t \in feeder : t.ip = ip).last \in Times
      BY <3>1, <3>2 DEF Targets
    <3>4. Seeded(ip, (CHOOSE t \in feeder : t.ip = ip).last) \in States
      BY <3>3, Seeds
    <3>5. states'[ip] \in States
      BY <1>2, <2>1, <3>4 DEF SeedRecheckStates
    <3> QED
      BY <1>0, <3>5
  <2>2. CASE ~ \E t \in feeder : t.ip = ip
    BY <1>2, <2>2 DEF SeedRecheckStates
  <2> QED
    BY <2>1, <2>2
<1>3. ASSUME NEW readable \in BOOLEAN, Accepted(readable) PROVE states'[ip] # None
  <2>1. states' = Merged(FilterChecks(inFlight))
    BY <1>3 DEF Accepted
  <2>2. CASE Of(FilterChecks(inFlight), ip) = {}
    BY <2>1, <2>2 DEF Merged
  <2>3. CASE Of(FilterChecks(inFlight), ip) # {}
    <3>1. FilterChecks(inFlight) \in SUBSET Checks
      BY BatchParts DEF TypeInv, TypeOK
    <3>2. states'[ip] \in States
      BY <2>1, <2>3, <3>1, Merges
    <3> QED
      BY <1>0, <3>2
  <2> QED
    BY <2>2, <2>3
<1>4. CASE UNCHANGED states
  BY <1>4
<1>5. CASE UNCHANGED vars
  BY <1>4, <1>5 DEF vars, probeVars, stateVars
<1>6. CASE Next
  <2>1. CASE \/ \E w \in Workers, i \in IPs : StartScan(w, i)
             \/ \E w \in Workers, target \in queue : StartRecheck(w, target)
             \/ \E w \in Workers : FinishMixed(w)
             \/ FetchPool \/ Trigger \/ FlushOnWake
    BY <1>4, <2>1 DEF StartScan, StartRecheck, FinishMixed, FetchPool, Trigger, FlushOnTick, FlushOnWake,
                      FlushOnRetry, FinalAttempt, probeVars, stateVars
  <2>2. CASE \/ FetchKnownGood \/ KeepKnownGood \/ FetchKnownGoodFails \/ Reject \/ Lost
             \/ \E pruned \in BOOLEAN : Commit(pruned)
    BY <1>4, <2>2 DEF FetchKnownGood, KeepKnownGood, FetchKnownGoodFails, Reject, Lost, Commit,
                      probeVars, stateVars
  <2>3. CASE \/ MaintenanceDue \/ PruneRetryDue \/ Cancel \/ StartFinal \/ FinalTimeout \/ Tick
             \/ \E i \in OnDemand, ok \in BOOLEAN : ProbeOnDemand(i, ok)
    BY <1>4, <2>3, OtherTypes
  <2> QED
    BY <1>1, <1>2, <1>3, <1>6, <2>1, <2>2, <2>3 DEF Next, Probing, Flushing
<1> QED
  BY <1>5, <1>6

\* Nothing new in the buffer, and the clock does not run back.
LEMMA OrderKept ==
    ASSUME TypeInv, OrderInv, [Next]_vars, now' \in Times, now <= now',
           checks' \cup inFlight' \subseteq checks \cup inFlight,
           flusher'.pc \in Sending => \A c \in inFlight', d \in checks' : c.ts < d.ts,
           queue' \subseteq queue, \A w \in Workers : worker'[w] \in {worker[w], None}
    PROVE  OrderInv'
<1>1. now \in Nat /\ now' \in Nat /\ now' >= 1
  BY ScannerAssumption DEF OrderInv, TypeInv, TypeOK, Times
<1>2. \A c \in checks \cup inFlight : c.ts \in Nat
  BY ScannerAssumption DEF TypeInv, TypeOK, Checks, Times
<1>3. \A c \in checks' \cup inFlight' : 2 <= c.ts /\ c.ts <= now'
  BY <1>1, <1>2 DEF OrderInv
<1>4. \A c, d \in checks' \cup inFlight' : c.ts = d.ts => c = d
  BY DEF OrderInv
<1>5. \A t \in queue' : states'[t.ip] # None
  BY StatesStay DEF OrderInv, TypeInv, TypeOK, Targets
<1>6. \A w \in Workers : worker'[w] # None /\ worker'[w].kind = "recheck"
                            => states'[worker'[w].target.ip] # None
  BY StatesStay DEF OrderInv, TypeInv, TypeOK, Jobs, Targets
<1> QED
  BY <1>1, <1>3, <1>4, <1>5, <1>6 DEF OrderInv

\* Probes and the feeder.
LEMMA OrderProbes ==
    ASSUME TypeInv, OrderInv, [Next]_vars,
           \/ \E w \in Workers, ip \in IPs : StartScan(w, ip)
           \/ \E w \in Workers, target \in queue : StartRecheck(w, target)
           \/ \E w \in Workers : Probing(w)
           \/ FetchPool
           \/ SeedRecheckStates
    PROVE  OrderInv'
<1>0. /\ now \in Times /\ now <= now /\ worker \in [Workers -> Jobs \cup {None}]
      /\ flusher.pc \in Sending => \A c \in inFlight, d \in checks : c.ts < d.ts
  BY ScannerAssumption DEF TypeInv, TypeOK, Times, OrderInv
<1>1. CASE \/ \E w \in Workers, ip \in IPs : StartScan(w, ip)
           \/ \E w \in Workers : FinishMixed(w)
           \/ FetchPool
  <2>1. /\ UNCHANGED <<checks, inFlight, flusher, now>> /\ queue' \subseteq queue
    BY <1>1 DEF StartScan, FinishMixed, FetchPool, flushVars
  <2>2. CASE \E w \in Workers, ip \in IPs : StartScan(w, ip)
    <3>1. PICK w \in Workers, ip \in IPs : StartScan(w, ip)
      BY <2>2
    <3>2. \A v \in Workers : worker'[v] = worker[v] \/ worker'[v].kind = "scan"
      BY <1>0, <3>1 DEF StartScan
    <3>3. \A v \in Workers : worker'[v] # None /\ worker'[v].kind = "recheck"
                               => states'[worker'[v].target.ip] # None
      BY <3>1, <3>2 DEF StartScan, stateVars, OrderInv
    <3> QED
      BY <2>1, <3>1, <3>3 DEF OrderInv, StartScan, stateVars
  <2>3. CASE \E w \in Workers : FinishMixed(w)
    <3>1. \A v \in Workers : worker'[v] \in {worker[v], None}
      BY <1>0, <2>3 DEF FinishMixed
    <3> QED
      BY <1>0, <2>1, <3>1, OrderKept
  <2>4. CASE FetchPool
    <3>1. \A v \in Workers : worker'[v] \in {worker[v], None}
      BY <2>4 DEF FetchPool
    <3> QED
      BY <1>0, <2>1, <3>1, OrderKept
  <2> QED
    BY <1>1, <2>2, <2>3, <2>4
<1>2. ASSUME NEW w \in Workers, NEW target \in queue, StartRecheck(w, target) PROVE OrderInv'
  <2>1. \A v \in Workers : worker'[v] = worker[v] \/ worker'[v].target = target
    BY <1>0, <1>2 DEF StartRecheck
  <2>2. UNCHANGED <<checks, inFlight, flusher, now, states>> /\ queue' \subseteq queue
    BY <1>2 DEF StartRecheck, flushVars, stateVars
  <2>3. \A v \in Workers : worker'[v] # None /\ worker'[v].kind = "recheck"
                             => states'[worker'[v].target.ip] # None
    BY <2>1, <2>2 DEF OrderInv
  <2> QED
    BY <2>2, <2>3 DEF OrderInv
<1>3. ASSUME NEW w \in Workers, NEW ok \in BOOLEAN, Finish(w, ok) PROVE OrderInv'
  <2>0. PICK job \in Jobs :
             /\ Result(job.target.ip, ok) \in Checks /\ now' = now + 1 /\ now' \in Times
             /\ worker' = [worker EXCEPT ![w] = None]
             /\ checks' \in {checks, checks \cup {Result(job.target.ip, ok)}}
             /\ UNCHANGED <<cancelled, flushVars, feeder, queue>>
    <3>1. \E job \in Jobs :
             LET c == Result(job.target.ip, ok) IN
             /\ worker[w] = job /\ c \in Checks /\ now' = now + 1 /\ now' \in Times
             /\ worker' = [worker EXCEPT ![w] = None]
             /\ worker' \in [Workers -> Jobs \cup {None}]
             /\ states' \in [IPs -> States \cup {None}]
             /\ latest' = [latest EXCEPT ![job.target.ip] = [ok |-> ok, ts |-> now + 1]]
             /\ latest' \in [IPs -> [ok : BOOLEAN, ts : Times] \cup {None}]
             /\ checks' \in {checks, checks \cup {c}}
             /\ checks' \subseteq Checks /\ ready' \in BOOLEAN
             /\ ready => ready'
             /\ checks' # checks /\ Cardinality(checks') >= FlushSize => ready'
             /\ UNCHANGED <<cancelled, flushVars, feeder, queue>>
      BY <1>3, Finishes
    <3> QED
      BY <3>1
  <2>1. /\ Result(job.target.ip, ok) \in Checks /\ now' = now + 1 /\ now' \in Times
        /\ worker' = [worker EXCEPT ![w] = None]
        /\ checks' \in {checks, checks \cup {Result(job.target.ip, ok)}}
        /\ UNCHANGED <<inFlight, flusher, queue>>
    BY <2>0 DEF flushVars
  <2>2. PICK c \in Checks : c.ts = now + 1 /\ checks' \in {checks, checks \cup {c}}
    BY <2>1 DEF Result
  <2>3. now \in Nat /\ now' = now + 1 /\ now' \in Nat /\ now' >= 1
    BY <1>0, <2>1, ScannerAssumption DEF Times
  <2>4. \A d \in checks \cup inFlight : d.ts \in Nat /\ 2 <= d.ts /\ d.ts <= now
    BY ScannerAssumption DEF OrderInv, TypeInv, TypeOK, Checks, Times
  <2>5. now >= 1
    BY DEF OrderInv
  <2>6. \A d \in checks' \cup inFlight' : 2 <= d.ts /\ d.ts <= now'
    BY <2>1, <2>2, <2>3, <2>4, <2>5
  <2>7. \A d, e \in checks' \cup inFlight' : d.ts = e.ts => d = e
    <3>1. checks' \cup inFlight' \subseteq (checks \cup inFlight) \cup {c}
      BY <2>1, <2>2
    <3>2. \A d \in checks \cup inFlight : d.ts # c.ts
      BY <2>2, <2>3, <2>4
    <3>3. \A d, e \in checks \cup inFlight : d.ts = e.ts => d = e
      BY DEF OrderInv
    <3> QED
      BY <3>1, <3>2, <3>3
  <2>8. flusher'.pc \in Sending => \A d \in inFlight', e \in checks' : d.ts < e.ts
    BY <1>0, <2>1, <2>2, <2>3, <2>4
  <2>9. \A t \in queue' : states'[t.ip] # None
    BY <2>1, StatesStay DEF OrderInv, TypeInv, TypeOK, Targets
  <2>10. \A v \in Workers : worker'[v] \in {worker[v], None}
    BY <1>0, <2>1
  <2>11. \A v \in Workers : worker'[v] # None /\ worker'[v].kind = "recheck"
                              => states'[worker'[v].target.ip] # None
    BY <2>10, StatesStay DEF OrderInv, TypeInv, TypeOK, Jobs, Targets
  <2> QED
    BY <2>3, <2>6, <2>7, <2>8, <2>9, <2>11 DEF OrderInv
<1>4. CASE SeedRecheckStates
  <2>1. UNCHANGED <<checks, inFlight, flusher, now, worker>> /\ queue' = feeder
    BY <1>4 DEF SeedRecheckStates, flushVars
  <2>2. feeder \subseteq Targets
    BY <1>4 DEF SeedRecheckStates, TypeInv, TypeOK
  <2>3. \A t \in queue' : states'[t.ip] # None
    <3> SUFFICES ASSUME NEW t \in feeder PROVE states'[t.ip] # None
      BY <2>1
    <3>1. t.ip \in IPs
      BY <2>2 DEF Targets
    <3>2. (CHOOSE u \in feeder : u.ip = t.ip) \in feeder
      OBVIOUS
    <3>3. (CHOOSE u \in feeder : u.ip = t.ip).last \in Times
      BY <2>2, <3>2 DEF Targets
    <3>4. Seeded(t.ip, (CHOOSE u \in feeder : u.ip = t.ip).last) \in States
      BY <3>1, <3>3, Seeds
    <3>5. states'[t.ip] \in States
      BY <1>4, <3>1, <3>4 DEF SeedRecheckStates
    <3> QED
      BY <3>5, ScannerNoneAssumption
  <2>4. \A v \in Workers : worker'[v] # None /\ worker'[v].kind = "recheck"
                             => states'[worker'[v].target.ip] # None
    BY <2>1, StatesStay DEF OrderInv, TypeInv, TypeOK, Jobs, Targets
  <2> QED
    BY <2>1, <2>3, <2>4 DEF OrderInv
<1> QED
  BY <1>1, <1>2, <1>3, <1>4 DEF Probing

\* What the flusher does to its batches: it takes the whole buffer, and puts a batch
\* that was not accepted back.
LEMMA FlushBatches ==
    ASSUME TypeInv, OrderInv, Trigger \/ FlushOnWake \/ Flushing
    PROVE  /\ now' = now /\ UNCHANGED <<latest, queue, worker, feeder>>
           /\ checks' \cup inFlight' \subseteq checks \cup inFlight
           /\ flusher'.pc \in Sending => \A c \in inFlight', d \in checks' : c.ts < d.ts
           /\ \/ checks' \cup inFlight' = checks \cup inFlight
              \/ flusher.pc = "sent" /\ \E readable \in BOOLEAN : Accepted(readable)
<1>1. CASE Trigger \/ FlushOnWake
  <2>1. inFlight = {} /\ \E maint \in BOOLEAN : Take(maint)
    BY <1>1, TakeTypes
  <2>2. checks' \cup inFlight' = checks /\ checks' = {}
    BY <2>1, Takes
  <2>3. now' = now /\ UNCHANGED <<latest, queue, worker, feeder>>
    BY <1>1 DEF Trigger, FlushOnTick, FlushOnWake, FlushOnRetry, FinalAttempt, probeVars, stateVars
  <2> QED
    BY <2>1, <2>2, <2>3
<1>2. CASE Flushing
  <2>0. now' = now /\ UNCHANGED <<latest, queue, worker, feeder>>
    BY <1>2, FlushTypes
  <2>1. CASE FetchKnownGood \/ KeepKnownGood \/ \E pruned \in BOOLEAN : Commit(pruned)
    <3>1. UNCHANGED <<checks, inFlight>> /\ flusher.pc \in Sending
      BY <2>1 DEF FetchKnownGood, KeepKnownGood, Commit, Sending
    <3> QED
      BY <2>0, <3>1 DEF OrderInv
  <2>2. CASE FetchKnownGoodFails \/ Reject \/ Lost
    <3>1. checks' = checks \cup inFlight /\ inFlight' = {}
      BY <2>2, Requeues DEF FetchKnownGoodFails, Reject, Lost
    <3> QED
      BY <2>0, <3>1
  <2>3. ASSUME NEW readable \in BOOLEAN, Accepted(readable)
        PROVE  checks' = checks /\ inFlight' = {} /\ flusher.pc = "sent"
    BY <2>3 DEF Accepted
  <2> QED
    BY <1>2, <2>0, <2>1, <2>2, <2>3 DEF Flushing
<1> QED
  BY <1>1, <1>2

\* Timers, shutdown and visitors leave the batches alone.
LEMMA OtherBatches ==
    ASSUME TypeInv, OrderInv,
           \/ MaintenanceDue \/ PruneRetryDue \/ Cancel \/ StartFinal \/ FinalTimeout \/ Tick
           \/ \E ip \in OnDemand, ok \in BOOLEAN : ProbeOnDemand(ip, ok)
    PROVE  /\ UNCHANGED <<checks, inFlight, knownGood, states, latest, feeder, queue, worker>>
           /\ now' \in Times /\ now <= now'
           /\ flusher'.pc \in Sending => flusher.pc \in Sending
           /\ flusher'.pc = "sent" => flusher.pc = "sent"
           /\ flusher.pc \in Sending => flusher'.pc \in Sending
           /\ \A ip \in IPs \ OnDemand : srv'[ip] = srv[ip]
<1>0. /\ now \in Nat /\ now \in Times /\ flusher \in Flushers /\ srv \in [IPs -> ServerRows \cup {None}]
  BY ScannerAssumption DEF TypeInv, TypeOK, Flushers, Times
<1>1. UNCHANGED <<checks, inFlight, knownGood, states, latest, feeder, queue, worker>> /\ TypeInv'
  BY OtherTypes
<1>2. now' \in Times
  BY <1>1 DEF TypeInv, TypeOK
<1>3. CASE MaintenanceDue \/ PruneRetryDue \/ Cancel
  BY <1>0, <1>1, <1>2, <1>3 DEF MaintenanceDue, PruneRetryDue, Cancel, probeVars, flushVars
<1>4. CASE StartFinal \/ FinalTimeout
  <2>1. /\ flusher'.pc \in {"final", "gaveup"} /\ flusher.pc \in {"wait", "final"}
        /\ now' = now /\ srv' = srv
    BY <1>0, <1>4 DEF StartFinal, FinalTimeout, AllStopped, probeVars, Flushers
  <2> QED
    BY <1>0, <1>1, <1>2, <2>1 DEF Sending
<1>5. CASE Tick
  BY <1>0, <1>1, <1>2, <1>5 DEF Tick, flushVars
<1>6. ASSUME NEW ip \in OnDemand, NEW ok \in BOOLEAN, ProbeOnDemand(ip, ok)
      PROVE  now' = now + 1 /\ flusher' = flusher /\ \A i \in IPs \ OnDemand : srv'[i] = srv[i]
  BY <1>0, <1>6 DEF ProbeOnDemand
<1> QED
  BY <1>0, <1>1, <1>2, <1>3, <1>4, <1>5, <1>6

\* Every step keeps the order of the result times.
LEMMA OrderStep ==
    ASSUME TypeInv, OrderInv, [Next]_vars
    PROVE  OrderInv'
<1>0. now \in Nat /\ now \in Times
  BY ScannerAssumption DEF TypeInv, TypeOK, Times
<1>1. CASE UNCHANGED vars
  BY <1>1 DEF vars, flushVars, probeVars, stateVars, OrderInv
<1>2. CASE \/ \E w \in Workers, ip \in IPs : StartScan(w, ip)
           \/ \E w \in Workers, target \in queue : StartRecheck(w, target)
           \/ \E w \in Workers : Probing(w)
           \/ FetchPool
           \/ SeedRecheckStates
  BY <1>2, OrderProbes
<1>3. CASE Trigger \/ FlushOnWake \/ Flushing
  <2>1. /\ now' = now /\ UNCHANGED <<latest, queue, worker, feeder>>
        /\ checks' \cup inFlight' \subseteq checks \cup inFlight
        /\ flusher'.pc \in Sending => \A c \in inFlight', d \in checks' : c.ts < d.ts
    BY <1>3, FlushBatches
  <2> QED
    BY <1>0, <2>1, OrderKept
<1>4. CASE \/ MaintenanceDue \/ PruneRetryDue \/ Cancel \/ StartFinal \/ FinalTimeout \/ Tick
           \/ \E ip \in OnDemand, ok \in BOOLEAN : ProbeOnDemand(ip, ok)
  <2>1. /\ UNCHANGED <<checks, inFlight, queue, worker>>
        /\ now' \in Times /\ now <= now'
        /\ flusher'.pc \in Sending => flusher.pc \in Sending
    BY <1>4, OtherBatches
  <2>2. flusher'.pc \in Sending => \A c \in inFlight', d \in checks' : c.ts < d.ts
    BY <2>1 DEF OrderInv
  <2> QED
    BY <2>1, <2>2, OrderKept
<1> QED
  BY <1>1, <1>2, <1>3, <1>4 DEF Next

\* OrderInv holds in every state.
LEMMA OrderInvariant == Spec => []OrderInv
<1>1. Init => OrderInv
  <2> SUFFICES ASSUME Init PROVE OrderInv
    OBVIOUS
  <2>1. now = 1 /\ checks = {} /\ inFlight = {} /\ queue = {} /\ \A w \in Workers : worker[w] = None
    BY DEF Init
  <2> QED
    BY <2>1 DEF OrderInv
<1> QED
  BY <1>1, TypeInvariant, OrderStep, PTL DEF Spec

-----------------------------------------------------------------------------
(* Statuses and heartbeats: what each step does to one address *)

\* The times of an address are numbers of the clock's range.
LEMMA Numbers ==
    ASSUME TypeInv, OrderInv, NEW ip \in IPs
    PROVE  /\ now \in Nat /\ now >= 1 /\ Heartbeat \in Nat /\ Heartbeat > 0
           /\ Pending(ip) \in SUBSET Checks /\ Pending(ip) \subseteq checks \cup inFlight
           /\ \A c \in Pending(ip) : c.ip = ip /\ c.ts \in Nat /\ 2 <= c.ts /\ c.ts <= now
           /\ Distinct(checks \cup inFlight) /\ Distinct(Pending(ip))
           /\ InPool(ip) => srv[ip] \in ServerRows /\ srv[ip].last \in Nat /\ srv[ip].ok \in BOOLEAN
           /\ states[ip] # None
                => /\ states[ip] \in States /\ states[ip].lastOK \in BOOLEAN
                   /\ states[ip].lastSuccess \in Nat /\ states[ip].lastResultAt \in Nat
           /\ latest[ip] # None => latest[ip].ok \in BOOLEAN /\ latest[ip].ts \in Nat
           /\ \A m \in Marks(ip) : m \in Nat
           /\ \A m : m \in Marks(ip) <=>
                 \/ \E c \in Pending(ip) : c.ok /\ m = c.ts
                 \/ InPool(ip) /\ m = srv[ip].last
           /\ feeder # None => \A t \in feeder : t.last \in Nat
<1>0. /\ TypeOK /\ MaxTime \in Nat
      /\ Heartbeat \in Nat /\ Heartbeat > 0
  BY ScannerAssumption DEF TypeInv
<1>1. now \in Nat /\ now >= 1
  BY <1>0 DEF TypeOK, OrderInv, Times
<1>2. Pending(ip) \subseteq checks \cup inFlight /\ \A c \in Pending(ip) : c.ip = ip
  BY DEF Pending, Of
<1>3. Pending(ip) \in SUBSET Checks
  BY <1>0, <1>2 DEF TypeOK
<1>4. \A c \in Pending(ip) : c.ts \in Nat /\ 2 <= c.ts /\ c.ts <= now
  BY <1>0, <1>2, <1>3 DEF OrderInv, Checks, Times
<1>5. Distinct(checks \cup inFlight) /\ Distinct(Pending(ip))
  BY <1>2 DEF OrderInv, Distinct
<1>6. InPool(ip) => srv[ip] \in ServerRows /\ srv[ip].last \in Nat /\ srv[ip].ok \in BOOLEAN
  BY <1>0 DEF TypeOK, InPool, ServerRows, Times
<1>7. states[ip] # None
        => /\ states[ip] \in States /\ states[ip].lastOK \in BOOLEAN
           /\ states[ip].lastSuccess \in Nat /\ states[ip].lastResultAt \in Nat
  BY <1>0 DEF TypeOK, States, Times
<1>8. latest[ip] # None => latest[ip].ok \in BOOLEAN /\ latest[ip].ts \in Nat
  BY <1>0 DEF TypeOK, Times
<1>9. \A m : m \in Marks(ip) <=>
         \/ \E c \in Pending(ip) : c.ok /\ m = c.ts
         \/ InPool(ip) /\ m = srv[ip].last
  BY DEF Marks, Successes
<1>10. \A m \in Marks(ip) : m \in Nat
  BY <1>4, <1>6, <1>9
<1>11. feeder # None => \A t \in feeder : t.last \in Nat
  BY <1>0 DEF TypeOK, Targets, Times
<1> QED
  BY <1>0, <1>1, <1>2, <1>3, <1>4, <1>5, <1>6, <1>7, <1>8, <1>9, <1>10, <1>11

\* A step that leaves an address alone.
LEMMA Quiet ==
    ASSUME TypeInv, OrderInv, NEW ip \in IPs, AgreeInv(ip), now' \in Times, now <= now',
           states'[ip] = states[ip], latest'[ip] = latest[ip], srv'[ip] = srv[ip],
           Pending(ip)' = Pending(ip),
           feeder' \in {feeder, None},
           flusher'.pc = "sent" => flusher.pc = "sent" /\ Of(inFlight', ip) = Of(inFlight, ip),
           knownGood' = knownGood \/ (InPool(ip) => ip \in knownGood'),
           Successes(Of(Front, ip)) \subseteq Successes(Of(Front', ip))
    PROVE  AgreeInv(ip)'
<1>1. /\ InPool(ip)' <=> InPool(ip)
      /\ Status(ip)' = Status(ip) /\ Marks(ip)' = Marks(ip)
  BY DEF InPool, Status, Marks
<1>2. StateOK(ip)'
  <2>1. states[ip] # None => states[ip].lastResultAt <= now'
    BY Numbers, ScannerAssumption DEF AgreeInv, StateOK, Times
  <2> QED
    BY <1>1, <2>1 DEF AgreeInv, StateOK
<1>3. StatelessOK(ip)'
  BY <1>1 DEF AgreeInv, StatelessOK
<1>4. LatestOK(ip)'
  BY <1>1 DEF AgreeInv, LatestOK
<1>5. FeederOK(ip)'
  BY <1>1 DEF AgreeInv, FeederOK
<1>6. SentOK(ip)'
  BY <1>1 DEF AgreeInv, SentOK
<1>7. FrontOK(ip)'
  BY <1>1 DEF AgreeInv, FrontOK
<1> QED
  BY <1>2, <1>3, <1>4, <1>5, <1>6, <1>7 DEF AgreeInv

\* FetchPool: the feeder is told what the server has.
LEMMA FetchAgrees ==
    ASSUME TypeInv, OrderInv, NEW ip \in IPs, AgreeInv(ip), FetchPool
    PROVE  AgreeInv(ip)'
<1>0. /\ UNCHANGED <<checks, inFlight, flusher, knownGood, states, latest, srv, now>>
      /\ feeder' = {[ip |-> i, last |-> srv[i].last] : i \in {j \in IPs : InPool(j) /\ srv[j].ok}}
  BY DEF FetchPool, flushVars, stateVars
<1>1. /\ InPool(ip)' <=> InPool(ip)
      /\ Pending(ip)' = Pending(ip) /\ Front' = Front
      /\ Status(ip)' = Status(ip) /\ Marks(ip)' = Marks(ip)
  BY <1>0 DEF InPool, Status, Marks, Pending, Front
<1>2. FeederOK(ip)'
  <2> SUFFICES ASSUME NEW t \in feeder', t.ip = ip
               PROVE  /\ InPool(ip) /\ \E m \in Marks(ip) : t.last <= m
                      /\ states[ip] = None => t.last = 1 /\ (Pending(ip) # {} \/ srv[ip].ok)
    BY <1>0, <1>1 DEF FeederOK
  <2>1. InPool(ip) /\ srv[ip].ok /\ t.last = srv[ip].last
    BY <1>0
  <2>2. srv[ip].last \in Marks(ip) /\ srv[ip].last <= srv[ip].last
    BY <2>1, Numbers
  <2> QED
    BY <2>1, <2>2 DEF AgreeInv, StatelessOK
<1> QED
  BY <1>0, <1>1, <1>2 DEF AgreeInv, StateOK, StatelessOK, LatestOK, SentOK, FrontOK

\* seedRecheckStates, for an address of the pool that was fetched: a success the server
\* had then is no news, and the checks on their way are not overlooked.
LEMMA SeedAgrees ==
    ASSUME TypeInv, OrderInv, NEW ip \in IPs, AgreeInv(ip), SeedRecheckStates,
           \E t \in feeder : t.ip = ip
    PROVE  AgreeInv(ip)'
<1>0. /\ UNCHANGED <<checks, inFlight, flusher, knownGood, latest, srv, now>>
      /\ feeder # None /\ feeder' = None
  BY DEF SeedRecheckStates, flushVars
<1>1. PICK t \in feeder : t.ip = ip /\ t = CHOOSE u \in feeder : u.ip = ip
  OBVIOUS
<1>2. states'[ip] = Seeded(ip, t.last)
  BY <1>1 DEF SeedRecheckStates
<1>3. /\ InPool(ip)' <=> InPool(ip)
      /\ Pending(ip)' = Pending(ip) /\ Front' = Front
      /\ Status(ip)' = Status(ip) /\ Marks(ip)' = Marks(ip)
  BY <1>0 DEF InPool, Status, Marks, Pending, Front
<1>4. /\ InPool(ip) /\ \E m \in Marks(ip) : t.last <= m
      /\ states[ip] = None => t.last = 1 /\ (Pending(ip) # {} \/ srv[ip].ok)
  BY <1>0, <1>1 DEF AgreeInv, FeederOK
<1> DEFINE old == states[ip]
           base == IF old = None
                   THEN [lastOK |-> TRUE, lastSuccess |-> t.last, lastResultAt |-> t.last]
                   ELSE [lastOK |-> t.last > old.lastResultAt \/ old.lastOK,
                         lastSuccess |-> IF t.last > old.lastSuccess THEN t.last
                                                                     ELSE old.lastSuccess,
                         lastResultAt |-> IF t.last > old.lastResultAt THEN t.last
                                                                       ELSE old.lastResultAt]
           check == Latest(Pending(ip))
<1>5. states'[ip] = IF Pending(ip) # {} /\ check.ts > base.lastResultAt
                    THEN [lastOK |-> check.ok,
                          lastSuccess |-> IF check.ok THEN check.ts ELSE base.lastSuccess,
                          lastResultAt |-> check.ts]
                    ELSE base
  BY <1>2 DEF Seeded
<1>n. /\ t.last \in Nat /\ now \in Nat /\ now >= 1
      /\ \A m \in Marks(ip) : m \in Nat
      /\ old # None => old.lastSuccess \in Nat /\ old.lastResultAt \in Nat /\ old.lastOK \in BOOLEAN
  BY <1>0, Numbers
<1>c. Pending(ip) # {} => /\ check \in Pending(ip) /\ check.ts \in Nat /\ 2 <= check.ts /\ check.ts <= now
                          /\ check.ok => check.ts \in Marks(ip)
  <2>1. Pending(ip) # {} => check \in Pending(ip)
    BY Numbers, LatestIn
  <2> HIDE DEF check
  <2> QED
    BY <2>1, Numbers
<1>6. ASSUME old = None PROVE StateOK(ip)'
  <2>1. /\ Successes(Pending(ip)) = {} /\ srv[ip].last = 1 /\ t.last = 1
        /\ Pending(ip) # {} \/ srv[ip].ok
    BY <1>4, <1>6 DEF AgreeInv, StatelessOK
  <2>2. \A m : m \in Marks(ip) <=> m = 1
    BY <1>4, <2>1, Numbers DEF Successes
  <2>3. base = [lastOK |-> TRUE, lastSuccess |-> 1, lastResultAt |-> 1]
    BY <1>6, <2>1
  <2>4. CASE Pending(ip) # {}
    <3>1. ~check.ok
      BY <1>c, <2>1, <2>4 DEF Successes
    <3>2. check.ts > base.lastResultAt
      BY <1>c, <2>3, <2>4
    <3>3. states'[ip] = [lastOK |-> check.ok, lastSuccess |-> 1, lastResultAt |-> check.ts]
      BY <1>5, <2>3, <2>4, <3>1, <3>2
    <3>4. Status(ip) = check.ok
      BY <2>4 DEF Status
    <3> HIDE DEF check, base, old
    <3>5. StateOK(ip)'
      BY <1>0, <1>3, <1>4, <1>c, <2>2, <2>4, <3>3, <3>4 DEF StateOK
    <3> QED
      BY <3>5
  <2>5. CASE Pending(ip) = {}
    <3>1. states'[ip] = [lastOK |-> TRUE, lastSuccess |-> 1, lastResultAt |-> 1]
      BY <1>5, <2>3, <2>5
    <3>2. Status(ip) = TRUE
      BY <1>4, <2>1, <2>5, Numbers DEF Status
    <3> QED
      BY <1>0, <1>3, <1>4, <1>n, <2>2, <3>1, <3>2 DEF StateOK
  <2> QED
    BY <2>4, <2>5
<1>7. ASSUME old # None PROVE StateOK(ip)'
  <2>1. /\ old.lastOK = Status(ip) /\ \A m \in Marks(ip) : m <= old.lastResultAt
        /\ old.lastResultAt <= now
        /\ old.lastSuccess # 0 => \E m \in Marks(ip) : old.lastSuccess <= m
    BY <1>7 DEF AgreeInv, StateOK
  <2>2. ~(t.last > old.lastResultAt)
    BY <1>4, <1>7, <1>n, <2>1
  <2>3. /\ base.lastOK = Status(ip) /\ base.lastResultAt = old.lastResultAt
        /\ base.lastSuccess = IF t.last > old.lastSuccess THEN t.last ELSE old.lastSuccess
    BY <1>7, <1>n, <2>1, <2>2
  <2>4. base.lastSuccess # 0 => \E m \in Marks(ip) : base.lastSuccess <= m
    BY <1>4, <2>1, <2>3
  <2> HIDE DEF old, base
  <2>5. CASE Pending(ip) # {} /\ check.ts > base.lastResultAt
    <3>1. /\ states'[ip].lastOK = check.ok /\ states'[ip].lastResultAt = check.ts
          /\ states'[ip].lastSuccess = IF check.ok THEN check.ts ELSE base.lastSuccess
      BY <1>5, <2>5
    <3>2. Status(ip) = check.ok
      BY <2>5 DEF Status
    <3> HIDE DEF check
    <3>3. \A m \in Marks(ip) : m <= check.ts
      BY <1>c, <1>7, <1>n, <2>1, <2>3, <2>5
    <3>4. states'[ip].lastSuccess # 0 => \E m \in Marks(ip) : states'[ip].lastSuccess <= m
      BY <1>c, <2>4, <2>5, <3>1
    <3> QED
      BY <1>0, <1>3, <1>4, <1>c, <2>5, <3>1, <3>2, <3>3, <3>4 DEF StateOK
  <2>6. CASE ~(Pending(ip) # {} /\ check.ts > base.lastResultAt)
    <3>1. states'[ip] = base
      BY <1>5, <2>6
    <3> QED
      BY <1>0, <1>3, <1>4, <2>1, <2>3, <2>4, <3>1 DEF StateOK
  <2> QED
    BY <2>5, <2>6
<1>8. StateOK(ip)'
  BY <1>6, <1>7
<1>9. states'[ip] # None
  <2>1. t \in Targets
    BY <1>0 DEF TypeInv, TypeOK
  <2>2. states'[ip] \in States
    BY <1>2, <2>1, Seeds DEF Targets
  <2> QED
    BY <2>2, ScannerNoneAssumption
<1> QED
  BY <1>0, <1>3, <1>8, <1>9 DEF AgreeInv, StatelessOK, LatestOK, FeederOK, SentOK, FrontOK

\* The newest check of all is the latest.
LEMMA NewestIs ==
    ASSUME NEW rows \in SUBSET Checks, NEW c \in Checks, \A d \in rows : d.ts < c.ts, Distinct(rows)
    PROVE  Latest(rows \cup {c}) = c
<1>1. \A d \in rows \cup {c} : d.ts \in Nat
  BY ScannerAssumption DEF Checks, Times
<1>2. Distinct(rows \cup {c})
  BY <1>1 DEF Distinct
<1>3. \A d \in rows \cup {c} : d.ts <= c.ts
  BY <1>1
<1> QED
  BY <1>2, <1>3, LatestIs

\* The end of a probe of the address: if the result is not buffered, then because it
\* repeats a success the server has, or is about to get, and which is recent.
LEMMA FinishAgrees ==
    ASSUME TypeInv, OrderInv, NEW ip \in IPs, AgreeInv(ip),
           NEW w \in Workers, NEW ok \in BOOLEAN, Finish(w, ok), worker[w].target.ip = ip
    PROVE  AgreeInv(ip)'
<1>0. /\ UNCHANGED <<inFlight, flusher, knownGood, srv, feeder>> /\ now' = now + 1
      /\ latest' = [latest EXCEPT ![ip] = [ok |-> ok, ts |-> now + 1]]
      /\ latest \in [IPs -> [ok : BOOLEAN, ts : Times] \cup {None}]
      /\ now + 1 \in Times
  BY ScannerAssumption DEF Finish, flushVars, TypeInv, TypeOK, Times
<1> DEFINE c == Result(ip, ok)
           fresh == checks' = checks \cup {c}
<1>1. latest'[ip].ok = ok /\ latest'[ip].ts = now + 1
  BY <1>0
<1>c. c \in Checks /\ c.ip = ip /\ c.ok = ok /\ c.ts = now + 1
  BY <1>0 DEF Result, Checks
<1>2. \/ /\ states[ip] = None /\ ~ok /\ states'[ip] = None /\ fresh
      \/ /\ states'[ip] \in States
         /\ states'[ip].lastOK = ok /\ states'[ip].lastResultAt = now + 1 /\ fresh
         /\ states'[ip].lastSuccess = IF ok THEN now + 1 ELSE states[ip].lastSuccess
         /\ ok \/ states[ip] # None
      \/ /\ states[ip] # None /\ states'[ip] \in States
         /\ ok /\ states[ip].lastOK /\ states[ip].lastSuccess # 0
         /\ ~(now + 1 - states[ip].lastSuccess >= Heartbeat)
         /\ states'[ip].lastOK /\ states'[ip].lastResultAt = now + 1
         /\ checks' = checks
         /\ states'[ip].lastSuccess = states[ip].lastSuccess
  BY FinishState
<1> HIDE DEF c
<1>3. /\ InPool(ip)' <=> InPool(ip)
      /\ fresh => Pending(ip)' = Pending(ip) \cup {c}
      /\ checks' = checks => Pending(ip)' = Pending(ip)
  BY <1>0, <1>c DEF InPool, Pending, Of
<1>4. fresh => Latest(Pending(ip)') = c
  BY <1>3, <1>c, Numbers, NewestIs
<1>5. fresh => Status(ip)' = ok
  BY <1>3, <1>4, <1>c DEF Status
<1>6. Successes(Of(Front, ip)) \subseteq Successes(Of(Front', ip))
  BY <1>0, <1>2 DEF Front, Of, Successes
<1>7. /\ fresh => Successes(Pending(ip)') = Successes(Pending(ip)) \cup {d \in {c} : ok}
      /\ fresh => Marks(ip)' = Marks(ip) \cup {d.ts : d \in {e \in {c} : ok}}
      /\ checks' = checks => Status(ip)' = Status(ip) /\ Marks(ip)' = Marks(ip)
  BY <1>0, <1>3, <1>c DEF Successes, Marks, InPool, Status
<1>8. Marks(ip) \subseteq Marks(ip)' /\ (fresh /\ ok => now + 1 \in Marks(ip)')
  BY <1>2, <1>7, <1>c
<1>9. /\ now \in Nat /\ now >= 1 /\ Heartbeat \in Nat /\ Heartbeat > 0
      /\ \A m \in Marks(ip) : m \in Nat
      /\ InPool(ip) => srv[ip].last \in Nat
      /\ states[ip] # None => states[ip].lastSuccess \in Nat /\ states[ip].lastResultAt \in Nat
      /\ feeder # None => \A t \in feeder : t.last \in Nat
      /\ \A d \in Pending(ip) : d.ts \in Nat /\ d.ts <= now
  BY Numbers
<1>10. \A m \in Marks(ip) : m <= now
  <2>1. CASE states[ip] # None
    BY <1>9, <2>1 DEF AgreeInv, StateOK
  <2>2. CASE states[ip] = None
    <3>1. Successes(Pending(ip)) = {} /\ (InPool(ip) => srv[ip].last = 1)
      BY <2>2 DEF AgreeInv, StatelessOK
    <3>2. \A m \in Marks(ip) : m = 1
      BY <3>1 DEF Marks
    <3> QED
      BY <1>9, <3>2
  <2> QED
    BY <2>1, <2>2
<1>11. StateOK(ip)' /\ StatelessOK(ip)' /\ LatestOK(ip)'
  <2>1. CASE states[ip] = None /\ ~ok /\ states'[ip] = None /\ fresh
    <3>1. Successes(Pending(ip)') = {} /\ (InPool(ip)' => srv'[ip].last = 1)
      BY <1>0, <1>3, <1>7, <2>1 DEF AgreeInv, StatelessOK
    <3>2. LatestOK(ip)'
      BY <1>1, <1>5, <2>1 DEF LatestOK
    <3> QED
      BY <1>1, <2>1, <3>1, <3>2 DEF StateOK, StatelessOK
  <2>2. CASE /\ states'[ip] \in States
             /\ states'[ip].lastOK = ok /\ states'[ip].lastResultAt = now + 1 /\ fresh
             /\ states'[ip].lastSuccess = IF ok THEN now + 1 ELSE states[ip].lastSuccess
             /\ ok \/ states[ip] # None
    <3>0. states'[ip] # None
      BY <2>2, ScannerNoneAssumption
    <3>1. InPool(ip)' \/ Successes(Pending(ip)') # {}
      BY <1>3, <1>7, <1>c, <2>2 DEF AgreeInv, StateOK
    <3>2. \A m \in Marks(ip)' : m <= now + 1
      BY <1>7, <1>9, <1>10, <1>c, <2>2
    <3>3. states'[ip].lastSuccess # 0 => \E m \in Marks(ip)' : states'[ip].lastSuccess <= m
      BY <1>8, <1>9, <2>2 DEF AgreeInv, StateOK
    <3>4. now + 1 <= now'
      BY <1>0, <1>9
    <3>5. StateOK(ip)'
      BY <1>5, <2>2, <3>1, <3>2, <3>3, <3>4 DEF StateOK
    <3>6. LatestOK(ip)'
      <4>1. latest'[ip].ok => \E m \in Marks(ip)' : latest'[ip].ts - m < Heartbeat
        <5>1. latest'[ip].ts - (now + 1) < Heartbeat
          BY <1>1, <1>9
        <5> QED
          BY <1>1, <1>8, <2>2, <5>1
      <4>2. Status(ip)' = latest'[ip].ok
        BY <1>1, <1>5, <2>2
      <4> HIDE DEF fresh
      <4> QED
        BY <4>1, <4>2 DEF LatestOK
    <3> QED
      BY <3>0, <3>5, <3>6 DEF StatelessOK
  <2>3. CASE /\ states[ip] # None /\ states'[ip] \in States
             /\ ok /\ states[ip].lastOK /\ states[ip].lastSuccess # 0
             /\ ~(now + 1 - states[ip].lastSuccess >= Heartbeat)
             /\ states'[ip].lastOK /\ states'[ip].lastResultAt = now + 1
             /\ checks' = checks
             /\ states'[ip].lastSuccess = states[ip].lastSuccess
    <3>0. states'[ip] # None
      BY <2>3, ScannerNoneAssumption
    <3>1. /\ states[ip].lastOK = Status(ip)
          /\ InPool(ip) \/ Successes(Pending(ip)) # {}
          /\ \E m \in Marks(ip) : states[ip].lastSuccess <= m
      BY <2>3 DEF AgreeInv, StateOK
    <3>2. /\ Status(ip)' = TRUE /\ states'[ip].lastOK = TRUE
      <4>1. states[ip].lastOK = TRUE /\ states'[ip].lastOK = TRUE
        BY <2>3, Numbers DEF States
      <4> QED
        BY <1>7, <2>3, <3>1, <4>1
    <3>3. \A m \in Marks(ip)' : m <= now + 1
      BY <1>7, <1>9, <1>10, <2>3
    <3>4. now + 1 <= now'
      BY <1>0, <1>9
    <3>5. StateOK(ip)'
      BY <1>3, <1>7, <2>3, <3>1, <3>2, <3>3, <3>4 DEF StateOK
    <3>6. \E m \in Marks(ip) : now + 1 - m < Heartbeat
      BY <1>9, <2>3, <3>1
    <3>7. LatestOK(ip)'
      <4>1. \E m \in Marks(ip)' : latest'[ip].ts - m < Heartbeat
        <5>1. Marks(ip)' = Marks(ip)
          BY <1>7, <2>3
        <5>2. PICK m \in Marks(ip) : now + 1 - m < Heartbeat
          BY <3>6
        <5>3. latest'[ip].ts - m < Heartbeat
          <6>1. m \in Nat /\ now + 1 \in Nat
            BY <1>9
          <6>2. PICK at : at = latest'[ip].ts
            OBVIOUS
          <6>3. at = now + 1
            BY <1>1, <6>2
          <6>4. at - m < Heartbeat
            BY <1>9, <5>2, <6>1, <6>3
          <6> QED
            BY <6>2, <6>4
        <5> QED
          BY <5>1, <5>3
      <4>2. Status(ip)' = latest'[ip].ok
        BY <1>1, <2>3, <3>2
      <4> HIDE DEF fresh
      <4> QED
        BY <4>1, <4>2 DEF LatestOK
    <3> QED
      BY <3>0, <3>5, <3>7 DEF StatelessOK
  <2> QED
    BY <1>2, <2>1, <2>2, <2>3
<1>12. FeederOK(ip)'
  <2>1. states'[ip] = None => states[ip] = None /\ Pending(ip)' # {}
    <3>1. states'[ip] \notin States => states[ip] = None /\ fresh
      BY <1>2
    <3> QED
      BY <1>3, <3>1, ScannerNoneAssumption
  <2> QED
    BY <1>0, <1>3, <1>8, <2>1 DEF AgreeInv, FeederOK
<1>13. SentOK(ip)'
  BY <1>0 DEF AgreeInv, SentOK, InPool
<1>14. FrontOK(ip)'
  <2>1. \A d \in Successes(Pending(ip)') : d \in Successes(Pending(ip)) \/ d = c
    BY <1>2, <1>3, <1>7
  <2>2. InPool(ip) => srv[ip].last <= now + 1
    <3>1. InPool(ip) => srv[ip].last \in Marks(ip)
      BY Numbers
    <3> QED
      BY <1>9, <1>10, <3>1
  <2> QED
    BY <1>0, <1>3, <1>6, <1>c, <2>1, <2>2 DEF AgreeInv, FrontOK
<1> QED
  BY <1>11, <1>12, <1>13, <1>14 DEF AgreeInv

\* What a commit makes of the row of one address, in terms of the whole batch although
\* the server only gets what FilterChecks leaves of it.
LEMMA CommitRow ==
    ASSUME TypeInv, Distinct(inFlight), NEW ip \in IPs, FrontOK(ip),
           NEW pruned \in BOOLEAN, Commit(pruned)
    PROVE  LET sent == Of(inFlight, ip) IN
           /\ sent = {} => srv'[ip] = srv[ip]
           /\ Successes(sent) # {} => /\ srv'[ip] # None
                                      /\ srv'[ip].ok = Latest(sent).ok
                                      /\ srv'[ip].last = Latest(Successes(sent)).ts
           /\ sent # {} /\ Successes(sent) = {} /\ InPool(ip)
                => srv'[ip] # None /\ srv'[ip].ok = FALSE /\ srv'[ip].last = srv[ip].last
           /\ sent # {} /\ Successes(sent) = {} /\ ~InPool(ip) => srv'[ip] = None
<1> DEFINE sent == Of(inFlight, ip)
           mine == Of(FilterChecks(inFlight), ip)
           last == Latest(mine)
           success == Latest(Successes(mine))
<1>0. /\ inFlight \in SUBSET Checks /\ FilterChecks(inFlight) \in SUBSET Checks
      /\ mine \in SUBSET Checks /\ Successes(mine) \in SUBSET Checks /\ Successes(mine) \subseteq mine
      /\ mine \subseteq sent
  <2>1. inFlight \in SUBSET Checks
    BY DEF TypeInv, TypeOK
  <2>2. FilterChecks(inFlight) \in SUBSET Checks /\ FilterChecks(inFlight) \subseteq inFlight
    BY <2>1, BatchParts
  <2>3. mine \subseteq sent
    BY <2>2 DEF Of
  <2> QED
    BY <2>1, <2>2, <2>3, BatchParts
<1>1. srv'[ip] = IF Successes(mine) # {}
                 THEN [ok |-> last.ok, at |-> last.ts, last |-> success.ts]
                 ELSE IF mine # {} /\ InPool(ip) /\ srv[ip].ok
                 THEN [srv[ip] EXCEPT !.ok = FALSE, !.at = last.ts]
                 ELSE srv[ip]
  BY DEF Commit, Ingested
<1>2. knownGood # None /\ flusher.pc \in Sending
  BY DEF Commit, TypeInv, Sending
<1>3. /\ (ip \in knownGood \/ Successes(sent) # {}) /\ sent # {} => mine # {} /\ last = Latest(sent)
      /\ ~(ip \in knownGood) /\ Successes(sent) = {} => mine = {}
      /\ Successes(sent) # {} => Successes(mine) # {} /\ success = Latest(Successes(sent))
      /\ Successes(mine) # {} => Successes(sent) # {}
  <2>1. CASE sent = {}
    BY <1>0, <2>1 DEF Successes
  <2>2. CASE sent # {}
    BY <1>0, <2>2, FilterKeeps
  <2> QED
    BY <2>1, <2>2
<1>4. InPool(ip) => ip \in knownGood \/ Successes(sent) # {}
  BY <1>2 DEF FrontOK, Front
<1>5. srv[ip] \in ServerRows \cup {None} /\ (mine # {} => last \in Checks)
  BY <1>0, LatestIn DEF TypeInv, TypeOK
<1>6. Successes(sent) # {} => sent # {}
  BY DEF Successes
<1> HIDE DEF mine, last, success, sent
<1>7. CASE sent = {}
  <2>1. mine = {} /\ Successes(mine) = {} /\ Successes(sent) = {}
    BY <1>0, <1>6, <1>7
  <2> QED
    BY <1>1, <1>7, <2>1 DEF sent
<1>8. CASE Successes(sent) # {}
  <2>1. Successes(mine) # {} /\ success = Latest(Successes(sent)) /\ last = Latest(sent) /\ last \in Checks
    BY <1>3, <1>5, <1>6, <1>8
  <2>2. success \in Checks
    BY <1>0, <2>1, LatestIn DEF success
  <2>3. srv'[ip] = [ok |-> last.ok, at |-> last.ts, last |-> success.ts]
    BY <1>1, <2>1
  <2>4. srv'[ip] \in ServerRows
    BY <2>1, <2>2, <2>3 DEF ServerRows, Checks
  <2>5. srv'[ip] # None
    BY <2>4, ScannerNoneAssumption
  <2>6. srv'[ip].ok = Latest(sent).ok /\ srv'[ip].last = Latest(Successes(sent)).ts
    BY <2>1, <2>3
  <2> QED
    BY <1>6, <1>8, <2>5, <2>6 DEF sent
<1>9. CASE sent # {} /\ Successes(sent) = {} /\ InPool(ip)
  <2>1. mine # {} /\ Successes(mine) = {} /\ last \in Checks
    BY <1>3, <1>4, <1>5, <1>9
  <2>2. srv[ip] \in ServerRows
    BY <1>5, <1>9 DEF InPool
  <2>3. srv'[ip] = IF srv[ip].ok THEN [srv[ip] EXCEPT !.ok = FALSE, !.at = last.ts] ELSE srv[ip]
    BY <1>1, <1>9, <2>1
  <2>4. srv'[ip] \in ServerRows /\ srv'[ip].ok = FALSE /\ srv'[ip].last = srv[ip].last
    <3>1. CASE srv[ip].ok
      BY <2>1, <2>2, <2>3, <3>1 DEF ServerRows, Checks
    <3>2. CASE ~srv[ip].ok
      BY <2>2, <2>3, <3>2 DEF ServerRows
    <3> QED
      BY <3>1, <3>2
  <2>5. srv'[ip] # None
    BY <2>4, ScannerNoneAssumption
  <2> QED
    BY <1>9, <2>4, <2>5 DEF sent
<1>10. CASE sent # {} /\ Successes(sent) = {} /\ ~InPool(ip)
  BY <1>1, <1>3, <1>10 DEF InPool, sent
<1> QED
  BY <1>7, <1>8, <1>9, <1>10 DEF sent

\* The commit: the server now shows what it was about to show.
LEMMA CommitAgrees ==
    ASSUME TypeInv, OrderInv, TypeInv', NEW ip \in IPs, AgreeInv(ip),
           NEW pruned \in BOOLEAN, Commit(pruned)
    PROVE  AgreeInv(ip)'
<1> DEFINE sent == Of(inFlight, ip)
           good == Successes(sent)
           best == Latest(good)
<1>0. /\ UNCHANGED <<checks, inFlight, knownGood, states, latest, feeder, now>>
      /\ flusher.pc \in Sending /\ flusher'.pc = "sent" /\ knownGood # None
  <2>1. flusher \in Flushers
    BY DEF TypeInv, TypeOK, Flushers
  <2>2. flusher' = [flusher EXCEPT !.pc = "sent", !.pruned = pruned]
    BY DEF Commit
  <2>3. flusher'.pc = "sent"
    BY <2>1, <2>2 DEF Flushers
  <2> QED
    BY <2>3 DEF Commit, Sending, TypeInv, probeVars, stateVars
<1>1. /\ sent \subseteq Pending(ip) /\ good \subseteq sent /\ good \subseteq Successes(Pending(ip))
      /\ Pending(ip)' = Pending(ip) /\ Front = inFlight /\ Front' = inFlight
      /\ good # {} => sent # {}
      /\ sent \in SUBSET Checks /\ good \in SUBSET Checks
      /\ \A d \in good : d.ok
      /\ \A d \in sent : ~d.ok => d \notin good
      /\ \A d \in sent : d.ok => d \in good
  BY <1>0 DEF Pending, Of, Successes, Front, Sending, TypeInv, TypeOK
<1>2. /\ sent = {} => srv'[ip] = srv[ip]
      /\ good # {} => srv'[ip] # None /\ srv'[ip].ok = Latest(sent).ok /\ srv'[ip].last = best.ts
      /\ sent # {} /\ good = {} /\ InPool(ip)
           => srv'[ip] # None /\ srv'[ip].ok = FALSE /\ srv'[ip].last = srv[ip].last
      /\ sent # {} /\ good = {} /\ ~InPool(ip) => srv'[ip] = None
  BY CommitRow DEF OrderInv, Distinct, AgreeInv
<1>3. good # {} => best \in good /\ \A d \in good : d.ts <= best.ts
  BY <1>1, LatestIn
<1>4. sent # {} => Latest(sent) \in sent /\ Latest(sent).ok \in BOOLEAN
  BY <1>1, LatestIn DEF Checks
<1> HIDE DEF sent, good, best
<1>5. /\ now \in Nat /\ now >= 1 /\ Heartbeat \in Nat
      /\ \A m \in Marks(ip) : m \in Nat
      /\ \A m : m \in Marks(ip) <=>
            \/ \E d \in Pending(ip) : d.ok /\ m = d.ts
            \/ InPool(ip) /\ m = srv[ip].last
      /\ \A d \in Pending(ip) : d.ts \in Nat
      /\ InPool(ip) => srv[ip].last \in Nat
      /\ states[ip] # None => states[ip].lastSuccess \in Nat
      /\ latest[ip] # None => latest[ip].ts \in Nat
      /\ feeder # None => \A t \in feeder : t.last \in Nat
  BY Numbers
<1>6. \A m : m \in Marks(ip)' <=>
            \/ \E d \in Pending(ip) : d.ok /\ m = d.ts
            \/ InPool(ip)' /\ m = srv'[ip].last
  BY <1>1 DEF Marks, Successes, InPool
<1>7. /\ InPool(ip) => InPool(ip)'
      /\ InPool(ip)' => InPool(ip) \/ good # {}
      /\ InPool(ip)' /\ good = {} => srv'[ip].last = srv[ip].last
      /\ InPool(ip)' /\ sent # {} => srv'[ip].ok = Latest(sent).ok
  BY <1>1, <1>2, <1>4 DEF InPool
<1>8. Status(ip)' = Status(ip)
  <2>1. CASE Pending(ip) # {}
    BY <1>1, <2>1 DEF Status
  <2>2. CASE Pending(ip) = {}
    BY <1>1, <1>2, <2>2 DEF Status
  <2> QED
    BY <2>1, <2>2
<1>9. Marks(ip)' \subseteq Marks(ip)
  <2>1. good # {} => best \in Pending(ip) /\ best.ok
    BY <1>1, <1>3
  <2> QED
    BY <1>2, <1>5, <1>6, <1>7, <2>1
<1>10. ASSUME NEW m \in Marks(ip) PROVE \E n \in Marks(ip)' : n \in Nat /\ m <= n
  <2>1. CASE \E d \in Pending(ip) : d.ok /\ m = d.ts
    BY <1>5, <1>6, <2>1
  <2>2. CASE InPool(ip) /\ m = srv[ip].last /\ good = {}
    <3>1. m \in Marks(ip)'
      BY <1>6, <1>7, <2>2
    <3> QED
      BY <1>5, <3>1
  <2>3. CASE InPool(ip) /\ m = srv[ip].last /\ good # {}
    <3>1. best \in Pending(ip) /\ best.ok /\ best \in Successes(Pending(ip))
      BY <1>1, <1>3, <2>3
    <3>2. srv[ip].last <= best.ts \/ \E d \in good : d.ts = srv[ip].last
      BY <1>1, <2>3, <3>1 DEF AgreeInv, FrontOK, sent, good
    <3>3. CASE srv[ip].last <= best.ts
      BY <1>5, <1>6, <2>3, <3>1, <3>3
    <3>4. CASE \E d \in good : d.ts = srv[ip].last
      <4>1. PICK d \in good : d.ts = srv[ip].last
        BY <3>4
      <4>2. d \in Pending(ip) /\ d.ok
        BY <1>1, <4>1
      <4> QED
        BY <1>5, <1>6, <2>3, <4>1, <4>2
    <3> QED
      BY <3>2, <3>3, <3>4
  <2> QED
    BY <1>5, <2>1, <2>2, <2>3
<1>11. StateOK(ip)'
  <2> SUFFICES ASSUME states[ip] # None
               PROVE  /\ states[ip].lastOK = Status(ip)
                      /\ InPool(ip)' \/ Successes(Pending(ip)) # {}
                      /\ \A m \in Marks(ip)' : m <= states[ip].lastResultAt
                      /\ states[ip].lastResultAt <= now
                      /\ states[ip].lastSuccess # 0
                           => \E m \in Marks(ip)' : states[ip].lastSuccess <= m
    BY <1>0, <1>1, <1>8 DEF StateOK
  <2>1. states[ip].lastSuccess # 0 => \E m \in Marks(ip)' : states[ip].lastSuccess <= m
    <3> SUFFICES ASSUME states[ip].lastSuccess # 0
                 PROVE  \E m \in Marks(ip)' : states[ip].lastSuccess <= m
      OBVIOUS
    <3>1. PICK m \in Marks(ip) : states[ip].lastSuccess <= m
      BY DEF AgreeInv, StateOK
    <3>2. PICK n \in Marks(ip)' : n \in Nat /\ m <= n
      BY <1>10
    <3> QED
      BY <1>5, <3>1, <3>2
  <2> QED
    BY <1>7, <1>9, <2>1 DEF AgreeInv, StateOK
<1>12. StatelessOK(ip)'
  <2>1. Successes(Pending(ip)) = {} => good = {}
    BY <1>1
  <2> QED
    BY <1>0, <1>1, <1>7, <2>1 DEF AgreeInv, StatelessOK
<1>13. LatestOK(ip)'
  <2> SUFFICES ASSUME latest[ip] # None
               PROVE  /\ InPool(ip)' \/ Pending(ip) # {} => Status(ip) = latest[ip].ok
                      /\ latest[ip].ok => \E m \in Marks(ip)' : latest[ip].ts - m < Heartbeat
    BY <1>0, <1>1, <1>8 DEF LatestOK
  <2>1. InPool(ip)' \/ Pending(ip) # {} => Status(ip) = latest[ip].ok
    <3>1. good # {} => Pending(ip) # {}
      BY <1>1
    <3> QED
      BY <1>7, <3>1 DEF AgreeInv, LatestOK
  <2>2. latest[ip].ok => \E m \in Marks(ip)' : latest[ip].ts - m < Heartbeat
    <3> SUFFICES ASSUME latest[ip].ok PROVE \E m \in Marks(ip)' : latest[ip].ts - m < Heartbeat
      OBVIOUS
    <3>1. PICK m \in Marks(ip) : latest[ip].ts - m < Heartbeat
      BY DEF AgreeInv, LatestOK
    <3>2. PICK n \in Marks(ip)' : n \in Nat /\ m <= n
      BY <1>10
    <3>3. latest[ip].ts - n < Heartbeat
      BY <1>5, <3>1, <3>2
    <3> QED
      BY <3>3
  <2> QED
    BY <2>1, <2>2
<1>14. FeederOK(ip)'
  <2> SUFFICES ASSUME feeder # None, NEW t \in feeder, t.ip = ip
               PROVE  /\ InPool(ip)'
                      /\ \E m \in Marks(ip)' : t.last <= m
                      /\ states[ip] = None => t.last = 1 /\ (Pending(ip) # {} \/ srv'[ip].ok)
    BY <1>0, <1>1 DEF FeederOK
  <2>1. /\ InPool(ip) /\ \E m \in Marks(ip) : t.last <= m
        /\ states[ip] = None => t.last = 1 /\ (Pending(ip) # {} \/ srv[ip].ok)
    BY DEF AgreeInv, FeederOK
  <2>2. PICK m \in Marks(ip) : t.last <= m
    BY <2>1
  <2>3. PICK n \in Marks(ip)' : n \in Nat /\ m <= n
    BY <1>10
  <2>4. t.last <= n
    BY <1>5, <2>2, <2>3
  <2>5. Pending(ip) = {} => srv'[ip] = srv[ip]
    BY <1>1, <1>2
  <2> QED
    BY <1>7, <2>1, <2>4, <2>5
<1>15. SentOK(ip)'
  <2>1. \A d \in good : InPool(ip)' /\ d.ts <= srv'[ip].last
    BY <1>2, <1>3 DEF InPool
  <2>2. Of(inFlight, ip)' = sent
    BY <1>0 DEF sent
  <2>3. Successes(sent) = good
    BY DEF good
  <2> QED
    BY <1>7, <2>1, <2>2, <2>3 DEF SentOK
<1>16. FrontOK(ip)'
  <2> SUFFICES ASSUME InPool(ip)'
               PROVE  /\ ip \in knownGood \/ good # {}
                      /\ \A d \in Successes(Pending(ip)) :
                           srv'[ip].last <= d.ts \/ \E e \in good : e.ts = srv'[ip].last
    <3>1. Successes(Of(Front', ip)) = good
      BY <1>1 DEF sent, good
    <3> QED
      BY <1>0, <1>1, <3>1 DEF FrontOK
  <2>1. Successes(Of(Front, ip)) = good
    BY <1>1 DEF sent, good
  <2>2. CASE good # {}
    BY <1>2, <1>3, <2>2
  <2>3. CASE good = {}
    <3>1. InPool(ip) /\ srv'[ip].last = srv[ip].last
      BY <1>7, <2>3
    <3> QED
      BY <1>0, <2>1, <3>1 DEF AgreeInv, FrontOK
  <2> QED
    BY <2>2, <2>3
<1> QED
  BY <1>11, <1>12, <1>13, <1>14, <1>15, <1>16 DEF AgreeInv

\* What an accepted batch makes of the state of one address.
LEMMA MergedRow ==
    ASSUME TypeInv, Distinct(inFlight), NEW ip \in IPs,
           NEW readable \in BOOLEAN, Accepted(readable)
    PROVE  LET sent == Of(inFlight, ip)
               last == Latest(sent)
               good == Successes(sent)
               old == IF states[ip] # None THEN states[ip]
                      ELSE [lastOK |-> FALSE, lastSuccess |-> 0, lastResultAt |-> 0]
           IN /\ sent = {} \/ (ip \notin knownGood /\ good = {}) => states'[ip] = states[ip]
              /\ sent # {} /\ (ip \in knownGood \/ good # {})
                   => states'[ip] =
                        [lastOK |-> IF last.ts > old.lastResultAt THEN last.ok ELSE old.lastOK,
                         lastResultAt |-> IF last.ts > old.lastResultAt THEN last.ts
                                                                        ELSE old.lastResultAt,
                         lastSuccess |-> IF good # {} /\ Latest(good).ts > old.lastSuccess
                                         THEN Latest(good).ts ELSE old.lastSuccess]
<1> DEFINE sent == Of(inFlight, ip)
           good == Successes(sent)
           mine == Of(FilterChecks(inFlight), ip)
           old == IF states[ip] # None THEN states[ip]
                  ELSE [lastOK |-> FALSE, lastSuccess |-> 0, lastResultAt |-> 0]
           made(last, some, success) ==
             [lastOK |-> IF last.ts > old.lastResultAt THEN last.ok ELSE old.lastOK,
              lastResultAt |-> IF last.ts > old.lastResultAt THEN last.ts
                                                             ELSE old.lastResultAt,
              lastSuccess |-> IF some /\ success.ts > old.lastSuccess
                              THEN success.ts ELSE old.lastSuccess]
<1>0. inFlight \in SUBSET Checks /\ mine \subseteq sent
  <2>1. inFlight \in SUBSET Checks
    BY DEF TypeInv, TypeOK
  <2>2. FilterChecks(inFlight) \subseteq inFlight
    BY <2>1, BatchParts
  <2> QED
    BY <2>1, <2>2 DEF Of
<1>1. states'[ip] = IF mine = {} THEN states[ip]
                    ELSE made(Latest(mine), Successes(mine) # {}, Latest(Successes(mine)))
  BY DEF Accepted, Merged
<1>2. sent # {} =>
        /\ ip \in knownGood \/ good # {} => mine # {} /\ Latest(mine) = Latest(sent)
        /\ ~(ip \in knownGood) /\ good = {} => mine = {}
        /\ good # {} => Successes(mine) # {} /\ Latest(Successes(mine)) = Latest(good)
        /\ Successes(mine) # {} => good # {}
  BY <1>0, FilterKeeps
<1> HIDE DEF mine, sent, good, made
<1>3. CASE sent = {} \/ (ip \notin knownGood /\ good = {})
  <2>1. mine = {}
    BY <1>0, <1>2, <1>3
  <2> QED
    BY <1>1, <1>3, <2>1 DEF sent, good
<1>4. CASE sent # {} /\ (ip \in knownGood \/ good # {})
  <2>1. mine # {} /\ Latest(mine) = Latest(sent) /\ (Successes(mine) # {} <=> good # {})
    BY <1>2, <1>4
  <2>2. CASE good # {}
    <3>1. states'[ip] = made(Latest(sent), TRUE, Latest(good))
      BY <1>1, <1>2, <1>4, <2>1, <2>2 DEF made
    <3> QED
      BY <1>4, <2>2, <3>1 DEF made, sent, good
  <2>3. CASE good = {}
    <3>1. states'[ip] = made(Latest(sent), FALSE, Latest(good))
      BY <1>1, <2>1, <2>3 DEF made
    <3> QED
      BY <1>4, <2>3, <3>1 DEF made, sent, good
  <2> QED
    BY <2>2, <2>3
<1> QED
  BY <1>3, <1>4 DEF sent, good

\* The response arrives: what was in flight is now the server's, and a later check that
\* was buffered meanwhile still decides.
LEMMA AcceptedAgrees ==
    ASSUME TypeInv, TypeInv', OrderInv, PruneInv, NEW ip \in IPs, AgreeInv(ip),
           NEW readable \in BOOLEAN, Accepted(readable)
    PROVE  AgreeInv(ip)'
<1> DEFINE sent == Of(inFlight, ip)
           rest == Of(checks, ip)
           good == Successes(sent)
           last == Latest(sent)
<1>0. /\ UNCHANGED <<checks, srv, latest, feeder, now>> /\ inFlight' = {}
      /\ flusher.pc = "sent" /\ flusher.pc \in Sending /\ knownGood # None
      /\ knownGood' = knownGood \cup IPsOf(Successes(inFlight))
  BY DEF Accepted, Sending, TypeInv
<1>1. flusher'.pc \notin Sending
  <2>1. flusher \in Flushers
    BY DEF TypeInv, TypeOK, Flushers
  <2>2. PICK prune : prune = pruneIPs' /\ Return(TRUE, prune)
    BY DEF Accepted
  <2>3. flusher'.pc \in {"wait", "stopped", "gaveup", "final"}
    BY <2>1, <2>2, Returns
  <2> QED
    BY <2>3 DEF Sending
<1>2. /\ Pending(ip) = rest \cup sent /\ Pending(ip)' = rest
      /\ Successes(Pending(ip)) = Successes(rest) \cup good
      /\ Front = inFlight /\ Front' = checks
      /\ sent \in SUBSET Checks /\ good \in SUBSET Checks /\ rest \in SUBSET Checks
      /\ good = {d \in sent : d.ok} /\ Successes(rest) = {d \in rest : d.ok}
      /\ \A d \in sent, e \in rest : d.ts < e.ts
      /\ Distinct(sent \cup rest) /\ Distinct(inFlight)
  BY <1>0, <1>1 DEF Pending, Of, Successes, Front, TypeInv, TypeOK, OrderInv, Distinct
<1>3. /\ now \in Nat /\ now >= 1 /\ Heartbeat \in Nat
      /\ \A d \in rest \cup sent : d.ts \in Nat /\ 2 <= d.ts /\ d.ts <= now
      /\ InPool(ip) => srv[ip].last \in Nat
      /\ states[ip] # None
           => /\ states[ip] \in States /\ states[ip].lastOK \in BOOLEAN
              /\ states[ip].lastSuccess \in Nat /\ states[ip].lastResultAt \in Nat
      /\ latest[ip] # None => latest[ip].ts \in Nat
      /\ \A m \in Marks(ip) : m \in Nat
      /\ feeder # None => \A t \in feeder : t.last \in Nat
      /\ \A m : m \in Marks(ip) <=>
            \/ \E d \in rest \cup sent : d.ok /\ m = d.ts
            \/ InPool(ip) /\ m = srv[ip].last
  BY <1>2, Numbers
<1>4. /\ sent # {} => last \in sent /\ (\A d \in sent : d.ts <= last.ts) /\ last.ok \in BOOLEAN
      /\ good # {} => Latest(good) \in good
  BY <1>2, LatestIn DEF Checks
<1>5. /\ sent = {} \/ (ip \notin knownGood /\ good = {}) => states'[ip] = states[ip]
      /\ sent # {} /\ (ip \in knownGood \/ good # {})
           => LET old == IF states[ip] # None THEN states[ip]
                         ELSE [lastOK |-> FALSE, lastSuccess |-> 0, lastResultAt |-> 0]
              IN states'[ip] =
                   [lastOK |-> IF last.ts > old.lastResultAt THEN last.ok ELSE old.lastOK,
                    lastResultAt |-> IF last.ts > old.lastResultAt THEN last.ts
                                                                   ELSE old.lastResultAt,
                    lastSuccess |-> IF good # {} /\ Latest(good).ts > old.lastSuccess
                                    THEN Latest(good).ts ELSE old.lastSuccess]
  BY <1>2, MergedRow
<1>l. rest # {} => Latest(rest \cup sent) = Latest(rest) /\ Latest(rest) \in rest
  <2>1. sent \cup rest = rest \cup sent
    OBVIOUS
  <2>2. rest # {} => Latest(sent \cup rest) = Latest(rest)
    BY <1>2, LatestLater
  <2>3. rest # {} => Latest(rest) \in rest
    BY <1>2, LatestIn
  <2> QED
    BY <2>1, <2>2, <2>3
<1>6. /\ \A d \in good : InPool(ip) /\ d.ts <= srv[ip].last
      /\ InPool(ip) /\ sent # {} => srv[ip].ok = last.ok
      /\ ip \in knownGood => InPool(ip)
      /\ InPool(ip) => ip \in knownGood \/ good # {}
  <2>1. ip \in knownGood => InPool(ip)
    BY <1>0 DEF PruneInv, Known, InPool
  <2>2. InPool(ip) => ip \in knownGood \/ good # {}
    BY <1>0, <1>2 DEF AgreeInv, FrontOK
  <2>3. /\ \A d \in good : InPool(ip) /\ d.ts <= srv[ip].last
        /\ InPool(ip) /\ sent # {} => srv[ip].ok = last.ok
    BY <1>0 DEF AgreeInv, SentOK
  <2> QED
    BY <2>1, <2>2, <2>3
<1>7. \A d \in good : d \in sent /\ d.ok
  BY <1>2
<1> HIDE DEF sent, rest, good, last
<1>8. /\ InPool(ip)' <=> InPool(ip)
      /\ \A m : m \in Marks(ip)' <=>
            \/ \E d \in rest : d.ok /\ m = d.ts
            \/ InPool(ip) /\ m = srv[ip].last
  BY <1>0, <1>2 DEF Marks, Successes, InPool
<1>9. Marks(ip)' \subseteq Marks(ip)
  BY <1>3, <1>8
<1>10. ASSUME NEW m \in Marks(ip) PROVE \E n \in Marks(ip)' : n \in Nat /\ m <= n
  <2>1. CASE m \in Marks(ip)'
    BY <1>3, <2>1
  <2>2. CASE m \notin Marks(ip)'
    <3>1. PICK d \in sent : d.ok /\ m = d.ts
      BY <1>3, <1>8, <2>2
    <3>2. d \in good
      BY <1>2, <3>1
    <3>3. InPool(ip) /\ m <= srv[ip].last
      BY <1>6, <3>1, <3>2
    <3>4. srv[ip].last \in Marks(ip)' /\ srv[ip].last \in Nat
      BY <1>3, <1>8, <3>3
    <3> QED
      BY <3>3, <3>4
  <2> QED
    BY <2>1, <2>2
<1>11. InPool(ip) \/ rest # {} => Status(ip)' = Status(ip)
  <2>1. CASE rest # {}
    BY <1>2, <1>l, <2>1 DEF Status
  <2>2. CASE rest = {} /\ InPool(ip) /\ sent # {}
    <3>1. Status(ip)' = srv[ip].ok
      BY <1>0, <1>2, <2>2 DEF Status
    <3>2. rest \cup sent = sent
      BY <2>2
    <3>3. Status(ip) = last.ok
      BY <1>2, <2>2, <3>2 DEF Status, last
    <3> QED
      BY <1>6, <2>2, <3>1, <3>3
  <2>3. CASE rest = {} /\ sent = {}
    BY <1>0, <1>2, <2>3 DEF Status
  <2> QED
    BY <2>1, <2>2, <2>3
<1>p. states[ip] # None => InPool(ip) \/ Successes(rest) # {}
  BY <1>2, <1>6 DEF AgreeInv, StateOK
<1>s. \A d \in sent \cup rest : d \in Checks
  BY <1>2
<1>12. StateOK(ip)' /\ (states'[ip] = None => states[ip] = None /\ (sent = {} \/ ~InPool(ip)))
  <2>1. CASE states[ip] = None
    <3>1. /\ Successes(rest) = {} /\ good = {} /\ (InPool(ip) => srv[ip].last = 1)
          /\ \A d \in rest \cup sent : ~d.ok
      BY <1>2, <2>1 DEF AgreeInv, StatelessOK
    <3>2. CASE sent = {} \/ ip \notin knownGood
      <4>1. states'[ip] = None
        BY <1>5, <2>1, <3>1, <3>2
      <4>2. sent = {} \/ ~InPool(ip)
        BY <1>6, <3>1, <3>2
      <4> QED
        BY <2>1, <4>1, <4>2 DEF StateOK
    <3>3. CASE sent # {} /\ ip \in knownGood
      <4>1. last \in sent /\ last.ts \in Nat /\ 2 <= last.ts /\ last.ts <= now
            /\ last.ok = FALSE /\ last \in Checks
        BY <1>3, <1>4, <1>s, <3>1, <3>3
      <4>2. states'[ip] = [lastOK |-> last.ok, lastResultAt |-> last.ts, lastSuccess |-> 0]
        <5> DEFINE old == [lastOK |-> FALSE, lastSuccess |-> 0, lastResultAt |-> 0]
        <5>1. states'[ip] = [lastOK |-> IF last.ts > old.lastResultAt THEN last.ok ELSE old.lastOK,
                             lastResultAt |-> IF last.ts > old.lastResultAt
                                              THEN last.ts ELSE old.lastResultAt,
                             lastSuccess |-> IF good # {} /\ Latest(good).ts > old.lastSuccess
                                             THEN Latest(good).ts ELSE old.lastSuccess]
          BY <1>5, <2>1, <3>3
        <5>2. old.lastResultAt = 0 /\ old.lastSuccess = 0
          OBVIOUS
        <5> HIDE DEF old
        <5>3. last.ts > old.lastResultAt
          BY <4>1, <5>2
        <5> QED
          BY <3>1, <5>1, <5>2, <5>3
      <4>3. states'[ip] # None
        <5>1. states'[ip] \in States
          BY <4>1, <4>2, ScannerAssumption DEF States, Checks, Times
        <5> QED
          BY <5>1, ScannerNoneAssumption
      <4>4. InPool(ip)
        BY <1>6, <3>3
      <4>5. Status(ip)' = FALSE
        <5>1. Pending(ip) \in SUBSET Checks /\ Pending(ip) # {}
          BY <1>2, <3>3
        <5>2. Latest(Pending(ip)) \in Pending(ip)
          BY <5>1, LatestIn
        <5>3. Latest(Pending(ip)).ok = FALSE
          BY <1>2, <3>1, <5>1, <5>2 DEF Checks
        <5> QED
          BY <1>11, <4>4, <5>1, <5>3 DEF Status
      <4>6. \A m \in Marks(ip)' : m <= last.ts
        BY <1>8, <3>1, <4>1
      <4>7. /\ states'[ip].lastOK = FALSE /\ states'[ip].lastResultAt = last.ts
            /\ states'[ip].lastSuccess = 0
        BY <4>1, <4>2
      <4>8. StateOK(ip)'
        BY <1>0, <1>8, <4>1, <4>4, <4>5, <4>6, <4>7 DEF StateOK
      <4> QED
        BY <4>3, <4>8
    <3> QED
      BY <3>2, <3>3
  <2>2. CASE states[ip] # None
    <3>1. /\ states[ip].lastOK = Status(ip)
          /\ InPool(ip) \/ Successes(rest) # {}
          /\ \A m \in Marks(ip) : m <= states[ip].lastResultAt
          /\ states[ip].lastResultAt <= now
      BY <1>p, <2>2 DEF AgreeInv, StateOK
    <3>2. Status(ip)' = Status(ip)
      <4>1. InPool(ip) \/ rest # {}
        BY <1>2, <3>1
      <4> QED
        BY <1>11, <4>1
    <3>3. states[ip].lastSuccess # 0 => \E m \in Marks(ip)' : states[ip].lastSuccess <= m
      <4> SUFFICES ASSUME states[ip].lastSuccess # 0
                   PROVE  \E m \in Marks(ip)' : states[ip].lastSuccess <= m
        OBVIOUS
      <4>1. PICK m \in Marks(ip) : states[ip].lastSuccess <= m
        BY <2>2 DEF AgreeInv, StateOK
      <4>2. PICK n \in Marks(ip)' : n \in Nat /\ m <= n
        BY <1>10
      <4>3. states[ip].lastSuccess <= n
        BY <1>3, <2>2, <4>1, <4>2
      <4> QED
        BY <4>3
    <3>4. CASE states'[ip] = states[ip]
      <4>1. StateOK(ip)'
        BY <1>0, <1>2, <1>8, <1>9, <2>2, <3>1, <3>2, <3>3, <3>4 DEF StateOK
      <4> QED
        BY <2>2, <3>4, <4>1
    <3>5. CASE sent # {} /\ (ip \in knownGood \/ good # {})
      <4>0. /\ last \in sent /\ last.ts \in Nat /\ 2 <= last.ts /\ last.ts <= now
            /\ last \in Checks /\ last.ok \in BOOLEAN /\ InPool(ip)
            /\ states[ip].lastResultAt \in Nat /\ states[ip].lastSuccess \in Nat
            /\ states[ip].lastOK \in BOOLEAN
        BY <1>3, <1>4, <1>6, <1>s, <2>2, <3>5
      <4> DEFINE later == last.ts > states[ip].lastResultAt
                 better == good # {} /\ Latest(good).ts > states[ip].lastSuccess
      <4>1. states'[ip] = [lastOK |-> IF later THEN last.ok ELSE states[ip].lastOK,
                           lastResultAt |-> IF later THEN last.ts ELSE states[ip].lastResultAt,
                           lastSuccess |-> IF better THEN Latest(good).ts
                                                     ELSE states[ip].lastSuccess]
        BY <1>5, <2>2, <3>5
      <4>2. /\ states'[ip].lastOK = IF later THEN last.ok ELSE states[ip].lastOK
            /\ states'[ip].lastResultAt = IF later THEN last.ts ELSE states[ip].lastResultAt
            /\ states'[ip].lastSuccess = IF better THEN Latest(good).ts ELSE states[ip].lastSuccess
        BY <4>1
      <4>3. states'[ip] # None
        <5>1. states' \in [IPs -> States \cup {None}]
          BY DEF TypeInv, TypeOK
        <5>2. good # {} => Latest(good) \in Checks
          BY <1>2, <1>4
        <5>3. states'[ip] \in States
          BY <1>3, <2>2, <4>0, <4>1, <5>2 DEF States, Checks
        <5> QED
          BY <5>3, ScannerNoneAssumption
      <4>4. states'[ip].lastOK = Status(ip)'
        <5>1. CASE ~later
          BY <3>1, <3>2, <4>2, <5>1
        <5>2. CASE later
          <6>1. ~last.ok
            <7>1. last.ok => last.ts \in Marks(ip)
              BY <1>3, <4>0
            <7> QED
              BY <1>3, <3>1, <4>0, <5>2, <7>1
          <6>2. CASE rest = {}
            <7>1. Status(ip)' = srv[ip].ok
              BY <1>0, <1>2, <6>2 DEF Status
            <7> QED
              BY <1>6, <3>5, <4>0, <4>2, <5>2, <7>1
          <6>3. CASE rest # {}
            <7> DEFINE newest == Latest(rest)
            <7>1. Status(ip)' = newest.ok
              BY <1>2, <6>3 DEF Status
            <7>2. newest \in rest
              BY <1>l, <6>3
            <7> HIDE DEF newest
            <7>3. newest.ts \in Nat /\ last.ts < newest.ts /\ newest.ok \in BOOLEAN
              BY <1>2, <1>3, <4>0, <7>2 DEF Checks
            <7>4. newest.ok => newest.ts \in Marks(ip)
              BY <1>3, <7>2
            <7>5. ~newest.ok
              BY <3>1, <4>0, <5>2, <7>3, <7>4
            <7> QED
              BY <4>0, <4>2, <5>2, <6>1, <7>1, <7>3, <7>5
          <6> QED
            BY <6>2, <6>3
        <5> QED
          BY <5>1, <5>2
      <4>5. \A m \in Marks(ip)' : m <= states'[ip].lastResultAt
        BY <1>3, <1>9, <3>1, <4>0, <4>2
      <4>6. states'[ip].lastResultAt <= now
        BY <3>1, <4>0, <4>2
      <4>7. states'[ip].lastSuccess # 0 => \E m \in Marks(ip)' : states'[ip].lastSuccess <= m
        <5>1. CASE better
          <6>1. Latest(good).ts <= srv[ip].last
            BY <1>4, <1>6, <5>1
          <6> QED
            BY <1>8, <4>0, <4>2, <5>1, <6>1
        <5>2. CASE ~better
          BY <3>3, <4>2, <5>2
        <5> QED
          BY <5>1, <5>2
      <4>8. StateOK(ip)'
        BY <1>0, <1>8, <4>0, <4>4, <4>5, <4>6, <4>7 DEF StateOK
      <4> QED
        BY <4>3, <4>8
    <3>6. states'[ip] = states[ip] \/ (sent # {} /\ (ip \in knownGood \/ good # {}))
      BY <1>5
    <3> QED
      BY <3>4, <3>5, <3>6
  <2> QED
    BY <2>1, <2>2
<1>13. StatelessOK(ip)'
  <2>1. ASSUME states'[ip] = None PROVE states[ip] = None
    BY <1>12, <2>1
  <2> QED
    BY <1>0, <1>2, <1>8, <2>1 DEF AgreeInv, StatelessOK
<1>14. LatestOK(ip)'
  <2> SUFFICES ASSUME latest[ip] # None
               PROVE  /\ InPool(ip) \/ rest # {} => Status(ip)' = latest[ip].ok
                      /\ latest[ip].ok => \E m \in Marks(ip)' : latest[ip].ts - m < Heartbeat
    BY <1>0, <1>2, <1>8 DEF LatestOK
  <2>1. InPool(ip) \/ rest # {} => Status(ip)' = latest[ip].ok
    BY <1>2, <1>11 DEF AgreeInv, LatestOK
  <2>2. latest[ip].ok => \E m \in Marks(ip)' : latest[ip].ts - m < Heartbeat
    <3> SUFFICES ASSUME latest[ip].ok PROVE \E m \in Marks(ip)' : latest[ip].ts - m < Heartbeat
      OBVIOUS
    <3>1. PICK m \in Marks(ip) : latest[ip].ts - m < Heartbeat
      BY DEF AgreeInv, LatestOK
    <3>2. PICK n \in Marks(ip)' : n \in Nat /\ m <= n
      BY <1>10
    <3>3. latest[ip].ts - n < Heartbeat
      BY <1>3, <3>1, <3>2
    <3> QED
      BY <3>3
  <2> QED
    BY <2>1, <2>2
<1>15. FeederOK(ip)'
  <2> SUFFICES ASSUME feeder # None, NEW t \in feeder, t.ip = ip
               PROVE  /\ InPool(ip)
                      /\ \E m \in Marks(ip)' : t.last <= m
                      /\ states'[ip] = None => t.last = 1 /\ (rest # {} \/ srv[ip].ok)
    BY <1>0, <1>2, <1>8 DEF FeederOK
  <2>1. /\ InPool(ip) /\ \E m \in Marks(ip) : t.last <= m
        /\ states[ip] = None => t.last = 1 /\ (rest \cup sent # {} \/ srv[ip].ok)
    BY <1>2 DEF AgreeInv, FeederOK
  <2>2. PICK m \in Marks(ip) : t.last <= m
    BY <2>1
  <2>3. PICK n \in Marks(ip)' : n \in Nat /\ m <= n
    BY <1>10
  <2>4. t.last <= n
    BY <1>3, <2>2, <2>3
  <2> QED
    BY <1>12, <2>1, <2>4
<1>16. SentOK(ip)'
  BY <1>1 DEF SentOK, Sending
<1>17. FrontOK(ip)'
  <2> SUFFICES ASSUME InPool(ip)
               PROVE  /\ ip \in knownGood'
                      /\ \A d \in Successes(rest) : srv[ip].last <= d.ts
    BY <1>0, <1>2, <1>8 DEF FrontOK
  <2>1. ip \in knownGood'
    <3>1. good # {} => ip \in IPsOf(Successes(inFlight))
      BY DEF good, sent, Successes, Of, IPsOf
    <3> QED
      BY <1>0, <1>6, <3>1
  <2>2. ASSUME NEW d \in Successes(rest) PROVE srv[ip].last <= d.ts
    <3>1. d \in Successes(Pending(ip)) /\ d \in rest
      BY <1>2
    <3>2. srv[ip].last <= d.ts \/ \E e \in good : e.ts = srv[ip].last
      BY <1>2, <3>1 DEF AgreeInv, FrontOK, sent, good
    <3>3. \A e \in good : e.ts < d.ts /\ e.ts \in Nat
      BY <1>2, <1>3, <1>7, <3>1
    <3>4. d.ts \in Nat
      BY <1>3, <3>1
    <3> QED
      BY <3>2, <3>3, <3>4
  <2> QED
    BY <2>1, <2>2
<1> QED
  BY <1>12, <1>13, <1>14, <1>15, <1>16, <1>17 DEF AgreeInv

\* Probes and the feeder.
LEMMA ProbesAgree ==
    ASSUME TypeInv, OrderInv, NEW ip \in IPs, AgreeInv(ip),
           \/ \E w \in Workers, i \in IPs : StartScan(w, i)
           \/ \E w \in Workers, target \in queue : StartRecheck(w, target)
           \/ \E w \in Workers : Probing(w)
           \/ FetchPool
           \/ SeedRecheckStates
    PROVE  AgreeInv(ip)'
<1>0. now \in Times /\ now \in Nat /\ now <= now
  BY ScannerAssumption DEF TypeInv, TypeOK, Times
<1>1. CASE \/ \E w \in Workers, i \in IPs : StartScan(w, i)
           \/ \E w \in Workers, target \in queue : StartRecheck(w, target)
           \/ \E w \in Workers : FinishMixed(w)
  <2>1. UNCHANGED <<checks, inFlight, flusher, knownGood, states, latest, srv, now, feeder>>
    BY <1>1 DEF StartScan, StartRecheck, FinishMixed, flushVars, stateVars
  <2>2. Pending(ip)' = Pending(ip) /\ Front' = Front
    BY <2>1 DEF Pending, Front
  <2> QED
    BY <1>0, <2>1, <2>2, Quiet
<1>2. ASSUME NEW w \in Workers, NEW ok \in BOOLEAN, Finish(w, ok) PROVE AgreeInv(ip)'
  <2>1. CASE worker[w].target.ip = ip
    BY <1>2, <2>1, FinishAgrees
  <2>2. CASE worker[w].target.ip # ip
    <3> DEFINE other == worker[w].target.ip
    <3>1. /\ UNCHANGED <<inFlight, flusher, knownGood, srv, feeder>> /\ now' = now + 1
          /\ states'[ip] = states[ip] /\ latest'[ip] = latest[ip]
          /\ checks' \in {checks, checks \cup {Result(other, ok)}}
      <4>0. /\ states \in [IPs -> States \cup {None}]
            /\ latest \in [IPs -> [ok : BOOLEAN, ts : Times] \cup {None}]
        BY DEF TypeInv, TypeOK
      <4>1. /\ UNCHANGED <<inFlight, flusher, knownGood, srv, feeder>> /\ now' = now + 1
            /\ latest' = [latest EXCEPT ![other] = [ok |-> ok, ts |-> now + 1]]
            /\ IF worker[w].kind = "scan" THEN Record(other, ok, now + 1)
                                          ELSE RecordRecheck(worker[w].target, ok, now + 1)
        BY <1>2 DEF Finish, flushVars
      <4>2. latest'[ip] = latest[ip]
        BY <2>2, <4>0, <4>1
      <4>3. states'[ip] = states[ip]
        BY <2>2, <4>0, <4>1 DEF Record, RecordRecheck
      <4>4. checks' \in {checks, checks \cup {Result(other, ok)}}
        BY <4>1 DEF Record, RecordRecheck, RecordResult, Result
      <4> QED
        BY <4>1, <4>2, <4>3, <4>4
    <3>2. now' \in Times /\ now <= now'
      BY <1>0, <1>2, <3>1, ScannerAssumption DEF Finish, Times
    <3>3. Pending(ip)' = Pending(ip) /\ Of(Front', ip) = Of(Front, ip)
      BY <2>2, <3>1 DEF Pending, Front, Of, Result
    <3> QED
      BY <3>1, <3>2, <3>3, Quiet
  <2> QED
    BY <2>1, <2>2
<1>3. CASE FetchPool
  BY <1>3, FetchAgrees
<1>4. CASE SeedRecheckStates
  <2>1. CASE \E t \in feeder : t.ip = ip
    BY <1>4, <2>1, SeedAgrees
  <2>2. CASE ~ \E t \in feeder : t.ip = ip
    <3>1. /\ UNCHANGED <<checks, inFlight, flusher, knownGood, latest, srv, now>>
          /\ states'[ip] = states[ip] /\ feeder' = None
      BY <1>4, <2>2 DEF SeedRecheckStates, flushVars
    <3>2. Pending(ip)' = Pending(ip) /\ Front' = Front
      BY <3>1 DEF Pending, Front
    <3> QED
      BY <1>0, <3>1, <3>2, Quiet
  <2> QED
    BY <2>1, <2>2
<1> QED
  BY <1>1, <1>2, <1>3, <1>4 DEF Probing

\* The flusher.
LEMMA FlushesAgree ==
    ASSUME TypeInv, TypeInv', OrderInv, PruneInv, NEW ip \in IPs, AgreeInv(ip),
           Trigger \/ FlushOnWake \/ Flushing
    PROVE  AgreeInv(ip)'
<1>0. now \in Times /\ now \in Nat /\ now <= now
  BY ScannerAssumption DEF TypeInv, TypeOK, Times
<1>1. /\ now' = now /\ latest' = latest /\ feeder' = feeder
      /\ \/ checks' \cup inFlight' = checks \cup inFlight
         \/ flusher.pc = "sent" /\ \E readable \in BOOLEAN : Accepted(readable)
  BY FlushBatches
<1>2. checks' \cup inFlight' = checks \cup inFlight => Pending(ip)' = Pending(ip)
  BY DEF Pending
<1>3. CASE Trigger \/ FlushOnWake
  <2>1. inFlight = {} /\ \E maint \in BOOLEAN : Take(maint)
    BY <1>3, TakeTypes
  <2>2. /\ checks' \cup inFlight' = checks /\ checks' = {}
        /\ flusher'.pc \notin {"send", "sent"}
        /\ flusher'.pc \notin Sending => inFlight' = {}
    BY <2>1, Takes
  <2>3. UNCHANGED <<states, knownGood, srv>> /\ flusher.pc \in {"wait", "final"}
    BY <1>3 DEF Trigger, FlushOnTick, FlushOnWake, FlushOnRetry, FinalAttempt, probeVars, stateVars
  <2>4. Front = checks /\ Front' = checks
    BY <2>2, <2>3 DEF Front, Sending
  <2> QED
    BY <1>0, <1>1, <1>2, <2>1, <2>2, <2>3, <2>4, Quiet
<1>4. CASE FetchKnownGood \/ KeepKnownGood
  <2>1. /\ UNCHANGED <<checks, inFlight, states, srv>> /\ flusher.pc = "fetch" /\ flusher'.pc = "send"
        /\ knownGood' = knownGood \/ (InPool(ip) => ip \in knownGood')
    <3>1. flusher \in Flushers
      BY DEF TypeInv, TypeOK, Flushers
    <3> QED
      BY <1>4, <3>1 DEF FetchKnownGood, KeepKnownGood, Flushers, probeVars, stateVars
  <2>2. Front' = Front
    BY <2>1 DEF Front, Sending
  <2> QED
    BY <1>0, <1>1, <1>2, <2>1, <2>2, Quiet
<1>5. CASE FetchKnownGoodFails \/ Reject \/ Lost
  <2>1. /\ checks' = checks \cup inFlight /\ inFlight' = {}
        /\ flusher'.pc \in {"wait", "gaveup", "final"}
    BY <1>5, Requeues DEF FetchKnownGoodFails, Reject, Lost
  <2>2. UNCHANGED <<states, srv, knownGood>>
    BY <1>5 DEF FetchKnownGoodFails, Reject, Lost, probeVars, stateVars
  <2>3. Front \subseteq Front'
    BY <2>1 DEF Front, Sending
  <2>4. Successes(Of(Front, ip)) \subseteq Successes(Of(Front', ip))
    BY <2>3 DEF Successes, Of
  <2> QED
    BY <1>0, <1>1, <1>2, <2>1, <2>2, <2>4, Quiet
<1>6. ASSUME NEW pruned \in BOOLEAN, Commit(pruned) PROVE AgreeInv(ip)'
  BY <1>6, CommitAgrees
<1>7. ASSUME NEW readable \in BOOLEAN, Accepted(readable) PROVE AgreeInv(ip)'
  BY <1>7, AcceptedAgrees
<1> QED
  BY <1>3, <1>4, <1>5, <1>6, <1>7 DEF Flushing

\* Every step keeps the invariant of an address that only the scanner probes.
LEMMA AgreeStep ==
    ASSUME TypeInv, TypeInv', OrderInv, PruneInv, AllAgree, [Next]_vars
    PROVE  AllAgree'
<1> SUFFICES ASSUME NEW ip \in IPs \ OnDemand PROVE AgreeInv(ip)'
  BY DEF AllAgree
<1>0. AgreeInv(ip) /\ now \in Times /\ now \in Nat /\ now <= now
  BY ScannerAssumption DEF AllAgree, TypeInv, TypeOK, Times
<1>1. CASE UNCHANGED vars
  <2>1. UNCHANGED <<checks, inFlight, flusher, knownGood, states, latest, srv, now, feeder>>
    BY <1>1 DEF vars, flushVars, probeVars, stateVars
  <2>2. Pending(ip)' = Pending(ip) /\ Front' = Front
    BY <2>1 DEF Pending, Front
  <2> QED
    BY <1>0, <2>1, <2>2, Quiet
<1>2. CASE \/ \E w \in Workers, i \in IPs : StartScan(w, i)
           \/ \E w \in Workers, target \in queue : StartRecheck(w, target)
           \/ \E w \in Workers : Probing(w)
           \/ FetchPool
           \/ SeedRecheckStates
  BY <1>0, <1>2, ProbesAgree
<1>3. CASE Trigger \/ FlushOnWake \/ Flushing
  BY <1>0, <1>3, FlushesAgree
<1>4. CASE \/ MaintenanceDue \/ PruneRetryDue \/ Cancel \/ StartFinal \/ FinalTimeout \/ Tick
           \/ \E i \in OnDemand, ok \in BOOLEAN : ProbeOnDemand(i, ok)
  <2>1. /\ UNCHANGED <<checks, inFlight, knownGood, states, latest, feeder, queue, worker>>
        /\ now' \in Times /\ now <= now'
        /\ flusher'.pc = "sent" => flusher.pc = "sent"
        /\ flusher.pc \in Sending <=> flusher'.pc \in Sending
        /\ \A i \in IPs \ OnDemand : srv'[i] = srv[i]
    BY <1>4, OtherBatches
  <2>2. Pending(ip)' = Pending(ip) /\ Front' = Front
    BY <2>1 DEF Pending, Front
  <2> QED
    BY <1>0, <2>1, <2>2, Quiet
<1> QED
  BY <1>1, <1>2, <1>3, <1>4 DEF Next

\* A process that starts has no states and no checks.
LEMMA AgreeStart == Init => AllAgree
<1> SUFFICES ASSUME Init, NEW ip \in IPs PROVE AgreeInv(ip)
  BY DEF AllAgree
<1>1. /\ checks = {} /\ inFlight = {} /\ states[ip] = None /\ latest[ip] = None
      /\ knownGood = None /\ feeder = None /\ flusher.pc = "wait"
      /\ srv[ip] \in [ok : BOOLEAN, at : {1}, last : {1}] \cup {None}
  BY DEF Init
<1>2. Pending(ip) = {} /\ Front = {}
  BY <1>1 DEF Pending, Of, Front, Sending
<1>3. InPool(ip) => srv[ip].last = 1
  BY <1>1 DEF InPool
<1> QED
  BY <1>1, <1>2, <1>3 DEF AgreeInv, StateOK, StatelessOK, LatestOK, FeederOK, SentOK, FrontOK,
                          Successes, Of

\* AllAgree holds in every state.
LEMMA AgreeInvariant == Spec => []AllAgree
BY TypeInvariant, OrderInvariant, PruneInvariant, AgreeStart, AgreeStep, PTL DEF Spec

\* StatusAgrees for the addresses that only the scanner probes.
ScannedAgrees ==
    Drained => \A ip \in IPs \ OnDemand :
      InPool(ip) /\ latest[ip] # None => srv[ip].ok = latest[ip].ok

\* ScannedAgrees holds in every state, whatever visitors do to the other addresses:
\* suppressing repeated successes (recordRecheck) hides no change of status.
THEOREM ScannedSafe == Spec => []ScannedAgrees
<1>1. AllAgree => ScannedAgrees
  <2> SUFFICES ASSUME AllAgree, Drained, NEW ip \in IPs \ OnDemand, InPool(ip), latest[ip] # None
               PROVE  srv[ip].ok = latest[ip].ok
    BY DEF ScannedAgrees
  <2>1. LatestOK(ip)
    BY DEF AllAgree, AgreeInv
  <2>2. Pending(ip) = {}
    BY DEF Drained, Pending, Of
  <2> QED
    BY <2>1, <2>2 DEF LatestOK, Status
<1> QED
  BY <1>1, AgreeInvariant, PTL

\* StatusAgrees holds in every state when nobody else probes the scanner's addresses:
\* record and recordRecheck, seedRecheckStates and mergeSubmittedStates agree on what
\* the server has been told.
THEOREM StatusSafe ==
    ASSUME OnDemand = {}
    PROVE  Spec => []StatusAgrees
<1>1. ScannedAgrees => StatusAgrees
  BY DEF ScannedAgrees, StatusAgrees
<1> QED
  BY <1>1, ScannedSafe, PTL

\* HeartbeatFresh holds in every state when nobody else probes the scanner's addresses:
\* recheckSuccessInterval bounds how old last_seen grows behind suppressed successes.
THEOREM HeartbeatSafe ==
    ASSUME OnDemand = {}
    PROVE  Spec => []HeartbeatFresh
<1>1. AllAgree => HeartbeatFresh
  <2> SUFFICES ASSUME AllAgree, NEW ip \in IPs, latest[ip] # None, latest[ip].ok
               PROVE  \E m \in Marks(ip) : latest[ip].ts - m < Heartbeat
    BY DEF HeartbeatFresh, Marks, Pending
  <2>1. LatestOK(ip)
    BY DEF AllAgree, AgreeInv
  <2> QED
    BY <2>1 DEF LatestOK
<1> QED
  BY <1>1, AgreeInvariant, PTL

=============================================================================
