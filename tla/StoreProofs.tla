---------------------------- MODULE StoreProofs -----------------------------
(***************************************************************************)
(* For every set of addresses and request slots, any retention, window and *)
(* number of failures: the theorems of Store.                              *)
(***************************************************************************)
EXTENDS Store, FiniteSetTheorems, TLAPS

-----------------------------------------------------------------------------
(* Operators on rows                                                       *)

\* A non-empty set of times has a latest one.
LEMMA LatestTime ==
    ASSUME NEW S \in SUBSET Times, S # {}
    PROVE  \E m \in S : \A x \in S : x <= m
<1> DEFINE T == {MaxTime - x : x \in S}
<1>1. MaxTime \in Nat
  BY StoreAssumption
<1>2. T \in SUBSET Nat /\ T # {}
  <2>1. \A x \in S : MaxTime - x \in Nat
    BY <1>1 DEF Times
  <2> QED
    BY <2>1
<1>3. PICK k \in T : \A y \in T : ~(<<y, k>> \in OpToRel(<, Nat))
  BY <1>2, NatLessThanWellFounded, WFMin, Zenon
<1>4. \A y \in T : ~(y < k)
  BY <1>2, <1>3 DEF OpToRel
<1>5. PICK m \in S : k = MaxTime - m
  OBVIOUS
<1>6. \A x \in S : ~(MaxTime - x < MaxTime - m)
  BY <1>4, <1>5
<1> QED
  BY <1>1, <1>6 DEF Times

\* What coalesceCheckRows and the ORDER BYs rely on: of the rows of a batch, or of
\* the history of an address, one is the latest.
LEMMA LatestRow ==
    ASSUME NEW rows, rows # {}, \A c \in rows : c.ts \in Times
    PROVE  Latest(rows) \in rows /\ \A d \in rows : d.ts <= Latest(rows).ts
<1>1. {c.ts : c \in rows} \in SUBSET Times /\ {c.ts : c \in rows} # {}
  OBVIOUS
<1>2. PICK m \in {c.ts : c \in rows} : \A x \in {c.ts : c \in rows} : x <= m
  BY <1>1, LatestTime
<1>3. \E c \in rows : \A d \in rows : d.ts <= c.ts
  BY <1>2
<1> QED
  BY <1>3 DEF Latest

\* The history of an address is finite, so history_count is a number.
LEMMA HistoryFinite ==
    ASSUME NEW rows \in SUBSET HistoryRows
    PROVE  IsFiniteSet(rows) /\ Cardinality(rows) \in Nat
<1> DEFINE P == Times \X BOOLEAN
           f == [p \in P |-> [ts |-> p[1], ok |-> p[2]]]
<1>1. IsFiniteSet(P)
  <2>1. IsFiniteSet(Times)
    BY FS_Interval, StoreAssumption DEF Times
  <2>2. IsFiniteSet({TRUE} \cup {FALSE})
    BY FS_Singleton, FS_Union
  <2>3. BOOLEAN = {TRUE} \cup {FALSE}
    OBVIOUS
  <2> QED
    BY <2>1, <2>2, <2>3, FS_Product
<1>2. f \in Surjection(P, HistoryRows)
  <2>1. f \in [P -> HistoryRows]
    BY DEF HistoryRows
  <2>2. ASSUME NEW h \in HistoryRows PROVE \E p \in P : f[p] = h
    <3>1. h = [ts |-> h.ts, ok |-> h.ok] /\ <<h.ts, h.ok>> \in P
      BY DEF HistoryRows
    <3>2. f[<<h.ts, h.ok>>] = h
      BY <3>1
    <3> QED
      BY <3>1, <3>2
  <2> QED
    BY <2>1, <2>2 DEF Surjection
<1>3. IsFiniteSet(HistoryRows)
  BY <1>1, <1>2, FS_Surjection
<1> QED
  BY <1>3, FS_Subset, FS_CardinalityType

-----------------------------------------------------------------------------
(* Types                                                                   *)

\* A request of /check or /recheck/result carries its one check until the pool has
\* been updated.
ProbeHasRow ==
    \A r \in Requests : req[r].pc \in ProbePCs => \E c \in CheckRows : req[r].rows = {c}

TypeInv == TypeOK /\ ProbeHasRow

\* history_count and its increment (historyCountIncrSQL) are numbers.
LEMMA Counts ==
    ASSUME TypeOK, NEW ip \in IPs
    PROVE  /\ Cardinality(checks[ip]) \in Nat
           /\ InPool(ip) => pool[ip] \in PoolRows /\ Recount(ip) \in Nat
<1>1. checks[ip] \in SUBSET HistoryRows /\ {h \in checks[ip] : h.ts > pool[ip].at} \in SUBSET HistoryRows
  BY DEF TypeOK
<1>2. /\ Cardinality(checks[ip]) \in Nat
      /\ Cardinality({h \in checks[ip] : h.ts > pool[ip].at}) \in Nat
  BY <1>1, HistoryFinite
<1>3. InPool(ip) => pool[ip] \in PoolRows
  BY DEF InPool, TypeOK
<1> QED
  BY <1>2, <1>3 DEF Recount, PoolRows

\* A stamped row (revision = the version after the bump) is a row.
LEMMA StampedType ==
    ASSUME TypeOK, NEW row \in PoolRows
    PROVE  Stamped(row) \in PoolRows /\ Stamped(row).rev = version + 1
BY DEF PoolRows, Stamped, TypeOK

\* The rows that insertCheckRows and saveRecheckResult add are rows of ip_checks.
LEMMA InsertedType ==
    ASSUME TypeOK, NEW ip \in IPs, NEW rows \in SUBSET CheckRows
    PROVE  Inserted(ip, rows) \in SUBSET HistoryRows
BY DEF Inserted, Of, CheckRows, HistoryRows, TypeOK

\* The batch of updatePoolBatch leaves the row of an address alone, or writes one
\* that carries the new revision; with a success there is a row in any case.
LEMMA BatchRow ==
    ASSUME TypeOK, NEW r \in Requests, UpdatePoolBatch(r), NEW ip \in IPs
    PROVE  /\ \/ pool'[ip] = pool[ip]
              \/ /\ pool'[ip] \in PoolRows
                 /\ pool'[ip].rev = version + 1
                 /\ Of(req[r].rows, ip) # {}
           /\ Successes(Of(req[r].rows, ip)) # {} => pool'[ip] \in PoolRows
<1> DEFINE rows == Of(req[r].rows, ip)
           latest == Latest(rows)
           success == Latest(Successes(rows))
<1>1. /\ rows \subseteq CheckRows /\ Successes(rows) \subseteq CheckRows
      /\ \A c \in rows : c.ts \in Times
      /\ \A c \in Successes(rows) : c.ts \in Times
  BY DEF TypeOK, ReqRecords, Of, Successes, CheckRows
<1>2. rows # {} => latest.ok \in BOOLEAN /\ latest.ts \in Times
  <2>1. rows # {} => latest \in rows
    BY <1>1, LatestRow
  <2> QED
    BY <1>1, <2>1 DEF CheckRows
<1>3. Successes(rows) # {} => success.ts \in Times /\ rows # {}
  <2>1. Successes(rows) # {} => success \in Successes(rows)
    BY <1>1, LatestRow
  <2> QED
    BY <1>1, <2>1 DEF Successes
<1>4. version \in Nat /\ pool[ip] \in PoolRows \cup {NoRow}
  BY DEF TypeOK
<1>5. CASE Successes(rows) # {}
  <2> DEFINE row == [ok |-> latest.ok, at |-> latest.ts, last |-> success.ts,
                     seen |-> IF InPool(ip) THEN pool[ip].seen + 1 ELSE 1,
                     cnt |-> IF InPool(ip) THEN Recount(ip) ELSE Cardinality(checks[ip]),
                     rev |-> version + 1]
  <2>1. pool'[ip] = row
    BY <1>5 DEF UpdatePoolBatch
  <2>2. row \in PoolRows
    BY <1>2, <1>3, <1>4, <1>5, Counts DEF PoolRows
  <2> QED
    BY <2>1, <2>2, <1>3, <1>5
<1>6. CASE Successes(rows) = {} /\ rows # {} /\ GateOpen(ip)
  <2> DEFINE row == Stamped([pool[ip] EXCEPT !.ok = FALSE, !.at = latest.ts, !.cnt = Recount(ip)])
  <2>1. pool'[ip] = row
    BY <1>6 DEF UpdatePoolBatch
  <2>2. pool[ip] \in PoolRows /\ Recount(ip) \in Nat
    BY <1>6, Counts DEF GateOpen
  <2>3. ASSUME NEW p \in PoolRows, NEW t \in Times, NEW n \in Nat
        PROVE  LET new == Stamped([p EXCEPT !.ok = FALSE, !.at = t, !.cnt = n])
               IN new \in PoolRows /\ new.rev = version + 1
    <3>1. [p EXCEPT !.ok = FALSE, !.at = t, !.cnt = n] \in PoolRows
      BY DEF PoolRows
    <3> QED
      BY <3>1, StampedType
  <2>4. row \in PoolRows /\ row.rev = version + 1
    BY <1>2, <1>6, <2>2, <2>3
  <2> QED
    BY <1>6, <2>1, <2>4
<1>7. CASE Successes(rows) = {} /\ ~(rows # {} /\ GateOpen(ip))
  BY <1>4, <1>7 DEF UpdatePoolBatch
<1> QED
  BY <1>5, <1>6, <1>7

\* A request that goes on to its next statement stays a request.
LEMMA GotoType ==
    ASSUME TypeInv, NEW r \in Requests, NEW pc \in PCs, Goto(r, pc),
           pc \in ProbePCs => req[r].pc \in ProbePCs
    PROVE  req' \in [Requests -> ReqRecords] /\ ProbeHasRow'
<1>1. req' \in [Requests -> ReqRecords]
  BY DEF TypeInv, TypeOK, Goto, ReqRecords
<1>2. \A q \in Requests : req'[q].rows = req[q].rows /\ req'[q].pc = IF q = r THEN pc ELSE req[q].pc
  BY DEF TypeInv, TypeOK, Goto, ReqRecords
<1>3. ProbeHasRow'
  BY <1>2 DEF TypeInv, ProbeHasRow
<1> QED
  BY <1>1, <1>3

\* While one is to be saved, Row is the check of the request.
LEMMA RowType ==
    ASSUME TypeInv, NEW r \in Requests, req[r].pc \in ProbePCs
    PROVE  req[r].rows = {Row(r)} /\ Row(r) \in CheckRows
BY DEF TypeInv, TypeOK, ReqRecords, ProbeHasRow, Row

\* The UPDATE of updatePoolForCheck stamps the row it writes.
LEMMA TouchRow ==
    ASSUME TypeInv, NEW r \in Requests, UpdatePoolForCheck(r), NEW ip \in IPs
    PROVE  \/ pool'[ip] = pool[ip]
           \/ pool'[ip] \in PoolRows /\ pool'[ip].rev = version + 1
<1> DEFINE row == [ok |-> Row(r).ok, at |-> Row(r).ts,
                   last |-> IF Row(r).ok THEN Row(r).ts ELSE pool[ip].last,
                   seen |-> IF Row(r).ok THEN pool[ip].seen + 1 ELSE pool[ip].seen,
                   cnt |-> Recount(ip), rev |-> version + 1]
<1>1. pool'[ip] = IF ip = Row(r).ip /\ InPool(ip) THEN row ELSE pool[ip]
  BY DEF UpdatePoolForCheck
<1>2. Row(r).ok \in BOOLEAN /\ Row(r).ts \in Times
  BY RowType DEF UpdatePoolForCheck, ProbePCs, CheckRows
<1>3. InPool(ip) => pool[ip] \in PoolRows /\ Recount(ip) \in Nat
  BY Counts DEF TypeInv
<1>4. InPool(ip) => row \in PoolRows
  BY <1>2, <1>3 DEF PoolRows, TypeInv, TypeOK
<1> QED
  BY <1>1, <1>4

\* So does its INSERT ... ON CONFLICT DO UPDATE.
LEMMA AddRow ==
    ASSUME TypeInv, NEW r \in Requests, InsertPoolForCheck(r), NEW ip \in IPs
    PROVE  /\ \/ pool'[ip] = pool[ip]
              \/ pool'[ip] \in PoolRows /\ pool'[ip].rev = version + 1
           /\ ip = Row(r).ip => pool'[ip] \in PoolRows
<1> DEFINE row == [ok |-> TRUE, at |-> Row(r).ts, last |-> Row(r).ts,
                   seen |-> IF InPool(ip) THEN pool[ip].seen + 1 ELSE 1,
                   cnt |-> Cardinality(checks[ip]), rev |-> version + 1]
<1>1. pool'[ip] = IF ip = Row(r).ip THEN row ELSE pool[ip]
  BY DEF InsertPoolForCheck
<1>2. Row(r).ts \in Times
  BY RowType DEF InsertPoolForCheck, ProbePCs, CheckRows
<1>3. Cardinality(checks[ip]) \in Nat /\ (InPool(ip) => pool[ip] \in PoolRows)
  BY Counts DEF TypeInv
<1>4. row \in PoolRows
  BY <1>2, <1>3 DEF PoolRows, TypeInv, TypeOK
<1> QED
  BY <1>1, <1>4

\* Every step of a handler, of the scanner, of a probe or of a failure keeps the
\* types.
LEMMA TypeStep == TypeInv /\ [Next]_vars => TypeInv'
<1> SUFFICES ASSUME TypeInv, [Next]_vars PROVE TypeInv'
  OBVIOUS
<1> USE DEF dbVars
<1>0. TypeOK
  BY DEF TypeInv
<1>a. PCs = {"idle", "done", "insert", "update", "known", "save", "touch", "add", "over", "delete",
             "dead", "evict"} /\ ProbePCs = {"known", "save", "touch", "add"}
  BY DEF PCs, IngestPCs, ProbePCs, PrunePCs
<1>b. now < MaxTime => now + 1 \in Times
  BY <1>0, StoreAssumption DEF TypeOK, Times
<1>c. NoReq \in ReqRecords
  BY <1>a DEF NoReq, ReqRecords
<1>1. CASE UNCHANGED vars
  BY <1>1, <1>0 DEF TypeInv, TypeOK, ProbeHasRow, vars
<1>2. ASSUME NEW ip \in IPs, NEW ok \in BOOLEAN, Scan(ip, ok) PROVE TypeInv'
  <2>1. [ip |-> ip, ts |-> now + 1, ok |-> ok] \in CheckRows
    BY <1>2, <1>b DEF Scan, TimePasses, CheckRows
  <2> QED
    BY <1>2, <1>b, <2>1 DEF Scan, TimePasses, TypeInv, TypeOK, ProbeHasRow
<1>3. CASE Tick
  BY <1>3, <1>b DEF Tick, TimePasses, TypeInv, TypeOK, ProbeHasRow
<1>4. ASSUME NEW r \in Requests, NEW prune \in SUBSET IPs, Submit(r, prune) PROVE TypeInv'
  <2>1. [pc |-> "insert", kind |-> "ingest", rows |-> buf, prune |-> prune, sel |-> {},
         zombie |-> FALSE] \in ReqRecords
    BY <1>0, <1>a DEF ReqRecords, TypeOK
  <2> QED
    BY <1>4, <1>a, <2>1 DEF Submit, TypeInv, TypeOK, ProbeHasRow
<1>5. ASSUME NEW r \in Requests, NEW ip \in OnDemand, NEW ok \in BOOLEAN, Probe(r, ip, ok)
      PROVE  TypeInv'
  <2> DEFINE new == [pc |-> IF ok THEN "save" ELSE "known", kind |-> "probe",
                     rows |-> {[ip |-> ip, ts |-> now + 1, ok |-> ok]},
                     prune |-> {ip}, sel |-> {}, zombie |-> FALSE]
  <2>1. ip \in IPs
    BY StoreAssumption
  <2>2. [ip |-> ip, ts |-> now + 1, ok |-> ok] \in CheckRows
    BY <1>5, <1>b, <2>1 DEF Probe, TimePasses, CheckRows
  <2>3. new \in ReqRecords
    BY <1>a, <2>1, <2>2 DEF ReqRecords
  <2>4. req' = [req EXCEPT ![r] = new] /\ now' = now + 1 /\ now < MaxTime /\ UNCHANGED <<dbVars, buf, faults>>
    BY <1>5 DEF Probe, TimePasses
  <2>5. TypeOK'
    BY <1>0, <1>b, <2>3, <2>4 DEF TypeOK
  <2>6. (\E c \in CheckRows : new.rows = {c}) /\ \A q \in Requests : req'[q] = IF q = r THEN new ELSE req[q]
    BY <1>0, <2>2, <2>4 DEF TypeOK
  <2>7. ProbeHasRow'
    BY <2>6 DEF ProbeHasRow, TypeInv
  <2> QED
    BY <2>5, <2>7 DEF TypeInv
<1>6. ASSUME NEW r \in Requests, Handle(r) PROVE TypeInv'
  <2>1. CASE InsertCheckRows(r)
    <3>1. req' \in [Requests -> ReqRecords] /\ ProbeHasRow'
      BY <2>1, <1>a, GotoType DEF InsertCheckRows
    <3>2. Coalesced(req[r].rows) \in SUBSET CheckRows
      BY <1>0 DEF Coalesced, TypeOK, ReqRecords
    <3>3. checks' \in [IPs -> SUBSET HistoryRows]
      BY <2>1, <1>0, <3>2, InsertedType DEF InsertCheckRows, TypeOK
    <3> QED
      BY <2>1, <1>0, <3>1, <3>3 DEF InsertCheckRows, TypeInv, TypeOK
  <2>2. CASE UpdatePoolBatch(r)
    <3>1. req' \in [Requests -> ReqRecords] /\ ProbeHasRow'
      BY <2>2, <1>a, GotoType DEF UpdatePoolBatch
    <3>2. pool' = [ip \in IPs |-> pool'[ip]]
      BY <2>2 DEF UpdatePoolBatch
    <3>3. pool' \in [IPs -> PoolRows \cup {NoRow}]
      BY <2>2, <1>0, <3>2, BatchRow DEF TypeOK
    <3>4. /\ version' = IF req[r].rows = {} THEN version ELSE version + 1
          /\ UNCHANGED <<checks, resetVersion, ptr, now, buf, faults>>
      BY <2>2 DEF UpdatePoolBatch
    <3> QED
      BY <1>0, <3>1, <3>3, <3>4 DEF TypeInv, TypeOK
  <2>3. CASE IsKnownGood(r)
    <3>1. req' \in [Requests -> ReqRecords] /\ ProbeHasRow'
      BY <2>3, <1>a, GotoType DEF IsKnownGood
    <3> QED
      BY <2>3, <1>0, <3>1 DEF IsKnownGood, TypeInv, TypeOK
  <2>4. CASE SaveRecheckResult(r)
    <3>1. req' \in [Requests -> ReqRecords] /\ ProbeHasRow'
      BY <2>4, <1>a, GotoType DEF SaveRecheckResult
    <3>2. Row(r) \in CheckRows
      BY <2>4, <1>a, RowType DEF SaveRecheckResult
    <3>3. Row(r).ip \in IPs /\ Inserted(Row(r).ip, {Row(r)}) \in SUBSET HistoryRows
      BY <3>2, <1>0, InsertedType DEF CheckRows
    <3>4. checks' \in [IPs -> SUBSET HistoryRows]
      BY <2>4, <1>0, <3>3 DEF SaveRecheckResult, TypeOK
    <3> QED
      BY <2>4, <1>0, <3>1, <3>4 DEF SaveRecheckResult, TypeInv, TypeOK
  <2>5. CASE UpdatePoolForCheck(r)
    <3>1. req' \in [Requests -> ReqRecords] /\ ProbeHasRow'
      BY <2>5, <1>a, GotoType DEF UpdatePoolForCheck, AfterTouch
    <3>5. pool' \in [IPs -> PoolRows \cup {NoRow}]
      <4>1. pool' = [ip \in IPs |-> pool'[ip]]
        BY <2>5 DEF UpdatePoolForCheck
      <4> QED
        BY <2>5, <1>0, <4>1, TouchRow DEF TypeOK
    <3> QED
      BY <2>5, <1>0, <3>1, <3>5 DEF UpdatePoolForCheck, TypeInv, TypeOK
  <2>6. CASE InsertPoolForCheck(r)
    <3>1. req' \in [Requests -> ReqRecords] /\ ProbeHasRow'
      BY <2>6, <1>a, GotoType DEF InsertPoolForCheck
    <3>5. pool' \in [IPs -> PoolRows \cup {NoRow}]
      <4>1. pool' = [ip \in IPs |-> pool'[ip]]
        BY <2>6 DEF InsertPoolForCheck
      <4> QED
        BY <2>6, <1>0, <4>1, AddRow DEF TypeOK
    <3> QED
      BY <2>6, <1>0, <3>1, <3>5 DEF InsertPoolForCheck, TypeInv, TypeOK
  <2>s. ASSUME NEW sel \in SUBSET IPs, NEW found \in PrunePCs, NEW none \in {"dead", "done"},
               Select(r, sel, found, none)
        PROVE  req' \in [Requests -> ReqRecords] /\ ProbeHasRow'
    <3> DEFINE pc == IF sel = {} THEN none ELSE found
               new == [req[r] EXCEPT !.sel = sel, !.pc = pc]
    <3>1. pc \in PCs /\ pc \notin ProbePCs
      BY <2>s, <1>a DEF PrunePCs
    <3>2. new \in ReqRecords /\ new.pc = pc
      BY <1>0, <3>1 DEF TypeOK, ReqRecords
    <3>3. req' = [req EXCEPT ![r] = new]
      BY <2>s, <1>0 DEF Select, TypeOK, ReqRecords
    <3> QED
      BY <1>0, <3>1, <3>2, <3>3 DEF TypeInv, TypeOK, ProbeHasRow
  <2>p. \A ip \in req[r].prune : ip \in IPs
    BY <1>0 DEF TypeOK, ReqRecords
  <2>7. CASE PruneSelectOver(r)
    <3>1. req' \in [Requests -> ReqRecords] /\ ProbeHasRow'
      BY <2>7, <2>s, <2>p DEF PruneSelectOver, PrunePCs
    <3> QED
      BY <2>7, <1>0, <3>1 DEF PruneSelectOver, TypeInv, TypeOK
  <2>8. CASE PruneDelete(r)
    <3>1. req' \in [Requests -> ReqRecords] /\ ProbeHasRow'
      BY <2>8, <1>a, GotoType DEF PruneDelete
    <3>2. checks' \in [IPs -> SUBSET HistoryRows]
      BY <2>8, <1>0 DEF PruneDelete, TypeOK, Retained
    <3>3. \A ip \in IPs : Cardinality(checks'[ip]) \in Nat
      BY <3>2, HistoryFinite
    <3>4. \A ip \in IPs : InPool(ip) => [pool[ip] EXCEPT !.cnt = Cardinality(checks'[ip])] \in PoolRows
      BY <1>0, <3>3, Counts DEF PoolRows
    <3>5. pool' \in [IPs -> PoolRows \cup {NoRow}]
      BY <2>8, <1>0, <3>4 DEF PruneDelete, TypeOK
    <3> QED
      BY <2>8, <1>0, <3>1, <3>2, <3>5 DEF PruneDelete, TypeInv, TypeOK
  <2>9. CASE PruneSelectDead(r)
    <3>1. req' \in [Requests -> ReqRecords] /\ ProbeHasRow'
      BY <2>9, <2>s, <2>p DEF PruneSelectDead, PrunePCs
    <3> QED
      BY <2>9, <1>0, <3>1 DEF PruneSelectDead, TypeInv, TypeOK
  <2>10. CASE PruneEvict(r)
    <3>1. req' \in [Requests -> ReqRecords] /\ ProbeHasRow'
      BY <2>10, <1>a, GotoType DEF PruneEvict
    <3> QED
      BY <2>10, <1>0, <3>1 DEF PruneEvict, TypeInv, TypeOK
  <2>11. CASE Reply(r)
    BY <2>11, <1>0, <1>a, <1>c DEF Reply, NoReq, TypeInv, TypeOK, ProbeHasRow
  <2> QED
    BY <1>6, <2>1, <2>2, <2>3, <2>4, <2>5, <2>6, <2>7, <2>8, <2>9, <2>10, <2>11 DEF Handle
<1>7. ASSUME NEW ip \in IPs, SavePTR(ip) PROVE TypeInv'
  <2>1. \A i \in IPs : InPool(i) => Stamped(pool[i]) \in PoolRows
    BY <1>0, Counts, StampedType
  <2>2. pool' \in [IPs -> PoolRows \cup {NoRow}]
    BY <1>7, <1>0, <2>1 DEF SavePTR, TypeOK
  <2>3. ptr' \in [IPs -> 0..MaxPTR]
    BY <1>7, <1>0, StoreAssumption DEF SavePTR, TypeOK
  <2> QED
    BY <1>7, <1>0, <2>2, <2>3 DEF SavePTR, TypeInv, TypeOK, ProbeHasRow
<1>8. ASSUME NEW r \in Requests, FailIngest(r) \/ TimeOut(r) \/ FailPrune(r) \/ Drop(r) PROVE TypeInv'
  <2>1. ASSUME NEW kind \in {"retry", "zombie", "drop"}, NEW max, Fault(kind, max)
        PROVE  faults' \in [{"retry", "zombie", "drop"} -> Nat]
    BY <2>1, <1>0 DEF Fault, TypeOK
  <2>2. req[r].rows \in SUBSET CheckRows
    BY <1>0 DEF TypeOK, ReqRecords
  <2>3. CASE FailIngest(r)
    BY <2>3, <1>0, <1>a, <1>c, <2>1, <2>2 DEF FailIngest, NoReq, TypeInv, TypeOK, ProbeHasRow
  <2>4. CASE TimeOut(r)
    <3>1. req' \in [Requests -> ReqRecords] /\ ProbeHasRow'
      BY <2>4, <1>0 DEF TimeOut, TypeInv, TypeOK, ReqRecords, ProbeHasRow
    <3> QED
      BY <2>4, <1>0, <2>1, <2>2, <3>1 DEF TimeOut, TypeInv, TypeOK
  <2>5. CASE FailPrune(r)
    <3>1. req' \in [Requests -> ReqRecords] /\ ProbeHasRow'
      BY <2>5, <1>a, GotoType DEF FailPrune
    <3> QED
      BY <2>5, <1>0, <2>1, <3>1 DEF FailPrune, TypeInv, TypeOK
  <2>6. CASE Drop(r)
    BY <2>6, <1>0, <1>a, <1>c, <2>1 DEF Drop, NoReq, TypeInv, TypeOK, ProbeHasRow
  <2> QED
    BY <1>8, <2>3, <2>4, <2>5, <2>6
<1> QED
  BY <1>1, <1>2, <1>3, <1>4, <1>5, <1>6, <1>7, <1>8 DEF Next

\* The types hold in every behaviour of the handlers.
LEMMA TypeInvariant == Spec => []TypeInv
<1>1. Init => TypeInv
  <2> SUFFICES ASSUME Init PROVE TypeInv
    OBVIOUS
  <2>1. NoReq \in ReqRecords
    BY DEF NoReq, ReqRecords, PCs
  <2>2. 0 \in Times /\ 0 \in 0..MaxPTR
    BY StoreAssumption DEF Times
  <2>3. req \in [Requests -> ReqRecords] /\ ProbeHasRow
    BY <2>1 DEF Init, NoReq, ProbeHasRow, ProbePCs
  <2> QED
    BY <2>2, <2>3 DEF Init, TypeInv, TypeOK
<1> QED
  BY <1>1, TypeStep, PTL DEF Spec

\* Every variable keeps its type: the tables, the buffer and the requests, through
\* every overlap and failure of the handlers of /ingest, /check and
\* /recheck/result.
THEOREM TypeCorrect == Spec => []TypeOK
<1>1. TypeInv => TypeOK
  BY DEF TypeInv
<1> QED
  BY <1>1, TypeInvariant, PTL

-----------------------------------------------------------------------------
(* What a step does to the rows of the pool                                *)

SameToReaders ==
    /\ UNCHANGED <<version, resetVersion>>
    /\ \A ip \in IPs : (pool'[ip] # NoRow <=> InPool(ip)) /\ (InPool(ip) => Visible(ip)' = Visible(ip))

Stamps ==
    /\ version' = version + 1
    /\ UNCHANGED resetVersion
    /\ \A ip \in IPs : \/ ~InPool(ip) /\ pool'[ip] = NoRow
                       \/ pool'[ip] = pool[ip] /\ ptr'[ip] = ptr[ip]
                       \/ pool'[ip] # NoRow /\ pool'[ip].rev = version + 1

EvictsDead ==
    /\ version' = version + 1
    /\ resetVersion' = version + 1
    /\ UNCHANGED ptr
    /\ \E dead \in SUBSET IPs :
         /\ \A ip \in dead : ~HasSuccess(ip)
         /\ pool' = [ip \in IPs |-> IF ip \in dead THEN NoRow ELSE pool[ip]]

\* A step that leaves ip_pool and ptr_cache alone is none to the readers.
LEMMA NoWrite ==
    ASSUME UNCHANGED <<pool, version, resetVersion, ptr>>
    PROVE  SameToReaders
BY DEF SameToReaders, InPool, Visible

\* The batch of updatePoolBatch stamps every row that it changes.
LEMMA BatchStamps ==
    ASSUME TypeInv, NEW r \in Requests, UpdatePoolBatch(r)
    PROVE  SameToReaders \/ Stamps
<1>0. TypeOK
  BY DEF TypeInv
<1>1. /\ version' = IF req[r].rows = {} THEN version ELSE version + 1
      /\ UNCHANGED <<resetVersion, ptr>>
  BY DEF UpdatePoolBatch
<1>2. \A ip \in IPs : \/ pool'[ip] = pool[ip]
                      \/ pool'[ip] # NoRow /\ pool'[ip].rev = version + 1 /\ req[r].rows # {}
  BY <1>0, BatchRow, StoreNoRowAssumption DEF Of
<1>3. CASE req[r].rows = {}
  <2>1. UNCHANGED <<version, resetVersion, ptr>> /\ \A ip \in IPs : pool'[ip] = pool[ip]
    BY <1>1, <1>2, <1>3
  <2> QED
    BY <2>1 DEF SameToReaders, InPool, Visible
<1>4. CASE req[r].rows # {}
  <2>1. version' = version + 1 /\ resetVersion' = resetVersion /\ ptr' = ptr
    BY <1>1, <1>4
  <2>2. \A ip \in IPs : \/ pool'[ip] = pool[ip] /\ ptr'[ip] = ptr[ip]
                        \/ pool'[ip] # NoRow /\ pool'[ip].rev = version + 1
    BY <1>2, <2>1
  <2> QED
    BY <2>1, <2>2, Zenon DEF Stamps
<1> QED
  BY <1>3, <1>4

\* Every step of the program leaves what readers see alone, or is a commit that
\* stamps each row it changes, or deletes rows without a retained success and raises
\* reset_version (bumpPoolRevision, and the batches that begin with it).
LEMMA StepEffect ==
    ASSUME TypeInv, [Next]_vars
    PROVE  SameToReaders \/ Stamps \/ EvictsDead
<1> USE DEF dbVars
<1>0. TypeOK
  BY DEF TypeInv
<1>1. CASE UNCHANGED vars
  BY <1>1, NoWrite DEF vars
<1>2. ASSUME NEW ip \in IPs, NEW ok \in BOOLEAN, Scan(ip, ok) PROVE SameToReaders
  BY <1>2, NoWrite DEF Scan
<1>3. CASE Tick
  BY <1>3, NoWrite DEF Tick
<1>4. ASSUME NEW r \in Requests, NEW prune \in SUBSET IPs, Submit(r, prune) PROVE SameToReaders
  BY <1>4, NoWrite DEF Submit
<1>5. ASSUME NEW r \in Requests, NEW ip \in OnDemand, NEW ok \in BOOLEAN, Probe(r, ip, ok)
      PROVE  SameToReaders
  BY <1>5, NoWrite DEF Probe
<1>6. ASSUME NEW r \in Requests, Handle(r) PROVE SameToReaders \/ Stamps \/ EvictsDead
  <2>1. CASE InsertCheckRows(r)
    BY <2>1, NoWrite DEF InsertCheckRows
  <2>2. CASE UpdatePoolBatch(r)
    BY <2>2, BatchStamps
  <2>3. CASE IsKnownGood(r)
    BY <2>3, NoWrite DEF IsKnownGood
  <2>4. CASE SaveRecheckResult(r)
    BY <2>4, NoWrite DEF SaveRecheckResult
  <2>5. CASE UpdatePoolForCheck(r)
    <3>1. version' = version + 1 /\ resetVersion' = resetVersion /\ ptr' = ptr
      BY <2>5 DEF UpdatePoolForCheck
    <3>2. \A ip \in IPs : \/ pool'[ip] = pool[ip] /\ ptr'[ip] = ptr[ip]
                          \/ pool'[ip] # NoRow /\ pool'[ip].rev = version + 1
      BY <2>5, <3>1, TouchRow, StoreNoRowAssumption
    <3> QED
      BY <3>1, <3>2, Zenon DEF Stamps
  <2>6. CASE InsertPoolForCheck(r)
    <3>1. version' = version + 1 /\ resetVersion' = resetVersion /\ ptr' = ptr
      BY <2>6 DEF InsertPoolForCheck
    <3>2. \A ip \in IPs : \/ pool'[ip] = pool[ip] /\ ptr'[ip] = ptr[ip]
                          \/ pool'[ip] # NoRow /\ pool'[ip].rev = version + 1
      BY <2>6, <3>1, AddRow, StoreNoRowAssumption
    <3> QED
      BY <3>1, <3>2, Zenon DEF Stamps
  <2>7. CASE PruneSelectOver(r)
    BY <2>7, NoWrite DEF PruneSelectOver
  <2>8. CASE PruneDelete(r)
    <3>1. version' = version /\ resetVersion' = resetVersion /\ ptr' = ptr
      BY <2>8 DEF PruneDelete
    <3>2. ASSUME NEW ip \in IPs
          PROVE  (pool'[ip] # NoRow <=> InPool(ip)) /\ (InPool(ip) => Visible(ip)' = Visible(ip))
      <4>1. \/ pool'[ip] = pool[ip]
            \/ InPool(ip) /\ pool'[ip] = [pool[ip] EXCEPT !.cnt = Cardinality(checks'[ip])]
        BY <2>8 DEF PruneDelete
      <4>3. InPool(ip) => pool[ip] \in PoolRows
        BY <1>0, Counts
      <4>4. InPool(ip) => pool'[ip].rev = pool[ip].rev /\ pool'[ip].ok = pool[ip].ok /\ pool'[ip].last = pool[ip].last
        <5>1. CASE pool'[ip] = pool[ip]
          BY <5>1
        <5>2. CASE InPool(ip) /\ pool'[ip] = [pool[ip] EXCEPT !.cnt = Cardinality(checks'[ip])]
          <6>1. PICK n : pool'[ip] = [pool[ip] EXCEPT !.cnt = n]
            BY <5>2
          <6> QED
            BY <4>3, <6>1 DEF PoolRows
        <5> QED
          BY <4>1, <5>1, <5>2
      <4>5. TypeInv'
        BY <2>8, TypeStep DEF Next, Handle
      <4>6. pool'[ip] # NoRow <=> InPool(ip)
        <5>1. checks'[ip] \in SUBSET HistoryRows
          BY <4>5 DEF TypeInv, TypeOK
        <5>2. Cardinality(checks'[ip]) \in Nat
          BY <5>1, HistoryFinite
        <5>3. InPool(ip) => [pool[ip] EXCEPT !.cnt = Cardinality(checks'[ip])] \in PoolRows
          BY <4>3, <5>2 DEF PoolRows
        <5> QED
          BY <4>1, <5>3, StoreNoRowAssumption DEF InPool
      <4> QED
        BY <3>1, <4>4, <4>6 DEF Visible
    <3> QED
      BY <3>1, <3>2 DEF SameToReaders
  <2>9. CASE PruneSelectDead(r)
    BY <2>9, NoWrite DEF PruneSelectDead
  <2>10. CASE PruneEvict(r)
    <3>1. version' = version + 1 /\ resetVersion' = version + 1 /\ UNCHANGED ptr
      BY <2>10 DEF PruneEvict
    <3>2. pool' = [ip \in IPs |-> IF ip \in Evictable(req[r].sel) THEN NoRow ELSE pool[ip]]
      BY <2>10 DEF PruneEvict
    <3>3. Evictable(req[r].sel) \in SUBSET IPs /\ \A ip \in Evictable(req[r].sel) : ~HasSuccess(ip)
      BY <1>0 DEF Evictable, TypeOK, ReqRecords
    <3> QED
      BY <3>1, <3>2, <3>3, Zenon DEF EvictsDead
  <2>11. CASE Reply(r)
    BY <2>11, NoWrite DEF Reply
  <2> QED
    BY <1>6, <2>1, <2>2, <2>3, <2>4, <2>5, <2>6, <2>7, <2>8, <2>9, <2>10, <2>11 DEF Handle
<1>7. ASSUME NEW ip \in IPs, SavePTR(ip) PROVE Stamps
  <2>1. version' = version + 1 /\ resetVersion' = resetVersion
    BY <1>7 DEF SavePTR
  <2>2. ASSUME NEW i \in IPs
        PROVE  \/ ~InPool(i) /\ pool'[i] = NoRow
               \/ pool'[i] = pool[i] /\ ptr'[i] = ptr[i]
               \/ pool'[i] # NoRow /\ pool'[i].rev = version + 1
    <3>1. CASE i # ip
      BY <1>0, <1>7, <3>1 DEF SavePTR, TypeOK
    <3>2. CASE i = ip /\ ~InPool(i)
      BY <1>7, <3>2 DEF SavePTR, InPool
    <3>3. CASE i = ip /\ InPool(i)
      <4>1. Stamped(pool[i]) \in PoolRows /\ Stamped(pool[i]).rev = version + 1
        BY <1>0, <3>3, Counts, StampedType
      <4>2. pool'[i] = Stamped(pool[i])
        BY <1>7, <3>3 DEF SavePTR
      <4> QED
        BY <4>1, <4>2, StoreNoRowAssumption
    <3> QED
      BY <3>1, <3>2, <3>3
  <2> QED
    BY <2>1, <2>2, Zenon DEF Stamps
<1>8. ASSUME NEW r \in Requests, FailIngest(r) \/ TimeOut(r) \/ FailPrune(r) \/ Drop(r)
      PROVE  SameToReaders
  BY <1>8, NoWrite DEF FailIngest, TimeOut, FailPrune, Drop
<1> QED
  BY <1>1, <1>2, <1>3, <1>4, <1>5, <1>6, <1>7, <1>8 DEF Next

\* A row leaves ip_pool only while its address has no retained success, whatever was
\* inserted since the SELECT: the NOT EXISTS of the DELETE in pruneCheckHistory
\* looks again, and no other statement deletes.
THEOREM EvictsOnlyDeadSafe == Spec => EvictsOnlyDead
<1>1. TypeInv /\ [Next]_vars
        => [\A ip \in IPs : InPool(ip) /\ pool'[ip] = NoRow => ~HasSuccess(ip)]_vars
  <2> SUFFICES ASSUME TypeInv, [Next]_vars, NEW ip \in IPs, InPool(ip), pool'[ip] = NoRow
               PROVE  ~HasSuccess(ip)
    OBVIOUS
  <2>1. pool[ip] # NoRow
    BY DEF InPool
  <2>2. ~SameToReaders /\ ~Stamps
    BY <2>1 DEF SameToReaders, Stamps, InPool
  <2>3. EvictsDead
    BY <2>2, StepEffect
  <2> QED
    BY <2>1, <2>3, Zenon DEF EvictsDead
<1> QED
  BY <1>1, TypeInvariant, PTL DEF Spec, EvictsOnlyDead

-----------------------------------------------------------------------------
(* The refinement of PoolRevision                                          *)

Seen == [ip \in IPs |-> IF InPool(ip) THEN Visible(ip) ELSE NoRow]

\* A commit that stamps what it changes is a Publish of PoolRevision.
LEMMA StampsPublish ==
    ASSUME TypeInv, TypeInv', Stamps
    PROVE  Readers!PoolNext
<1> DEFINE touched == {ip \in IPs : Seen'[ip] # Seen[ip]}
           val == [ip \in touched |-> Visible(ip)'.val]
           Vals == [ok : BOOLEAN, last : Times, ptr : 0..MaxPTR]
<1>1. ASSUME NEW ip \in touched PROVE InPool(ip)' /\ pool'[ip].rev = version + 1
  BY <1>1 DEF Seen, Stamps, InPool, Visible
<1>2. val \in [touched -> Vals]
  <2>1. \A ip \in touched : Visible(ip)'.val \in Vals
    <3> SUFFICES ASSUME NEW ip \in touched PROVE Visible(ip)'.val \in Vals
      OBVIOUS
    <3>1. pool'[ip] \in PoolRows /\ ptr'[ip] \in 0..MaxPTR
      BY <1>1 DEF TypeInv, TypeOK, InPool
    <3> QED
      BY <3>1 DEF Visible, PoolRows
  <2> QED
    BY <2>1
<1>3. ASSUME NEW ip \in IPs
      PROVE  Seen'[ip] = IF ip \in touched THEN [rev |-> version + 1, val |-> val[ip]] ELSE Seen[ip]
  BY <1>1, <1>3 DEF Seen, Visible
<1>4. Readers!Publish(touched, val)
  BY <1>3 DEF Readers!Publish, Stamps, Seen
<1> QED
  BY <1>2, <1>4 DEF Readers!PoolNext

\* Every step is one of PoolRevision, or none, to the readers of the pool.
LEMMA RevisionStep ==
    ASSUME TypeInv, TypeInv', [Next]_vars
    PROVE  [Readers!PoolNext]_(Readers!poolVars)
<1>1. CASE SameToReaders
  <2>1. \A ip \in IPs : Seen'[ip] = Seen[ip]
    BY <1>1 DEF SameToReaders, Seen, InPool
  <2>2. Seen' = Seen
    BY <2>1 DEF Seen
  <2> QED
    BY <1>1, <2>2 DEF SameToReaders, Readers!poolVars, Seen
<1>2. CASE Stamps
  BY <1>2, StampsPublish
<1>3. CASE EvictsDead
  <2>1. PICK dead \in SUBSET IPs : pool' = [ip \in IPs |-> IF ip \in dead THEN NoRow ELSE pool[ip]]
    BY <1>3 DEF EvictsDead
  <2>2. \A ip \in IPs : Seen'[ip] = IF ip \in dead THEN NoRow ELSE Seen[ip]
    BY <1>3, <2>1 DEF EvictsDead, Seen, InPool, Visible
  <2>3. Readers!Evict(dead)
    BY <1>3, <2>2 DEF EvictsDead, Readers!Evict, Seen
  <2> QED
    BY <2>3 DEF Readers!PoolNext
<1> QED
  BY <1>1, <1>2, <1>3, StepEffect

\* The writers of store.ts implement PoolRevision, for any number of overlapping and
\* failing requests: what a reader can see of a row changes only with a fresh
\* revision, and a row goes only with a raised reset_version.  The theorems of
\* PoolSyncProofs about readers rest on nothing else.
THEOREM Refinement == Spec => Revisions
<1>1. Init => Readers!PoolInit
  BY DEF Init, Readers!PoolInit, InPool
<1>2. TypeInv /\ TypeInv' /\ [Next]_vars => [Readers!PoolNext]_(Readers!poolVars)
  BY RevisionStep
<1> QED
  BY <1>1, <1>2, TypeInvariant, PTL DEF Spec, Revisions, Readers!PoolSpec

-----------------------------------------------------------------------------
(* No success is lost                                                      *)

\* A success of ip that some request, or the next batch, has yet to put in the pool.
Underway(ip) ==
    \/ \E c \in buf : c.ip = ip /\ c.ok
    \/ \E r \in Requests : /\ req[r].pc \in {"insert", "update", "save", "touch", "add"}
                           /\ \E c \in req[r].rows : c.ip = ip /\ c.ok

\* The inductive invariant: between the INSERT of a success and the update of the
\* pool the request, or the batch that is sent again, still carries it.
SuccessKept ==
    faults["drop"] = 0 => \A ip \in IPs : HasSuccess(ip) => InPool(ip) \/ Underway(ip)

\* Rows that are new in the history of an address come from the request (the INSERTs
\* of insertCheckRows and saveRecheckResult).
LEMMA InsertedSource ==
    ASSUME NEW ip \in IPs, NEW rows, NEW h \in Inserted(ip, rows), h.ok
    PROVE  HasSuccess(ip) \/ \E c \in rows : c.ip = ip /\ c.ok
BY DEF Inserted, Of, HasSuccess

\* A request that goes on without losing its rows keeps what is underway.
LEMMA UnderwayKept ==
    ASSUME TypeInv, TypeInv', NEW r \in Requests, NEW ip \in IPs, Underway(ip),
           buf \subseteq buf',
           \A q \in Requests \ {r} : req'[q] = req[q],
           \/ req'[r].rows = req[r].rows /\ req'[r].pc \in {"insert", "update", "save", "touch", "add"}
           \/ req[r].pc \notin {"insert", "update", "save", "touch", "add"}
           \/ \A c \in req[r].rows : c.ip = ip => ~c.ok
    PROVE  Underway(ip)'
BY DEF Underway

\* Every step keeps SuccessKept: a success goes from the buffer into a request, with a
\* failed request back into the buffer, and leaves it when its address is in the pool.
LEMMA SuccessStep ==
    ASSUME TypeInv, TypeInv', SuccessKept, [Next]_vars
    PROVE  SuccessKept'
<1> SUFFICES ASSUME faults'["drop"] = 0, NEW ip \in IPs, HasSuccess(ip)', ~InPool(ip)'
             PROVE  Underway(ip)'
  BY DEF SuccessKept
<1> USE DEF dbVars
<1>0. TypeOK /\ TypeOK'
  BY DEF TypeInv
<1>k. faults["drop"] = 0 => InPool(ip) \/ Underway(ip) \/ ~HasSuccess(ip)
  BY DEF SuccessKept
<1>1. CASE UNCHANGED vars
  BY <1>1, <1>k DEF vars, Underway, InPool, HasSuccess
<1>2. ASSUME NEW i \in IPs, NEW ok \in BOOLEAN, Scan(i, ok) PROVE Underway(ip)'
  BY <1>2, <1>k DEF Scan, Underway, InPool, HasSuccess
<1>3. CASE Tick
  BY <1>3, <1>k DEF Tick, Underway, InPool, HasSuccess
<1>4. ASSUME NEW r \in Requests, NEW prune \in SUBSET IPs, Submit(r, prune) PROVE Underway(ip)'
  <2>1. Underway(ip)
    BY <1>4, <1>k DEF Submit, InPool, HasSuccess
  <2>2. /\ req[r].pc = "idle" /\ \A q \in Requests \ {r} : req'[q] = req[q]
        /\ req'[r].pc = "insert" /\ req'[r].rows = buf
    BY <1>4, <1>0 DEF Submit, TypeOK
  <2> QED
    BY <2>1, <2>2 DEF Underway
<1>5. ASSUME NEW r \in Requests, NEW i \in OnDemand, NEW ok \in BOOLEAN, Probe(r, i, ok)
      PROVE  Underway(ip)'
  <2>1. Underway(ip)
    BY <1>5, <1>k DEF Probe, InPool, HasSuccess
  <2>2. req[r].pc = "idle" /\ buf' = buf /\ \A q \in Requests \ {r} : req'[q] = req[q]
    BY <1>5, <1>0 DEF Probe, TypeOK
  <2> QED
    BY <2>1, <2>2, UnderwayKept
<1>6. ASSUME NEW r \in Requests, Handle(r) PROVE Underway(ip)'
  <2>1. CASE InsertCheckRows(r)
    <3>1. /\ req'[r].pc = "update" /\ req'[r].rows = req[r].rows /\ req[r].pc = "insert"
          /\ UNCHANGED <<pool, buf, faults>> /\ \A q \in Requests \ {r} : req'[q] = req[q]
      BY <2>1, <1>0 DEF InsertCheckRows, Goto, TypeOK, ReqRecords
    <3>2. CASE Underway(ip)
      BY <3>1, <3>2, UnderwayKept
    <3>3. CASE ~HasSuccess(ip)
      <4>1. checks'[ip] = checks[ip] \/ checks'[ip] = Inserted(ip, Coalesced(req[r].rows))
        BY <2>1 DEF InsertCheckRows
      <4>2. \E c \in Coalesced(req[r].rows) : c.ip = ip /\ c.ok
        BY <3>3, <4>1, InsertedSource DEF HasSuccess
      <4>3. \E c \in req[r].rows : c.ip = ip /\ c.ok
        BY <4>2 DEF Coalesced
      <4> QED
        BY <3>1, <4>3 DEF Underway
    <3> QED
      BY <1>k, <3>1, <3>2, <3>3 DEF InPool
  <2>2. CASE UpdatePoolBatch(r)
    <3>1. UNCHANGED <<checks, buf, faults>> /\ \A q \in Requests \ {r} : req'[q] = req[q]
      BY <2>2, <1>0 DEF UpdatePoolBatch, Goto, TypeOK, ReqRecords
    <3>2. ~InPool(ip) /\ Successes(Of(req[r].rows, ip)) = {}
      BY <2>2, <1>0, BatchRow, StoreNoRowAssumption DEF InPool
    <3>3. \A c \in req[r].rows : c.ip = ip => ~c.ok
      BY <3>2 DEF Successes, Of
    <3>4. Underway(ip)
      BY <1>k, <3>1, <3>2 DEF HasSuccess
    <3> QED
      BY <3>1, <3>3, <3>4, UnderwayKept
  <2>3. CASE IsKnownGood(r)
    <3>1. /\ req'[r].pc \in {"save", "touch"} /\ req'[r].rows = req[r].rows
          /\ UNCHANGED <<checks, pool, buf, faults>> /\ \A q \in Requests \ {r} : req'[q] = req[q]
      BY <2>3, <1>0 DEF IsKnownGood, Goto, TypeOK, ReqRecords
    <3>2. Underway(ip)
      BY <1>k, <3>1 DEF HasSuccess, InPool
    <3> QED
      BY <3>1, <3>2, UnderwayKept
  <2>4. CASE SaveRecheckResult(r)
    <3>1. /\ req'[r].pc = "touch" /\ req'[r].rows = req[r].rows
          /\ UNCHANGED <<pool, buf, faults>> /\ \A q \in Requests \ {r} : req'[q] = req[q]
      BY <2>4, <1>0 DEF SaveRecheckResult, Goto, TypeOK, ReqRecords
    <3>2. CASE Underway(ip)
      BY <3>1, <3>2, UnderwayKept
    <3>3. CASE ~HasSuccess(ip)
      <4>1. req[r].rows = {Row(r)}
        BY <2>4, RowType DEF SaveRecheckResult, ProbePCs
      <4>2. checks'[ip] = checks[ip] \/ checks'[ip] = Inserted(ip, {Row(r)})
        BY <2>4, <1>0 DEF SaveRecheckResult, TypeOK
      <4>3. \E c \in req[r].rows : c.ip = ip /\ c.ok
        BY <3>3, <4>1, <4>2, InsertedSource DEF HasSuccess
      <4> QED
        BY <3>1, <4>3 DEF Underway
    <3> QED
      BY <1>k, <3>1, <3>2, <3>3 DEF InPool
  <2>5. CASE UpdatePoolForCheck(r)
    <3>1. UNCHANGED <<checks, buf, faults>> /\ \A q \in Requests \ {r} : req'[q] = req[q]
      BY <2>5, <1>0 DEF UpdatePoolForCheck, Goto, TypeOK, ReqRecords
    <3>2. req'[r].rows = req[r].rows /\ req'[r].pc = AfterTouch(Row(r)) /\ req[r].rows = {Row(r)}
      BY <2>5, <1>0, RowType DEF UpdatePoolForCheck, Goto, TypeOK, ReqRecords, ProbePCs
    <3>3. ~InPool(ip)
      BY <2>5, <1>0, TouchRow, StoreNoRowAssumption DEF InPool
    <3>4. Underway(ip)
      BY <1>k, <3>1, <3>3 DEF HasSuccess
    <3>5. CASE Row(r).ip = ip /\ Row(r).ok
      BY <3>1, <3>2, <3>3, <3>4, <3>5, UnderwayKept DEF AfterTouch
    <3>6. CASE ~(Row(r).ip = ip /\ Row(r).ok)
      BY <3>1, <3>2, <3>4, <3>6, UnderwayKept
    <3> QED
      BY <3>5, <3>6
  <2>6. CASE InsertPoolForCheck(r)
    <3>1. UNCHANGED <<checks, buf, faults>> /\ \A q \in Requests \ {r} : req'[q] = req[q]
      BY <2>6, <1>0 DEF InsertPoolForCheck, Goto, TypeOK, ReqRecords
    <3>2. req[r].rows = {Row(r)}
      BY <2>6, RowType DEF InsertPoolForCheck, ProbePCs
    <3>3. ~InPool(ip)
      BY <2>6, <1>0, AddRow, StoreNoRowAssumption DEF InPool
    <3>4. Underway(ip)
      BY <1>k, <3>1, <3>3 DEF HasSuccess
    <3>5. Row(r).ip # ip
      BY <2>6, AddRow, StoreNoRowAssumption DEF InPool
    <3> QED
      BY <3>1, <3>2, <3>4, <3>5, UnderwayKept
  <2>7. CASE PruneSelectOver(r)
    <3>1. req[r].pc = "over" /\ UNCHANGED <<checks, pool, buf, faults>> /\ \A q \in Requests \ {r} : req'[q] = req[q]
      BY <2>7, <1>0 DEF PruneSelectOver, Select, TypeOK
    <3>2. Underway(ip)
      BY <1>k, <3>1 DEF HasSuccess, InPool
    <3> QED
      BY <3>1, <3>2, UnderwayKept
  <2>8. CASE PruneDelete(r)
    <3>1. req[r].pc = "delete" /\ UNCHANGED <<buf, faults>> /\ \A q \in Requests \ {r} : req'[q] = req[q]
      BY <2>8, <1>0 DEF PruneDelete, Goto, TypeOK
    <3>2. HasSuccess(ip)
      BY <2>8 DEF PruneDelete, Retained, HasSuccess
    <3>3. ~InPool(ip)
      <4>1. ~Stamps /\ ~EvictsDead
        BY <2>8, <1>0 DEF PruneDelete, Stamps, EvictsDead, TypeOK
      <4>2. SameToReaders
        BY <1>6, <4>1, StepEffect DEF Next
      <4> QED
        BY <4>2 DEF SameToReaders, InPool
    <3>4. Underway(ip)
      BY <1>k, <3>1, <3>2, <3>3
    <3> QED
      BY <3>1, <3>4, UnderwayKept
  <2>9. CASE PruneSelectDead(r)
    <3>1. req[r].pc = "dead" /\ UNCHANGED <<checks, pool, buf, faults>> /\ \A q \in Requests \ {r} : req'[q] = req[q]
      BY <2>9, <1>0 DEF PruneSelectDead, Select, TypeOK
    <3>2. Underway(ip)
      BY <1>k, <3>1 DEF HasSuccess, InPool
    <3> QED
      BY <3>1, <3>2, UnderwayKept
  <2>10. CASE PruneEvict(r)
    <3>1. req[r].pc = "evict" /\ UNCHANGED <<checks, buf, faults>> /\ \A q \in Requests \ {r} : req'[q] = req[q]
      BY <2>10, <1>0 DEF PruneEvict, Goto, TypeOK
    <3>2. HasSuccess(ip)
      BY <3>1 DEF HasSuccess
    <3>3. ~InPool(ip)
      BY <2>10, <3>2 DEF PruneEvict, Evictable, InPool
    <3>4. Underway(ip)
      BY <1>k, <3>1, <3>2, <3>3
    <3> QED
      BY <3>1, <3>4, UnderwayKept
  <2>11. CASE Reply(r)
    <3>1. req[r].pc = "done" /\ UNCHANGED <<checks, pool, buf, faults>> /\ \A q \in Requests \ {r} : req'[q] = req[q]
      BY <2>11, <1>0 DEF Reply, TypeOK
    <3>2. Underway(ip)
      BY <1>k, <3>1 DEF HasSuccess, InPool
    <3> QED
      BY <3>1, <3>2, UnderwayKept
  <2> QED
    BY <1>6, <2>1, <2>2, <2>3, <2>4, <2>5, <2>6, <2>7, <2>8, <2>9, <2>10, <2>11 DEF Handle
<1>7. ASSUME NEW i \in IPs, SavePTR(i) PROVE Underway(ip)'
  <2>1. UNCHANGED <<checks, buf, req, faults>>
    BY <1>7 DEF SavePTR
  <2>2. ~InPool(ip)
    <3>1. SUFFICES ASSUME InPool(ip) PROVE FALSE
      OBVIOUS
    <3>2. Stamped(pool[ip]) \in PoolRows
      BY <1>0, <3>1, Counts, StampedType
    <3> QED
      BY <1>7, <3>1, <3>2, StoreNoRowAssumption DEF SavePTR, InPool
  <2> QED
    BY <1>k, <2>1, <2>2 DEF Underway, HasSuccess
<1>8. ASSUME NEW r \in Requests, FailIngest(r) \/ TimeOut(r) PROVE Underway(ip)'
  <2>1. /\ UNCHANGED <<checks, pool>> /\ faults'["drop"] = faults["drop"]
        /\ buf' = buf \cup req[r].rows /\ \A q \in Requests \ {r} : req'[q] = req[q]
    BY <1>8, <1>0 DEF FailIngest, TimeOut, Fault, TypeOK
  <2>2. Underway(ip)
    BY <1>k, <2>1 DEF HasSuccess, InPool
  <2> QED
    BY <2>1, <2>2 DEF Underway
<1>9. ASSUME NEW r \in Requests, FailPrune(r) \/ Drop(r) PROVE FALSE
  BY <1>9, <1>0 DEF FailPrune, Drop, Fault, TypeOK
<1> QED
  BY <1>1, <1>2, <1>3, <1>4, <1>5, <1>6, <1>7, <1>8, <1>9 DEF Next

\* No success is lost: when nothing is underway and no request has died for good, an
\* address with a retained success is in the pool, however ingests, probes on demand,
\* repetitions and pruning overlapped between the INSERT of the check and the update
\* of the pool.
THEOREM SuccessSafe == Spec => []SuccessInPool
<1>1. Init => SuccessKept
  BY DEF Init, SuccessKept, HasSuccess
<1>2. TypeInv /\ TypeInv' /\ SuccessKept /\ [Next]_vars => SuccessKept'
  BY SuccessStep
<1>3. SuccessKept => SuccessInPool
  BY DEF SuccessKept, SuccessInPool, Quiet, Underway
<1> QED
  BY <1>1, <1>2, <1>3, TypeInvariant, PTL DEF Spec

-----------------------------------------------------------------------------
(* With the scanner as the only writer: the status                         *)

\* The scanner alone: no probes on demand, and no request outlives its client.
ScannerOnly == OnDemand = {} /\ MaxZombies = 0

Recorded(c) == [ts |-> c.ts, ok |-> c.ok]

\* Every check of ip that is recorded, buffered or sent.
Known(ip) ==
    checks[ip] \cup {Recorded(c) : c \in Of(buf, ip)}
               \cup UNION {{Recorded(c) : c \in Of(req[r].rows, ip)} : r \in Requests}

\* One ingest at a time.
OneIngest ==
    /\ faults["zombie"] = 0
    /\ \A r \in Requests :
         /\ ~req[r].zombie
         /\ req[r].pc \notin ProbePCs /\ req[r].kind # "probe"
         /\ req[r].kind = "ingest" <=> req[r].pc # "idle"
         /\ req[r].pc = "idle" => req[r].rows = {}
    /\ \A q, r \in Requests : req[q].pc # "idle" /\ req[r].pc # "idle" => q = r

\* No two checks of an address have one time, and none is from the future.
Timeline ==
    \A ip \in IPs :
      /\ \A g, h \in Known(ip) : g.ts = h.ts => g = h
      /\ \A h \in Known(ip) : h.ts <= now
      /\ InPool(ip) => pool[ip].at <= now

\* What is buffered while a request is under way is newer than anything sent.
BufferNewer ==
    \A r \in Requests : req[r].pc # "idle" =>
      \A c \in buf :
        /\ \A h \in checks[c.ip] : h.ts < c.ts
        /\ \A d \in req[r].rows : d.ts < c.ts
        /\ InPool(c.ip) => pool[c.ip].at < c.ts

\* rows, of ip, are those that the next batch to arrive has of it
Ahead(ip, rows) == rows # {} => \A h \in checks[ip] : h.ts <= Latest(rows).ts

\* the batch with these rows of ip writes the pool row
Writes(ip, rows) == rows # {} /\ (Successes(rows) # {} \/ GateOpen(ip))

\* the pool row has the status of the newest check, and a time that no check is after
Settled(ip) ==
    InPool(ip) =>
      /\ checks[ip] # {} => pool[ip].ok = Newest(ip).ok
      /\ \A h \in checks[ip] : h.ts <= pool[ip].at

AllIdle == \A r \in Requests : req[r].pc = "idle"

\* The INSERT passed its gate, so the update will: time opens gates.
Admitted(ip, rows) == Writes(ip, rows) /\ Recorded(Latest(rows)) \in checks[ip]

\* The INSERT did not.  If the update does, with a later clock, it writes that a row
\* is down that was down before.
Refused(ip, rows) ==
    /\ Settled(ip) /\ Successes(rows) = {}
    /\ rows # {} /\ InPool(ip) => ~pool[ip].ok

\* How far the request in slot r has got with ip.
StatusOf(r, ip) ==
    LET rows == Of(req[r].rows, ip)
    IN /\ Ahead(ip, rows)
       /\ req[r].pc = "insert" => Settled(ip) \/ Writes(ip, rows)
       /\ req[r].pc = "update" => Admitted(ip, rows) \/ Refused(ip, rows)
       /\ req[r].pc \in PrunePCs \cup {"done"} => Settled(ip)

StatusInv ==
    /\ OneIngest /\ Timeline /\ BufferNewer
    /\ AllIdle => \A ip \in IPs :
         Ahead(ip, Of(buf, ip)) /\ (Settled(ip) \/ Writes(ip, Of(buf, ip)))
    /\ \A r \in Requests : req[r].pc # "idle" => \A ip \in IPs : StatusOf(r, ip)


Distinct(rows) == \A c, d \in rows : c.ts = d.ts => c = d

\* Of rows with different times, the latest is the one that none is later than.
LEMMA LatestIs ==
    ASSUME NEW rows, \A c \in rows : c.ts \in Times, Distinct(rows),
           NEW c \in rows, \A d \in rows : d.ts <= c.ts
    PROVE  Latest(rows) = c
<1>1. Latest(rows) \in rows /\ c.ts <= Latest(rows).ts
  BY LatestRow
<1>2. Latest(rows).ts = c.ts
  BY <1>1 DEF Times
<1> QED
  BY <1>1, <1>2 DEF Distinct

\* What is recorded, buffered or sent of one address are checks of different times,
\* none of them from the future.
LEMMA RowsOf ==
    ASSUME TypeInv, Timeline, NEW ip \in IPs
    PROVE  /\ now \in Times /\ MaxTime \in Nat
           /\ \A h \in checks[ip] : h \in HistoryRows /\ h.ts \in Times /\ h.ts <= now
           /\ Distinct(checks[ip])
           /\ \A c \in Of(buf, ip) : c \in CheckRows /\ c.ip = ip /\ c.ts \in Times /\ c.ts <= now
           /\ Distinct(Of(buf, ip))
           /\ \A c \in Of(buf, ip), h \in checks[ip] : h.ts = c.ts => h = Recorded(c)
           /\ \A r \in Requests :
                /\ \A c \in Of(req[r].rows, ip) : c \in CheckRows /\ c.ip = ip /\ c.ts \in Times /\ c.ts <= now
                /\ Distinct(Of(req[r].rows, ip))
                /\ \A c \in Of(req[r].rows, ip), h \in checks[ip] : h.ts = c.ts => h = Recorded(c)
<1> DEFINE K == Known(ip)
<1>1. now \in Times /\ MaxTime \in Nat /\ checks[ip] \in SUBSET HistoryRows /\ buf \in SUBSET CheckRows
      /\ \A r \in Requests : req[r].rows \in SUBSET CheckRows
  BY StoreAssumption DEF TypeInv, TypeOK, ReqRecords
<1>2. /\ checks[ip] \subseteq K
      /\ \A c \in Of(buf, ip) : Recorded(c) \in K
      /\ \A r \in Requests : \A c \in Of(req[r].rows, ip) : Recorded(c) \in K
  BY DEF Known
<1>3. (\A g, h \in K : g.ts = h.ts => g = h) /\ \A h \in K : h.ts <= now
  BY DEF Timeline
<1> HIDE DEF K
<1>4. \A c \in CheckRows : /\ Recorded(c).ts = c.ts /\ Recorded(c).ok = c.ok /\ c.ts \in Times
                           /\ c = [ip |-> c.ip, ts |-> c.ts, ok |-> c.ok]
  BY DEF CheckRows, Recorded
<1>5. \A rows \in SUBSET CheckRows :
        (\A c \in Of(rows, ip) : Recorded(c) \in K) =>
          /\ \A c \in Of(rows, ip) : c \in CheckRows /\ c.ip = ip /\ c.ts \in Times /\ c.ts <= now
          /\ Distinct(Of(rows, ip))
          /\ \A c \in Of(rows, ip), h \in checks[ip] : h.ts = c.ts => h = Recorded(c)
  <2> SUFFICES ASSUME NEW rows \in SUBSET CheckRows, \A c \in Of(rows, ip) : Recorded(c) \in K
               PROVE  /\ \A c \in Of(rows, ip) : c \in CheckRows /\ c.ip = ip /\ c.ts \in Times /\ c.ts <= now
                      /\ Distinct(Of(rows, ip))
                      /\ \A c \in Of(rows, ip), h \in checks[ip] : h.ts = c.ts => h = Recorded(c)
    OBVIOUS
  <2>1. \A c \in Of(rows, ip) : c \in CheckRows /\ c.ip = ip
    BY DEF Of
  <2>2. \A c \in Of(rows, ip) : c.ts \in Times /\ c.ts <= now
    BY <1>3, <1>4, <2>1
  <2>3. ASSUME NEW c \in Of(rows, ip), NEW d \in Of(rows, ip), c.ts = d.ts
        PROVE  c = d
    <3>1. Recorded(c) = Recorded(d)
      BY <1>3, <1>4, <2>1, <2>3
    <3>2. c.ok = d.ok /\ c.ip = d.ip
      BY <1>4, <2>1, <3>1
    <3> QED
      BY <1>4, <2>1, <2>3, <3>2
  <2>4. \A c \in Of(rows, ip), h \in checks[ip] : h.ts = c.ts => h = Recorded(c)
    BY <1>2, <1>3, <1>4, <2>1
  <2> QED
    BY <2>1, <2>2, <2>3, <2>4 DEF Distinct
<1>6. \A h \in checks[ip] : h \in HistoryRows /\ h.ts \in Times /\ h.ts <= now
  BY <1>1, <1>2, <1>3 DEF HistoryRows
<1>7. Distinct(checks[ip])
  BY <1>2, <1>3 DEF Distinct
<1> QED
  BY <1>1, <1>2, <1>5, <1>6, <1>7

\* A step that adds nothing to what is known of an address, and takes the clock no way
\* back, keeps the timeline, if it writes no time from the future either.
LEMMA TimelineKept ==
    ASSUME TypeInv, TypeInv', Timeline, now' >= now,
           \A ip \in IPs : Known(ip)' \subseteq Known(ip),
           \A ip \in IPs : InPool(ip)' => pool'[ip].at <= now'
    PROVE  Timeline'
<1>1. now \in Nat /\ now' \in Nat
  BY StoreAssumption DEF TypeInv, TypeOK, Times
<1>2. ASSUME NEW ip \in IPs, NEW h \in Known(ip)
      PROVE  h.ts \in Nat
  BY StoreAssumption DEF TypeInv, TypeOK, ReqRecords, Known, Recorded, Of, CheckRows, HistoryRows, Times
<1> QED
  BY <1>1, <1>2 DEF Timeline

\* Latest of a batch is one of its rows.
LEMMA LatestOf ==
    ASSUME TypeInv, Timeline, NEW ip \in IPs,
           NEW rows \in {Of(buf, ip)} \cup {Of(req[r].rows, ip) : r \in Requests}
    PROVE  /\ rows # {} => Latest(rows) \in rows /\ \A d \in rows : d.ts <= Latest(rows).ts
           /\ Successes(rows) # {} =>
                /\ Latest(Successes(rows)) \in Successes(rows)
                /\ \A d \in Successes(rows) : d.ts <= Latest(Successes(rows)).ts
<1>1. \A c \in rows : c.ts \in Times
  BY RowsOf
<1>2. \A c \in Successes(rows) : c.ts \in Times
  BY <1>1 DEF Successes
<1> QED
  BY <1>1, <1>2, LatestRow

\* What coalesceCheckRows keeps of an address: its latest row and its latest success.
LEMMA CoalescedOf ==
    ASSUME NEW rows \in SUBSET CheckRows, NEW ip
    PROVE  Of(Coalesced(rows), ip)
             = {c \in Of(rows, ip) : \/ c = Latest(Of(rows, ip))
                                     \/ c.ok /\ c = Latest(Successes(Of(rows, ip)))}
BY DEF Of, Coalesced

\* insertCheckRows records what coalesceCheckRows keeps, of the addresses whose pool row
\* the batch is going to write, and nothing of the others.
LEMMA Inserts ==
    ASSUME TypeInv, Timeline, NEW r \in Requests, InsertCheckRows(r), NEW ip \in IPs
    PROVE  LET rows == Of(req[r].rows, ip)
               kept == Of(Coalesced(req[r].rows), ip)
           IN /\ kept \subseteq rows
              /\ rows # {} => Latest(rows) \in kept
              /\ IF Writes(ip, rows)
                 THEN checks'[ip] = checks[ip] \cup {Recorded(c) : c \in kept}
                 ELSE checks'[ip] = checks[ip]
<1> DEFINE rows == Of(req[r].rows, ip)
           kept == Of(Coalesced(req[r].rows), ip)
<1>1. req[r].rows \in SUBSET CheckRows
  BY DEF TypeInv, TypeOK, ReqRecords
<1>2. kept = {c \in rows : c = Latest(rows) \/ (c.ok /\ c = Latest(Successes(rows)))}
  BY <1>1, CoalescedOf
<1>3. /\ rows # {} => Latest(rows) \in rows
      /\ Successes(rows) # {} => Latest(Successes(rows)) \in Successes(rows)
  BY LatestOf
<1>4. Successes(kept) # {} <=> Successes(rows) # {}
  <2>1. ASSUME Successes(rows) # {} PROVE Latest(Successes(rows)) \in Successes(kept)
    BY <1>2, <1>3, <2>1 DEF Successes
  <2>2. Successes(kept) \subseteq Successes(rows)
    BY <1>2 DEF Successes
  <2> QED
    BY <2>1, <2>2
<1>5. checks'[ip] = IF Successes(kept) # {} \/ GateOpen(ip)
                    THEN Inserted(ip, Coalesced(req[r].rows)) ELSE checks[ip]
  BY DEF InsertCheckRows
<1>6. \A c \in kept, h \in checks[ip] : h.ts = c.ts => h = Recorded(c)
  BY <1>2, RowsOf
<1>7. Inserted(ip, Coalesced(req[r].rows)) = checks[ip] \cup {Recorded(c) : c \in kept}
  <2>1. Inserted(ip, Coalesced(req[r].rows))
          = checks[ip] \cup {Recorded(c) : c \in {c \in kept : \A h \in checks[ip] : h.ts # c.ts}}
    BY DEF Inserted, Recorded
  <2>2. ASSUME NEW c \in kept PROVE Recorded(c) \in checks[ip] \/ \A h \in checks[ip] : h.ts # c.ts
    BY <1>6
  <2> HIDE DEF kept
  <2> QED
    BY <2>1, <2>2
<1>8. rows = {} => kept = {}
  BY <1>2
<1> QED
  BY <1>2, <1>3, <1>4, <1>5, <1>7, <1>8 DEF Writes

\* The scanner's steps: no other kind of request is ever under way.
LEMMA ScannerStep ==
    ASSUME TypeInv, ScannerOnly, OneIngest, Next
    PROVE  \/ \E ip \in IPs, ok \in BOOLEAN : Scan(ip, ok)
           \/ Tick
           \/ \E r \in Requests, prune \in SUBSET IPs : Submit(r, prune)
           \/ \E r \in Requests : \/ InsertCheckRows(r) \/ UpdatePoolBatch(r) \/ PruneSelectOver(r)
                                  \/ PruneDelete(r) \/ PruneSelectDead(r) \/ PruneEvict(r)
                                  \/ Reply(r) \/ FailIngest(r) \/ FailPrune(r)
           \/ \E ip \in IPs : SavePTR(ip)
<1>1. ASSUME NEW r \in Requests PROVE ~TimeOut(r) /\ ~Drop(r)
  BY DEF TimeOut, Drop, Fault, OneIngest, ScannerOnly
<1>2. ASSUME NEW r \in Requests
      PROVE  ~IsKnownGood(r) /\ ~SaveRecheckResult(r) /\ ~UpdatePoolForCheck(r) /\ ~InsertPoolForCheck(r)
  BY DEF IsKnownGood, SaveRecheckResult, UpdatePoolForCheck, InsertPoolForCheck, OneIngest, ProbePCs
<1> QED
  BY <1>1, <1>2 DEF Next, Handle, ScannerOnly

\* What the request in slot r may change, on its way, of what the timeline is about.
Proceeds(r) ==
    /\ req[r].pc # "idle" /\ req'[r].pc \notin ProbePCs \cup {"idle"}
    /\ req'[r].rows = req[r].rows /\ req'[r].kind = req[r].kind /\ req'[r].zombie = req[r].zombie
    /\ \A q \in Requests \ {r} : req'[q] = req[q]
    /\ UNCHANGED <<now, buf>> /\ faults'["zombie"] = faults["zombie"]
    /\ \A ip \in IPs :
         /\ \A h \in checks'[ip] : h \in checks[ip] \/ \E c \in Of(req[r].rows, ip) : h = Recorded(c)
         /\ InPool(ip)' => \/ InPool(ip) /\ pool'[ip].at = pool[ip].at
                           \/ \E c \in Of(req[r].rows, ip) : pool'[ip].at = c.ts

\* Such a step puts no check at a time that another has, and none in the future.
LEMMA ProceedsTimeline ==
    ASSUME TypeInv, TypeInv', Timeline, NEW r \in Requests, Proceeds(r)
    PROVE  Timeline'
<1>1. ASSUME NEW ip \in IPs PROVE Known(ip)' \subseteq Known(ip)
  <2>1. \A q \in Requests : req'[q].rows = req[q].rows
    BY DEF Proceeds
  <2>2. buf' = buf
    BY DEF Proceeds
  <2>3. checks'[ip] \subseteq Known(ip)
    BY DEF Proceeds, Known
  <2> QED
    BY <2>1, <2>2, <2>3 DEF Known
<1>2. now' = now /\ now \in Nat
  BY StoreAssumption DEF Proceeds, TypeInv, TypeOK, Times
<1>3. ASSUME NEW ip \in IPs, InPool(ip)' PROVE pool'[ip].at <= now'
  <2>1. CASE InPool(ip) /\ pool'[ip].at = pool[ip].at
    BY <1>2, <2>1 DEF Timeline
  <2>2. CASE \E c \in Of(req[r].rows, ip) : pool'[ip].at = c.ts
    BY <1>2, <2>2, RowsOf
  <2> QED
    BY <1>3, <2>1, <2>2 DEF Proceeds
<1> QED
  BY <1>1, <1>2, <1>3, TimelineKept

\* A step of the request under way keeps the invariant if it keeps what the invariant says
\* of that request.
LEMMA StatusSlot ==
    ASSUME TypeInv, TypeInv', StatusInv, NEW r \in Requests, Proceeds(r),
           \A ip \in IPs : StatusOf(r, ip)'
    PROVE  StatusInv'
<1>0. OneIngest /\ Timeline /\ BufferNewer
  BY DEF StatusInv
<1>1. OneIngest'
  BY <1>0 DEF OneIngest, Proceeds
<1>2. Timeline'
  BY <1>0, ProceedsTimeline
<1>3. BufferNewer'
  <2>1. SUFFICES ASSUME NEW c \in buf
                 PROVE  /\ \A h \in checks'[c.ip] : h.ts < c.ts
                        /\ \A d \in req[r].rows : d.ts < c.ts
                        /\ InPool(c.ip)' => pool'[c.ip].at < c.ts
    <3>1. \A q \in Requests : req'[q].pc # "idle" => q = r
      BY <1>1, <1>0 DEF Proceeds, OneIngest
    <3> QED
      BY <3>1 DEF BufferNewer, Proceeds
  <2>2. c.ip \in IPs
    BY DEF TypeInv, TypeOK, CheckRows
  <2>3. /\ \A h \in checks[c.ip] : h.ts < c.ts
        /\ \A d \in req[r].rows : d.ts < c.ts
        /\ InPool(c.ip) => pool[c.ip].at < c.ts
    BY <1>0 DEF BufferNewer, Proceeds
  <2>4. \A d \in Of(req[r].rows, c.ip) : Recorded(d).ts < c.ts /\ d.ts < c.ts
    BY <2>3 DEF Of, Recorded
  <2> QED
    BY <2>2, <2>3, <2>4 DEF Proceeds
<1>4. ~AllIdle'
  BY DEF AllIdle, Proceeds
<1>5. \A q \in Requests : req'[q].pc # "idle" => q = r
  BY <1>1, <1>0 DEF Proceeds, OneIngest
<1> QED
  BY <1>1, <1>2, <1>3, <1>4, <1>5 DEF StatusInv

\* The row of the newest check.
LEMMA NewestIs ==
    ASSUME TypeInv, Timeline, NEW ip \in IPs
    PROVE  /\ checks[ip] # {} => Newest(ip) \in checks[ip] /\ \A h \in checks[ip] : h.ts <= Newest(ip).ts
           /\ \A g \in checks[ip] : (\A h \in checks[ip] : h.ts <= g.ts) => Newest(ip) = g
<1>1. (\A h \in checks[ip] : h.ts \in Times) /\ Distinct(checks[ip])
  BY RowsOf
<1> QED
  BY <1>1, LatestRow, LatestIs DEF Newest

\* Where no check was added and no newer one was dropped, and the row's status and time
\* are the old ones, a settled row stays settled.
LEMMA SettledKept ==
    ASSUME TypeInv, Timeline, Timeline', TypeInv', NEW ip \in IPs, Settled(ip),
           checks'[ip] \subseteq checks[ip],
           checks[ip] # {} => Newest(ip) \in checks'[ip],
           InPool(ip)' => InPool(ip) /\ pool'[ip].ok = pool[ip].ok /\ pool'[ip].at = pool[ip].at
    PROVE  Settled(ip)'
<1>1. SUFFICES ASSUME InPool(ip)'
               PROVE  /\ checks'[ip] # {} => pool'[ip].ok = Newest(ip)'.ok
                      /\ \A h \in checks'[ip] : h.ts <= pool'[ip].at
  BY DEF Settled
<1>2. InPool(ip) /\ pool'[ip].ok = pool[ip].ok /\ pool'[ip].at = pool[ip].at
  BY <1>1
<1>3. ASSUME checks'[ip] # {} PROVE pool'[ip].ok = Newest(ip)'.ok
  <2>1. \A h \in checks[ip] : h.ts <= Newest(ip).ts
    BY <1>3, NewestIs
  <2>2. Newest(ip) \in checks'[ip]
    BY <1>3
  <2>3. (\A g \in checks[ip] : (\A h \in checks[ip] : h.ts <= g.ts) => Newest(ip) = g)'
    BY NewestIs, PTL
  <2>4. Newest(ip)' = Newest(ip)
    BY <2>1, <2>2, <2>3
  <2> QED
    BY <1>2, <1>3, <2>4 DEF Settled
<1> QED
  BY <1>2, <1>3 DEF Settled

\* What the batch of updatePoolBatch writes of status, time and count, and where.
LEMMA BatchWrites ==
    ASSUME TypeInv, Timeline, NEW r \in Requests, UpdatePoolBatch(r), NEW ip \in IPs
    PROVE  LET rows == Of(req[r].rows, ip)
           IN IF Writes(ip, rows)
              THEN /\ InPool(ip)'
                   /\ pool'[ip].ok = Latest(rows).ok
                   /\ pool'[ip].at = Latest(rows).ts
                   /\ pool'[ip].cnt = IF InPool(ip) THEN Recount(ip) ELSE Cardinality(checks[ip])
              ELSE pool'[ip] = pool[ip]
<1> DEFINE rows == Of(req[r].rows, ip)
<1>0. TypeOK
  BY DEF TypeInv
<1>1. rows # {} => Latest(rows) \in rows /\ Latest(rows).ok \in BOOLEAN
  <2>1. rows # {} => Latest(rows) \in rows
    BY LatestOf
  <2>2. \A c \in rows : c.ok \in BOOLEAN
    BY <1>0 DEF TypeOK, ReqRecords, Of, CheckRows
  <2> QED
    BY <2>1, <2>2
<1>2. CASE Successes(rows) # {}
  <2>1. rows # {}
    BY <1>2 DEF Successes
  <2>2. pool'[ip] \in PoolRows
    BY <1>0, <1>2, BatchRow
  <2>3. /\ pool'[ip].ok = Latest(rows).ok
        /\ pool'[ip].at = Latest(rows).ts
        /\ pool'[ip].cnt = IF InPool(ip) THEN Recount(ip) ELSE Cardinality(checks[ip])
    BY <1>2 DEF UpdatePoolBatch
  <2> QED
    BY <1>2, <2>1, <2>2, <2>3, StoreNoRowAssumption DEF Writes, InPool
<1>3. CASE Successes(rows) = {} /\ rows # {} /\ GateOpen(ip)
  <2>1. pool'[ip] = Stamped([pool[ip] EXCEPT !.ok = FALSE, !.at = Latest(rows).ts, !.cnt = Recount(ip)])
    BY <1>3 DEF UpdatePoolBatch
  <2>2. pool[ip] \in PoolRows /\ InPool(ip)
    BY <1>0, <1>3, Counts DEF GateOpen
  <2>3. pool'[ip].ok = FALSE /\ pool'[ip].at = Latest(rows).ts /\ pool'[ip].cnt = Recount(ip)
    BY <2>1, <2>2 DEF Stamped, PoolRows
  <2>4. pool'[ip] # NoRow
    <3>1. pool'[ip] = pool[ip] \/ pool'[ip] \in PoolRows
      BY <1>0, BatchRow
    <3> QED
      BY <2>2, <3>1, StoreNoRowAssumption
  <2>5. Latest(rows).ok = FALSE
    BY <1>1, <1>3 DEF Successes
  <2> QED
    BY <1>3, <2>2, <2>3, <2>4, <2>5 DEF Writes, InPool
<1>4. CASE Successes(rows) = {} /\ ~(rows # {} /\ GateOpen(ip))
  BY <1>4 DEF UpdatePoolBatch, Writes
<1> QED
  BY <1>2, <1>3, <1>4

\* Pruning keeps the newest check.
LEMMA PruneKeepsNewest ==
    ASSUME TypeInv, Timeline, NEW ip \in IPs, checks[ip] # {}
    PROVE  Newest(ip) \in Retained(checks[ip])
<1>1. Newest(ip) \in checks[ip] /\ \A g \in checks[ip] : g.ts <= Newest(ip).ts
  BY NewestIs
<1>2. \A g \in checks[ip] : g.ts \in Nat
  BY RowsOf DEF Times
<1>3. {g \in checks[ip] : g.ts > Newest(ip).ts} = {}
  BY <1>1, <1>2
<1>4. Cardinality({g \in checks[ip] : g.ts > Newest(ip).ts}) = 0
  BY <1>3, FS_EmptySet
<1> QED
  BY <1>1, <1>4, StoreAssumption DEF Retained

\* A request goes on to its next statement, and the other requests stay where they are.
LEMMA GoesOn ==
    ASSUME TypeInv, NEW r \in Requests, NEW pc, NEW sel,
           \/ Goto(r, pc)
           \/ req' = [req EXCEPT ![r].sel = sel, ![r].pc = pc]
    PROVE  /\ req'[r].pc = pc
           /\ req'[r].rows = req[r].rows /\ req'[r].kind = req[r].kind /\ req'[r].zombie = req[r].zombie
           /\ req'[r].prune = req[r].prune
           /\ \A q \in Requests \ {r} : req'[q] = req[q]
<1>1. req \in [Requests -> ReqRecords]
  BY DEF TypeInv, TypeOK
<1>2. CASE Goto(r, pc)
  BY <1>1, <1>2 DEF Goto, ReqRecords
<1>3. CASE req' = [req EXCEPT ![r].sel = sel, ![r].pc = pc]
  BY <1>1, <1>3 DEF ReqRecords
<1> QED
  BY <1>2, <1>3

\* Each statement of an ingest request, and the failure of its pruning, is a step on its way.
LEMMA StatementProceeds ==
    ASSUME TypeInv, OneIngest, Timeline, NEW r \in Requests,
           \/ InsertCheckRows(r) \/ UpdatePoolBatch(r) \/ PruneSelectOver(r) \/ PruneDelete(r)
           \/ PruneSelectDead(r) \/ PruneEvict(r) \/ FailPrune(r)
    PROVE  Proceeds(r)
<1>0. TypeOK
  BY DEF TypeInv
<1>1. CASE InsertCheckRows(r)
  <2>1. /\ req[r].pc # "idle" /\ req'[r].pc \notin ProbePCs \cup {"idle"}
        /\ req'[r].rows = req[r].rows /\ req'[r].kind = req[r].kind /\ req'[r].zombie = req[r].zombie
        /\ \A q \in Requests \ {r} : req'[q] = req[q]
        /\ UNCHANGED <<now, buf, pool>> /\ faults'["zombie"] = faults["zombie"]
    BY <1>0, <1>1 DEF InsertCheckRows, Goto, ProbePCs, TypeOK
  <2>2. ASSUME NEW ip \in IPs, NEW h \in checks'[ip]
        PROVE  h \in checks[ip] \/ \E c \in Of(req[r].rows, ip) : h = Recorded(c)
    BY <1>1, Inserts
  <2> QED
    BY <2>1, <2>2 DEF Proceeds, InPool
<1>2. CASE UpdatePoolBatch(r)
  <2>1. /\ req[r].pc # "idle" /\ req'[r].pc \notin ProbePCs \cup {"idle"}
        /\ req'[r].rows = req[r].rows /\ req'[r].kind = req[r].kind /\ req'[r].zombie = req[r].zombie
        /\ \A q \in Requests \ {r} : req'[q] = req[q]
        /\ UNCHANGED <<now, buf, checks>> /\ faults'["zombie"] = faults["zombie"]
    <3>1. PICK pc \in {"done", "over"} : Goto(r, pc)
      BY <1>2 DEF UpdatePoolBatch
    <3>2. /\ req'[r].pc = pc
          /\ req'[r].rows = req[r].rows /\ req'[r].kind = req[r].kind /\ req'[r].zombie = req[r].zombie
          /\ \A q \in Requests \ {r} : req'[q] = req[q]
      BY <3>1, GoesOn
    <3> QED
      BY <1>2, <3>2 DEF UpdatePoolBatch, ProbePCs
  <2>2. ASSUME NEW ip \in IPs, InPool(ip)'
        PROVE  \/ InPool(ip) /\ pool'[ip].at = pool[ip].at
               \/ \E c \in Of(req[r].rows, ip) : pool'[ip].at = c.ts
    <3>1. CASE Writes(ip, Of(req[r].rows, ip))
      <4>1. Latest(Of(req[r].rows, ip)) \in Of(req[r].rows, ip)
        BY <3>1, LatestOf DEF Writes
      <4> QED
        BY <1>2, <3>1, <4>1, BatchWrites
    <3>2. CASE ~Writes(ip, Of(req[r].rows, ip))
      BY <1>2, <2>2, <3>2, BatchWrites DEF InPool
    <3> QED
      BY <3>1, <3>2
  <2> QED
    BY <2>1, <2>2 DEF Proceeds
<1>3. CASE PruneSelectOver(r) \/ PruneSelectDead(r) \/ FailPrune(r)
  <2>1. /\ req[r].pc # "idle" /\ req'[r].pc \notin ProbePCs \cup {"idle"}
        /\ req'[r].rows = req[r].rows /\ req'[r].kind = req[r].kind /\ req'[r].zombie = req[r].zombie
        /\ \A q \in Requests \ {r} : req'[q] = req[q]
        /\ UNCHANGED <<now, buf, checks, pool>> /\ faults'["zombie"] = faults["zombie"]
    <3>1. PICK sel, pc : /\ pc \in {"delete", "dead", "evict", "done"}
                         /\ Goto(r, pc) \/ req' = [req EXCEPT ![r].sel = sel, ![r].pc = pc]
      BY <1>3 DEF PruneSelectOver, PruneSelectDead, Select, FailPrune
    <3>2. req[r].pc # "idle" /\ UNCHANGED <<now, buf, checks, pool>> /\ faults'["zombie"] = faults["zombie"]
      BY <1>0, <1>3 DEF PruneSelectOver, PruneSelectDead, FailPrune, Fault, PrunePCs, TypeOK, dbVars
    <3>3. /\ req'[r].pc = pc
          /\ req'[r].rows = req[r].rows /\ req'[r].kind = req[r].kind /\ req'[r].zombie = req[r].zombie
          /\ \A q \in Requests \ {r} : req'[q] = req[q]
      <4>1. CASE Goto(r, pc)
        BY <4>1, GoesOn
      <4>2. CASE req' = [req EXCEPT ![r].sel = sel, ![r].pc = pc]
        BY <4>2, GoesOn
      <4> QED
        BY <3>1, <4>1, <4>2
    <3> QED
      BY <3>1, <3>2, <3>3 DEF ProbePCs
  <2> QED
    BY <2>1 DEF Proceeds, InPool
<1>4. CASE PruneDelete(r)
  <2>1. /\ req[r].pc # "idle" /\ req'[r].pc \notin ProbePCs \cup {"idle"}
        /\ req'[r].rows = req[r].rows /\ req'[r].kind = req[r].kind /\ req'[r].zombie = req[r].zombie
        /\ \A q \in Requests \ {r} : req'[q] = req[q]
        /\ UNCHANGED <<now, buf>> /\ faults'["zombie"] = faults["zombie"]
    BY <1>0, <1>4 DEF PruneDelete, Goto, ProbePCs, TypeOK
  <2>2. ASSUME NEW ip \in IPs
        PROVE  /\ checks'[ip] \subseteq checks[ip]
               /\ InPool(ip)' => InPool(ip) /\ pool'[ip].at = pool[ip].at
    <3>1. InPool(ip) => pool[ip] \in PoolRows
      BY <1>0, Counts
    <3> QED
      BY <1>4, <3>1 DEF PruneDelete, Retained, InPool, PoolRows
  <2> QED
    BY <2>1, <2>2 DEF Proceeds
<1>5. CASE PruneEvict(r)
  <2>1. /\ req[r].pc # "idle" /\ req'[r].pc \notin ProbePCs \cup {"idle"}
        /\ req'[r].rows = req[r].rows /\ req'[r].kind = req[r].kind /\ req'[r].zombie = req[r].zombie
        /\ \A q \in Requests \ {r} : req'[q] = req[q]
        /\ UNCHANGED <<now, buf, checks>> /\ faults'["zombie"] = faults["zombie"]
    BY <1>0, <1>5 DEF PruneEvict, Goto, ProbePCs, TypeOK
  <2>2. ASSUME NEW ip \in IPs, InPool(ip)' PROVE InPool(ip) /\ pool'[ip] = pool[ip]
    BY <1>5, <2>2 DEF PruneEvict, InPool
  <2> QED
    BY <2>1, <2>2 DEF Proceeds
<1> QED
  BY <1>1, <1>2, <1>3, <1>4, <1>5

\* The INSERT of an ingest: what it is going to write to the pool row is recorded.
LEMMA InsertStatus ==
    ASSUME TypeInv, TypeInv', StatusInv, NEW r \in Requests, InsertCheckRows(r), NEW ip \in IPs
    PROVE  StatusOf(r, ip)'
<1> DEFINE rows == Of(req[r].rows, ip)
           kept == Of(Coalesced(req[r].rows), ip)
<1>1. OneIngest /\ Timeline
  BY DEF StatusInv
<1>2. /\ req[r].pc = "insert" /\ req'[r].pc = "update" /\ req'[r].rows = req[r].rows
      /\ UNCHANGED <<pool, now>>
  BY GoesOn DEF InsertCheckRows
<1>3. Ahead(ip, rows) /\ (Settled(ip) \/ Writes(ip, rows))
  BY <1>2 DEF StatusInv, StatusOf
<1>4. /\ kept \subseteq rows
      /\ rows # {} => Latest(rows) \in kept
      /\ IF Writes(ip, rows) THEN checks'[ip] = checks[ip] \cup {Recorded(c) : c \in kept}
                             ELSE checks'[ip] = checks[ip]
  BY <1>1, Inserts
<1>5. rows # {} => \A d \in rows : d.ts <= Latest(rows).ts
  BY <1>1, LatestOf
<1>6. Ahead(ip, rows)'
  BY <1>2, <1>3, <1>4, <1>5 DEF Ahead, Writes, Recorded
<1>7. Writes(ip, rows)' = Writes(ip, rows)
  BY <1>2 DEF Writes, GateOpen, InPool
<1>8. Writes(ip, rows) => Admitted(ip, rows)'
  <2>1. ASSUME Writes(ip, rows) PROVE Recorded(Latest(rows)) \in checks'[ip]
    BY <1>4, <2>1 DEF Writes
  <2> QED
    BY <1>2, <1>7, <2>1 DEF Admitted
<1>9. ~Writes(ip, rows) => Refused(ip, rows)'
  <2>1. SUFFICES ASSUME ~Writes(ip, rows) PROVE Refused(ip, rows)'
    OBVIOUS
  <2>2. Settled(ip) /\ checks'[ip] = checks[ip] /\ pool' = pool
    BY <1>2, <1>3, <1>4, <2>1
  <2>3. Settled(ip)'
    BY <2>2 DEF Settled, Newest, InPool
  <2>4. Successes(rows) = {} /\ (rows # {} /\ InPool(ip) => ~pool[ip].ok)
    BY <2>1 DEF Writes, Successes, GateOpen
  <2> QED
    BY <1>2, <2>2, <2>3, <2>4 DEF Refused, InPool, Successes
<1> QED
  BY <1>2, <1>6, <1>8, <1>9 DEF StatusOf, PrunePCs

\* The batch of updatePoolBatch gives the row the status and the time of the newest check.
LEMMA UpdateStatus ==
    ASSUME TypeInv, TypeInv', StatusInv, NEW r \in Requests, UpdatePoolBatch(r), NEW ip \in IPs
    PROVE  StatusOf(r, ip)'
<1> DEFINE rows == Of(req[r].rows, ip)
<1>1. OneIngest /\ Timeline
  BY DEF StatusInv
<1>2. /\ req[r].pc = "update" /\ req'[r].pc \in {"done", "over"} /\ req'[r].rows = req[r].rows
      /\ UNCHANGED <<checks, now>>
  <2>1. PICK pc \in {"done", "over"} : Goto(r, pc)
    BY DEF UpdatePoolBatch
  <2>2. req'[r].pc = pc /\ req'[r].rows = req[r].rows
    BY <2>1, GoesOn
  <2> QED
    BY <2>2 DEF UpdatePoolBatch
<1>3. Ahead(ip, rows) /\ (Admitted(ip, rows) \/ Refused(ip, rows))
  BY <1>2 DEF StatusInv, StatusOf
<1>4. Ahead(ip, rows)'
  BY <1>2, <1>3 DEF Ahead
<1>5. Settled(ip)'
  <2>1. CASE Admitted(ip, rows)
    <3>1. pool'[ip].ok = Latest(rows).ok /\ pool'[ip].at = Latest(rows).ts
      BY <1>1, <2>1, BatchWrites DEF Admitted
    <3>2. \A h \in checks[ip] : h.ts <= Recorded(Latest(rows)).ts
      BY <1>3, <2>1 DEF Ahead, Admitted, Writes, Recorded
    <3>3. Newest(ip) = Recorded(Latest(rows))
      BY <1>1, <2>1, <3>2, NewestIs DEF Admitted
    <3> QED
      BY <1>2, <3>1, <3>2, <3>3 DEF Settled, Newest, Recorded
  <2>2. CASE Refused(ip, rows) /\ Writes(ip, rows)
    <3>1. pool'[ip].ok = Latest(rows).ok /\ pool'[ip].at = Latest(rows).ts
      BY <1>1, <2>2, BatchWrites
    <3>2. rows # {} /\ InPool(ip) /\ ~pool[ip].ok /\ Successes(rows) = {}
      BY <2>2 DEF Refused, Writes, GateOpen
    <3>3. ~Latest(rows).ok
      <4>1. Latest(rows) \in rows
        BY <1>1, <3>2, LatestOf
      <4> QED
        BY <3>2, <4>1 DEF Successes
    <3>4. \A h \in checks[ip] : h.ts <= Latest(rows).ts
      BY <1>3, <3>2 DEF Ahead
    <3>5. checks[ip] # {} => ~Newest(ip).ok
      BY <2>2, <3>2 DEF Refused, Settled
    <3>6. pool'[ip].ok \in BOOLEAN /\ (checks[ip] # {} => Newest(ip).ok \in BOOLEAN)
      <4>1. InPool(ip)'
        BY <1>1, <2>2, BatchWrites
      <4>2. pool'[ip] \in PoolRows
        BY <4>1 DEF TypeInv, TypeOK, InPool
      <4> QED
        BY <1>1, <4>2, RowsOf, NewestIs DEF PoolRows, HistoryRows
    <3> QED
      BY <1>2, <3>1, <3>3, <3>4, <3>5, <3>6 DEF Settled, Newest
  <2>3. CASE Refused(ip, rows) /\ ~Writes(ip, rows)
    <3>1. pool'[ip] = pool[ip] /\ Settled(ip)
      BY <1>1, <2>3, BatchWrites DEF Refused
    <3> QED
      BY <1>2, <3>1 DEF Settled, Newest, InPool
  <2> QED
    BY <1>3, <2>1, <2>2, <2>3
<1> QED
  BY <1>2, <1>4, <1>5 DEF StatusOf, PrunePCs

\* The four statements of pruneCheckHistory, or their failure, keep every row settled.
LEMMA PruneStatus ==
    ASSUME TypeInv, TypeInv', StatusInv, Timeline', NEW r \in Requests, NEW ip \in IPs,
           PruneSelectOver(r) \/ PruneDelete(r) \/ PruneSelectDead(r) \/ PruneEvict(r) \/ FailPrune(r)
    PROVE  StatusOf(r, ip)'
<1>0. OneIngest /\ Timeline /\ TypeOK
  BY DEF StatusInv, TypeInv
<1>1. req[r].pc \in PrunePCs
  BY DEF PruneSelectOver, PruneDelete, PruneSelectDead, PruneEvict, FailPrune, PrunePCs
<1>2. req'[r].pc \in PrunePCs \cup {"done"} /\ req'[r].rows = req[r].rows
  <2>1. PICK sel, pc : /\ pc \in {"delete", "dead", "evict", "done"}
                       /\ Goto(r, pc) \/ req' = [req EXCEPT ![r].sel = sel, ![r].pc = pc]
    BY DEF PruneSelectOver, PruneDelete, PruneSelectDead, PruneEvict, Select, FailPrune
  <2>2. CASE Goto(r, pc)
    BY <2>1, <2>2, GoesOn DEF PrunePCs
  <2>3. CASE req' = [req EXCEPT ![r].sel = sel, ![r].pc = pc]
    BY <2>1, <2>3, GoesOn DEF PrunePCs
  <2> QED
    BY <2>1, <2>2, <2>3
<1>3. Ahead(ip, Of(req[r].rows, ip)) /\ Settled(ip)
  <2>1. StatusOf(r, ip)
    BY <1>1 DEF StatusInv, PrunePCs
  <2> QED
    BY <1>1, <2>1 DEF StatusOf
<1>4. /\ checks'[ip] \subseteq checks[ip]
      /\ checks[ip] # {} => Newest(ip) \in checks'[ip]
      /\ InPool(ip)' => InPool(ip) /\ pool'[ip].ok = pool[ip].ok /\ pool'[ip].at = pool[ip].at
  <2>1. checks[ip] # {} => Newest(ip) \in checks[ip] /\ Newest(ip) \in Retained(checks[ip])
    BY <1>0, NewestIs, PruneKeepsNewest
  <2>2. InPool(ip) => pool[ip] \in PoolRows
    BY <1>0, Counts
  <2>3. CASE PruneDelete(r)
    BY <2>1, <2>2, <2>3 DEF PruneDelete, Retained, InPool, PoolRows
  <2>4. CASE PruneEvict(r)
    BY <2>1, <2>4 DEF PruneEvict, InPool
  <2>5. CASE PruneSelectOver(r) \/ PruneSelectDead(r) \/ FailPrune(r)
    BY <2>1, <2>5 DEF PruneSelectOver, PruneSelectDead, FailPrune, InPool, dbVars
  <2> QED
    BY <2>3, <2>4, <2>5
<1>5. Settled(ip)'
  BY <1>0, <1>3, <1>4, SettledKept
<1>6. Ahead(ip, Of(req[r].rows, ip))'
  BY <1>2, <1>3, <1>4 DEF Ahead
<1> QED
  BY <1>2, <1>5, <1>6 DEF StatusOf, PrunePCs

\* A check that a worker records is newer than everything, and time opens gates but closes
\* none: at most one check is buffered at a time that was not.
LEMMA TimeStatus ==
    ASSUME TypeInv, TypeInv', StatusInv, TimePasses,
           UNCHANGED <<dbVars, req, faults>>, NEW new \in SUBSET CheckRows,
           buf' = buf \cup new, \A c \in new : c.ts = now + 1, \A c, d \in new : c = d
    PROVE  StatusInv'
<1>0. OneIngest /\ Timeline /\ BufferNewer /\ now \in Nat /\ now' = now + 1
  BY StoreAssumption DEF StatusInv, TypeInv, TypeOK, Times, TimePasses
<1>1. UNCHANGED <<checks, pool, req, faults>>
  BY DEF dbVars
<1>2. OneIngest'
  BY <1>0, <1>1 DEF OneIngest
<1>3. Timeline'
  <2>1. SUFFICES ASSUME NEW ip \in IPs
                 PROVE  /\ \A g, h \in Known(ip)' : g.ts = h.ts => g = h
                        /\ \A h \in Known(ip)' : h.ts <= now + 1
                        /\ InPool(ip)' => pool'[ip].at <= now + 1
    BY <1>0 DEF Timeline
  <2>2. /\ \A g, h \in Known(ip) : g.ts = h.ts => g = h
        /\ \A h \in Known(ip) : h.ts <= now
        /\ InPool(ip) => pool[ip].at <= now
    BY <1>0 DEF Timeline
  <2>3. \A h \in Known(ip)' : h \in Known(ip) \/ \E c \in new : h = Recorded(c)
    BY <1>1 DEF Known, Of
  <2>4. \A h \in Known(ip) : h.ts \in Nat
    BY StoreAssumption DEF TypeInv, TypeOK, ReqRecords, Known, Recorded, Of, CheckRows, HistoryRows, Times
  <2>5. \A c \in new : Recorded(c).ts = now + 1
    BY DEF Recorded
  <2>6. InPool(ip) => pool[ip].at \in Nat
    BY Counts DEF TypeInv, PoolRows, Times
  <2>7. \A h \in Known(ip)' : h.ts <= now + 1
    BY <1>0, <2>2, <2>3, <2>4, <2>5
  <2>8. ASSUME NEW g \in Known(ip)', NEW h \in Known(ip)', g.ts = h.ts PROVE g = h
    <3>1. CASE g \in Known(ip) /\ h \in Known(ip)
      BY <2>2, <2>8, <3>1
    <3>2. CASE g \notin Known(ip) \/ h \notin Known(ip)
      BY <1>0, <2>2, <2>3, <2>4, <2>5, <2>8, <3>2
    <3> QED
      BY <3>1, <3>2
  <2>9. InPool(ip)' => pool'[ip].at <= now + 1
    BY <1>0, <1>1, <2>2, <2>6 DEF InPool
  <2> QED
    BY <2>7, <2>8, <2>9
<1>4. ASSUME NEW ip \in IPs
      PROVE  /\ \A h \in checks[ip] : h.ts < now + 1
             /\ InPool(ip) => pool[ip].at < now + 1
             /\ \A r \in Requests : \A d \in Of(req[r].rows, ip) : d.ts < now + 1
             /\ \A d \in Of(buf, ip) : d.ts < now + 1 /\ d.ts \in Nat
  <2>1. InPool(ip) => pool[ip].at \in Nat
    BY Counts DEF TypeInv, PoolRows, Times
  <2> QED
    BY <1>0, <2>1, RowsOf DEF Timeline, Times
<1>5. BufferNewer'
  <2>1. SUFFICES ASSUME NEW r \in Requests, req[r].pc # "idle", NEW c \in buf \cup new
                 PROVE  /\ \A h \in checks[c.ip] : h.ts < c.ts
                        /\ \A d \in req[r].rows : d.ts < c.ts
                        /\ InPool(c.ip) => pool[c.ip].at < c.ts
    BY <1>1 DEF BufferNewer, InPool
  <2>2. CASE c \in buf
    BY <1>0, <2>1, <2>2 DEF BufferNewer
  <2>3. CASE c \in new
    <3>1. c.ip \in IPs /\ c.ts = now + 1
      BY <2>3 DEF CheckRows
    <3>2. \A d \in req[r].rows : d.ip \in IPs /\ d \in Of(req[r].rows, d.ip)
      BY DEF TypeInv, TypeOK, ReqRecords, CheckRows, Of
    <3> QED
      BY <1>4, <3>1, <3>2
  <2> QED
    BY <2>2, <2>3
<1>6. ASSUME NEW ip \in IPs
      PROVE  /\ Settled(ip) => Settled(ip)'
             /\ GateOpen(ip) => GateOpen(ip)'
  <2>1. InPool(ip) => pool[ip].at \in Nat
    BY Counts DEF TypeInv, PoolRows, Times
  <2>2. GateOpen(ip) => GateOpen(ip)'
    BY <1>0, <1>1, <2>1, StoreAssumption DEF GateOpen, InPool
  <2> QED
    BY <1>1, <2>2 DEF Settled, Newest, InPool
<1>7. ASSUME AllIdle', NEW ip \in IPs
      PROVE  Ahead(ip, Of(buf, ip))' /\ (Settled(ip) \/ Writes(ip, Of(buf, ip)))'
  <2>1. Ahead(ip, Of(buf, ip)) /\ (Settled(ip) \/ Writes(ip, Of(buf, ip)))
    BY <1>1, <1>7 DEF AllIdle, StatusInv
  <2>2. Of(buf, ip) \subseteq Of(buf, ip)' /\ Of(buf, ip)' = Of(buf, ip) \cup Of(new, ip)
    BY DEF Of
  <2>3. Writes(ip, Of(buf, ip)) => Writes(ip, Of(buf, ip))'
    BY <1>6, <2>2 DEF Writes, Successes
  <2>4. Ahead(ip, Of(buf, ip))'
    <3>1. CASE Of(new, ip) = {}
      BY <1>1, <2>1, <2>2, <3>1 DEF Ahead
    <3>2. CASE Of(new, ip) # {}
      <4>1. PICK c \in Of(new, ip) : c.ts = now + 1
        BY <3>2 DEF Of
      <4>2. /\ Latest(Of(buf, ip)') \in Of(buf, ip)'
            /\ \A d \in Of(buf, ip)' : d.ts <= Latest(Of(buf, ip)').ts
        <5>1. \A d \in Of(buf, ip)' : d.ts \in Times
          BY DEF TypeInv, TypeOK, Of, CheckRows
        <5> QED
          BY <2>2, <4>1, <5>1, LatestRow
      <4>3. now + 1 <= Latest(Of(buf, ip)').ts /\ Latest(Of(buf, ip)').ts \in Nat
        BY <2>2, <4>1, <4>2 DEF TypeInv, TypeOK, Of, CheckRows, Times
      <4>4. \A h \in checks[ip] : h.ts <= Latest(Of(buf, ip)').ts
        BY <1>0, <1>4, <4>3, RowsOf DEF Times
      <4> QED
        BY <1>1, <4>4 DEF Ahead
    <3> QED
      BY <3>1, <3>2
  <2> QED
    BY <1>6, <2>1, <2>3, <2>4
<1>8. ASSUME NEW r \in Requests, req'[r].pc # "idle", NEW ip \in IPs PROVE StatusOf(r, ip)'
  <2>1. StatusOf(r, ip)
    BY <1>1, <1>8 DEF StatusInv
  <2>2. Ahead(ip, Of(req[r].rows, ip))'
    BY <1>1, <2>1 DEF StatusOf, Ahead
  <2>3. Writes(ip, Of(req[r].rows, ip)) => Writes(ip, Of(req[r].rows, ip))'
    BY <1>1, <1>6 DEF Writes
  <2>4. /\ Admitted(ip, Of(req[r].rows, ip)) => Admitted(ip, Of(req[r].rows, ip))'
        /\ Refused(ip, Of(req[r].rows, ip)) => Refused(ip, Of(req[r].rows, ip))'
    BY <1>1, <1>6, <2>3 DEF Admitted, Refused, InPool
  <2> QED
    BY <1>1, <1>6, <2>1, <2>2, <2>3, <2>4 DEF StatusOf
<1> QED
  BY <1>2, <1>3, <1>5, <1>7, <1>8 DEF StatusInv

\* The flusher sends what is buffered, when nothing else is under way.
LEMMA SubmitStatus ==
    ASSUME TypeInv, TypeInv', StatusInv, NEW r \in Requests, NEW prune \in SUBSET IPs, Submit(r, prune)
    PROVE  StatusInv' /\ AllIdle
<1>0. OneIngest /\ Timeline /\ BufferNewer /\ TypeOK
  BY DEF StatusInv, TypeInv
<1>1. AllIdle
  BY <1>0 DEF Submit, OneIngest, AllIdle
<1>2. /\ req'[r] = [pc |-> "insert", kind |-> "ingest", rows |-> buf,
                    prune |-> prune, sel |-> {}, zombie |-> FALSE]
      /\ \A q \in Requests \ {r} : req'[q] = req[q]
      /\ buf' = {} /\ UNCHANGED <<checks, pool, now, faults>>
  BY <1>0 DEF Submit, TypeOK, dbVars
<1>3. OneIngest'
  BY <1>0, <1>1, <1>2 DEF OneIngest, AllIdle, ProbePCs
<1>4. Timeline'
  <2>1. ASSUME NEW ip \in IPs, NEW h \in Known(ip)' PROVE h \in Known(ip)
    <3>1. CASE h \in checks'[ip]
      BY <1>2, <3>1 DEF Known
    <3>2. CASE \E c \in Of(buf', ip) : h = Recorded(c)
      BY <1>2, <3>2 DEF Of
    <3>3. CASE \E q \in Requests : \E c \in Of(req'[q].rows, ip) : h = Recorded(c)
      <4>1. PICK q \in Requests : \E c \in Of(req'[q].rows, ip) : h = Recorded(c)
        BY <3>3
      <4>2. CASE q = r
        BY <1>2, <4>1, <4>2 DEF Known
      <4>3. CASE q # r
        BY <1>2, <4>1, <4>3 DEF Known
      <4> QED
        BY <4>2, <4>3
    <3> QED
      BY <2>1, <3>1, <3>2, <3>3 DEF Known
  <2>2. now' >= now
    BY <1>0, <1>2, StoreAssumption DEF TypeOK, Times
  <2>3. \A ip \in IPs : InPool(ip)' => pool'[ip].at <= now'
    BY <1>0, <1>2 DEF Timeline, InPool
  <2> QED
    BY <1>0, <2>1, <2>2, <2>3, TimelineKept
<1>5. BufferNewer'
  BY <1>2 DEF BufferNewer
<1>6. ~AllIdle'
  BY <1>2 DEF AllIdle
<1>7. ASSUME NEW q \in Requests, req'[q].pc # "idle", NEW ip \in IPs PROVE StatusOf(q, ip)'
  <2>1. q = r
    BY <1>1, <1>2, <1>7 DEF AllIdle
  <2>2. Ahead(ip, Of(buf, ip)) /\ (Settled(ip) \/ Writes(ip, Of(buf, ip)))
    BY <1>1 DEF StatusInv
  <2>3. Of(req[r].rows, ip)' = Of(buf, ip) /\ req'[r].pc = "insert"
    BY <1>2
  <2>4. /\ Ahead(ip, Of(req[r].rows, ip))'
        /\ Settled(ip) => Settled(ip)'
        /\ Writes(ip, Of(buf, ip)) => Writes(ip, Of(req[r].rows, ip))'
    BY <1>2, <2>2, <2>3 DEF Ahead, Settled, Newest, InPool, Writes, GateOpen
  <2> QED
    BY <2>1, <2>2, <2>3, <2>4 DEF StatusOf, PrunePCs
<1> QED
  BY <1>1, <1>3, <1>4, <1>5, <1>6, <1>7 DEF StatusInv

\* A request that is answered, or one that fails and whose batch is put back: what is
\* buffered is now the next batch to arrive.
LEMMA EndStatus ==
    ASSUME TypeInv, TypeInv', StatusInv, NEW r \in Requests, Reply(r) \/ FailIngest(r)
    PROVE  StatusInv'
<1>0. OneIngest /\ Timeline /\ BufferNewer /\ TypeOK
  BY DEF StatusInv, TypeInv
<1>1. /\ req[r].pc # "idle" /\ req'[r] = NoReq /\ \A q \in Requests \ {r} : req'[q] = req[q]
      /\ UNCHANGED <<checks, pool, now>> /\ faults'["zombie"] = faults["zombie"]
      /\ \/ buf' = buf /\ req[r].pc = "done"
         \/ buf' = buf \cup req[r].rows
  <2>1. CASE Reply(r)
    BY <1>0, <2>1 DEF Reply, TypeOK, dbVars
  <2>2. CASE FailIngest(r)
    BY <1>0, <2>2 DEF FailIngest, Fault, OneIngest, TypeOK, dbVars
  <2> QED
    BY <2>1, <2>2
<1>2. OneIngest' /\ AllIdle'
  BY <1>0, <1>1 DEF OneIngest, NoReq, ProbePCs, AllIdle
<1>3. Timeline'
  <2>1. ASSUME NEW ip \in IPs, NEW h \in Known(ip)' PROVE h \in Known(ip)
    <3>1. CASE h \in checks'[ip]
      BY <1>1, <3>1 DEF Known
    <3>2. CASE \E c \in Of(buf', ip) : h = Recorded(c)
      BY <1>1, <3>2 DEF Of, Known
    <3>3. CASE \E q \in Requests : \E c \in Of(req'[q].rows, ip) : h = Recorded(c)
      <4>1. PICK q \in Requests : \E c \in Of(req'[q].rows, ip) : h = Recorded(c)
        BY <3>3
      <4>2. q # r
        BY <1>1, <4>1 DEF NoReq, Of
      <4> QED
        BY <1>1, <4>1, <4>2 DEF Known
    <3> QED
      BY <2>1, <3>1, <3>2, <3>3 DEF Known
  <2>2. now' >= now
    BY <1>0, <1>1, StoreAssumption DEF TypeOK, Times
  <2>3. \A ip \in IPs : InPool(ip)' => pool'[ip].at <= now'
    BY <1>0, <1>1 DEF Timeline, InPool
  <2> QED
    BY <1>0, <2>1, <2>2, <2>3, TimelineKept
<1>4. BufferNewer'
  BY <1>2 DEF AllIdle, BufferNewer
<1>5. ASSUME NEW ip \in IPs
      PROVE  Ahead(ip, Of(buf, ip))' /\ (Settled(ip) \/ Writes(ip, Of(buf, ip)))'
  <2> DEFINE rows == Of(req[r].rows, ip)
  <2>1. StatusOf(r, ip)
    BY <1>1 DEF StatusInv
  <2>2. Settled(ip) => Settled(ip)'
    BY <1>1 DEF Settled, Newest, InPool
  <2>3. \A c \in Of(buf, ip) : \A h \in checks[ip] : h.ts < c.ts
    BY <1>0, <1>1 DEF BufferNewer, Of
  <2>4. Of(buf, ip)' \subseteq Of(buf, ip) \cup rows
    BY <1>1 DEF Of
  <2>5. ASSUME Of(buf, ip)' # {}
        PROVE  /\ Latest(Of(buf, ip)') \in Of(buf, ip)'
               /\ \A d \in Of(buf, ip)' : d.ts <= Latest(Of(buf, ip)').ts /\ d.ts \in Nat
    <3>1. \A d \in Of(buf, ip)' : d.ts \in Times
      BY DEF TypeInv, TypeOK, Of, CheckRows
    <3> QED
      BY <2>5, <3>1, LatestRow DEF Times
  <2>6. Ahead(ip, Of(buf, ip))'
    <3>1. SUFFICES ASSUME Of(buf, ip)' # {}, NEW h \in checks[ip]
                   PROVE  h.ts <= Latest(Of(buf, ip)').ts
      BY <1>1 DEF Ahead
    <3>2. h.ts \in Nat
      BY <1>0, RowsOf DEF Times
    <3>3. PICK d \in Of(buf, ip)' : h.ts <= d.ts
      <4>1. CASE Of(buf, ip) # {}
        <5>1. PICK c \in Of(buf, ip) : TRUE
          BY <4>1
        <5>2. c \in Of(buf, ip)' /\ c.ts \in Nat
          BY <1>1, <5>1 DEF Of, TypeInv, TypeOK, CheckRows, Times
        <5>3. h.ts < c.ts
          BY <2>3, <5>1
        <5> QED
          BY <3>2, <5>2, <5>3
      <4>2. CASE Of(buf, ip) = {}
        <5>1. Of(buf, ip)' = rows
          BY <1>1, <3>1, <4>2 DEF Of
        <5>2. Latest(rows) \in rows /\ h.ts <= Latest(rows).ts
          BY <1>0, <2>1, <3>1, <5>1, LatestOf DEF StatusOf, Ahead
        <5> QED
          BY <5>1, <5>2
      <4> QED
        BY <4>1, <4>2
    <3> QED
      BY <2>5, <3>1, <3>2, <3>3
  <2>7. Settled(ip) \/ Writes(ip, rows)
    <3>1. req[r].pc \in {"insert", "update"} \cup PrunePCs \cup {"done"}
      BY <1>0, <1>1 DEF TypeOK, ReqRecords, PCs, IngestPCs, OneIngest
    <3> QED
      BY <2>1, <3>1 DEF StatusOf, PrunePCs, Admitted, Refused
  <2>8. ASSUME ~Settled(ip) PROVE Writes(ip, Of(buf, ip))'
    <3>1. req[r].pc # "done" /\ Writes(ip, rows)
      BY <2>1, <2>7, <2>8 DEF StatusOf
    <3>2. rows \subseteq Of(buf, ip)'
      BY <1>1, <3>1 DEF Of
    <3>3. GateOpen(ip)' = GateOpen(ip)
      BY <1>1 DEF GateOpen, InPool
    <3> QED
      BY <3>1, <3>2, <3>3 DEF Writes, Successes
  <2> QED
    BY <2>2, <2>6, <2>8
<1> QED
  BY <1>2, <1>3, <1>4, <1>5 DEF StatusInv, AllIdle

\* A step that changes neither a check nor the status or time of a row, nor a request.
LEMMA FrameStatus ==
    ASSUME TypeInv, TypeInv', StatusInv, UNCHANGED <<checks, now, buf, req, faults>>,
           \A ip \in IPs : /\ InPool(ip)' <=> InPool(ip)
                           /\ InPool(ip) => pool'[ip].ok = pool[ip].ok /\ pool'[ip].at = pool[ip].at
    PROVE  StatusInv'
<1>0. OneIngest /\ Timeline /\ BufferNewer
  BY DEF StatusInv
<1>1. OneIngest'
  BY <1>0 DEF OneIngest
<1>2. Timeline'
  BY <1>0 DEF Timeline, Known
<1>3. BufferNewer'
  <2>1. \A c \in buf : c.ip \in IPs
    BY DEF TypeInv, TypeOK, CheckRows
  <2> QED
    BY <1>0, <2>1 DEF BufferNewer
<1>4. ASSUME NEW ip \in IPs
      PROVE  /\ Settled(ip) => Settled(ip)'
             /\ GateOpen(ip)' <=> GateOpen(ip)
  BY <1>4 DEF Settled, Newest, GateOpen
<1>5. ASSUME AllIdle', NEW ip \in IPs
      PROVE  Ahead(ip, Of(buf, ip))' /\ (Settled(ip) \/ Writes(ip, Of(buf, ip)))'
  <2>1. Ahead(ip, Of(buf, ip)) /\ (Settled(ip) \/ Writes(ip, Of(buf, ip)))
    BY <1>5 DEF AllIdle, StatusInv
  <2> QED
    BY <1>4, <2>1 DEF Ahead, Writes
<1>6. ASSUME NEW r \in Requests, req'[r].pc # "idle", NEW ip \in IPs PROVE StatusOf(r, ip)'
  <2>1. StatusOf(r, ip)
    BY <1>6 DEF StatusInv
  <2>2. Writes(ip, Of(req[r].rows, ip))' <=> Writes(ip, Of(req[r].rows, ip))
    BY <1>4 DEF Writes
  <2>3. InPool(ip) => pool'[ip].ok = pool[ip].ok
    OBVIOUS
  <2> QED
    BY <1>4, <2>1, <2>2, <2>3 DEF StatusOf, Ahead, Admitted, Refused
<1> QED
  BY <1>1, <1>2, <1>3, <1>5, <1>6 DEF StatusInv

\* Every step of the scanner's requests keeps the invariant.
LEMMA StatusStep ==
    ASSUME TypeInv, TypeInv', StatusInv, ScannerOnly, [Next]_vars
    PROVE  StatusInv'
<1>0. OneIngest /\ Timeline /\ TypeOK
  BY DEF StatusInv, TypeInv
<1>1. ASSUME NEW ip \in IPs, NEW ok \in BOOLEAN, Scan(ip, ok) PROVE StatusInv'
  <2> DEFINE c == [ip |-> ip, ts |-> now + 1, ok |-> ok]
  <2>1. c \in CheckRows
    BY <1>0, <1>1, StoreAssumption DEF Scan, TimePasses, TypeOK, Times, CheckRows
  <2>2. TimePasses /\ UNCHANGED <<dbVars, req, faults>> /\ buf' = buf \cup {c}
    BY <1>1 DEF Scan
  <2>3. {c} \in SUBSET CheckRows /\ (\A d \in {c} : d.ts = now + 1) /\ \A d, e \in {c} : d = e
    BY <2>1
  <2> HIDE DEF c
  <2> QED
    BY <2>2, <2>3, TimeStatus
<1>2. CASE Tick
  <2>1. TimePasses /\ UNCHANGED <<dbVars, req, faults>> /\ buf' = buf \cup {}
    BY <1>2 DEF Tick
  <2>2. {} \in SUBSET CheckRows /\ (\A d \in {} : d.ts = now + 1) /\ \A d, e \in {} : d = e
    OBVIOUS
  <2> QED
    BY <2>1, <2>2, TimeStatus
<1>3. ASSUME NEW r \in Requests, NEW prune \in SUBSET IPs, Submit(r, prune) PROVE StatusInv'
  BY <1>3, SubmitStatus
<1>4. ASSUME NEW r \in Requests,
             \/ InsertCheckRows(r) \/ UpdatePoolBatch(r) \/ PruneSelectOver(r) \/ PruneDelete(r)
             \/ PruneSelectDead(r) \/ PruneEvict(r) \/ FailPrune(r)
      PROVE  StatusInv'
  <2>1. Proceeds(r)
    BY <1>0, <1>4, StatementProceeds
  <2>2. ASSUME NEW ip \in IPs PROVE StatusOf(r, ip)'
    <3>1. CASE InsertCheckRows(r)
      BY <3>1, InsertStatus
    <3>2. CASE UpdatePoolBatch(r)
      BY <3>2, UpdateStatus
    <3>3. CASE PruneSelectOver(r) \/ PruneDelete(r) \/ PruneSelectDead(r) \/ PruneEvict(r) \/ FailPrune(r)
      BY <1>0, <2>1, <3>3, PruneStatus, ProceedsTimeline
    <3> QED
      BY <1>4, <3>1, <3>2, <3>3
  <2> QED
    BY <2>1, <2>2, StatusSlot
<1>5. ASSUME NEW r \in Requests, Reply(r) \/ FailIngest(r) PROVE StatusInv'
  BY <1>5, EndStatus
<1>6. ASSUME NEW i \in IPs, SavePTR(i) PROVE StatusInv'
  <2>1. UNCHANGED <<checks, now, buf, req, faults>>
    BY <1>6 DEF SavePTR
  <2>2. ASSUME NEW ip \in IPs
        PROVE  /\ InPool(ip)' <=> InPool(ip)
               /\ InPool(ip) => pool'[ip].ok = pool[ip].ok /\ pool'[ip].at = pool[ip].at
    <3>1. InPool(ip) => pool[ip] \in PoolRows /\ Stamped(pool[ip]) \in PoolRows
      BY <1>0, Counts, StampedType
    <3>2. InPool(ip) => Stamped(pool[ip]).ok = pool[ip].ok /\ Stamped(pool[ip]).at = pool[ip].at
      BY <3>1 DEF Stamped, PoolRows
    <3> QED
      BY <1>6, <3>1, <3>2, StoreNoRowAssumption DEF SavePTR, InPool
  <2> QED
    BY <2>1, <2>2, FrameStatus
<1>7. CASE UNCHANGED vars
  <2>1. UNCHANGED <<checks, pool, now, buf, req, faults>>
    BY <1>7 DEF vars, dbVars
  <2> QED
    BY <2>1, FrameStatus DEF InPool
<1> QED
  BY <1>0, <1>1, <1>2, <1>3, <1>4, <1>5, <1>6, <1>7, ScannerStep

\* The invariant holds in every state the scanner's requests reach.
LEMMA StatusInvariant ==
    ASSUME ScannerOnly
    PROVE  Spec => []StatusInv
<1>1. Init => StatusInv
  <2>1. SUFFICES ASSUME Init PROVE StatusInv
    OBVIOUS
  <2>2. OneIngest
    BY <2>1 DEF Init, OneIngest, NoReq, ProbePCs
  <2>3. Timeline /\ BufferNewer
    BY <2>1 DEF Init, Timeline, BufferNewer, Known, Of, NoReq, InPool
  <2>4. \A ip \in IPs : Ahead(ip, Of(buf, ip)) /\ Settled(ip)
    BY <2>1 DEF Init, Ahead, Of, Settled, InPool
  <2> QED
    BY <2>1, <2>2, <2>3, <2>4 DEF Init, StatusInv, NoReq
<1>2. TypeInv /\ TypeInv' /\ StatusInv /\ [Next]_vars => StatusInv'
  BY StatusStep
<1> QED
  BY <1>1, <1>2, TypeInvariant, PTL DEF Spec

\* With the scanner as the only writer, a row's status is that of the newest check, whatever
\* batches failed at whatever statement and were sent again: a batch that is repeated is
\* still the newest to arrive, and the row that is not settled is one it writes.  Time may
\* pass between the two gates of an ingest.
THEOREM StatusNewestSafe ==
    ASSUME ScannerOnly
    PROVE  Spec => []StatusIsNewest
<1>1. StatusInv => StatusIsNewest
  <2>1. SUFFICES ASSUME StatusInv, Quiet, NEW ip \in IPs, InPool(ip), checks[ip] # {}
                 PROVE  pool[ip].ok = Newest(ip).ok
    BY DEF StatusIsNewest
  <2>2. Settled(ip) \/ Writes(ip, Of(buf, ip))
    BY <2>1 DEF StatusInv, Quiet, AllIdle
  <2>3. Of(buf, ip) = {}
    BY <2>1 DEF Quiet, Of
  <2> QED
    BY <2>1, <2>2, <2>3 DEF Settled, Writes
<1> QED
  BY <1>1, StatusInvariant, PTL

-----------------------------------------------------------------------------
(* With the scanner as the only writer: the count of checks                *)

\* history_count covers what was recorded up to last_checked_at
Covered(ip) ==
    InPool(ip) => Cardinality({h \in checks[ip] : h.ts <= pool[ip].at}) <= pool[ip].cnt

\* what the batch would insert and last_checked_at has passed is there already
Kept(ip, rows) ==
    InPool(ip) => \A c \in Coalesced(rows) : c.ts <= pool[ip].at => Recorded(c) \in checks[ip]

\* each repetition adds at most one check that is newer than the batch's last success
Lags(ip, rows, n) ==
    Successes(rows) # {} =>
      Cardinality({h \in checks[ip] : h.ts > Latest(Successes(rows)).ts}) <= n

\* How far the request in slot r has got with ip.
CountOf(r, ip) ==
    LET rows == Of(req[r].rows, ip)
    IN /\ \/ Kept(ip, rows)
          \/ req[r].pc \in PrunePCs \cup {"done"} /\ faults["retry"] >= MaxRetries
       /\ Lags(ip, rows, IF req[r].pc = "insert" THEN faults["retry"] ELSE faults["retry"] + 1)
       /\ req[r].pc = "update" /\ Writes(ip, rows) =>
            \A c \in Coalesced(rows) : Recorded(c) \in checks[ip]

CountInv ==
    /\ \A ip \in IPs : Covered(ip)
    /\ AllIdle => \A ip \in IPs : Kept(ip, Of(buf, ip)) /\ Lags(ip, Of(buf, ip), faults["retry"])
    /\ \A r \in Requests : req[r].pc # "idle" => \A ip \in IPs : CountOf(r, ip)

\* A part of a history has no more checks than the whole.
LEMMA PartCount ==
    ASSUME NEW S \in SUBSET HistoryRows, NEW P \in SUBSET S
    PROVE  /\ Cardinality(P) \in Nat /\ Cardinality(S) \in Nat
           /\ Cardinality(P) <= Cardinality(S)
<1>1. IsFiniteSet(S)
  BY HistoryFinite
<1> QED
  BY <1>1, HistoryFinite, FS_Subset

\* Where nothing is newer, the count of newer checks is 0.
LEMMA NoneNewer ==
    ASSUME NEW S, NEW t \in Nat, \A h \in S : h.ts \in Nat /\ h.ts <= t
    PROVE  Cardinality({h \in S : h.ts > t}) = 0
<1>1. {h \in S : h.ts > t} = {}
  OBVIOUS
<1> QED
  BY <1>1, FS_EmptySet

\* The rows coalesceCheckRows keeps of rows of one address.
LEMMA CoalescedOne ==
    ASSUME NEW rows, NEW ip, \A c \in rows : c.ip = ip
    PROVE  Coalesced(rows) = {c \in rows : c = Latest(rows) \/ (c.ok /\ c = Latest(Successes(rows)))}
<1>1. \A c \in rows : Of(rows, c.ip) = rows
  BY DEF Of
<1> QED
  BY <1>1 DEF Coalesced

\* A larger batch, by checks that are newer than the history and than last_checked_at, lags
\* no more than the one it replaces and has no more to lose.
LEMMA LargerBatch ==
    ASSUME NEW ip, NEW S, NEW P \in SUBSET S, NEW n \in Nat,
           \A c \in S : c.ip = ip /\ c.ts \in Times, Distinct(S),
           \A h \in checks[ip] : h.ts \in Times,
           InPool(ip) => pool[ip].at \in Times,
           \A c \in S \ P : /\ \A h \in checks[ip] : h.ts < c.ts
                            /\ InPool(ip) => pool[ip].at < c.ts,
           Kept(ip, P), Lags(ip, P, n)
    PROVE  Kept(ip, S) /\ Lags(ip, S, n)
<1>1. /\ Coalesced(S) = {c \in S : c = Latest(S) \/ (c.ok /\ c = Latest(Successes(S)))}
      /\ Coalesced(P) = {c \in P : c = Latest(P) \/ (c.ok /\ c = Latest(Successes(P)))}
  BY CoalescedOne
<1>2. ASSUME NEW A \in SUBSET S, NEW B \in SUBSET A, Latest(A) \in B
      PROVE  Latest(B) = Latest(A)
  <2>1. \A d \in A : d.ts <= Latest(A).ts
    BY <1>2, LatestRow
  <2>2. (\A c \in B : c.ts \in Times) /\ Distinct(B)
    BY DEF Distinct
  <2> QED
    BY <1>2, <2>1, <2>2, LatestIs
<1>3. Successes(P) \in SUBSET Successes(S) /\ Successes(S) \in SUBSET S
  BY DEF Successes
<1>4. Kept(ip, S)
  <2>1. SUFFICES ASSUME InPool(ip), NEW c \in Coalesced(S), c.ts <= pool[ip].at
                 PROVE  Recorded(c) \in checks[ip]
    BY DEF Kept
  <2>2. c \in P
    BY <1>1, <2>1 DEF Times
  <2>3. c \in Coalesced(P)
    <3>1. CASE c = Latest(S)
      BY <1>1, <1>2, <2>2, <3>1
    <3>2. CASE c.ok /\ c = Latest(Successes(S))
      <4>1. c \in Successes(P)
        BY <2>2, <3>2 DEF Successes
      <4>2. Latest(Successes(P)) = c
        BY <1>2, <1>3, <3>2, <4>1
      <4> QED
        BY <1>1, <2>2, <3>2, <4>2
    <3> QED
      BY <1>1, <2>1, <3>1, <3>2
  <2> QED
    BY <2>1, <2>3 DEF Kept
<1>5. Lags(ip, S, n)
  <2>1. SUFFICES ASSUME Successes(S) # {}
                 PROVE  Cardinality({h \in checks[ip] : h.ts > Latest(Successes(S)).ts}) <= n
    BY DEF Lags
  <2>2. Latest(Successes(S)) \in Successes(S)
    <3>1. \A c \in Successes(S) : c.ts \in Times
      BY <1>3
    <3> QED
      BY <2>1, <3>1, LatestRow
  <2>3. CASE Latest(Successes(S)) \in P
    <3>1. Latest(Successes(S)) \in Successes(P)
      BY <2>2, <2>3 DEF Successes
    <3>2. Latest(Successes(P)) = Latest(Successes(S))
      BY <1>2, <1>3, <3>1
    <3> QED
      BY <3>1, <3>2 DEF Lags
  <2>4. CASE Latest(Successes(S)) \notin P
    <3>1. Latest(Successes(S)) \in S \ P
      BY <1>3, <2>2, <2>4
    <3>2. \A h \in checks[ip] : h.ts <= Latest(Successes(S)).ts /\ h.ts \in Nat
      BY <3>1 DEF Times
    <3>3. Cardinality({h \in checks[ip] : h.ts > Latest(Successes(S)).ts}) = 0
      BY <3>1, <3>2, NoneNewer DEF Times
    <3> QED
      BY <3>3
  <2> QED
    BY <2>3, <2>4
<1> QED
  BY <1>4, <1>5

\* The INSERT of an ingest adds, of what last_checked_at has passed, nothing new, and of
\* what is newer than the batch's last success, one check.
LEMMA InsertCount ==
    ASSUME TypeInv, TypeInv', StatusInv, CountInv, NEW r \in Requests, InsertCheckRows(r), NEW ip \in IPs
    PROVE  Covered(ip)' /\ CountOf(r, ip)'
<1> DEFINE rows == Of(req[r].rows, ip)
           kept == Of(Coalesced(req[r].rows), ip)
<1>0. OneIngest /\ Timeline /\ TypeOK
  BY DEF StatusInv, TypeInv
<1>1. /\ req[r].pc = "insert" /\ req'[r].pc = "update" /\ req'[r].rows = req[r].rows
      /\ UNCHANGED <<pool, now, faults>>
  BY GoesOn DEF InsertCheckRows
<1>2. /\ Covered(ip) /\ Kept(ip, rows) /\ Lags(ip, rows, faults["retry"])
      /\ faults["retry"] \in Nat
  BY <1>0, <1>1 DEF CountInv, CountOf, PrunePCs, TypeOK
<1>3. /\ kept \subseteq rows
      /\ rows # {} => Latest(rows) \in kept
      /\ IF Writes(ip, rows) THEN checks'[ip] = checks[ip] \cup {Recorded(c) : c \in kept}
                             ELSE checks'[ip] = checks[ip]
  BY <1>0, Inserts
<1>4. kept = Coalesced(rows) /\ kept = {c \in rows : c = Latest(rows) \/ (c.ok /\ c = Latest(Successes(rows)))}
  <2>1. kept = {c \in rows : c = Latest(rows) \/ (c.ok /\ c = Latest(Successes(rows)))}
    BY <1>0, CoalescedOf DEF TypeOK, ReqRecords
  <2>2. \A c \in rows : c.ip = ip
    BY DEF Of
  <2> QED
    BY <2>1, <2>2, CoalescedOne
<1>5. /\ checks[ip] \in SUBSET HistoryRows /\ checks'[ip] \in SUBSET HistoryRows
      /\ checks[ip] \subseteq checks'[ip]
  BY <1>3 DEF TypeInv, TypeOK
<1>6. Covered(ip)'
  <2>1. SUFFICES ASSUME InPool(ip)
                 PROVE  Cardinality({h \in checks'[ip] : h.ts <= pool[ip].at}) <= pool[ip].cnt
    BY <1>1 DEF Covered, InPool
  <2>2. {h \in checks'[ip] : h.ts <= pool[ip].at} = {h \in checks[ip] : h.ts <= pool[ip].at}
    BY <1>2, <1>3, <1>4, <1>5, <2>1 DEF Kept, Recorded
  <2> QED
    BY <1>2, <2>1, <2>2 DEF Covered
<1>7. Kept(ip, rows)'
  BY <1>1, <1>2, <1>5 DEF Kept, InPool
<1>8. Lags(ip, rows, faults["retry"] + 1)'
  <2> DEFINE t == Latest(Successes(rows)).ts
             before == {h \in checks[ip] : h.ts > t}
             after == {h \in checks'[ip] : h.ts > t}
  <2>1. SUFFICES ASSUME Successes(rows) # {}
                 PROVE  Cardinality(after) <= faults["retry"] + 1
    BY <1>1 DEF Lags
  <2>2. Cardinality(before) <= faults["retry"]
    BY <1>2, <2>1 DEF Lags
  <2>3. after \subseteq before \cup {Recorded(Latest(rows))}
    <3>1. \A c \in kept : c = Latest(rows) \/ Recorded(c).ts = t
      BY <1>4 DEF Recorded
    <3>2. Latest(Successes(rows)) \in Successes(rows) /\ Successes(rows) \subseteq rows
      BY <1>0, <2>1, LatestOf DEF Successes
    <3>3. t \in Nat
      BY <1>0, <3>2, RowsOf DEF Times
    <3> QED
      BY <1>3, <3>1, <3>3
  <2>4. IsFiniteSet(before) /\ Cardinality(before) \in Nat
    BY <1>5, HistoryFinite
  <2> HIDE DEF before, after
  <2>5. /\ IsFiniteSet(before \cup {Recorded(Latest(rows))})
        /\ Cardinality(before \cup {Recorded(Latest(rows))}) <= Cardinality(before) + 1
        /\ Cardinality(before \cup {Recorded(Latest(rows))}) \in Nat
    BY <2>4, FS_AddElement
  <2>6. Cardinality(after) <= Cardinality(before \cup {Recorded(Latest(rows))}) /\ Cardinality(after) \in Nat
    BY <2>3, <2>5, FS_Subset, FS_CardinalityType
  <2> QED
    BY <1>2, <2>2, <2>4, <2>5, <2>6
<1>9. Writes(ip, rows)' => \A c \in Coalesced(rows) : Recorded(c) \in checks'[ip]
  <2>1. Writes(ip, rows)' = Writes(ip, rows)
    BY <1>1 DEF Writes, GateOpen, InPool
  <2> QED
    BY <1>3, <1>4, <2>1
<1> QED
  BY <1>1, <1>6, <1>7, <1>8, <1>9 DEF CountOf

\* The batch of updatePoolBatch counts what is newer than the row's last_checked_at.
LEMMA UpdateCount ==
    ASSUME TypeInv, TypeInv', StatusInv, CountInv, NEW r \in Requests, UpdatePoolBatch(r), NEW ip \in IPs
    PROVE  Covered(ip)' /\ CountOf(r, ip)'
<1> DEFINE rows == Of(req[r].rows, ip)
<1>0. OneIngest /\ Timeline /\ TypeOK
  BY DEF StatusInv, TypeInv
<1>1. /\ req[r].pc = "update" /\ req'[r].pc \in {"done", "over"} /\ req'[r].rows = req[r].rows
      /\ UNCHANGED <<checks, now, faults>>
  <2>1. PICK pc \in {"done", "over"} : Goto(r, pc)
    BY DEF UpdatePoolBatch
  <2>2. req'[r].pc = pc /\ req'[r].rows = req[r].rows
    BY <2>1, GoesOn
  <2> QED
    BY <2>2 DEF UpdatePoolBatch
<1>2. /\ Covered(ip) /\ Kept(ip, rows) /\ Lags(ip, rows, faults["retry"] + 1)
      /\ Writes(ip, rows) => \A c \in Coalesced(rows) : Recorded(c) \in checks[ip]
      /\ Ahead(ip, rows)
  BY <1>1 DEF CountInv, CountOf, PrunePCs, StatusInv, StatusOf
<1>3. checks[ip] \in SUBSET HistoryRows
  BY <1>0 DEF TypeOK
<1>4. Lags(ip, rows, faults["retry"] + 1)'
  BY <1>1, <1>2 DEF Lags
<1>5. CASE Writes(ip, rows)
  <2>1. /\ pool'[ip].at = Latest(rows).ts
        /\ pool'[ip].cnt = IF InPool(ip) THEN Recount(ip) ELSE Cardinality(checks[ip])
    BY <1>0, <1>5, BatchWrites
  <2>2. {h \in checks[ip] : h.ts <= pool'[ip].at} = checks[ip]
    BY <1>2, <1>5, <2>1 DEF Ahead, Writes
  <2>3. Cardinality(checks[ip]) <= pool'[ip].cnt
    <3>1. CASE ~InPool(ip)
      BY <1>0, <2>1, <3>1, Counts
    <3>2. CASE InPool(ip)
      <4> DEFINE old == {h \in checks[ip] : h.ts <= pool[ip].at}
                 new == {h \in checks[ip] : h.ts > pool[ip].at}
      <4>1. pool[ip].at \in Nat /\ pool[ip].cnt \in Nat
        BY <1>0, <3>2, Counts DEF PoolRows, Times
      <4>2. checks[ip] = old \cup new
        BY <1>0, <4>1, RowsOf DEF Times
      <4>3. /\ IsFiniteSet(old) /\ Cardinality(old) \in Nat
            /\ IsFiniteSet(new) /\ Cardinality(new) \in Nat
        BY <1>3, HistoryFinite
      <4>4. old \cap new = {}
        BY <1>0, <4>1, RowsOf DEF Times
      <4>5. Cardinality(old) <= pool[ip].cnt
        BY <1>2, <3>2 DEF Covered
      <4>6. pool'[ip].cnt = pool[ip].cnt + Cardinality(new)
        BY <2>1, <3>2 DEF Recount
      <4> HIDE DEF old, new
      <4>7. Cardinality(checks[ip]) = Cardinality(old) + Cardinality(new)
        <5>1. Cardinality(old \cup new) = Cardinality(old) + Cardinality(new) - Cardinality(old \cap new)
          BY <4>3, FS_Union
        <5>2. Cardinality(old \cap new) = 0
          BY <4>4, FS_EmptySet
        <5> QED
          BY <4>2, <4>3, <5>1, <5>2
      <4> QED
        BY <4>1, <4>3, <4>5, <4>6, <4>7
    <3> QED
      BY <3>1, <3>2
  <2>4. Covered(ip)'
    BY <1>1, <2>2, <2>3 DEF Covered
  <2>5. Kept(ip, rows)'
    BY <1>1, <1>2, <1>5 DEF Kept
  <2> QED
    BY <1>1, <1>4, <2>4, <2>5 DEF CountOf
<1>6. CASE ~Writes(ip, rows)
  <2>1. pool'[ip] = pool[ip]
    BY <1>0, <1>6, BatchWrites
  <2>2. Covered(ip)' /\ Kept(ip, rows)'
    BY <1>1, <1>2, <2>1 DEF Covered, Kept, InPool
  <2> QED
    BY <1>1, <1>4, <2>2 DEF CountOf
<1> QED
  BY <1>5, <1>6

\* Pruning recounts what it leaves, and leaves what a batch that can still be repeated would
\* insert again: of its rows, fewer checks are newer than are retained.
LEMMA PruneCount ==
    ASSUME TypeInv, TypeInv', StatusInv, CountInv, MaxRetries < Retention,
           NEW r \in Requests, NEW ip \in IPs,
           PruneSelectOver(r) \/ PruneDelete(r) \/ PruneSelectDead(r) \/ PruneEvict(r) \/ FailPrune(r)
    PROVE  Covered(ip)' /\ CountOf(r, ip)'
<1> DEFINE rows == Of(req[r].rows, ip)
           retry == faults["retry"]
<1>0. OneIngest /\ Timeline /\ TypeOK
  BY DEF StatusInv, TypeInv
<1>1. /\ req[r].pc \in PrunePCs /\ req'[r].pc \in PrunePCs \cup {"done"} /\ req'[r].rows = req[r].rows
  <2>1. PICK sel, pc : /\ pc \in {"delete", "dead", "evict", "done"}
                       /\ Goto(r, pc) \/ req' = [req EXCEPT ![r].sel = sel, ![r].pc = pc]
    BY DEF PruneSelectOver, PruneDelete, PruneSelectDead, PruneEvict, Select, FailPrune
  <2>2. req'[r].pc = pc /\ req'[r].rows = req[r].rows
    <3>1. CASE Goto(r, pc)
      BY <3>1, GoesOn
    <3>2. CASE req' = [req EXCEPT ![r].sel = sel, ![r].pc = pc]
      BY <3>2, GoesOn
    <3> QED
      BY <2>1, <3>1, <3>2
  <2>3. req[r].pc \in PrunePCs
    BY DEF PruneSelectOver, PruneDelete, PruneSelectDead, PruneEvict, FailPrune, PrunePCs
  <2> QED
    BY <2>1, <2>2, <2>3 DEF PrunePCs
<1>2. /\ Covered(ip) /\ (Kept(ip, rows) \/ retry >= MaxRetries) /\ Lags(ip, rows, retry + 1)
      /\ Ahead(ip, rows) /\ retry \in Nat
  <2>1. CountOf(r, ip) /\ StatusOf(r, ip)
    BY <1>1 DEF CountInv, StatusInv, PrunePCs
  <2>2. req[r].pc # "insert" /\ Covered(ip) /\ retry \in Nat
    BY <1>0, <1>1 DEF PrunePCs, CountInv, TypeOK
  <2>3. Kept(ip, rows) \/ retry >= MaxRetries
    BY <2>1 DEF CountOf
  <2>4. Lags(ip, rows, retry + 1)
    BY <2>1, <2>2 DEF CountOf
  <2> QED
    BY <2>1, <2>2, <2>3, <2>4 DEF StatusOf
<1>3. SUFFICES Covered(ip)' /\ Lags(ip, rows, retry + 1)' /\ (Kept(ip, rows)' \/ retry >= MaxRetries)
               /\ faults'["retry"] = retry
  BY <1>1 DEF CountOf, PrunePCs
<1>4. CASE PruneDelete(r) /\ ip \in req[r].sel
  <2>1. /\ checks'[ip] = Retained(checks[ip]) /\ checks'[ip] \subseteq checks[ip]
        /\ checks'[ip] \in SUBSET HistoryRows /\ checks[ip] \in SUBSET HistoryRows
        /\ faults' = faults
    BY <1>0, <1>4 DEF PruneDelete, Retained, TypeInv, TypeOK
  <2>2. InPool(ip)' => InPool(ip) /\ pool'[ip].at = pool[ip].at /\ pool'[ip].cnt = Cardinality(checks'[ip])
    <3>1. InPool(ip) => pool[ip] \in PoolRows
      BY <1>0, Counts
    <3> QED
      BY <1>4, <3>1 DEF PruneDelete, InPool, PoolRows
  <2>3. Covered(ip)'
    <3>1. Cardinality({h \in checks'[ip] : h.ts <= pool'[ip].at}) <= Cardinality(checks'[ip])
      BY <2>1, PartCount
    <3> QED
      BY <2>2, <3>1 DEF Covered
  <2>4. Lags(ip, rows, retry + 1)'
    <3>1. SUFFICES ASSUME Successes(rows) # {}
                   PROVE  Cardinality({h \in checks'[ip] : h.ts > Latest(Successes(rows)).ts}) <= retry + 1
      BY <1>1, <2>1 DEF Lags
    <3> DEFINE before == {h \in checks[ip] : h.ts > Latest(Successes(rows)).ts}
               after == {h \in checks'[ip] : h.ts > Latest(Successes(rows)).ts}
    <3>2. after \in SUBSET before /\ before \in SUBSET HistoryRows
      BY <2>1
    <3>3. Cardinality(before) <= retry + 1
      BY <1>2, <3>1 DEF Lags
    <3> HIDE DEF before, after
    <3>4. Cardinality(after) \in Nat /\ Cardinality(before) \in Nat /\ Cardinality(after) <= Cardinality(before)
      BY <3>2, PartCount
    <3> QED
      BY <1>2, <3>3, <3>4 DEF after
  <2>5. ASSUME retry < MaxRetries PROVE Kept(ip, rows)'
    <3>0. MaxRetries \in Nat /\ Retention \in Nat /\ retry + 1 < Retention
      BY <1>2, <2>5, StoreAssumption
    <3>1. SUFFICES ASSUME InPool(ip)', NEW c \in Coalesced(rows), c.ts <= pool[ip].at
                   PROVE  Recorded(c) \in checks'[ip]
      BY <1>1, <2>2 DEF Kept
    <3>2. Recorded(c) \in checks[ip]
      BY <1>2, <2>2, <2>5, <3>0, <3>1 DEF Kept
    <3>3. c \in rows /\ (c = Latest(rows) \/ (c.ok /\ c = Latest(Successes(rows))))
      <4>1. \A d \in rows : d.ip = ip
        BY DEF Of
      <4> QED
        BY <4>1, CoalescedOne
    <3>4. Cardinality({g \in checks[ip] : g.ts > c.ts}) < Retention
      <4>1. CASE c = Latest(rows)
        <5>1. \A h \in checks[ip] : h.ts <= c.ts /\ h.ts \in Nat
          BY <1>0, <1>2, <3>3, <4>1, RowsOf DEF Ahead, Times
        <5>2. c.ts \in Nat
          BY <1>0, <3>3, RowsOf DEF Times
        <5>3. Cardinality({g \in checks[ip] : g.ts > c.ts}) = 0
          BY <5>1, <5>2, NoneNewer
        <5> QED
          BY <5>3, StoreAssumption
      <4>2. CASE c.ok /\ c = Latest(Successes(rows))
        <5>1. Cardinality({g \in checks[ip] : g.ts > c.ts}) <= retry + 1
          BY <1>2, <3>3, <4>2 DEF Lags, Successes
        <5>2. {g \in checks[ip] : g.ts > c.ts} \in SUBSET HistoryRows
          BY <2>1
        <5>3. Cardinality({g \in checks[ip] : g.ts > c.ts}) \in Nat
          BY <5>2, PartCount
        <5> QED
          BY <1>2, <3>0, <5>1, <5>3
      <4> QED
        BY <3>3, <4>1, <4>2
    <3> QED
      BY <2>1, <3>2, <3>4 DEF Retained, Recorded
  <2> QED
    BY <1>2, <2>1, <2>3, <2>4, <2>5, StoreAssumption
<1>5. CASE ~(PruneDelete(r) /\ ip \in req[r].sel)
  <2>1. /\ checks'[ip] = checks[ip] /\ (pool'[ip] = pool[ip] \/ ~InPool(ip)')
        /\ faults'["retry"] = faults["retry"]
    <3>1. CASE PruneDelete(r)
      BY <1>5, <3>1 DEF PruneDelete
    <3>2. CASE PruneEvict(r)
      BY <3>2 DEF PruneEvict, InPool
    <3>3. CASE PruneSelectOver(r) \/ PruneSelectDead(r) \/ FailPrune(r)
      BY <1>0, <3>3 DEF PruneSelectOver, PruneSelectDead, FailPrune, Fault, TypeOK, dbVars
    <3> QED
      BY <3>1, <3>2, <3>3
  <2> QED
    BY <1>1, <1>2, <2>1 DEF Covered, Lags, Kept, InPool
<1> QED
  BY <1>4, <1>5

\* A step of the request under way keeps the invariant if it keeps what the invariant says
\* of every row and of that request.
LEMMA CountSlot ==
    ASSUME TypeInv, TypeInv', StatusInv, NEW r \in Requests, Proceeds(r),
           \A ip \in IPs : Covered(ip)' /\ CountOf(r, ip)'
    PROVE  CountInv'
<1>1. \A q \in Requests : req'[q].pc # "idle" => q = r
  BY DEF Proceeds, OneIngest, StatusInv
<1>2. ~AllIdle'
  BY DEF AllIdle, Proceeds
<1> QED
  BY <1>1, <1>2 DEF CountInv

\* A buffer that grows by checks newer than all of the history has no more to lose.
LEMMA BufferCount ==
    ASSUME TypeInv, TypeInv', StatusInv, StatusInv', NEW ip \in IPs, NEW n \in Nat,
           UNCHANGED <<checks, pool>>,
           NEW P \in SUBSET Of(buf', ip), Kept(ip, P), Lags(ip, P, n),
           \A c \in Of(buf', ip) \ P : /\ \A h \in checks[ip] : h.ts < c.ts
                                       /\ InPool(ip) => pool[ip].at < c.ts
    PROVE  Kept(ip, Of(buf, ip))' /\ Lags(ip, Of(buf', ip), n)
<1>1. Timeline /\ Timeline' /\ TypeOK
  BY DEF StatusInv, TypeInv
<1>2. /\ \A c \in Of(buf', ip) : c.ip = ip /\ c.ts \in Times
      /\ Distinct(Of(buf', ip))
  <2>1. (/\ \A c \in Of(buf, ip) : c \in CheckRows /\ c.ip = ip /\ c.ts \in Times /\ c.ts <= now
         /\ Distinct(Of(buf, ip)))'
    BY <1>1, RowsOf, PTL
  <2> QED
    BY <2>1 DEF Distinct
<1>3. \A h \in checks[ip] : h.ts \in Times
  BY <1>1, RowsOf
<1>4. InPool(ip) => pool[ip].at \in Times
  BY <1>1, Counts DEF PoolRows
<1>5. Kept(ip, Of(buf', ip)) /\ Lags(ip, Of(buf', ip), n)
  BY <1>2, <1>3, <1>4, LargerBatch
<1> QED
  BY <1>5 DEF Kept, Lags, InPool

\* Every step of the scanner's requests keeps the invariant.
LEMMA CountStep ==
    ASSUME TypeInv, TypeInv', StatusInv, StatusInv', CountInv, ScannerOnly, ~Slow,
           MaxRetries < Retention, [Next]_vars
    PROVE  CountInv'
<1>0. OneIngest /\ Timeline /\ BufferNewer /\ TypeOK
  BY DEF StatusInv, TypeInv
<1>k. \A ip \in IPs : Covered(ip)
  BY DEF CountInv
<1>n. faults["retry"] \in Nat
  BY <1>0 DEF TypeOK
<1>1. ASSUME TimePasses, UNCHANGED <<dbVars, req, faults>>,
             NEW new \in SUBSET CheckRows, buf' = buf \cup new, \A c \in new : c.ts = now + 1
      PROVE  CountInv'
  <2>1. UNCHANGED <<checks, pool, req, faults>>
    BY <1>1 DEF dbVars
  <2>2. ASSUME NEW ip \in IPs PROVE Covered(ip)'
    BY <1>k, <2>1 DEF Covered, InPool
  <2>3. ASSUME AllIdle', NEW ip \in IPs
        PROVE  Kept(ip, Of(buf, ip))' /\ Lags(ip, Of(buf, ip), faults["retry"])'
    <3>1. Kept(ip, Of(buf, ip)) /\ Lags(ip, Of(buf, ip), faults["retry"])
      BY <2>1, <2>3 DEF CountInv, AllIdle
    <3>2. Of(buf, ip) \in SUBSET Of(buf', ip) /\ \A c \in Of(buf', ip) \ Of(buf, ip) : c.ts = now + 1
      BY <1>1 DEF Of
    <3>3. now \in Nat /\ (\A h \in checks[ip] : h.ts \in Nat /\ h.ts <= now)
          /\ (InPool(ip) => pool[ip].at \in Nat /\ pool[ip].at <= now)
      <4>1. InPool(ip) => pool[ip].at \in Nat /\ pool[ip].at <= now
        BY <1>0, Counts DEF PoolRows, Times, Timeline
      <4> QED
        BY <1>0, <4>1, RowsOf DEF Times
    <3>4. Kept(ip, Of(buf, ip))' /\ Lags(ip, Of(buf', ip), faults["retry"])
      BY <1>n, <2>1, <3>1, <3>2, <3>3, BufferCount
    <3> QED
      BY <2>1, <3>4 DEF Lags
  <2>4. ASSUME NEW r \in Requests, req'[r].pc # "idle", NEW ip \in IPs PROVE CountOf(r, ip)'
    <3>1. CountOf(r, ip) /\ req[r].pc # "update"
      BY <1>1, <2>1, <2>4 DEF CountInv, TimePasses
    <3> QED
      BY <2>1, <3>1 DEF CountOf, Kept, Lags, InPool
  <2> QED
    BY <2>2, <2>3, <2>4 DEF CountInv
<1>2. ASSUME NEW ip \in IPs, NEW ok \in BOOLEAN, Scan(ip, ok) PROVE CountInv'
  <2> DEFINE c == [ip |-> ip, ts |-> now + 1, ok |-> ok]
  <2>1. TimePasses /\ UNCHANGED <<dbVars, req, faults>> /\ buf' = buf \cup {c}
    BY <1>2 DEF Scan
  <2>2. {c} \in SUBSET CheckRows /\ \A d \in {c} : d.ts = now + 1
    BY <1>0, <1>2, StoreAssumption DEF Scan, TimePasses, TypeOK, Times, CheckRows
  <2> HIDE DEF c
  <2> QED
    BY <1>1, <2>1, <2>2
<1>3. CASE Tick
  <2>1. TimePasses /\ UNCHANGED <<dbVars, req, faults>> /\ buf' = buf \cup {}
    BY <1>3 DEF Tick
  <2>2. {} \in SUBSET CheckRows /\ \A d \in {} : d.ts = now + 1
    OBVIOUS
  <2> QED
    BY <1>1, <2>1, <2>2
<1>4. ASSUME NEW r \in Requests, NEW prune \in SUBSET IPs, Submit(r, prune) PROVE CountInv'
  <2>1. AllIdle
    BY <1>4, SubmitStatus
  <2>2. /\ req'[r].rows = buf /\ req'[r].pc = "insert"
        /\ \A q \in Requests \ {r} : req'[q] = req[q]
        /\ UNCHANGED <<checks, pool, now, faults>>
    BY <1>0, <1>4 DEF Submit, TypeOK, dbVars
  <2>3. ASSUME NEW ip \in IPs PROVE Covered(ip)'
    BY <1>k, <2>2 DEF Covered, InPool
  <2>4. ~AllIdle'
    BY <2>2 DEF AllIdle
  <2>5. ASSUME NEW q \in Requests, req'[q].pc # "idle", NEW ip \in IPs PROVE CountOf(q, ip)'
    <3>1. q = r
      BY <2>1, <2>2, <2>5 DEF AllIdle
    <3>2. Kept(ip, Of(buf, ip)) /\ Lags(ip, Of(buf, ip), faults["retry"])
      BY <2>1 DEF CountInv
    <3> QED
      BY <2>2, <3>1, <3>2 DEF CountOf, Kept, Lags, InPool
  <2> QED
    BY <2>3, <2>4, <2>5 DEF CountInv
<1>5. ASSUME NEW r \in Requests,
             \/ InsertCheckRows(r) \/ UpdatePoolBatch(r) \/ PruneSelectOver(r) \/ PruneDelete(r)
             \/ PruneSelectDead(r) \/ PruneEvict(r) \/ FailPrune(r)
      PROVE  CountInv'
  <2>1. Proceeds(r)
    BY <1>0, <1>5, StatementProceeds
  <2>2. ASSUME NEW ip \in IPs PROVE Covered(ip)' /\ CountOf(r, ip)'
    <3>1. CASE InsertCheckRows(r)
      BY <3>1, InsertCount
    <3>2. CASE UpdatePoolBatch(r)
      BY <3>2, UpdateCount
    <3>3. CASE PruneSelectOver(r) \/ PruneDelete(r) \/ PruneSelectDead(r) \/ PruneEvict(r) \/ FailPrune(r)
      BY <3>3, PruneCount
    <3> QED
      BY <1>5, <3>1, <3>2, <3>3
  <2> QED
    BY <2>1, <2>2, CountSlot
<1>6. ASSUME NEW r \in Requests, Reply(r) \/ FailIngest(r) PROVE CountInv'
  <2>1. /\ req[r].pc # "idle" /\ req'[r] = NoReq /\ \A q \in Requests \ {r} : req'[q] = req[q]
        /\ UNCHANGED <<checks, pool, now>>
        /\ \/ buf' = buf /\ faults' = faults
           \/ /\ buf' = buf \cup req[r].rows
              /\ faults["retry"] < MaxRetries /\ faults'["retry"] = faults["retry"] + 1
    <3>1. CASE Reply(r)
      BY <1>0, <3>1 DEF Reply, TypeOK, dbVars
    <3>2. CASE FailIngest(r)
      BY <1>0, <3>2 DEF FailIngest, Fault, OneIngest, TypeOK, dbVars
    <3> QED
      BY <1>6, <3>1, <3>2
  <2>2. AllIdle'
    BY <1>0, <2>1 DEF OneIngest, NoReq, AllIdle
  <2>3. ASSUME NEW ip \in IPs PROVE Covered(ip)'
    BY <1>k, <2>1 DEF Covered, InPool
  <2>4. ASSUME NEW ip \in IPs
        PROVE  Kept(ip, Of(buf, ip))' /\ Lags(ip, Of(buf, ip), faults["retry"])'
    <3>1. \A c \in Of(buf, ip) : /\ \A h \in checks[ip] : h.ts < c.ts
                                 /\ InPool(ip) => pool[ip].at < c.ts
      BY <1>0, <2>1 DEF BufferNewer, Of
    <3>2. CASE buf' = buf /\ faults' = faults
      <4>1. Kept(ip, {}) /\ Lags(ip, {}, faults["retry"])
        BY DEF Kept, Lags, Coalesced, Successes
      <4>2. Kept(ip, Of(buf, ip))' /\ Lags(ip, Of(buf', ip), faults["retry"])
        BY <1>n, <2>1, <3>1, <3>2, <4>1, BufferCount
      <4> QED
        BY <2>1, <3>2, <4>2 DEF Lags
    <3>3. CASE /\ buf' = buf \cup req[r].rows
               /\ faults["retry"] < MaxRetries /\ faults'["retry"] = faults["retry"] + 1
      <4> DEFINE rows == Of(req[r].rows, ip)
      <4>1. CountOf(r, ip)
        BY <2>1 DEF CountInv
      <4>2. Kept(ip, rows)
        BY <1>n, <3>3, <4>1, StoreAssumption DEF CountOf
      <4>3. Lags(ip, rows, faults["retry"] + 1)
        <5>1. Lags(ip, rows, IF req[r].pc = "insert" THEN faults["retry"] ELSE faults["retry"] + 1)
          BY <4>1 DEF CountOf
        <5>2. CASE req[r].pc # "insert"
          BY <5>1, <5>2
        <5>3. CASE req[r].pc = "insert"
          <6>1. Cardinality({h \in checks[ip] : h.ts > Latest(Successes(rows)).ts}) \in Nat
            BY <1>0, HistoryFinite DEF TypeOK
          <6> QED
            BY <1>n, <5>1, <5>3, <6>1 DEF Lags
        <5> QED
          BY <5>2, <5>3
      <4>4. rows \in SUBSET Of(buf', ip) /\ Of(buf', ip) \ rows \subseteq Of(buf, ip)
        BY <3>3 DEF Of
      <4>5. Kept(ip, Of(buf, ip))' /\ Lags(ip, Of(buf', ip), faults["retry"] + 1)
        <5> HIDE DEF rows
        <5>1. faults["retry"] + 1 \in Nat
          BY <1>n
        <5>2. \A c \in Of(buf', ip) \ rows : /\ \A h \in checks[ip] : h.ts < c.ts
                                             /\ InPool(ip) => pool[ip].at < c.ts
          BY <3>1, <4>4
        <5>3. ASSUME NEW n \in Nat, Lags(ip, rows, n)
              PROVE  Kept(ip, Of(buf, ip))' /\ Lags(ip, Of(buf', ip), n)
          BY <2>1, <4>2, <4>4, <5>2, <5>3, BufferCount
        <5> QED
          BY <4>3, <5>1, <5>3
      <4> QED
        BY <2>1, <3>3, <4>5 DEF Lags
    <3> QED
      BY <2>1, <3>2, <3>3
  <2> QED
    BY <2>2, <2>3, <2>4 DEF CountInv, AllIdle
<1>7. ASSUME UNCHANGED <<checks, now, buf, req, faults>>,
             \A ip \in IPs : /\ InPool(ip)' <=> InPool(ip)
                             /\ InPool(ip) => /\ pool'[ip].ok = pool[ip].ok
                                              /\ pool'[ip].at = pool[ip].at
                                              /\ pool'[ip].cnt = pool[ip].cnt
      PROVE  CountInv'
  <2>1. ASSUME NEW ip \in IPs PROVE Covered(ip)'
    BY <1>k, <1>7 DEF Covered
  <2>2. ASSUME AllIdle', NEW ip \in IPs
        PROVE  Kept(ip, Of(buf, ip))' /\ Lags(ip, Of(buf, ip), faults["retry"])'
    <3>1. Kept(ip, Of(buf, ip)) /\ Lags(ip, Of(buf, ip), faults["retry"])
      BY <1>7, <2>2 DEF CountInv, AllIdle
    <3> QED
      BY <1>7, <3>1 DEF Kept, Lags
  <2>3. ASSUME NEW r \in Requests, req'[r].pc # "idle", NEW ip \in IPs PROVE CountOf(r, ip)'
    <3>1. CountOf(r, ip)
      BY <1>7, <2>3 DEF CountInv
    <3>2. Writes(ip, Of(req[r].rows, ip))' <=> Writes(ip, Of(req[r].rows, ip))
      BY <1>7 DEF Writes, GateOpen
    <3>3. Kept(ip, Of(req[r].rows, ip)) => Kept(ip, Of(req[r].rows, ip))'
      BY <1>7 DEF Kept
    <3> QED
      BY <1>7, <3>1, <3>2, <3>3 DEF CountOf, Lags
  <2> QED
    BY <2>1, <2>2, <2>3 DEF CountInv
<1>8. ASSUME NEW i \in IPs, SavePTR(i) PROVE CountInv'
  <2>1. UNCHANGED <<checks, now, buf, req, faults>>
    BY <1>8 DEF SavePTR
  <2>2. ASSUME NEW ip \in IPs
        PROVE  /\ InPool(ip)' <=> InPool(ip)
               /\ InPool(ip) => /\ pool'[ip].ok = pool[ip].ok
                                /\ pool'[ip].at = pool[ip].at
                                /\ pool'[ip].cnt = pool[ip].cnt
    <3>1. InPool(ip) => pool[ip] \in PoolRows /\ Stamped(pool[ip]) \in PoolRows
      BY <1>0, Counts, StampedType
    <3>2. InPool(ip) => /\ Stamped(pool[ip]).ok = pool[ip].ok
                        /\ Stamped(pool[ip]).at = pool[ip].at
                        /\ Stamped(pool[ip]).cnt = pool[ip].cnt
      BY <3>1 DEF Stamped, PoolRows
    <3> QED
      BY <1>8, <3>1, <3>2, StoreNoRowAssumption DEF SavePTR, InPool
  <2> QED
    BY <1>7, <2>1, <2>2
<1>9. CASE UNCHANGED vars
  <2>1. UNCHANGED <<checks, pool, now, buf, req, faults>>
    BY <1>9 DEF vars, dbVars
  <2> QED
    BY <1>7, <2>1 DEF InPool
<1> QED
  BY <1>0, <1>2, <1>3, <1>4, <1>5, <1>6, <1>8, <1>9, ScannerStep

\* The invariant holds in every state the scanner's requests reach.
LEMMA CountInvariant ==
    ASSUME ScannerOnly, ~Slow, MaxRetries < Retention
    PROVE  Spec => []CountInv
<1>1. Init => CountInv
  <2>1. SUFFICES ASSUME Init PROVE CountInv
    OBVIOUS
  <2>2. \A ip \in IPs : Covered(ip)
    BY <2>1 DEF Init, Covered, InPool
  <2>3. \A ip \in IPs : Kept(ip, Of(buf, ip)) /\ Lags(ip, Of(buf, ip), faults["retry"])
    BY <2>1 DEF Init, Kept, Lags, InPool, Of, Successes
  <2> QED
    BY <2>1, <2>2, <2>3 DEF Init, CountInv, NoReq
<1>2. TypeInv /\ TypeInv' /\ StatusInv /\ StatusInv' /\ CountInv /\ [Next]_vars => CountInv'
  BY CountStep
<1> QED
  BY <1>1, <1>2, TypeInvariant, StatusInvariant, PTL DEF Spec

\* With the scanner as the only writer, and a batch repeated less often than checks are
\* retained, history_count never falls below the number of checks, so pruning is never late.
\* A batch repeated more often could insert again what was pruned, and not count it; nor
\* would a repetition count a check that only the second gate of the first attempt let pass.
THEOREM CountSafe ==
    ASSUME ScannerOnly, ~Slow, MaxRetries < Retention
    PROVE  Spec => []CountCovers
<1>1. TypeInv /\ StatusInv /\ CountInv => CountCovers
  <2>1. SUFFICES ASSUME TypeInv, StatusInv, CountInv, Quiet, NEW ip \in IPs, InPool(ip)
                 PROVE  pool[ip].cnt >= Cardinality(checks[ip])
    BY DEF CountCovers
  <2>2. Settled(ip) \/ Writes(ip, Of(buf, ip))
    BY <2>1 DEF StatusInv, Quiet, AllIdle
  <2>3. Of(buf, ip) = {}
    BY <2>1 DEF Quiet, Of
  <2>4. {h \in checks[ip] : h.ts <= pool[ip].at} = checks[ip]
    BY <2>1, <2>2, <2>3 DEF Settled, Writes
  <2>5. Cardinality(checks[ip]) <= pool[ip].cnt
    BY <2>1, <2>4 DEF CountInv, Covered
  <2>6. Cardinality(checks[ip]) \in Nat /\ pool[ip].cnt \in Nat
    BY <2>1, Counts DEF TypeInv, PoolRows
  <2> QED
    BY <2>5, <2>6
<1> QED
  BY <1>1, TypeInvariant, StatusInvariant, CountInvariant, PTL

-----------------------------------------------------------------------------
(* With the scanner as the only writer: pruning                            *)

\* How far the pruning of the request in slot r has got.
PruneOf(r) ==
    /\ req[r].pc = "delete" => \A ip \in req[r].prune \ req[r].sel :
         InPool(ip) => Cardinality(checks[ip]) <= Retention
    /\ req[r].pc \in {"dead", "evict", "done"} => \A ip \in req[r].prune :
         InPool(ip) => Cardinality(checks[ip]) <= Retention
    /\ req[r].pc = "evict" => \A ip \in req[r].prune \ req[r].sel :
         InPool(ip) /\ Cardinality(checks[ip]) = Retention => HasSuccess(ip)
    /\ req[r].pc = "done" => \A ip \in req[r].prune :
         InPool(ip) /\ Cardinality(checks[ip]) = Retention => HasSuccess(ip)

PruneInv == faults["drop"] = 0 => \A r \in Requests : PruneOf(r)

\* The retained checks are no more than the retention: each has a different number of newer
\* ones.
LEMMA RetainedFew ==
    ASSUME NEW S \in SUBSET HistoryRows, Distinct(S)
    PROVE  Cardinality(Retained(S)) <= Retention /\ Cardinality(Retained(S)) \in Nat
<1> DEFINE newer(h) == {g \in S : g.ts > h.ts}
           f == [h \in Retained(S) |-> Cardinality(newer(h))]
<1>1. Retained(S) \in SUBSET S /\ Retention \in Nat \ {0}
  BY StoreAssumption DEF Retained
<1>2. \A h \in S : h.ts \in Nat
  BY DEF HistoryRows, Times
<1>3. ASSUME NEW h \in S PROVE newer(h) \in SUBSET S /\ IsFiniteSet(newer(h)) /\ Cardinality(newer(h)) \in Nat
  BY HistoryFinite
<1>4. ASSUME NEW g \in S, NEW h \in S, g.ts < h.ts
      PROVE  Cardinality(newer(h)) # Cardinality(newer(g))
  <2>1. newer(h) \in SUBSET newer(g) /\ h \in newer(g) /\ h \notin newer(h)
    BY <1>2, <1>4
  <2>2. IsFiniteSet(newer(g))
    BY <1>3
  <2> HIDE DEF newer
  <2>3. Cardinality(newer(g)) = Cardinality(newer(h)) => newer(g) = newer(h)
    BY <2>1, <2>2, FS_Subset
  <2> QED
    BY <2>1, <2>3
<1>5. f \in Injection(Retained(S), 0..(Retention - 1))
  <2>1. ASSUME NEW h \in Retained(S) PROVE f[h] \in 0..(Retention - 1)
    <3>1. Cardinality(newer(h)) \in Nat /\ Cardinality(newer(h)) < Retention
      BY <1>1, <1>3 DEF Retained
    <3> QED
      BY <1>1, <3>1
  <2>2. ASSUME NEW g \in Retained(S), NEW h \in Retained(S), f[g] = f[h]
        PROVE  g = h
    <3>1. g \in S /\ h \in S /\ g.ts \in Nat /\ h.ts \in Nat
      BY <1>1, <1>2
    <3>2. Cardinality(newer(g)) = Cardinality(newer(h))
      BY <2>2
    <3> HIDE DEF newer
    <3>3. g.ts = h.ts
      BY <1>4, <3>1, <3>2
    <3> QED
      BY <3>1, <3>3 DEF Distinct
  <2>3. f \in [Retained(S) -> 0..(Retention - 1)]
    BY <2>1
  <2> HIDE DEF f
  <2> QED
    BY <2>2, <2>3 DEF Injection, IsInjective
<1>6. IsFiniteSet(0..(Retention - 1)) /\ Cardinality(0..(Retention - 1)) = Retention
  <2>1. /\ 0 \in Int /\ Retention - 1 \in Int /\ ~(0 > Retention - 1)
        /\ (Retention - 1) - 0 + 1 = Retention
    BY <1>1
  <2> QED
    BY <2>1, FS_Interval
<1> HIDE DEF f
<1>7. IsFiniteSet(Retained(S)) /\ Cardinality(Retained(S)) <= Retention
  BY <1>5, <1>6, FS_Injection
<1> QED
  BY <1>7, FS_CardinalityType

\* While a request prunes, nothing is recorded that is not counted.
LEMMA CountsAll ==
    ASSUME TypeInv, StatusInv, CountInv, NEW r \in Requests, req[r].pc \in PrunePCs,
           NEW ip \in IPs, InPool(ip)
    PROVE  /\ Cardinality(checks[ip]) <= pool[ip].cnt
           /\ Cardinality(checks[ip]) \in Nat /\ pool[ip].cnt \in Nat
<1>1. StatusOf(r, ip)
  BY DEF StatusInv, PrunePCs
<1>2. Settled(ip)
  BY <1>1 DEF StatusOf
<1>3. {h \in checks[ip] : h.ts <= pool[ip].at} = checks[ip]
  BY <1>2 DEF Settled
<1>4. Cardinality(checks[ip]) <= pool[ip].cnt
  BY <1>3 DEF CountInv, Covered
<1> QED
  BY <1>4, Counts DEF TypeInv, PoolRows

\* A step that touches neither the pruning request nor the history of a pooled address.
LEMMA PruneFrame ==
    ASSUME TypeInv, NEW r \in Requests, PruneOf(r),
           req'[r].pc = req[r].pc /\ req'[r].prune = req[r].prune /\ req'[r].sel = req[r].sel,
           checks' = checks, \A ip \in IPs : InPool(ip)' => InPool(ip)
    PROVE  PruneOf(r)'
<1>1. req[r].prune \subseteq IPs
  BY DEF TypeInv, TypeOK, ReqRecords
<1> QED
  BY <1>1 DEF PruneOf, HasSuccess

\* Every step of the scanner's requests keeps the invariant.
LEMMA PruneStep ==
    ASSUME TypeInv, TypeInv', StatusInv, CountInv, PruneInv, ScannerOnly, [Next]_vars
    PROVE  PruneInv'
<1> SUFFICES ASSUME faults'["drop"] = 0, NEW q \in Requests PROVE PruneOf(q)'
  BY DEF PruneInv
<1>0. OneIngest /\ Timeline /\ TypeOK
  BY DEF StatusInv, TypeInv
<1>d. faults["drop"] = 0 => PruneOf(q)
  BY DEF PruneInv
<1>e. req[q].prune \subseteq IPs /\ req'[q].prune \subseteq IPs
  BY DEF TypeInv, TypeOK, ReqRecords
<1>1. ASSUME req'[q].pc \notin {"delete", "dead", "evict", "done"} PROVE PruneOf(q)'
  BY <1>1 DEF PruneOf
<1>2. ASSUME req' = req, faults' = faults, checks' = checks, \A ip \in IPs : InPool(ip)' => InPool(ip)
      PROVE  PruneOf(q)'
  BY <1>2, <1>d, PruneFrame
<1>3. ASSUME NEW ip \in IPs, NEW ok \in BOOLEAN, Scan(ip, ok) PROVE PruneOf(q)'
  BY <1>2, <1>3 DEF Scan, InPool, dbVars
<1>4. CASE Tick
  BY <1>2, <1>4 DEF Tick, InPool, dbVars
<1>5. ASSUME NEW r \in Requests, NEW prune \in SUBSET IPs, Submit(r, prune) PROVE PruneOf(q)'
  <2>1. AllIdle
    BY <1>5, SubmitStatus
  <2>2. req'[q].pc \in {"idle", "insert"}
    BY <1>0, <1>5, <2>1 DEF Submit, AllIdle, TypeOK
  <2> QED
    BY <1>1, <2>2
<1>6. ASSUME NEW r \in Requests, r # q, req'[q] = req[q], req[r].pc # "idle" PROVE PruneOf(q)'
  <2>1. req[q].pc = "idle"
    BY <1>0, <1>6 DEF OneIngest
  <2> QED
    BY <1>1, <1>6, <2>1
<1>7. ASSUME NEW r \in Requests, Reply(r) \/ FailIngest(r) PROVE PruneOf(q)'
  <2>1. /\ req'[r].pc = "idle" /\ req[r].pc # "idle"
        /\ \A p \in Requests \ {r} : req'[p] = req[p]
    BY <1>0, <1>7 DEF Reply, FailIngest, NoReq, OneIngest, TypeOK
  <2> QED
    BY <1>1, <1>6, <2>1
<1>8. ASSUME NEW r \in Requests, FailPrune(r) PROVE PruneOf(q)'
  BY <1>0, <1>8 DEF FailPrune, Fault, TypeOK
<1>9. ASSUME NEW r \in Requests,
             InsertCheckRows(r) \/ UpdatePoolBatch(r) \/ PruneSelectOver(r) \/ PruneDelete(r)
               \/ PruneSelectDead(r) \/ PruneEvict(r)
      PROVE  PruneOf(q)'
  <2>1. req[r].pc # "idle" /\ faults' = faults /\ \A p \in Requests \ {r} : req'[p] = req[p]
    BY <1>0, <1>9 DEF InsertCheckRows, UpdatePoolBatch, PruneSelectOver, PruneDelete,
                      PruneSelectDead, PruneEvict, Select, Goto, TypeOK
  <2>2. SUFFICES ASSUME q = r PROVE PruneOf(q)'
    BY <1>6, <2>1
  <2>3. PruneOf(r)
    BY <1>d, <2>1, <2>2
  <2>4. CASE InsertCheckRows(r)
    <3>1. req'[r].pc = "update"
      BY <2>4, GoesOn DEF InsertCheckRows
    <3> QED
      BY <1>1, <2>2, <3>1
  <2>5. CASE UpdatePoolBatch(r)
    <3>1. CASE req[r].prune = {}
      <4>1. Goto(r, "done")
        BY <2>5, <3>1 DEF UpdatePoolBatch
      <4>2. req'[r].pc = "done" /\ req'[r].prune = {}
        BY <3>1, <4>1, GoesOn
      <4> QED
        BY <2>2, <4>2 DEF PruneOf
    <3>2. CASE req[r].prune # {}
      <4>1. Goto(r, "over")
        BY <2>5, <3>2 DEF UpdatePoolBatch
      <4>2. req'[r].pc = "over"
        BY <4>1, GoesOn
      <4> QED
        BY <1>1, <2>2, <4>2
    <3> QED
      BY <3>1, <3>2
  <2>6. CASE PruneSelectOver(r)
    <3> DEFINE sel == {ip \in req[r].prune : InPool(ip) /\ pool[ip].cnt > Retention}
    <3>1. /\ req[r].pc = "over" /\ req'[r].sel = sel /\ req'[r].prune = req[r].prune
          /\ req'[r].pc = IF sel = {} THEN "dead" ELSE "delete"
          /\ UNCHANGED <<checks, pool>>
      BY <1>0, <2>6 DEF PruneSelectOver, Select, TypeOK, ReqRecords, dbVars
    <3>2. ASSUME NEW ip \in req[r].prune \ sel, InPool(ip) PROVE Cardinality(checks[ip]) <= Retention
      <4>1. /\ Cardinality(checks[ip]) <= pool[ip].cnt
            /\ Cardinality(checks[ip]) \in Nat /\ pool[ip].cnt \in Nat
        BY <1>e, <2>2, <3>1, <3>2, CountsAll DEF PrunePCs
      <4>2. ~(pool[ip].cnt > Retention)
        BY <3>2
      <4> QED
        BY <4>1, <4>2, StoreAssumption
    <3> HIDE DEF sel
    <3> QED
      BY <2>2, <3>1, <3>2 DEF PruneOf, InPool
  <2>7. CASE PruneDelete(r)
    <3>1. /\ req[r].pc = "delete" /\ req'[r].pc = "dead" /\ req'[r].prune = req[r].prune
      BY <2>7, GoesOn DEF PruneDelete
    <3>2. ASSUME NEW ip \in req[r].prune, InPool(ip)' PROVE Cardinality(checks'[ip]) <= Retention
      <4>0. ip \in IPs
        BY <1>e, <2>2
      <4>1. InPool(ip)
        BY <2>7, <3>2, <4>0 DEF PruneDelete, InPool
      <4>2. CASE ip \in req[r].sel
        <5>1. checks'[ip] = Retained(checks[ip])
          BY <2>7, <4>0, <4>2 DEF PruneDelete
        <5>2. checks[ip] \in SUBSET HistoryRows /\ Distinct(checks[ip])
          BY <1>0, <4>0, RowsOf DEF TypeOK
        <5> QED
          BY <5>1, <5>2, RetainedFew
      <4>3. CASE ip \notin req[r].sel
        <5>1. checks'[ip] = checks[ip]
          BY <2>7, <4>0, <4>3 DEF PruneDelete
        <5> QED
          BY <2>3, <3>1, <4>1, <4>3, <5>1 DEF PruneOf
      <4> QED
        BY <4>2, <4>3
    <3> QED
      BY <2>2, <3>1, <3>2 DEF PruneOf
  <2>8. CASE PruneSelectDead(r)
    <3> DEFINE sel == {ip \in req[r].prune : InPool(ip) /\ pool[ip].cnt >= Retention /\ ~HasSuccess(ip)}
    <3>1. /\ req[r].pc = "dead" /\ req'[r].sel = sel /\ req'[r].prune = req[r].prune
          /\ req'[r].pc = IF sel = {} THEN "done" ELSE "evict"
          /\ UNCHANGED <<checks, pool>>
      BY <1>0, <2>8 DEF PruneSelectDead, Select, TypeOK, ReqRecords, dbVars
    <3>2. ASSUME NEW ip \in req[r].prune \ sel, InPool(ip), Cardinality(checks[ip]) = Retention
          PROVE  HasSuccess(ip)
      <4>1. /\ Cardinality(checks[ip]) <= pool[ip].cnt
            /\ Cardinality(checks[ip]) \in Nat /\ pool[ip].cnt \in Nat
        BY <1>e, <2>2, <3>1, <3>2, CountsAll DEF PrunePCs
      <4>2. pool[ip].cnt >= Retention
        BY <3>2, <4>1
      <4> QED
        BY <3>2, <4>2
    <3>3. \A ip \in req[r].prune : InPool(ip) => Cardinality(checks[ip]) <= Retention
      BY <2>3, <3>1 DEF PruneOf
    <3> HIDE DEF sel
    <3> QED
      BY <2>2, <3>1, <3>2, <3>3 DEF PruneOf, InPool, HasSuccess
  <2>9. CASE PruneEvict(r)
    <3>1. /\ req[r].pc = "evict" /\ req'[r].pc = "done" /\ req'[r].prune = req[r].prune
          /\ checks' = checks
      BY <2>9, GoesOn DEF PruneEvict
    <3>2. ASSUME NEW ip \in req[r].prune, InPool(ip)'
          PROVE  /\ Cardinality(checks[ip]) <= Retention
                 /\ Cardinality(checks[ip]) = Retention => HasSuccess(ip)
      <4>1. ip \in IPs
        BY <1>e, <2>2
      <4>2. InPool(ip) /\ ip \notin Evictable(req[r].sel)
        BY <2>9, <3>2, <4>1 DEF PruneEvict, InPool
      <4>3. HasSuccess(ip) \/ ip \notin req[r].sel
        BY <4>2 DEF Evictable
      <4> QED
        BY <2>3, <3>1, <4>2, <4>3 DEF PruneOf
    <3> QED
      BY <2>2, <3>1, <3>2 DEF PruneOf, HasSuccess
  <2> QED
    BY <1>9, <2>4, <2>5, <2>6, <2>7, <2>8, <2>9
<1>10. ASSUME NEW i \in IPs, SavePTR(i) PROVE PruneOf(q)'
  BY <1>2, <1>10 DEF SavePTR, InPool
<1>11. CASE UNCHANGED vars
  BY <1>2, <1>11 DEF vars, dbVars, InPool
<1> QED
  BY <1>0, <1>3, <1>4, <1>5, <1>7, <1>8, <1>9, <1>10, <1>11, ScannerStep

\* With the scanner as the only writer, the request that pruned leaves no history longer than
\* its bound, and no address in the pool that has a full window of failures, although it read
\* history_count, and the successes, in a statement of their own each.
THEOREM PruneCompleteSafe ==
    ASSUME ScannerOnly, ~Slow, MaxRetries < Retention
    PROVE  Spec => []PruneComplete
<1>1. Init => PruneInv
  BY DEF Init, PruneInv, PruneOf, NoReq
<1>2. TypeInv /\ TypeInv' /\ StatusInv /\ CountInv /\ PruneInv /\ [Next]_vars => PruneInv'
  BY PruneStep
<1>3. PruneInv => PruneComplete
  BY DEF PruneInv, PruneOf, PruneComplete
<1> QED
  BY <1>1, <1>2, <1>3, TypeInvariant, StatusInvariant, CountInvariant, PTL DEF Spec
=============================================================================
