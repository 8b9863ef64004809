-------------------------- MODULE HistorySyncProofs --------------------------
(***************************************************************************)
(* For any pages, calls, retention and number of checks: the theorems of   *)
(* HistorySync.                                                            *)
(***************************************************************************)
EXTENDS HistorySync, FiniteSetTheorems, TLAPS

-----------------------------------------------------------------------------
(* Versions                                                                *)

\* A set of ids has a largest one.
LEMMA MaxBounded ==
    ASSUME NEW S \in SUBSET (0..MaxId), S # {}
    PROVE  Max(S) \in S /\ \A y \in S : y <= Max(S)
<1> DEFINE T == {MaxId - x : x \in S}
<1>0. MaxId \in Nat
  BY HistoryAssumption
<1>a. \A x \in S : x \in Nat /\ MaxId - x \in Nat
  BY <1>0
<1>1. T \in SUBSET Nat /\ T # {}
  BY <1>a
<1>2. PICK k \in T : \A y \in T : ~(<<y, k>> \in OpToRel(<, Nat))
  BY <1>1, NatLessThanWellFounded, WFMin, Zenon
<1>3. \A y \in T : ~(y < k)
  BY <1>1, <1>2 DEF OpToRel
<1>4. PICK m \in S : k = MaxId - m
  OBVIOUS
<1>5. \A y \in S : ~(MaxId - y < MaxId - m)
  BY <1>3, <1>4
<1>6. ASSUME NEW y \in S PROVE y <= m
  <2>1. y \in Nat /\ m \in Nat /\ ~(MaxId - y < MaxId - m)
    BY <1>a, <1>5
  <2> QED
    BY <1>0, <2>1
<1> HIDE DEF T
<1>7. \A y \in S : m >= y
  BY <1>a, <1>6
<1>8. Max(S) \in S /\ \A y \in S : Max(S) >= y
  BY <1>7 DEF Max
<1> QED
  BY <1>a, <1>8

\* The version of a table is a bound on its ids, and one of them unless it is empty.
LEMMA VersionBound ==
    ASSUME NEW table \in SUBSET Rows
    PROVE  /\ IpHistoryVersion(table) \in Versions
           /\ \A r \in table : r.id <= IpHistoryVersion(table)
           /\ table = {} => IpHistoryVersion(table) = 0
           /\ table # {} => \E r \in table : r.id = IpHistoryVersion(table)
<1> DEFINE S == {r.id : r \in table}
<1>0. MaxId \in Nat
  BY HistoryAssumption
<1>1. S \in SUBSET (0..MaxId)
  BY <1>0 DEF Rows
<1>2. CASE table = {}
  BY <1>0, <1>2 DEF IpHistoryVersion, Versions
<1>3. CASE table # {}
  <2>1. Max(S) \in S /\ \A y \in S : y <= Max(S)
    BY <1>1, <1>3, MaxBounded
  <2>2. IpHistoryVersion(table) = Max(S)
    BY <1>3 DEF IpHistoryVersion
  <2> HIDE DEF S
  <2>3. IpHistoryVersion(table) \in Versions
    BY <1>1, <2>1, <2>2 DEF Versions
  <2> USE DEF S
  <2> QED
    BY <1>3, <2>1, <2>2, <2>3
<1> QED
  BY <1>2, <1>3

\* The next id is larger than every id that there is.
LEMMA NextIdBound ==
    ASSUME NEW table \in SUBSET Rows, other \in Versions
    PROVE  /\ NextId(table) \in Nat /\ NextId(table) >= 1
           /\ NextId(table) > other
           /\ NextId(table) > IpHistoryVersion(table)
           /\ \A r \in table : r.id < NextId(table)
<1> DEFINE S == {r.id : r \in table} \cup {other}
<1>0. MaxId \in Nat
  BY HistoryAssumption
<1>1. S \in SUBSET (0..MaxId) /\ S # {} /\ \A y \in S : y \in Nat
  BY <1>0 DEF Rows, Versions
<1>2. Max(S) \in S /\ \A y \in S : y <= Max(S)
  BY <1>1, MaxBounded
<1>3. NextId(table) = Max(S) + 1 /\ Max(S) \in Nat
  BY <1>1, <1>2 DEF NextId
<1>4. other <= Max(S) /\ \A r \in table : r.id <= Max(S)
  BY <1>2
<1>5. \A r \in table : r.id \in Nat
  BY <1>0 DEF Rows
<1>6. other \in Nat
  BY <1>1
<1> HIDE DEF S
<1>7. \A r \in table : r.id < NextId(table)
  BY <1>3, <1>4, <1>5
<1>8. IpHistoryVersion(table) < NextId(table)
  <2>1. table = {} => IpHistoryVersion(table) = 0
    BY VersionBound
  <2>2. table # {} => \E r \in table : r.id = IpHistoryVersion(table)
    BY VersionBound
  <2> QED
    BY <1>3, <1>7, <2>1, <2>2
<1> QED
  BY <1>3, <1>4, <1>6, <1>7, <1>8

-----------------------------------------------------------------------------
(* Histories                                                               *)

Above(T, t) == {u \in T : u > t}

\* A set of check times is finite, and so are its later ones.
LEMMA TimesFinite ==
    ASSUME NEW T \in SUBSET Times
    PROVE  IsFiniteSet(T) /\ \A t : /\ IsFiniteSet(Above(T, t))
                                    /\ Cardinality(Above(T, t)) \in Nat
<1>1. IsFiniteSet(Times)
  BY HistoryAssumption, FS_Interval DEF Times
<1>2. IsFiniteSet(T)
  BY <1>1, FS_Subset
<1>3. \A t : Above(T, t) \in SUBSET T
  BY DEF Above
<1> QED
  BY <1>2, <1>3, FS_Subset, FS_CardinalityType

\* A history is part of the check times (LIMIT).
LEMMA NewestType ==
    ASSUME NEW T \in SUBSET Times
    PROVE  Newest(T) \in SUBSET T /\ Newest(T) \in Histories
BY DEF Newest, Histories

\* Of a set of times only the newest decide: what else is left out makes no
\* difference.
LEMMA NewestOf ==
    ASSUME NEW T \in SUBSET Times, NEW S \in SUBSET T, Newest(T) \subseteq S
    PROVE  Newest(S) = Newest(T)
<1>0. Retention \in Nat /\ MaxTime \in Nat /\ S \in SUBSET Times
  BY HistoryAssumption
<1>1. \A t : \A R \in SUBSET T : \A u :
        Above(R, u) \subseteq Above(T, t) =>
          /\ Cardinality(Above(R, u)) <= Cardinality(Above(T, t))
          /\ Cardinality(Above(T, t)) \in Nat /\ Cardinality(Above(R, u)) \in Nat
  BY TimesFinite, FS_Subset, FS_CardinalityType
<1>2. ASSUME NEW t \in Newest(T) PROVE t \in Newest(S)
  <2>1. Cardinality(Above(T, t)) < Retention
    BY <1>2 DEF Newest, Above
  <2>2. Above(S, t) \subseteq Above(T, t)
    BY DEF Above
  <2>3. Cardinality(Above(S, t)) < Retention
    BY <1>0, <1>1, <2>1, <2>2
  <2> QED
    BY <1>2, <2>3 DEF Newest, Above
<1>3. ASSUME NEW t \in S, t \notin Newest(T) PROVE t \notin Newest(S)
  <2> DEFINE D == {MaxTime - u : u \in T \ Newest(T)}
  <2>1. \A u \in T : u \in Nat /\ MaxTime - u \in Nat
    BY <1>0 DEF Times
  <2>2. D \in SUBSET Nat /\ D # {}
    BY <1>3, <2>1
  <2>3. PICK k \in D : \A y \in D : ~(<<y, k>> \in OpToRel(<, Nat))
    BY <2>2, NatLessThanWellFounded, WFMin, Zenon
  <2>4. \A y \in D : ~(y < k)
    BY <2>2, <2>3 DEF OpToRel
  <2>5. PICK m \in T \ Newest(T) : k = MaxTime - m
    OBVIOUS
  <2>6. ASSUME NEW u \in T \ Newest(T) PROVE u <= m
    <3>1. u \in Nat /\ m \in Nat /\ ~(MaxTime - u < MaxTime - m)
      BY <2>1, <2>4, <2>5
    <3> QED
      BY <1>0, <3>1
  <2>7. Above(T, m) \subseteq Above(S, t)
    <3> SUFFICES ASSUME NEW u \in T, u > m PROVE u \in S /\ u > t
      BY DEF Above
    <3>1. u \in Nat /\ m \in Nat /\ t \in Nat /\ t <= m
      BY <1>3, <2>1, <2>6
    <3>2. u \in Newest(T)
      BY <2>6, <3>1
    <3> QED
      BY <3>1, <3>2
  <2>8. ~(Cardinality(Above(T, m)) < Retention)
    BY DEF Newest, Above
  <2>9. /\ Cardinality(Above(T, m)) <= Cardinality(Above(S, t))
        /\ Cardinality(Above(T, m)) \in Nat /\ Cardinality(Above(S, t)) \in Nat
    BY <1>0, <2>7, TimesFinite, FS_Subset, FS_CardinalityType
  <2>10. ~(Cardinality(Above(S, t)) < Retention)
    BY <1>0, <2>8, <2>9
  <2> QED
    BY <2>10 DEF Newest, Above
<1> QED
  BY <1>2, <1>3 DEF Newest

\* Leaving out what the history leaves out does not change it.
LEMMA NewestTwice ==
    ASSUME NEW T \in SUBSET Times
    PROVE  Newest(Newest(T)) = Newest(T)
BY NewestType, NewestOf

\* What is new pushes out the same whether or not what is old has been left out.
LEMMA NewestUnion ==
    ASSUME NEW A \in SUBSET Times, NEW B \in SUBSET Times
    PROVE  Newest(Newest(A) \cup B) = Newest(A \cup B)
<1>0. Retention \in Nat
  BY HistoryAssumption
<1>1. ASSUME NEW t \in Newest(A \cup B), t \in A PROVE t \in Newest(A)
  <2>1. Cardinality(Above(A \cup B, t)) < Retention
    BY DEF Newest, Above
  <2>2. Above(A, t) \subseteq Above(A \cup B, t)
    BY DEF Above
  <2>3. /\ Cardinality(Above(A, t)) <= Cardinality(Above(A \cup B, t))
        /\ Cardinality(Above(A \cup B, t)) \in Nat /\ Cardinality(Above(A, t)) \in Nat
    BY <2>2, TimesFinite, FS_Subset, FS_CardinalityType
  <2>4. Cardinality(Above(A, t)) < Retention
    BY <1>0, <2>1, <2>3
  <2> QED
    BY <1>1, <2>4 DEF Newest, Above
<1>2. Newest(A \cup B) \subseteq Newest(A) \cup B
  BY <1>1 DEF Newest
<1>3. Newest(A) \cup B \in SUBSET (A \cup B) /\ A \cup B \in SUBSET Times
  BY NewestType
<1> QED
  BY <1>2, <1>3, NewestOf

\* A history that has lost nothing of an older one but what was pushed out.
Covers(new, old) == new = Newest(new \cup old)

\* That is transitive.
LEMMA CoversTransitive ==
    ASSUME NEW x \in Histories, NEW y \in Histories, NEW z \in Histories, Covers(z, y), Covers(y, x)
    PROVE  Covers(z, x)
<1>0. x \in SUBSET Times /\ y \in SUBSET Times /\ z \in SUBSET Times
  BY DEF Histories
<1>1. Newest((y \cup x) \cup z) = z
  <2>1. Newest((y \cup x) \cup z) = Newest(Newest(y \cup x) \cup z)
    BY <1>0, NewestUnion
  <2>2. Newest(y \cup x) = y
    BY DEF Covers
  <2>3. Newest(y \cup z) = z
    <3>1. y \cup z = z \cup y
      OBVIOUS
    <3> QED
      BY <3>1 DEF Covers
  <2> QED
    BY <2>1, <2>2, <2>3
<1>2. Newest(z \cup x) = Newest((y \cup x) \cup z)
  <2> DEFINE T == (y \cup x) \cup z
             S == z \cup x
  <2>1. T \in SUBSET Times /\ S \in SUBSET T /\ Newest(T) \subseteq S
    BY <1>0, <1>1
  <2> HIDE DEF T, S
  <2>2. Newest(S) = Newest(T)
    BY <2>1, NewestOf
  <2> QED
    BY <2>2 DEF T, S
<1> QED
  BY <1>1, <1>2 DEF Covers

\* A check is its time: (ip, checked_at) is unique.
Unique(table) == \A q, r \in table : q.id = r.id \/ q.ts = r.ts => q = r

TimesOf(table) == {r.ts : r \in table}

\* Counting newer rows is counting newer times.
LEMMA NewerRows ==
    ASSUME NEW table \in SUBSET Rows, Unique(table), IsFiniteSet(table), NEW t
    PROVE  Cardinality({q \in table : q.ts > t}) = Cardinality(Above(TimesOf(table), t))
<1> DEFINE A == {q \in table : q.ts > t}
           B == Above(TimesOf(table), t)
           f == [q \in A |-> q.ts]
<1>1. IsFiniteSet(A)
  BY FS_Subset
<1>2. f \in [A -> B]
  BY DEF Above, TimesOf
<1>3. \A q, r \in A : f[q] = f[r] => q = r
  BY DEF Unique
<1>4. \A u \in B : \E q \in A : f[q] = u
  BY DEF Above, TimesOf
<1>5. ExistsBijection(A, B)
  BY <1>2, <1>3, <1>4 DEF ExistsBijection, Bijection, Injection, Surjection, IsInjective
<1> QED
  BY <1>1, <1>5, FS_Bijection

\* Pruning leaves the history as it is (pruneCheckHistory, and ipHistory's ORDER BY
\* and LIMIT).
LEMMA RetainedHistory ==
    ASSUME NEW table \in SUBSET Rows, Unique(table), IsFiniteSet(table)
    PROVE  IpHistory(Retained(table)) = IpHistory(table)
<1>1. TimesOf(table) \in SUBSET Times
  BY DEF TimesOf, Rows
<1>2. \A r \in table : Cardinality({q \in table : q.ts > r.ts}) = Cardinality(Above(TimesOf(table), r.ts))
  BY NewerRows
<1>3. TimesOf(Retained(table)) = Newest(TimesOf(table))
  BY <1>2 DEF TimesOf, Retained, Newest, Above
<1> QED
  BY <1>1, <1>3, NewestTwice DEF IpHistory, TimesOf

-----------------------------------------------------------------------------
(* Types                                                                   *)

TypeInv ==
    /\ TypeOK
    /\ Unique(rows)
    /\ \A v \in DOMAIN edge : edge[v] \in Histories

\* One call of sync() changes, of one page.
LEMMA OneSync ==
    ASSUME TypeInv, NEW t \in Tabs, NEW s \in Slots, NEW new, sync' = [sync EXCEPT ![t][s] = new]
    PROVE  /\ sync'[t][s] = new
           /\ \A u \in Tabs, q \in Slots : u # t \/ q # s => sync'[u][q] = sync[u][q]
           /\ new \in Syncs => sync' \in [Tabs -> [Slots -> Syncs]]
BY DEF TypeInv, TypeOK

\* One page changes.
LEMMA OnePage ==
    ASSUME TypeInv, NEW t \in Tabs, NEW new, page' = [page EXCEPT ![t] = new]
    PROVE  /\ page'[t] = new
           /\ \A u \in Tabs : u # t => page'[u] = page[u]
           /\ new \in Pages => page' \in [Tabs -> Pages]
BY DEF TypeInv, TypeOK

\* What calls and pages begin with.
LEMMA Fresh ==
    /\ NewPage \in Pages
    /\ 0 \in Versions
    /\ \A pc \in {"idle", "shown", "version"} : Ended(pc) \in Syncs
<1>1. 0 \in Versions
  BY HistoryAssumption DEF Versions
<1> QED
  BY <1>1 DEF NewPage, Pages, Ended, Syncs, Histories

\* A call that starts.
LEMMA CalledType ==
    ASSUME TypeInv, NEW t \in Tabs, NEW s \in Slots, NEW cache \in Snapshots \cup {None},
           Called(t, s, cache)
    PROVE  /\ sync' \in [Tabs -> [Slots -> Syncs]]
           /\ sync'[t][s].pc = "version"
           /\ sync'[t][s].since = IF cache = None THEN None ELSE cache.version
           /\ sync'[t][s].asked = IpHistory(rows)
           /\ sync'[t][s].reset = FALSE
           /\ \A u \in Tabs, q \in Slots : u # t \/ q # s => sync'[u][q] = sync[u][q]
<1> DEFINE since == IF cache = None THEN None ELSE cache.version
           new == [Ended("version") EXCEPT !.since = since, !.asked = IpHistory(rows)]
<1>1. rows \in SUBSET Rows
  BY DEF TypeInv, TypeOK
<1>2. IpHistory(rows) \in Histories
  BY <1>1, NewestType DEF IpHistory, Rows, Histories
<1>3. since \in Versions \cup {None}
  BY DEF Snapshots
<1> HIDE DEF since
<1>4. /\ new \in Syncs /\ new.pc = "version" /\ new.since = since /\ new.asked = IpHistory(rows)
      /\ new.reset = FALSE
  BY <1>2, <1>3, Fresh DEF Syncs, Ended
<1>5. sync' = [sync EXCEPT ![t][s] = new]
  BY DEF Called, since
<1> HIDE DEF new
<1>6. /\ sync'[t][s] = new /\ sync' \in [Tabs -> [Slots -> Syncs]]
      /\ \A u \in Tabs, q \in Slots : u # t \/ q # s => sync'[u][q] = sync[u][q]
  BY <1>4, <1>5, OneSync
<1> QED
  BY <1>4, <1>6 DEF since

\* A snapshot shown.
LEMMA ShownType ==
    ASSUME TypeInv, NEW t \in Tabs, NEW s \in Slots, NEW fresh \in Snapshots, Shown(t, s, fresh)
    PROVE  /\ sync' \in [Tabs -> [Slots -> Syncs]] /\ page' \in [Tabs -> Pages]
           /\ sync'[t][s] = Ended("shown")
           /\ \A u \in Tabs, q \in Slots : u # t \/ q # s => sync'[u][q] = sync[u][q]
           /\ \A u \in Tabs : u # t => page'[u] = page[u]
           /\ page'[t].cache = IF page[t].cache = None \/ fresh.version # page[t].cache.version
                               THEN fresh ELSE page[t].cache
           /\ page'[t].phase = page[t].phase /\ page'[t].read = page[t].read
<1> DEFINE cache == IF page[t].cache = None \/ fresh.version # page[t].cache.version
                    THEN fresh ELSE page[t].cache
           new == [page[t] EXCEPT !.cache = cache]
<1>1. page[t] \in Pages
  BY DEF TypeInv, TypeOK
<1>2. cache \in Snapshots \cup {None}
  BY <1>1 DEF Pages
<1>3. page' = [page EXCEPT ![t] = new]
  BY DEF Shown
<1> HIDE DEF cache
<1>4. new \in Pages /\ new.cache = cache /\ new.phase = page[t].phase /\ new.read = page[t].read
  BY <1>1, <1>2 DEF Pages
<1>5. sync' = [sync EXCEPT ![t][s] = Ended("shown")]
  BY DEF Shown
<1> HIDE DEF new
<1>6. Ended("shown") \in Syncs
  BY Fresh
<1> DEFINE end == Ended("shown")
<1> HIDE DEF end
<1>7. /\ sync'[t][s] = end /\ sync' \in [Tabs -> [Slots -> Syncs]]
      /\ \A u \in Tabs, q \in Slots : u # t \/ q # s => sync'[u][q] = sync[u][q]
  <2>1. sync' = [sync EXCEPT ![t][s] = end] /\ end \in Syncs
    BY <1>5, <1>6 DEF end
  <2> QED
    BY <2>1, OneSync
<1>8. page'[t] = new /\ page' \in [Tabs -> Pages] /\ \A u \in Tabs : u # t => page'[u] = page[u]
  BY <1>3, <1>4, OnePage
<1> QED
  BY <1>4, <1>7, <1>8 DEF cache, end

\* A retention is not exceeded by what it retains.
LEMMA RetainedType ==
    ASSUME NEW table \in SUBSET Rows
    PROVE  Retained(table) \in SUBSET table /\ Retained(table) \in SUBSET Rows
BY DEF Retained

\* Rows are finitely many.
LEMMA RowsFinite ==
    ASSUME NEW table \in SUBSET Rows, Unique(table)
    PROVE  IsFiniteSet(table) /\ Cardinality(table) \in Nat
<1> DEFINE B == TimesOf(table)
           f == [q \in table |-> q.ts]
<1>1. IsFiniteSet(B)
  BY TimesFinite DEF TimesOf, Rows
<1>2. f \in [table -> B]
  BY DEF TimesOf
<1>3. \A q, r \in table : f[q] = f[r] => q = r
  BY DEF Unique
<1>4. f \in Injection(table, B)
  BY <1>2, <1>3 DEF Injection, IsInjective
<1> QED
  BY <1>1, <1>4, FS_Injection, FS_CardinalityType

\* The step of ip_checks: a new row, the last one left out, or none.
LEMMA InsertEffect ==
    ASSUME TypeInv, NEW ts \in Times, InsertCheck(ts)
    PROVE  /\ rows' \in SUBSET Rows /\ Unique(rows)'
           /\ NextId(rows) \in Versions
           /\ IpHistoryVersion(rows') = NextId(rows)
           /\ IpHistoryVersion(rows) < NextId(rows)
<1> DEFINE id == NextId(rows)
           row == [id |-> id, ts |-> ts]
<1>0. rows \in SUBSET Rows /\ Unique(rows) /\ other \in Versions /\ MaxId \in Nat
  BY HistoryAssumption DEF TypeInv, TypeOK
<1>1. id \in Nat /\ id >= 1 /\ IpHistoryVersion(rows) < id /\ \A r \in rows : r.id < id
  BY <1>0, NextIdBound
<1>2. id <= MaxId /\ (ts \notin {r.ts : r \in rows}) /\ rows' = rows \cup {row}
  BY DEF InsertCheck
<1>3. id \in 1..MaxId /\ id \in Versions
  BY <1>0, <1>1, <1>2 DEF Versions
<1> HIDE DEF id
<1>4. row \in Rows
  BY <1>3 DEF Rows
<1>5. rows' \in SUBSET Rows
  BY <1>0, <1>2, <1>4
<1>6. \A r \in rows : r.id \in Nat /\ r.id # id /\ r.ts # ts
  <2>1. \A r \in rows : r.id \in Nat
    BY <1>0 DEF Rows
  <2> QED
    BY <1>1, <1>2, <2>1
<1>7. Unique(rows)'
  BY <1>0, <1>2, <1>6 DEF Unique
<1>8. IpHistoryVersion(rows') = id
  <2>1. /\ \A r \in rows' : r.id <= IpHistoryVersion(rows')
        /\ \E r \in rows' : r.id = IpHistoryVersion(rows')
    BY <1>2, <1>5, VersionBound
  <2>2. row \in rows' /\ row.id = id
    BY <1>2
  <2>3. \A r \in rows' : r.id <= id
    BY <1>1, <1>2, <1>6
  <2>4. IpHistoryVersion(rows') \in Nat /\ id \in Nat
    BY <1>0, <1>1, <1>5, VersionBound DEF Versions
  <2>5. id <= IpHistoryVersion(rows') /\ IpHistoryVersion(rows') <= id
    BY <2>1, <2>2, <2>3
  <2> QED
    BY <2>4, <2>5
<1> QED
  BY <1>1, <1>3, <1>5, <1>7, <1>8 DEF id

\* Every step of writers, handlers and pages keeps the types.
LEMMA TypeStep == TypeInv /\ [Next]_vars => TypeInv'
<1> SUFFICES ASSUME TypeInv, [Next]_vars PROVE TypeInv'
  OBVIOUS
<1>0. TypeOK /\ Unique(rows) /\ (\A v \in DOMAIN edge : edge[v] \in Histories) /\ rows \in SUBSET Rows
  BY DEF TypeInv, TypeOK
<1>s. ASSUME NEW t \in Tabs, NEW s \in Slots
      PROVE  /\ sync[t][s] \in Syncs /\ page[t] \in Pages
             /\ page[t].cache \in Snapshots \cup {None} /\ page[t].read \in Snapshots \cup {None}
  BY <1>0 DEF TypeOK, Pages
<1>v. IpHistoryVersion(rows) \in Versions /\ IpHistory(rows) \in Histories
  BY <1>0, VersionBound, NewestType DEF IpHistory, Rows, Histories
<1>a. ASSUME UNCHANGED <<rows, pool, other, hist, edge, idb>>,
             page' \in [Tabs -> Pages], sync' \in [Tabs -> [Slots -> Syncs]]
      PROVE  TypeInv'
  BY <1>a, <1>0 DEF TypeInv, TypeOK
<1>b. ASSUME UNCHANGED <<rows, pool, other, hist, edge, idb, page>>, NEW t \in Tabs, NEW s \in Slots,
             NEW new \in Syncs, sync' = [sync EXCEPT ![t][s] = new]
      PROVE  TypeInv'
  <2>1. page' \in [Tabs -> Pages]
    BY <1>b, <1>0 DEF TypeOK
  <2> QED
    BY <1>a, <1>b, <2>1, OneSync
<1>1. CASE UNCHANGED vars
  BY <1>1, <1>0 DEF vars, TypeInv, TypeOK
<1>2. ASSUME NEW ts \in Times, InsertCheck(ts) PROVE TypeInv'
  <2>1. rows' \in SUBSET Rows /\ Unique(rows)' /\ IpHistoryVersion(rows') \in Versions
    BY <1>2, InsertEffect
  <2>2. Cardinality({r \in rows' : r.ts > pool.at}) \in Nat
    BY <2>1, RowsFinite, FS_Subset, FS_CardinalityType
  <2>3. pool' \in [count : Nat, at : 0..MaxTime]
    <3> DEFINE n == Cardinality({r \in rows' : r.ts > pool.at})
    <3>1. n \in Nat
      BY <2>2
    <3>2. pool' = [count |-> pool.count + n, at |-> ts] /\ pool.count \in Nat /\ ts \in 0..MaxTime
      BY <1>0, <1>2 DEF InsertCheck, TypeOK, Times
    <3> HIDE DEF n
    <3> QED
      BY <3>1, <3>2
  <2>4. DOMAIN hist' \subseteq Versions
    BY <1>0, <1>2, <2>1 DEF InsertCheck, TypeOK
  <2> QED
    BY <1>0, <1>2, <2>1, <2>3, <2>4 DEF InsertCheck, TypeInv, TypeOK
<1>3. CASE InsertOther
  <2>1. NextId(rows) \in Nat /\ NextId(rows) <= MaxId /\ MaxId \in Nat
    BY <1>0, <1>3, NextIdBound, HistoryAssumption DEF InsertOther, TypeOK
  <2>2. other' \in Versions
    BY <1>3, <2>1 DEF InsertOther, Versions
  <2> QED
    BY <1>0, <1>3, <2>2 DEF InsertOther, TypeInv, TypeOK
<1>4. CASE PruneCheckHistory
  <2>1. rows' \in SUBSET rows /\ rows' \in SUBSET Rows
    BY <1>0, <1>4, RetainedType DEF PruneCheckHistory
  <2>2. Unique(rows)'
    BY <1>0, <2>1 DEF Unique
  <2>3. Cardinality(rows') \in Nat
    BY <2>1, <2>2, RowsFinite
  <2>4. pool' \in [count : Nat, at : 0..MaxTime]
    BY <1>0, <1>4, <2>3 DEF PruneCheckHistory, TypeOK
  <2> QED
    BY <1>0, <1>4, <2>1, <2>2, <2>4 DEF PruneCheckHistory, TypeInv, TypeOK
<1>5. ASSUME NEW t \in Tabs, OpenCache(t) PROVE TypeInv'
  <2> DEFINE new == [page[t] EXCEPT !.phase = "reading", !.read = idb]
  <2>1. page[t] \in Pages /\ idb \in Snapshots \cup {None}
    BY <1>0 DEF TypeOK
  <2>2. new \in Pages
    BY <2>1 DEF Pages
  <2>3. page' = [page EXCEPT ![t] = new]
    BY <1>5 DEF OpenCache
  <2> HIDE DEF new
  <2>4. page' \in [Tabs -> Pages]
    BY <2>2, <2>3, OnePage
  <2> QED
    BY <1>0, <1>5, <1>a, <2>4 DEF OpenCache, TypeOK
<1>6. ASSUME NEW t \in Tabs, Reopen(t) PROVE TypeInv'
  <2>1. page' \in [Tabs -> Pages]
    BY <1>6, OnePage, Fresh DEF Reopen
  <2>2. sync' \in [Tabs -> [Slots -> Syncs]]
    BY <1>0, <1>6, Fresh DEF Reopen, TypeOK
  <2> QED
    BY <1>6, <1>a, <2>1, <2>2 DEF Reopen
<1>7. ASSUME NEW t \in Tabs, NEW s \in Slots, Refresh(t, s) PROVE TypeInv'
  <2>1. sync' \in [Tabs -> [Slots -> Syncs]]
    BY <1>7, <1>s, CalledType DEF Refresh
  <2> QED
    BY <1>0, <1>7, <1>a, <2>1 DEF Refresh, TypeOK
<1>8. ASSUME NEW t \in Tabs, NEW s \in Slots, ReadCache(t, s) PROVE TypeInv'
  <2> DEFINE new == [page[t] EXCEPT !.phase = "open", !.cache = page[t].read, !.read = None]
  <2>1. new \in Pages
    BY <1>s DEF Pages
  <2>2. page' = [page EXCEPT ![t] = new]
    BY <1>8 DEF ReadCache
  <2> HIDE DEF new
  <2>3. page' \in [Tabs -> Pages]
    BY <2>1, <2>2, OnePage
  <2>4. sync' \in [Tabs -> [Slots -> Syncs]]
    BY <1>8, <1>s, CalledType DEF ReadCache
  <2> QED
    BY <1>8, <1>a, <2>3, <2>4 DEF ReadCache
<1>9. ASSUME NEW t \in Tabs, NEW s \in Slots, OpenFails(t, s) PROVE TypeInv'
  <2> DEFINE new == [page[t] EXCEPT !.phase = "none", !.cache = None, !.read = None]
  <2>1. new \in Pages
    BY <1>s DEF Pages
  <2>2. page' = [page EXCEPT ![t] = new]
    BY <1>9 DEF OpenFails
  <2> HIDE DEF new
  <2>3. page' \in [Tabs -> Pages]
    BY <2>1, <2>2, OnePage
  <2>4. sync' \in [Tabs -> [Slots -> Syncs]]
    BY <1>9, CalledType DEF OpenFails
  <2> QED
    BY <1>9, <1>a, <2>3, <2>4 DEF OpenFails
<1>10. ASSUME NEW t \in Tabs, NEW s \in Slots, SyncFails(t, s) PROVE TypeInv'
  BY <1>10, <1>b, Fresh DEF SyncFails
<1>11. ASSUME NEW t \in Tabs, NEW s \in Slots, ReadVersion(t, s) PROVE TypeInv'
  <2> DEFINE v == IpHistoryVersion(rows)
             since == sync[t][s].since
             ahead == since # None /\ since > v
             pc == IF since = v THEN "receive" ELSE IF ahead THEN "load" ELSE "match"
             new == [sync[t][s] EXCEPT !.version = v, !.reset = ahead, !.pc = pc]
  <2>1. ahead \in BOOLEAN /\ pc \in {"receive", "load", "match"} /\ v \in Versions
    BY <1>v
  <2>2. sync' = [sync EXCEPT ![t][s] = new]
    BY <1>11 DEF ReadVersion
  <2>4. UNCHANGED <<rows, pool, other, hist, edge, idb, page>>
    BY <1>11 DEF ReadVersion
  <2> HIDE DEF v, since, ahead, pc
  <2>3. new \in Syncs
    BY <1>s, <2>1 DEF Syncs
  <2> HIDE DEF new
  <2> QED
    BY <1>b, <2>2, <2>3, <2>4
<1>12. ASSUME NEW t \in Tabs, NEW s \in Slots, MatchEdge(t, s) PROVE TypeInv'
  <2>1. CASE sync[t][s].version \in DOMAIN edge
             /\ sync' = [sync EXCEPT ![t][s].pc = "receive", ![t][s].checks = edge[sync[t][s].version]]
    <3> DEFINE checks == edge[sync[t][s].version]
               new == [sync[t][s] EXCEPT !.pc = "receive", !.checks = checks]
    <3>1. checks \in Histories
      BY <1>0, <2>1
    <3>2. sync' = [sync EXCEPT ![t][s] = new]
      BY <2>1
    <3> HIDE DEF checks
    <3>3. new \in Syncs
      BY <1>s, <3>1 DEF Syncs
    <3> QED
      BY <1>12, <1>b, <3>2, <3>3 DEF MatchEdge
  <2>2. CASE sync' = [sync EXCEPT ![t][s].pc = "load"]
    <3> DEFINE new == [sync[t][s] EXCEPT !.pc = "load"]
    <3>1. new \in Syncs
      BY <1>s DEF Syncs
    <3> QED
      BY <1>12, <1>b, <2>2, <3>1 DEF MatchEdge
  <2> QED
    BY <1>12, <2>1, <2>2 DEF MatchEdge
<1>13. ASSUME NEW t \in Tabs, NEW s \in Slots, LoadHistory(t, s) PROVE TypeInv'
  <2> DEFINE h == IpHistory(rows)
             new == [sync[t][s] EXCEPT !.pc = "verify", !.checks = h]
  <2>1. h \in Histories
    BY <1>v
  <2>2. sync' = [sync EXCEPT ![t][s] = new]
    BY <1>13 DEF LoadHistory
  <2> HIDE DEF h
  <2>3. new \in Syncs
    BY <1>s, <2>1 DEF Syncs
  <2> HIDE DEF new
  <2> QED
    BY <1>13, <1>b, <2>2, <2>3 DEF LoadHistory
<1>14. ASSUME NEW t \in Tabs, NEW s \in Slots, SendHistory(t, s) PROVE TypeInv'
  <2>1. sync' \in [Tabs -> [Slots -> Syncs]]
    <3>1. CASE sync' = [sync EXCEPT ![t][s].pc = "receive"]
      <4> DEFINE new == [sync[t][s] EXCEPT !.pc = "receive"]
      <4>1. new \in Syncs
        BY <1>s DEF Syncs
      <4> QED
        BY <3>1, <4>1, OneSync
    <3>2. CASE sync' = [sync EXCEPT ![t][s] = Ended("idle")]
      BY <3>2, OneSync, Fresh
    <3> QED
      BY <1>14, <3>1, <3>2 DEF SendHistory
  <2>2. \/ edge' = edge
        \/ edge' = [v \in DOMAIN edge \cup {sync[t][s].version} |->
                      IF v = sync[t][s].version THEN sync[t][s].checks ELSE edge[v]]
    BY <1>14 DEF SendHistory
  <2>3. sync[t][s].version \in Versions /\ sync[t][s].checks \in Histories
    BY <1>s DEF Syncs
  <2>4. (DOMAIN edge \subseteq Versions)' /\ (\A v \in DOMAIN edge : edge[v] \in Histories)'
    BY <1>0, <2>2, <2>3 DEF TypeOK
  <2> QED
    BY <1>0, <1>14, <2>1, <2>4 DEF SendHistory, TypeInv, TypeOK
<1>n. ASSUME NEW t \in Tabs, NEW s \in Slots PROVE Snapshot(sync[t][s]) \in Snapshots
  BY <1>s DEF Snapshot, Snapshots, Syncs
<1>15. ASSUME NEW t \in Tabs, NEW s \in Slots, Receive(t, s) PROVE TypeInv'
  <2>1. CASE Keeps(page[t].cache, sync[t][s]) /\ Shown(t, s, page[t].cache)
    <3>1. page[t].cache \in Snapshots
      BY <1>s, <2>1 DEF Keeps
    <3> QED
      BY <1>15, <1>a, <2>1, <3>1, ShownType DEF Receive
  <2>2. CASE Shown(t, s, Snapshot(sync[t][s]))
    BY <1>15, <1>a, <1>n, <2>2, ShownType DEF Receive
  <2>3. CASE sync' = [sync EXCEPT ![t][s].pc = "write"] /\ page' = page
    <3> DEFINE new == [sync[t][s] EXCEPT !.pc = "write"]
    <3>1. new \in Syncs
      BY <1>s DEF Syncs
    <3> QED
      BY <1>15, <1>b, <2>3, <3>1 DEF Receive
  <2> QED
    BY <1>15, <2>1, <2>2, <2>3 DEF Receive
<1>16. ASSUME NEW t \in Tabs, NEW s \in Slots, WriteCache(t, s) PROVE TypeInv'
  <2>1. Saved(sync[t][s]) \in Snapshots
    BY <1>0, <1>n DEF Saved, TypeOK
  <2>2. sync' \in [Tabs -> [Slots -> Syncs]] /\ page' \in [Tabs -> Pages]
    BY <1>16, <2>1, ShownType DEF WriteCache
  <2> QED
    BY <1>0, <1>16, <2>1, <2>2 DEF WriteCache, TypeInv, TypeOK
<1> QED
  BY <1>1, <1>2, <1>3, <1>4, <1>5, <1>6, <1>7, <1>8, <1>9, <1>10, <1>11, <1>12, <1>13, <1>14, <1>15, <1>16
     DEF Next

\* TypeInv is an invariant.
LEMMA TypeInvariant == Spec => []TypeInv
<1>1. Init => TypeInv
  <2> SUFFICES ASSUME Init PROVE TypeInv
    OBVIOUS
  <2>1. MaxTime \in Nat
    BY HistoryAssumption
  <2>2. DOMAIN hist \subseteq Versions
    BY Fresh DEF Init
  <2>3. edge = <<>> /\ DOMAIN edge = {}
    BY DEF Init
  <2> QED
    BY <2>1, <2>2, <2>3, Fresh DEF Init, TypeInv, TypeOK, Unique
<1> QED
  BY <1>1, TypeStep, PTL DEF Spec

\* Every variable keeps its type: the table, its versions, the caches, and the pages
\* with their calls of sync().
THEOREM TypeCorrect == Spec => []TypeOK
<1>1. TypeInv => TypeOK
  BY DEF TypeInv
<1> QED
  BY <1>1, TypeInvariant, PTL

-----------------------------------------------------------------------------
(* The table and its versions                                              *)

\* The row with the largest id is retained: nothing has been saved after it.
LastRetained ==
    \A m \in rows : m.id = IpHistoryVersion(rows)
      => Cardinality({r \in rows : r.ts > m.ts}) < Retention

\* A version stands for one history, and a later one covers it.
TableInv ==
    /\ LastRetained
    /\ IpHistoryVersion(rows) \in DOMAIN hist
    /\ \A v \in DOMAIN hist : v <= IpHistoryVersion(rows) /\ hist[v] \in Histories
    /\ VersionDetermines
    /\ \A v, w \in DOMAIN hist : v <= w => Covers(hist[w], hist[v])

\* What versions stood for they stand for.
HistKept ==
    /\ DOMAIN hist \subseteq DOMAIN hist'
    /\ \A v \in DOMAIN hist : hist'[v] = hist[v]

\* Saving a check adds a version and keeps the others (saveChecks).
LEMMA InsertTable ==
    ASSUME ~Late, TypeInv, TableInv, NEW ts \in Times, InsertCheck(ts)
    PROVE  TableInv' /\ HistKept
<1> DEFINE id == NextId(rows)
           row == [id |-> id, ts |-> ts]
           V == IpHistoryVersion(rows)
           h == IpHistory(rows)
           new == IpHistory(rows')
<1>0. /\ rows \in SUBSET Rows /\ Unique(rows) /\ rows' \in SUBSET Rows /\ Unique(rows')
      /\ id \in Versions /\ IpHistoryVersion(rows') = id /\ V < id /\ V \in Versions
      /\ MaxId \in Nat /\ DOMAIN hist \subseteq Versions
  BY InsertEffect, VersionBound, HistoryAssumption DEF TypeInv, TypeOK
<1>1. /\ rows' = rows \cup {row} /\ Cardinality({r \in rows : r.ts > ts}) < Retention
      /\ hist' = [v \in DOMAIN hist \cup {id} |-> IF v \in DOMAIN hist THEN hist[v] ELSE new]
  BY <1>0 DEF InsertCheck
<1>2. \A v \in DOMAIN hist : v \in Nat /\ v <= V /\ V \in Nat /\ id \in Nat /\ v < id /\ v # id
  <2> SUFFICES ASSUME NEW v \in DOMAIN hist
               PROVE  v \in Nat /\ v <= V /\ V \in Nat /\ id \in Nat /\ v < id /\ v # id
    OBVIOUS
  <2> HIDE DEF V, id
  <2>1. v \in Nat /\ V \in Nat /\ id \in Nat
    BY <1>0 DEF Versions
  <2>2. v <= V
    BY DEF TableInv, V
  <2> QED
    BY <1>0, <2>1, <2>2
<1>3. HistKept
  BY <1>1 DEF HistKept
<1>4. hist'[id] = new /\ DOMAIN hist' = DOMAIN hist \cup {id}
  BY <1>1, <1>2
<1>5. new \in Histories /\ h \in Histories
  BY <1>0, NewestType DEF IpHistory, Rows, Histories
<1>6. LastRetained'
  <2> SUFFICES ASSUME NEW m \in rows', m.id = id
               PROVE  Cardinality({r \in rows' : r.ts > m.ts}) < Retention
    BY <1>0 DEF LastRetained
  <2>1. m = row
    BY <1>0, <1>1 DEF Unique
  <2>2. {r \in rows' : r.ts > m.ts} = {r \in rows : r.ts > ts}
    <3>1. ~(ts > ts)
      BY DEF Times
    <3> QED
      BY <1>1, <2>1, <3>1
  <2> QED
    BY <1>1, <2>2
<1>7. Covers(new, h) /\ Covers(new, new)
  <2> DEFINE T == TimesOf(rows')
             S == new \cup h
  <2>1. T \in SUBSET Times /\ TimesOf(rows) \in SUBSET T
    BY <1>0, <1>1 DEF TimesOf, Rows
  <2>2. new = Newest(T) /\ h = Newest(TimesOf(rows))
    BY DEF IpHistory, TimesOf
  <2>3. S \in SUBSET T /\ Newest(T) \subseteq S /\ new \cup new = new
    BY <2>1, <2>2, NewestType
  <2> HIDE DEF T, S
  <2>4. Newest(S) = Newest(T) /\ Newest(Newest(T)) = Newest(T)
    BY <2>1, <2>3, NewestOf, NewestTwice
  <2> QED
    BY <2>2, <2>3, <2>4 DEF Covers, S
<1>8. hist[V] = h /\ V \in DOMAIN hist
  BY DEF TableInv, VersionDetermines
<1>9. \A v \in DOMAIN hist : Covers(new, hist[v])
  <2> SUFFICES ASSUME NEW v \in DOMAIN hist PROVE Covers(new, hist[v])
    OBVIOUS
  <2>1. Covers(h, hist[v]) /\ hist[v] \in Histories
    BY <1>8 DEF TableInv
  <2> QED
    BY <1>5, <1>7, <2>1, CoversTransitive
<1> HIDE DEF new, id, h, V
<1>10. \A v, w \in DOMAIN hist' : v <= w => Covers(hist'[w], hist'[v])
  <2> SUFFICES ASSUME NEW v \in DOMAIN hist', NEW w \in DOMAIN hist', v <= w
               PROVE  Covers(hist'[w], hist'[v])
    OBVIOUS
  <2>1. CASE w = id
    BY <1>1, <1>4, <1>7, <1>9, <2>1
  <2>2. CASE w # id
    <3>1. w \in DOMAIN hist /\ w < id /\ w \in Nat /\ id \in Nat
      BY <1>2, <1>4, <2>2
    <3>2. v # id
      BY <3>1
    <3> QED
      BY <1>1, <1>4, <3>1, <3>2 DEF TableInv
  <2> QED
    BY <2>1, <2>2
<1>11. \A v \in DOMAIN hist' : v <= id /\ hist'[v] \in Histories
  <2> SUFFICES ASSUME NEW v \in DOMAIN hist' PROVE v <= id /\ hist'[v] \in Histories
    OBVIOUS
  <2>1. CASE v = id
    <3>1. id \in Nat
      BY <1>0 DEF Versions
    <3> QED
      BY <1>4, <1>5, <2>1, <3>1
  <2>2. CASE v # id
    <3>1. v \in DOMAIN hist /\ hist'[v] = hist[v]
      BY <1>1, <1>4, <2>2
    <3>2. v \in Nat /\ id \in Nat /\ v < id /\ hist[v] \in Histories
      BY <1>2, <3>1 DEF TableInv
    <3> QED
      BY <3>1, <3>2
  <2> QED
    BY <2>1, <2>2
<1>12. IpHistoryVersion(rows') = id
  BY <1>0 DEF id
<1>13. VersionDetermines'
  BY <1>4, <1>12 DEF VersionDetermines, new
<1> QED
  BY <1>3, <1>4, <1>6, <1>10, <1>11, <1>12, <1>13 DEF TableInv

\* Pruning adds no version and takes none away: the row that carries the present
\* one stays, and so does the history.
LEMMA PruneTable ==
    ASSUME TypeInv, TableInv, PruneCheckHistory
    PROVE  TableInv' /\ HistKept
<1>0. rows \in SUBSET Rows /\ Unique(rows) /\ IsFiniteSet(rows) /\ Retention \in Nat \ {0}
  BY RowsFinite, HistoryAssumption DEF TypeInv, TypeOK
<1>1. rows' = Retained(rows) /\ hist' = hist /\ rows' \in SUBSET rows /\ rows' \in SUBSET Rows
  BY <1>0, RetainedType DEF PruneCheckHistory
<1>2. IpHistory(rows') = IpHistory(rows)
  BY <1>0, <1>1, RetainedHistory
<1>3. IpHistoryVersion(rows') = IpHistoryVersion(rows)
  <2>1. CASE rows = {}
    BY <1>0, <1>1, <2>1, VersionBound
  <2>2. CASE rows # {}
    <3>1. PICK m \in rows : m.id = IpHistoryVersion(rows)
      BY <1>0, <2>2, VersionBound
    <3>2. m \in rows'
      BY <1>1, <3>1 DEF TableInv, LastRetained, Retained
    <3>3. PICK n \in rows' : n.id = IpHistoryVersion(rows')
      BY <1>1, <3>2, VersionBound
    <3>4. n.id <= m.id /\ m.id <= n.id
      BY <1>0, <1>1, <3>1, <3>2, <3>3, VersionBound
    <3>5. n.id \in Int /\ m.id \in Int
      BY <1>0, <1>1 DEF Rows
    <3> QED
      BY <3>1, <3>3, <3>4, <3>5
  <2> QED
    BY <2>1, <2>2
<1>4. LastRetained'
  <2> SUFFICES ASSUME NEW m \in rows', m.id = IpHistoryVersion(rows')
               PROVE  Cardinality({r \in rows' : r.ts > m.ts}) < Retention
    BY DEF LastRetained
  <2> DEFINE A == {r \in rows : r.ts > m.ts}
             B == {r \in rows' : r.ts > m.ts}
  <2>1. Cardinality(A) < Retention
    BY <1>1, <1>3 DEF TableInv, LastRetained
  <2>2. IsFiniteSet(A) /\ B \in SUBSET A
    BY <1>0, <1>1, FS_Subset
  <2> HIDE DEF A, B
  <2>3. Cardinality(B) <= Cardinality(A) /\ Cardinality(A) \in Nat /\ Cardinality(B) \in Nat
    BY <2>2, FS_Subset, FS_CardinalityType
  <2>4. Cardinality(B) < Retention
    BY <1>0, <2>1, <2>3
  <2> QED
    BY <2>4 DEF B
<1> QED
  BY <1>1, <1>2, <1>3, <1>4 DEF TableInv, VersionDetermines, HistKept

\* Every step keeps the table's invariant and what the versions stand for.
LEMMA TableStep ==
    ASSUME ~Late, TypeInv, TableInv, [Next]_vars
    PROVE  TableInv' /\ HistKept
<1>1. ASSUME UNCHANGED <<rows, hist>> PROVE TableInv' /\ HistKept
  BY <1>1 DEF TableInv, LastRetained, VersionDetermines, HistKept
<1>2. UNCHANGED <<rows, hist>> \/ PruneCheckHistory \/ \E ts \in Times : InsertCheck(ts)
  <2>1. UNCHANGED vars \/ InsertOther => UNCHANGED <<rows, hist>>
    BY DEF vars, InsertOther
  <2>2. \A t \in Tabs : OpenCache(t) \/ Reopen(t) => UNCHANGED <<rows, hist>>
    BY DEF OpenCache, Reopen
  <2>3. \A t \in Tabs, s \in Slots :
          Refresh(t, s) \/ ReadCache(t, s) \/ OpenFails(t, s) \/ SyncFails(t, s) \/ ReadVersion(t, s)
            => UNCHANGED <<rows, hist>>
    BY DEF Refresh, ReadCache, OpenFails, SyncFails, ReadVersion
  <2>4. \A t \in Tabs, s \in Slots :
          MatchEdge(t, s) \/ LoadHistory(t, s) \/ SendHistory(t, s) \/ Receive(t, s) \/ WriteCache(t, s)
            => UNCHANGED <<rows, hist>>
    BY DEF MatchEdge, LoadHistory, SendHistory, Receive, WriteCache
  <2> QED
    BY <2>1, <2>2, <2>3, <2>4 DEF Next
<1> QED
  BY <1>1, <1>2, InsertTable, PruneTable

\* The table starts empty.
LEMMA TableInit == Init => TableInv
<1> SUFFICES ASSUME Init PROVE TableInv
  OBVIOUS
<1>1. rows = {} /\ hist = [v \in {0} |-> {}]
  BY DEF Init
<1>2. IpHistoryVersion(rows) = 0 /\ IpHistory(rows) = {}
  BY <1>1 DEF IpHistoryVersion, IpHistory, Newest
<1>3. Covers({}, {}) /\ {} \in Histories
  BY DEF Covers, Newest, Histories
<1> QED
  BY <1>1, <1>2, <1>3 DEF TableInv, LastRetained, VersionDetermines

\* "A stable version also means the newest retained rows are unchanged"
\* (ipHistoryVersion): a version never stands for two histories, for any retention
\* and any order in which the checks of the retained span come.  Not when one comes
\* after as many newer ones as are retained: it takes the largest id and leaves the
\* table with the next pruning.
THEOREM VersionSafe ==
    ASSUME ~Late
    PROVE  Spec => []VersionDetermines
<1>1. TypeInv /\ TableInv /\ [Next]_vars => TableInv'
  BY TableStep
<1>2. TableInv => VersionDetermines
  BY DEF TableInv
<1> QED
  BY <1>1, <1>2, TableInit, TypeInvariant, PTL DEF Spec

-----------------------------------------------------------------------------
(* Pages and caches                                                        *)

\* A snapshot is the history of a version that there has been.
Known(snap) == snap # None => snap.version \in DOMAIN hist /\ snap.checks = hist[snap.version]

\* IndexedDB has that snapshot or a later one.
Kept(snap) == snap # None => idb # None /\ snap.version <= idb.version

\* What a page has read and shows; as long as it opens its cache it shows nothing.
PageOK(p) ==
    /\ Known(p.cache) /\ Known(p.read)
    /\ p.phase \in {"opening", "reading"} => p.cache = None
    /\ p.phase = "reading" => Kept(p.read)
    /\ p.phase = "open" => Kept(p.cache)

Busies == {"version", "match", "load", "verify", "receive", "write"}

\* A call of sync() under way in a page: it names a version that the page shows or
\* has shown, is never ahead of the table, and what it brings is the history of the
\* version it found, unless that is the one it named.
CallOK(q, p) ==
    /\ p.phase \in {"open", "none"}
    /\ q.reset = FALSE
    /\ q.since # None => p.cache # None /\ q.since <= p.cache.version
    /\ q.pc # "version" => q.version \in DOMAIN hist
    /\ \E v \in DOMAIN hist : q.asked = hist[v] /\ (q.pc # "version" => v <= q.version)
    /\ q.pc = "verify" => \E v \in DOMAIN hist : q.version <= v /\ q.checks = hist[v]
    /\ q.pc = "receive" => q.since = q.version \/ q.checks = hist[q.version]
    /\ q.pc = "write" => p.phase = "open" /\ q.checks = hist[q.version]

SyncOK(q, p) == q.pc \in Busies => CallOK(q, p)

EdgeOK == \A v \in DOMAIN edge : v \in DOMAIN hist /\ edge[v] = hist[v]

SyncInv ==
    /\ Known(idb)
    /\ EdgeOK
    /\ \A t \in Tabs : PageOK(page[t])
    /\ \A t \in Tabs, s \in Slots : SyncOK(sync[t][s], page[t])

\* Who is not under way is in nobody's way.
LEMMA Resting == \A p : SyncOK(Ended("idle"), p) /\ SyncOK(Ended("shown"), p)
BY DEF SyncOK, Ended, Busies

\* More versions change nothing for pages and caches.
LEMMA HistTransfer ==
    ASSUME SyncInv, HistKept, UNCHANGED <<edge, idb, page, sync>>
    PROVE  SyncInv'
<1>1. Known(idb)' /\ EdgeOK'
  BY DEF SyncInv, HistKept, Known, EdgeOK
<1>2. ASSUME NEW t \in Tabs PROVE PageOK(page[t])'
  <2>1. PageOK(page[t]) /\ page' = page /\ idb' = idb
    BY DEF SyncInv
  <2> QED
    BY <2>1 DEF HistKept, PageOK, Known, Kept
<1>3. ASSUME NEW t \in Tabs, NEW s \in Slots PROVE SyncOK(sync[t][s], page[t])'
  <2> SUFFICES ASSUME sync[t][s].pc \in Busies PROVE CallOK(sync[t][s], page[t])'
    BY DEF SyncOK
  <2>1. CallOK(sync[t][s], page[t]) /\ page' = page /\ sync' = sync
    BY DEF SyncInv, SyncOK
  <2>2. /\ sync[t][s].pc = "receive" => sync[t][s].version \in DOMAIN hist
        /\ sync[t][s].pc = "write" => sync[t][s].version \in DOMAIN hist
    BY <2>1 DEF CallOK
  <2>3. PICK v \in DOMAIN hist : /\ sync[t][s].asked = hist[v]
                                 /\ sync[t][s].pc # "version" => v <= sync[t][s].version
    BY <2>1 DEF CallOK
  <2>4. v \in DOMAIN hist' /\ hist'[v] = hist[v]
    BY DEF HistKept
  <2>5. sync[t][s].pc = "verify" => \E w \in DOMAIN hist' : sync[t][s].version <= w /\ sync[t][s].checks = hist'[w]
    BY <2>1 DEF CallOK, HistKept
  <2> QED
    BY <2>1, <2>2, <2>3, <2>4, <2>5 DEF HistKept, CallOK
<1> QED
  BY <1>1, <1>2, <1>3 DEF SyncInv

\* One call changes and nothing else.
LEMMA CallMoves ==
    ASSUME TypeInv, SyncInv, NEW t \in Tabs, NEW s \in Slots, NEW new, SyncOK(new, page[t]),
           sync' = [sync EXCEPT ![t][s] = new], UNCHANGED <<hist, edge, idb, page>>
    PROVE  SyncInv'
<1>1. sync'[t][s] = new /\ \A u \in Tabs, q \in Slots : u # t \/ q # s => sync'[u][q] = sync[u][q]
  BY OneSync
<1>2. ASSUME NEW u \in Tabs, NEW q \in Slots PROVE SyncOK(sync[u][q], page[u])'
  <2>1. SyncOK(sync'[u][q], page[u])
    BY <1>1 DEF SyncInv
  <2> QED
    BY <2>1 DEF SyncOK, CallOK
<1>3. ASSUME NEW u \in Tabs PROVE PageOK(page[u])'
  BY DEF SyncInv, PageOK, Known, Kept
<1> QED
  BY <1>2, <1>3 DEF SyncInv, Known, EdgeOK

\* A call that starts is in order, whatever page it is of.
LEMMA CalledOK ==
    ASSUME TypeInv, TableInv, NEW t \in Tabs, NEW s \in Slots, NEW cache \in Snapshots \cup {None},
           Called(t, s, cache), NEW p, p.phase \in {"open", "none"}, p.cache = cache
    PROVE  SyncOK(sync'[t][s], p)
<1> DEFINE q == sync'[t][s]
<1>1. /\ q.pc = "version" /\ q.since = (IF cache = None THEN None ELSE cache.version)
      /\ q.asked = IpHistory(rows) /\ q.reset = FALSE
  BY CalledType
<1>2. IpHistoryVersion(rows) \in DOMAIN hist /\ IpHistory(rows) = hist[IpHistoryVersion(rows)]
  BY DEF TableInv, VersionDetermines
<1>3. cache # None => cache.version \in Nat
  BY HistoryAssumption DEF Snapshots, Versions
<1> HIDE DEF q
<1>4. q.since # None => p.cache # None /\ q.since <= p.cache.version
  BY <1>1, <1>3
<1> QED
  BY <1>1, <1>2, <1>4 DEF SyncOK, CallOK, q

\* A page that shows the same or a later version is as good for its calls.
LEMMA Forward ==
    ASSUME NEW q \in Syncs, NEW p \in Pages, NEW n \in Pages, SyncOK(q, p), n.phase = p.phase,
           p.cache # None => n.cache # None /\ p.cache.version <= n.cache.version
    PROVE  SyncOK(q, n)
<1> SUFFICES ASSUME CallOK(q, p) PROVE CallOK(q, n)
  BY DEF SyncOK
<1>1. \A snap \in Snapshots : snap.version \in Nat
  BY HistoryAssumption DEF Snapshots, Versions
<1>2. q.since # None => q.since \in Nat
  BY HistoryAssumption DEF Syncs, Versions
<1>3. p.cache # None => p.cache \in Snapshots
  BY DEF Pages
<1>4. n.cache # None => n.cache \in Snapshots
  BY DEF Pages
<1>5. ASSUME q.since # None PROVE n.cache # None /\ q.since <= n.cache.version
  <2>1. p.cache # None /\ q.since <= p.cache.version
    BY <1>5 DEF CallOK
  <2>2. n.cache # None /\ p.cache.version <= n.cache.version
    BY <2>1
  <2>3. q.since \in Nat /\ p.cache.version \in Nat /\ n.cache.version \in Nat
    BY <1>1, <1>2, <1>3, <1>4, <1>5, <2>1, <2>2
  <2> QED
    BY <2>1, <2>2, <2>3
<1> QED
  BY <1>5 DEF CallOK

\* What a page keeps is at least what was answered; what it does not keep it has
\* whole, and nothing as new (the two early returns of sync()).
LEMMA AnswerExact ==
    ASSUME TypeInv, TableInv, SyncInv, NEW t \in Tabs, NEW s \in Slots, sync[t][s].pc = "receive"
    PROVE  LET q == sync[t][s]
               c == page[t].cache
           IN /\ CallOK(q, page[t]) /\ q.version \in Nat
              /\ c # None => c.version \in Nat
              /\ Keeps(c, q) => c # None /\ q.version <= c.version
              /\ ~Keeps(c, q) => /\ q.checks = hist[q.version] /\ q.version \in DOMAIN hist
                                 /\ c # None => c.version <= q.version
<1> DEFINE q == sync[t][s]
           c == page[t].cache
<1>1. q \in Syncs /\ c \in Snapshots \cup {None}
  BY DEF TypeInv, TypeOK, Pages
<1>2. CallOK(q, page[t])
  BY DEF SyncInv, SyncOK, Busies
<1>3. q.version \in Nat /\ (c # None => c.version \in Nat) /\ (q.since # None => q.since \in Nat)
  BY <1>1, HistoryAssumption DEF Syncs, Snapshots, Versions
<1>4. q.reset = FALSE /\ q.version \in DOMAIN hist /\ (q.since = q.version \/ q.checks = hist[q.version])
  BY <1>2 DEF CallOK
<1>5. q.since # None => c # None /\ q.since <= c.version
  BY <1>2 DEF CallOK
<1>6. q.version # None
  BY <1>1, HistoryNoneAssumption DEF Syncs
<1> HIDE DEF q, c
<1>7. Keeps(c, q) => c # None /\ q.version <= c.version
  BY <1>3, <1>4 DEF Keeps
<1>8. ~Keeps(c, q) /\ c # None => c.version <= q.version
  BY <1>3, <1>4 DEF Keeps
<1>9. ~Keeps(c, q) => q.checks = hist[q.version]
  <2> SUFFICES ASSUME ~Keeps(c, q), q.since = q.version PROVE FALSE
    BY <1>4
  <2>1. c # None /\ q.version <= c.version
    BY <1>5, <1>6
  <2>2. c.version = q.version \/ q.version < c.version
    BY <1>3, <2>1
  <2> QED
    BY <1>4, <2>1, <2>2 DEF Keeps
<1> QED
  BY <1>2, <1>3, <1>4, <1>7, <1>8, <1>9 DEF q, c

\* What the transaction of writeCache leaves is known, and neither older than what
\* was there nor than the answer.
LEMMA SavedKnown ==
    ASSUME TypeInv, TableInv, SyncInv, NEW t \in Tabs, NEW s \in Slots, sync[t][s].pc = "write"
    PROVE  LET fresh == Saved(sync[t][s])
           IN /\ fresh \in Snapshots /\ fresh # None /\ Known(fresh) /\ fresh.version \in Nat
              /\ idb # None => idb.version \in Nat /\ idb.version <= fresh.version
              /\ sync[t][s].version <= fresh.version
<1> DEFINE q == sync[t][s]
<1>1. q \in Syncs /\ idb \in Snapshots \cup {None}
  BY DEF TypeInv, TypeOK
<1>2. CallOK(q, page[t])
  BY DEF SyncInv, SyncOK, Busies
<1>3. q.reset = FALSE /\ q.checks = hist[q.version] /\ q.version \in DOMAIN hist
  BY <1>2 DEF CallOK
<1>4. q.version \in Nat /\ (idb # None => idb.version \in Nat)
  BY <1>1, HistoryAssumption DEF Syncs, Snapshots, Versions
<1>5. Snapshot(q) \in Snapshots /\ Snapshot(q).version = q.version /\ Snapshot(q).checks = q.checks
  BY <1>1 DEF Snapshot, Snapshots, Syncs
<1> HIDE DEF q
<1>6. CASE idb # None /\ idb.version > q.version
  <2>1. Saved(q) = idb
    BY <1>3, <1>6 DEF Saved
  <2> QED
    BY <1>1, <1>4, <1>6, <2>1 DEF SyncInv, q
<1>7. CASE ~(idb # None /\ idb.version > q.version)
  <2>1. Saved(q) = Snapshot(q)
    BY <1>3, <1>7 DEF Saved
  <2>2. idb # None => idb.version <= q.version
    BY <1>4, <1>7
  <2>3. Known(Snapshot(q)) /\ Snapshot(q) # None
    BY <1>3, <1>5, HistoryNoneAssumption DEF Known
  <2> QED
    BY <1>4, <1>5, <2>1, <2>2, <2>3 DEF q
<1> QED
  BY <1>6, <1>7

\* Every step keeps SyncInv.
LEMMA SyncStep ==
    ASSUME ~Late, ~Early, TypeInv, TableInv, SyncInv, [Next]_vars
    PROVE  SyncInv'
<1>0. HistKept
  BY TableStep
<1>s. ASSUME NEW t \in Tabs, NEW s \in Slots
      PROVE  /\ sync[t][s] \in Syncs /\ page[t] \in Pages /\ PageOK(page[t])
             /\ page[t].cache \in Snapshots \cup {None} /\ page[t].read \in Snapshots \cup {None}
             /\ SyncOK(sync[t][s], page[t])
  BY DEF TypeInv, TypeOK, Pages, SyncInv
<1>b. ASSUME NEW t \in Tabs, NEW s \in Slots, page[t].phase \in {"opening", "reading"}
      PROVE  sync[t][s].pc \notin Busies
  BY <1>b, <1>s DEF SyncOK, CallOK
<1>p. ASSUME NEW t \in Tabs, UNCHANGED <<hist, edge, idb>>, PageOK(page'[t]),
             \A u \in Tabs \ {t} : page'[u] = page[u],
             \A u \in Tabs \ {t}, q \in Slots : sync'[u][q] = sync[u][q],
             \A q \in Slots : SyncOK(sync'[t][q], page'[t])
      PROVE  SyncInv'
  <2>1. ASSUME NEW u \in Tabs, NEW q \in Slots PROVE SyncOK(sync[u][q], page[u])'
    <3>1. SyncOK(sync'[u][q], page'[u])
      BY <1>p DEF SyncInv
    <3> QED
      BY <1>p, <3>1 DEF SyncOK, CallOK
  <2>2. ASSUME NEW u \in Tabs PROVE PageOK(page[u])'
    <3>1. PageOK(page'[u])
      BY <1>p DEF SyncInv
    <3> QED
      BY <1>p, <3>1 DEF PageOK, Known, Kept
  <2> QED
    BY <1>p, <2>1, <2>2 DEF SyncInv, Known, EdgeOK
<1>c. ASSUME NEW t \in Tabs, NEW s \in Slots, NEW cache \in Snapshots \cup {None}, Called(t, s, cache),
             NEW p, p.phase \in {"open", "none"}, p.cache = cache
      PROVE  /\ SyncOK(sync'[t][s], p)
             /\ \A u \in Tabs, q \in Slots : u # t \/ q # s => sync'[u][q] = sync[u][q]
  <2>1. SyncOK(sync'[t][s], p)
    BY <1>c, CalledOK
  <2>2. \A u \in Tabs, q \in Slots : u # t \/ q # s => sync'[u][q] = sync[u][q]
    BY <1>c, CalledType
  <2> QED
    BY <2>1, <2>2
<1>1. CASE UNCHANGED vars
  BY <1>0, <1>1, HistTransfer DEF vars
<1>2. ASSUME NEW ts \in Times, InsertCheck(ts) PROVE SyncInv'
  BY <1>0, <1>2, HistTransfer DEF InsertCheck
<1>3. CASE InsertOther \/ PruneCheckHistory
  BY <1>0, <1>3, HistTransfer DEF InsertOther, PruneCheckHistory
<1>5. ASSUME NEW t \in Tabs, OpenCache(t) PROVE SyncInv'
  <2> DEFINE new == [page[t] EXCEPT !.phase = "reading", !.read = idb]
  <2>1. /\ page[t].phase = "opening" /\ page' = [page EXCEPT ![t] = new]
        /\ UNCHANGED <<rows, pool, other, hist, edge, idb, sync>>
    BY <1>5 DEF OpenCache
  <2>2. page[t] \in Pages /\ PageOK(page[t]) /\ idb \in Snapshots \cup {None}
    BY DEF TypeInv, TypeOK, SyncInv
  <2>3. new.phase = "reading" /\ new.read = idb /\ new.cache = page[t].cache
    BY <2>2 DEF Pages
  <2> HIDE DEF new
  <2>4. idb # None => idb.version <= idb.version
    BY <2>2, HistoryAssumption DEF Snapshots, Versions
  <2>5. PageOK(new)
    BY <2>1, <2>2, <2>3, <2>4 DEF PageOK, Kept, SyncInv
  <2>6. page'[t] = new /\ \A u \in Tabs \ {t} : page'[u] = page[u]
    BY <2>1, OnePage
  <2>7. \A q \in Slots : SyncOK(sync[t][q], new)
    BY <1>b, <2>1 DEF SyncOK
  <2> QED
    BY <1>p, <2>1, <2>5, <2>6, <2>7
<1>6. ASSUME NEW t \in Tabs, Reopen(t) PROVE SyncInv'
  <2>1. /\ page' = [page EXCEPT ![t] = NewPage] /\ UNCHANGED <<hist, edge, idb>>
        /\ sync' = [sync EXCEPT ![t] = [s \in Slots |-> Ended("idle")]]
    BY <1>6 DEF Reopen
  <2>2. page'[t] = NewPage /\ \A u \in Tabs \ {t} : page'[u] = page[u]
    BY <2>1, OnePage
  <2>3. /\ \A q \in Slots : sync'[t][q] = Ended("idle")
        /\ \A u \in Tabs \ {t}, q \in Slots : sync'[u][q] = sync[u][q]
    BY <2>1 DEF TypeInv, TypeOK
  <2>4. PageOK(NewPage)
    BY DEF PageOK, NewPage, Known
  <2> QED
    BY <1>p, <2>1, <2>2, <2>3, <2>4, Resting
<1>7. ASSUME NEW t \in Tabs, NEW s \in Slots, Refresh(t, s) PROVE SyncInv'
  <2>1. /\ page[t].phase \in {"open", "none"} /\ Called(t, s, page[t].cache)
        /\ UNCHANGED <<rows, pool, other, hist, edge, idb, page>>
    BY <1>7 DEF Refresh
  <2>2. /\ SyncOK(sync'[t][s], page[t])
        /\ \A u \in Tabs, q \in Slots : u # t \/ q # s => sync'[u][q] = sync[u][q]
    BY <1>c, <1>s, <2>1
  <2>3. \A q \in Slots : SyncOK(sync'[t][q], page[t])
    BY <1>s, <2>2
  <2> QED
    BY <1>p, <1>s, <2>1, <2>2, <2>3
<1>8. ASSUME NEW t \in Tabs, NEW s \in Slots, ReadCache(t, s) PROVE SyncInv'
  <2> DEFINE new == [page[t] EXCEPT !.phase = "open", !.cache = page[t].read, !.read = None]
  <2>1. /\ page[t].phase = "reading" /\ page' = [page EXCEPT ![t] = new]
        /\ Called(t, s, page[t].read) /\ UNCHANGED <<hist, edge, idb>>
    BY <1>8 DEF ReadCache
  <2>2. new.phase = "open" /\ new.read = None /\ new.cache = page[t].read
    BY <1>s DEF Pages
  <2> HIDE DEF new
  <2>3. PageOK(new)
    BY <1>s, <2>1, <2>2 DEF PageOK, Known
  <2>4. page'[t] = new /\ \A u \in Tabs \ {t} : page'[u] = page[u]
    BY <2>1, OnePage
  <2>5. /\ SyncOK(sync'[t][s], new)
        /\ \A u \in Tabs, q \in Slots : u # t \/ q # s => sync'[u][q] = sync[u][q]
    BY <1>c, <1>s, <2>1, <2>2
  <2>6. \A q \in Slots : SyncOK(sync'[t][q], new)
    BY <1>b, <2>1, <2>5 DEF SyncOK
  <2> QED
    BY <1>p, <2>1, <2>3, <2>4, <2>5, <2>6
<1>9. ASSUME NEW t \in Tabs, NEW s \in Slots, OpenFails(t, s) PROVE SyncInv'
  <2> DEFINE new == [page[t] EXCEPT !.phase = "none", !.cache = None, !.read = None]
  <2>1. /\ page[t].phase \in {"opening", "reading"} /\ page' = [page EXCEPT ![t] = new]
        /\ Called(t, s, None) /\ UNCHANGED <<hist, edge, idb>>
    BY <1>9 DEF OpenFails
  <2>2. new.phase = "none" /\ new.read = None /\ new.cache = None
    BY <1>s DEF Pages
  <2> HIDE DEF new
  <2>3. PageOK(new)
    BY <2>2 DEF PageOK, Known
  <2>4. page'[t] = new /\ \A u \in Tabs \ {t} : page'[u] = page[u]
    BY <2>1, OnePage
  <2>5. /\ SyncOK(sync'[t][s], new)
        /\ \A u \in Tabs, q \in Slots : u # t \/ q # s => sync'[u][q] = sync[u][q]
    BY <1>c, <2>1, <2>2
  <2>6. \A q \in Slots : SyncOK(sync'[t][q], new)
    BY <1>b, <2>1, <2>5 DEF SyncOK
  <2> QED
    BY <1>p, <2>1, <2>3, <2>4, <2>5, <2>6
<1>10. ASSUME NEW t \in Tabs, NEW s \in Slots, SyncFails(t, s) PROVE SyncInv'
  BY <1>10, CallMoves, Resting DEF SyncFails
<1>11. ASSUME NEW t \in Tabs, NEW s \in Slots, ReadVersion(t, s) PROVE SyncInv'
  <2> DEFINE q == sync[t][s]
             v == IpHistoryVersion(rows)
             ahead == q.since # None /\ q.since > v
             pc == IF q.since = v THEN "receive" ELSE IF ahead THEN "load" ELSE "match"
             new == [q EXCEPT !.version = v, !.reset = ahead, !.pc = pc]
  <2>1. q.pc = "version" /\ sync' = [sync EXCEPT ![t][s] = new]
    BY <1>11 DEF ReadVersion
  <2>u. UNCHANGED <<rows, pool, other, hist, edge, idb, page>>
    BY <1>11 DEF ReadVersion
  <2>2. CallOK(q, page[t]) /\ q \in Syncs
    BY <1>s, <2>1 DEF SyncOK, Busies
  <2>3. v \in DOMAIN hist /\ v \in Nat /\ \A w \in DOMAIN hist : w <= v
    <3>1. rows \in SUBSET Rows
      BY DEF TypeInv, TypeOK
    <3> QED
      BY <3>1, VersionBound, HistoryAssumption DEF TableInv, Versions
  <2>4. q.since # None => q.since <= v /\ q.since \in Nat
    <3> SUFFICES ASSUME q.since # None PROVE q.since <= v /\ q.since \in Nat
      OBVIOUS
    <3>1. page[t].cache # None /\ q.since <= page[t].cache.version
      BY <2>2 DEF CallOK
    <3>2. page[t].cache.version <= v
      BY <1>s, <2>3, <3>1 DEF PageOK, Known
    <3>3. q.since \in Nat /\ page[t].cache.version \in Nat
      BY <1>s, <2>2, <3>1, HistoryAssumption DEF Syncs, Snapshots, Versions
    <3> HIDE DEF q, v
    <3> QED
      BY <2>3, <3>1, <3>2, <3>3
  <2>5. ahead = FALSE
    <3> HIDE DEF q, v
    <3> QED
      BY <2>3, <2>4
  <2>6. pc \in {"receive", "match"} /\ (pc = "receive" => q.since = v)
    BY <2>5
  <2> HIDE DEF v, ahead, pc
  <2>7. /\ new.pc = pc /\ new.version = v /\ new.reset = FALSE
        /\ new.since = q.since /\ new.asked = q.asked
    BY <2>2, <2>5 DEF Syncs
  <2> HIDE DEF new
  <2>8. CallOK(new, page[t])
    BY <2>2, <2>3, <2>6, <2>7 DEF CallOK
  <2>9. SyncOK(new, page[t])
    BY <2>8 DEF SyncOK
  <2> QED
    BY <2>1, <2>u, <2>9, CallMoves
<1>12. ASSUME NEW t \in Tabs, NEW s \in Slots, MatchEdge(t, s) PROVE SyncInv'
  <2> DEFINE q == sync[t][s]
  <2>1. q.pc = "match" /\ UNCHANGED <<hist, edge, idb, page>>
    BY <1>12 DEF MatchEdge
  <2>2. CallOK(q, page[t]) /\ q \in Syncs
    BY <1>s, <2>1 DEF SyncOK, Busies
  <2>3. CASE q.version \in DOMAIN edge
             /\ sync' = [sync EXCEPT ![t][s].pc = "receive", ![t][s].checks = edge[q.version]]
    <3> DEFINE checks == edge[q.version]
               new == [q EXCEPT !.pc = "receive", !.checks = checks]
    <3>1. checks = hist[q.version]
      BY <2>3 DEF SyncInv, EdgeOK
    <3>2. sync' = [sync EXCEPT ![t][s] = new]
      BY <2>3
    <3> HIDE DEF checks
    <3>3. /\ new.pc = "receive" /\ new.checks = checks /\ new.version = q.version
          /\ new.since = q.since /\ new.asked = q.asked /\ new.reset = q.reset
      BY <2>2 DEF Syncs
    <3> HIDE DEF new
    <3>4. CallOK(new, page[t])
      BY <2>1, <2>2, <3>1, <3>3 DEF CallOK
    <3> QED
      BY <2>1, <3>2, <3>4, CallMoves DEF SyncOK
  <2>4. CASE sync' = [sync EXCEPT ![t][s].pc = "load"]
    <3> DEFINE new == [q EXCEPT !.pc = "load"]
    <3>1. sync' = [sync EXCEPT ![t][s] = new]
      BY <2>4
    <3>2. /\ new.pc = "load" /\ new.version = q.version
          /\ new.since = q.since /\ new.asked = q.asked /\ new.reset = q.reset
      BY <2>2 DEF Syncs
    <3> HIDE DEF new
    <3>3. CallOK(new, page[t])
      BY <2>1, <2>2, <3>2 DEF CallOK
    <3> QED
      BY <2>1, <3>1, <3>3, CallMoves DEF SyncOK
  <2> QED
    BY <1>12, <2>3, <2>4 DEF MatchEdge
<1>13. ASSUME NEW t \in Tabs, NEW s \in Slots, LoadHistory(t, s) PROVE SyncInv'
  <2> DEFINE q == sync[t][s]
             h == IpHistory(rows)
             v == IpHistoryVersion(rows)
             new == [q EXCEPT !.pc = "verify", !.checks = h]
  <2>1. q.pc = "load" /\ UNCHANGED <<hist, edge, idb, page>> /\ sync' = [sync EXCEPT ![t][s] = new]
    BY <1>13 DEF LoadHistory
  <2>2. CallOK(q, page[t]) /\ q \in Syncs
    BY <1>s, <2>1 DEF SyncOK, Busies
  <2>3. v \in DOMAIN hist /\ h = hist[v] /\ q.version <= v
    BY <2>1, <2>2 DEF TableInv, VersionDetermines, CallOK
  <2> HIDE DEF h, v
  <2>4. /\ new.pc = "verify" /\ new.checks = h /\ new.version = q.version
        /\ new.since = q.since /\ new.asked = q.asked /\ new.reset = q.reset
    BY <2>2 DEF Syncs
  <2> HIDE DEF new
  <2>5. CallOK(new, page[t])
    BY <2>1, <2>2, <2>3, <2>4 DEF CallOK
  <2> QED
    BY <2>1, <2>5, CallMoves DEF SyncOK
<1>14. ASSUME NEW t \in Tabs, NEW s \in Slots, SendHistory(t, s) PROVE SyncInv'
  <2> DEFINE q == sync[t][s]
  <2>1. q.pc = "verify" /\ UNCHANGED <<hist, idb, page>>
    BY <1>14 DEF SendHistory
  <2>2. CallOK(q, page[t]) /\ q \in Syncs
    BY <1>s, <2>1 DEF SyncOK, Busies
  <2>3. CASE ~Still(q.version)
    BY <1>14, <2>1, <2>3, CallMoves, Resting DEF SendHistory
  <2>4. CASE Still(q.version)
    <3>1. q.checks = hist[q.version] /\ q.version \in DOMAIN hist
      <4>1. PICK v \in DOMAIN hist : q.version <= v /\ q.checks = hist[v]
        BY <2>1, <2>2 DEF CallOK
      <4>2. v <= q.version
        BY <2>4 DEF TableInv, Still
      <4>3. v \in Nat /\ q.version \in Nat
        BY <2>2, HistoryAssumption DEF TypeInv, TypeOK, Syncs, Versions
      <4>4. v = q.version
        BY <4>1, <4>2, <4>3
      <4> QED
        BY <4>1, <4>4
    <3> DEFINE new == [q EXCEPT !.pc = "receive"]
    <3>2. sync' = [sync EXCEPT ![t][s] = new]
      BY <1>14, <2>4 DEF SendHistory
    <3>3. \/ edge' = edge
          \/ edge' = [v \in DOMAIN edge \cup {q.version} |-> IF v = q.version THEN q.checks ELSE edge[v]]
      BY <1>14, <2>4 DEF SendHistory
    <3>4. EdgeOK'
      BY <2>1, <3>1, <3>3 DEF SyncInv, EdgeOK
    <3>5. /\ new.pc = "receive" /\ new.checks = q.checks /\ new.version = q.version
          /\ new.since = q.since /\ new.asked = q.asked /\ new.reset = q.reset
      BY <2>2 DEF Syncs
    <3> HIDE DEF new
    <3>6. CallOK(new, page[t])
      BY <2>1, <2>2, <3>1, <3>5 DEF CallOK
    <3>7. sync'[t][s] = new /\ \A u \in Tabs, p \in Slots : u # t \/ p # s => sync'[u][p] = sync[u][p]
      BY <3>2, OneSync
    <3>8. ASSUME NEW u \in Tabs, NEW p \in Slots PROVE SyncOK(sync[u][p], page[u])'
      <4>1. SyncOK(sync'[u][p], page[u])
        BY <3>6, <3>7 DEF SyncInv, SyncOK
      <4> QED
        BY <2>1, <4>1 DEF SyncOK, CallOK
    <3>9. ASSUME NEW u \in Tabs PROVE PageOK(page[u])'
      BY <2>1 DEF SyncInv, PageOK, Known, Kept
    <3> QED
      BY <2>1, <3>4, <3>8, <3>9 DEF SyncInv, Known
  <2> QED
    BY <2>3, <2>4
<1>f. ASSUME NEW t \in Tabs, NEW s \in Slots, NEW fresh \in Snapshots, Shown(t, s, fresh),
             page[t].cache # None => page[t].cache.version <= fresh.version
      PROVE  /\ \A u \in Tabs \ {t} : page'[u] = page[u]
             /\ \A u \in Tabs \ {t}, q \in Slots : sync'[u][q] = sync[u][q]
             /\ \A q \in Slots : SyncOK(sync'[t][q], page'[t])
             /\ page'[t].phase = page[t].phase /\ page'[t].read = page[t].read
             /\ \/ page'[t].cache = fresh
                \/ page'[t].cache = page[t].cache /\ page[t].cache # None /\ page[t].cache.version = fresh.version
  <2>1. /\ page' \in [Tabs -> Pages]
        /\ sync'[t][s] = Ended("shown")
        /\ \A u \in Tabs, q \in Slots : u # t \/ q # s => sync'[u][q] = sync[u][q]
        /\ \A u \in Tabs : u # t => page'[u] = page[u]
        /\ page'[t].cache = IF page[t].cache = None \/ fresh.version # page[t].cache.version
                            THEN fresh ELSE page[t].cache
        /\ page'[t].phase = page[t].phase /\ page'[t].read = page[t].read
    BY <1>f, ShownType
  <2>2. fresh # None /\ fresh.version <= fresh.version
    BY HistoryNoneAssumption, HistoryAssumption DEF Snapshots, Versions
  <2>3. page[t].cache # None => page'[t].cache # None /\ page[t].cache.version <= page'[t].cache.version
    BY <1>f, <2>1, <2>2
  <2>4. page'[t] \in Pages
    BY <2>1
  <2>5. ASSUME NEW q \in Slots PROVE SyncOK(sync'[t][q], page'[t])
    <3>1. CASE q = s
      BY <2>1, <3>1, Resting
    <3>2. CASE q # s
      <4>1. sync'[t][q] = sync[t][q]
        BY <2>1, <3>2
      <4> QED
        BY <1>s, <2>1, <2>3, <2>4, <4>1, Forward
    <3> QED
      BY <3>1, <3>2
  <2> QED
    BY <2>1, <2>5
<1>15. ASSUME NEW t \in Tabs, NEW s \in Slots, Receive(t, s) PROVE SyncInv'
  <2> DEFINE q == sync[t][s]
             c == page[t].cache
  <2>1. q.pc = "receive" /\ UNCHANGED <<hist, edge, idb>>
    BY <1>15 DEF Receive
  <2>2. /\ CallOK(q, page[t]) /\ q.version \in Nat /\ q \in Syncs
        /\ c # None => c.version \in Nat
        /\ Keeps(c, q) => c # None /\ q.version <= c.version
        /\ ~Keeps(c, q) => /\ q.checks = hist[q.version] /\ q.version \in DOMAIN hist
                           /\ c # None => c.version <= q.version
    BY <1>s, <2>1, AnswerExact
  <2>3. CASE Keeps(c, q) /\ Shown(t, s, c)
    <3>1. c \in Snapshots /\ (c # None => c.version <= c.version)
      BY <1>s, <2>2, <2>3
    <3>2. /\ \A u \in Tabs \ {t} : page'[u] = page[u]
          /\ \A u \in Tabs \ {t}, p \in Slots : sync'[u][p] = sync[u][p]
          /\ \A p \in Slots : SyncOK(sync'[t][p], page'[t])
          /\ page'[t].phase = page[t].phase /\ page'[t].read = page[t].read
          /\ page'[t].cache = c
      BY <1>f, <2>3, <3>1
    <3>3. PageOK(page'[t])
      BY <1>s, <3>2 DEF PageOK
    <3> QED
      BY <1>p, <2>1, <3>2, <3>3
  <2>4. CASE ~Keeps(c, q) /\ page[t].phase \in {"opening", "none"} /\ Shown(t, s, Snapshot(q))
    <3>1. Snapshot(q) \in Snapshots /\ Snapshot(q).version = q.version /\ Snapshot(q).checks = q.checks
      BY <2>2 DEF Snapshot, Snapshots, Syncs
    <3>2. page[t].phase = "none"
      BY <2>2, <2>4 DEF CallOK
    <3>3. c # None => c.version <= Snapshot(q).version
      BY <2>2, <2>4, <3>1
    <3>4. /\ \A u \in Tabs \ {t} : page'[u] = page[u]
          /\ \A u \in Tabs \ {t}, p \in Slots : sync'[u][p] = sync[u][p]
          /\ \A p \in Slots : SyncOK(sync'[t][p], page'[t])
          /\ page'[t].phase = page[t].phase /\ page'[t].read = page[t].read
          /\ page'[t].cache = Snapshot(q) \/ page'[t].cache = c
      BY <1>f, <2>4, <3>1, <3>3
    <3>5. Known(Snapshot(q))
      BY <2>2, <2>4, <3>1 DEF Known
    <3>6. PageOK(page'[t])
      BY <1>s, <3>2, <3>4, <3>5 DEF PageOK
    <3> QED
      BY <1>p, <2>1, <3>4, <3>6
  <2>5. CASE /\ ~Keeps(c, q) /\ page[t].phase \in {"reading", "open"}
             /\ sync' = [sync EXCEPT ![t][s].pc = "write"] /\ page' = page
    <3> DEFINE new == [q EXCEPT !.pc = "write"]
    <3>1. sync' = [sync EXCEPT ![t][s] = new]
      BY <2>5
    <3>2. /\ new.pc = "write" /\ new.checks = q.checks /\ new.version = q.version
          /\ new.since = q.since /\ new.asked = q.asked /\ new.reset = q.reset
      BY <2>2 DEF Syncs
    <3> HIDE DEF new
    <3>3. page[t].phase = "open"
      BY <2>2, <2>5 DEF CallOK
    <3>4. CallOK(new, page[t])
      BY <2>1, <2>2, <2>5, <3>2, <3>3 DEF CallOK
    <3>5. SyncOK(new, page[t])
      BY <3>4 DEF SyncOK
    <3> QED
      BY <2>1, <2>5, <3>1, <3>5, CallMoves
  <2> QED
    BY <1>15, <2>3, <2>4, <2>5 DEF Receive
<1>16. ASSUME NEW t \in Tabs, NEW s \in Slots, WriteCache(t, s) PROVE SyncInv'
  <2> DEFINE fresh == Saved(sync[t][s])
  <2>1. sync[t][s].pc = "write" /\ idb' = fresh /\ Shown(t, s, fresh) /\ UNCHANGED <<rows, hist, edge>>
    BY <1>16 DEF WriteCache
  <2>2. /\ fresh \in Snapshots /\ fresh # None /\ Known(fresh) /\ fresh.version \in Nat
        /\ idb # None => idb.version \in Nat /\ idb.version <= fresh.version
    BY <2>1, SavedKnown
  <2> HIDE DEF fresh
  <2>3. page[t].phase = "open"
    BY <1>s, <2>1 DEF SyncOK, Busies, CallOK
  <2>k. ASSUME NEW snap \in Snapshots \cup {None}, Kept(snap) PROVE snap # None => snap.version <= fresh.version
    <3>1. snap # None => snap.version \in Nat
      BY HistoryAssumption DEF Snapshots, Versions
    <3>2. snap # None => idb # None /\ snap.version <= idb.version
      BY <2>k DEF Kept
    <3> QED
      BY <2>2, <3>1, <3>2
  <2>4. page[t].cache # None => page[t].cache.version <= fresh.version
    BY <1>s, <2>3, <2>k DEF PageOK
  <2>5. /\ \A u \in Tabs \ {t} : page'[u] = page[u]
        /\ \A u \in Tabs \ {t}, q \in Slots : sync'[u][q] = sync[u][q]
        /\ \A q \in Slots : SyncOK(sync'[t][q], page'[t])
        /\ page'[t].phase = page[t].phase /\ page'[t].read = page[t].read
        /\ \/ page'[t].cache = fresh
           \/ page'[t].cache = page[t].cache /\ page[t].cache # None /\ page[t].cache.version = fresh.version
    BY <1>f, <2>1, <2>2, <2>4
  <2>6. ASSUME NEW u \in Tabs PROVE PageOK(page[u])'
    <3>1. CASE u # t
      <4>1. page'[u] = page[u] /\ PageOK(page[u])
        BY <2>5, <3>1 DEF SyncInv
      <4>2. page[u].phase = "reading" => (page[u].read # None => page[u].read.version <= fresh.version)
        BY <1>s, <2>k, <4>1 DEF PageOK
      <4>3. page[u].phase = "open" => (page[u].cache # None => page[u].cache.version <= fresh.version)
        BY <1>s, <2>k, <4>1 DEF PageOK
      <4> QED
        BY <2>1, <2>2, <4>1, <4>2, <4>3 DEF PageOK, Known, Kept
    <3>2. CASE u = t
      <4>1. Known(page[t].cache) /\ Known(page[t].read)
        BY <1>s DEF PageOK
      <4>2. page'[t].cache # None => page'[t].cache.version <= fresh.version
        BY <2>2, <2>4, <2>5
      <4> QED
        BY <2>1, <2>2, <2>3, <2>5, <3>2, <4>1, <4>2 DEF PageOK, Known, Kept
    <3> QED
      BY <3>1, <3>2
  <2>7. ASSUME NEW u \in Tabs, NEW q \in Slots PROVE SyncOK(sync[u][q], page[u])'
    <3>1. SyncOK(sync'[u][q], page'[u])
      BY <2>5 DEF SyncInv
    <3> QED
      BY <2>1, <3>1 DEF SyncOK, CallOK
  <2> QED
    BY <2>1, <2>2, <2>6, <2>7 DEF SyncInv, Known, EdgeOK
<1> QED
  BY <1>1, <1>2, <1>3, <1>5, <1>6, <1>7, <1>8, <1>9, <1>10, <1>11, <1>12, <1>13, <1>14, <1>15, <1>16
     DEF Next

\* Pages and caches start empty.
LEMMA SyncInit == Init => SyncInv
<1> SUFFICES ASSUME Init PROVE SyncInv
  OBVIOUS
<1>1. PageOK(NewPage)
  BY DEF PageOK, NewPage, Known
<1>2. edge = <<>> /\ DOMAIN edge = {}
  BY DEF Init
<1> QED
  BY <1>1, <1>2, Resting DEF Init, SyncInv, Known, EdgeOK

HistoryInv == TypeInv /\ TableInv /\ SyncInv

\* All three together.
LEMMA HistoryInvariant ==
    ASSUME ~Late, ~Early
    PROVE  Spec => []HistoryInv
<1>1. Init => TableInv /\ SyncInv
  BY TableInit, SyncInit
<1>2. TypeInv /\ TableInv /\ SyncInv /\ [Next]_vars => (TableInv /\ SyncInv)'
  BY TableStep, SyncStep
<1> QED
  BY <1>1, <1>2, TypeInvariant, PTL DEF Spec, HistoryInv

\* What a page shows, what IndexedDB keeps and what the edge cache serves is the
\* whole history of the version it claims, for any pages, calls of sync() and
\* retention: never empty because an answer said "unchanged", never read while a
\* check was being saved.
THEOREM HistorySafe ==
    ASSUME ~Late, ~Early
    PROVE  Spec => []HistoryExact
<1>1. HistoryInv => HistoryExact
  BY DEF HistoryInv, SyncInv, HistoryExact, ExactSnapshot, Known, PageOK, EdgeOK
<1> QED
  BY <1>1, HistoryInvariant, PTL

\* How a step leaves the versions: IndexedDB and an open page have the same or later
\* ones, and a call that ends well has shown what it was answered or later.
LEMMA VersionsGrow ==
    ASSUME ~Late, ~Early, HistoryInv, [Next]_vars
    PROVE  /\ idb # None => idb' # None /\ idb.version <= idb'.version
           /\ \A t \in Tabs : page[t].phase = "open" /\ page'[t].phase = "open" /\ page[t].cache # None
                => page'[t].cache # None /\ page[t].cache.version <= page'[t].cache.version
           /\ \A t \in Tabs, s \in Slots :
                sync[t][s].pc \in {"receive", "write"} /\ sync'[t][s].pc = "shown"
                => page'[t].cache # None /\ sync[t][s].version <= page'[t].cache.version
<1> DEFINE I == idb # None => idb' # None /\ idb.version <= idb'.version
           P(t) == page[t].phase = "open" /\ page'[t].phase = "open" /\ page[t].cache # None
                     => page'[t].cache # None /\ page[t].cache.version <= page'[t].cache.version
           S(t, s) == sync[t][s].pc \in {"receive", "write"} /\ sync'[t][s].pc = "shown"
                        => page'[t].cache # None /\ sync[t][s].version <= page'[t].cache.version
<1>0. TypeInv /\ TableInv /\ SyncInv
  BY DEF HistoryInv
<1>n. /\ \A snap \in Snapshots : snap.version \in Nat /\ snap.version <= snap.version
      /\ idb \in Snapshots \cup {None}
      /\ \A t \in Tabs : page[t].cache \in Snapshots \cup {None} /\ page[t] \in Pages
      /\ \A t \in Tabs, s \in Slots : sync[t][s] \in Syncs
  BY <1>0, HistoryAssumption DEF Snapshots, Versions, TypeInv, TypeOK, Pages
<1>i. UNCHANGED idb => I
  BY <1>n
<1>u. \A t \in Tabs : page'[t] = page[t] => P(t)
  BY <1>n
<1>v. \A t \in Tabs, s \in Slots : sync'[t][s] = sync[t][s] => S(t, s)
  OBVIOUS
<1>e. Ended("idle").pc = "idle"
  BY DEF Ended
<1>o. ASSUME NEW t \in Tabs, NEW s \in Slots, NEW new, sync' = [sync EXCEPT ![t][s] = new], new.pc # "shown"
      PROVE  \A u \in Tabs, q \in Slots : S(u, q)
  <2>1. sync'[t][s] = new /\ \A u \in Tabs, q \in Slots : u # t \/ q # s => sync'[u][q] = sync[u][q]
    <3>1. TypeInv /\ sync' = [sync EXCEPT ![t][s] = new]
      BY <1>0, <1>o
    <3> HIDE DEF I, P, S
    <3> QED
      BY <3>1, OneSync
  <2> SUFFICES ASSUME NEW u \in Tabs, NEW q \in Slots PROVE S(u, q)
    OBVIOUS
  <2> HIDE DEF S
  <2>2. CASE u = t /\ q = s
    <3>1. sync'[u][q].pc # "shown"
      BY <1>o, <2>1, <2>2
    <3> QED
      BY <3>1 DEF S
  <2>3. CASE u # t \/ q # s
    <3>1. sync'[u][q] = sync[u][q]
      BY <2>1, <2>3
    <3> QED
      BY <1>v, <3>1
  <2> QED
    BY <2>2, <2>3
<1>c. ASSUME NEW t \in Tabs, NEW s \in Slots, NEW cache \in Snapshots \cup {None}, Called(t, s, cache)
      PROVE  \A u \in Tabs, q \in Slots : S(u, q)
  <2>1. /\ sync'[t][s].pc = "version"
        /\ \A u \in Tabs, q \in Slots : u # t \/ q # s => sync'[u][q] = sync[u][q]
    BY <1>0, <1>c, CalledType
  <2> QED
    BY <2>1
<1>1. CASE UNCHANGED vars
  BY <1>1, <1>i, <1>u, <1>v DEF vars
<1>2. ASSUME NEW ts \in Times, InsertCheck(ts) PROVE I /\ (\A t \in Tabs : P(t)) /\ \A t \in Tabs, s \in Slots : S(t, s)
  BY <1>2, <1>i, <1>u, <1>v DEF InsertCheck
<1>3. CASE InsertOther \/ PruneCheckHistory
  BY <1>3, <1>i, <1>u, <1>v DEF InsertOther, PruneCheckHistory
<1>4. ASSUME NEW t \in Tabs, OpenCache(t) \/ Reopen(t)
      PROVE  I /\ (\A u \in Tabs : P(u)) /\ \A u \in Tabs, s \in Slots : S(u, s)
  <2>1. idb' = idb
    BY <1>4 DEF OpenCache, Reopen
  <2>2. \A u \in Tabs \ {t} : page'[u] = page[u]
    BY <1>0, <1>4 DEF OpenCache, Reopen, TypeInv, TypeOK
  <2>3. page'[t].phase # "open" \/ page[t].phase # "open"
    BY <1>0, <1>4 DEF OpenCache, Reopen, NewPage, TypeInv, TypeOK
  <2>4. ASSUME NEW u \in Tabs, NEW s \in Slots PROVE S(u, s)
    <3>1. CASE OpenCache(t)
      BY <3>1 DEF OpenCache
    <3>2. CASE Reopen(t)
      <4>1. sync'[u][s] \in {sync[u][s], Ended("idle")}
        BY <1>0, <3>2 DEF Reopen, TypeInv, TypeOK
      <4> QED
        BY <1>e, <4>1
    <3> QED
      BY <1>4, <3>1, <3>2
  <2> QED
    BY <1>i, <1>u, <2>1, <2>2, <2>3, <2>4
<1>5. ASSUME NEW t \in Tabs, NEW s \in Slots, Refresh(t, s)
      PROVE  I /\ (\A u \in Tabs : P(u)) /\ \A u \in Tabs, q \in Slots : S(u, q)
  BY <1>5, <1>c, <1>i, <1>n, <1>u DEF Refresh
<1>6. ASSUME NEW t \in Tabs, NEW s \in Slots, ReadCache(t, s) \/ OpenFails(t, s)
      PROVE  I /\ (\A u \in Tabs : P(u)) /\ \A u \in Tabs, q \in Slots : S(u, q)
  <2>1. idb' = idb /\ page[t].phase # "open"
    BY <1>6 DEF ReadCache, OpenFails
  <2>2. \A u \in Tabs \ {t} : page'[u] = page[u]
    BY <1>0, <1>6 DEF ReadCache, OpenFails, TypeInv, TypeOK
  <2>3. \A u \in Tabs, q \in Slots : S(u, q)
    <3>1. page[t].read \in Snapshots \cup {None}
      BY <1>n DEF Pages
    <3>2. Called(t, s, page[t].read) \/ Called(t, s, None)
      BY <1>6 DEF ReadCache, OpenFails
    <3> QED
      BY <1>c, <3>1, <3>2
  <2> QED
    BY <1>i, <1>u, <2>1, <2>2, <2>3
<1>7. ASSUME NEW t \in Tabs, NEW s \in Slots,
             \/ SyncFails(t, s) \/ ReadVersion(t, s) \/ MatchEdge(t, s) \/ LoadHistory(t, s)
             \/ SendHistory(t, s)
      PROVE  I /\ (\A u \in Tabs : P(u)) /\ \A u \in Tabs, q \in Slots : S(u, q)
  <2>1. UNCHANGED <<idb, page>>
    BY <1>7 DEF SyncFails, ReadVersion, MatchEdge, LoadHistory, SendHistory
  <2>2. \A u \in Tabs, q \in Slots : S(u, q)
    <3>1. CASE sync[t][s].pc \notin {"receive", "write"}
      <4>1. \A u \in Tabs, q \in Slots : u # t \/ q # s => sync'[u][q] = sync[u][q]
        BY <1>0, <1>7 DEF SyncFails, ReadVersion, MatchEdge, LoadHistory, SendHistory, TypeInv, TypeOK
      <4> QED
        BY <3>1, <4>1
    <3>2. CASE SyncFails(t, s)
      BY <1>e, <1>o, <3>2 DEF SyncFails
    <3> QED
      BY <1>7, <3>1, <3>2 DEF ReadVersion, MatchEdge, LoadHistory, SendHistory
  <2> QED
    BY <1>i, <1>u, <2>1, <2>2
<1>f. ASSUME NEW t \in Tabs, NEW s \in Slots, NEW fresh \in Snapshots, Shown(t, s, fresh),
             page[t].cache # None => page[t].cache.version <= fresh.version,
             sync[t][s].version <= fresh.version
      PROVE  (\A u \in Tabs : P(u)) /\ \A u \in Tabs, q \in Slots : S(u, q)
  <2>1. /\ \A u \in Tabs, q \in Slots : u # t \/ q # s => sync'[u][q] = sync[u][q]
        /\ \A u \in Tabs : u # t => page'[u] = page[u]
        /\ page'[t].cache = IF page[t].cache = None \/ fresh.version # page[t].cache.version
                            THEN fresh ELSE page[t].cache
    BY <1>0, <1>f, ShownType
  <2>2. fresh # None
    BY HistoryNoneAssumption
  <2>3. page'[t].cache # None /\ page'[t].cache.version = fresh.version
    BY <2>1, <2>2
  <2> QED
    BY <1>f, <1>u, <2>1, <2>3
<1>8. ASSUME NEW t \in Tabs, NEW s \in Slots, Receive(t, s)
      PROVE  I /\ (\A u \in Tabs : P(u)) /\ \A u \in Tabs, q \in Slots : S(u, q)
  <2> DEFINE q == sync[t][s]
             c == page[t].cache
  <2>1. q.pc = "receive" /\ idb' = idb
    BY <1>8 DEF Receive
  <2>2. /\ Keeps(c, q) => c # None /\ q.version <= c.version
        /\ ~Keeps(c, q) => (c # None => c.version <= q.version)
        /\ q.version \in Nat
    BY <1>0, <2>1, AnswerExact
  <2>3. CASE Keeps(c, q) /\ Shown(t, s, c)
    <3>1. c \in Snapshots /\ c.version <= c.version /\ q.version <= c.version
      BY <1>n, <2>2, <2>3
    <3>2. (\A u \in Tabs : P(u)) /\ \A u \in Tabs, p \in Slots : S(u, p)
      BY <1>f, <2>3, <3>1
    <3> QED
      BY <1>i, <2>1, <3>2
  <2>4. CASE ~Keeps(c, q) /\ Shown(t, s, Snapshot(q))
    <3>1. Snapshot(q) \in Snapshots /\ Snapshot(q).version = q.version
      BY <1>n DEF Snapshot, Snapshots, Syncs
    <3>2. q.version <= Snapshot(q).version /\ (c # None => c.version <= Snapshot(q).version)
      BY <2>2, <2>4, <3>1
    <3>3. (\A u \in Tabs : P(u)) /\ \A u \in Tabs, p \in Slots : S(u, p)
      BY <1>f, <2>4, <3>1, <3>2
    <3> QED
      BY <1>i, <2>1, <3>3
  <2>5. CASE sync' = [sync EXCEPT ![t][s].pc = "write"] /\ page' = page
    <3> DEFINE new == [q EXCEPT !.pc = "write"]
    <3>1. sync' = [sync EXCEPT ![t][s] = new] /\ new.pc = "write"
      BY <1>n, <2>5 DEF Syncs
    <3> HIDE DEF new
    <3> QED
      BY <1>i, <1>o, <1>u, <2>1, <2>5, <3>1
  <2> QED
    BY <1>8, <2>3, <2>4, <2>5 DEF Receive
<1>9. ASSUME NEW t \in Tabs, NEW s \in Slots, WriteCache(t, s)
      PROVE  I /\ (\A u \in Tabs : P(u)) /\ \A u \in Tabs, q \in Slots : S(u, q)
  <2> DEFINE fresh == Saved(sync[t][s])
  <2>1. sync[t][s].pc = "write" /\ idb' = fresh /\ Shown(t, s, fresh)
    BY <1>9 DEF WriteCache
  <2>2. /\ fresh \in Snapshots /\ fresh # None
        /\ idb # None => idb.version <= fresh.version
        /\ sync[t][s].version <= fresh.version
    BY <1>0, <2>1, SavedKnown
  <2> HIDE DEF fresh
  <2>3. page[t].phase = "open" /\ PageOK(page[t])
    BY <1>0, <2>1 DEF SyncInv, SyncOK, Busies, CallOK
  <2>4. page[t].cache # None => page[t].cache.version <= fresh.version
    <3>1. page[t].cache # None => idb # None /\ page[t].cache.version <= idb.version
      BY <2>3 DEF PageOK, Kept
    <3> QED
      BY <1>n, <2>2, <3>1
  <2>5. (\A u \in Tabs : P(u)) /\ \A u \in Tabs, q \in Slots : S(u, q)
    BY <1>f, <2>1, <2>2, <2>4
  <2> QED
    BY <2>1, <2>2, <2>5
<1> QED
  BY <1>1, <1>2, <1>3, <1>4, <1>5, <1>6, <1>7, <1>8, <1>9 DEF Next

\* Known snapshots whose versions grow are not older, version by version: the
\* histories cover each other.
LEMMA LaterCovers ==
    ASSUME TypeInv, TableInv', HistKept,
           NEW old \in Snapshots \cup {None}, NEW new, Known(old),
           new # None => new.version \in DOMAIN hist' /\ new.checks = hist'[new.version],
           old # None => new # None /\ old.version <= new.version
    PROVE  NotOlder(new, old)
<1> SUFFICES ASSUME old # None PROVE new.version >= old.version /\ Covers(new.checks, old.checks)
  BY DEF NotOlder, Covers
<1>1. old.version \in DOMAIN hist' /\ old.checks = hist'[old.version]
  BY DEF Known, HistKept
<1>2. Covers(hist'[new.version], hist'[old.version])
  BY <1>1 DEF TableInv
<1> QED
  BY <1>1, <1>2

\* Whatever the order of answers and transactions, neither IndexedDB nor a page that
\* has read it goes back, for any pages, calls and retention (writeCache, showCache).
THEOREM NeverBackSafe ==
    ASSUME ~Late, ~Early
    PROVE  Spec => NeverBack
<1>1. ASSUME HistoryInv, HistoryInv', [Next]_vars
      PROVE  /\ NotOlder(idb', idb)
             /\ \A t \in Tabs : page[t].phase = "open" /\ page'[t].phase = "open"
                  => NotOlder(page'[t].cache, page[t].cache)
  <2>0. TypeInv /\ TableInv /\ SyncInv /\ TableInv' /\ SyncInv'
    BY <1>1 DEF HistoryInv
  <2>1. HistKept
    BY <1>1, <2>0, TableStep
  <2>2. NotOlder(idb', idb)
    <3>1. Known(idb) /\ idb \in Snapshots \cup {None}
      BY <2>0 DEF SyncInv, TypeInv, TypeOK
    <3>2. idb' # None => idb'.version \in DOMAIN hist' /\ idb'.checks = hist'[idb'.version]
      BY <2>0 DEF SyncInv, Known
    <3>3. idb # None => idb' # None /\ idb.version <= idb'.version
      BY <1>1, VersionsGrow
    <3> QED
      BY <2>0, <2>1, <3>1, <3>2, <3>3, LaterCovers
  <2>3. ASSUME NEW t \in Tabs, page[t].phase = "open", page'[t].phase = "open"
        PROVE  NotOlder(page'[t].cache, page[t].cache)
    <3> DEFINE old == page[t].cache
               new == page'[t].cache
    <3>1. Known(old) /\ old \in Snapshots \cup {None}
      BY <2>0 DEF SyncInv, PageOK, TypeInv, TypeOK, Pages
    <3>2. new # None => new.version \in DOMAIN hist' /\ new.checks = hist'[new.version]
      BY <2>0 DEF SyncInv, PageOK, Known
    <3>3. old # None => new # None /\ old.version <= new.version
      BY <1>1, <2>3, VersionsGrow
    <3> HIDE DEF old, new
    <3>4. NotOlder(new, old)
      BY <2>0, <2>1, <3>1, <3>2, <3>3, LaterCovers
    <3> QED
      BY <3>4 DEF old, new
  <2> QED
    BY <2>2, <2>3
<1> QED
  BY <1>1, HistoryInvariant, PTL DEF Spec, NeverBack

\* A sync() that ends well shows nothing older than the history when it was called,
\* whichever answers, pages and caches are in between: after an on-demand probe the
\* refresh shows its result.
THEOREM ShowsProbeSafe ==
    ASSUME ~Late, ~Early
    PROVE  Spec => SyncShowsProbe
<1>1. ASSUME HistoryInv, HistoryInv', [Next]_vars, NEW t \in Tabs, NEW s \in Slots,
             sync[t][s].pc \in {"receive", "write"}, sync'[t][s].pc = "shown"
      PROVE  page'[t].cache.checks = Newest(page'[t].cache.checks \cup sync[t][s].asked)
  <2> DEFINE q == sync[t][s]
             new == page'[t].cache
  <2>0. TypeInv /\ TableInv /\ SyncInv /\ TableInv' /\ SyncInv'
    BY <1>1 DEF HistoryInv
  <2>1. HistKept
    BY <1>1, <2>0, TableStep
  <2>2. PICK v \in DOMAIN hist : q.asked = hist[v] /\ v <= q.version
    BY <1>1, <2>0 DEF SyncInv, SyncOK, Busies, CallOK
  <2>3. new # None /\ q.version <= new.version
    BY <1>1, VersionsGrow
  <2>4. new.version \in DOMAIN hist' /\ new.checks = hist'[new.version]
    BY <2>0, <2>3 DEF SyncInv, PageOK, Known
  <2>5. v \in Nat /\ q.version \in Nat /\ new.version \in Nat
    <3>1. Versions \subseteq Nat
      BY HistoryAssumption DEF Versions
    <3>2. DOMAIN hist \subseteq Versions /\ DOMAIN hist' \subseteq Versions
      BY <1>1 DEF HistoryInv, TypeInv, TypeOK
    <3>3. sync[t][s] \in Syncs
      BY <2>0 DEF TypeInv, TypeOK
    <3>4. q.version \in Versions
      BY <3>3 DEF Syncs
    <3> QED
      BY <2>4, <3>1, <3>2, <3>4
  <2>6. v \in DOMAIN hist' /\ hist'[v] = q.asked
    BY <2>1, <2>2 DEF HistKept
  <2> HIDE DEF q, new
  <2>7. v <= new.version
    BY <2>2, <2>3, <2>5
  <2>8. Covers(hist'[new.version], hist'[v])
    BY <2>0, <2>4, <2>6, <2>7 DEF TableInv
  <2>9. Covers(new.checks, q.asked)
    BY <2>4, <2>6, <2>8
  <2> QED
    BY <2>9 DEF Covers, q, new
<1>2. HistoryInv /\ HistoryInv' /\ [Next]_vars =>
        \A t \in Tabs, s \in Slots :
          sync[t][s].pc \in {"receive", "write"} /\ sync'[t][s].pc = "shown"
            => LET shown == page'[t].cache.checks
               IN shown = Newest(shown \cup sync[t][s].asked)
  BY <1>1
<1> QED
  BY <1>2, HistoryInvariant, PTL DEF Spec, SyncShowsProbe

=============================================================================
