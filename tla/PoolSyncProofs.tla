--------------------------- MODULE PoolSyncProofs ---------------------------
(***************************************************************************)
(* For every set of addresses, tabs and row contents, and any number of    *)
(* commits: the theorems of PoolSync, with the inductive invariant Inv.    *)
(***************************************************************************)
EXTENDS PoolSync, TLAPS

-----------------------------------------------------------------------------
(* Types                                                                   *)

\* The rows a delta carries (Changed), the merge of a delta into a snapshot and
\* every record of a load have their types.
LEMMA PoolShapes ==
    /\ NoRows \in Pools
    /\ \A pc \in PCs : Fresh(pc) \in Loads
    /\ \A pc \in PCs, since \in Int, ver \in Nat, got \in Pools : At(pc, since, ver, got) \in Loads
    /\ \A p \in Pools, since \in Int, ver \in Nat : Changed(p, since, ver) \in Pools
    /\ \A p, q \in Pools : Merge(p, q) \in Pools
<1>1. NoRows \in Pools
  BY DEF NoRows, Pools
<1>2. \A pc \in PCs, since \in Int, ver \in Nat, got \in Pools : At(pc, since, ver, got) \in Loads
  BY DEF At, Loads
<1>3. \A pc \in PCs : Fresh(pc) \in Loads
  BY <1>1, <1>2 DEF Fresh, NoMeta
<1>4. \A p \in Pools, since \in Int, ver \in Nat : Changed(p, since, ver) \in Pools
  BY DEF Changed, Pools
<1>5. \A p, q \in Pools : Merge(p, q) \in Pools
  BY DEF Merge, Pools
<1> QED
  BY <1>1, <1>2, <1>3, <1>4, <1>5

\* A commit of the writers (bumpPoolRevision and the batch behind it) raises the
\* version by one, keeps the types and adds one entry to the history.
LEMMA CommitTypes ==
    ASSUME TypeOK,
           \/ \E touched \in SUBSET IPs : \E val \in [touched -> Vals] : Publish(touched, val)
           \/ \E dead \in SUBSET IPs : Evict(dead),
           Record
    PROVE  /\ PoolTypeOK'
           /\ version' = version + 1
           /\ hist' \in [0..version' -> [pool : Pools, reset : Nat]]
           /\ \A n \in 0..version : hist'[n] = hist[n]
           /\ hist'[version'] = [pool |-> pool', reset |-> resetVersion']
<1>1. PoolTypeOK' /\ version' = version + 1
  <2>1. CASE \E touched \in SUBSET IPs : \E val \in [touched -> Vals] : Publish(touched, val)
    <3>1. PICK touched \in SUBSET IPs : \E val \in [touched -> Vals] : Publish(touched, val)
      BY <2>1
    <3>2. PICK val \in [touched -> Vals] : Publish(touched, val)
      BY <3>1
    <3>3. \A ip \in touched : [rev |-> version + 1, val |-> val[ip]] \in Rows
      BY <3>2 DEF TypeOK, PoolTypeOK, Rows
    <3> QED
      BY <3>2, <3>3 DEF TypeOK, PoolTypeOK, Publish, Pools
  <2>2. CASE \E dead \in SUBSET IPs : Evict(dead)
    BY <2>2 DEF TypeOK, PoolTypeOK, Evict, Pools
  <2> QED
    BY <2>1, <2>2
<1>2. \A n \in 0..version : n \in 0..version' /\ n # version'
  BY <1>1 DEF TypeOK, PoolTypeOK
<1>3. version' \in 0..version'
  BY <1>1 DEF PoolTypeOK
<1>4. \A n \in 0..version' : n = version' \/ n \in 0..version
  BY <1>1 DEF TypeOK, PoolTypeOK
<1>5. [pool |-> pool', reset |-> resetVersion'] \in [pool : Pools, reset : Nat]
  BY <1>1 DEF PoolTypeOK
<1>6. hist' \in [0..version' -> [pool : Pools, reset : Nat]]
  BY <1>4, <1>5 DEF TypeOK, Record
<1> QED
  BY <1>1, <1>2, <1>3, <1>6 DEF Record

\* Every step of a writer, a handler or a tab keeps the types.
LEMMA TypeStep == TypeOK /\ [Next]_vars => TypeOK'
<1> SUFFICES ASSUME TypeOK, [Next]_vars PROVE TypeOK'
  OBVIOUS
<1>1. CASE UNCHANGED vars
  BY <1>1 DEF TypeOK, PoolTypeOK, vars, readerVars
<1>2. ASSUME NEW touched \in SUBSET IPs, NEW val \in [touched -> Vals], Write(touched, val)
      PROVE  TypeOK'
  <2>1. PoolTypeOK' /\ hist' \in [0..version' -> [pool : Pools, reset : Nat]]
    BY <1>2, CommitTypes DEF Write
  <2> QED
    BY <1>2, <2>1 DEF Write, TypeOK, readerVars
<1>3. ASSUME NEW dead \in SUBSET IPs, Remove(dead) PROVE TypeOK'
  <2>1. PoolTypeOK' /\ hist' \in [0..version' -> [pool : Pools, reset : Nat]]
    BY <1>3, CommitTypes DEF Remove
  <2> QED
    BY <1>3, <2>1 DEF Remove, TypeOK, readerVars
<1>4. ASSUME NEW t \in Tabs, Load(t) \/ Step(t) \/ Fail(t) PROVE TypeOK'
  <2>0. tab[t] \in Loads /\ tab[t].since \in Int /\ tab[t].ver \in Nat /\ tab[t].got \in Pools
    BY DEF Loads, TypeOK
  <2>a. ASSUME NEW load \in Loads, Continue(t, load)
        PROVE  /\ PoolTypeOK'
               /\ hist' \in [0..version' -> [pool : Pools, reset : Nat]]
               /\ tab' \in [Tabs -> Loads]
    BY <2>a DEF Continue, TypeOK, PoolTypeOK, poolVars
  <2>b. PCs = {"idle", "render", "full", "fullCache", "fullLoad", "fullCheck", "replace",
               "changes", "reset", "chgCache", "chgLoad", "chgCheck", "apply"}
    BY DEF PCs, FullPCs, ChgPCs
  <2>1. CASE Load(t)
    BY <2>1, <2>0, <2>a, <2>b, PoolShapes DEF Load, TypeOK, PoolTypeOK, NoMeta
  <2>2. CASE ChangesVersion(t)
    BY <2>2, <2>0, <2>a, <2>b, PoolShapes DEF ChangesVersion, TypeOK, PoolTypeOK, NoMeta
  <2>3. CASE ChangesReset(t)
    BY <2>3, <2>0, <2>a, <2>b, PoolShapes DEF ChangesReset, MustReset, TypeOK, PoolTypeOK, NoMeta
  <2>4. CASE ChangesHit(t)
    BY <2>4, <2>0, <2>a, <2>b, PoolShapes DEF ChangesHit, TypeOK, PoolTypeOK, NoMeta
  <2>5. CASE ChangesMiss(t)
    BY <2>5, <2>0, <2>a, <2>b, PoolShapes DEF ChangesMiss, TypeOK, PoolTypeOK, NoMeta
  <2>6. CASE ChangesLoad(t)
    BY <2>6, <2>0, <2>a, <2>b, PoolShapes DEF ChangesLoad, TypeOK, PoolTypeOK, NoMeta
  <2>7. CASE ChangesRetry(t)
    BY <2>7, <2>0, <2>a, <2>b, PoolShapes DEF ChangesRetry, TypeOK, PoolTypeOK, NoMeta
  <2>8. CASE ChangesSend(t)
    BY <2>8, <2>0, <2>a, <2>b, PoolShapes DEF ChangesSend, TypeOK, PoolTypeOK, NoMeta
  <2>9. CASE FullVersion(t)
    BY <2>9, <2>0, <2>a, <2>b, PoolShapes DEF FullVersion, TypeOK, PoolTypeOK, NoMeta
  <2>10. CASE FullHit(t)
    BY <2>10, <2>0, <2>a, <2>b, PoolShapes DEF FullHit, TypeOK, PoolTypeOK, NoMeta
  <2>11. CASE FullMiss(t)
    BY <2>11, <2>0, <2>a, <2>b, PoolShapes DEF FullMiss, TypeOK, PoolTypeOK, NoMeta
  <2>12. CASE FullLoad(t)
    BY <2>12, <2>0, <2>a, <2>b, PoolShapes DEF FullLoad, TypeOK, PoolTypeOK, NoMeta
  <2>13. CASE FullRetry(t)
    BY <2>13, <2>0, <2>a, <2>b, PoolShapes DEF FullRetry, TypeOK, PoolTypeOK, NoMeta
  <2>14. CASE FullSend(t)
    BY <2>14, <2>0, <2>a, <2>b, PoolShapes DEF FullSend, TypeOK, PoolTypeOK, NoMeta
  <2>15. CASE ApplyChanges(t)
    BY <2>15, <2>0, <2>a, <2>b, PoolShapes DEF ApplyChanges, Advance, TypeOK, PoolTypeOK, NoMeta
  <2>16. CASE WriteFullCache(t)
    BY <2>16, <2>0, <2>a, <2>b, PoolShapes DEF WriteFullCache, TypeOK, PoolTypeOK, NoMeta
  <2>17. CASE Render(t)
    BY <2>17, <2>0, <2>a, <2>b, PoolShapes DEF Render, TypeOK, PoolTypeOK, NoMeta
  <2>18. CASE Fail(t)
    BY <2>18, <2>0, <2>a, <2>b, PoolShapes DEF Fail, TypeOK, PoolTypeOK, NoMeta
  <2> QED
    BY <1>4, <2>1, <2>2, <2>3, <2>4, <2>5, <2>6, <2>7, <2>8, <2>9, <2>10, <2>11, <2>12, <2>13, <2>14, <2>15, <2>16, <2>17, <2>18 DEF Step
<1> QED
  BY <1>1, <1>2, <1>3, <1>4 DEF Next

\* Every variable keeps its type in every behaviour of the readers and writers.
THEOREM TypeCorrect == Spec => []TypeOK
<1>1. Init => TypeOK
  <2> SUFFICES ASSUME Init PROVE TypeOK
    OBVIOUS
  <2>1. PoolTypeOK /\ 0..version = {0}
    BY PoolShapes DEF Init, PoolInit, PoolTypeOK, NoRows
  <2>2. hist \in [0..version -> [pool : Pools, reset : Nat]]
    BY <2>1, PoolShapes DEF Init
  <2>3. tab \in [Tabs -> Loads]
    BY PoolShapes DEF Init, PCs
  <2> QED
    BY <2>1, <2>2, <2>3, PoolShapes DEF Init, TypeOK
<1> QED
  BY <1>1, TypeStep, PTL DEF Spec

-----------------------------------------------------------------------------
(* The history of commits                                                  *)

\* Every stored or committed row carries a natural number as its revision.
LEMMA RevTypes ==
    ASSUME TypeOK
    PROVE  /\ \A p \in Pools : \A ip \in IPs : p[ip] # NoRow => p[ip].rev \in Nat
           /\ \A n \in 0..version : hist[n].pool \in Pools /\ hist[n].reset \in Nat
           /\ version \in Nat /\ pool \in Pools /\ resetVersion \in Nat
           /\ version \in 0..version
<1>1. \A p \in Pools : \A ip \in IPs : p[ip] # NoRow => p[ip].rev \in Nat
  BY DEF Pools, Rows
<1>2. \A n \in 0..version : hist[n].pool \in Pools /\ hist[n].reset \in Nat
  BY DEF TypeOK
<1> QED
  BY <1>1, <1>2 DEF TypeOK, PoolTypeOK

\* What one commit does to one address: keep the row, stamp it with the new
\* version, or delete it and raise the reset.
LEMMA CommitEffect ==
    ASSUME TypeOK,
           \/ \E touched \in SUBSET IPs : \E val \in [touched -> Vals] : Publish(touched, val)
           \/ \E dead \in SUBSET IPs : Evict(dead)
    PROVE  /\ resetVersion' \in {resetVersion, version + 1}
           /\ \A ip \in IPs :
                \/ pool'[ip] = pool[ip]
                \/ pool'[ip] # NoRow /\ pool'[ip].rev = version + 1
                \/ pool'[ip] = NoRow /\ resetVersion' = version + 1
<1>1. CASE \E touched \in SUBSET IPs : \E val \in [touched -> Vals] : Publish(touched, val)
  <2>1. PICK touched \in SUBSET IPs : \E val \in [touched -> Vals] : Publish(touched, val)
    BY <1>1
  <2>2. PICK val \in [touched -> Vals] : Publish(touched, val)
    BY <2>1
  <2>3. \A ip \in touched : [rev |-> version + 1, val |-> val[ip]] \in Rows
    BY <2>2 DEF TypeOK, PoolTypeOK, Rows
  <2> QED
    BY <2>2, <2>3, NoRowAssumption DEF Publish
<1>2. CASE \E dead \in SUBSET IPs : Evict(dead)
  BY <1>2 DEF Evict
<1> QED
  BY <1>1, <1>2

\* A commit extends the history so that the revision scheme of migrations 0010
\* and 0015 still holds between any two versions: rows without a newer revision
\* are unchanged, rows that are gone went with a reset.
LEMMA HistoryStep ==
    ASSUME TypeOK, History,
           \/ \E touched \in SUBSET IPs : \E val \in [touched -> Vals] : Publish(touched, val)
           \/ \E dead \in SUBSET IPs : Evict(dead),
           Record
    PROVE  History'
<1>1. /\ PoolTypeOK'
      /\ version' = version + 1
      /\ \A n \in 0..version : hist'[n] = hist[n]
      /\ hist'[version'] = [pool |-> pool', reset |-> resetVersion']
  BY CommitTypes
<1>2. /\ resetVersion' \in {resetVersion, version + 1}
      /\ \A ip \in IPs :
           \/ pool'[ip] = pool[ip]
           \/ pool'[ip] # NoRow /\ pool'[ip].rev = version + 1
           \/ pool'[ip] = NoRow /\ resetVersion' = version + 1
  BY CommitEffect
<1>3. /\ version \in Nat /\ version \in 0..version /\ resetVersion \in Nat
      /\ hist[version].pool = pool /\ hist[version].reset = resetVersion
      /\ hist'[version'].pool = pool' /\ hist'[version'].reset = resetVersion'
  BY <1>1, RevTypes DEF History, HistNow
<1>4. \A n \in 0..version' : n = version' \/ n \in 0..version
  BY <1>1, <1>3
<1>5. HistNow'
  BY <1>1 DEF HistNow
<1>6. RevsBounded'
  BY <1>1, <1>2, <1>3, <1>4, RevTypes DEF History, RevsBounded
<1>7. ResetsGrow'
  <2> SUFFICES ASSUME NEW m \in 0..version', NEW n \in 0..version', m <= n
               PROVE  hist'[m].reset <= hist'[n].reset /\ hist'[n].reset <= n
    BY DEF ResetsGrow
  <2>1. CASE n \in 0..version
    BY <1>1, <1>3, <1>4, <2>1 DEF History, ResetsGrow
  <2>2. CASE n = version'
    <3>1. resetVersion <= version /\ resetVersion' <= version' /\ resetVersion <= resetVersion'
      BY <1>1, <1>2, <1>3 DEF History, ResetsGrow
    <3>2. CASE m \in 0..version
      <4>1. hist[m].reset <= resetVersion /\ hist[m].reset \in Nat
        BY <1>3, <3>2, RevTypes DEF History, ResetsGrow
      <4> QED
        BY <1>1, <1>2, <1>3, <2>2, <3>1, <3>2, <4>1
    <3>3. CASE m = version'
      BY <1>1, <1>2, <1>3, <2>2, <3>1, <3>3
    <3> QED
      BY <1>4, <3>2, <3>3
  <2> QED
    BY <1>4, <2>1, <2>2
<1>8. Untouched'
  <2> SUFFICES ASSUME NEW m \in 0..version', NEW n \in 0..version', NEW ip \in IPs,
                      m <= n, hist'[n].pool[ip] # NoRow, hist'[n].pool[ip].rev <= m
               PROVE  hist'[m].pool[ip] = hist'[n].pool[ip]
    BY DEF Untouched
  <2>1. CASE n \in 0..version
    BY <1>1, <1>3, <1>4, <2>1 DEF History, Untouched
  <2>2. CASE n = version' /\ m \in 0..version
    <3>1. pool'[ip] = pool[ip] /\ pool[ip] # NoRow /\ pool[ip].rev <= m
      BY <1>1, <1>2, <1>3, <2>2
    <3>2. hist[m].pool[ip] = pool[ip]
      BY <1>3, <2>2, <3>1 DEF History, Untouched
    <3> QED
      BY <1>1, <1>3, <2>2, <3>1, <3>2
  <2> QED
    BY <1>4, <2>1, <2>2
<1>9. Deleted'
  <2> SUFFICES ASSUME NEW m \in 0..version', NEW n \in 0..version', NEW ip \in IPs,
                      m <= n, hist'[m].pool[ip] # NoRow, hist'[n].pool[ip] = NoRow
               PROVE  m < hist'[n].reset
    BY DEF Deleted
  <2>1. CASE n \in 0..version
    BY <1>1, <1>3, <1>4, <2>1 DEF History, Deleted
  <2>2. CASE n = version' /\ m \in 0..version
    <3>1. CASE pool[ip] = NoRow
      <4>1. m < resetVersion
        BY <1>1, <1>3, <2>2, <3>1 DEF History, Deleted
      <4> QED
        BY <1>2, <1>3, <2>2, <4>1
    <3>2. CASE pool[ip] # NoRow
      BY <1>1, <1>2, <1>3, <2>2, <3>2
    <3> QED
      BY <3>1, <3>2
  <2> QED
    BY <1>4, <2>1, <2>2
<1> QED
  BY <1>5, <1>6, <1>7, <1>8, <1>9 DEF History

-----------------------------------------------------------------------------
(* Deltas                                                                  *)

\* A delta without a deletion in between turns the pool of `since' into the
\* pool of `ver' (pool/changes.ts).
LEMMA DeltaExact ==
    ASSUME TypeOK, History, NEW since \in Int, NEW ver \in Nat, NEW got,
           IsDelta(since, ver, got)
    PROVE  Merge(hist[since].pool, got) = hist[ver].pool
<1>1. since \in 0..version /\ ver \in 0..version /\ since <= ver /\ hist[ver].reset <= since
  BY RevTypes DEF IsDelta
<1>2. hist[since].pool \in Pools /\ hist[ver].pool \in Pools /\ hist[ver].reset \in Nat
  BY <1>1, RevTypes
<1>3. ASSUME NEW ip \in IPs PROVE Merge(hist[since].pool, got)[ip] = hist[ver].pool[ip]
  <2>1. CASE hist[ver].pool[ip] = NoRow
    BY <1>1, <1>2, <2>1 DEF Merge, IsDelta, Changed, History, Deleted
  <2>2. CASE hist[ver].pool[ip] # NoRow /\ hist[ver].pool[ip].rev <= since
    BY <1>1, <1>2, <2>2, RevTypes DEF Merge, IsDelta, Changed, History, Untouched
  <2>3. CASE hist[ver].pool[ip] # NoRow /\ hist[ver].pool[ip].rev > since
    <3>1. got[ip] = hist[ver].pool[ip]
      BY <1>1, <1>2, <2>3, RevTypes DEF IsDelta, Changed, History, RevsBounded
    <3>2. hist[since].pool[ip] = NoRow \/ hist[since].pool[ip].rev <= got[ip].rev
      BY <1>1, <1>2, <2>3, <3>1, RevTypes DEF History, RevsBounded
    <3> QED
      BY <2>3, <3>1, <3>2 DEF Merge
  <2> QED
    BY <1>2, <2>1, <2>2, <2>3, RevTypes
<1>4. Merge(hist[since].pool, got) = [ip \in IPs |-> hist[ver].pool[ip]]
  BY <1>3 DEF Merge
<1> QED
  BY <1>2, <1>4 DEF Pools

\* A delta of any age merged into the stored rows, whatever version another tab
\* has stored meanwhile: the argument behind AtWorstDeleted.
LEMMA DeltaMerged ==
    ASSUME TypeOK, History, AtWorstDeleted, meta \in 0..version,
           NEW since \in Int, NEW ver \in Nat, NEW got \in Pools,
           IsDelta(since, ver, got), since <= meta,
           NEW new \in Nat, new = IF meta <= ver THEN ver ELSE meta,
           NEW ip \in IPs
    PROVE  \/ Merge(rows, got)[ip] = hist[new].pool[ip]
           \/ hist[new].pool[ip] = NoRow /\ Merge(rows, got)[ip].rev < hist[new].reset
<1> DEFINE old == hist[meta].pool[ip]
           cur == hist[ver].pool[ip]
<1>1. since \in 0..version /\ ver \in 0..version /\ since <= ver /\ hist[ver].reset <= since
  BY RevTypes DEF IsDelta
<1>2. /\ hist[meta].pool \in Pools /\ hist[ver].pool \in Pools /\ rows \in Pools
      /\ hist[ver].reset \in Nat /\ hist[meta].reset \in Nat
  BY <1>1, RevTypes DEF TypeOK
<1>3. /\ old # NoRow => old.rev \in Nat /\ old.rev <= meta
      /\ cur # NoRow => cur.rev \in Nat /\ cur.rev <= ver
      /\ rows[ip] # NoRow => rows[ip].rev \in Nat
  BY <1>1, <1>2, RevTypes DEF History, RevsBounded
<1>4. \/ rows[ip] = old
      \/ old = NoRow /\ rows[ip].rev < hist[meta].reset
  BY DEF AtWorstDeleted, NoMeta
<1>5. got[ip] = IF cur # NoRow /\ cur.rev > since THEN cur ELSE NoRow
  BY <1>3 DEF IsDelta, Changed
<1>6. Merge(rows, got)[ip] = IF got[ip] # NoRow /\ (rows[ip] = NoRow \/ rows[ip].rev <= got[ip].rev)
                             THEN got[ip] ELSE rows[ip]
  BY DEF Merge
<1>7. CASE meta <= ver
  <2>1. new = ver /\ hist[meta].reset <= hist[ver].reset /\ hist[meta].reset <= meta
    BY <1>1, <1>7 DEF History, ResetsGrow
  <2>2. cur = NoRow => old = NoRow
    BY <1>1, <1>2, <1>7 DEF History, Deleted
  <2>3. cur # NoRow /\ cur.rev <= meta => old = cur
    BY <1>1, <1>7 DEF History, Untouched
  <2>4. CASE cur = NoRow
    BY <1>2, <1>3, <1>4, <1>5, <1>6, <2>1, <2>2, <2>4
  <2>5. CASE cur # NoRow /\ cur.rev <= since
    BY <1>1, <1>2, <1>3, <1>4, <1>5, <1>6, <2>1, <2>3, <2>5
  <2>6. CASE cur # NoRow /\ cur.rev > since
    <3>1. rows[ip] = NoRow \/ rows[ip].rev <= cur.rev
      BY <1>1, <1>2, <1>3, <1>4, <2>1, <2>3, <2>6
    <3> QED
      BY <1>5, <1>6, <2>1, <2>6, <3>1
  <2> QED
    BY <1>3, <2>4, <2>5, <2>6
<1>8. CASE ver < meta
  <2>1. new = meta
    BY <1>8
  <2>2. cur # NoRow /\ old = NoRow => ver < hist[meta].reset
    BY <1>1, <1>8 DEF History, Deleted
  <2>3. old # NoRow /\ old.rev <= ver => cur = old
    BY <1>1, <1>8 DEF History, Untouched
  <2>4. CASE Merge(rows, got)[ip] = rows[ip]
    BY <1>4, <2>1, <2>4
  <2>5. CASE got[ip] = cur /\ cur # NoRow /\ Merge(rows, got)[ip] = cur
              /\ (rows[ip] = NoRow \/ rows[ip].rev <= cur.rev)
    <3>1. CASE old = NoRow
      BY <1>2, <1>3, <2>1, <2>2, <2>5, <3>1
    <3>2. CASE old # NoRow
      BY <1>2, <1>3, <1>4, <2>1, <2>3, <2>5, <3>2
    <3> QED
      BY <3>1, <3>2
  <2> QED
    BY <1>5, <1>6, <2>4, <2>5
<1> QED
  BY <1>7, <1>8

-----------------------------------------------------------------------------
(* The inductive invariant                                                 *)

\* A commit adds a version and changes none of the earlier ones, so whatever
\* was exact for its version stays exact.
LEMMA CommitKeepsInv ==
    ASSUME TypeOK, Inv,
           \/ \E touched \in SUBSET IPs : \E val \in [touched -> Vals] : Publish(touched, val)
           \/ \E dead \in SUBSET IPs : Evict(dead),
           Record, UNCHANGED readerVars
    PROVE  Inv'
<1>1. /\ version' = version + 1
      /\ \A n \in 0..version : hist'[n] = hist[n]
  BY CommitTypes
<1>2. History'
  BY HistoryStep DEF Inv
<1>3. version \in Nat /\ \A n \in Nat : n <= version => n \in 0..version
  BY RevTypes
<1>4. EdgeExact'
  BY <1>1, <1>3 DEF Inv, EdgeExact, IsDelta, TypeOK, readerVars
<1>5. LoadsOK'
  <2> SUFFICES ASSUME NEW t \in Tabs PROVE LoadOK(tab[t])'
    BY DEF LoadsOK
  <2>1. tab[t]' = tab[t] /\ meta' = meta
    BY DEF readerVars
  <2>2. LoadOK(tab[t]) /\ tab[t].ver \in Nat /\ tab[t].since \in Int
    BY DEF Inv, LoadsOK, TypeOK, Loads
  <2>3. tab[t].ver # version' /\ tab[t].ver <= version' /\ hist'[tab[t].ver] = hist[tab[t].ver]
    BY <1>1, <1>3, <2>2 DEF LoadOK
  <2> QED
    BY <1>1, <1>3, <2>1, <2>2, <2>3 DEF LoadOK, IsDelta
<1>6. meta' <= version'
  BY <1>1, <1>3 DEF Inv, readerVars, TypeOK, NoMeta
<1>7. AtWorstDeleted'
  <2>1. meta # NoMeta => hist'[meta] = hist[meta]
    BY <1>1, <1>3 DEF Inv, TypeOK
  <2> QED
    BY <2>1 DEF Inv, AtWorstDeleted, readerVars
<1> QED
  BY <1>2, <1>4, <1>5, <1>6, <1>7 DEF Inv

\* Every step of a writer, a handler (version read, cache, load, re-read) or a
\* tab (applyChanges, writeFullCache) keeps the inductive invariant.
LEMMA InvStep == TypeOK /\ Inv /\ [Next]_vars => Inv'
<1> SUFFICES ASSUME TypeOK, Inv, [Next]_vars PROVE Inv'
  OBVIOUS
<1>1. CASE UNCHANGED vars
  <2>1. History' /\ EdgeExact' /\ AtWorstDeleted' /\ meta' <= version'
    BY <1>1 DEF Inv, vars, readerVars, History, HistNow, RevsBounded, ResetsGrow, Untouched,
               Deleted, EdgeExact, IsDelta, AtWorstDeleted
  <2>2. LoadsOK'
    BY <1>1 DEF Inv, vars, readerVars, LoadsOK, LoadOK, IsDelta
  <2> QED
    BY <2>1, <2>2 DEF Inv
<1>2. ASSUME NEW touched \in SUBSET IPs, NEW val \in [touched -> Vals], Write(touched, val)
      PROVE  Inv'
  BY <1>2, CommitKeepsInv DEF Write
<1>3. ASSUME NEW dead \in SUBSET IPs, Remove(dead) PROVE Inv'
  BY <1>3, CommitKeepsInv DEF Remove
<1>4. ASSUME NEW t \in Tabs, Load(t) \/ Step(t) \/ Fail(t) PROVE Inv'
  <2> DEFINE l == tab[t]
  <2>1. /\ l \in Loads /\ l.since \in Int /\ l.ver \in Nat /\ l.got \in Pools
        /\ LoadOK(l) /\ tab \in [Tabs -> Loads]
        /\ meta \in Int /\ meta <= version /\ (meta # NoMeta => meta \in 0..version)
        /\ l.ver \in 0..version
    BY RevTypes DEF TypeOK, Loads, Inv, LoadsOK, LoadOK, NoMeta
  \* a load step reads the server's state and writes none of it
  <2>2. ASSUME NEW load, Continue(t, load)
        PROVE  /\ poolVars' = poolVars /\ hist' = hist /\ History'
               /\ \A u \in Tabs : tab'[u] = IF u = t THEN load ELSE tab[u]
               /\ version' = version /\ pool' = pool /\ resetVersion' = resetVersion
    BY <2>1, <2>2 DEF Continue, poolVars, Inv, History, HistNow, RevsBounded, ResetsGrow, Untouched, Deleted
  \* and as long as the stored version does not go back, the other loads keep
  \* what they rely on
  <2>3. ASSUME NEW load, Continue(t, load), LoadOK(tab[t])', meta' >= meta, meta' \in Int
        PROVE  LoadsOK'
    <3> SUFFICES ASSUME NEW u \in Tabs, u # t PROVE LoadOK(tab[u])'
      BY <2>2, <2>3 DEF LoadsOK
    <3>1. LoadOK(tab[u]) /\ tab'[u] = tab[u] /\ tab[u].since \in Int
      BY <2>2, <2>3 DEF Inv, LoadsOK, TypeOK, Loads
    <3> QED
      BY <2>1, <2>2, <2>3, <3>1 DEF LoadOK, IsDelta
  <2>4. ASSUME NEW load, Continue(t, load), LoadOK(tab[t])', EdgeExact', UNCHANGED <<meta, rows>>
        PROVE  Inv'
    <3>1. LoadsOK'
      BY <2>1, <2>3, <2>4
    <3>2. AtWorstDeleted' /\ meta' <= version'
      BY <2>1, <2>2, <2>4 DEF Inv, AtWorstDeleted
    <3> QED
      BY <2>2, <2>4, <3>1, <3>2 DEF Inv
  <2>5. ASSUME NEW load, Continue(t, load), UNCHANGED <<edgeFull, edgeChg>>
        PROVE  EdgeExact'
    BY <2>2, <2>5 DEF Inv, EdgeExact, IsDelta
  <2>6. ASSUME NEW pc \in {"idle", "full", "render"}, Continue(t, Fresh(pc))
        PROVE  LoadOK(tab[t])'
    <3>1. tab'[t] = Fresh(pc) /\ version' \in Nat
      BY <2>2, <2>6, RevTypes
    <3> QED
      BY <3>1 DEF LoadOK, Fresh, At, ChgPCs
  <2>7. CASE Load(t)
    BY <2>7, <2>1, <2>2, <2>4, <2>5, <2>6, RevTypes DEF Load, LoadOK, At, Fresh, ChgPCs, NoMeta
  <2>8. CASE ChangesVersion(t)
    BY <2>8, <2>1, <2>2, <2>4, <2>5, <2>6, RevTypes DEF ChangesVersion, LoadOK, At, Fresh, ChgPCs, NoMeta
  <2>9. CASE ChangesReset(t)
    <3>1. resetVersion >= hist[l.ver].reset
      BY <2>1, RevTypes DEF Inv, History, HistNow, ResetsGrow
    <3>2. CASE l.since > l.ver \/ l.since < resetVersion
      BY <2>9, <2>4, <2>5, <2>6, <3>2 DEF ChangesReset, MustReset
    <3>3. CASE ~(l.since > l.ver \/ l.since < resetVersion) /\ l.since = l.ver
      BY <2>9, <2>4, <2>5, <2>6, <3>3 DEF ChangesReset, MustReset
    <3>4. CASE ~(l.since > l.ver \/ l.since < resetVersion) /\ l.since # l.ver
      <4>1. Continue(t, At("chgCache", l.since, l.ver, NoRows))
        BY <2>9, <3>4 DEF ChangesReset, MustReset
      <4>2. l.since <= l.ver /\ hist[l.ver].reset <= l.since
        BY <2>1, <3>1, <3>4, RevTypes
      <4>3. LoadOK(tab[t])'
        BY <2>9, <2>1, <2>2, <4>1, <4>2 DEF LoadOK, At, ChgPCs, ChangesReset, MustReset
      <4> QED
        BY <2>9, <2>4, <2>5, <4>1, <4>3 DEF ChangesReset, MustReset
    <3> QED
      BY <3>2, <3>3, <3>4
  <2>10. CASE ChangesHit(t)
    <3>1. PICK e \in edgeChg : /\ e.since = l.since /\ e.ver = l.ver
                               /\ Continue(t, At("apply", l.since, l.ver, e.got))
      BY <2>10 DEF ChangesHit
    <3>2. IsDelta(l.since, l.ver, e.got)
      BY <3>1 DEF Inv, EdgeExact
    <3>3. LoadOK(tab[t])'
      BY <2>10, <2>1, <2>2, <3>1, <3>2 DEF LoadOK, At, ChgPCs, ChangesHit, IsDelta
    <3> QED
      BY <2>10, <2>4, <2>5, <3>1, <3>3 DEF ChangesHit
  <2>11. CASE ChangesMiss(t)
    BY <2>11, <2>1, <2>2, <2>4, <2>5, <2>6, RevTypes DEF ChangesMiss, LoadOK, At, Fresh, ChgPCs, NoMeta
  <2>12. CASE ChangesLoad(t)
    BY <2>12, <2>1, <2>2, <2>4, <2>5, <2>6, RevTypes DEF ChangesLoad, LoadOK, At, Fresh, ChgPCs, NoMeta
  <2>13. CASE ChangesRetry(t)
    BY <2>13, <2>1, <2>2, <2>4, <2>5, <2>6, RevTypes DEF ChangesRetry, LoadOK, At, Fresh, ChgPCs, NoMeta
  <2>14. CASE ChangesSend(t)
    <3>1. Continue(t, At("apply", l.since, l.ver, l.got)) /\ l.ver = version
      BY <2>14 DEF ChangesSend
    <3>2. IsDelta(l.since, l.ver, l.got)
      BY <2>14, <2>1, <3>1 DEF ChangesSend, LoadOK, ChgPCs, IsDelta, Inv, History, HistNow
    <3>3. LoadOK(tab[t])'
      BY <2>14, <2>1, <2>2, <3>1, <3>2 DEF LoadOK, At, ChgPCs, ChangesSend, IsDelta
    <3>4. EdgeExact'
      BY <2>14, <2>2, <3>1, <3>2 DEF ChangesSend, Inv, EdgeExact, IsDelta
    <3> QED
      BY <2>14, <2>4, <3>1, <3>3, <3>4 DEF ChangesSend
  <2>15. CASE FullVersion(t)
    BY <2>15, <2>1, <2>2, <2>4, <2>5, <2>6, RevTypes DEF FullVersion, LoadOK, At, Fresh, ChgPCs, NoMeta
  <2>16. CASE FullHit(t)
    <3>1. PICK e \in edgeFull : e.ver = l.ver /\ Continue(t, At("replace", NoMeta, l.ver, e.got))
      BY <2>16 DEF FullHit
    <3>2. e.got = hist[l.ver].pool
      BY <3>1 DEF Inv, EdgeExact
    <3>3. LoadOK(tab[t])'
      BY <2>1, <2>2, <3>1, <3>2 DEF LoadOK, At, ChgPCs
    <3> QED
      BY <2>16, <2>4, <2>5, <3>1, <3>3 DEF FullHit
  <2>17. CASE FullMiss(t)
    BY <2>17, <2>1, <2>2, <2>4, <2>5, <2>6, RevTypes DEF FullMiss, LoadOK, At, Fresh, ChgPCs, NoMeta
  <2>18. CASE FullLoad(t)
    BY <2>18, <2>1, <2>2, <2>4, <2>5, <2>6, RevTypes DEF FullLoad, LoadOK, At, Fresh, ChgPCs, NoMeta
  <2>19. CASE FullRetry(t)
    BY <2>19, <2>1, <2>2, <2>4, <2>5, <2>6, RevTypes DEF FullRetry, LoadOK, At, Fresh, ChgPCs, NoMeta
  <2>20. CASE FullSend(t)
    <3>1. Continue(t, At("replace", NoMeta, l.ver, l.got)) /\ l.ver = version
      BY <2>20 DEF FullSend
    <3>2. l.got = hist[l.ver].pool
      BY <2>20, <2>1, <3>1 DEF FullSend, LoadOK, Inv, History, HistNow
    <3>3. LoadOK(tab[t])'
      BY <2>1, <2>2, <3>1, <3>2 DEF LoadOK, At, ChgPCs
    <3>4. EdgeExact'
      BY <2>20, <2>1, <2>2, <3>1, <3>2 DEF FullSend, Inv, EdgeExact, IsDelta
    <3> QED
      BY <2>20, <2>4, <3>1, <3>3, <3>4 DEF FullSend
  <2>21. CASE Render(t)
    BY <2>21, <2>1, <2>2, <2>4, <2>5, <2>6, RevTypes DEF Render, LoadOK, At, Fresh, ChgPCs, NoMeta
  <2>22. CASE Fail(t)
    BY <2>22, <2>1, <2>2, <2>4, <2>5, <2>6, RevTypes DEF Fail, LoadOK, At, Fresh, ChgPCs, NoMeta
  <2>23. CASE ApplyChanges(t)
    <3>1. Continue(t, Fresh("render")) /\ IsDelta(l.since, l.ver, l.got) /\ l.since <= meta /\ 0 <= l.since
      BY <2>23, <2>1 DEF ApplyChanges, Advance, LoadOK, ChgPCs
    <3>2. meta \in 0..version /\ meta' \in 0..version /\ meta' >= meta
          /\ meta' = IF meta <= l.ver THEN l.ver ELSE meta
      BY <2>23, <2>1, <3>1 DEF ApplyChanges, Advance, NoMeta
    <3>3. AtWorstDeleted'
      <4> SUFFICES ASSUME NEW ip \in IPs
                   PROVE  \/ rows'[ip] = hist'[meta'].pool[ip]
                          \/ hist'[meta'].pool[ip] = NoRow /\ rows'[ip].rev < hist'[meta'].reset
        BY DEF AtWorstDeleted
      <4>1. \/ Merge(rows, l.got)[ip] = hist[meta'].pool[ip]
            \/ hist[meta'].pool[ip] = NoRow /\ Merge(rows, l.got)[ip].rev < hist[meta'].reset
        BY <2>1, <3>1, <3>2, DeltaMerged DEF Inv
      <4> QED
        BY <2>23, <2>2, <3>1, <4>1 DEF ApplyChanges, Advance
    <3> QED
      BY <2>23, <2>2, <2>3, <2>5, <2>6, <3>1, <3>2, <3>3 DEF ApplyChanges, Advance, Inv
  <2>24. CASE WriteFullCache(t)
    <3>1. Continue(t, Fresh("render")) /\ l.got = hist[l.ver].pool
      BY <2>24, <2>1 DEF WriteFullCache, LoadOK
    <3>2. CASE meta > l.ver
      BY <2>24, <2>4, <2>5, <2>6, <3>1, <3>2 DEF WriteFullCache
    <3>3. CASE ~(meta > l.ver)
      <4>1. meta' = l.ver /\ rows' = l.got /\ meta' >= meta /\ meta' <= version /\ meta' \in Int
        BY <2>24, <2>1, <3>3 DEF WriteFullCache
      <4>2. AtWorstDeleted'
        BY <2>2, <3>1, <4>1 DEF AtWorstDeleted
      <4> QED
        BY <2>24, <2>2, <2>3, <2>5, <2>6, <3>1, <4>1, <4>2 DEF WriteFullCache, Inv
    <3> QED
      BY <3>2, <3>3
  <2> QED
    BY <1>4, <2>7, <2>8, <2>9, <2>10, <2>11, <2>12, <2>13, <2>14, <2>15,
       <2>16, <2>17, <2>18, <2>19, <2>20, <2>21, <2>22, <2>23, <2>24 DEF Step
<1> QED
  BY <1>1, <1>2, <1>3, <1>4 DEF Next

-----------------------------------------------------------------------------
(* The theorems                                                            *)

\* The inductive invariant holds in every reachable state of the readers and
\* writers.
LEMMA InvInvariant == Spec => [](TypeOK /\ Inv)
<1>1. Init => Inv
  <2> SUFFICES ASSUME Init PROVE Inv
    OBVIOUS
  <2>1. 0..version = {0} /\ version = 0
    BY DEF Init, PoolInit
  <2>2. \A ip \in IPs : hist[0].pool[ip] = NoRow /\ hist[0].reset = 0
    BY DEF Init, NoRows
  <2>3. History
    BY <2>1, <2>2 DEF Init, PoolInit, NoRows, History, HistNow, RevsBounded, ResetsGrow, Untouched, Deleted
  <2>4. LoadsOK
    BY <2>1 DEF Init, LoadsOK, LoadOK, Fresh, At, ChgPCs
  <2> QED
    BY <2>1, <2>3, <2>4 DEF Init, Inv, EdgeExact, AtWorstDeleted, NoMeta
<1> QED
  BY <1>1, InvStep, TypeCorrect, TypeStep, PTL DEF Spec

\* However many tabs share the snapshot and however old the responses they
\* store are, no update is lost and no row goes back: the stored rows are those
\* of the stored version, but for rows the server had deleted (home.js
\* applyChanges and writeFullCache).
THEOREM SnapshotSafe == Spec => []AtWorstDeleted
  BY InvInvariant, PTL DEF Inv

\* Whatever is committed while a handler runs, and from whichever cache the body
\* comes, a full response is the pool of its version and a delta leads exactly
\* from the pool of `since' to the pool of its version (api/pool.ts,
\* api/pool/changes.ts).
THEOREM ResponsesSafe == Spec => []ResponsesExact
<1>1. TypeOK /\ Inv => ResponsesExact
  <2> SUFFICES ASSUME TypeOK, Inv, NEW t \in Tabs
               PROVE  /\ tab[t].pc = "replace" => tab[t].got = hist[tab[t].ver].pool
                      /\ tab[t].pc = "apply" =>
                           Merge(hist[tab[t].since].pool, tab[t].got) = hist[tab[t].ver].pool
    BY DEF ResponsesExact
  <2>1. LoadOK(tab[t]) /\ tab[t].since \in Int /\ tab[t].ver \in Nat /\ History
    BY DEF Inv, LoadsOK, TypeOK, Loads
  <2> QED
    BY <2>1, DeltaExact DEF LoadOK
<1> QED
  BY <1>1, InvInvariant, PTL

\* The stored version never goes back, whichever tab stores what when
\* (writeFullCache and applyChanges compare versions inside their transaction).
THEOREM NeverBackSafe == Spec => NeverBack
<1>1. TypeOK /\ [Next]_vars => [meta' >= meta]_meta
  <2> SUFFICES ASSUME TypeOK, Next PROVE meta' >= meta \/ meta' = meta
    BY DEF vars, readerVars
  <2>1. \A t \in Tabs : tab[t].ver \in Nat
    BY DEF TypeOK, Loads
  <2>2. ASSUME NEW t \in Tabs, Load(t) \/ Step(t) \/ Fail(t) PROVE meta' >= meta \/ meta' = meta
    BY <2>1, <2>2 DEF Step, TypeOK, NoMeta, Load, Fail, Render, ApplyChanges, Advance, WriteFullCache,
       ChangesVersion, ChangesReset, MustReset, ChangesHit, ChangesMiss, ChangesLoad, ChangesRetry, ChangesSend,
       FullVersion, FullHit, FullMiss, FullLoad, FullRetry, FullSend
  <2> QED
    BY <2>2 DEF Next, Write, Remove, readerVars
<1> QED
  BY <1>1, TypeCorrect, PTL DEF Spec, NeverBack

-----------------------------------------------------------------------------
(* One tab                                                                 *)

\* What a delta under way is relative to is what is stored, if nobody else stores.
SinceStored == \A t \in Tabs : tab[t].pc \in ChgPCs => tab[t].since = meta

OneTabInv == SinceStored /\ SnapshotExact

\* A commit changes no earlier version, and nothing in the browser.
LEMMA CommitKeepsOneTab ==
    ASSUME TypeOK, Inv, OneTabInv,
           \/ \E touched \in SUBSET IPs : \E val \in [touched -> Vals] : Publish(touched, val)
           \/ \E dead \in SUBSET IPs : Evict(dead),
           Record, UNCHANGED readerVars
    PROVE  OneTabInv'
<1>1. \A n \in 0..version : hist'[n] = hist[n]
  BY CommitTypes
<1>2. meta # NoMeta => meta \in 0..version
  BY RevTypes DEF Inv, TypeOK
<1> QED
  BY <1>1, <1>2 DEF OneTabInv, SinceStored, SnapshotExact, readerVars

\* Every step of the only tab keeps its snapshot exact: the delta it applies is
\* relative to the snapshot it is applied to, and leads to a version at least as new.
LEMMA OneTabStep ==
    ASSUME \A t, u \in Tabs : t = u
    PROVE  TypeOK /\ Inv /\ OneTabInv /\ [Next]_vars => OneTabInv'
<1> SUFFICES ASSUME TypeOK, Inv, OneTabInv, [Next]_vars PROVE OneTabInv'
  OBVIOUS
<1>1. CASE UNCHANGED vars
  BY <1>1 DEF OneTabInv, SinceStored, SnapshotExact, vars, readerVars
<1>2. ASSUME NEW touched \in SUBSET IPs, NEW val \in [touched -> Vals], Write(touched, val)
      PROVE  OneTabInv'
  BY <1>2, CommitKeepsOneTab DEF Write
<1>3. ASSUME NEW dead \in SUBSET IPs, Remove(dead) PROVE OneTabInv'
  BY <1>3, CommitKeepsOneTab DEF Remove
<1>4. ASSUME NEW t \in Tabs, Load(t) \/ Step(t) \/ Fail(t) PROVE OneTabInv'
  <2> DEFINE l == tab[t]
  <2>1. /\ l \in Loads /\ l.since \in Int /\ l.ver \in Nat /\ LoadOK(l) /\ tab \in [Tabs -> Loads]
        /\ \A u \in Tabs : u = t
        /\ l.pc \in ChgPCs => l.since = meta
        /\ meta \in Int
    BY DEF TypeOK, Loads, Inv, LoadsOK, OneTabInv, SinceStored, NoMeta
  \* a step that stores nothing needs only its own since
  <2>2. ASSUME NEW load, Continue(t, load), UNCHANGED <<meta, rows>>,
               load.pc \in ChgPCs => load.since = meta
        PROVE  OneTabInv'
    BY <2>1, <2>2 DEF Continue, OneTabInv, SinceStored, SnapshotExact
  <2>3. \A pc \in {"idle", "full", "render"} : Fresh(pc).pc \notin ChgPCs
    BY DEF Fresh, At, ChgPCs
  <2>4. \A pc \in FullPCs : \A ver, got : At(pc, NoMeta, ver, got).pc \notin ChgPCs
    BY DEF At, ChgPCs, FullPCs
  <2>5. \A pc, since, ver, got : At(pc, since, ver, got).since = since
    BY DEF At
  <2>6. CASE Load(t)
    BY <2>2, <2>3, <2>5, <2>6 DEF Load
  <2>7. CASE ChangesVersion(t) \/ ChangesMiss(t) \/ ChangesLoad(t) \/ ChangesSend(t)
    <3>1. l.since = meta
      BY <2>1, <2>7 DEF ChangesVersion, ChangesMiss, ChangesLoad, ChangesSend, ChgPCs
    <3> QED
      BY <2>2, <2>5, <2>7, <3>1 DEF ChangesVersion, ChangesMiss, ChangesLoad, ChangesSend
  <2>8. CASE ChangesReset(t)
    <3>1. l.since = meta
      BY <2>1, <2>8 DEF ChangesReset, ChgPCs
    <3> QED
      BY <2>2, <2>3, <2>5, <2>8, <3>1 DEF ChangesReset
  <2>9. CASE ChangesHit(t)
    <3>1. l.since = meta
      BY <2>1, <2>9 DEF ChangesHit, ChgPCs
    <3> QED
      BY <2>2, <2>5, <2>9, <3>1 DEF ChangesHit
  <2>10. CASE ChangesRetry(t) \/ FullRetry(t) \/ Render(t) \/ Fail(t)
    BY <2>2, <2>3, <2>10 DEF ChangesRetry, FullRetry, Render, Fail
  <2>11. CASE FullVersion(t) \/ FullMiss(t) \/ FullLoad(t) \/ FullSend(t)
    BY <2>2, <2>4, <2>11 DEF FullVersion, FullMiss, FullLoad, FullSend, FullPCs
  <2>12. CASE FullHit(t)
    BY <2>2, <2>4, <2>12 DEF FullHit, FullPCs
  <2>13. CASE ApplyChanges(t)
    <3>1. Continue(t, Fresh("render")) /\ rows' = Merge(rows, l.got) /\ meta' = Advance(l.ver)
      BY <2>13 DEF ApplyChanges
    <3>2. l.since = meta /\ 0 <= meta /\ IsDelta(l.since, l.ver, l.got)
      BY <2>1, <2>13 DEF ApplyChanges, LoadOK, ChgPCs
    <3>3. rows = hist[meta].pool
      BY <3>2 DEF OneTabInv, SnapshotExact, NoMeta
    <3>4. Merge(rows, l.got) = hist[l.ver].pool
      BY <2>1, <3>2, <3>3, DeltaExact DEF Inv
    <3>5. meta' = l.ver
      BY <2>1, <3>1, <3>2 DEF Advance, IsDelta
    <3> QED
      BY <2>1, <2>3, <3>1, <3>4, <3>5 DEF Continue, OneTabInv, SinceStored, SnapshotExact
  <2>14. CASE WriteFullCache(t)
    <3>1. Continue(t, Fresh("render")) /\ l.got = hist[l.ver].pool
      BY <2>1, <2>14 DEF WriteFullCache, LoadOK
    <3>2. CASE meta > l.ver
      BY <2>2, <2>3, <2>14, <3>1, <3>2 DEF WriteFullCache
    <3>3. CASE ~(meta > l.ver)
      <4>1. meta' = l.ver /\ rows' = l.got
        BY <2>14, <3>3 DEF WriteFullCache
      <4> QED
        BY <2>1, <2>3, <3>1, <4>1 DEF Continue, OneTabInv, SinceStored, SnapshotExact
    <3> QED
      BY <3>2, <3>3
  <2> QED
    BY <1>4, <2>6, <2>7, <2>8, <2>9, <2>10, <2>11, <2>12, <2>13, <2>14 DEF Step
<1> QED
  BY <1>1, <1>2, <1>3, <1>4 DEF Next

\* A tab that has the snapshot to itself holds exactly the pool of the version it
\* claims, deleted rows included: the reset of pool/changes.ts sends it to the full
\* pool whenever a delta could not say what went (home.js applyChanges).
THEOREM OneTabSafe ==
    ASSUME \A t, u \in Tabs : t = u
    PROVE  Spec => []SnapshotExact
<1>1. Init => OneTabInv
  BY DEF Init, OneTabInv, SinceStored, SnapshotExact, Fresh, At, ChgPCs
<1>2. TypeOK /\ Inv /\ OneTabInv /\ [Next]_vars => OneTabInv'
  BY OneTabStep
<1>3. OneTabInv => SnapshotExact
  BY DEF OneTabInv
<1> QED
  BY <1>1, <1>2, <1>3, InvInvariant, PTL DEF Spec

=============================================================================
