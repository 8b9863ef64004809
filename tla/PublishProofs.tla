---------------------------- MODULE PublishProofs ----------------------------
(***************************************************************************)
(* Theorems about DNS publishing, for any number of isolates, any pools    *)
(* and any limit: what topIPsForPublish selects, that an undisturbed sync  *)
(* never leaves the name bare, and that it ends with the selection.        *)
(***************************************************************************)
EXTENDS Publish, FiniteSetTheorems, TLAPS

\* Nothing comes strictly before itself, and Before is transitive, on addresses
\* with a measured time: ORDER BY last_seen DESC, last_rtt_ms.
LEMMA BeforeOrders ==
    ASSUME pool \in Pools, NEW f \in Families
    PROVE  /\ \A x \in Candidates(f) : ~Before(x, x)
           /\ \A x, y, z \in Candidates(f) : Before(x, y) /\ Before(y, z) => Before(x, z)
<1>1. pool \in [IPs -> [ok : BOOLEAN, seen : Nat, rtt : Nat \cup {NoRTT}]]
  BY PublishAssumption
<1>2. Candidates(f) \subseteq IPs
  BY DEF Candidates, Of, IPs, Families
<1>3. \A x \in Candidates(f) : pool[x].seen \in Nat /\ pool[x].rtt \in Nat
  BY <1>1, <1>2 DEF Candidates
<1> QED
  BY <1>3 DEF Before

\* The candidates of a family are addresses of it, finitely many.
LEMMA CandidatesOf ==
    ASSUME NEW f \in Families
    PROVE  Candidates(f) \subseteq Of(f) /\ Of(f) \subseteq IPs /\ IsFiniteSet(Candidates(f))
<1>1. Candidates(f) \subseteq Of(f) /\ Of(f) \subseteq IPs
  BY DEF Candidates, Of, IPs, Families
<1> QED
  BY <1>1, PublishAssumption, FS_Subset

\* Some candidate of any selection comes first: none of it is strictly before.
LEMMA SomeFirst ==
    ASSUME pool \in Pools, NEW f \in Families, NEW C \in SUBSET Candidates(f), C # {}
    PROVE  \E x \in C : \A y \in C : ~Before(y, x)
<1> DEFINE Ahead(x) == {y \in C : Before(y, x)}
           N == {Cardinality(Ahead(x)) : x \in C}
<1>1. IsFiniteSet(C)
  BY CandidatesOf, FS_Subset
<1>2. \A x \in C : IsFiniteSet(Ahead(x)) /\ Cardinality(Ahead(x)) \in Nat
  BY <1>1, FS_Subset, FS_CardinalityType
<1>3. N \in SUBSET Nat /\ N # {}
  BY <1>2
<1>4. PICK n \in N : \A m \in N : ~(<<m, n>> \in OpToRel(<, Nat))
  BY <1>3, NatLessThanWellFounded, WFMin, Zenon
<1>5. \A m \in N : ~(m < n)
  BY <1>3, <1>4 DEF OpToRel
<1>6. PICK x \in C : n = Cardinality(Ahead(x))
  OBVIOUS
<1>7. ASSUME NEW y \in C, Before(y, x) PROVE FALSE
  <2>1. Ahead(y) \subseteq Ahead(x)
    BY <1>7, BeforeOrders
  <2>2. y \in Ahead(x) /\ y \notin Ahead(y)
    BY <1>7, BeforeOrders
  <2>3. /\ Cardinality(Ahead(y)) <= Cardinality(Ahead(x))
        /\ Cardinality(Ahead(x)) = Cardinality(Ahead(y)) => Ahead(x) = Ahead(y)
    BY <1>2, <2>1, FS_Subset
  <2>4. ~(Cardinality(Ahead(y)) < n)
    BY <1>5, <1>7
  <2> HIDE DEF Ahead
  <2>5. Cardinality(Ahead(y)) = Cardinality(Ahead(x))
    BY <1>2, <1>6, <1>7, <2>3, <2>4
  <2> QED
    BY <2>2, <2>3, <2>5
<1> QED
  BY <1>7

\* What a selection of the best of a family may be.
Best(f, S) ==
    /\ Cardinality(S) <= Limit
    /\ Cardinality(S) < Limit => S = Candidates(f)
    /\ \A x \in S, y \in Candidates(f) \ S : ~Before(y, x)

\* Selections that leave out nothing better than what they have.
Closed(f) ==
    {S \in SUBSET Candidates(f) :
       /\ Cardinality(S) <= Limit
       /\ \A x \in S, y \in Candidates(f) \ S : ~Before(y, x)}

\* A closed selection with room left can take one more.
LEMMA OneMore ==
    ASSUME pool \in Pools, NEW f \in Families, NEW S \in Closed(f),
           Cardinality(S) < Limit, S # Candidates(f)
    PROVE  \E T \in Closed(f) : Cardinality(T) = Cardinality(S) + 1
<1>1. S \in SUBSET Candidates(f) /\ \A x \in S, y \in Candidates(f) \ S : ~Before(y, x)
  BY DEF Closed
<1>2. PICK x \in Candidates(f) \ S : \A y \in Candidates(f) \ S : ~Before(y, x)
  <2> DEFINE C == Candidates(f) \ S
  <2>1. C \in SUBSET Candidates(f) /\ C # {}
    BY <1>1
  <2> HIDE DEF C
  <2>2. \E x \in C : \A y \in C : ~Before(y, x)
    BY <2>1, SomeFirst
  <2> QED
    BY <2>2 DEF C
<1> DEFINE T == S \cup {x}
<1>3. IsFiniteSet(S) /\ Cardinality(S) \in Nat
  BY <1>1, CandidatesOf, FS_Subset, FS_CardinalityType
<1>4. Cardinality(T) = Cardinality(S) + 1
  BY <1>2, <1>3, FS_AddElement
<1>5. Cardinality(T) <= Limit
  BY <1>3, <1>4, PublishAssumption
<1>6. T \in SUBSET Candidates(f) /\ \A u \in T, y \in Candidates(f) \ T : ~Before(y, u)
  BY <1>1, <1>2
<1>7. T \in Closed(f)
  BY <1>5, <1>6 DEF Closed
<1> QED
  BY <1>4, <1>7

\* topIPsForPublish always has an answer, and it is a best selection: at most Limit
\* candidates, all of them when there are fewer, and none left out that is strictly
\* better than one that is in.
LEMMA TopIsBest ==
    ASSUME pool \in Pools, NEW f \in Families
    PROVE  Top(f) \in SUBSET Candidates(f) /\ Best(f, Top(f))
<1> DEFINE N == {Limit - Cardinality(S) : S \in Closed(f)}
<1>0. Limit \in Nat
  BY PublishAssumption
<1>1. \A S \in Closed(f) : /\ Cardinality(S) \in Nat /\ Cardinality(S) <= Limit
                           /\ Limit - Cardinality(S) \in Nat
  <2> TAKE S \in Closed(f)
  <2>1. S \in SUBSET Candidates(f) /\ Cardinality(S) <= Limit
    BY DEF Closed
  <2>2. Cardinality(S) \in Nat
    BY <2>1, CandidatesOf, FS_Subset, FS_CardinalityType
  <2> QED
    BY <1>0, <2>1, <2>2
<1>2. {} \in Closed(f)
  BY <1>0, FS_EmptySet DEF Closed
<1>3. N \in SUBSET Nat /\ N # {}
  BY <1>1, <1>2
<1>4. PICK n \in N : \A m \in N : ~(<<m, n>> \in OpToRel(<, Nat))
  BY <1>3, NatLessThanWellFounded, WFMin, Zenon
<1>5. \A m \in N : ~(m < n)
  BY <1>3, <1>4 DEF OpToRel
<1>6. PICK S \in Closed(f) : n = Limit - Cardinality(S)
  OBVIOUS
<1>7. ASSUME Cardinality(S) < Limit PROVE S = Candidates(f)
  <2> SUFFICES ASSUME S # Candidates(f) PROVE FALSE
    OBVIOUS
  <2>1. PICK T \in Closed(f) : Cardinality(T) = Cardinality(S) + 1
    BY <1>7, OneMore
  <2>2. ~(Limit - Cardinality(T) < Limit - Cardinality(S))
    BY <1>5, <1>6
  <2> HIDE DEF N
  <2> QED
    BY <1>0, <1>1, <2>1, <2>2
<1>8. S \in SUBSET Candidates(f) /\ Best(f, S)
  BY <1>7 DEF Closed, Best
<1> HIDE DEF N
<1>9. Top(f) = CHOOSE D \in SUBSET Candidates(f) : Best(f, D)
  BY DEF Top, Best
<1> QED
  BY <1>8, <1>9

-----------------------------------------------------------------------------
(* The inductive invariant *)

\* What the two loops have to do lies within the family and does not meet, and
\* outside of them there is nothing left to do.
SyncOK(s) ==
    /\ s.want \subseteq Of(s.fam)
    /\ s.add \subseteq s.want
    /\ s.del \subseteq Of(s.fam) \ s.want
    /\ s.pc # "write" => s.add = {} /\ s.del = {} /\ s.stale = {}

\* While no other isolate has written to the family, it has the records wanted but
\* for those still to create, and those still to delete; no listed id is useless.
Exact(s) ==
    s.pc = "write" /\ s.alone =>
      /\ s.stale = {}
      /\ records \cap Of(s.fam) = (s.want \ s.add) \cup s.del

PublishInv ==
    /\ TypeOK
    /\ \A i \in Isolates : SyncOK(iso[i]) /\ Exact(iso[i])

\* What a sync is before and between its families.
LEMMA AtType ==
    ASSUME NEW pc \in {"idle", "want"}, NEW f \in Families
    PROVE  At(pc, f) \in Syncs /\ SyncOK(At(pc, f)) /\ At(pc, f).pc = pc /\ Exact(At(pc, f))'
BY DEF At, Syncs, Families, SyncOK, Exact

\* A family that is done or failed leaves its sync in such a state.
LEMMA AfterType ==
    ASSUME PublishInv, NEW i \in Isolates, NEW new, new = Caught(i)
    PROVE  /\ new \in Syncs /\ SyncOK(new) /\ Exact(new)'
           /\ new.pc \in {"idle", "want"} /\ new = AfterFamily(i)
<1>1. PICK pc \in {"idle", "want"}, f \in Families : new = At(pc, f)
  BY DEF Caught, AfterFamily, Idle, Families
<1>2. At(pc, f) \in Syncs /\ SyncOK(At(pc, f)) /\ At(pc, f).pc = pc /\ Exact(At(pc, f))'
  BY AtType
<1> QED
  BY <1>1, <1>2 DEF Caught

\* The families share no address.
LEMMA Apart ==
    /\ \A f \in Families : Of(f) \subseteq IPs
    /\ \A f, g \in Families : f # g => Of(f) \cap Of(g) = {}
BY PublishAssumption DEF Families, Of, IPs

\* One sync moves on and no record changes.
LEMMA Moves ==
    ASSUME PublishInv, NEW i \in Isolates, NEW new \in Syncs,
           iso' = [iso EXCEPT ![i] = new], UNCHANGED records, SyncOK(new), Exact(new)'
    PROVE  /\ iso' \in [Isolates -> Syncs] /\ iso'[i] = new
           /\ \A j \in Isolates : SyncOK(iso'[j]) /\ Exact(iso[j])'
<1>1. iso \in [Isolates -> Syncs]
  BY DEF PublishInv, TypeOK
<1>2. /\ iso' \in [Isolates -> Syncs] /\ iso'[i] = new
      /\ \A j \in Isolates : j # i => iso'[j] = iso[j]
  BY <1>1
<1>3. ASSUME NEW j \in Isolates PROVE SyncOK(iso'[j]) /\ Exact(iso[j])'
  <2>1. CASE j = i
    BY <1>2, <2>1 DEF Exact
  <2>2. CASE j # i
    <3>1. iso'[j] = iso[j]
      BY <1>2, <2>2
    <3>2. SyncOK(iso[j]) /\ Exact(iso[j])
      BY DEF PublishInv
    <3> QED
      BY <3>1, <3>2 DEF Exact
  <2> QED
    BY <2>1, <2>2
<1> QED
  BY <1>2, <1>3

\* A family is given up: the other one is next, and no record changes.
LEMMA Aborts ==
    ASSUME PublishInv, NEW i \in Isolates, Abort(i)
    PROVE  /\ iso' \in [Isolates -> Syncs] /\ iso'[i].pc \in {"idle", "want"}
           /\ \A j \in Isolates : SyncOK(iso'[j]) /\ Exact(iso[j])'
           /\ \A j \in Isolates : j # i => iso'[j] = iso[j]
           /\ UNCHANGED records
<1>1. PICK new : new = Caught(i)
  OBVIOUS
<1>2. iso' = [iso EXCEPT ![i] = new] /\ UNCHANGED records
  BY <1>1 DEF Abort
<1>3. new \in Syncs /\ SyncOK(new) /\ Exact(new)' /\ new.pc \in {"idle", "want"}
  BY <1>1, AfterType
<1>4. iso \in [Isolates -> Syncs]
  BY DEF PublishInv, TypeOK
<1>5. \A j \in Isolates : j # i => iso'[j] = iso[j]
  BY <1>2, <1>4
<1>6. iso' \in [Isolates -> Syncs] /\ iso'[i] = new /\ \A j \in Isolates : SyncOK(iso'[j]) /\ Exact(iso[j])'
  BY <1>2, <1>3, Moves
<1> QED
  BY <1>2, <1>3, <1>5, <1>6

\* One isolate writes to its family: the syncs of the other one are not touched,
\* and those of the same one are no longer alone.
LEMMA Writes ==
    ASSUME PublishInv, NEW i \in Isolates, NEW new \in Syncs, NEW gone \in SUBSET IPs,
           Write(i, new, gone), gone \subseteq Of(iso[i].fam), SyncOK(new), Exact(new)',
           records' \ Of(iso[i].fam) = records \ Of(iso[i].fam)
    PROVE  /\ iso' \in [Isolates -> Syncs] /\ iso'[i] = new
           /\ \A j \in Isolates : SyncOK(iso'[j]) /\ Exact(iso[j])'
           /\ \A j \in Isolates : j # i => /\ iso'[j].pc = iso[j].pc /\ iso'[j].fam = iso[j].fam
                                           /\ iso'[j].alone => iso[j].fam # iso[i].fam
<1>1. iso \in [Isolates -> Syncs]
  BY DEF PublishInv, TypeOK
<1>2. iso'[i] = new /\ DOMAIN iso' = Isolates
  BY DEF Write
<1>3. ASSUME NEW j \in Isolates, j # i
      PROVE  /\ iso'[j] \in Syncs /\ SyncOK(iso'[j]) /\ Exact(iso[j])'
             /\ iso'[j].pc = iso[j].pc /\ iso'[j].fam = iso[j].fam
             /\ iso'[j].alone => iso[j].fam # iso[i].fam
  <2> DEFINE s == iso[j]
             t == iso'[j]
  <2>1. s \in Syncs /\ iso[i] \in Syncs
    BY <1>1
  <2>2. t = [s EXCEPT !.stale = @ \cup (gone \cap s.del), !.alone = @ /\ s.fam # iso[i].fam]
    BY <1>3 DEF Write
  <2>3. /\ t.pc = s.pc /\ t.fam = s.fam /\ t.want = s.want /\ t.add = s.add /\ t.del = s.del
        /\ t.stale = s.stale \cup (gone \cap s.del) /\ t.alone = (s.alone /\ s.fam # iso[i].fam)
    BY <2>1, <2>2 DEF Syncs
  <2>4. t \in Syncs
    <3> DEFINE stale == s.stale \cup (gone \cap s.del)
               alone == s.alone /\ s.fam # iso[i].fam
    <3>1. stale \in SUBSET IPs /\ alone \in BOOLEAN
      BY <2>1 DEF Syncs
    <3>2. t = [s EXCEPT !.stale = stale, !.alone = alone]
      BY <2>2
    <3> HIDE DEF s, t, stale, alone
    <3> QED
      BY <2>1, <3>1, <3>2 DEF Syncs
  <2>5. SyncOK(s) /\ Exact(s)
    BY DEF PublishInv
  <2> HIDE DEF s, t
  <2>6. SyncOK(t)
    BY <2>3, <2>5 DEF SyncOK
  <2>7. ASSUME t.pc = "write", t.alone
        PROVE  t.stale = {} /\ records' \cap Of(t.fam) = (t.want \ t.add) \cup t.del
    <3>1. s.pc = "write" /\ s.alone /\ s.fam # iso[i].fam
      BY <2>3, <2>7
    <3>2. s.stale = {} /\ records \cap Of(s.fam) = (s.want \ s.add) \cup s.del
      BY <2>5, <3>1 DEF Exact
    <3>3. Of(s.fam) \cap Of(iso[i].fam) = {}
      BY <2>1, <3>1, Apart DEF Syncs
    <3>4. s.del \subseteq Of(s.fam)
      BY <2>5 DEF SyncOK
    <3>5. gone \cap s.del = {}
      BY <3>3, <3>4
    <3>6. records' \cap Of(s.fam) = records \cap Of(s.fam)
      BY <3>3
    <3> QED
      BY <2>3, <3>2, <3>5, <3>6
  <2> QED
    BY <2>3, <2>4, <2>6, <2>7 DEF s, t, Exact
<1>4. SyncOK(iso'[i]) /\ Exact(iso[i])'
  BY <1>2 DEF Exact
<1>5. \A j \in Isolates : iso'[j] \in Syncs /\ SyncOK(iso'[j]) /\ Exact(iso[j])'
  BY <1>2, <1>3, <1>4
<1>6. iso' \in [Isolates -> Syncs]
  <2>1. iso' = [j \in Isolates |-> iso'[j]]
    BY DEF Write
  <2> QED
    BY <1>5, <2>1
<1> QED
  BY <1>2, <1>3, <1>5, <1>6

\* What a step leaves of the syncs.
Kept ==
    /\ iso' \in [Isolates -> Syncs]
    /\ \A j \in Isolates : SyncOK(iso'[j]) /\ Exact(iso[j])'
    /\ records' \subseteq IPs

\* A record is created, or the service refuses: next is what the sync does after
\* the call has succeeded.
LEMMA Creates ==
    ASSUME PublishInv, NEW i \in Isolates, NEW ip \in iso[i].add,
           NEW next \in {[iso[i] EXCEPT !.add = @ \ {ip}], Caught(i)}, Create(i, ip, next)
    PROVE  Kept /\ records \subseteq records'
<1> DEFINE s == iso[i]
<1>0. s \in Syncs /\ SyncOK(s) /\ Exact(s) /\ records \subseteq IPs
  BY DEF PublishInv, TypeOK
<1>1. CASE ip \in records
  <2>1. Abort(i)
    BY <1>1 DEF Create
  <2> QED
    BY <1>0, <2>1, Aborts DEF Kept
<1>2. CASE ip \notin records
  <2>1. records' = records \cup {ip} /\ Write(i, next, {})
    BY <1>2 DEF Create
  <2>2. ip \in Of(s.fam) /\ ip \in s.want /\ ip \notin s.del /\ s.fam \in Families
    BY <1>0 DEF SyncOK, Syncs
  <2>3. next \in Syncs /\ SyncOK(next) /\ Exact(next)'
    <3>1. CASE next = Caught(i)
      BY <3>1, AfterType
    <3>2. CASE next = [s EXCEPT !.add = @ \ {ip}]
      <4>1. next \in Syncs
        BY <1>0, <3>2 DEF Syncs
      <4>2. /\ next.pc = s.pc /\ next.fam = s.fam /\ next.want = s.want /\ next.del = s.del
            /\ next.stale = s.stale /\ next.alone = s.alone /\ next.add = s.add \ {ip}
        BY <1>0, <3>2 DEF Syncs
      <4> HIDE DEF s
      <4>3. SyncOK(next)
        BY <1>0, <4>2 DEF SyncOK
      <4>4. Exact(next)'
        BY <1>0, <2>1, <2>2, <4>2 DEF Exact
      <4> QED
        BY <4>1, <4>3, <4>4
    <3> QED
      BY <3>1, <3>2
  <2>4. records' \ Of(s.fam) = records \ Of(s.fam) /\ records' \subseteq IPs
    BY <1>0, <2>1, <2>2, Apart
  <2> HIDE DEF s
  <2>5. iso' \in [Isolates -> Syncs] /\ \A j \in Isolates : SyncOK(iso'[j]) /\ Exact(iso[j])'
    BY <2>1, <2>3, <2>4, Writes DEF s
  <2> QED
    BY <2>1, <2>4, <2>5 DEF Kept
<1> QED
  BY <1>1, <1>2

\* A record is deleted, or its id turns out to be gone.
LEMMA Deletes ==
    ASSUME PublishInv, NEW i \in Isolates, NEW ip \in iso[i].del,
           NEW next \in {[iso[i] EXCEPT !.del = @ \ {ip}], Caught(i)}, Delete(i, ip, next)
    PROVE  Kept /\ records \ {ip} \subseteq records'
<1> DEFINE s == iso[i]
<1>0. s \in Syncs /\ SyncOK(s) /\ Exact(s) /\ records \subseteq IPs
  BY DEF PublishInv, TypeOK
<1>1. CASE ip \in s.stale
  <2>1. Abort(i)
    BY <1>1 DEF Delete
  <2> QED
    BY <1>0, <2>1, Aborts DEF Kept
<1>2. CASE ip \notin s.stale
  <2>1. records' = records \ {ip} /\ Write(i, next, {ip})
    BY <1>2 DEF Delete
  <2>2. ip \in Of(s.fam) /\ ip \notin s.want /\ s.fam \in Families /\ {ip} \in SUBSET IPs
    BY <1>0, Apart DEF SyncOK, Syncs
  <2>3. next \in Syncs /\ SyncOK(next) /\ Exact(next)'
    <3>1. CASE next = Caught(i)
      BY <3>1, AfterType
    <3>2. CASE next = [s EXCEPT !.del = @ \ {ip}]
      <4>1. next \in Syncs
        BY <1>0, <3>2 DEF Syncs
      <4>2. /\ next.pc = s.pc /\ next.fam = s.fam /\ next.want = s.want /\ next.add = s.add
            /\ next.stale = s.stale /\ next.alone = s.alone /\ next.del = s.del \ {ip}
        BY <1>0, <3>2 DEF Syncs
      <4> HIDE DEF s
      <4>3. SyncOK(next)
        BY <1>0, <4>2 DEF SyncOK
      <4>4. Exact(next)'
        BY <1>0, <2>1, <2>2, <4>2 DEF Exact
      <4> QED
        BY <4>1, <4>3, <4>4
    <3> QED
      BY <3>1, <3>2
  <2>4. records' \ Of(s.fam) = records \ Of(s.fam) /\ records' \subseteq IPs
    BY <1>0, <2>1, <2>2
  <2> HIDE DEF s
  <2>5. iso' \in [Isolates -> Syncs] /\ \A j \in Isolates : SyncOK(iso'[j]) /\ Exact(iso[j])'
    BY <2>1, <2>2, <2>3, <2>4, Writes DEF s
  <2> QED
    BY <2>1, <2>4, <2>5 DEF Kept
<1> QED
  BY <1>1, <1>2

\* How a sync gets on without writing.
LEMMA Selects ==
    ASSUME PublishInv, NEW i \in Isolates, Want(i) \/ ListRecords(i)
    PROVE  Kept /\ UNCHANGED records
<1> DEFINE s == iso[i]
<1>0. s \in Syncs /\ SyncOK(s) /\ records \subseteq IPs /\ pool \in Pools /\ iso \in [Isolates -> Syncs]
  BY DEF PublishInv, TypeOK
<1>1. CASE Want(i)
  <2>1. PICK best : best = Top(s.fam)
    OBVIOUS
  <2>n. PICK new : new = [s EXCEPT !.pc = "list", !.want = best]
    OBVIOUS
  <2>2. iso' = [iso EXCEPT ![i] = new] /\ UNCHANGED records
    BY <1>0, <1>1, <2>1, <2>n DEF Want
  <2>3. best \subseteq Of(s.fam) /\ best \in SUBSET IPs
    BY <1>0, <2>1, TopIsBest, CandidatesOf DEF Syncs
  <2>4. s.add = {} /\ s.del = {} /\ s.stale = {}
    BY <1>0, <1>1 DEF Want, SyncOK
  <2>5. new \in Syncs
    BY <1>0, <2>n, <2>3 DEF Syncs
  <2>6. /\ new.pc = "list" /\ new.fam = s.fam /\ new.want = best
        /\ new.add = {} /\ new.del = {} /\ new.stale = {}
    BY <1>0, <2>n, <2>4 DEF Syncs
  <2> HIDE DEF s
  <2>7. SyncOK(new) /\ Exact(new)'
    BY <2>3, <2>6 DEF SyncOK, Exact
  <2> QED
    BY <1>0, <2>2, <2>5, <2>7, Moves DEF Kept, s
<1>2. CASE ListRecords(i)
  <2> DEFINE have == records \cap Of(s.fam)
  <2>n. PICK new : new = [s EXCEPT !.pc = "write", !.add = s.want \ have, !.del = have \ s.want,
                                   !.alone = TRUE]
    OBVIOUS
  <2>2. iso' = [iso EXCEPT ![i] = new] /\ UNCHANGED records
    BY <1>0, <1>2, <2>n DEF ListRecords
  <2>4. s.stale = {}
    BY <1>0, <1>2 DEF ListRecords, SyncOK
  <2>5. new \in Syncs
    BY <1>0, <2>n DEF Syncs
  <2>6. /\ new.pc = "write" /\ new.fam = s.fam /\ new.want = s.want
        /\ new.add = s.want \ have /\ new.del = have \ s.want /\ new.stale = {}
    BY <1>0, <2>n, <2>4 DEF Syncs
  <2>7. s.want \subseteq Of(s.fam) /\ records' = records
    BY <1>0, <2>2 DEF SyncOK
  <2> HIDE DEF s
  <2>8. SyncOK(new) /\ Exact(new)'
    BY <2>6, <2>7 DEF SyncOK, Exact
  <2> QED
    BY <1>0, <2>2, <2>5, <2>8, Moves DEF Kept, s
<1> QED
  BY <1>1, <1>2

\* A sync begins, ends a family, or is gone.
LEMMA Turns ==
    ASSUME PublishInv, NEW i \in Isolates, Start(i) \/ EndFamily(i) \/ Die(i)
    PROVE  Kept /\ UNCHANGED records
<1>0. records \subseteq IPs
  BY DEF PublishInv, TypeOK
<1>1. CASE Start(i) \/ Die(i)
  <2>1. PICK new : new \in {At("want", 4), Idle} /\ iso' = [iso EXCEPT ![i] = new]
    BY <1>1 DEF Start, Die
  <2>2. PICK pc \in {"idle", "want"}, f \in Families : new = At(pc, f)
    BY <2>1 DEF Idle, Families
  <2>3. At(pc, f) \in Syncs /\ SyncOK(At(pc, f)) /\ Exact(At(pc, f))'
    BY AtType
  <2>4. new \in Syncs /\ SyncOK(new) /\ Exact(new)' /\ UNCHANGED records
    BY <1>1, <2>2, <2>3 DEF Start, Die
  <2> QED
    BY <1>0, <2>1, <2>4, Moves DEF Kept
<1>2. CASE EndFamily(i)
  BY <1>0, <1>2, Aborts DEF EndFamily, Abort, Caught, Kept
<1> QED
  BY <1>1, <1>2

\* A failure: the call may have taken effect or not.
LEMMA Fails ==
    ASSUME PublishInv, NEW i \in Isolates, Fail(i)
    PROVE  Kept
<1>0. records \subseteq IPs
  BY DEF PublishInv, TypeOK
<1>c. PICK next : next = Caught(i)
  OBVIOUS
<1>1. CASE Abort(i)
  BY <1>0, <1>1, Aborts DEF Kept
<1>2. ASSUME NEW ip \in iso[i].add, Create(i, ip, next) PROVE Kept
  BY <1>2, <1>c, Creates
<1>3. ASSUME NEW ip \in iso[i].del, Delete(i, ip, next) PROVE Kept
  BY <1>3, <1>c, Deletes
<1> QED
  BY <1>1, <1>2, <1>3, <1>c DEF Fail

\* Every step of syncDNS keeps the invariant.
LEMMA Inductive ==
    ASSUME PublishInv, [Next]_vars
    PROVE  PublishInv'
<1>0. TypeOK /\ pool \in Pools /\ recent \in [Isolates -> BOOLEAN] /\ faults \in 0..MaxFaults
  BY DEF PublishInv, TypeOK
<1>k. Kept => /\ records' \subseteq IPs /\ iso' \in [Isolates -> Syncs]
              /\ \A j \in Isolates : iso'[j].want \subseteq Of(iso'[j].fam) /\ SyncOK(iso'[j]) /\ Exact(iso[j])'
  BY DEF Kept, SyncOK
<1>q. Kept /\ pool' \in Pools /\ recent' \in [Isolates -> BOOLEAN] /\ faults' \in 0..MaxFaults => PublishInv'
  BY <1>k DEF PublishInv, TypeOK
<1>u. UNCHANGED <<records, iso>> => Kept
  BY DEF Kept, PublishInv, TypeOK, Exact
<1>1. CASE UNCHANGED vars
  BY <1>0, <1>1, <1>q, <1>u DEF vars
<1>2. ASSUME NEW i \in Isolates, Start(i) \/ EndFamily(i) PROVE PublishInv'
  <2>1. recent' \in [Isolates -> BOOLEAN] /\ pool' = pool /\ faults' = faults
    BY <1>0, <1>2 DEF Start, EndFamily
  <2> QED
    BY <1>0, <1>2, <1>q, <2>1, Turns
<1>3. ASSUME NEW i \in Isolates, Die(i) PROVE PublishInv'
  <2>1. recent' \in [Isolates -> BOOLEAN] /\ pool' = pool /\ faults' \in 0..MaxFaults
    BY <1>0, <1>3, PublishAssumption DEF Die, Fault
  <2> QED
    BY <1>0, <1>3, <1>q, <2>1, Turns
<1>4. ASSUME NEW i \in Isolates, Elapse(i) PROVE PublishInv'
  <2>1. recent' \in [Isolates -> BOOLEAN] /\ UNCHANGED <<pool, records, iso, faults>>
    BY <1>0, <1>4 DEF Elapse
  <2> QED
    BY <1>0, <1>q, <1>u, <2>1
<1>5. ASSUME NEW i \in Isolates, Want(i) \/ ListRecords(i) PROVE PublishInv'
  <2>1. UNCHANGED <<pool, recent, faults>>
    BY <1>5 DEF Want, ListRecords
  <2> QED
    BY <1>0, <1>5, <1>q, <2>1, Selects
<1>6. ASSUME NEW i \in Isolates, CreateRecord(i) PROVE PublishInv'
  <2>1. PICK ip \in iso[i].add : Create(i, ip, [iso[i] EXCEPT !.add = @ \ {ip}])
    BY <1>6 DEF CreateRecord
  <2>2. PICK next : next = [iso[i] EXCEPT !.add = @ \ {ip}]
    OBVIOUS
  <2>3. Kept
    BY <2>1, <2>2, Creates
  <2>4. UNCHANGED <<pool, recent, faults>>
    BY <1>6 DEF CreateRecord
  <2> QED
    BY <1>0, <1>q, <2>3, <2>4
<1>7. ASSUME NEW i \in Isolates, DeleteRecord(i) PROVE PublishInv'
  <2>1. PICK ip \in iso[i].del : Delete(i, ip, [iso[i] EXCEPT !.del = @ \ {ip}])
    BY <1>7 DEF DeleteRecord
  <2>2. PICK next : next = [iso[i] EXCEPT !.del = @ \ {ip}]
    OBVIOUS
  <2>3. Kept
    BY <2>1, <2>2, Deletes
  <2>4. UNCHANGED <<pool, recent, faults>>
    BY <1>7 DEF DeleteRecord
  <2> QED
    BY <1>0, <1>q, <2>3, <2>4
<1>8. ASSUME NEW i \in Isolates, Fail(i) PROVE PublishInv'
  <2>1. UNCHANGED <<pool, recent>> /\ faults' \in 0..MaxFaults
    BY <1>0, <1>8, PublishAssumption DEF Fail, Fault
  <2> QED
    BY <1>0, <1>8, <1>q, <2>1, Fails
<1>9. ASSUME NEW p \in Pools, UpdatePool(p) PROVE PublishInv'
  BY <1>0, <1>9, <1>q, <1>u DEF UpdatePool
<1> QED
  BY <1>1, <1>2, <1>3, <1>4, <1>5, <1>6, <1>7, <1>8, <1>9 DEF Next, Step

\* It holds when no run has started.
LEMMA Initial == Init => PublishInv
<1> SUFFICES ASSUME Init PROVE PublishInv
  OBVIOUS
<1>1. Idle \in Syncs /\ Idle.pc = "idle" /\ Idle.want = {} /\ SyncOK(Idle) /\ Exact(Idle)
  BY AtType DEF Idle, At, Exact, Families
<1>2. \A i \in Isolates : iso[i] = Idle
  BY DEF Init
<1>3. TypeOK
  BY <1>1, PublishAssumption DEF Init, TypeOK
<1> QED
  BY <1>1, <1>2, <1>3 DEF PublishInv

\* PublishInv holds in every state.
LEMMA PublishInvariant == Spec => []PublishInv
<1>1. PublishInv /\ [Next]_vars => PublishInv'
  BY Inductive
<1> QED
  BY <1>1, Initial, PTL DEF Spec

\* TypeOK holds in every state: what a sync wants is within its family.
THEOREM TypeCorrect == Spec => []TypeOK
<1>1. PublishInv => TypeOK
  BY DEF PublishInv
<1> QED
  BY <1>1, PublishInvariant, PTL

-----------------------------------------------------------------------------
(* What an undisturbed sync promises *)

\* Deleting by one isolate does not bare the name under another's undisturbed sync,
\* nor under its own: when it deletes, all it wants is there.
LEMMA DeleteSpares ==
    ASSUME PublishInv, NEW i \in Isolates, NEW j \in Isolates, NEW ip \in iso[j].del, NEW next,
           Delete(j, ip, next), iso[j].add = {},
           iso[i].pc = "write", iso[i].alone, iso[i].want # {}, Published(iso[i].fam) # {}
    PROVE  \/ records' \cap Of(iso[i].fam) # {}
           \/ iso'[i].pc = "write" /\ ~iso'[i].alone
<1>0. /\ iso[i] \in Syncs /\ iso[j] \in Syncs /\ SyncOK(iso[i]) /\ SyncOK(iso[j])
      /\ Exact(iso[i]) /\ Exact(iso[j])
  BY DEF PublishInv, TypeOK
<1>1. CASE ip \in iso[j].stale
  BY <1>1 DEF Delete, Abort, Published
<1>2. CASE ip \notin iso[j].stale
  <2>1. records' = records \ {ip} /\ Write(j, next, {ip})
    BY <1>2 DEF Delete
  <2>2. ip \in Of(iso[j].fam) /\ ip \notin iso[j].want
    BY <1>0 DEF SyncOK
  <2>3. CASE i = j
    <3>1. PICK w \in iso[i].want : TRUE
      OBVIOUS
    <3>2. w \in records /\ w \in Of(iso[i].fam)
      BY <1>0, <2>3, <3>1 DEF Exact
    <3> QED
      BY <2>1, <2>2, <2>3, <3>1, <3>2
  <2>4. CASE i # j /\ iso[i].fam = iso[j].fam
    BY <1>0, <2>1, <2>4 DEF Write, Syncs
  <2>5. CASE i # j /\ iso[i].fam # iso[j].fam
    <3>1. Of(iso[i].fam) \cap Of(iso[j].fam) = {}
      BY <1>0, <2>5, Apart DEF Syncs
    <3> QED
      BY <2>1, <2>2, <3>1 DEF Published
  <2> QED
    BY <2>3, <2>4, <2>5
<1> QED
  BY <1>1, <1>2

\* An undisturbed sync that wants anything never leaves the name without a record,
\* not even when it fails half-way: syncFamily creates before it deletes.
THEOREM NeverBareSafe == Spec => NeverBare
<1> DEFINE Bare(i) ==
             /\ iso[i].pc = "write" /\ iso[i].alone /\ iso[i].want # {} /\ Published(iso[i].fam) # {}
             /\ ~(records' \cap Of(iso[i].fam) # {})
             /\ ~(iso'[i].pc = "write" /\ ~iso'[i].alone)
<1>1. ASSUME PublishInv, [Next]_vars, NEW i \in Isolates, Bare(i)
      PROVE  FALSE
  <2>0. ~(records \subseteq records')
    BY <1>1 DEF Published
  <2>1. ASSUME NEW j \in Isolates, CreateRecord(j) PROVE FALSE
    <3>1. PICK ip \in iso[j].add : Create(j, ip, [iso[j] EXCEPT !.add = @ \ {ip}])
      BY <2>1 DEF CreateRecord
    <3>2. PICK next : next = [iso[j] EXCEPT !.add = @ \ {ip}]
      OBVIOUS
    <3> QED
      BY <1>1, <2>0, <3>1, <3>2, Creates
  <2>2. ASSUME NEW j \in Isolates, DeleteRecord(j) PROVE FALSE
    <3>1. PICK ip \in iso[j].del : Delete(j, ip, [iso[j] EXCEPT !.del = @ \ {ip}])
      BY <2>2 DEF DeleteRecord
    <3>2. PICK next : next = [iso[j] EXCEPT !.del = @ \ {ip}]
      OBVIOUS
    <3>3. iso[j].add = {}
      BY <2>2 DEF DeleteRecord, MayDelete
    <3> QED
      BY <1>1, <3>1, <3>2, <3>3, DeleteSpares
  <2>3. ASSUME NEW j \in Isolates, Fail(j) PROVE FALSE
    <3>c. PICK next : next = Caught(j)
      OBVIOUS
    <3>1. CASE Abort(j)
      BY <2>0, <3>1 DEF Abort
    <3>2. ASSUME NEW ip \in iso[j].add, Create(j, ip, next) PROVE FALSE
      BY <1>1, <2>0, <3>2, <3>c, Creates
    <3>3. ASSUME iso[j].add = {}, NEW ip \in iso[j].del, Delete(j, ip, next) PROVE FALSE
      BY <1>1, <3>3, DeleteSpares
    <3> QED
      BY <2>3, <3>1, <3>2, <3>3, <3>c DEF Fail
  <2>4. ASSUME NEW j \in Isolates, Start(j) \/ EndFamily(j) \/ Die(j) \/ Want(j) \/ ListRecords(j)
        PROVE  FALSE
    BY <1>1, <2>0, <2>4, Turns, Selects
  <2>5. ASSUME NEW j \in Isolates, Elapse(j) PROVE FALSE
    BY <2>0, <2>5 DEF Elapse
  <2>6. ASSUME NEW p \in Pools, UpdatePool(p) PROVE FALSE
    BY <2>0, <2>6 DEF UpdatePool
  <2>7. CASE UNCHANGED vars
    BY <2>0, <2>7 DEF vars
  <2> QED
    BY <1>1, <2>1, <2>2, <2>3, <2>4, <2>5, <2>6, <2>7 DEF Next, Step
<1>2. PublishInv /\ [Next]_vars =>
        \A i \in Isolates :
          iso[i].pc = "write" /\ iso[i].alone /\ iso[i].want # {} /\ Published(iso[i].fam) # {} =>
            \/ records' \cap Of(iso[i].fam) # {}
            \/ iso'[i].pc = "write" /\ ~iso'[i].alone
  BY <1>1
<1> QED
  BY <1>2, PublishInvariant, PTL DEF Spec, NeverBare

\* What the calls of an undisturbed sync find, and what they leave.
UndisturbedExact ==
    \A i \in Isolates :
      iso[i].pc = "write" /\ iso[i].alone =>
        /\ iso[i].add \cap records = {} /\ iso[i].stale = {}
        /\ iso[i].add = {} /\ iso[i].del = {} => Published(iso[i].fam) = iso[i].want

\* The service refuses an undisturbed sync nothing, and when both loops are through
\* the family has exactly the records wanted (syncFamily's set differences).
THEOREM UndisturbedSafe == Spec => []UndisturbedExact
<1>1. ASSUME PublishInv, NEW i \in Isolates, iso[i].pc = "write", iso[i].alone
      PROVE  /\ iso[i].add \cap records = {} /\ iso[i].stale = {}
             /\ iso[i].add = {} /\ iso[i].del = {} => Published(iso[i].fam) = iso[i].want
  <2>1. SyncOK(iso[i]) /\ Exact(iso[i])
    BY <1>1 DEF PublishInv
  <2> QED
    BY <1>1, <2>1 DEF SyncOK, Exact, Published
<1>2. PublishInv => UndisturbedExact
  BY <1>1 DEF UndisturbedExact
<1> QED
  BY <1>2, PublishInvariant, PTL

=============================================================================
