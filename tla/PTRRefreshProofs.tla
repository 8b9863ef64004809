-------------------------- MODULE PTRRefreshProofs --------------------------
(***************************************************************************)
(* Proofs about PTRRefresh: type correctness, and that what ptr_cache      *)
(* holds is the answer to the address's own query.                         *)
(***************************************************************************)
EXTENDS PTRRefresh, FiniteSetTheorems, SequenceTheorems, TLAPS

-----------------------------------------------------------------------------
(* Sequences without some of their elements                                *)

Rank(K, i) == Cardinality({j \in K : j <= i})

At(K, k) == CHOOSE i \in K : Rank(K, i) = k

Kept(s, S) == {i \in DOMAIN s : s[i] \notin S}

\* The positions that Without keeps are counted without gaps: the rank of a kept
\* position is the number of kept ones up to it, and every number has its position.
LEMMA Ranks ==
    ASSUME NEW n \in Nat, NEW K \in SUBSET (1..n)
    PROVE  /\ IsFiniteSet(K) /\ Cardinality(K) \in Nat
           /\ \A i \in K : Rank(K, i) \in 1..Cardinality(K)
           /\ \A i, j \in K : i < j => Rank(K, i) < Rank(K, j)
           /\ \A k \in 1..Cardinality(K) : At(K, k) \in K /\ Rank(K, At(K, k)) = k
           /\ \A i \in K : At(K, Rank(K, i)) = i
<1> DEFINE Low(i) == {j \in K : j <= i}
           c == Cardinality(K)
           rank == [i \in K |-> Rank(K, i)]
<1>1. IsFiniteSet(K) /\ c \in Nat
  <2>1. IsFiniteSet(1..n)
    BY FS_Interval
  <2>2. IsFiniteSet(K)
    BY <2>1, FS_Subset
  <2> QED
    BY <2>2, FS_CardinalityType
<1>2. ASSUME NEW i \in K
      PROVE  /\ IsFiniteSet(Low(i)) /\ Rank(K, i) \in 1..c
  <2>1. Low(i) \subseteq K /\ i \in Low(i)
    OBVIOUS
  <2>2. IsFiniteSet(Low(i)) /\ Cardinality(Low(i)) <= c
    BY <1>1, <2>1, FS_Subset
  <2>3. Cardinality(Low(i)) \in Nat /\ Cardinality(Low(i)) # 0
    BY <2>1, <2>2, FS_CardinalityType, FS_EmptySet
  <2> QED
    BY <1>1, <2>2, <2>3 DEF Rank
<1>3. ASSUME NEW i \in K, NEW j \in K, i < j
      PROVE  Rank(K, i) < Rank(K, j)
  <2>0. \A x \in K : x \in Int
    OBVIOUS
  <2>1. Low(i) \subseteq Low(j) /\ j \in Low(j) /\ j \notin Low(i)
    <3>1. \A x \in K : x <= i => x <= j
      BY <1>3, <2>0
    <3>2. j <= j /\ ~(j <= i)
      BY <1>3, <2>0
    <3> QED
      BY <3>1, <3>2
  <2>2. Cardinality(Low(i)) <= Cardinality(Low(j)) /\ Cardinality(Low(i)) # Cardinality(Low(j))
    BY <1>2, <2>1, FS_Subset
  <2> QED
    BY <1>2, <2>2 DEF Rank
<1>4. \A i, j \in K : Rank(K, i) = Rank(K, j) => i = j
  <2> SUFFICES ASSUME NEW i \in K, NEW j \in K, Rank(K, i) = Rank(K, j), i # j
               PROVE  FALSE
    OBVIOUS
  <2>1. i < j \/ j < i
    OBVIOUS
  <2>2. Rank(K, i) \in 1..c /\ Rank(K, j) \in 1..c /\ c \in Nat
    BY <1>1, <1>2
  <2> QED
    BY <2>1, <2>2, <1>3
<1>5. \A k \in 1..c : \E i \in K : Rank(K, i) = k
  <2>1. rank \in Injection(K, 1..c)
    BY <1>2, <1>4 DEF Injection, IsInjective
  <2>2. IsFiniteSet(1..c) /\ Cardinality(1..c) = c
    BY <1>1, FS_Interval
  <2>3. rank \in Surjection(K, 1..c)
    BY <2>1, <2>2, FS_Injection
  <2> QED
    BY <2>3 DEF Surjection
<1>6. \A k \in 1..c : At(K, k) \in K /\ Rank(K, At(K, k)) = k
  BY <1>5 DEF At
<1>7. \A i \in K : At(K, Rank(K, i)) = i
  BY <1>2, <1>4, <1>6
<1> QED
  BY <1>1, <1>2, <1>3, <1>6, <1>7

\* The definition of Without, in terms of Kept and At.
LEMMA WithoutIs ==
    ASSUME NEW s, NEW S
    PROVE  Without(s, S) = [k \in 1..Cardinality(Kept(s, S)) |-> s[At(Kept(s, S), k)]]
BY DEF Without, Kept, At, Rank

\* Without keeps exactly the elements that are not in S, and repeats none.
LEMMA WithoutFacts ==
    ASSUME NEW T, NEW s \in Seq(T), NEW S
    PROVE  /\ Without(s, S) \in Seq(T)
           /\ Len(Without(s, S)) = Cardinality(Kept(s, S))
           /\ ToSet(Without(s, S)) = ToSet(s) \ S
           /\ IsInjective(s) => IsInjective(Without(s, S))
<1> DEFINE K == Kept(s, S)
           c == Cardinality(K)
           w == Without(s, S)
<1>1. Len(s) \in Nat /\ DOMAIN s = 1..Len(s) /\ K \in SUBSET (1..Len(s))
  BY DEF Kept
<1>2. /\ c \in Nat
      /\ \A i \in K : Rank(K, i) \in 1..c
      /\ \A k \in 1..c : At(K, k) \in K /\ Rank(K, At(K, k)) = k
      /\ \A i \in K : At(K, Rank(K, i)) = i
  BY <1>1, Ranks
<1>3. w = [k \in 1..c |-> s[At(K, k)]]
  BY WithoutIs
<1>4. \A i \in K : i \in DOMAIN s /\ s[i] \in T /\ s[i] \notin S
  BY DEF Kept
<1> HIDE DEF K, c, w
<1>5. w \in Seq(T) /\ Len(w) = c /\ DOMAIN w = 1..c
  <2>1. \A k \in 1..c : s[At(K, k)] \in T
    BY <1>2, <1>4
  <2> QED
    BY <1>2, <1>3, <2>1
<1>6. ToSet(w) = ToSet(s) \ S
  <2>1. ASSUME NEW x \in ToSet(w) PROVE x \in ToSet(s) \ S
    <3>1. PICK k \in 1..c : x = w[k]
      BY <1>5 DEF ToSet
    <3>2. x = s[At(K, k)] /\ At(K, k) \in K
      BY <1>2, <1>3, <3>1
    <3> QED
      BY <1>4, <3>2 DEF ToSet
  <2>2. ASSUME NEW x \in ToSet(s) \ S PROVE x \in ToSet(w)
    <3>1. PICK i \in DOMAIN s : x = s[i]
      BY DEF ToSet
    <3>2. i \in K
      BY <3>1 DEF K, Kept
    <3>3. Rank(K, i) \in 1..c /\ w[Rank(K, i)] = x
      BY <1>2, <1>3, <3>1, <3>2
    <3> QED
      BY <1>5, <3>3 DEF ToSet
  <2> QED
    BY <2>1, <2>2
<1>7. IsInjective(s) => IsInjective(w)
  <2> SUFFICES ASSUME IsInjective(s), NEW a \in 1..c, NEW b \in 1..c, w[a] = w[b]
               PROVE  a = b
    BY <1>5 DEF IsInjective
  <2>1. s[At(K, a)] = s[At(K, b)]
    BY <1>3
  <2>2. At(K, a) = At(K, b)
    BY <1>2, <1>4, <2>1 DEF IsInjective
  <2> QED
    BY <1>2, <2>2
<1> QED
  BY <1>5, <1>6, <1>7 DEF w, c, K

\* A prefix without some elements is a prefix of the whole without them.
LEMMA WithoutPrefix ==
    ASSUME NEW T, NEW s \in Seq(T), NEW d \in 0..Len(s), NEW S
    PROVE  LET p == Without(SubSeq(s, 1, d), S)
               w == Without(s, S)
           IN /\ p \in Seq(T) /\ Len(p) <= Len(w)
              /\ \A k \in 1..Len(p) : p[k] = w[k]
<1> DEFINE q == SubSeq(s, 1, d)
           p == Without(q, S)
           w == Without(s, S)
           K == Kept(s, S)
           L == Kept(q, S)
<1>1. Len(s) \in Nat /\ DOMAIN s = 1..Len(s) /\ K \in SUBSET (1..Len(s))
  BY DEF Kept
<1>2. q \in Seq(T) /\ Len(q) = d /\ DOMAIN q = 1..d /\ \A i \in 1..d : q[i] = s[i]
  BY <1>1
<1>3. L = {i \in K : i <= d} /\ L \in SUBSET (1..d)
  BY <1>1, <1>2 DEF Kept
<1>4. /\ p = [k \in 1..Cardinality(L) |-> q[At(L, k)]] /\ Len(p) = Cardinality(L) /\ p \in Seq(T)
      /\ w = [k \in 1..Cardinality(K) |-> s[At(K, k)]] /\ Len(w) = Cardinality(K)
  <2>1. p = [k \in 1..Cardinality(L) |-> q[At(L, k)]] /\ w = [k \in 1..Cardinality(K) |-> s[At(K, k)]]
    BY WithoutIs
  <2>2. Len(p) = Cardinality(L) /\ p \in Seq(T)
    BY <1>2, WithoutFacts
  <2>3. Len(w) = Cardinality(K)
    BY WithoutFacts
  <2> QED
    BY <2>1, <2>2, <2>3
<1>5. /\ IsFiniteSet(K) /\ Cardinality(K) \in Nat
      /\ \A i \in K : At(K, Rank(K, i)) = i
  BY <1>1, Ranks
<1>6. /\ Cardinality(L) \in Nat
      /\ \A k \in 1..Cardinality(L) : At(L, k) \in L /\ Rank(L, At(L, k)) = k
  <2>1. d \in Nat
    BY <1>1
  <2> QED
    BY <1>3, <2>1, Ranks
<1>7. Cardinality(L) <= Cardinality(K)
  BY <1>3, <1>5, FS_Subset
<1>8. \A i \in L : Rank(L, i) = Rank(K, i)
  <2> SUFFICES ASSUME NEW i \in L
               PROVE  {j \in L : j <= i} = {j \in K : j <= i}
    BY DEF Rank
  <2>1. \A j \in K : j <= i => j \in L
    BY <1>1, <1>3
  <2> QED
    BY <1>3, <2>1
<1>9. ASSUME NEW k \in 1..Cardinality(L)
      PROVE  p[k] = w[k]
  <2>1. At(L, k) \in L /\ At(L, k) \in K /\ Rank(K, At(L, k)) = k
    BY <1>3, <1>6, <1>8
  <2>2. At(K, k) = At(L, k)
    BY <1>5, <2>1
  <2>3. q[At(L, k)] = s[At(L, k)]
    BY <1>2, <1>3, <2>1
  <2>4. k \in 1..Cardinality(K)
    BY <1>5, <1>6, <1>7
  <2> QED
    BY <1>4, <2>2, <2>3, <2>4
<1> QED
  BY <1>4, <1>7, <1>9

-----------------------------------------------------------------------------
(* Prefixes, concatenations and sets as sequences                          *)

\* A prefix of a sequence is one of its elements, in their places.
LEMMA PrefixFacts ==
    ASSUME NEW T, NEW s \in Seq(T), NEW d \in 0..Len(s)
    PROVE  /\ SubSeq(s, 1, d) \in Seq(T) /\ Len(SubSeq(s, 1, d)) = d
           /\ ToSet(SubSeq(s, 1, d)) = {s[i] : i \in 1..d}
           /\ ToSet(SubSeq(s, 1, d)) \subseteq ToSet(s)
           /\ IsInjective(s) => IsInjective(SubSeq(s, 1, d))
<1>1. Len(s) \in Nat /\ DOMAIN s = 1..Len(s) /\ 1..d \subseteq 1..Len(s)
  OBVIOUS
<1>2. SubSeq(s, 1, d) \in Seq(T) /\ Len(SubSeq(s, 1, d)) = d
  BY <1>1
<1>3. DOMAIN SubSeq(s, 1, d) = 1..d /\ \A i \in 1..d : SubSeq(s, 1, d)[i] = s[i]
  BY <1>1, <1>2
<1> QED
  BY <1>1, <1>2, <1>3 DEF ToSet, IsInjective

\* What a concatenation contains, and when it repeats nothing.
LEMMA ConcatFacts ==
    ASSUME NEW T, NEW s \in Seq(T), NEW t \in Seq(T)
    PROVE  /\ ToSet(s \o t) = ToSet(s) \cup ToSet(t)
           /\ IsInjective(s \o t) <=>
                IsInjective(s) /\ IsInjective(t) /\ ToSet(s) \cap ToSet(t) = {}
<1> DEFINE m == Len(s)
           n == Len(t)
           c == s \o t
<1>1. /\ m \in Nat /\ n \in Nat /\ DOMAIN s = 1..m /\ DOMAIN t = 1..n /\ DOMAIN c = 1..(m + n)
      /\ \A i \in 1..m : c[i] = s[i]
      /\ \A i \in 1..n : m + i \in 1..(m + n) /\ c[m + i] = t[i]
      /\ 1..m \subseteq 1..(m + n)
  OBVIOUS
<1>2. \A i \in 1..(m + n) : i \in 1..m \/ \E j \in 1..n : i = m + j
  <2> SUFFICES ASSUME NEW i \in 1..(m + n), i \notin 1..m
               PROVE  i - m \in 1..n /\ i = m + (i - m)
    OBVIOUS
  <2> QED
    BY <1>1
<1>3. \A i \in 1..m : \A j \in 1..n : i # m + j
  BY <1>1
<1>4. \A i, j \in 1..n : m + i = m + j => i = j
  BY <1>1
<1> HIDE DEF m, n, c
<1>5. ToSet(c) = ToSet(s) \cup ToSet(t)
  <2>1. ASSUME NEW i \in 1..(m + n)
        PROVE  c[i] \in ToSet(s) \cup ToSet(t)
    <3>1. CASE i \in 1..m
      BY <1>1, <3>1 DEF ToSet
    <3>2. CASE i \notin 1..m
      <4>1. PICK j \in 1..n : i = m + j
        BY <1>2, <3>2
      <4> QED
        BY <1>1, <4>1 DEF ToSet
    <3> QED
      BY <3>1, <3>2
  <2>2. ToSet(s) \subseteq ToSet(c) /\ ToSet(t) \subseteq ToSet(c)
    BY <1>1 DEF ToSet
  <2> QED
    BY <1>1, <2>1, <2>2 DEF ToSet
<1>6. ASSUME IsInjective(c)
      PROVE  IsInjective(s) /\ IsInjective(t) /\ ToSet(s) \cap ToSet(t) = {}
  <2>1. IsInjective(s)
    BY <1>1, <1>6 DEF IsInjective
  <2>2. IsInjective(t)
    <3>1. SUFFICES ASSUME NEW i \in 1..n, NEW j \in 1..n, t[i] = t[j] PROVE i = j
      BY <1>1 DEF IsInjective
    <3>2. m + i \in DOMAIN c /\ m + j \in DOMAIN c /\ c[m + i] = c[m + j]
      BY <1>1, <3>1
    <3>3. m + i = m + j
      BY <1>6, <3>2 DEF IsInjective
    <3> QED
      BY <1>4, <3>3
  <2>3. \A i \in 1..m : \A j \in 1..n : s[i] # t[j]
    BY <1>1, <1>3, <1>6 DEF IsInjective
  <2> QED
    BY <1>1, <2>1, <2>2, <2>3 DEF ToSet
<1>7. ASSUME IsInjective(s), IsInjective(t), ToSet(s) \cap ToSet(t) = {}
      PROVE  IsInjective(c)
  <2>1. \A i \in 1..m : \A j \in 1..n : s[i] # t[j]
    BY <1>1, <1>7 DEF ToSet
  <2> SUFFICES ASSUME NEW a \in 1..(m + n), NEW b \in 1..(m + n), c[a] = c[b]
               PROVE  a = b
    BY <1>1 DEF IsInjective
  <2>2. CASE a \in 1..m /\ b \in 1..m
    BY <1>1, <1>7, <2>2 DEF IsInjective
  <2>3. CASE a \in 1..m /\ b \notin 1..m
    <3>1. PICK j \in 1..n : b = m + j
      BY <1>2, <2>3
    <3> QED
      BY <1>1, <2>1, <2>3, <3>1
  <2>4. CASE a \notin 1..m /\ b \in 1..m
    <3>1. PICK i \in 1..n : a = m + i
      BY <1>2, <2>4
    <3> QED
      BY <1>1, <2>1, <2>4, <3>1
  <2>5. CASE a \notin 1..m /\ b \notin 1..m
    <3>1. PICK i \in 1..n : a = m + i
      BY <1>2, <2>5
    <3>2. PICK j \in 1..n : b = m + j
      BY <1>2, <2>5
    <3>3. t[i] = t[j]
      BY <1>1, <3>1, <3>2
    <3> QED
      BY <1>1, <1>7, <3>1, <3>2, <3>3 DEF IsInjective
  <2> QED
    BY <2>2, <2>3, <2>4, <2>5
<1> QED
  BY <1>5, <1>6, <1>7 DEF c

\* SetToSeq lists a finite set, each element once.
LEMMA SetToSeqFacts ==
    ASSUME NEW T, NEW S \in SUBSET T, IsFiniteSet(S)
    PROVE  SetToSeq(S) \in Seq(T) /\ ToSet(SetToSeq(S)) = S /\ IsInjective(SetToSeq(S))
<1> DEFINE n == Cardinality(S)
           f == SetToSeq(S)
<1>1. n \in Nat /\ \E g : g \in Bijection(1..n, S)
  BY FS_CardinalityType DEF ExistsBijection
<1>2. \E g \in [1..n -> S] : IsInjective(g)
  BY <1>1 DEF Bijection, Injection
<1>3. f \in [1..n -> S] /\ IsInjective(f)
  BY <1>2 DEF SetToSeq
<1>4. f \in Seq(T)
  BY <1>1, <1>3
<1>5. f \in Surjection(1..n, S)
  <2>1. IsFiniteSet(1..n) /\ Cardinality(1..n) = n
    BY <1>1, FS_Interval
  <2>2. f \in Injection(1..n, S)
    BY <1>3 DEF Injection
  <2> QED
    BY <2>1, <2>2, FS_Injection
<1>6. ToSet(f) = S
  BY <1>3, <1>5 DEF Surjection, ToSet
<1> QED
  BY <1>3, <1>4, <1>6

-----------------------------------------------------------------------------
(* The inductive invariant                                                 *)

\* What a refresh has asked for so far is not among the addresses that are due and
\* checked before: an address that leaves unchecked comes to the end of line, and
\* nothing becomes due meanwhile.
AskedApart ==
    \A r \in Refreshes :
      run[r].pc = "stale" => ToSet(run[r].asked) \cap ToSet(SubSeq(line, 1, due)) = {}

\* An answer is kept under the address it is about.
ResultOK(g) == g.of = g.ip /\ g.kind \in {Truth(g.ip), "error"}

ResultsTrue ==
    \A r \in Refreshes :
      /\ \A g \in run[r].got : ResultOK(g)
      /\ \A g \in run[r].left : ResultOK(g) /\ g.kind # "error"

PTRInv == TypeOK /\ AskedApart /\ ResultsTrue /\ CacheTrue /\ CheckedCached

\* Init establishes the invariant.
LEMMA Initial == Init => PTRInv
<1> SUFFICES ASSUME Init PROVE PTRInv
  OBVIOUS
<1>1. unchecked \in Seq(IPs) /\ line \in Seq(IPs) /\ Len(line) = 0
  BY DEF Init
<1>2. IsInjective(unchecked \o line)
  <2>1. ToSet(unchecked) = {} /\ IsInjective(unchecked) /\ ToSet(line) = {} /\ IsInjective(line)
    BY DEF Init, ToSet, IsInjective
  <2> QED
    BY <1>1, <2>1, ConcatFacts
<1>3. Idle \in Runs /\ Len(Idle.asked) = 0 /\ IsInjective(Idle.asked)
  BY DEF Idle, Runs, IsInjective
<1>4. TypeOK
  BY <1>1, <1>2, <1>3, PTRAssumption DEF Init, TypeOK
<1>5. AskedApart /\ ResultsTrue
  BY DEF Init, AskedApart, ResultsTrue, Idle
<1>6. CacheTrue /\ CheckedCached
  BY DEF Init, CacheTrue, CheckedCached, ToSet
<1> QED
  BY <1>4, <1>5, <1>6 DEF PTRInv

\* What Save and Evict leave of the pool's order.
LEMMA DropFacts ==
    ASSUME TypeOK, NEW S
    PROVE  LET u == Without(unchecked, S)
               w == Without(line, S)
               d == Len(Without(SubSeq(line, 1, due), S))
           IN /\ u \in Seq(IPs) /\ w \in Seq(IPs)
              /\ IsInjective(u) /\ IsInjective(w)
              /\ ToSet(u) = ToSet(unchecked) \ S /\ ToSet(w) = ToSet(line) \ S
              /\ ToSet(u) \cap ToSet(w) = {}
              /\ d \in 0..Len(w)
              /\ {w[i] : i \in 1..d} \subseteq ToSet(SubSeq(line, 1, due))
<1> DEFINE u == Without(unchecked, S)
           w == Without(line, S)
           q == SubSeq(line, 1, due)
           p == Without(q, S)
<1>1. unchecked \in Seq(IPs) /\ line \in Seq(IPs) /\ due \in 0..Len(line)
  BY DEF TypeOK
<1>2. IsInjective(unchecked) /\ IsInjective(line) /\ ToSet(unchecked) \cap ToSet(line) = {}
  BY <1>1, ConcatFacts DEF TypeOK
<1>3. u \in Seq(IPs) /\ IsInjective(u) /\ ToSet(u) = ToSet(unchecked) \ S
  BY <1>1, <1>2, WithoutFacts
<1>4. w \in Seq(IPs) /\ IsInjective(w) /\ ToSet(w) = ToSet(line) \ S
  BY <1>1, <1>2, WithoutFacts
<1>5. q \in Seq(IPs)
  BY <1>1, PrefixFacts
<1>6. p \in Seq(IPs) /\ Len(p) <= Len(w) /\ \A k \in 1..Len(p) : p[k] = w[k]
  BY <1>1, WithoutPrefix
<1>7. ToSet(p) = ToSet(q) \ S
  BY <1>5, WithoutFacts
<1> HIDE DEF u, w, q, p
<1>8. Len(p) \in 0..Len(w)
  BY <1>4, <1>6
<1>9. {w[i] : i \in 1..Len(p)} \subseteq ToSet(q)
  <2>1. \A k \in 1..Len(p) : p[k] \in ToSet(p)
    BY <1>6 DEF ToSet
  <2> QED
    BY <1>6, <1>7, <2>1
<1> QED
  BY <1>2, <1>3, <1>4, <1>8, <1>9 DEF u, w, q, p

\* Save keeps the order of the pool a list without repetitions, and makes nothing
\* due: those it stamps come last.
LEMMA SaveType ==
    ASSUME TypeOK, NEW entries \in SUBSET Results, Save(entries)
    PROVE  /\ unchecked' \in Seq(IPs) /\ line' \in Seq(IPs)
           /\ IsInjective(unchecked' \o line')
           /\ due' \in 0..Len(line')
           /\ cache' \in [IPs -> Answers \cup {NoEntry}]
           /\ ToSet(line') \subseteq ToSet(line) \cup Stamped(entries)
           /\ ToSet(SubSeq(line', 1, due')) \subseteq ToSet(SubSeq(line, 1, due))
<1> DEFINE S == Stamped(entries)
           u == Without(unchecked, S)
           w == Without(line, S)
           d == Len(Without(SubSeq(line, 1, due), S))
           M == S \cap InPool
           m == SetToSeq(M)
<1>1. /\ u \in Seq(IPs) /\ w \in Seq(IPs)
      /\ IsInjective(u) /\ IsInjective(w)
      /\ ToSet(u) = ToSet(unchecked) \ S /\ ToSet(w) = ToSet(line) \ S
      /\ ToSet(u) \cap ToSet(w) = {}
      /\ d \in 0..Len(w)
      /\ {w[i] : i \in 1..d} \subseteq ToSet(SubSeq(line, 1, due))
  BY DropFacts
<1>2. unchecked' = u /\ line' = w \o m /\ due' = d
  BY DEF Save
<1>3. m \in Seq(IPs) /\ ToSet(m) = M /\ IsInjective(m)
  <2>1. S \subseteq IPs
    BY DEF Stamped, Results
  <2>2. IsFiniteSet(M) /\ M \subseteq IPs
    BY <2>1, FS_Subset, PTRAssumption
  <2> QED
    BY <2>2, SetToSeqFacts
<1>4. M \subseteq S
  OBVIOUS
<1> HIDE DEF S, u, w, d, M, m
<1>5. w \o m \in Seq(IPs) /\ IsInjective(w \o m) /\ ToSet(w \o m) = ToSet(w) \cup M
  BY <1>1, <1>3, <1>4, ConcatFacts
<1>6. IsInjective(u \o (w \o m))
  <2>1. ToSet(u) \cap ToSet(w \o m) = {}
    BY <1>1, <1>4, <1>5
  <2>2. u \in Seq(IPs) /\ w \o m \in Seq(IPs) /\ IsInjective(u) /\ IsInjective(w \o m)
    BY <1>1, <1>5
  <2> QED
    BY <2>1, <2>2, ConcatFacts
<1>7. Len(w) <= Len(w \o m) /\ \A i \in 1..Len(w) : (w \o m)[i] = w[i]
  BY <1>1, <1>3
<1>8. d \in 0..Len(w \o m) /\ 1..d \subseteq 1..Len(w)
  BY <1>1, <1>3, <1>7
<1>9. ToSet(SubSeq(w \o m, 1, d)) = {(w \o m)[i] : i \in 1..d}
  BY <1>5, <1>8, PrefixFacts
<1>10. ToSet(SubSeq(w \o m, 1, d)) \subseteq ToSet(SubSeq(line, 1, due))
  BY <1>1, <1>7, <1>8, <1>9
<1>11. cache' \in [IPs -> Answers \cup {NoEntry}]
  <2>1. ASSUME NEW ip \in IPs, \E e \in entries : e.ip = ip
        PROVE  Entry(entries, ip) \in Answers
    <3>1. (CHOOSE e \in entries : e.ip = ip) \in Results
      BY <2>1
    <3> QED
      BY <3>1 DEF Entry, Results, Answers
  <2>2. cache' = [ip \in IPs |-> IF \E e \in entries : e.ip = ip THEN Entry(entries, ip)
                                                                ELSE cache[ip]]
    BY DEF Save
  <2> QED
    BY <2>1, <2>2 DEF TypeOK
<1>12. ToSet(w \o m) \subseteq ToSet(line) \cup S
  BY <1>1, <1>4, <1>5
<1> QED
  BY <1>1, <1>2, <1>5, <1>6, <1>8, <1>10, <1>11, <1>12 DEF S

\* Definitive results about the right address, saved, keep the cache true, and what is
\* stamped has an entry.
LEMMA SaveTrue ==
    ASSUME TypeOK, CacheTrue, CheckedCached, NEW entries \in SUBSET Results,
           \A g \in entries : ResultOK(g) /\ g.kind # "error", Save(entries)
    PROVE  CacheTrue' /\ CheckedCached'
<1>1. \A ip \in IPs : cache'[ip] = IF \E e \in entries : e.ip = ip THEN Entry(entries, ip)
                                                                   ELSE cache[ip]
  BY DEF Save
<1>2. ASSUME NEW ip \in IPs, \E e \in entries : e.ip = ip
      PROVE  /\ Entry(entries, ip) = [of |-> ip, named |-> ip \in Named]
             /\ ip \notin Refused /\ Entry(entries, ip) \in Answers
  <2> DEFINE e == CHOOSE e \in entries : e.ip = ip
  <2>1. e \in entries /\ e.ip = ip
    BY <1>2
  <2>2. e.of = ip /\ e.kind = Truth(ip) /\ Truth(ip) # "error"
    BY <2>1 DEF ResultOK
  <2>3. ip \notin Refused /\ (e.kind = "name") = (ip \in Named)
    BY <2>2 DEF Truth
  <2>4. Entry(entries, ip) = [of |-> e.of, named |-> e.kind = "name"]
    BY DEF Entry
  <2> HIDE DEF e
  <2> QED
    BY <2>2, <2>3, <2>4 DEF Answers
<1>3. CacheTrue'
  <2> SUFFICES ASSUME NEW ip \in IPs, cache'[ip] # NoEntry
               PROVE  cache'[ip] = [of |-> ip, named |-> ip \in Named] /\ ip \notin Refused
    BY DEF CacheTrue
  <2>1. CASE \E e \in entries : e.ip = ip
    BY <1>1, <1>2, <2>1
  <2>2. CASE ~\E e \in entries : e.ip = ip
    <3>1. cache'[ip] = cache[ip]
      BY <1>1, <2>2
    <3> QED
      BY <3>1 DEF CacheTrue
  <2> QED
    BY <2>1, <2>2
<1>4. CheckedCached'
  <2> SUFFICES ASSUME NEW ip \in ToSet(line') PROVE cache'[ip] # NoEntry
    BY DEF CheckedCached, ToSet
  <2>1. ip \in ToSet(line) \/ ip \in Stamped(entries)
    BY SaveType
  <2>2. ToSet(line) \subseteq IPs /\ Stamped(entries) \subseteq IPs
    BY DEF TypeOK, ToSet, Stamped, Results
  <2>3. CASE \E e \in entries : e.ip = ip
    BY <1>1, <1>2, <2>1, <2>2, <2>3, PTRNoEntryAssumption
  <2>4. CASE ~\E e \in entries : e.ip = ip
    <3>1. ip \in ToSet(line) /\ cache'[ip] = cache[ip]
      BY <1>1, <2>1, <2>2, <2>4 DEF Stamped
    <3> QED
      BY <3>1 DEF CheckedCached
  <2> QED
    BY <2>3, <2>4
<1> QED
  BY <1>3, <1>4

-----------------------------------------------------------------------------
(* The steps                                                               *)

\* What pendingIPsForPTRRefresh's first statement returns.
LEMMA SelectNullStep ==
    ASSUME PTRInv, NEW r \in Refreshes, SelectNull(r)
    PROVE  PTRInv'
<1> DEFINE n == IF Limit < Len(unchecked) THEN Limit ELSE Len(unchecked)
           asked == FirstOf(unchecked, Limit)
<1> USE DEF PTRInv
<1>1. Limit \in Nat \ {0}
  BY PTRAssumption
<1>2. unchecked \in Seq(IPs) /\ line \in Seq(IPs) /\ due \in 0..Len(line)
  BY DEF TypeOK
<1>3. IsInjective(unchecked) /\ IsInjective(line) /\ ToSet(unchecked) \cap ToSet(line) = {}
  BY <1>2, ConcatFacts DEF TypeOK
<1>4. n \in 0..Len(unchecked) /\ n <= Limit /\ asked = SubSeq(unchecked, 1, n)
  BY <1>1, <1>2 DEF FirstOf
<1>5. /\ asked \in Seq(IPs) /\ Len(asked) <= Limit /\ IsInjective(asked)
      /\ ToSet(asked) \subseteq ToSet(unchecked)
  BY <1>2, <1>3, <1>4, PrefixFacts
<1>6. ToSet(asked) \cap ToSet(SubSeq(line, 1, due)) = {}
  BY <1>2, <1>3, <1>5, PrefixFacts
<1> HIDE DEF asked, n
<1>7. run' = [run EXCEPT ![r] = [@ EXCEPT !.asked = asked, !.pc = AfterNull]]
  BY DEF SelectNull, asked
<1>8. run[r] \in Runs /\ AfterNull \in {"read", "stale"}
  BY DEF TypeOK, AfterNull
<1>9. /\ run'[r] \in Runs /\ run'[r].asked = asked
      /\ run'[r].got = run[r].got /\ run'[r].left = run[r].left
  BY <1>5, <1>7, <1>8 DEF Runs, TypeOK
<1>10. \A q \in Refreshes : q # r => run'[q] = run[q]
  BY <1>7 DEF TypeOK
<1>11. run' \in [Refreshes -> Runs]
  BY <1>7, <1>9, <1>10 DEF TypeOK
<1>12. UNCHANGED <<unchecked, line, due, cache, adds, faults>>
  BY DEF SelectNull, poolVars
<1>13. TypeOK'
  BY <1>5, <1>9, <1>10, <1>11, <1>12 DEF TypeOK
<1>14. AskedApart'
  BY <1>6, <1>9, <1>10, <1>12 DEF AskedApart
<1>15. ResultsTrue'
  BY <1>9, <1>10 DEF ResultsTrue, ResultOK
<1>16. CacheTrue' /\ CheckedCached'
  BY <1>12 DEF CacheTrue, CheckedCached
<1> QED
  BY <1>13, <1>14, <1>15, <1>16

\* The second statement fills the batch with what is due: nothing is asked twice.
LEMMA SelectStaleStep ==
    ASSUME PTRInv, NEW r \in Refreshes, SelectStale(r)
    PROVE  PTRInv'
<1> DEFINE q == SubSeq(line, 1, due)
           n == IF Room(r) < Len(q) THEN Room(r) ELSE Len(q)
           more == FirstOf(q, Room(r))
           asked == run[r].asked \o more
<1> USE DEF PTRInv
<1>1. /\ Limit \in Nat \ {0} /\ run[r] \in Runs /\ run[r].asked \in Seq(IPs)
      /\ Len(run[r].asked) <= Limit /\ IsInjective(run[r].asked)
  BY PTRAssumption DEF TypeOK, Runs
<1>2. line \in Seq(IPs) /\ due \in 0..Len(line) /\ IsInjective(line)
  <2>1. unchecked \in Seq(IPs) /\ line \in Seq(IPs) /\ due \in 0..Len(line)
    BY DEF TypeOK
  <2> QED
    BY <2>1, ConcatFacts DEF TypeOK
<1>3. q \in Seq(IPs) /\ IsInjective(q)
  BY <1>2, PrefixFacts
<1>4. Room(r) \in Nat /\ Room(r) = Limit - Len(run[r].asked)
  BY <1>1 DEF Room
<1> HIDE DEF q
<1>5. n \in 0..Len(q) /\ n <= Room(r) /\ more = SubSeq(q, 1, n)
  BY <1>3, <1>4 DEF FirstOf
<1>6. /\ more \in Seq(IPs) /\ Len(more) <= Room(r) /\ IsInjective(more)
      /\ ToSet(more) \subseteq ToSet(q)
  BY <1>3, <1>5, PrefixFacts
<1>7. ToSet(run[r].asked) \cap ToSet(q) = {}
  BY DEF SelectStale, AskedApart, q
<1> HIDE DEF more, n
<1>8. asked \in Seq(IPs) /\ Len(asked) <= Limit /\ IsInjective(asked)
  <2>1. asked \in Seq(IPs) /\ Len(asked) = Len(run[r].asked) + Len(more)
    BY <1>1, <1>6
  <2>2. ToSet(run[r].asked) \cap ToSet(more) = {}
    BY <1>6, <1>7
  <2>3. IsInjective(asked)
    BY <1>1, <1>6, <2>2, ConcatFacts
  <2>4. Len(run[r].asked) \in Nat /\ Len(more) \in Nat
    BY <1>1, <1>6
  <2> QED
    BY <1>1, <1>4, <1>6, <2>1, <2>3, <2>4
<1>9. run' = [run EXCEPT ![r] = IF asked = <<>> THEN Idle
                                ELSE [@ EXCEPT !.pc = "read", !.asked = asked]]
  BY DEF SelectStale, more, q
<1> HIDE DEF asked
<1>10. Idle \in Runs /\ Idle.pc = "idle" /\ Len(Idle.asked) = 0 /\ IsInjective(Idle.asked) /\ Idle.got = {} /\ Idle.left = {}
  BY DEF Idle, Runs, IsInjective
<1>11. /\ run'[r] \in Runs /\ run'[r].pc # "stale"
       /\ run'[r].got \subseteq run[r].got /\ run'[r].left \subseteq run[r].left
       /\ Len(run'[r].asked) <= Limit /\ IsInjective(run'[r].asked)
  <2>1. CASE asked = <<>>
    <3>1. run'[r] = Idle
      BY <1>9, <2>1 DEF TypeOK
    <3> QED
      BY <1>1, <1>10, <3>1
  <2>2. CASE asked # <<>>
    <3>1. run'[r] = [run[r] EXCEPT !.pc = "read", !.asked = asked]
      BY <1>9, <2>2 DEF TypeOK
    <3> QED
      BY <1>1, <1>8, <3>1 DEF Runs
  <2> QED
    BY <2>1, <2>2
<1>12. \A t \in Refreshes : t # r => run'[t] = run[t]
  BY <1>9 DEF TypeOK
<1>13. run' \in [Refreshes -> Runs]
  BY <1>9, <1>11, <1>12 DEF TypeOK
<1>14. UNCHANGED <<unchecked, line, due, cache, adds, faults>>
  BY DEF SelectStale, poolVars
<1>15. TypeOK'
  BY <1>11, <1>12, <1>13, <1>14 DEF TypeOK
<1>16. AskedApart'
  BY <1>11, <1>12, <1>14 DEF AskedApart
<1>17. ResultsTrue'
  BY <1>11, <1>12 DEF ResultsTrue, ResultOK
<1>18. CacheTrue' /\ CheckedCached'
  BY <1>14 DEF CacheTrue, CheckedCached
<1> QED
  BY <1>15, <1>16, <1>17, <1>18

\* A step that only clears a refresh, or leaves of it what was known, keeps the
\* invariant.
LEMMA QuietStep ==
    ASSUME PTRInv, NEW r \in Refreshes, UNCHANGED <<unchecked, line, due, cache, adds>>,
           faults' \in 0..MaxFaults,
           NEW t, run' = [run EXCEPT ![r] = t], t \in Runs, t.pc # "stale",
           Len(t.asked) <= Limit, IsInjective(t.asked),
           \A g \in t.got : ResultOK(g), \A g \in t.left : ResultOK(g) /\ g.kind # "error"
    PROVE  PTRInv'
<1> USE DEF PTRInv
<1>1. run' \in [Refreshes -> Runs] /\ run'[r] = t /\ \A q \in Refreshes : q # r => run'[q] = run[q]
  BY DEF TypeOK
<1>2. TypeOK'
  BY <1>1 DEF TypeOK
<1>3. AskedApart'
  BY <1>1 DEF AskedApart
<1>4. ResultsTrue'
  BY <1>1 DEF ResultsTrue, ResultOK
<1>5. CacheTrue' /\ CheckedCached'
  BY DEF CacheTrue, CheckedCached
<1> QED
  BY <1>2, <1>3, <1>4, <1>5

\* An answer is taken by its message id, which is the position of its query as long as
\* a batch is smaller than the id space: it is filed under the address asked about.
LEMMA ReceiveStep ==
    ASSUME PTRInv, NEW r \in Refreshes, NEW k \in 1..Limit, NEW kind \in Kinds, Receive(r, k, kind)
    PROVE  PTRInv'
<1> DEFINE ip == run[r].asked[k]
           g == [ip |-> ip, of |-> ip, kind |-> kind]
           t == [run[r] EXCEPT !.got = {h \in @ : h.ip # ip} \cup {g}]
<1> USE DEF PTRInv
<1>1. /\ run[r] \in Runs /\ run[r].asked \in Seq(IPs) /\ run[r].pc = "read"
      /\ k \in DOMAIN run[r].asked /\ ip \in IPs
  BY DEF TypeOK, Runs, Receive
<1>2. IdOf(k) = k
  <2>1. Limit \in Nat /\ IdSpace \in Nat /\ Limit < IdSpace
    BY PTRAssumption
  <2>2. k \in Nat /\ 0 <= k /\ k < IdSpace
    BY <2>1
  <2> QED
    BY <2>1, <2>2 DEF IdOf
<1>3. run' = [run EXCEPT ![r] = t]
  BY <1>1, <1>2 DEF Receive
<1>4. kind \in {Truth(ip), "error"} /\ faults' \in 0..MaxFaults
  <2>1. CASE kind = Truth(ip)
    BY <2>1 DEF Receive, TypeOK
  <2>2. CASE kind # Truth(ip)
    <3>1. Fault /\ kind = "error"
      BY <2>2 DEF Receive
    <3> QED
      BY <3>1, PTRAssumption DEF Fault, TypeOK
  <2> QED
    BY <2>1, <2>2
<1>5. g \in Results /\ ResultOK(g)
  BY <1>1, <1>4 DEF Results, ResultOK
<1> HIDE DEF g
<1>6. t \in Runs /\ t.pc = "read" /\ t.asked = run[r].asked /\ t.left = run[r].left
      /\ t.got = {h \in run[r].got : h.ip # ip} \cup {g}
  BY <1>1, <1>5 DEF Runs
<1> HIDE DEF t
<1>7. \A h \in t.got : ResultOK(h)
  BY <1>5, <1>6 DEF ResultsTrue
<1>8. \A h \in t.left : ResultOK(h) /\ h.kind # "error"
  BY <1>6 DEF ResultsTrue
<1>9. Len(t.asked) <= Limit /\ IsInjective(t.asked)
  BY <1>6 DEF TypeOK
<1>10. UNCHANGED <<unchecked, line, due, cache, adds>>
  BY DEF Receive, poolVars
<1> QED
  BY <1>3, <1>4, <1>6, <1>7, <1>8, <1>9, <1>10, QuietStep

\* Of what has come, the definitive results are left to save, and nothing else.
LEMMA FinishStep ==
    ASSUME PTRInv, NEW r \in Refreshes, ReadAll(r) \/ TimeOut(r)
    PROVE  PTRInv'
<1> DEFINE left == Definitive(run[r].got)
           t == IF left = {} THEN Idle ELSE [Idle EXCEPT !.pc = "save", !.left = left]
<1> USE DEF PTRInv
<1>1. run' = [run EXCEPT ![r] = t] /\ UNCHANGED <<unchecked, line, due, cache, adds>>
  BY DEF ReadAll, TimeOut, Finish, poolVars
<1>2. faults' \in 0..MaxFaults
  BY PTRAssumption DEF ReadAll, TimeOut, Fault, TypeOK
<1>3. left \subseteq Results /\ \A g \in left : ResultOK(g) /\ g.kind # "error"
  <2>1. run[r].got \subseteq Results
    BY DEF TypeOK, Runs
  <2> QED
    BY <2>1 DEF Definitive, ResultsTrue
<1> HIDE DEF left
<1>4. /\ t \in Runs /\ t.pc # "stale" /\ Len(t.asked) = 0 /\ t.asked = <<>>
      /\ t.got = {} /\ t.left \subseteq left
  <2>1. Idle = [pc |-> "idle", asked |-> <<>>, got |-> {}, left |-> {}]
    BY DEF Idle
  <2>2. t \in {Idle, [pc |-> "save", asked |-> <<>>, got |-> {}, left |-> left]}
    BY <2>1
  <2>3. <<>> \in Seq(IPs) /\ Len(<<>>) = 0
    OBVIOUS
  <2>4. left \in SUBSET Results
    BY <1>3
  <2> HIDE DEF t
  <2>5. CASE t = Idle
    BY <2>1, <2>3, <2>5 DEF Runs
  <2>6. CASE t = [pc |-> "save", asked |-> <<>>, got |-> {}, left |-> left]
    BY <2>3, <2>4, <2>6 DEF Runs
  <2> QED
    BY <2>2, <2>5, <2>6
<1> HIDE DEF t
<1>5. Len(t.asked) <= Limit /\ IsInjective(t.asked)
  BY <1>4, PTRAssumption DEF IsInjective
<1> QED
  BY <1>1, <1>2, <1>3, <1>4, <1>5, QuietStep

\* A request that dies has saved nothing of what it had not.
LEMMA FailStep ==
    ASSUME PTRInv, NEW r \in Refreshes, Fail(r)
    PROVE  PTRInv'
<1>1. run' = [run EXCEPT ![r] = Idle] /\ UNCHANGED <<unchecked, line, due, cache, adds>>
  BY DEF Fail, poolVars
<1>2. faults' \in 0..MaxFaults
  BY PTRAssumption DEF Fail, Fault, PTRInv, TypeOK
<1>3. /\ Idle \in Runs /\ Idle.pc # "stale" /\ Len(Idle.asked) = 0 /\ Idle.asked = <<>>
      /\ Idle.got = {} /\ Idle.left = {}
  BY DEF Idle, Runs
<1>4. Len(Idle.asked) <= Limit /\ IsInjective(Idle.asked)
  BY <1>3, PTRAssumption DEF IsInjective
<1> QED
  BY <1>1, <1>2, <1>3, <1>4, QuietStep

\* Each chunk writes both tables, of results that are all about the right address.
LEMMA SaveChunkStep ==
    ASSUME PTRInv, NEW r \in Refreshes, SaveChunk(r)
    PROVE  PTRInv'
<1> USE DEF PTRInv
<1>1. PICK chunk \in SUBSET run[r].left :
        /\ Save(chunk)
        /\ run' = [run EXCEPT ![r] = IF chunk = run[r].left THEN Idle
                                     ELSE [run[r] EXCEPT !.left = @ \ chunk]]
  BY DEF SaveChunk
<1>2. run[r] \in Runs /\ run[r].pc = "save" /\ run[r].left \subseteq Results
  BY DEF SaveChunk, TypeOK, Runs
<1>3. chunk \in SUBSET Results /\ \A g \in chunk : ResultOK(g) /\ g.kind # "error"
  BY <1>2 DEF ResultsTrue
<1>4. Save(chunk)
  BY <1>1
<1>5. /\ unchecked' \in Seq(IPs) /\ line' \in Seq(IPs)
      /\ IsInjective(unchecked' \o line')
      /\ due' \in 0..Len(line')
      /\ cache' \in [IPs -> Answers \cup {NoEntry}]
      /\ ToSet(SubSeq(line', 1, due')) \subseteq ToSet(SubSeq(line, 1, due))
  BY <1>3, <1>4, SaveType
<1>6. CacheTrue' /\ CheckedCached'
  BY <1>3, <1>4, SaveTrue
<1>7. /\ Idle \in Runs /\ Idle.pc # "stale" /\ Len(Idle.asked) = 0 /\ Idle.asked = <<>>
      /\ Idle.got = {} /\ Idle.left = {}
  BY DEF Idle, Runs
<1>8. Len(Idle.asked) <= Limit /\ IsInjective(Idle.asked)
  BY <1>7, PTRAssumption DEF IsInjective
<1>9. /\ run'[r] \in Runs /\ run'[r].pc # "stale"
      /\ Len(run'[r].asked) <= Limit /\ IsInjective(run'[r].asked)
      /\ run'[r].got \subseteq run[r].got /\ run'[r].left \subseteq run[r].left
  <2>1. CASE chunk = run[r].left
    <3>1. run'[r] = Idle
      BY <1>1, <2>1 DEF TypeOK
    <3> QED
      BY <1>7, <1>8, <3>1
  <2>2. CASE chunk # run[r].left
    <3>1. run'[r] = [run[r] EXCEPT !.left = run[r].left \ chunk]
      <4>1. run \in [Refreshes -> Runs]
        BY DEF TypeOK
      <4>2. run'[r] = IF chunk = run[r].left THEN Idle
                      ELSE [run[r] EXCEPT !.left = run[r].left \ chunk]
        BY <1>1, <4>1
      <4> QED
        BY <2>2, <4>2
    <3>2. Len(run[r].asked) <= Limit /\ IsInjective(run[r].asked)
      BY DEF TypeOK
    <3> QED
      BY <1>2, <3>1, <3>2 DEF Runs
  <2> QED
    BY <2>1, <2>2
<1>10. \A q \in Refreshes : q # r => run'[q] = run[q]
  BY <1>1 DEF TypeOK
<1>11. run' \in [Refreshes -> Runs]
  BY <1>1, <1>9, <1>10 DEF TypeOK
<1>12. UNCHANGED <<adds, faults>>
  BY DEF SaveChunk
<1>13. TypeOK'
  BY <1>5, <1>9, <1>10, <1>11, <1>12 DEF TypeOK
<1>14. AskedApart'
  BY <1>5, <1>9, <1>10 DEF AskedApart
<1>15. ResultsTrue'
  BY <1>9, <1>10 DEF ResultsTrue, ResultOK
<1> QED
  BY <1>6, <1>13, <1>14, <1>15

\* The query page saves one name, of an address it has asked about itself.
LEMMA SavePTRStep ==
    ASSUME PTRInv, NEW ip \in IPs, SavePTR(ip)
    PROVE  PTRInv'
<1> DEFINE entries == {[ip |-> ip, of |-> ip, kind |-> Truth(ip)]}
<1> USE DEF PTRInv
<1>1. Save(entries) /\ ip \notin Refused /\ UNCHANGED <<run, adds, faults>>
  BY DEF SavePTR
<1>2. Truth(ip) \in Kinds /\ Truth(ip) # "error"
  BY <1>1 DEF Truth, Kinds
<1>3. entries \in SUBSET Results /\ \A g \in entries : ResultOK(g) /\ g.kind # "error"
  BY <1>2 DEF Results, ResultOK
<1> HIDE DEF entries
<1>4. /\ unchecked' \in Seq(IPs) /\ line' \in Seq(IPs)
      /\ IsInjective(unchecked' \o line')
      /\ due' \in 0..Len(line')
      /\ cache' \in [IPs -> Answers \cup {NoEntry}]
      /\ ToSet(SubSeq(line', 1, due')) \subseteq ToSet(SubSeq(line, 1, due))
  BY <1>1, <1>3, SaveType
<1>5. CacheTrue' /\ CheckedCached'
  BY <1>1, <1>3, SaveTrue
<1>6. TypeOK'
  BY <1>1, <1>4 DEF TypeOK
<1>7. AskedApart'
  BY <1>1, <1>4 DEF AskedApart
<1>8. ResultsTrue'
  BY <1>1 DEF ResultsTrue, ResultOK
<1> QED
  BY <1>5, <1>6, <1>7, <1>8

\* A new address joins the unchecked ones.
LEMMA AddStep ==
    ASSUME PTRInv, NEW ip \in IPs, Add(ip)
    PROVE  PTRInv'
<1> USE DEF PTRInv
<1>1. /\ ip \notin InPool /\ adds < MaxAdds /\ adds' = adds + 1
      /\ unchecked' = Append(unchecked, ip)
      /\ UNCHANGED <<line, due, cache, run, faults>>
  BY DEF Add
<1>2. unchecked \in Seq(IPs) /\ line \in Seq(IPs)
  BY DEF TypeOK
<1>3. IsInjective(unchecked) /\ IsInjective(line) /\ ToSet(unchecked) \cap ToSet(line) = {}
  BY <1>2, ConcatFacts DEF TypeOK
<1>4. /\ <<ip>> \in Seq(IPs) /\ ToSet(<<ip>>) = {ip} /\ IsInjective(<<ip>>)
      /\ unchecked' = unchecked \o <<ip>>
  BY <1>1, <1>2 DEF ToSet, IsInjective
<1>5. unchecked' \in Seq(IPs)
  BY <1>1, <1>2
<1>6. ToSet(unchecked) \cap {ip} = {} /\ ip \notin ToSet(line)
  BY <1>1 DEF InPool
<1>7. IsInjective(unchecked') /\ ToSet(unchecked') = ToSet(unchecked) \cup {ip}
  <2>1. /\ ToSet(unchecked \o <<ip>>) = ToSet(unchecked) \cup ToSet(<<ip>>)
        /\ IsInjective(unchecked \o <<ip>>) <=>
             IsInjective(unchecked) /\ IsInjective(<<ip>>) /\ ToSet(unchecked) \cap ToSet(<<ip>>) = {}
    BY <1>2, <1>4, ConcatFacts
  <2> QED
    BY <1>3, <1>4, <1>6, <2>1
<1>8. IsInjective(unchecked' \o line)
  <2>1. ToSet(unchecked') \cap ToSet(line) = {}
    BY <1>3, <1>6, <1>7
  <2> QED
    BY <1>2, <1>3, <1>5, <1>7, <2>1, ConcatFacts
<1>9. TypeOK'
  <2>1. adds' \in 0..MaxAdds
    BY <1>1, PTRAssumption DEF TypeOK
  <2> QED
    BY <1>1, <1>5, <1>8, <2>1 DEF TypeOK
<1>10. AskedApart' /\ ResultsTrue' /\ CacheTrue' /\ CheckedCached'
  BY <1>1 DEF AskedApart, ResultsTrue, ResultOK, CacheTrue, CheckedCached
<1> QED
  BY <1>9, <1>10

\* An address leaves the pool.
LEMMA EvictStep ==
    ASSUME PTRInv, NEW ip \in IPs, Evict(ip)
    PROVE  PTRInv'
<1> DEFINE u == Without(unchecked, {ip})
           w == Without(line, {ip})
           d == Len(Without(SubSeq(line, 1, due), {ip}))
<1> USE DEF PTRInv
<1>1. /\ u \in Seq(IPs) /\ w \in Seq(IPs)
      /\ IsInjective(u) /\ IsInjective(w)
      /\ ToSet(u) = ToSet(unchecked) \ {ip} /\ ToSet(w) = ToSet(line) \ {ip}
      /\ ToSet(u) \cap ToSet(w) = {}
      /\ d \in 0..Len(w)
      /\ {w[i] : i \in 1..d} \subseteq ToSet(SubSeq(line, 1, due))
  BY DropFacts
<1>2. unchecked' = u /\ line' = w /\ due' = d /\ UNCHANGED <<cache, run, adds, faults>>
  BY DEF Evict
<1> HIDE DEF u, w, d
<1>3. IsInjective(u \o w)
  BY <1>1, ConcatFacts
<1>4. ToSet(SubSeq(w, 1, d)) \subseteq ToSet(SubSeq(line, 1, due))
  BY <1>1, PrefixFacts
<1>5. TypeOK'
  BY <1>1, <1>2, <1>3 DEF TypeOK
<1>6. AskedApart'
  BY <1>2, <1>4 DEF AskedApart
<1>7. ResultsTrue' /\ CacheTrue'
  BY <1>2 DEF ResultsTrue, ResultOK, CacheTrue
<1>8. CheckedCached'
  BY <1>1, <1>2 DEF CheckedCached
<1> QED
  BY <1>5, <1>6, <1>7, <1>8

\* An address becomes due, while no refresh is under way.
LEMMA AgeStep ==
    ASSUME PTRInv, Age
    PROVE  PTRInv'
<1> USE DEF PTRInv
<1>1. due' \in 0..Len(line) /\ UNCHANGED <<unchecked, line, cache, run, adds, faults>>
  BY DEF Age, TypeOK
<1>2. TypeOK' /\ ResultsTrue' /\ CacheTrue' /\ CheckedCached'
  BY <1>1 DEF TypeOK, ResultsTrue, ResultOK, CacheTrue, CheckedCached
<1>3. AskedApart'
  BY <1>1 DEF Age, AskedApart
<1> QED
  BY <1>2, <1>3

\* Every step preserves the invariant.
LEMMA Inductive == PTRInv /\ [Next]_vars => PTRInv'
<1> SUFFICES ASSUME PTRInv, [Next]_vars PROVE PTRInv'
  OBVIOUS
<1>1. CASE UNCHANGED vars
  BY <1>1 DEF vars, poolVars, PTRInv, TypeOK, AskedApart, ResultsTrue, ResultOK, CacheTrue, CheckedCached
<1>2. ASSUME NEW r \in Refreshes, SelectNull(r) \/ Proceed(r) \/ TimeOut(r) \/ Fail(r)
      PROVE  PTRInv'
  BY <1>2, SelectNullStep, SelectStaleStep, FinishStep, SaveChunkStep, FailStep DEF Proceed
<1>3. ASSUME NEW r \in Refreshes, NEW k \in 1..Limit, NEW kind \in Kinds, Receive(r, k, kind)
      PROVE  PTRInv'
  BY <1>3, ReceiveStep
<1>4. ASSUME NEW ip \in IPs, SavePTR(ip) \/ Add(ip) \/ Evict(ip)
      PROVE  PTRInv'
  BY <1>4, SavePTRStep, AddStep, EvictStep
<1>5. CASE Age
  BY <1>5, AgeStep
<1> QED
  BY <1>1, <1>2, <1>3, <1>4, <1>5 DEF Next

\* The invariant holds in every state.
LEMMA Invariant == Spec => []PTRInv
<1>1. PTRInv /\ [Next]_vars => PTRInv'
  BY Inductive
<1> QED
  BY <1>1, Initial, PTL DEF Spec

-----------------------------------------------------------------------------
(* The theorems                                                            *)

\* Every variable keeps its type; in particular no address is twice in the order of
\* the pool, nor twice in a batch, although its two SELECTs are separate statements
\* (pendingIPsForPTRRefresh).
THEOREM TypeCorrect == Spec => []TypeOK
<1>1. PTRInv => TypeOK
  BY DEF PTRInv
<1> QED
  BY <1>1, Invariant, PTL

\* What ptr_cache holds for an address is the answer to its own query, and definitive,
\* for any number of overlapping refreshes, any order and repetition of answers, and
\* any batch smaller than the id space (idToIP, the rcode filter of runPTRRefresh).
THEOREM CacheSafe == Spec => []CacheTrue
<1>1. PTRInv => CacheTrue
  BY DEF PTRInv
<1> QED
  BY <1>1, Invariant, PTL

\* Whatever ends a refresh early, an address marked as checked has an entry in
\* ptr_cache (savePTRBatch writes both tables in one batch).
THEOREM CheckedSafe == Spec => []CheckedCached
<1>1. PTRInv => CheckedCached
  BY DEF PTRInv
<1> QED
  BY <1>1, Invariant, PTL

=============================================================================
