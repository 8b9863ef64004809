---------------------------- MODULE QueryProofs -----------------------------
(***************************************************************************)
(* For any addresses, hostnames, prefixes and records, any number of       *)
(* requests at a time, any limit, window, TTL and timeout: the theorems of *)
(* Query.                                                                  *)
(***************************************************************************)
EXTENDS Query, FiniteSetTheorems, TLAPS

-----------------------------------------------------------------------------
(* Numbers                                                                 *)

\* A later time is in the same window or a later one (checkRateLimit's
\* Math.floor(now / windowMs)).
LEMMA DivMonotone ==
    ASSUME NEW a \in Nat, NEW b \in Nat, a <= b
    PROVE  /\ a \div Window \in Nat
           /\ a \div Window <= b \div Window
<1>1. Window \in Nat /\ Window > 0
  BY QueryAssumption
<1> DEFINE p == a \div Window
           q == b \div Window
<1>2. /\ p \in Int /\ q \in Int
      /\ Window * p <= a /\ a < Window * p + Window
      /\ Window * q <= b /\ b < Window * q + Window
  BY <1>1, Z3
<1> HIDE DEF p, q
<1>3. p >= 0
  <2> SUFFICES ASSUME p <= -1 PROVE FALSE
    BY <1>2
  <2>1. Window * p <= Window * (-1)
    BY <1>1, <1>2, Z3
  <2> QED
    BY <1>1, <1>2, <2>1
<1>4. p <= q
  <2> SUFFICES ASSUME q + 1 <= p PROVE FALSE
    BY <1>2
  <2>1. Window * (q + 1) <= Window * p
    BY <1>1, <1>2, Z3
  <2>2. Window * (q + 1) = Window * q + Window
    BY <1>1, <1>2, Z3
  <2> QED
    BY <1>1, <1>2, <2>1, <2>2
<1> QED
  BY <1>2, <1>3, <1>4 DEF p, q

\* A cache entry of this moment or earlier has a type (clampTTL).
LEMMA UntilType ==
    /\ Clamp(TTL) \in Nat
    /\ \A t \in Times : t + Clamp(TTL) \in Until
BY QueryAssumption DEF Clamp, Until, Times

\* The window of this moment has a counter.
LEMMA WindowType ==
    /\ 0 \in Windows
    /\ \A t \in Times : t \div Window \in Windows
<1>1. MaxTime \in Nat
  BY QueryAssumption
<1>2. 0 \div Window = 0
  <2>1. Window \in Nat /\ Window > 0
    BY QueryAssumption
  <2> QED
    BY <2>1, Z3
<1>3. MaxTime \div Window \in Nat /\ \A t \in Times : t \div Window \in Nat /\ t \div Window <= MaxTime \div Window
  BY <1>1, DivMonotone DEF Times
<1> QED
  BY <1>3 DEF Windows

-----------------------------------------------------------------------------
(* Types                                                                   *)

LimiterPCs == {"prune", "read", "count"}
AddressPCs == {"asn", "whois", "saveASN", "ptr", "lookup", "answered", "savePTR"}
HostPCs == {"host", "resolve", "saveHost"}

\* A request is where its target can be, and has what it is to save.
Placed(q) ==
    /\ q.pc \in LimiterPCs => q.on \in IPs \cup Hosts
    /\ q.pc \in AddressPCs => q.on \in IPs
    /\ q.pc \in HostPCs => q.on \in Hosts /\ q.h \in Hosts
    /\ q.pc \in {"answered", "savePTR"} => q.ptr \in Values

TypeInv == TypeOK /\ \A r \in Requests : Placed(req[r])

\* The pieces that requests are made of.
LEMMA ReqShapes ==
    /\ PCs = {"idle", "done"} \cup LimiterPCs \cup AddressPCs \cup HostPCs
    /\ Idle \in Reqs /\ Placed(Idle)
    /\ \A q \in Reqs, gate \in {"-", "limited", "unverified", "foreign", "passed"} :
         LET new == [Idle EXCEPT !.pc = "done", !.on = q.on, !.gate = gate]
         IN new \in Reqs /\ Placed(new)
<1>1. PCs = {"idle", "done"} \cup LimiterPCs \cup AddressPCs \cup HostPCs
  BY DEF PCs, LimiterPCs, AddressPCs, HostPCs
<1>2. 0 \in Times /\ 0 \in Windows
  BY QueryAssumption, WindowType DEF Times
<1>3. Idle \in Reqs /\ Placed(Idle)
  BY <1>1, <1>2 DEF Idle, Reqs, Kinds, Placed, LimiterPCs, AddressPCs, HostPCs
<1>4. ASSUME NEW q \in Reqs, NEW gate \in {"-", "limited", "unverified", "foreign", "passed"}
      PROVE  LET new == [Idle EXCEPT !.pc = "done", !.on = q.on, !.gate = gate]
             IN new \in Reqs /\ Placed(new)
  <2> DEFINE new == [Idle EXCEPT !.pc = "done", !.on = q.on, !.gate = gate]
  <2>1. new \in Reqs /\ new.pc = "done"
    BY <1>1, <1>3 DEF Reqs
  <2> QED
    BY <2>1 DEF Placed, LimiterPCs, AddressPCs, HostPCs
<1> QED
  BY <1>1, <1>3, <1>4

\* Requests stay requests when one of them is replaced by another.
LEMMA Replaced ==
    ASSUME TypeInv, NEW r \in Requests, NEW new \in Reqs, Placed(new), req' = [req EXCEPT ![r] = new]
    PROVE  req' \in [Requests -> Reqs] /\ \A q \in Requests : Placed(req'[q])
BY DEF TypeInv, TypeOK

\* A request that ends, with whatever result, is still a request.
LEMMA EndType ==
    ASSUME TypeInv, NEW r \in Requests, NEW gate \in {"-", "limited", "unverified", "foreign", "passed"},
           End(r, gate)
    PROVE  req' \in [Requests -> Reqs] /\ \A q \in Requests : Placed(req'[q])
<1>1. req[r] \in Reqs
  BY DEF TypeInv, TypeOK
<1> QED
  BY <1>1, ReqShapes, Replaced DEF End

\* So is one that goes on to the sibling hostname or to the page.
LEMMA NextFormType ==
    ASSUME TypeInv, NEW r \in Requests, req[r].pc \in HostPCs, NextForm(r)
    PROVE  req' \in [Requests -> Reqs] /\ \A q \in Requests : Placed(req'[q])
<1>1. CASE req[r].h = req[r].on /\ Sibling[req[r].on] # None
  <2> DEFINE new == [req[r] EXCEPT !.pc = "host", !.h = Sibling[req[r].on], !.got = {}]
  <2>1. req[r] \in Reqs /\ req[r].on \in Hosts
    BY DEF TypeInv, TypeOK, Placed
  <2>2. Sibling[req[r].on] \in Hosts
    BY <1>1, <2>1, QueryAssumption
  <2>3. new \in Reqs /\ new.pc = "host" /\ new.on = req[r].on /\ new.h \in Hosts
    BY <2>1, <2>2 DEF Reqs, PCs
  <2>4. Placed(new)
    BY <2>1, <2>3 DEF Placed, LimiterPCs, AddressPCs, HostPCs
  <2>5. req' = [req EXCEPT ![r] = new]
    BY <1>1 DEF NextForm
  <2> QED
    BY <2>3, <2>4, <2>5, Replaced
<1>2. CASE ~(req[r].h = req[r].on /\ Sibling[req[r].on] # None)
  BY <1>2, EndType DEF NextForm
<1> QED
  BY <1>1, <1>2

\* So is one that comes out of lookupGoogleASN.
LEMMA GateType ==
    ASSUME TypeInv, NEW r \in Requests, req[r].pc \in AddressPCs, NEW google \in BOOLEAN, Gate(r, google)
    PROVE  req' \in [Requests -> Reqs] /\ \A q \in Requests : Placed(req'[q])
<1>1. CASE google /\ req[r].kind = "query"
  <2> DEFINE new == [req[r] EXCEPT !.pc = "ptr", !.gate = "passed"]
  <2>1. req[r] \in Reqs /\ req[r].on \in IPs
    BY DEF TypeInv, TypeOK, Placed
  <2>2. new \in Reqs /\ new.pc = "ptr" /\ new.on = req[r].on
    BY <2>1 DEF Reqs, PCs
  <2>3. Placed(new)
    BY <2>1, <2>2 DEF Placed, LimiterPCs, AddressPCs, HostPCs
  <2>4. req' = [req EXCEPT ![r] = new]
    BY <1>1 DEF Gate
  <2> QED
    BY <2>2, <2>3, <2>4, Replaced
<1>2. CASE ~(google /\ req[r].kind = "query")
  BY <1>2, EndType DEF Gate
<1> QED
  BY <1>1, <1>2

\* So is one that the rate limiter lets through.
LEMMA AdmitType ==
    ASSUME TypeInv, NEW r \in Requests, req[r].pc \in LimiterPCs, Admit(r)
    PROVE  req' \in [Requests -> Reqs] /\ \A q \in Requests : Placed(req'[q])
<1> DEFINE on == req[r].on
           new == [req[r] EXCEPT !.win = 0, !.pc = IF on \in Hosts THEN "host" ELSE "asn",
                                 !.h = IF on \in Hosts THEN on ELSE None]
<1>1. req[r] \in Reqs /\ on \in IPs \cup Hosts /\ 0 \in Windows
  BY WindowType DEF TypeInv, TypeOK, Placed
<1>2. /\ new \in Reqs
      /\ new.pc = (IF on \in Hosts THEN "host" ELSE "asn") /\ new.on = on
      /\ on \in Hosts => new.h = on
  BY <1>1 DEF Reqs, PCs
<1>3. Placed(new)
  BY <1>1, <1>2 DEF Placed, LimiterPCs, AddressPCs, HostPCs
<1>4. req' = [req EXCEPT ![r] = new]
  BY DEF Admit
<1> QED
  BY <1>2, <1>3, <1>4, Replaced

\* Of the prefixes that contain an address one is the longest (getASN's ORDER BY
\* prefix_len, and the origin that the lookup reports).
LEMMA LongestRoute ==
    ASSUME NEW routes \in SUBSET Routes, routes # {}
    PROVE  Longest(routes) \in routes /\ \A y \in routes : y.len <= Longest(routes).len
<1> DEFINE T == {128 - x.len : x \in routes}
<1>1. \A x \in routes : x.len \in 0..128 /\ 128 - x.len \in Nat
  BY QueryAssumption
<1>2. T \in SUBSET Nat /\ T # {}
  BY <1>1
<1>3. PICK k \in T : \A y \in T : ~(<<y, k>> \in OpToRel(<, Nat))
  BY <1>2, NatLessThanWellFounded, WFMin, Zenon
<1>4. \A y \in T : ~(y < k)
  BY <1>2, <1>3 DEF OpToRel
<1>5. PICK m \in routes : k = 128 - m.len
  OBVIOUS
<1>6. \A y \in routes : ~(128 - y.len < 128 - m.len)
  BY <1>4, <1>5
<1>7. ASSUME NEW y \in routes PROVE y.len <= m.len
  <2>1. y.len \in 0..128 /\ m.len \in 0..128 /\ ~(128 - y.len < 128 - m.len)
    BY <1>1, <1>6
  <2>2. \A p, q \in 0..128 : ~(128 - p < 128 - q) => p <= q
    OBVIOUS
  <2> QED
    BY <2>1, <2>2, Zenon
<1> QED
  BY <1>7 DEF Longest

\* Every address has an origin.
LEMMA OriginRoute ==
    ASSUME NEW ip \in IPs
    PROVE  /\ Origin(ip) \in Routes /\ ip \in Origin(ip).ips /\ Origin(ip).google \in BOOLEAN
           /\ \A y \in Routes : ip \in y.ips => y.len <= Origin(ip).len
<1>1. {route \in Routes : ip \in route.ips} # {}
  BY QueryAssumption
<1>2. /\ Origin(ip) \in {route \in Routes : ip \in route.ips}
      /\ \A y \in {route \in Routes : ip \in route.ips} : y.len <= Origin(ip).len
  BY <1>1, LongestRoute DEF Origin
<1> QED
  BY <1>2, QueryAssumption

\* Every step of the page, of a visitor and of DNS keeps the types.
LEMMA TypeStep == TypeInv /\ [Next]_vars => TypeInv'
<1> SUFFICES ASSUME TypeInv, [Next]_vars PROVE TypeInv'
  OBVIOUS
<1> USE DEF caches, world
<1> DEFINE ReqsOK == req' \in [Requests -> Reqs] /\ \A q \in Requests : Placed(req'[q])
<1>0. TypeOK /\ \A r \in Requests : Placed(req[r])
  BY DEF TypeInv
<1>a. ASSUME ReqsOK, UNCHANGED <<asks, now, count, admitted, caches, world>>, faults' \in 0..MaxFaults
      PROVE  TypeInv'
  BY <1>a, <1>0 DEF TypeInv, TypeOK
<1>f. Fault => faults' \in 0..MaxFaults
  BY <1>0, QueryAssumption DEF TypeOK, Fault
<1>g. faults \in 0..MaxFaults
  BY <1>0 DEF TypeOK
<1>p. ASSUME NEW r \in Requests, NEW pc \in PCs, Goto(r, pc),
             \A new \in Reqs : new.pc = pc /\ new.on = req[r].on /\ new.h = req[r].h /\ new.ptr = req[r].ptr => Placed(new)
      PROVE  ReqsOK
  <2> DEFINE new == [req[r] EXCEPT !.pc = pc]
  <2>1. req[r] \in Reqs
    BY <1>0 DEF TypeOK
  <2>2. new \in Reqs /\ new.pc = pc /\ new.on = req[r].on /\ new.h = req[r].h /\ new.ptr = req[r].ptr
    BY <2>1 DEF Reqs
  <2>3. Placed(new)
    BY <1>p, <2>2
  <2>4. req' = [req EXCEPT ![r] = new]
    BY <1>p DEF Goto
  <2> QED
    BY <2>2, <2>3, <2>4, Replaced
<1>c. ASSUME NEW r \in Requests, NEW c \in [Kinds -> [Windows -> Nat]]
      PROVE  Plus1(c, r) \in [Kinds -> [Windows -> Nat]]
  <2>1. req[r].kind \in Kinds /\ req[r].win \in Windows
    BY <1>0 DEF TypeOK, Reqs
  <2> QED
    BY <2>1 DEF Plus1
<1>1. CASE UNCHANGED vars
  BY <1>1, <1>a, <1>0 DEF vars, TypeOK
<1>2. CASE Tick /\ UNCHANGED asks
  <2>1. now' \in Times
    BY <1>2, <1>0, QueryAssumption DEF Tick, TypeOK, Times
  <2> QED
    BY <1>2, <1>0, <2>1 DEF Tick, TypeInv, TypeOK
<1>3. ASSUME NEW ip \in IPs, NEW v \in Records[ip], Rename(ip, v), UNCHANGED asks PROVE TypeInv'
  <2>1. v \in Values /\ dns[ip] \in Values /\ now \in -1..MaxTime
    BY <1>0, QueryAssumption DEF Values, TypeOK, Times
  <2>2. dns' \in [IPs -> Values] /\ \A i \in IPs : dns'[i] \in Records[i]
    BY <1>3, <1>0, <2>1 DEF Rename, TypeOK
  <2>3. ended' \in [IPs -> [Values -> -1..MaxTime]]
    BY <1>3, <1>0, <2>1 DEF Rename, TypeOK
  <2>4. renames' \in 0..MaxRenames
    BY <1>3, <1>0, QueryAssumption DEF Rename, TypeOK
  <2> QED
    BY <1>3, <1>0, <2>2, <2>3, <2>4 DEF Rename, TypeInv, TypeOK
<1>4. ASSUME NEW r \in Requests, NEW ask \in asks, Begin(r, ask[1], ask[2]), UNCHANGED asks PROVE TypeInv'
  <2>1. ask[1] \in Kinds /\ ask[2] \in IPs \cup Hosts
    BY <1>0, QueryAssumption DEF TypeOK, Kinds
  <2>2. PICK kind \in Kinds, on \in IPs \cup Hosts : Begin(r, kind, on)
    BY <1>4, <2>1
  <2> DEFINE new == [Idle EXCEPT !.pc = "prune", !.kind = kind, !.on = on, !.win = now \div Window]
  <2>3. now \div Window \in Windows
    BY <1>0, WindowType DEF TypeOK
  <2>4. new \in Reqs /\ new.pc = "prune" /\ new.on = on
    <3>1. \A w \in Windows : LET q == [Idle EXCEPT !.pc = "prune", !.kind = kind, !.on = on, !.win = w]
                             IN q \in Reqs /\ q.pc = "prune" /\ q.on = on
      <4>1. Idle \in Reqs
        BY ReqShapes
      <4> QED
        BY <4>1 DEF Reqs, PCs
    <3> QED
      BY <2>3, <3>1
  <2>5. Placed(new)
    BY <2>4 DEF Placed, LimiterPCs, AddressPCs, HostPCs
  <2>6. ReqsOK
    BY <2>2, <2>4, <2>5, Replaced DEF Begin
  <2> QED
    BY <1>4, <1>a, <1>g, <2>2, <2>6 DEF Begin
<1>5. ASSUME NEW r \in Requests, Handle(r), UNCHANGED asks PROVE TypeInv'
  <2>0. req[r] \in Reqs /\ Placed(req[r])
    BY <1>0 DEF TypeOK
  <2>a. req[r].pc \in LimiterPCs => req[r].kind \in Kinds /\ req[r].win \in Windows
    BY <2>0 DEF Reqs
  <2>t. now \in Times
    BY <1>0 DEF TypeOK
  <2>1. CASE PruneWindows(r)
    <3>1. ReqsOK
      BY <2>1, <2>0, <1>p DEF PruneWindows, Placed, PCs, LimiterPCs, AddressPCs, HostPCs
    <3>2. count' \in [Kinds -> [Windows -> Nat]]
      BY <2>1, <1>0 DEF PruneWindows, TypeOK
    <3> QED
      BY <2>1, <1>0, <1>5, <3>1, <3>2 DEF PruneWindows, TypeInv, TypeOK
  <2>2. CASE ReadCount(r)
    <3>1. CASE End(r, "limited")
      BY <2>2, <1>5, <1>a, <1>g, <3>1, EndType DEF ReadCount
    <3>2. CASE Goto(r, "count")
      <4>1. ReqsOK
        BY <2>2, <2>0, <3>2, <1>p DEF ReadCount, Placed, PCs, LimiterPCs, AddressPCs, HostPCs
      <4> QED
        BY <2>2, <1>5, <1>a, <1>g, <4>1 DEF ReadCount
    <3> QED
      BY <2>2, <3>1, <3>2 DEF ReadCount
  <2>3. CASE Increment(r)
    <3>1. ReqsOK
      BY <2>3, AdmitType DEF Increment, LimiterPCs
    <3>2. count' \in [Kinds -> [Windows -> Nat]] /\ admitted' \in [Kinds -> [Windows -> Nat]]
      BY <2>3, <1>0, <1>c DEF Increment, TypeOK
    <3> QED
      BY <2>3, <1>0, <1>5, <3>1, <3>2 DEF Increment, TypeInv, TypeOK
  <2>4. CASE ReadASN(r)
    <3>1. req[r].on \in IPs /\ req[r].pc \in AddressPCs
      BY <2>4, <2>0 DEF ReadASN, Placed, AddressPCs
    <3>2. Hits(req[r].on) # {} => Longest(Hits(req[r].on)).google \in BOOLEAN
      <4>1. Hits(req[r].on) \in SUBSET Routes
        BY DEF Hits
      <4> QED
        BY <4>1, LongestRoute, QueryAssumption
    <3>3. CASE Goto(r, "whois")
      <4>1. ReqsOK
        BY <2>4, <2>0, <3>3, <1>p DEF ReadASN, Placed, PCs, LimiterPCs, AddressPCs, HostPCs
      <4> QED
        BY <2>4, <1>5, <1>a, <1>g, <4>1 DEF ReadASN
    <3>4. CASE Hits(req[r].on) # {} /\ Gate(r, Longest(Hits(req[r].on)).google)
      <4>1. ReqsOK
        BY <3>1, <3>2, <3>4, GateType
      <4> QED
        BY <2>4, <1>5, <1>a, <1>g, <4>1 DEF ReadASN
    <3> QED
      BY <2>4, <3>3, <3>4 DEF ReadASN
  <2>5. CASE Whois(r)
    <3>1. req[r].pc \in AddressPCs
      BY <2>5 DEF Whois, AddressPCs
    <3>2. CASE Gate(r, FALSE)
      BY <2>5, <1>5, <1>a, <1>g, <3>1, <3>2, GateType DEF Whois
    <3>3. CASE req' = [req EXCEPT ![r].pc = "saveASN", ![r].at = now]
      <4> DEFINE new == [req[r] EXCEPT !.pc = "saveASN", !.at = now]
      <4>1. new \in Reqs /\ new.pc = "saveASN" /\ new.on = req[r].on
        BY <2>0, <2>t DEF Reqs, PCs
      <4>2. Placed(new)
        BY <2>0, <2>5, <4>1 DEF Whois, Placed, LimiterPCs, AddressPCs, HostPCs
      <4>3. req' = [req EXCEPT ![r] = new]
        BY <3>3
      <4>4. ReqsOK
        BY <4>1, <4>2, <4>3, Replaced
      <4> QED
        BY <2>5, <1>5, <1>a, <1>g, <4>4 DEF Whois
    <3> QED
      BY <2>5, <3>2, <3>3 DEF Whois
  <2>6. CASE SaveASN(r)
    <3>1. ReqsOK
      BY <2>6, GateType DEF SaveASN, AddressPCs
    <3>2. req[r].at + Clamp(TTL) \in Until
      BY <2>0, UntilType DEF Reqs
    <3>3. asn' \in [Routes -> Until \cup {NoEntry}]
      BY <2>6, <1>0, <3>2 DEF SaveASN, TypeOK
    <3> QED
      BY <2>6, <1>0, <1>5, <3>1, <3>3 DEF SaveASN, TypeInv, TypeOK
  <2>7. CASE ReadPTR(r)
    <3>1. CASE End(r, "passed")
      BY <2>7, <1>5, <1>a, <1>g, <3>1, EndType DEF ReadPTR
    <3>2. CASE req' = [req EXCEPT ![r].pc = "lookup", ![r].at = now]
      <4> DEFINE new == [req[r] EXCEPT !.pc = "lookup", !.at = now]
      <4>1. new \in Reqs /\ new.pc = "lookup" /\ new.on = req[r].on
        BY <2>0, <2>t DEF Reqs, PCs
      <4>2. Placed(new)
        BY <2>0, <2>7, <4>1 DEF ReadPTR, Placed, LimiterPCs, AddressPCs, HostPCs
      <4>3. req' = [req EXCEPT ![r] = new]
        BY <3>2
      <4>4. ReqsOK
        BY <4>1, <4>2, <4>3, Replaced
      <4> QED
        BY <2>7, <1>5, <1>a, <1>g, <4>4 DEF ReadPTR
    <3> QED
      BY <2>7, <3>1, <3>2 DEF ReadPTR
  <2>8. CASE LookupPTR(r)
    <3>1. req[r].on \in IPs
      BY <2>8, <2>0 DEF LookupPTR, Placed, AddressPCs
    <3>2. dns[req[r].on] \in Values
      BY <3>1, <1>0 DEF TypeOK
    <3> DEFINE new == [req[r] EXCEPT !.pc = "answered", !.ptr = dns[req[r].on]]
    <3>3. new \in Reqs /\ new.pc = "answered" /\ new.on = req[r].on /\ new.ptr \in Values
      BY <2>0, <3>2 DEF Reqs, PCs
    <3>4. Placed(new)
      BY <3>1, <3>3 DEF Placed, LimiterPCs, AddressPCs, HostPCs
    <3>5. req' = [req EXCEPT ![r] = new]
      BY <2>8 DEF LookupPTR, QueryDoH
    <3>6. ReqsOK
      BY <3>3, <3>4, <3>5, Replaced
    <3> QED
      BY <2>8, <1>5, <1>a, <1>g, <3>6 DEF LookupPTR
  <2>9. CASE Answered(r)
    <3> DEFINE new == [req[r] EXCEPT !.pc = "savePTR", !.at = now]
    <3>1. new \in Reqs /\ new.pc = "savePTR" /\ new.on = req[r].on /\ new.ptr = req[r].ptr
      BY <2>0, <2>t DEF Reqs, PCs
    <3>2. Placed(new)
      BY <2>0, <2>9, <3>1 DEF Answered, Placed, LimiterPCs, AddressPCs, HostPCs
    <3>3. req' = [req EXCEPT ![r] = new]
      BY <2>9 DEF Answered
    <3>4. ReqsOK
      BY <3>1, <3>2, <3>3, Replaced
    <3> QED
      BY <2>9, <1>5, <1>a, <1>g, <3>4 DEF Answered
  <2>10. CASE SavePTR(r)
    <3>1. ReqsOK
      BY <2>10, EndType DEF SavePTR
    <3>2. req[r].at + Clamp(TTL) \in Until /\ req[r].ptr \in Values
      BY <2>0, <2>10, UntilType DEF Reqs, SavePTR, Placed
    <3>3. ptr' \in [IPs -> [val : Values, good : Until] \cup {NoEntry}]
      BY <2>10, <1>0, <3>2 DEF SavePTR, TypeOK
    <3> QED
      BY <2>10, <1>0, <1>5, <3>1, <3>3 DEF SavePTR, TypeInv, TypeOK
  <2>11. CASE ReadHost(r)
    <3>1. CASE NextForm(r)
      BY <2>11, <1>5, <1>a, <1>g, <3>1, NextFormType DEF ReadHost, HostPCs
    <3>2. CASE Goto(r, "resolve")
      <4>1. ReqsOK
        BY <2>11, <2>0, <3>2, <1>p DEF ReadHost, Placed, PCs, LimiterPCs, AddressPCs, HostPCs
      <4> QED
        BY <2>11, <1>5, <1>a, <1>g, <4>1 DEF ReadHost
    <3> QED
      BY <2>11, <3>1, <3>2 DEF ReadHost
  <2>12. ASSUME NEW fam \in {4, 6}, Resolve(r, fam) PROVE TypeInv'
    <3> DEFINE got == req[r].got \cup {fam}
               new == [req[r] EXCEPT !.got = got, !.at = IF got = {4, 6} THEN now ELSE 0,
                                     !.pc = IF got = {4, 6} THEN "saveHost" ELSE "resolve"]
    <3>1. CASE NextForm(r)
      BY <2>12, <1>5, <1>a, <1>g, <3>1, NextFormType DEF Resolve, HostPCs
    <3>2. CASE req' = [req EXCEPT ![r].got = got, ![r].at = IF got = {4, 6} THEN now ELSE 0,
                                  ![r].pc = IF got = {4, 6} THEN "saveHost" ELSE "resolve"]
      <4>1. got \in SUBSET {4, 6} /\ 0 \in Times
        BY <2>0, QueryAssumption DEF Reqs, Times
      <4>2. new \in Reqs /\ new.pc \in {"saveHost", "resolve"} /\ new.on = req[r].on /\ new.h = req[r].h
        BY <2>0, <2>t, <4>1 DEF Reqs, PCs
      <4>3. Placed(new)
        BY <2>0, <2>12, <4>2 DEF Resolve, Placed, LimiterPCs, AddressPCs, HostPCs
      <4>4. req' = [req EXCEPT ![r] = new]
        BY <3>2
      <4>5. ReqsOK
        BY <4>2, <4>3, <4>4, Replaced
      <4> QED
        BY <2>12, <1>5, <1>a, <1>g, <4>5 DEF Resolve
    <3> QED
      BY <2>12, <3>1, <3>2 DEF Resolve
  <2>13. CASE SaveHost(r)
    <3>1. ReqsOK
      BY <2>13, NextFormType DEF SaveHost, HostPCs
    <3>2. req[r].at + Clamp(TTL) \in Until /\ req[r].got \cap Families[req[r].h] \in SUBSET {4, 6}
      BY <2>0, UntilType DEF Reqs
    <3>3. host' \in [Hosts -> [fams : SUBSET {4, 6}, good : Until] \cup {NoEntry}]
      BY <2>13, <1>0, <3>2 DEF SaveHost, TypeOK
    <3> QED
      BY <2>13, <1>0, <1>5, <3>1, <3>3 DEF SaveHost, TypeInv, TypeOK
  <2>14. CASE Respond(r)
    <3>1. ReqsOK
      BY <2>14, ReqShapes, Replaced DEF Respond
    <3> QED
      BY <2>14, <1>5, <1>a, <1>g, <3>1 DEF Respond
  <2> QED
    BY <1>5, <2>1, <2>2, <2>3, <2>4, <2>5, <2>6, <2>7, <2>8, <2>9, <2>10, <2>11, <2>12, <2>13, <2>14
       DEF Handle
<1>6. ASSUME NEW r \in Requests, Fails(r), UNCHANGED asks PROVE TypeInv'
  <2>1. CASE LimiterFails(r)
    <3>1. ReqsOK
      BY <2>1, AdmitType, ReqShapes, Replaced DEF LimiterFails, LimiterPCs
    <3>2. count' \in [Kinds -> [Windows -> Nat]]
      BY <2>1, <1>0, <1>c DEF LimiterFails, TypeOK
    <3> QED
      BY <2>1, <1>0, <1>6, <1>f, <3>1, <3>2 DEF LimiterFails, TypeInv, TypeOK
  <2>2. CASE WhoisFails(r)
    BY <2>2, <1>6, <1>a, <1>f, EndType DEF WhoisFails, Unverified
  <2>3. CASE LookupFails(r)
    BY <2>3, <1>6, <1>a, <1>f, EndType DEF LookupFails
  <2>4. CASE ResolveFails(r)
    BY <2>4, <1>6, <1>a, <1>f, NextFormType DEF ResolveFails, HostPCs
  <2>5. CASE SaveFails(r)
    <3>1. ReqsOK
      BY <2>5, EndType, NextFormType, GateType DEF SaveFails, HostPCs, AddressPCs
    <3> QED
      BY <2>5, <1>6, <1>a, <1>f, <3>1 DEF SaveFails
  <2> QED
    BY <1>6, <2>1, <2>2, <2>3, <2>4, <2>5 DEF Fails
<1> QED
  BY <1>1, <1>2, <1>3, <1>4, <1>5, <1>6 DEF Next

\* The types, and the places of requests, hold in every behaviour.
LEMMA TypeInvariant == Spec => []TypeInv
<1>1. Init => TypeInv
  <2> SUFFICES ASSUME Init PROVE TypeInv
    OBVIOUS
  <2>1. 0 \in Times /\ -1 \in -1..MaxTime /\ 0 \in 0..MaxRenames /\ 0 \in 0..MaxFaults
    BY QueryAssumption DEF Times
  <2>2. dns \in [IPs -> Values] /\ \A ip \in IPs : dns[ip] \in Records[ip]
    BY DEF Init
  <2>3. req \in [Requests -> Reqs] /\ \A r \in Requests : Placed(req[r])
    BY ReqShapes DEF Init
  <2>4. count \in [Kinds -> [Windows -> Nat]] /\ admitted \in [Kinds -> [Windows -> Nat]]
    BY DEF Init
  <2> QED
    BY <2>1, <2>2, <2>3, <2>4 DEF Init, TypeInv, TypeOK
<1> QED
  BY <1>1, TypeStep, PTL DEF Spec

\* Every variable keeps its type: the counters, the three caches and the requests,
\* through every overlap and failure of GET /query and the gates of POST /check.
THEOREM TypeCorrect == Spec => []TypeOK
<1>1. TypeInv => TypeOK
  BY DEF TypeInv
<1> QED
  BY <1>1, TypeInvariant, PTL

-----------------------------------------------------------------------------
(* The gate                                                                *)

\* No foreign prefix lies inside one of Google's that contains the same address:
\* what is cached of Google's prefixes then decides as the origin does.  Without
\* this the code errs (see the README on getASN).
NoForeignInside ==
    \A x, y \in Routes : x.google /\ ~y.google /\ x.ips \cap y.ips # {} => y.len < x.len

\* Only Google's prefixes are in asn_cache.
GoogleCached == \A route \in Routes : asn[route] # NoEntry => route.google

\* A request past the gate is for one of Google's addresses, and says so.
GateOK(q) ==
    /\ q.pc = "saveASN" => Origin(q.on).google
    /\ q.pc \in {"ptr", "lookup", "answered", "savePTR"} => q.gate = "passed"
    /\ q.gate \in {"passed", "foreign"} => (q.gate = "passed" <=> Origin(q.on).google)

GateInv == GoogleCached /\ \A r \in Requests : GateOK(req[r])

\* Under NoForeignInside, the longest cached prefix of an address says what its
\* origin says.
LEMMA HitTrue ==
    ASSUME NoForeignInside, GoogleCached, NEW ip \in IPs, Hits(ip) # {}
    PROVE  Longest(Hits(ip)).google /\ Origin(ip).google
<1>1. Hits(ip) \in SUBSET Routes
  BY DEF Hits
<1>2. Longest(Hits(ip)) \in Hits(ip)
  BY <1>1, LongestRoute
<1>3. Longest(Hits(ip)) \in Routes /\ ip \in Longest(Hits(ip)).ips /\ Longest(Hits(ip)).google
  BY <1>2 DEF Hits, GoogleCached
<1>4. Origin(ip) \in Routes /\ ip \in Origin(ip).ips /\ Longest(Hits(ip)).len <= Origin(ip).len
  BY <1>3, OriginRoute
<1>5. Origin(ip).len \in 0..128 /\ Longest(Hits(ip)).len \in 0..128
  BY <1>3, <1>4, QueryAssumption
<1>6. ~Origin(ip).google => Origin(ip).len < Longest(Hits(ip)).len
  BY <1>3, <1>4 DEF NoForeignInside
<1>7. \A m, n \in 0..128 : m <= n => ~(n < m)
  OBVIOUS
<1> QED
  BY <1>3, <1>4, <1>5, <1>6, <1>7, Zenon

\* A request that is replaced by one that GateOK holds of.
LEMMA GateReplaced ==
    ASSUME TypeInv, \A q \in Requests : GateOK(req[q]),
           NEW r \in Requests, NEW new, GateOK(new), req' = [req EXCEPT ![r] = new]
    PROVE  \A q \in Requests : GateOK(req'[q])
BY DEF TypeInv, TypeOK

\* Ending with a true verdict, or with none.
LEMMA GateEnd ==
    ASSUME TypeInv, \A q \in Requests : GateOK(req[q]), NEW r \in Requests, NEW gate, End(r, gate),
           gate \in {"passed", "foreign"} => (gate = "passed" <=> Origin(req[r].on).google)
    PROVE  \A q \in Requests : GateOK(req'[q])
<1> DEFINE new == [Idle EXCEPT !.pc = "done", !.on = req[r].on, !.gate = gate]
<1>1. new.pc = "done" /\ new.on = req[r].on /\ new.gate = gate
  BY DEF Idle
<1>2. GateOK(new)
  BY <1>1 DEF GateOK
<1> QED
  BY <1>2, GateReplaced DEF End

\* Going on to another statement without touching the verdict.
LEMMA GateKept ==
    ASSUME TypeInv, \A q \in Requests : GateOK(req[q]), NEW r \in Requests, NEW new,
           new.on = req[r].on, new.gate = req[r].gate,
           new.pc \notin {"saveASN", "ptr", "lookup", "answered", "savePTR"},
           req' = [req EXCEPT ![r] = new]
    PROVE  \A q \in Requests : GateOK(req'[q])
<1>1. GateOK(new)
  BY DEF GateOK
<1> QED
  BY <1>1, GateReplaced

\* lookupGoogleASN with the right answer.
LEMMA GateAnswer ==
    ASSUME TypeInv, \A q \in Requests : GateOK(req[q]), NEW r \in Requests, NEW google \in BOOLEAN,
           google <=> Origin(req[r].on).google, Gate(r, google)
    PROVE  \A q \in Requests : GateOK(req'[q])
<1>1. CASE google /\ req[r].kind = "query"
  <2> DEFINE new == [req[r] EXCEPT !.pc = "ptr", !.gate = "passed"]
  <2>1. new.pc = "ptr" /\ new.on = req[r].on /\ new.gate = "passed"
    BY DEF TypeInv, TypeOK, Reqs
  <2>2. GateOK(new)
    BY <1>1, <2>1 DEF GateOK
  <2>3. req' = [req EXCEPT ![r] = new]
    BY <1>1 DEF Gate
  <2> QED
    BY <2>2, <2>3, GateReplaced
<1>2. CASE ~(google /\ req[r].kind = "query")
  BY <1>2, GateEnd DEF Gate
<1> QED
  BY <1>1, <1>2

\* The next form of a hostname has no verdict.
LEMMA GateNextForm ==
    ASSUME TypeInv, \A q \in Requests : GateOK(req[q]), NEW r \in Requests, NextForm(r)
    PROVE  \A q \in Requests : GateOK(req'[q])
<1>1. CASE req[r].h = req[r].on /\ Sibling[req[r].on] # None
  <2> DEFINE new == [req[r] EXCEPT !.pc = "host", !.h = Sibling[req[r].on], !.got = {}]
  <2>1. new.on = req[r].on /\ new.gate = req[r].gate /\ new.pc = "host"
    BY DEF TypeInv, TypeOK, Reqs
  <2>2. req' = [req EXCEPT ![r] = new]
    BY <1>1 DEF NextForm
  <2> QED
    BY <2>1, <2>2, GateKept
<1>2. CASE ~(req[r].h = req[r].on /\ Sibling[req[r].on] # None)
  BY <1>2, GateEnd DEF NextForm
<1> QED
  BY <1>1, <1>2

\* Nor has a request that the rate limiter has just let through.
LEMMA GateAdmit ==
    ASSUME TypeInv, \A q \in Requests : GateOK(req[q]), NEW r \in Requests, Admit(r)
    PROVE  \A q \in Requests : GateOK(req'[q])
<1> DEFINE on == req[r].on
           new == [req[r] EXCEPT !.win = 0, !.pc = IF on \in Hosts THEN "host" ELSE "asn",
                                 !.h = IF on \in Hosts THEN on ELSE None]
<1>1. new.on = on /\ new.gate = req[r].gate /\ new.pc \in {"host", "asn"}
  BY DEF TypeInv, TypeOK, Reqs
<1>2. req' = [req EXCEPT ![r] = new]
  BY DEF Admit
<1> QED
  BY <1>1, <1>2, GateKept

\* Every step keeps GateInv.
LEMMA GateStep ==
    ASSUME NoForeignInside, TypeInv, GateInv, [Next]_vars
    PROVE  GateInv'
<1> USE DEF caches, world
<1> DEFINE OK == \A q \in Requests : GateOK(req'[q])
<1>0. TypeOK /\ GoogleCached /\ (\A q \in Requests : GateOK(req[q])) /\ \A q \in Requests : Placed(req[q])
  BY DEF TypeInv, GateInv
<1>a. ASSUME asn' = asn, OK PROVE GateInv'
  BY <1>a, <1>0 DEF GateInv, GoogleCached
<1>g. ASSUME NEW r \in Requests, NEW pc \in PCs, Goto(r, pc),
             pc \notin {"saveASN", "ptr", "lookup", "answered", "savePTR"}
      PROVE  OK
  <2> DEFINE new == [req[r] EXCEPT !.pc = pc]
  <2>1. new.on = req[r].on /\ new.gate = req[r].gate /\ new.pc = pc
    BY <1>0 DEF TypeOK, Reqs
  <2> QED
    BY <1>0, <1>g, <2>1, GateKept DEF Goto
<1>1. CASE UNCHANGED vars
  BY <1>1, <1>0, <1>a DEF vars
<1>2. CASE Tick
  BY <1>2, <1>0, <1>a DEF Tick
<1>3. ASSUME NEW ip \in IPs, NEW v \in Records[ip], Rename(ip, v) PROVE GateInv'
  BY <1>3, <1>0, <1>a DEF Rename
<1>4. ASSUME NEW r \in Requests, NEW kind, NEW on, Begin(r, kind, on) PROVE GateInv'
  <2> DEFINE new == [Idle EXCEPT !.pc = "prune", !.kind = kind, !.on = on, !.win = now \div Window]
  <2>1. new.pc = "prune" /\ new.gate = "-"
    BY DEF Idle
  <2>2. GateOK(new)
    BY <2>1 DEF GateOK
  <2> QED
    BY <1>4, <1>0, <1>a, <2>2, GateReplaced DEF Begin
<1>5. ASSUME NEW r \in Requests, Handle(r) PROVE GateInv'
  <2>0. req[r] \in Reqs /\ Placed(req[r]) /\ GateOK(req[r])
    BY <1>0 DEF TypeOK
  <2>1. CASE PruneWindows(r)
    BY <2>1, <1>a, <1>g DEF PruneWindows, PCs
  <2>2. CASE ReadCount(r)
    BY <2>2, <1>0, <1>a, <1>g, GateEnd DEF ReadCount, PCs
  <2>3. CASE Increment(r)
    BY <2>3, <1>0, <1>a, GateAdmit DEF Increment
  <2>4. CASE ReadASN(r)
    <3>1. CASE Goto(r, "whois")
      BY <2>4, <3>1, <1>a, <1>g DEF ReadASN, PCs
    <3>2. CASE Hits(req[r].on) # {} /\ Gate(r, Longest(Hits(req[r].on)).google)
      <4>1. req[r].on \in IPs
        BY <2>0, <2>4 DEF ReadASN, Placed, AddressPCs
      <4>2. Longest(Hits(req[r].on)).google /\ Origin(req[r].on).google
        BY <1>0, <3>2, <4>1, HitTrue
      <4>3. Gate(r, TRUE)
        BY <3>2, <4>2 DEF Gate
      <4>4. OK
        BY <1>0, <4>2, <4>3, GateAnswer
      <4> QED
        BY <2>4, <1>a, <4>4 DEF ReadASN
    <3> QED
      BY <2>4, <3>1, <3>2 DEF ReadASN
  <2>5. CASE Whois(r)
    <3>1. CASE ~Origin(req[r].on).google
      BY <2>5, <1>0, <1>a, <3>1, GateAnswer DEF Whois
    <3>2. CASE Origin(req[r].on).google
      <4> DEFINE new == [req[r] EXCEPT !.pc = "saveASN", !.at = now]
      <4>1. new.pc = "saveASN" /\ new.on = req[r].on /\ new.gate = req[r].gate
        BY <2>0 DEF Reqs
      <4>2. GateOK(new)
        BY <2>0, <3>2, <4>1 DEF GateOK
      <4>3. req' = [req EXCEPT ![r] = new]
        BY <2>5, <3>2 DEF Whois
      <4> QED
        BY <2>5, <1>0, <1>a, <4>2, <4>3, GateReplaced DEF Whois
    <3> QED
      BY <3>1, <3>2
  <2>6. CASE SaveASN(r)
    <3>1. Origin(req[r].on).google
      BY <2>0, <2>6 DEF SaveASN, GateOK
    <3>2. OK
      BY <2>6, <1>0, <3>1, GateAnswer DEF SaveASN
    <3>3. GoogleCached'
      BY <2>6, <1>0, <3>1 DEF SaveASN, GoogleCached, TypeOK
    <3> QED
      BY <3>2, <3>3 DEF GateInv
  <2>7. CASE ReadPTR(r)
    <3>0. req[r].gate = "passed" /\ Origin(req[r].on).google
      BY <2>0, <2>7 DEF ReadPTR, GateOK
    <3>1. CASE End(r, "passed")
      BY <2>7, <1>0, <1>a, <3>0, <3>1, GateEnd DEF ReadPTR
    <3>2. CASE req' = [req EXCEPT ![r].pc = "lookup", ![r].at = now]
      <4> DEFINE new == [req[r] EXCEPT !.pc = "lookup", !.at = now]
      <4>1. new.pc = "lookup" /\ new.on = req[r].on /\ new.gate = req[r].gate
        BY <2>0 DEF Reqs
      <4>2. GateOK(new)
        BY <3>0, <4>1 DEF GateOK
      <4>3. req' = [req EXCEPT ![r] = new]
        BY <3>2
      <4> QED
        BY <2>7, <1>0, <1>a, <4>2, <4>3, GateReplaced DEF ReadPTR
    <3> QED
      BY <2>7, <3>1, <3>2 DEF ReadPTR
  <2>8. CASE LookupPTR(r)
    <3> DEFINE new == [req[r] EXCEPT !.pc = "answered", !.ptr = QueryDoH(req[r].on)]
    <3>1. new.pc = "answered" /\ new.on = req[r].on /\ new.gate = req[r].gate
      BY <2>0 DEF Reqs
    <3>2. GateOK(new)
      BY <2>0, <2>8, <3>1 DEF LookupPTR, GateOK
    <3> QED
      BY <2>8, <1>0, <1>a, <3>2, GateReplaced DEF LookupPTR
  <2>9. CASE Answered(r)
    <3> DEFINE new == [req[r] EXCEPT !.pc = "savePTR", !.at = now]
    <3>1. new.pc = "savePTR" /\ new.on = req[r].on /\ new.gate = req[r].gate
      BY <2>0 DEF Reqs
    <3>2. GateOK(new)
      BY <2>0, <2>9, <3>1 DEF Answered, GateOK
    <3> QED
      BY <2>9, <1>0, <1>a, <3>2, GateReplaced DEF Answered
  <2>10. CASE SavePTR(r)
    <3>1. Origin(req[r].on).google
      BY <2>0, <2>10 DEF SavePTR, GateOK
    <3> QED
      BY <2>10, <1>0, <1>a, <3>1, GateEnd DEF SavePTR
  <2>11. CASE ReadHost(r)
    BY <2>11, <1>0, <1>a, <1>g, GateNextForm DEF ReadHost, PCs
  <2>12. ASSUME NEW fam \in {4, 6}, Resolve(r, fam) PROVE GateInv'
    <3> DEFINE got == req[r].got \cup {fam}
               new == [req[r] EXCEPT !.got = got, !.at = IF got = {4, 6} THEN now ELSE 0,
                                     !.pc = IF got = {4, 6} THEN "saveHost" ELSE "resolve"]
    <3>1. CASE NextForm(r)
      BY <2>12, <1>0, <1>a, <3>1, GateNextForm DEF Resolve
    <3>2. CASE req' = [req EXCEPT ![r].got = got, ![r].at = IF got = {4, 6} THEN now ELSE 0,
                                  ![r].pc = IF got = {4, 6} THEN "saveHost" ELSE "resolve"]
      <4>1. new.on = req[r].on /\ new.gate = req[r].gate /\ new.pc \in {"saveHost", "resolve"}
        BY <2>0 DEF Reqs
      <4>2. req' = [req EXCEPT ![r] = new]
        BY <3>2
      <4> QED
        BY <2>12, <1>0, <1>a, <4>1, <4>2, GateKept DEF Resolve
    <3> QED
      BY <2>12, <3>1, <3>2 DEF Resolve
  <2>13. CASE SaveHost(r)
    BY <2>13, <1>0, <1>a, GateNextForm DEF SaveHost
  <2>14. CASE Respond(r)
    <3>1. GateOK(Idle)
      BY DEF Idle, GateOK
    <3> QED
      BY <2>14, <1>0, <1>a, <3>1, GateReplaced DEF Respond
  <2> QED
    BY <1>5, <2>1, <2>2, <2>3, <2>4, <2>5, <2>6, <2>7, <2>8, <2>9, <2>10, <2>11, <2>12, <2>13, <2>14
       DEF Handle
<1>6. ASSUME NEW r \in Requests, Fails(r) PROVE GateInv'
  <2>0. req[r] \in Reqs /\ Placed(req[r]) /\ GateOK(req[r])
    BY <1>0 DEF TypeOK
  <2>1. CASE LimiterFails(r)
    <3>1. GateOK(Idle)
      BY DEF Idle, GateOK
    <3> QED
      BY <2>1, <1>0, <1>a, <3>1, GateAdmit, GateReplaced DEF LimiterFails
  <2>2. CASE WhoisFails(r)
    BY <2>2, <1>0, <1>a, GateEnd DEF WhoisFails, Unverified
  <2>3. CASE LookupFails(r)
    <3>1. Origin(req[r].on).google
      BY <2>0, <2>3 DEF LookupFails, GateOK
    <3> QED
      BY <2>3, <1>0, <1>a, <3>1, GateEnd DEF LookupFails
  <2>4. CASE ResolveFails(r)
    BY <2>4, <1>0, <1>a, GateNextForm DEF ResolveFails
  <2>5. CASE SaveFails(r)
    <3>1. req[r].pc \in {"saveASN", "savePTR"} => Origin(req[r].on).google
      BY <2>0 DEF GateOK
    <3>2. OK
      BY <2>5, <1>0, <3>1, GateAnswer, GateEnd, GateNextForm DEF SaveFails
    <3> QED
      BY <2>5, <1>a, <3>2 DEF SaveFails
  <2> QED
    BY <1>6, <2>1, <2>2, <2>3, <2>4, <2>5 DEF Fails
<1> QED
  BY <1>1, <1>2, <1>3, <1>4, <1>5, <1>6 DEF Next

\* What the gates say is true, for any prefixes that nest as NoForeignInside has it:
\* neither a failed lookup nor a cached prefix lets a foreign address through to the
\* check history or to the probe, and neither makes one of Google's foreign.
THEOREM GateSafe ==
    ASSUME NoForeignInside
    PROVE  Spec => []GateTrue
<1>1. Init => GateInv
  <2>1. GateOK(Idle)
    BY DEF Idle, GateOK
  <2> QED
    BY <2>1 DEF Init, GateInv, GoogleCached
<1>2. TypeInv /\ GateInv /\ [Next]_vars => GateInv'
  BY GateStep
<1>3. GateInv => GateTrue
  BY DEF GateInv, GateOK, GateTrue
<1> QED
  BY <1>1, <1>2, <1>3, TypeInvariant, PTL DEF Spec

-----------------------------------------------------------------------------
(* Whence a request comes                                                  *)

\* Where a request is when it neither counts nor has anything to save but a prefix.
Elsewhere == {"idle", "asn", "whois", "saveASN", "ptr", "host", "resolve", "done"}

\* How a step of a request leaves it.
Went(r) ==
    \/ req'[r].pc \in Elsewhere
    \/ \E kind \in Kinds, on \in IPs \cup Hosts : Begin(r, kind, on) /\ req'[r].pc = "prune"
    \/ PruneWindows(r) /\ req'[r] = [req[r] EXCEPT !.pc = "read"]
    \/ ReadCount(r) /\ req'[r] = [req[r] EXCEPT !.pc = "count"]
    \/ ReadPTR(r) /\ req'[r] = [req[r] EXCEPT !.pc = "lookup", !.at = now]
    \/ LookupPTR(r) \/ Answered(r)
    \/ \E fam \in {4, 6} : Resolve(r, fam) /\ req'[r].pc = "saveHost"

\* The ways in which a request goes elsewhere.
LEMMA GoesElsewhere ==
    ASSUME TypeInv, NEW r \in Requests
    PROVE  /\ \A gate : End(r, gate) => req'[r].pc \in Elsewhere
           /\ \A google : Gate(r, google) => req'[r].pc \in Elsewhere
           /\ NextForm(r) => req'[r].pc \in Elsewhere
           /\ Admit(r) => req'[r].pc \in Elsewhere
           /\ \A pc \in Elsewhere : Goto(r, pc) => req'[r].pc \in Elsewhere
<1>1. r \in DOMAIN req /\ req[r] \in Reqs /\ DOMAIN req = Requests
  BY DEF TypeInv, TypeOK
<1>2. ASSUME NEW gate, End(r, gate) PROVE req'[r].pc \in Elsewhere
  BY <1>1, <1>2 DEF End, Idle, Elsewhere
<1>3. ASSUME NEW google, Gate(r, google) PROVE req'[r].pc \in Elsewhere
  <2>1. CASE google /\ req[r].kind = "query"
    BY <1>1, <1>3, <2>1 DEF Gate, Reqs, Elsewhere
  <2>2. CASE ~(google /\ req[r].kind = "query")
    BY <1>2, <1>3, <2>2 DEF Gate
  <2> QED
    BY <2>1, <2>2
<1>4. ASSUME NextForm(r) PROVE req'[r].pc \in Elsewhere
  BY <1>1, <1>2, <1>4 DEF NextForm, Reqs, Elsewhere
<1>5. ASSUME Admit(r) PROVE req'[r].pc \in Elsewhere
  BY <1>1, <1>5 DEF Admit, Reqs, Elsewhere
<1>6. ASSUME NEW pc \in Elsewhere, Goto(r, pc) PROVE req'[r].pc \in Elsewhere
  BY <1>1, <1>6 DEF Goto, Reqs
<1> QED
  BY <1>2, <1>3, <1>4, <1>5, <1>6

\* What a step of one request leaves alone, and what it does to a cache or a
\* counter.
Touches(r) ==
    /\ \A q \in Requests \ {r} : req'[q] = req[q]
    /\ UNCHANGED <<now, world>>
    /\ ptr' = ptr \/ SavePTR(r)
    /\ host' = host \/ SaveHost(r)
    /\ UNCHANGED <<count, admitted>> \/ PruneWindows(r) \/ Increment(r) \/ LimiterFails(r)
    /\ Went(r)

\* A step is one of the clock, of DNS, or of one request.
LEMMA Whence ==
    ASSUME TypeInv, [Next]_vars
    PROVE  \/ UNCHANGED <<req, count, admitted, caches>>
              /\ (UNCHANGED <<now, world>> \/ Tick \/ \E ip \in IPs, v \in Values : Rename(ip, v))
           \/ \E r \in Requests : Touches(r)
<1> USE DEF caches, world
<1> DEFINE Quiet == UNCHANGED <<req, count, admitted, caches>>
                    /\ (UNCHANGED <<now, world>> \/ Tick \/ \E ip \in IPs, v \in Values : Rename(ip, v))
<1>0. req \in [Requests -> Reqs] /\ \A q \in Requests : Placed(req[q])
  BY DEF TypeInv, TypeOK
<1>o. \A r \in Requests : \A new :
        req' = [req EXCEPT ![r] = new] => req'[r] = new /\ \A q \in Requests \ {r} : req'[q] = req[q]
  BY <1>0
<1>e. ASSUME NEW r \in Requests
      PROVE  /\ \A gate : End(r, gate) => \A q \in Requests \ {r} : req'[q] = req[q]
             /\ \A google : Gate(r, google) => \A q \in Requests \ {r} : req'[q] = req[q]
             /\ NextForm(r) => \A q \in Requests \ {r} : req'[q] = req[q]
             /\ Admit(r) => \A q \in Requests \ {r} : req'[q] = req[q]
             /\ \A pc : Goto(r, pc) => \A q \in Requests \ {r} : req'[q] = req[q]
  BY <1>0 DEF End, Gate, NextForm, Admit, Goto
<1>i. Idle.pc \in Elsewhere
  BY DEF Idle, Elsewhere
<1>1. CASE UNCHANGED vars
  BY <1>1 DEF vars
<1>2. CASE Tick
  BY <1>2 DEF Tick
<1>3. ASSUME NEW ip \in IPs, NEW v \in Records[ip], Rename(ip, v) PROVE Quiet
  <2>1. v \in Values
    BY DEF Values
  <2> QED
    BY <1>3, <2>1 DEF Rename
<1>4. ASSUME NEW r \in Requests, NEW ask \in asks, Begin(r, ask[1], ask[2]) PROVE Touches(r)
  <2>1. ask[1] \in Kinds /\ ask[2] \in IPs \cup Hosts
    BY QueryAssumption DEF TypeInv, TypeOK, Kinds
  <2>2. PICK kind \in Kinds, on \in IPs \cup Hosts : Begin(r, kind, on)
    BY <1>4, <2>1
  <2> DEFINE new == [Idle EXCEPT !.pc = "prune", !.kind = kind, !.on = on, !.win = now \div Window]
  <2>3. new.pc = "prune"
    BY DEF Idle
  <2>4. req'[r] = new /\ \A q \in Requests \ {r} : req'[q] = req[q]
    BY <1>o, <2>2 DEF Begin
  <2>5. Went(r)
    BY <2>2, <2>3, <2>4 DEF Went
  <2> QED
    BY <2>2, <2>4, <2>5 DEF Begin, Touches
<1>5. ASSUME NEW r \in Requests, Handle(r) PROVE Touches(r)
  <2>1. CASE PruneWindows(r)
    BY <2>1, <1>o, <1>e DEF PruneWindows, Goto, Touches, Went
  <2>2. CASE ReadCount(r)
    BY <2>2, <1>o, <1>e, GoesElsewhere DEF ReadCount, Goto, Touches, Went
  <2>3. CASE Increment(r)
    BY <2>3, <1>e, GoesElsewhere DEF Increment, Touches, Went
  <2>4. CASE ReadASN(r)
    BY <2>4, <1>e, GoesElsewhere DEF ReadASN, Touches, Went, Elsewhere
  <2>5. CASE Whois(r)
    <3>1. CASE Gate(r, FALSE)
      BY <2>5, <3>1, <1>e, GoesElsewhere DEF Whois, Touches, Went
    <3>2. CASE req' = [req EXCEPT ![r].pc = "saveASN", ![r].at = now]
      <4>1. req'[r].pc = "saveASN" /\ \A q \in Requests \ {r} : req'[q] = req[q]
        BY <3>2, <1>0 DEF Reqs
      <4> QED
        BY <2>5, <4>1 DEF Whois, Touches, Went, Elsewhere
    <3> QED
      BY <2>5, <3>1, <3>2 DEF Whois
  <2>6. CASE SaveASN(r)
    BY <2>6, <1>e, GoesElsewhere DEF SaveASN, Touches, Went
  <2>7. CASE ReadPTR(r)
    BY <2>7, <1>0, <1>o, <1>e, GoesElsewhere DEF ReadPTR, Touches, Went
  <2>8. CASE LookupPTR(r)
    BY <2>8, <1>0 DEF LookupPTR, Touches, Went
  <2>9. CASE Answered(r)
    BY <2>9, <1>0 DEF Answered, Touches, Went
  <2>10. CASE SavePTR(r)
    BY <2>10, <1>e, GoesElsewhere DEF SavePTR, Touches, Went
  <2>11. CASE ReadHost(r)
    BY <2>11, <1>e, GoesElsewhere DEF ReadHost, Touches, Went, Elsewhere
  <2>12. ASSUME NEW fam \in {4, 6}, Resolve(r, fam) PROVE Touches(r)
    <3>1. CASE NextForm(r)
      BY <2>12, <3>1, <1>e, GoesElsewhere DEF Resolve, Touches, Went
    <3>2. CASE ~NextForm(r)
      <4>1. /\ req'[r].pc \in {"saveHost", "resolve"}
            /\ \A q \in Requests \ {r} : req'[q] = req[q]
        <5> DEFINE got == req[r].got \cup {fam}
                   pc == IF got = {4, 6} THEN "saveHost" ELSE "resolve"
                   new == [req[r] EXCEPT !.got = got, !.at = IF got = {4, 6} THEN now ELSE 0, !.pc = pc]
        <5>1. new.pc = pc
          BY <1>0 DEF Reqs
        <5>2. req' = [req EXCEPT ![r] = new]
          BY <2>12, <3>2 DEF Resolve
        <5>3. pc \in {"saveHost", "resolve"}
          OBVIOUS
        <5> HIDE DEF new, pc
        <5> QED
          BY <5>1, <5>2, <5>3, <1>o
      <4>2. Went(r)
        BY <2>12, <4>1 DEF Went, Elsewhere
      <4> QED
        BY <2>12, <4>1, <4>2 DEF Resolve, Touches
    <3> QED
      BY <3>1, <3>2
  <2>13. CASE SaveHost(r)
    BY <2>13, <1>e, GoesElsewhere DEF SaveHost, Touches, Went
  <2>14. CASE Respond(r)
    BY <2>14, <1>o, <1>i DEF Respond, Touches, Went
  <2> QED
    BY <1>5, <2>1, <2>2, <2>3, <2>4, <2>5, <2>6, <2>7, <2>8, <2>9, <2>10, <2>11, <2>12, <2>13, <2>14
       DEF Handle
<1>6. ASSUME NEW r \in Requests, Fails(r) PROVE Touches(r)
  <2>1. CASE LimiterFails(r)
    BY <2>1, <1>o, <1>e, <1>i, GoesElsewhere DEF LimiterFails, Touches, Went
  <2>2. CASE WhoisFails(r)
    BY <2>2, <1>e, GoesElsewhere DEF WhoisFails, Touches, Went
  <2>3. CASE LookupFails(r)
    BY <2>3, <1>e, GoesElsewhere DEF LookupFails, Touches, Went
  <2>4. CASE ResolveFails(r)
    BY <2>4, <1>e, GoesElsewhere DEF ResolveFails, Touches, Went
  <2>5. CASE SaveFails(r)
    BY <2>5, <1>e, GoesElsewhere DEF SaveFails, Touches, Went
  <2> QED
    BY <1>6, <2>1, <2>2, <2>3, <2>4, <2>5 DEF Fails
<1> QED
  BY <1>1, <1>2, <1>3, <1>4, <1>5, <1>6 DEF Next

-----------------------------------------------------------------------------
(* Hostnames                                                               *)

\* Both families have answered before anything is saved, and at least one has
\* addresses.
HostReady(q) == q.pc = "saveHost" => q.got = {4, 6} /\ Families[q.h] # {}

HostInv == HostComplete /\ \A r \in Requests : HostReady(req[r])

\* Every step keeps HostInv (lookupHost, resolveAndCacheHost).
LEMMA HostStep == TypeInv /\ HostInv /\ [Next]_vars => HostInv'
<1> SUFFICES ASSUME TypeInv, HostInv, [Next]_vars PROVE HostInv'
  OBVIOUS
<1>0. /\ req \in [Requests -> Reqs] /\ \A q \in Requests : Placed(req[q])
      /\ host \in [Hosts -> [fams : SUBSET {4, 6}, good : Until] \cup {NoEntry}]
  BY DEF TypeInv, TypeOK
<1>1. CASE UNCHANGED <<req, host>>
  BY <1>1 DEF HostInv, HostComplete, HostReady
<1>2. ASSUME NEW r \in Requests, Touches(r) PROVE HostInv'
  <2>1. req'[r].pc = "saveHost" => \E fam \in {4, 6} : Resolve(r, fam)
    <3>1. LookupPTR(r) \/ Answered(r) => req'[r].pc \in {"answered", "savePTR"}
      BY <1>0 DEF LookupPTR, Answered, Reqs
    <3>2. /\ [req[r] EXCEPT !.pc = "read"].pc = "read"
          /\ [req[r] EXCEPT !.pc = "count"].pc = "count"
          /\ [req[r] EXCEPT !.pc = "lookup", !.at = now].pc = "lookup"
      BY <1>0 DEF Reqs
    <3> QED
      BY <1>2, <3>1, <3>2 DEF Touches, Went, Elsewhere
  <2>2. HostReady(req'[r])
    <3> SUFFICES ASSUME req'[r].pc = "saveHost" PROVE req'[r].got = {4, 6} /\ Families[req'[r].h] # {}
      BY DEF HostReady
    <3>1. PICK fam \in {4, 6} : Resolve(r, fam)
      BY <2>1
    <3> DEFINE got == req[r].got \cup {fam}
               pc == IF got = {4, 6} THEN "saveHost" ELSE "resolve"
               new == [req[r] EXCEPT !.got = got, !.at = IF got = {4, 6} THEN now ELSE 0, !.pc = pc]
    <3>2. ~NextForm(r)
      BY GoesElsewhere DEF Elsewhere
    <3>3. req' = [req EXCEPT ![r] = new] /\ ~(got = {4, 6} /\ Families[req[r].h] = {})
      BY <3>1, <3>2 DEF Resolve
    <3>4. new.pc = pc /\ new.got = got /\ new.h = req[r].h
      BY <1>0 DEF Reqs
    <3>5. req'[r] = new
      BY <1>0, <3>3
    <3>6. got = {4, 6}
      BY <3>4, <3>5
    <3> QED
      BY <3>3, <3>4, <3>5, <3>6
  <2>3. \A q \in Requests : HostReady(req'[q])
    BY <1>2, <2>2 DEF HostInv, Touches
  <2>4. HostComplete'
    <3>1. CASE host' = host
      BY <3>1 DEF HostInv, HostComplete
    <3>2. CASE SaveHost(r)
      <4>1. req[r].got = {4, 6} /\ Families[req[r].h] # {} /\ req[r].h \in Hosts
        BY <1>0, <3>2 DEF SaveHost, HostInv, HostReady, Placed, HostPCs
      <4>2. req[r].got \cap Families[req[r].h] = Families[req[r].h]
        BY <4>1, QueryAssumption
      <4>3. host' = [host EXCEPT ![req[r].h] =
                       [fams |-> Families[req[r].h], good |-> req[r].at + Clamp(TTL)]]
        BY <3>2, <4>2 DEF SaveHost
      <4> QED
        BY <1>0, <4>1, <4>3 DEF HostInv, HostComplete
    <3> QED
      BY <1>2, <3>1, <3>2 DEF Touches
  <2> QED
    BY <2>3, <2>4 DEF HostInv
<1> QED
  BY <1>1, <1>2, Whence DEF caches

\* What is cached for a hostname is all of its addresses, and some, for any
\* hostnames and failures: an answer for one family with a failure for the other is
\* not cached (lookupHost's Promise.all, resolveAndCacheHost).
THEOREM HostSafe == Spec => []HostComplete
<1>1. Init => HostInv
  <2>1. HostReady(Idle)
    BY DEF Idle, HostReady
  <2> QED
    BY <2>1 DEF Init, HostInv, HostComplete
<1>2. HostInv => HostComplete
  BY DEF HostInv
<1> QED
  BY <1>1, <1>2, HostStep, TypeInvariant, PTL DEF Spec

-----------------------------------------------------------------------------
(* PTR records                                                             *)

\* That an address had a PTR record at that time or later.
TrueAt(ip, v, t) == dns[ip] = v \/ (ended[ip][v] >= 0 /\ ended[ip][v] >= t)

\* What a request knows of the record, and how long ago it was true: at most one
\* timeout before the answer.
Knows(q) ==
    /\ q.pc \in {"lookup", "answered"} => q.at <= now /\ now <= q.at + Timeout
    /\ q.pc = "answered" => TrueAt(q.on, q.ptr, q.at)
    /\ q.pc = "savePTR" => q.at <= now /\ TrueAt(q.on, q.ptr, q.at - Timeout)

\* A row was true at most one timeout before the moment from which its TTL counts.
RowTrue(ip) ==
    ptr[ip] # NoEntry =>
      /\ ptr[ip].good <= now + Clamp(TTL)
      /\ TrueAt(ip, ptr[ip].val, ptr[ip].good - Clamp(TTL) - Timeout)

RecentInv == (\A ip \in IPs : RowTrue(ip)) /\ \A r \in Requests : Knows(req[r])

\* No change in DNS makes what was true at a time untrue at that time.
LEMMA TrueKept ==
    ASSUME TypeInv, UNCHANGED world \/ \E ip \in IPs, v \in Values : Rename(ip, v)
    PROVE  \A ip \in IPs, v \in Values, t \in Int :
             t <= now /\ TrueAt(ip, v, t)
               => dns'[ip] = v \/ (ended'[ip][v] >= 0 /\ ended'[ip][v] >= t)
<1> TAKE ip \in IPs, v \in Values, t \in Int
<1> HAVE t <= now /\ TrueAt(ip, v, t)
<1>0. /\ now \in Nat /\ dns \in [IPs -> Values] /\ ended \in [IPs -> [Values -> -1..MaxTime]]
  BY DEF TypeInv, TypeOK, Times
<1>1. CASE UNCHANGED world
  BY <1>1 DEF world, TrueAt
<1>2. ASSUME NEW i \in IPs, NEW u \in Values, Rename(i, u)
      PROVE  dns'[ip] = v \/ (ended'[ip][v] >= 0 /\ ended'[ip][v] >= t)
  <2>1. dns' = [dns EXCEPT ![i] = u] /\ ended' = [ended EXCEPT ![i][dns[i]] = now]
    BY <1>2 DEF Rename
  <2>2. CASE i = ip /\ dns[i] = v
    <3>1. ended'[ip][v] = now
      BY <1>0, <2>1, <2>2
    <3> QED
      BY <1>0, <3>1
  <2>3. CASE i # ip
    <3>1. dns'[ip] = dns[ip] /\ ended'[ip] = ended[ip]
      BY <1>0, <2>1, <2>3
    <3> QED
      BY <3>1 DEF TrueAt
  <2>4. CASE dns[i] # v /\ i = ip
    <3>1. ended'[ip][v] = ended[ip][v]
      BY <1>0, <2>1, <2>4
    <3> QED
      BY <2>4, <3>1 DEF TrueAt
  <2> QED
    BY <2>2, <2>3, <2>4
<1> QED
  BY <1>1, <1>2

\* Every step keeps RecentInv (resolveAndCachePTR, whose checkedAt the row keeps).
LEMMA RecentStep == TypeInv /\ RecentInv /\ [Next]_vars => RecentInv'
<1> SUFFICES ASSUME TypeInv, RecentInv, [Next]_vars PROVE RecentInv'
  OBVIOUS
<1>0. /\ req \in [Requests -> Reqs] /\ (\A q \in Requests : Placed(req[q]))
      /\ ptr \in [IPs -> [val : Values, good : Until] \cup {NoEntry}]
      /\ now \in Nat /\ dns \in [IPs -> Values] /\ ended \in [IPs -> [Values -> -1..MaxTime]]
  BY DEF TypeInv, TypeOK, Times
<1>c. Clamp(TTL) \in Nat /\ Timeout \in Nat
  BY UntilType, QueryAssumption
<1>r. ASSUME NEW r \in Requests
      PROVE  /\ req[r].at \in Nat
             /\ req[r].pc \in {"lookup", "answered", "savePTR"} => req[r].on \in IPs
             /\ req[r].pc \in {"answered", "savePTR"} => req[r].ptr \in Values
  BY <1>0 DEF Reqs, Times, Placed, AddressPCs
<1>w. ASSUME NEW ip \in IPs, ptr[ip] # NoEntry PROVE ptr[ip].val \in Values /\ ptr[ip].good \in Nat
  <2>1. ptr[ip] \in [val : Values, good : Until]
    BY <1>0, <1>w
  <2>2. Until \subseteq Nat
    BY <1>c, QueryAssumption DEF Until
  <2> QED
    BY <2>1, <2>2
<1>1. CASE /\ UNCHANGED <<req, ptr, now>>
           /\ UNCHANGED world \/ \E ip \in IPs, v \in Values : Rename(ip, v)
  <2>1. \A ip \in IPs, v \in Values, t \in Int :
          t <= now /\ TrueAt(ip, v, t)
            => dns'[ip] = v \/ (ended'[ip][v] >= 0 /\ ended'[ip][v] >= t)
    BY <1>1, TrueKept
  <2>2. ASSUME NEW ip \in IPs PROVE RowTrue(ip)'
    <3> SUFFICES ASSUME ptr[ip] # NoEntry
                 PROVE  LET t == ptr[ip].good - Clamp(TTL) - Timeout
                        IN dns'[ip] = ptr[ip].val \/ (ended'[ip][ptr[ip].val] >= 0 /\ ended'[ip][ptr[ip].val] >= t)
      BY <1>1 DEF RecentInv, RowTrue, TrueAt
    <3> DEFINE t == ptr[ip].good - Clamp(TTL) - Timeout
    <3>1. t \in Int /\ t <= now /\ TrueAt(ip, ptr[ip].val, t)
      BY <1>0, <1>c, <1>w DEF RecentInv, RowTrue
    <3> QED
      BY <1>w, <2>1, <3>1
  <2>3. ASSUME NEW r \in Requests PROVE Knows(req[r])'
    <3>1. CASE req[r].pc = "answered"
      <4>1. req[r].at \in Int /\ req[r].at <= now /\ TrueAt(req[r].on, req[r].ptr, req[r].at)
        BY <1>r, <3>1 DEF RecentInv, Knows
      <4>2. \/ dns'[req[r].on] = req[r].ptr
            \/ ended'[req[r].on][req[r].ptr] >= 0 /\ ended'[req[r].on][req[r].ptr] >= req[r].at
        BY <1>r, <2>1, <3>1, <4>1
      <4> QED
        BY <1>1, <3>1, <4>2 DEF RecentInv, Knows, TrueAt
    <3>2. CASE req[r].pc = "savePTR"
      <4>1. /\ req[r].at - Timeout \in Int /\ req[r].at - Timeout <= now
            /\ TrueAt(req[r].on, req[r].ptr, req[r].at - Timeout)
        BY <1>0, <1>c, <1>r, <3>2 DEF RecentInv, Knows
      <4>2. \/ dns'[req[r].on] = req[r].ptr
            \/ /\ ended'[req[r].on][req[r].ptr] >= 0
               /\ ended'[req[r].on][req[r].ptr] >= req[r].at - Timeout
        BY <1>r, <2>1, <3>2, <4>1
      <4> QED
        BY <1>1, <3>2, <4>2 DEF RecentInv, Knows, TrueAt
    <3>3. CASE req[r].pc \notin {"answered", "savePTR"}
      BY <1>1, <3>3 DEF RecentInv, Knows
    <3> QED
      BY <3>1, <3>2, <3>3
  <2> QED
    BY <2>2, <2>3 DEF RecentInv
<1>2. CASE UNCHANGED <<req, ptr>> /\ Tick
  <2>1. now' = now + 1 /\ UNCHANGED <<req, ptr, dns, ended>>
    BY <1>2 DEF Tick, world
  <2>2. ASSUME NEW ip \in IPs PROVE RowTrue(ip)'
    <3>1. ptr[ip] # NoEntry => ptr[ip].good <= now + 1 + Clamp(TTL)
      BY <1>0, <1>c, <1>w DEF RecentInv, RowTrue
    <3> QED
      BY <2>1, <3>1 DEF RecentInv, RowTrue, TrueAt
  <2>3. ASSUME NEW r \in Requests PROVE Knows(req[r])'
    <3>1. req[r].pc \in {"lookup", "answered"} => now + 1 <= req[r].at + Timeout /\ req[r].at <= now + 1
      BY <1>0, <1>2, <1>c, <1>r DEF RecentInv, Knows, Tick
    <3>2. req[r].pc = "savePTR" => req[r].at <= now + 1
      BY <1>0, <1>r DEF RecentInv, Knows
    <3> QED
      BY <2>1, <3>1, <3>2 DEF RecentInv, Knows, TrueAt
  <2> QED
    BY <2>2, <2>3 DEF RecentInv
<1>3. ASSUME NEW r \in Requests, Touches(r) PROVE RecentInv'
  <2>0. UNCHANGED <<now, dns, ended>>
    BY <1>3 DEF Touches, world
  <2>t. \A ip, v, t : TrueAt(ip, v, t) => dns'[ip] = v \/ (ended'[ip][v] >= 0 /\ ended'[ip][v] >= t)
    BY <2>0 DEF TrueAt
  <2>1. Knows(req[r])'
    <3>1. CASE ReadPTR(r) /\ req'[r] = [req[r] EXCEPT !.pc = "lookup", !.at = now]
      <4>1. req'[r].pc = "lookup" /\ req'[r].at = now
        BY <1>0, <3>1 DEF Reqs
      <4> QED
        BY <1>0, <1>c, <2>0, <4>1 DEF Knows
    <3>2. CASE LookupPTR(r)
      <4>1. /\ req[r].pc = "lookup" /\ req'[r].pc = "answered" /\ req'[r].ptr = dns[req[r].on]
            /\ req'[r].on = req[r].on /\ req'[r].at = req[r].at
        BY <1>0, <3>2 DEF LookupPTR, QueryDoH, Reqs
      <4> QED
        BY <2>0, <4>1 DEF RecentInv, Knows, TrueAt
    <3>3. CASE Answered(r)
      <4>1. /\ req[r].pc = "answered" /\ req'[r].pc = "savePTR" /\ req'[r].at = now
            /\ req'[r].on = req[r].on /\ req'[r].ptr = req[r].ptr
        BY <1>0, <3>3 DEF Answered, Reqs
      <4>2. req[r].at \in Nat /\ now <= req[r].at + Timeout /\ TrueAt(req[r].on, req[r].ptr, req[r].at)
        BY <1>r, <4>1 DEF RecentInv, Knows
      <4>3. ended[req[r].on][req[r].ptr] \in Int
        BY <1>0, <1>r, <4>1
      <4>4. TrueAt(req[r].on, req[r].ptr, now - Timeout)
        BY <1>0, <1>c, <4>2, <4>3 DEF TrueAt
      <4> QED
        BY <1>0, <2>0, <4>1, <4>4 DEF Knows, TrueAt
    <3>4. CASE req'[r].pc \notin {"lookup", "answered", "savePTR"}
      BY <3>4 DEF Knows
    <3>5. /\ [req[r] EXCEPT !.pc = "read"].pc = "read"
          /\ [req[r] EXCEPT !.pc = "count"].pc = "count"
      BY <1>0 DEF Reqs
    <3> QED
      BY <1>3, <3>1, <3>2, <3>3, <3>4, <3>5 DEF Touches, Went, Elsewhere
  <2>2. ASSUME NEW q \in Requests \ {r} PROVE Knows(req[q])'
    <3>1. req'[q] = req[q] /\ Knows(req[q])
      BY <1>3 DEF Touches, RecentInv
    <3> QED
      BY <2>0, <3>1 DEF Knows, TrueAt
  <2>3. ASSUME NEW ip \in IPs PROVE RowTrue(ip)'
    <3>1. CASE ptr' = ptr
      BY <2>0, <3>1 DEF RecentInv, RowTrue, TrueAt
    <3>2. CASE SavePTR(r)
      <4> DEFINE row == [val |-> req[r].ptr, good |-> req[r].at + Clamp(TTL)]
      <4>1. req[r].pc = "savePTR" /\ req[r].on \in IPs /\ ptr' = [ptr EXCEPT ![req[r].on] = row]
        BY <1>r, <3>2 DEF SavePTR
      <4>2. CASE ip # req[r].on
        <5>1. ptr'[ip] = ptr[ip]
          BY <1>0, <4>1, <4>2
        <5> QED
          BY <2>0, <5>1 DEF RecentInv, RowTrue, TrueAt
      <4>3. CASE ip = req[r].on
        <5>1. ptr'[ip] = row
          BY <1>0, <4>1, <4>3
        <5>2. req[r].at <= now /\ TrueAt(ip, req[r].ptr, req[r].at - Timeout)
          BY <4>1, <4>3 DEF RecentInv, Knows
        <5>3. row.good - Clamp(TTL) - Timeout = req[r].at - Timeout /\ row.good <= now + Clamp(TTL)
          BY <1>0, <1>c, <1>r, <5>2
        <5> QED
          BY <2>0, <5>1, <5>2, <5>3 DEF RowTrue, TrueAt
      <4> QED
        BY <4>2, <4>3
    <3> QED
      BY <1>3, <3>1, <3>2 DEF Touches
  <2> QED
    BY <2>1, <2>2, <2>3 DEF RecentInv
<1>4. Tick => UNCHANGED <<req, ptr>>
  BY DEF Tick, caches
<1>5. \A ip \in IPs, v \in Values : Rename(ip, v) => UNCHANGED now
  BY DEF Rename
<1> QED
  BY <1>1, <1>2, <1>3, <1>4, <1>5, Whence DEF caches

\* A cached PTR record that is still served, or a cached absence of one, was true
\* within the TTL and one timeout, for any TTL, timeout and overlap of requests
\* (getPTR, savePTR, resolveAndCachePTR).
THEOREM RecentSafe == Spec => []ServedRecent
<1>1. Init => RecentInv
  <2>1. Knows(Idle)
    BY DEF Idle, Knows
  <2> QED
    BY <2>1 DEF Init, RecentInv, RowTrue
<1>2. TypeInv /\ RecentInv => ServedRecent
  <2> SUFFICES ASSUME TypeInv, RecentInv, NEW ip \in IPs, ptr[ip] # NoEntry, ptr[ip].good >= now
               PROVE  \/ dns[ip] = ptr[ip].val
                      \/ /\ ended[ip][ptr[ip].val] >= 0
                         /\ now - ended[ip][ptr[ip].val] <= Clamp(TTL) + Timeout
    BY DEF ServedRecent
  <2>1. ptr[ip] \in [val : Values, good : Until] /\ now \in Nat /\ ended \in [IPs -> [Values -> -1..MaxTime]]
    BY DEF TypeInv, TypeOK, Times
  <2>2. ptr[ip].good \in Int /\ ended[ip][ptr[ip].val] \in Int /\ Clamp(TTL) \in Nat /\ Timeout \in Nat
    BY <2>1, UntilType, QueryAssumption DEF Until
  <2>3. TrueAt(ip, ptr[ip].val, ptr[ip].good - Clamp(TTL) - Timeout)
    BY DEF RecentInv, RowTrue
  <2> QED
    BY <2>1, <2>2, <2>3 DEF TrueAt
<1> QED
  BY <1>1, <1>2, RecentStep, TypeInvariant, PTL DEF Spec

-----------------------------------------------------------------------------
(* The rate limit                                                          *)

\* The requests that have come so far, in that window's count.
In(f, pcs, k, w) == {r \in Requests : f[r].pc \in pcs /\ f[r].kind = k /\ f[r].win = w}

Others == Cardinality(Requests) - 1

\* While the row of a window is there it counts all that were let in, and those that
\* have read it below the limit are still to come.
Counted(k, w) ==
    /\ count[k][w] >= admitted[k][w]
    /\ admitted[k][w] + Cardinality(In(req, {"count"}, k, w)) <= Limit + Others

\* Once a request of a later window has pruned the row, only requests that began in
\* the window can still come, and the one that pruned is not one of them.
Over(k, w) ==
    /\ w < now \div Window
    /\ admitted[k][w] + Cardinality(In(req, LimiterPCs, k, w)) <= Limit + 2 * Others

LimitInv ==
    /\ \A k \in Kinds, w \in Windows : Counted(k, w) \/ Over(k, w)
    /\ \A r \in Requests : req[r].pc \in LimiterPCs => req[r].win <= now \div Window

\* Requests are finitely many and at least one.
LEMMA InFinite ==
    /\ Cardinality(Requests) \in Nat \ {0} /\ Others \in Nat
    /\ \A f, pcs, k, w : /\ IsFiniteSet(In(f, pcs, k, w))
                         /\ Cardinality(In(f, pcs, k, w)) \in Nat
                         /\ Cardinality(In(f, pcs, k, w)) <= Others + 1
<1>1. IsFiniteSet(Requests) /\ Requests # {}
  BY QueryAssumption
<1>2. Cardinality(Requests) \in Nat /\ Cardinality(Requests) # 0
  BY <1>1, FS_CardinalityType, FS_EmptySet
<1>3. Others \in Nat /\ Others + 1 = Cardinality(Requests)
  BY <1>2 DEF Others
<1>4. ASSUME NEW f, NEW pcs, NEW k, NEW w
      PROVE  /\ IsFiniteSet(In(f, pcs, k, w))
             /\ Cardinality(In(f, pcs, k, w)) \in Nat
             /\ Cardinality(In(f, pcs, k, w)) <= Others + 1
  <2>1. In(f, pcs, k, w) \in SUBSET Requests
    BY DEF In
  <2> QED
    BY <1>1, <1>3, <2>1, FS_Subset, FS_CardinalityType
<1> QED
  BY <1>2, <1>3, <1>4

\* When one request moves, those in a window change by that one at most.
LEMMA InMoves ==
    ASSUME NEW r \in Requests, NEW f, NEW g, \A q \in Requests \ {r} : g[q] = f[q],
           NEW pcs, NEW k, NEW w
    PROVE  LET A == In(f, pcs, k, w)
               B == In(g, pcs, k, w)
           IN /\ r \notin B => Cardinality(B) <= Cardinality(A)
              /\ r \in A /\ r \notin B => Cardinality(B) < Cardinality(A)
              /\ (r \in A <=> r \in B) => B = A
              /\ r \notin B => Cardinality(B) <= Others
<1> DEFINE A == In(f, pcs, k, w)
           B == In(g, pcs, k, w)
<1>0. /\ \A q : q \in A <=> q \in Requests /\ f[q].pc \in pcs /\ f[q].kind = k /\ f[q].win = w
      /\ \A q : q \in B <=> q \in Requests /\ g[q].pc \in pcs /\ g[q].kind = k /\ g[q].win = w
  BY DEF In
<1>f. /\ IsFiniteSet(A) /\ IsFiniteSet(B) /\ Cardinality(A) \in Nat /\ Cardinality(B) \in Nat
      /\ IsFiniteSet(Requests)
  BY InFinite, QueryAssumption
<1> HIDE DEF A, B
<1>1. (r \in A <=> r \in B) => B = A
  BY <1>0
<1>2. r \in A /\ r \notin B => Cardinality(B) < Cardinality(A)
  <2> SUFFICES ASSUME r \in A, r \notin B PROVE Cardinality(B) < Cardinality(A)
    OBVIOUS
  <2>1. B = A \ {r}
    BY <1>0
  <2>2. Cardinality(A \ {r}) = Cardinality(A) - 1
    BY <1>f, FS_RemoveElement
  <2> QED
    BY <1>f, <2>1, <2>2
<1>3. r \notin B => Cardinality(B) <= Others
  <2> SUFFICES ASSUME r \notin B PROVE Cardinality(B) <= Others
    OBVIOUS
  <2>1. B \in SUBSET (Requests \ {r})
    BY <1>0
  <2>2. IsFiniteSet(Requests \ {r}) /\ Cardinality(Requests \ {r}) = Cardinality(Requests) - 1
    BY <1>f, FS_RemoveElement
  <2> QED
    BY <2>1, <2>2, FS_Subset DEF Others
<1>4. r \notin B => Cardinality(B) <= Cardinality(A)
  BY <1>1, <1>2, <1>f
<1> QED
  BY <1>1, <1>2, <1>3, <1>4 DEF A, B

\* A request that leaves the limiter, counted in or not, takes its place in the
\* bound with it.
LEMMA LimitLeave ==
    ASSUME TypeInv, NEW r \in Requests, \A q \in Requests \ {r} : req'[q] = req[q],
           req'[r].pc \notin LimiterPCs, now' = now,
           NEW k \in Kinds, NEW w \in Windows, Counted(k, w) \/ Over(k, w),
           count[k][w] >= admitted[k][w] => count'[k][w] >= admitted'[k][w],
           \/ admitted'[k][w] = admitted[k][w]
           \/ admitted'[k][w] = admitted[k][w] + 1 /\ r \in In(req, {"count"}, k, w)
    PROVE  Counted(k, w)' \/ Over(k, w)'
<1> DEFINE P == Cardinality(In(req, {"count"}, k, w))
           Q == Cardinality(In(req', {"count"}, k, w))
           O == Cardinality(In(req, LimiterPCs, k, w))
           R == Cardinality(In(req', LimiterPCs, k, w))
<1>0. /\ P \in Nat /\ Q \in Nat /\ O \in Nat /\ R \in Nat /\ Others \in Nat
      /\ Limit \in Nat /\ admitted[k][w] \in Nat
  BY InFinite, QueryAssumption DEF TypeInv, TypeOK
<1>1. r \notin In(req', {"count"}, k, w) /\ r \notin In(req', LimiterPCs, k, w)
  BY DEF In, LimiterPCs
<1>2. r \in In(req, {"count"}, k, w) => r \in In(req, LimiterPCs, k, w)
  BY DEF In, LimiterPCs
<1>3. Q <= P /\ (r \in In(req, {"count"}, k, w) => Q < P)
  <2>1. Q <= P
    BY <1>1, InMoves
  <2>2. r \in In(req, {"count"}, k, w) => Q < P
    BY <1>1, InMoves
  <2> QED
    BY <2>1, <2>2
<1>4. R <= O /\ (r \in In(req, LimiterPCs, k, w) => R < O)
  <2>1. R <= O
    BY <1>1, InMoves
  <2>2. r \in In(req, LimiterPCs, k, w) => R < O
    BY <1>1, InMoves
  <2> QED
    BY <2>1, <2>2
<1>5. admitted'[k][w] + Q <= admitted[k][w] + P /\ admitted'[k][w] + R <= admitted[k][w] + O
  BY <1>0, <1>2, <1>3, <1>4
<1>6. CASE Counted(k, w)
  <2>1. admitted[k][w] + P <= Limit + Others /\ count'[k][w] >= admitted'[k][w]
    BY <1>6 DEF Counted
  <2>2. admitted'[k][w] \in Nat
    BY <1>0
  <2>3. admitted'[k][w] + Q <= Limit + Others
    BY <1>0, <1>5, <2>1, <2>2
  <2> QED
    BY <2>1, <2>3 DEF Counted
<1>7. CASE Over(k, w)
  <2>1. admitted[k][w] + O <= Limit + 2 * Others /\ w < now' \div Window
    BY <1>7 DEF Over
  <2>2. admitted'[k][w] \in Nat
    BY <1>0
  <2>3. admitted'[k][w] + R <= Limit + 2 * Others
    BY <1>0, <1>5, <2>1, <2>2
  <2> QED
    BY <2>1, <2>3 DEF Over
<1> QED
  BY <1>6, <1>7

\* Every step keeps LimitInv (checkRateLimit).
LEMMA LimitStep == TypeInv /\ LimitInv /\ [Next]_vars => LimitInv'
<1> SUFFICES ASSUME TypeInv, LimitInv, [Next]_vars PROVE LimitInv'
  OBVIOUS
<1>0. /\ req \in [Requests -> Reqs] /\ now \in Nat /\ Limit \in Nat \ {0} /\ Others \in Nat
      /\ count \in [Kinds -> [Windows -> Nat]] /\ admitted \in [Kinds -> [Windows -> Nat]]
      /\ Windows \subseteq Nat
  BY QueryAssumption, InFinite DEF TypeInv, TypeOK, Times, Windows
<1>1. CASE UNCHANGED <<req, count, admitted>> /\ (UNCHANGED now \/ Tick)
  <2>1. now' \in Nat /\ now <= now'
    BY <1>0, <1>1 DEF Tick
  <2>2. now \div Window \in Nat /\ now' \div Window \in Nat /\ now \div Window <= now' \div Window
    BY <1>0, <2>1, DivMonotone
  <2>3. \A w \in Windows : w < now \div Window => w < now' \div Window
    BY <1>0, <2>2
  <2>4. ASSUME NEW r \in Requests, req[r].pc \in LimiterPCs PROVE req[r].win <= now' \div Window
    <3>1. req[r].win \in Nat /\ req[r].win <= now \div Window
      BY <1>0, <2>4 DEF LimitInv, Reqs
    <3> QED
      BY <2>2, <3>1
  <2>5. ASSUME NEW k \in Kinds, NEW w \in Windows PROVE Counted(k, w)' \/ Over(k, w)'
    <3>1. CASE Counted(k, w)
      BY <1>1, <3>1 DEF Counted
    <3>2. CASE Over(k, w)
      BY <1>1, <2>3, <3>2 DEF Over
    <3> QED
      BY <3>1, <3>2 DEF LimitInv
  <2> QED
    BY <1>1, <2>4, <2>5 DEF LimitInv
<1>2. ASSUME NEW r \in Requests, Touches(r) PROVE LimitInv'
  <2>0. (\A q \in Requests \ {r} : req'[q] = req[q]) /\ now' = now /\ Went(r)
    BY <1>2 DEF Touches
  <2>r. req[r] \in Reqs /\ req[r].kind \in Kinds /\ req[r].win \in Windows
    BY <1>0 DEF Reqs
  <2>w. ASSUME req'[r].pc \in LimiterPCs => req'[r].win <= now \div Window,
               \A k \in Kinds, w \in Windows : Counted(k, w)' \/ Over(k, w)'
        PROVE  LimitInv'
    BY <2>0, <2>w DEF LimitInv
  <2>a. Elsewhere \cap LimiterPCs = {} /\ "count" \in LimiterPCs
    BY DEF Elsewhere, LimiterPCs
  <2>1. CASE PruneWindows(r)
    <3> DEFINE kind == req[r].kind
               win == req[r].win
    <3>1. /\ req' = [req EXCEPT ![r].pc = "read"] /\ req[r].pc = "prune"
          /\ admitted' = admitted
          /\ count' = [count EXCEPT ![kind] = [w \in Windows |-> IF Prunable(w, win) THEN 0 ELSE @[w]]]
      BY <2>1 DEF PruneWindows, Goto
    <3>2. req'[r].pc = "read" /\ req'[r].kind = kind /\ req'[r].win = win
      BY <1>0, <3>1 DEF Reqs
    <3>3. win <= now \div Window
      BY <3>1 DEF LimitInv, LimiterPCs
    <3>4. ASSUME NEW k \in Kinds, NEW w \in Windows PROVE Counted(k, w)' \/ Over(k, w)'
      <4>1. In(req', {"count"}, k, w) = In(req, {"count"}, k, w)
        <5>1. r \notin In(req', {"count"}, k, w) /\ r \notin In(req, {"count"}, k, w)
          BY <3>1, <3>2 DEF In
        <5> QED
          BY <2>0, <5>1, InMoves
      <4>2. In(req', LimiterPCs, k, w) = In(req, LimiterPCs, k, w)
        <5>1. r \in In(req', LimiterPCs, k, w) <=> r \in In(req, LimiterPCs, k, w)
          BY <3>1, <3>2 DEF In, LimiterPCs
        <5> QED
          BY <2>0, <5>1, InMoves
      <4>3. CASE Over(k, w)
        BY <2>0, <3>1, <4>2, <4>3 DEF Over
      <4>4. CASE ~(k = kind /\ w < win) /\ Counted(k, w)
        <5>1. count'[k][w] = count[k][w]
          BY <1>0, <3>1, <4>4 DEF Prunable
        <5> QED
          BY <3>1, <4>1, <4>4, <5>1 DEF Counted
      <4>5. CASE k = kind /\ w < win /\ Counted(k, w)
        <5>1. r \notin In(req', LimiterPCs, k, w)
          BY <1>0, <2>r, <3>2, <4>5 DEF In
        <5>2. Cardinality(In(req', LimiterPCs, k, w)) <= Others
          BY <2>0, <5>1, InMoves
        <5>3. admitted[k][w] + Cardinality(In(req, {"count"}, k, w)) <= Limit + Others
          BY <4>5 DEF Counted
        <5>4. /\ Cardinality(In(req', LimiterPCs, k, w)) \in Nat
              /\ Cardinality(In(req, {"count"}, k, w)) \in Nat /\ admitted[k][w] \in Nat
          BY <1>0, InFinite
        <5>5. admitted[k][w] + Cardinality(In(req', LimiterPCs, k, w)) <= Limit + 2 * Others
          BY <1>0, <5>2, <5>3, <5>4
        <5>6. now \div Window \in Nat
          BY <1>0, DivMonotone
        <5>7. w < now \div Window
          <6>1. w \in Nat /\ win \in Nat /\ w < win
            BY <1>0, <2>r, <4>5
          <6>2. \A l, m, n \in Nat : l < m /\ m <= n => l < n
            OBVIOUS
          <6> QED
            BY <3>3, <5>6, <6>1, <6>2, Zenon
        <5> QED
          BY <2>0, <3>1, <5>5, <5>7 DEF Over
      <4> QED
        BY <4>3, <4>4, <4>5 DEF LimitInv
    <3> QED
      BY <2>w, <3>2, <3>3, <3>4
  <2>2. CASE Increment(r)
    <3>1. req'[r].pc \notin LimiterPCs
      BY <2>2, <2>a, GoesElsewhere DEF Increment
    <3>2. ASSUME NEW k \in Kinds, NEW w \in Windows PROVE Counted(k, w)' \/ Over(k, w)'
      <4>0. Counted(k, w) \/ Over(k, w)
        BY DEF LimitInv
      <4>1. count' = Plus1(count, r) /\ admitted' = Plus1(admitted, r) /\ req[r].pc = "count"
        BY <2>2 DEF Increment
      <4>2. CASE k = req[r].kind /\ w = req[r].win
        <5>1. count'[k][w] = count[k][w] + 1 /\ admitted'[k][w] = admitted[k][w] + 1
          BY <1>0, <4>1, <4>2 DEF Plus1
        <5>2. r \in In(req, {"count"}, k, w)
          BY <4>1, <4>2 DEF In
        <5>3. count[k][w] \in Nat /\ admitted[k][w] \in Nat
          BY <1>0
        <5>4. count[k][w] >= admitted[k][w] => count'[k][w] >= admitted'[k][w]
          BY <5>1, <5>3
        <5> QED
          BY <2>0, <3>1, <4>0, <5>1, <5>2, <5>4, LimitLeave
      <4>3. CASE ~(k = req[r].kind /\ w = req[r].win)
        <5>1. count'[k][w] = count[k][w] /\ admitted'[k][w] = admitted[k][w]
          BY <1>0, <4>1, <4>3 DEF Plus1
        <5> QED
          BY <2>0, <3>1, <4>0, <5>1, LimitLeave
      <4> QED
        BY <4>2, <4>3
    <3> QED
      BY <2>w, <3>1, <3>2
  <2>3. CASE LimiterFails(r)
    <3>1. req'[r].pc \notin LimiterPCs
      <4>1. CASE Admit(r)
        BY <2>a, <4>1, GoesElsewhere
      <4>2. CASE req' = [req EXCEPT ![r] = Idle]
        <5>1. req'[r].pc = "idle"
          BY <1>0, <4>2 DEF Idle
        <5> QED
          BY <5>1 DEF LimiterPCs
      <4> QED
        BY <2>3, <4>1, <4>2 DEF LimiterFails
    <3>2. ASSUME NEW k \in Kinds, NEW w \in Windows PROVE Counted(k, w)' \/ Over(k, w)'
      <4>0. Counted(k, w) \/ Over(k, w)
        BY DEF LimitInv
      <4>1. count' \in {count, Plus1(count, r)} /\ admitted' = admitted
        BY <2>3 DEF LimiterFails
      <4>2. count[k][w] \in Nat /\ admitted[k][w] \in Nat
        BY <1>0
      <4>3. count'[k][w] \in {count[k][w], count[k][w] + 1}
        BY <1>0, <4>1 DEF Plus1
      <4>4. count[k][w] >= admitted[k][w] => count'[k][w] >= admitted'[k][w]
        BY <4>1, <4>2, <4>3
      <4> QED
        BY <2>0, <3>1, <4>0, <4>1, <4>4, LimitLeave
    <3> QED
      BY <2>w, <3>1, <3>2
  <2>4. CASE UNCHANGED <<count, admitted>> /\ req'[r].pc \notin LimiterPCs
    <3>1. ASSUME NEW k \in Kinds, NEW w \in Windows PROVE Counted(k, w)' \/ Over(k, w)'
      <4>1. Counted(k, w) \/ Over(k, w)
        BY DEF LimitInv
      <4> QED
        BY <2>0, <2>4, <4>1, LimitLeave
    <3> QED
      BY <2>w, <2>4, <3>1
  <2>5. ASSUME UNCHANGED <<count, admitted>>, NEW kind \in Kinds, NEW on \in IPs \cup Hosts,
               Begin(r, kind, on)
        PROVE  LimitInv'
    <3> DEFINE new == [Idle EXCEPT !.pc = "prune", !.kind = kind, !.on = on, !.win = now \div Window]
    <3>1. req[r].pc = "idle" /\ req'[r] = new
      BY <1>0, <2>5 DEF Begin
    <3>2. new.pc = "prune" /\ new.kind = kind /\ new.win = now \div Window
      BY DEF Idle
    <3>3. now \div Window \in Nat
      BY <1>0, DivMonotone
    <3> HIDE DEF new
    <3>4. ASSUME NEW k \in Kinds, NEW w \in Windows PROVE Counted(k, w)' \/ Over(k, w)'
      <4>1. CASE Counted(k, w)
        <5>1. r \notin In(req, {"count"}, k, w) /\ r \notin In(req', {"count"}, k, w)
          BY <3>1, <3>2 DEF In
        <5>2. In(req', {"count"}, k, w) = In(req, {"count"}, k, w)
          BY <2>0, <5>1, InMoves
        <5> QED
          BY <2>5, <4>1, <5>2 DEF Counted
      <4>2. CASE Over(k, w)
        <5>1. w # now \div Window
          BY <1>0, <3>3, <4>2 DEF Over
        <5>2. r \notin In(req, LimiterPCs, k, w) /\ r \notin In(req', LimiterPCs, k, w)
          BY <3>1, <3>2, <5>1 DEF In, LimiterPCs
        <5>3. In(req', LimiterPCs, k, w) = In(req, LimiterPCs, k, w)
          BY <2>0, <5>2, InMoves
        <5> QED
          BY <2>0, <2>5, <4>2, <5>3 DEF Over
      <4> QED
        BY <4>1, <4>2 DEF LimitInv
    <3>5. req'[r].win <= now \div Window
      BY <3>1, <3>2, <3>3
    <3> QED
      BY <2>w, <3>4, <3>5
  <2>6. CASE UNCHANGED <<count, admitted>> /\ ReadCount(r) /\ req'[r] = [req[r] EXCEPT !.pc = "count"]
    <3> DEFINE kind == req[r].kind
               win == req[r].win
    <3>1. req'[r].pc = "count" /\ req'[r].kind = kind /\ req'[r].win = win
      BY <2>6, <1>0 DEF Reqs
    <3>2. req[r].pc = "read" /\ count[kind][win] < Limit
      <4>1. ~OverLimit(count[kind][win])
        <5> SUFFICES ASSUME OverLimit(count[kind][win]) PROVE FALSE
          OBVIOUS
        <5>1. End(r, "limited")
          BY <2>6 DEF ReadCount
        <5> QED
          BY <3>1, <5>1, <2>a, GoesElsewhere
      <4>2. count[kind][win] \in Nat
        BY <1>0, <2>r
      <4> QED
        BY <1>0, <2>6, <4>1, <4>2 DEF ReadCount, OverLimit
    <3>3. win <= now \div Window
      BY <3>2 DEF LimitInv, LimiterPCs
    <3>4. ASSUME NEW k \in Kinds, NEW w \in Windows PROVE Counted(k, w)' \/ Over(k, w)'
      <4>1. CASE Over(k, w)
        <5>1. r \in In(req', LimiterPCs, k, w) <=> r \in In(req, LimiterPCs, k, w)
          BY <3>1, <3>2 DEF In, LimiterPCs
        <5>2. In(req', LimiterPCs, k, w) = In(req, LimiterPCs, k, w)
          BY <2>0, <5>1, InMoves
        <5> QED
          BY <2>0, <2>6, <4>1, <5>2 DEF Over
      <4>2. CASE Counted(k, w) /\ ~(k = kind /\ w = win)
        <5>1. r \notin In(req, {"count"}, k, w) /\ r \notin In(req', {"count"}, k, w)
          BY <3>1, <4>2 DEF In
        <5>2. In(req', {"count"}, k, w) = In(req, {"count"}, k, w)
          BY <2>0, <5>1, InMoves
        <5> QED
          BY <2>6, <4>2, <5>2 DEF Counted
      <4>3. CASE Counted(k, w) /\ k = kind /\ w = win
        <5>1. count[k][w] >= admitted[k][w] /\ count[k][w] < Limit
          BY <3>2, <4>3 DEF Counted
        <5>2. /\ Cardinality(In(req', {"count"}, k, w)) \in Nat
              /\ Cardinality(In(req', {"count"}, k, w)) <= Others + 1
          BY InFinite
        <5>3. count[k][w] \in Nat /\ admitted[k][w] \in Nat
          BY <1>0
        <5>4. admitted[k][w] + Cardinality(In(req', {"count"}, k, w)) <= Limit + Others
          BY <1>0, <5>1, <5>2, <5>3
        <5> QED
          BY <2>6, <5>1, <5>4 DEF Counted
      <4> QED
        BY <4>1, <4>2, <4>3 DEF LimitInv
    <3> QED
      BY <2>w, <3>1, <3>3, <3>4
  <2>7. Went(r) => \/ req'[r].pc \notin LimiterPCs
                   \/ \E kind \in Kinds, on \in IPs \cup Hosts : Begin(r, kind, on)
                   \/ PruneWindows(r)
                   \/ ReadCount(r) /\ req'[r] = [req[r] EXCEPT !.pc = "count"]
    <3>1. LookupPTR(r) \/ Answered(r) => req'[r].pc \in {"answered", "savePTR"}
      BY <1>0 DEF LookupPTR, Answered, Reqs
    <3>2. [req[r] EXCEPT !.pc = "lookup", !.at = now].pc = "lookup"
      BY <1>0 DEF Reqs
    <3> QED
      BY <2>a, <3>1, <3>2 DEF Went, LimiterPCs
  <2>8. PruneWindows(r) \/ Increment(r) \/ LimiterFails(r) \/ UNCHANGED <<count, admitted>>
    BY <1>2 DEF Touches
  <2> QED
    BY <2>0, <2>1, <2>2, <2>3, <2>4, <2>5, <2>6, <2>7, <2>8
<1>3. \A ip \in IPs, v \in Values : Rename(ip, v) => UNCHANGED now
  BY DEF Rename
<1> QED
  BY <1>1, <1>2, <1>3, Whence

\* How far the limit is exceeded, for any number of requests under way, any limit
\* and any windows: each of the other requests may have read the count before it
\* reached the limit; and when the window ends, each may find its row pruned
\* (checkRateLimit).
THEOREM LimitSafe == Spec => []LimitExcess
<1>1. Init => LimitInv
  <2> SUFFICES ASSUME Init PROVE LimitInv
    OBVIOUS
  <2>1. Limit \in Nat /\ Others \in Nat
    BY QueryAssumption, InFinite
  <2>2. \A r \in Requests : req[r].pc = "idle"
    BY DEF Init, Idle
  <2>3. ASSUME NEW k \in Kinds, NEW w \in Windows PROVE Counted(k, w)
    <3>1. count[k][w] = 0 /\ admitted[k][w] = 0
      BY DEF Init
    <3>2. In(req, {"count"}, k, w) = {}
      BY <2>2 DEF In
    <3>3. Cardinality(In(req, {"count"}, k, w)) = 0
      BY <3>2, FS_EmptySet
    <3> QED
      BY <2>1, <3>1, <3>3 DEF Counted
  <2> QED
    BY <2>2, <2>3 DEF LimitInv, LimiterPCs
<1>2. TypeInv /\ LimitInv => LimitExcess
  <2> SUFFICES ASSUME TypeInv, LimitInv, NEW k \in Kinds, NEW w \in Windows
               PROVE  admitted[k][w] <= Limit + 2 * Others
    BY DEF LimitExcess, Others
  <2>1. /\ Limit \in Nat /\ Others \in Nat /\ admitted[k][w] \in Nat
        /\ Cardinality(In(req, {"count"}, k, w)) \in Nat /\ Cardinality(In(req, LimiterPCs, k, w)) \in Nat
    BY QueryAssumption, InFinite DEF TypeInv, TypeOK
  <2>2. CASE Counted(k, w)
    <3>1. admitted[k][w] + Cardinality(In(req, {"count"}, k, w)) <= Limit + Others
      BY <2>2 DEF Counted
    <3> QED
      BY <2>1, <3>1
  <2>3. CASE Over(k, w)
    <3>1. admitted[k][w] + Cardinality(In(req, LimiterPCs, k, w)) <= Limit + 2 * Others
      BY <2>3 DEF Over
    <3> QED
      BY <2>1, <3>1
  <2> QED
    BY <2>2, <2>3 DEF LimitInv
<1> QED
  BY <1>1, <1>2, LimitStep, TypeInvariant, PTL DEF Spec

=============================================================================
