------------------------------- MODULE Query --------------------------------
(***************************************************************************)
(* What a visitor triggers: GET /query (functions/query.ts) and the gates  *)
(* of POST /check (functions/check.ts), with the rate limiter and the      *)
(* three lookups behind them, each a cache in D1 in front of DNS: the      *)
(* origin AS of an address, its PTR record, and the addresses of a         *)
(* hostname and its sibling (src/dnsCache.ts, src/resolver.ts, src/asn.ts, *)
(* src/doh.ts, and their tables in src/store.ts).                          *)
(*                                                                         *)
(* Every statement and every lookup is a step of its own and may fail.     *)
(* What becomes of a probe is in Store and what the page does next in      *)
(* HistorySync.                                                            *)
(*                                                                         *)
(* The clock has a coarse unit: a rate limit window and the TTL floor are  *)
(* a few units, and a lookup takes at most Timeout; a statement may take   *)
(* any time.  One client: counters of different clients are different      *)
(* rows.  A route stands for an announced prefix, and longer ones are more *)
(* specific.                                                               *)
(*                                                                         *)
(* A definition placed before another whose name it extends is a faulty    *)
(* variant of it; no specification uses it.                                *)
(***************************************************************************)
EXTENDS Integers, FiniteSets

CONSTANTS
    IPs, Hosts,     \* addresses, hostnames
    Sibling,        \* siblingHostname
    Families,       \* per hostname: the families it has addresses in
    Routes,         \* announced prefixes: length, addresses, whether Google's
    Records, None,  \* per address: what its PTR record may be, None for no record
    NoEntry,        \* a cache has no row
    Visitors,       \* what a visitor may ask for: to query or to probe, and what
    Requests,       \* slots for requests under way at the same time
    Limit, Window,  \* the rate limit, and the length of its windows
    TTL, MinTTL,    \* the TTL of DNS answers, and MIN_CACHE_TTL_SECONDS
    Timeout,        \* PTR_TIMEOUT_MS
    MaxTime,        \* bound on the clock
    MaxRenames,     \* bound on changes of PTR records
    MaxFaults       \* bound on failing statements and lookups

ASSUME QueryAssumption ==
    /\ Sibling \in [Hosts -> Hosts \cup {None}]
    /\ Families \in [Hosts -> SUBSET {4, 6}]
    /\ Routes \subseteq [len : 0..128, ips : SUBSET IPs, google : BOOLEAN]
    /\ \A ip \in IPs : \E route \in Routes : ip \in route.ips
    /\ \A v \in Visitors : v \subseteq ({"query", "probe"} \X IPs) \cup ({"query"} \X Hosts)
    /\ IsFiniteSet(Requests) /\ Requests # {}
    /\ {Limit, Window} \subseteq Nat \ {0}
    /\ {TTL, MinTTL, Timeout, MaxTime, MaxRenames, MaxFaults} \subseteq Nat

VARIABLES
    asks,      \* what the visitor of this behaviour asks for, over and over
    now,       \* the clock
    count,     \* check_rate_limit: per kind and window, 0 for no row
    asn,       \* asn_cache: per route, the last moment its row is good for
    ptr,       \* ptr_cache
    host,      \* host_cache: of a hostname's addresses, their families
    dns,       \* the PTR record that each address has
    req,       \* the request in each slot
    renames,   \* changes of PTR records so far
    faults,    \* failures so far
    admitted,  \* for the properties: requests counted in, per kind and window
    ended      \* for the properties: when a PTR record ceased to be what it was

caches == <<asn, ptr, host>>
world == <<dns, renames, ended>>
vars == <<asks, now, count, admitted, caches, world, req, faults>>

Kinds == {"query", "probe"}
Times == 0..MaxTime
Windows == 0..(MaxTime \div Window)
Values == UNION {Records[ip] : ip \in IPs}

\* clampTTL
Clamp(ttl) == IF ttl < MinTTL THEN MinTTL ELSE ttl

Until == 0..(MaxTime + Clamp(TTL))

PCs == {"idle", "prune", "read", "count", "asn", "whois", "saveASN", "ptr", "lookup", "answered",
        "savePTR", "host", "resolve", "saveHost", "done"}

\* on: the address or hostname asked for; h: the hostname being resolved; win: the
\* rate limit window; at: when the PTR lookup began, then checkedAt of what is to be
\* saved; got: the families that have answered; ptr: the PTR record to be saved;
\* gate: what the gates said
Reqs == [pc : PCs, kind : Kinds, on : IPs \cup Hosts \cup {None}, h : Hosts \cup {None},
         win : Windows, at : Times, got : SUBSET {4, 6}, ptr : Values \cup {None},
         gate : {"-", "limited", "unverified", "foreign", "passed"}]

Idle == [pc |-> "idle", kind |-> "query", on |-> None, h |-> None, win |-> 0, at |-> 0,
         got |-> {}, ptr |-> None, gate |-> "-"]

TypeOK ==
    /\ asks \in Visitors
    /\ now \in Times
    /\ count \in [Kinds -> [Windows -> Nat]]
    /\ asn \in [Routes -> Until \cup {NoEntry}]
    /\ ptr \in [IPs -> [val : Values, good : Until] \cup {NoEntry}]
    /\ host \in [Hosts -> [fams : SUBSET {4, 6}, good : Until] \cup {NoEntry}]
    /\ dns \in [IPs -> Values] /\ \A ip \in IPs : dns[ip] \in Records[ip]
    /\ req \in [Requests -> Reqs]
    /\ renames \in 0..MaxRenames
    /\ faults \in 0..MaxFaults
    /\ admitted \in [Kinds -> [Windows -> Nat]]
    /\ ended \in [IPs -> [Values -> -1..MaxTime]]

Init ==
    /\ asks \in Visitors
    /\ now = 0
    /\ count = [k \in Kinds |-> [w \in Windows |-> 0]]
    /\ asn = [route \in Routes |-> NoEntry]
    /\ ptr = [ip \in IPs |-> NoEntry]
    /\ host = [h \in Hosts |-> NoEntry]
    /\ dns \in {d \in [IPs -> Values] : \A ip \in IPs : d[ip] \in Records[ip]}
    /\ req = [r \in Requests |-> Idle]
    /\ renames = 0
    /\ faults = 0
    /\ admitted = count
    /\ ended = [ip \in IPs |-> [v \in Values |-> -1]]

-----------------------------------------------------------------------------
(* Time, and changes in DNS                                                *)

\* A PTR lookup that takes longer than its timeout is aborted.
Tick ==
    /\ now < MaxTime
    /\ \A r \in Requests : req[r].pc \in {"lookup", "answered"} => now < req[r].at + Timeout
    /\ now' = now + 1
    /\ UNCHANGED <<count, admitted, caches, world, req, faults>>

Rename(ip, v) ==
    /\ renames < MaxRenames
    /\ v # dns[ip]
    /\ renames' = renames + 1
    /\ dns' = [dns EXCEPT ![ip] = v]
    /\ ended' = [ended EXCEPT ![ip][dns[ip]] = now]
    /\ UNCHANGED <<now, count, admitted, caches, req, faults>>

-----------------------------------------------------------------------------
(* The rate limit: checkRateLimit                                          *)

Goto(r, pc) == req' = [req EXCEPT ![r].pc = pc]

End(r, gate) ==
    req' = [req EXCEPT ![r] = [Idle EXCEPT !.pc = "done", !.on = req[r].on, !.gate = gate]]

Fault ==
    /\ faults < MaxFaults
    /\ faults' = faults + 1

\* A valid address or hostname is asked for, or an address is to be probed.
Begin(r, kind, on) ==
    /\ req[r].pc = "idle"
    /\ req' = [req EXCEPT ![r] = [Idle EXCEPT !.pc = "prune", !.kind = kind, !.on = on,
                                              !.win = now \div Window]]
    /\ UNCHANGED <<now, count, admitted, caches, world, faults>>

\* rows of earlier windows
Prunable(w, win) == w < win

PruneWindows(r) ==
    /\ req[r].pc = "prune"
    /\ count' = [count EXCEPT ![req[r].kind] =
                   [w \in Windows |-> IF Prunable(w, req[r].win) THEN 0 ELSE @[w]]]
    /\ Goto(r, "read")
    /\ UNCHANGED <<now, admitted, caches, world, faults>>

OverLimitLate(n) == n > Limit

OverLimit(n) == n >= Limit

ReadCount(r) ==
    /\ req[r].pc = "read"
    /\ IF OverLimit(count[req[r].kind][req[r].win])
       THEN End(r, "limited")
       ELSE Goto(r, "count")
    /\ UNCHANGED <<now, count, admitted, caches, world, faults>>

Plus1(f, r) == [f EXCEPT ![req[r].kind][req[r].win] = @ + 1]

Admit(r) ==
    req' = [req EXCEPT ![r].win = 0,
                       ![r].pc = IF req[r].on \in Hosts THEN "host" ELSE "asn",
                       ![r].h = IF req[r].on \in Hosts THEN req[r].on ELSE None]

Increment(r) ==
    /\ req[r].pc = "count"
    /\ count' = Plus1(count, r)
    /\ admitted' = Plus1(admitted, r)
    /\ Admit(r)
    /\ UNCHANGED <<now, caches, world, faults>>

\* The query page goes on without the limiter; a probe ends with an error.
LimiterFails(r) ==
    /\ req[r].pc \in {"prune", "read", "count"}
    /\ Fault
    /\ IF req[r].kind = "query" THEN Admit(r) ELSE req' = [req EXCEPT ![r] = Idle]
    /\ count' \in IF req[r].pc = "count" THEN {count, Plus1(count, r)} ELSE {count}
    /\ UNCHANGED <<now, admitted, caches, world>>

-----------------------------------------------------------------------------
(* The gate: lookupGoogleASN                                               *)

Longest(routes) == CHOOSE x \in routes : \A y \in routes : y.len <= x.len

Origin(ip) == Longest({route \in Routes : ip \in route.ips})

\* A foreign address ends here, and so does what is to be probed.
Gate(r, google) ==
    IF google /\ req[r].kind = "query"
    THEN req' = [req EXCEPT ![r].pc = "ptr", ![r].gate = "passed"]
    ELSE End(r, IF google THEN "passed" ELSE "foreign")

\* the cached prefixes that contain the address
HitsAnywhere(ip) == {route \in Routes : asn[route] # NoEntry}

Hits(ip) == {route \in Routes : ip \in route.ips /\ asn[route] # NoEntry}

\* getASN: the most specific of them, if its row is still good
ReadASN(r) ==
    /\ req[r].pc = "asn"
    /\ LET hits == Hits(req[r].on)
       IN IF hits # {} /\ asn[Longest(hits)] >= now
          THEN Gate(r, Longest(hits).google)
          ELSE Goto(r, "whois")
    /\ UNCHANGED <<now, count, admitted, caches, world, faults>>

\* lookupASN: the two TXT records of the address's origin.  Only Google's
\* prefixes are cached.
Whois(r) ==
    /\ req[r].pc = "whois"
    /\ IF Origin(req[r].on).google
       THEN req' = [req EXCEPT ![r].pc = "saveASN", ![r].at = now]
       ELSE Gate(r, FALSE)
    /\ UNCHANGED <<now, count, admitted, caches, world, faults>>

SaveASN(r) ==
    /\ req[r].pc = "saveASN"
    /\ asn' = [asn EXCEPT ![Origin(req[r].on)] = req[r].at + Clamp(TTL)]
    /\ Gate(r, TRUE)
    /\ UNCHANGED <<now, count, admitted, ptr, host, world, faults>>

\* What cannot be looked up is neither let in nor called foreign.
UnverifiedNull == None

Unverified == "unverified"

WhoisFails(r) ==
    /\ req[r].pc \in {"asn", "whois"}
    /\ Fault
    /\ End(r, Unverified)
    /\ UNCHANGED <<now, count, admitted, caches, world>>

-----------------------------------------------------------------------------
(* The PTR record: lookupIPQuery, resolveAndCachePTR                       *)

ReadPTR(r) ==
    /\ req[r].pc = "ptr"
    /\ LET row == ptr[req[r].on]
       IN IF row # NoEntry /\ row.good >= now
          THEN End(r, "passed")
          ELSE req' = [req EXCEPT ![r].pc = "lookup", ![r].at = now]
    /\ UNCHANGED <<now, count, admitted, caches, world, faults>>

\* queryDoH: NXDOMAIN is an answer, any other failure an exception
QueryDoH(ip) == dns[ip]

\* The resolver answers, and some time later the answer is there.
LookupPTR(r) ==
    /\ req[r].pc = "lookup"
    /\ req' = [req EXCEPT ![r].pc = "answered", ![r].ptr = QueryDoH(req[r].on)]
    /\ UNCHANGED <<now, count, admitted, caches, world, faults>>

Answered(r) ==
    /\ req[r].pc = "answered"
    /\ req' = [req EXCEPT ![r].pc = "savePTR", ![r].at = now]
    /\ UNCHANGED <<now, count, admitted, caches, world, faults>>

\* What is cached is good from the answer on, whenever it is saved.  An address
\* without a PTR record is cached as well.
SavePTRLate(r) ==
    /\ req[r].pc = "savePTR"
    /\ ptr' = [ptr EXCEPT ![req[r].on] = [val |-> req[r].ptr, good |-> now + Clamp(TTL)]]
    /\ End(r, "passed")
    /\ UNCHANGED <<now, count, admitted, asn, host, world, faults>>

SavePTR(r) ==
    /\ req[r].pc = "savePTR"
    /\ ptr' = [ptr EXCEPT ![req[r].on] = [val |-> req[r].ptr, good |-> req[r].at + Clamp(TTL)]]
    /\ End(r, "passed")
    /\ UNCHANGED <<now, count, admitted, asn, host, world, faults>>

LookupFails(r) ==
    /\ req[r].pc \in {"ptr", "lookup", "answered"}
    /\ Fault
    /\ End(r, "passed")
    /\ UNCHANGED <<now, count, admitted, caches, world>>

-----------------------------------------------------------------------------
(* Hostnames: lookupHostnameQuery, resolveAndCacheHost                     *)

\* On to the sibling, and then to the page.
NextForm(r) ==
    IF req[r].h = req[r].on /\ Sibling[req[r].on] # None
    THEN req' = [req EXCEPT ![r].pc = "host", ![r].h = Sibling[req[r].on], ![r].got = {}]
    ELSE End(r, "-")

ReadHost(r) ==
    /\ req[r].pc = "host"
    /\ LET row == host[req[r].h]
       IN IF row # NoEntry /\ row.good >= now THEN NextForm(r) ELSE Goto(r, "resolve")
    /\ UNCHANGED <<now, count, admitted, caches, world, faults>>

\* lookupHost: A and AAAA records are asked for at once, and both are waited for;
\* a hostname without addresses is not cached.
Resolve(r, fam) ==
    /\ req[r].pc = "resolve"
    /\ fam \notin req[r].got
    /\ LET got == req[r].got \cup {fam}
       IN IF got = {4, 6} /\ Families[req[r].h] = {}
          THEN NextForm(r)
          ELSE req' = [req EXCEPT ![r].got = got,
                                  ![r].at = IF got = {4, 6} THEN now ELSE 0,
                                  ![r].pc = IF got = {4, 6} THEN "saveHost" ELSE "resolve"]
    /\ UNCHANGED <<now, count, admitted, caches, world, faults>>

SaveHost(r) ==
    /\ req[r].pc = "saveHost"
    /\ host' = [host EXCEPT ![req[r].h] =
                  [fams |-> req[r].got \cap Families[req[r].h], good |-> req[r].at + Clamp(TTL)]]
    /\ NextForm(r)
    /\ UNCHANGED <<now, count, admitted, asn, ptr, world, faults>>

\* Either lookup failing fails the form, and only the form.
ResolveFailsPartly(r) ==
    /\ req[r].pc \in {"host", "resolve"}
    /\ Fault
    /\ Goto(r, "saveHost")
    /\ UNCHANGED <<now, count, admitted, caches, world>>

ResolveFails(r) ==
    /\ req[r].pc \in {"host", "resolve"}
    /\ Fault
    /\ NextForm(r)
    /\ UNCHANGED <<now, count, admitted, caches, world>>

\* Nobody but the log hears of a failure to save.
SaveFails(r) ==
    /\ Fault
    /\ \/ req[r].pc = "saveASN" /\ Gate(r, TRUE)
       \/ req[r].pc = "savePTR" /\ End(r, "passed")
       \/ req[r].pc = "saveHost" /\ NextForm(r)
    /\ UNCHANGED <<now, count, admitted, caches, world>>

\* The page, with ipStatusFor if an address passed; or on to the probe.
Respond(r) ==
    /\ req[r].pc = "done"
    /\ req' = [req EXCEPT ![r] = Idle]
    /\ UNCHANGED <<now, count, admitted, caches, world, faults>>

-----------------------------------------------------------------------------
Handle(r) ==
    \/ PruneWindows(r) \/ ReadCount(r) \/ Increment(r)
    \/ ReadASN(r) \/ Whois(r) \/ SaveASN(r)
    \/ ReadPTR(r) \/ LookupPTR(r) \/ Answered(r) \/ SavePTR(r)
    \/ ReadHost(r) \/ (\E fam \in {4, 6} : Resolve(r, fam)) \/ SaveHost(r)
    \/ Respond(r)

Fails(r) ==
    LimiterFails(r) \/ WhoisFails(r) \/ LookupFails(r) \/ ResolveFails(r) \/ SaveFails(r)

Next ==
    /\ \/ Tick
       \/ \E ip \in IPs : \E v \in Records[ip] : Rename(ip, v)
       \/ \E r \in Requests, ask \in asks : Begin(r, ask[1], ask[2])
       \/ \E r \in Requests : Handle(r) \/ Fails(r)
    /\ UNCHANGED asks

Spec == Init /\ [][Next]_vars

-----------------------------------------------------------------------------
(* Properties                                                              *)

\* How far the limit is exceeded, whatever overlaps.  Each of the other requests
\* under way may have read the count before it reached the limit; and when the
\* window ends, each may find its row pruned by a request of the next window
\* (checkRateLimit, whose comment knows the first of these).
LimitExcess ==
    \A k \in Kinds, w \in Windows :
      admitted[k][w] <= Limit + 2 * (Cardinality(Requests) - 1)

\* What the gates say is true: neither a failed lookup nor a cached prefix lets a
\* foreign address through to the check history or to the probe, and neither
\* makes one of Google's foreign (lookupGoogleASN, isGoogleASN, and the comment in
\* onRequestGet on failing open and closed).
GateTrue ==
    \A r \in Requests :
      req[r].gate \in {"passed", "foreign"} => (req[r].gate = "passed" <=> Origin(req[r].on).google)

\* A cached PTR record that is still served, or a cached absence of one, was true
\* within the TTL and one timeout: two requests that overlap can cache an old
\* answer over a new one, and a save can be slow, but neither keeps it for longer;
\* and a failed lookup is never cached as "no PTR record" (getPTR, savePTR,
\* resolveAndCachePTR).
ServedRecent ==
    \A ip \in IPs :
      ptr[ip] # NoEntry /\ ptr[ip].good >= now =>
        LET v == ptr[ip].val
        IN \/ dns[ip] = v
           \/ ended[ip][v] >= 0 /\ now - ended[ip][v] <= Clamp(TTL) + Timeout

\* What is cached for a hostname is all of its addresses, and some: an answer for
\* one family with a failure for the other is not cached (lookupHost's
\* Promise.all, resolveAndCacheHost).
HostComplete ==
    \A h \in Hosts : host[h] # NoEntry => host[h].fams = Families[h] /\ Families[h] # {}

=============================================================================
