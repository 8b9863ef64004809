----------------------------- MODULE PTRRefresh -----------------------------
(***************************************************************************)
(* The round-robin PTR refresh: runPTRRefresh of src/ptrRefresh.ts, which  *)
(* every ingest starts.  It selects the pool addresses that are due, asks  *)
(* for their names on one TCP connection, all at once, takes the answers   *)
(* as they come, and saves the definitive ones in chunks.                  *)
(*                                                                         *)
(* Refreshes overlap with each other, with names saved by the query page,  *)
(* and with insertions into and deletions from the pool.  Answers come in  *)
(* any order, repeatedly or not at all; connections break and requests     *)
(* die.                                                                    *)
(*                                                                         *)
(* Of ptr_checked_at only the order counts and whether it is NULL or more  *)
(* than 30 days old.  Of an answer only whether it has a name counts, and  *)
(* which address was asked about.                                          *)
(*                                                                         *)
(* A definition placed before another whose name it extends is a faulty    *)
(* variant of it; no specification uses it.                                *)
(***************************************************************************)
EXTENDS Integers, SequencesExt

CONSTANTS
    IPs,         \* addresses
    Named,       \* those that have a PTR record
    Refused,     \* those whose reverse zone the resolver does not serve
    NoEntry,     \* "ptr_cache has no row for this address"
    Refreshes,   \* slots for refreshes under way at the same time
    Limit,       \* BATCH_LIMIT
    Chunk,       \* PTR_BATCH_CHUNK
    IdSpace,     \* number of DNS message ids, 65536
    MaxAdds,     \* bound on insertions into the pool
    MaxFaults    \* bound on failures

ASSUME PTRAssumption ==
    /\ IsFiniteSet(IPs)
    /\ Named \subseteq IPs
    /\ Refused \subseteq IPs
    /\ Cardinality(Refused) < Limit
    /\ {Limit, Chunk} \subseteq Nat \ {0}
    /\ IdSpace \in Nat /\ Limit < IdSpace
    /\ {MaxAdds, MaxFaults} \subseteq Nat

VARIABLES
    unchecked,  \* pool addresses with ptr_checked_at NULL, in the order of rowid
    line,       \* the other pool addresses, the longest unchecked first
    due,        \* how many at the front of line are older than 30 days
    cache,      \* ptr_cache
    run,        \* the refresh in each slot
    adds,       \* insertions so far
    faults      \* failures so far

poolVars == <<unchecked, line, due>>
vars == <<poolVars, cache, run, adds, faults>>

Answers == [of : IPs, named : BOOLEAN]

ASSUME PTRNoEntryAssumption == NoEntry \notin Answers

\* rcode 0 or 3 with or without a name, or another rcode
Kinds == {"name", "none", "error"}

\* A result is kept under the address that the message id stands for.
Results == [ip : IPs, of : IPs, kind : Kinds]

\* asked: idToIP, the position is the id; got: results; left: entries not yet
\* saved
Runs == [pc : {"idle", "stale", "read", "save"}, asked : Seq(IPs),
         got : SUBSET Results, left : SUBSET Results]

Idle == [pc |-> "idle", asked |-> <<>>, got |-> {}, left |-> {}]

TypeOK ==
    /\ unchecked \in Seq(IPs) /\ line \in Seq(IPs)
    /\ IsInjective(unchecked \o line)
    /\ due \in 0..Len(line)
    /\ cache \in [IPs -> Answers \cup {NoEntry}]
    /\ run \in [Refreshes -> Runs]
    /\ \A r \in Refreshes : Len(run[r].asked) <= Limit /\ IsInjective(run[r].asked)
    /\ adds \in 0..MaxAdds
    /\ faults \in 0..MaxFaults

Init ==
    /\ unchecked = <<>>
    /\ line = <<>>
    /\ due = 0
    /\ cache = [ip \in IPs |-> NoEntry]
    /\ run = [r \in Refreshes |-> Idle]
    /\ adds = 0
    /\ faults = 0

InPool == ToSet(unchecked) \cup ToSet(line)

\* The elements of s that are not in S, in their order: the k-th is the one with
\* k of them up to its position.
Without(s, S) ==
    LET kept == {i \in DOMAIN s : s[i] \notin S}
        rank(i) == Cardinality({j \in kept : j <= i})
    IN [k \in 1..Cardinality(kept) |-> s[CHOOSE i \in kept : rank(i) = k]]

-----------------------------------------------------------------------------
(* pendingIPsForPTRRefresh                                                 *)

FirstOf(s, n) == SubSeq(s, 1, IF n < Len(s) THEN n ELSE Len(s))

\* The second statement is left out when the first has filled the batch.
AfterNullAny == IF unchecked # <<>> THEN "read" ELSE "stale"

AfterNull == IF Len(unchecked) >= Limit THEN "read" ELSE "stale"

\* An ingest starts a refresh, whose first statement this is.
SelectNull(r) ==
    /\ run[r].pc = "idle"
    /\ run' = [run EXCEPT ![r].asked = FirstOf(unchecked, Limit),
                          ![r].pc = AfterNull]
    /\ UNCHANGED <<poolVars, cache, adds, faults>>

RoomAlways(r) == Limit

Room(r) == Limit - Len(run[r].asked)

\* Nothing to ask, nothing to do.
SelectStale(r) ==
    /\ run[r].pc = "stale"
    /\ LET asked == run[r].asked \o FirstOf(SubSeq(line, 1, due), Room(r))
       IN run' = [run EXCEPT ![r] = IF asked = <<>> THEN Idle
                                    ELSE [@ EXCEPT !.pc = "read", !.asked = asked]]
    /\ UNCHANGED <<poolVars, cache, adds, faults>>

-----------------------------------------------------------------------------
(* pipelinePTRQueries                                                      *)

\* the id of the k-th query, 16 bits on the wire
IdOfZero(k) == (k - 1) % IdSpace

IdOf(k) == k % IdSpace

Fault ==
    /\ faults < MaxFaults
    /\ faults' = faults + 1

Truth(ip) == IF ip \in Refused THEN "error" ELSE IF ip \in Named THEN "name" ELSE "none"

\* The answer to the k-th query arrives, for the first time or again.  It says
\* the truth or, once in a while, SERVFAIL.
Receive(r, k, kind) ==
    /\ run[r].pc = "read"
    /\ k \in DOMAIN run[r].asked
    /\ IF kind = Truth(run[r].asked[k]) THEN UNCHANGED faults ELSE Fault /\ kind = "error"
    /\ LET id == IdOf(k)
           ip == run[r].asked[id]
       IN IF id \notin DOMAIN run[r].asked THEN UNCHANGED run
          ELSE run' = [run EXCEPT ![r].got =
                 {g \in @ : g.ip # ip} \cup {[ip |-> ip, of |-> run[r].asked[k], kind |-> kind]}]
    /\ UNCHANGED <<poolVars, cache, adds>>

\* The loop ends when there are as many results as queries.
AllAnswered(r) == Cardinality(run[r].got) = Len(run[r].asked)

\* rcode 0 and 3 are definitive; the rest is left for the next run.
Definitive(got) == {g \in got : g.kind # "error"}

Finish(r) ==
    LET left == Definitive(run[r].got)
    IN run' = [run EXCEPT ![r] = IF left = {} THEN Idle ELSE [Idle EXCEPT !.pc = "save", !.left = left]]

ReadAll(r) ==
    /\ run[r].pc = "read"
    /\ AllAnswered(r)
    /\ Finish(r)
    /\ UNCHANGED <<poolVars, cache, adds, faults>>

\* The deadline passes, or the resolver closes the connection: what has come is
\* saved.
TimeOut(r) ==
    /\ run[r].pc = "read"
    /\ ~AllAnswered(r)
    /\ Fault
    /\ Finish(r)
    /\ UNCHANGED <<poolVars, cache, adds>>

-----------------------------------------------------------------------------
(* savePTRBatch and savePTR                                                *)

\* the addresses whose ptr_checked_at is set along with entries
StampedPool(entries) == IPs

Stamped(entries) == {e.ip : e \in entries}

Entry(entries, ip) ==
    LET e == CHOOSE e \in entries : e.ip = ip
    IN [of |-> e.of, named |-> e.kind = "name"]

\* In one batch: the rows of ptr_cache, and ptr_checked_at of those addresses
\* that are in the pool.
Save(entries) ==
    LET Others(s) == Without(s, Stamped(entries))
    IN /\ cache' = [ip \in IPs |-> IF \E e \in entries : e.ip = ip THEN Entry(entries, ip)
                                                                 ELSE cache[ip]]
       /\ unchecked' = Others(unchecked)
       /\ line' = Others(line) \o SetToSeq(Stamped(entries) \cap InPool)
       /\ due' = Len(Others(SubSeq(line, 1, due)))

SaveChunk(r) ==
    /\ run[r].pc = "save"
    /\ \E chunk \in SUBSET run[r].left :
         /\ \/ Cardinality(chunk) = Chunk
            \/ Cardinality(chunk) < Chunk /\ chunk = run[r].left
         /\ Save(chunk)
         /\ run' = [run EXCEPT ![r] = IF chunk = run[r].left THEN Idle
                                      ELSE [run[r] EXCEPT !.left = @ \ chunk]]
    /\ UNCHANGED <<adds, faults>>

\* resolveAndCachePTR on behalf of the query page; its failures save nothing.
SavePTR(ip) ==
    /\ ip \notin Refused
    /\ Save({[ip |-> ip, of |-> ip, kind |-> Truth(ip)]})
    /\ UNCHANGED <<run, adds, faults>>

-----------------------------------------------------------------------------
(* Failures, and the rest of the pool's life                               *)

\* The connection cannot be opened, a statement fails, the request dies.
Fail(r) ==
    /\ run[r].pc # "idle"
    /\ Fault
    /\ run' = [run EXCEPT ![r] = Idle]
    /\ UNCHANGED <<poolVars, cache, adds>>

Add(ip) ==
    /\ ip \notin InPool
    /\ adds < MaxAdds
    /\ adds' = adds + 1
    /\ unchecked' = Append(unchecked, ip)
    /\ UNCHANGED <<line, due, cache, run, faults>>

Evict(ip) ==
    /\ ip \in InPool
    /\ unchecked' = Without(unchecked, {ip})
    /\ line' = Without(line, {ip})
    /\ due' = Len(Without(SubSeq(line, 1, due), {ip}))
    /\ UNCHANGED <<cache, run, adds, faults>>

\* Another address has been checked for 30 days.  While a refresh is under way
\* this would make no difference to it: its selection is one moment.
Age ==
    /\ due < Len(line)
    /\ \A r \in Refreshes : run[r].pc = "idle"
    /\ due' = due + 1
    /\ UNCHANGED <<unchecked, line, cache, run, adds, faults>>

-----------------------------------------------------------------------------
Proceed(r) == SelectStale(r) \/ ReadAll(r) \/ SaveChunk(r)

Next ==
    \/ \E r \in Refreshes : SelectNull(r) \/ Proceed(r) \/ TimeOut(r) \/ Fail(r)
    \/ \E r \in Refreshes, k \in 1..Limit, kind \in Kinds : Receive(r, k, kind)
    \/ \E ip \in IPs : SavePTR(ip) \/ Add(ip) \/ Evict(ip)
    \/ Age

Spec == Init /\ [][Next]_vars

\* Ingests keep coming, a refresh takes its steps, and a resolver that is asked
\* answers, unless a failure intervenes.
Fairness ==
    /\ WF_vars(\E r \in Refreshes : SelectNull(r))
    /\ \A r \in Refreshes : WF_vars(Proceed(r))
    /\ \A r \in Refreshes :
         WF_vars(\E k \in 1..Limit, kind \in Kinds : Receive(r, k, kind))

FairSpec == Spec /\ Fairness

-----------------------------------------------------------------------------
(* Properties                                                              *)

\* What is stored for an address is the answer to its own query, although all
\* queries of a run are under way at once, answers come in any order and
\* repeatedly, and an answer is known only by its id; and a failure to resolve is
\* never stored as "no name" (idToIP in pipelinePTRQueries, the rcode filter of
\* runPTRRefresh).
CacheTrue ==
    \A ip \in IPs : cache[ip] # NoEntry =>
      /\ cache[ip] = [of |-> ip, named |-> ip \in Named]
      /\ ip \notin Refused

\* An address that counts as checked, and is left alone for 30 days, has an entry
\* in ptr_cache: runs that end early do not mark what was not answered
\* (savePTRBatch: both tables in one batch).
CheckedCached == \A ip \in ToSet(line) : cache[ip] # NoEntry

Pending(ip) == ip \in ToSet(unchecked) \cup ToSet(SubSeq(line, 1, due))

\* No starvation: an address that is due is checked in the end, although others
\* are refused for ever and always come first, as long as they are fewer than
\* BATCH_LIMIT (pendingIPsForPTRRefresh).
EveryoneChecked == \A ip \in IPs \ Refused : Pending(ip) ~> ~Pending(ip)

=============================================================================
