------------------------------ MODULE Publish -------------------------------
(***************************************************************************)
(* DNS publishing: syncPublish of src/publish.ts makes the A and AAAA      *)
(* records of one name point at the best addresses of the pool.  It runs   *)
(* after ingests and on-demand probes, in whichever isolate served the     *)
(* request, and keeps nothing between runs but a throttle per isolate.     *)
(*                                                                         *)
(* Every D1 query and every call of the DNS API is a step, so the pool     *)
(* changes and other isolates write between any two of them.  A call may   *)
(* fail with or without effect, and an isolate may be gone at any moment.  *)
(*                                                                         *)
(* The DNS service is external.  It keeps at most one record per address   *)
(* (haveByContent has room for one id) and gives each record an id; ids    *)
(* are modelled by remembering which listed ones no longer exist.          *)
(*                                                                         *)
(* A definition placed before another whose name it extends is a faulty    *)
(* variant of it; no specification uses it.                                *)
(***************************************************************************)
EXTENDS Integers, FiniteSets

CONSTANTS
    V4, V6,      \* addresses of the two families
    Pools,       \* contents that ip_pool may have
    NoRTT,       \* last_rtt_ms is NULL
    Isolates,    \* isolates of the Pages Functions
    Limit,       \* DNS_PUBLISH_LIMIT
    Flaky,       \* families whose calls may fail again and again
    MaxFaults    \* bound on the other failures

IPs == V4 \cup V6

ASSUME PublishAssumption ==
    /\ V4 \cap V6 = {}
    /\ IsFiniteSet(IPs)
    /\ Limit \in Nat \ {0}
    /\ Flaky \subseteq {4, 6}
    /\ MaxFaults \in Nat
    /\ Pools \subseteq [IPs -> [ok : BOOLEAN, seen : Nat, rtt : Nat \cup {NoRTT}]]

VARIABLES
    pool,      \* ip_pool
    records,   \* addresses that have a DNS record
    recent,    \* per isolate: lastSyncAt is within MIN_SYNC_INTERVAL_MS
    iso,       \* per isolate: the sync under way
    faults     \* failures so far

vars == <<pool, records, recent, iso, faults>>

Families == {4, 6}

Of(f) == IF f = 4 THEN V4 ELSE V6

\* want: wantSet; add, del: what the two loops still have to create and delete;
\* stale: the part of del whose id another isolate has deleted since; alone, for
\* the properties: no other isolate has written to the family since listRecords
Syncs == [pc : {"idle", "want", "list", "write"}, fam : Families, want : SUBSET IPs,
          add : SUBSET IPs, del : SUBSET IPs, stale : SUBSET IPs,
          alone : BOOLEAN]

At(pc, f) == [pc |-> pc, fam |-> f, want |-> {}, add |-> {}, del |-> {}, stale |-> {},
              alone |-> FALSE]

Idle == At("idle", 4)

TypeOK ==
    /\ pool \in Pools
    /\ records \subseteq IPs
    /\ recent \in [Isolates -> BOOLEAN]
    /\ iso \in [Isolates -> Syncs]
    /\ \A i \in Isolates : iso[i].want \subseteq Of(iso[i].fam)
    /\ faults \in 0..MaxFaults

Init ==
    /\ pool \in Pools
    /\ records = {}
    /\ recent = [i \in Isolates |-> FALSE]
    /\ iso = [i \in Isolates |-> Idle]
    /\ faults = 0

-----------------------------------------------------------------------------
(* topIPsForPublish                                                        *)

CandidatesAll(f) == {ip \in IPs : pool[ip].ok /\ pool[ip].rtt # NoRTT}

Candidates(f) == {ip \in Of(f) : pool[ip].ok /\ pool[ip].rtt # NoRTT}

Before(x, y) == \/ pool[x].seen > pool[y].seen
                \/ pool[x].seen = pool[y].seen /\ pool[x].rtt < pool[y].rtt

\* ORDER BY ... LIMIT: no address outside comes strictly before one inside.
\* Which of two equals comes first is up to SQLite, always in the same way.
Top(f) ==
    CHOOSE S \in SUBSET Candidates(f) :
      /\ Cardinality(S) <= Limit
      /\ Cardinality(S) < Limit => S = Candidates(f)
      /\ \A x \in S, y \in Candidates(f) \ S : ~Before(y, x)

-----------------------------------------------------------------------------
(* syncPublish                                                             *)

\* lastSyncAt is set before the work, whatever becomes of it.
Start(i) ==
    /\ iso[i].pc = "idle"
    /\ ~recent[i]
    /\ recent' = [recent EXCEPT ![i] = TRUE]
    /\ iso' = [iso EXCEPT ![i] = At("want", 4)]
    /\ UNCHANGED <<pool, records, faults>>

\* Five minutes pass, which is longer than a sync is allowed to run.
Elapse(i) ==
    /\ recent[i]
    /\ iso[i].pc = "idle"
    /\ recent' = [recent EXCEPT ![i] = FALSE]
    /\ UNCHANGED <<pool, records, iso, faults>>

\* After a family, done or failed: the other one, then the end.
AfterFamily(i) == IF iso[i].fam = 4 THEN At("want", 6) ELSE Idle

CaughtOutside(i) == Idle

Caught(i) == AfterFamily(i)

Want(i) ==
    /\ iso[i].pc = "want"
    /\ iso' = [iso EXCEPT ![i].pc = "list", ![i].want = Top(iso[i].fam)]
    /\ UNCHANGED <<pool, records, recent, faults>>

\* listRecords, and what the two loops will do with its answer.
ListRecords(i) ==
    /\ iso[i].pc = "list"
    /\ LET have == records \cap Of(iso[i].fam)
       IN iso' = [iso EXCEPT ![i].pc = "write",
                             ![i].add = iso[i].want \ have,
                             ![i].del = have \ iso[i].want,
                             ![i].alone = TRUE]
    /\ UNCHANGED <<pool, records, recent, faults>>

\* i writes and goes on with next; gone are the records whose listed ids become
\* useless, and a sync of the same family elsewhere is no longer alone.
Write(i, next, gone) ==
    iso' = [j \in Isolates |->
              IF j = i THEN next
              ELSE [iso[j] EXCEPT !.stale = @ \cup (gone \cap iso[j].del),
                                  !.alone = @ /\ iso[j].fam # iso[i].fam]]

Abort(i) ==
    /\ iso' = [iso EXCEPT ![i] = Caught(i)]
    /\ UNCHANGED records

\* The service refuses to create what is there, and the exception ends the
\* family.
Create(i, ip, next) ==
    IF ip \in records
    THEN Abort(i)
    ELSE records' = records \cup {ip} /\ Write(i, next, {})

\* So does deleting by an id that is gone.
Delete(i, ip, next) ==
    IF ip \in iso[i].stale
    THEN Abort(i)
    ELSE records' = records \ {ip} /\ Write(i, next, {ip})

CreateRecord(i) ==
    /\ iso[i].pc = "write"
    /\ \E ip \in iso[i].add : Create(i, ip, [iso[i] EXCEPT !.add = @ \ {ip}])
    /\ UNCHANGED <<pool, recent, faults>>

\* The delete loop starts when the create loop is through.
MayDeleteFirst(i) == iso[i].pc = "write"

MayDelete(i) == iso[i].pc = "write" /\ iso[i].add = {}

DeleteRecord(i) ==
    /\ MayDelete(i)
    /\ \E ip \in iso[i].del :
         Delete(i, ip, [iso[i] EXCEPT !.del = @ \ {ip}])
    /\ UNCHANGED <<pool, recent, faults>>

EndFamily(i) ==
    /\ iso[i].pc = "write"
    /\ iso[i].add = {}
    /\ iso[i].del = {}
    /\ iso' = [iso EXCEPT ![i] = AfterFamily(i)]
    /\ UNCHANGED <<pool, records, recent, faults>>

-----------------------------------------------------------------------------
(* Failures, and the writers of the pool                                   *)

Fault(free) ==
    /\ free \/ faults < MaxFaults
    /\ faults' = IF free THEN faults ELSE faults + 1

\* A query or call fails; a call may have taken effect all the same.
Fail(i) ==
    /\ iso[i].pc # "idle"
    /\ Fault(iso[i].fam \in Flaky)
    /\ \/ Abort(i)
       \/ \E ip \in iso[i].add : Create(i, ip, Caught(i))
       \/ /\ iso[i].add = {}
          /\ \E ip \in iso[i].del : Delete(i, ip, Caught(i))
    /\ UNCHANGED <<pool, recent>>

\* The runtime ends the sync, or the isolate with its throttle.
Die(i) ==
    /\ iso[i].pc # "idle"
    /\ Fault(FALSE)
    /\ iso' = [iso EXCEPT ![i] = Idle]
    /\ \E r \in BOOLEAN : recent' = [recent EXCEPT ![i] = r]
    /\ UNCHANGED <<pool, records>>

UpdatePool(p) ==
    /\ p # pool
    /\ pool' = p
    /\ UNCHANGED <<records, recent, iso, faults>>

-----------------------------------------------------------------------------
Step(i) ==
    \/ Want(i)
    \/ ListRecords(i)
    \/ CreateRecord(i)
    \/ DeleteRecord(i)
    \/ EndFamily(i)

Next ==
    \/ \E i \in Isolates : Start(i) \/ Elapse(i) \/ Step(i) \/ Fail(i) \/ Die(i)
    \/ \E p \in Pools : UpdatePool(p)

Spec == Init /\ [][Next]_vars

\* The scanner's batches keep coming, further apart than the throttle, to one
\* isolate or another, and a sync takes its steps.  Nothing about failures and
\* pool writers.
Fairness ==
    /\ WF_vars(\E i \in Isolates : Start(i))
    /\ WF_vars(\E i \in Isolates : Elapse(i))
    /\ \A i \in Isolates : WF_vars(Step(i))

FairSpec == Spec /\ Fairness

-----------------------------------------------------------------------------
(* Properties                                                              *)

Published(f) == records \cap Of(f)

\* An undisturbed sync that wants anything never leaves the name without a
\* record on its way, not even when it fails half-way: syncFamily creates
\* before it deletes.
NeverBare ==
    [][\A i \in Isolates :
         iso[i].pc = "write" /\ iso[i].alone /\ iso[i].want # {} /\ Published(iso[i].fam) # {} =>
           \/ records' \cap Of(iso[i].fam) # {}
           \/ iso'[i].pc = "write" /\ ~iso'[i].alone]_vars

\* Once the pool stays as it is, the records of a family become its top set and
\* stay so, although isolates overlap, syncs have failed, and the other family
\* may fail for ever (syncPublish catches per family, and nothing but the next
\* sync repairs a failed one).
Converges ==
    \A f \in Families \ Flaky :
      <>[][FALSE]_pool => <>[](Published(f) = Top(f))

=============================================================================
