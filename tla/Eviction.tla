------------------------------ MODULE Eviction ------------------------------
(***************************************************************************)
(* Namespaces, their quotas, and the two-phase eviction of the least       *)
(* recently used unpinned entries (cache.go: SetNamespaceQuota,            *)
(* DeleteNamespace, PlanEviction, CommitEviction).  The operators that plan*)
(* and commit a decision are also those publication uses to make room.     *)
(***************************************************************************)
EXTENDS CacheState

-----------------------------------------------------------------------------
(* Planning and committing a decision. *)

\* Entries of ns that a plan may choose: unpinned, and not the excluded slots.
Evictable(ns, excluded) ==
  {k \in Slots \ excluded : k[1] = ns /\ Published(k) /\ ~ PinActive(k)}

\* Least recently used first, ties in key order.
UsedBefore(j, k) ==
  \/ entries[j].lastAccess < entries[k].lastAccess
  \/ entries[j].lastAccess = entries[k].lastAccess /\ j[2] < k[2]

\* Mutant: one entry more is taken when the bytes taken equal the need.
VictimsOneMore(ns, need, excluded) ==
  LET pool == Evictable(ns, excluded)
  IN  {k \in pool : SumSizes({j \in pool : UsedBefore(j, k)}) <= need}

\* Mutant: the loop stops before the entry that would bring the bytes taken to the need.
VictimsOneFewer(ns, need, excluded) ==
  LET pool == Evictable(ns, excluded)
  IN  {k \in pool : SumSizes({j \in pool : j = k \/ UsedBefore(j, k)}) < need}

\* The loop of planEvictionLocked takes entries in that order until the bytes
\* taken reach need: k is taken iff those before it do not suffice.
Victims(ns, need, excluded) ==
  LET pool == Evictable(ns, excluded)
  IN  {k \in pool : SumSizes({j \in pool : UsedBefore(j, k)}) < need}

Snapshot(k) == [slot |-> k, version |-> entries[k].version, digest |-> entries[k].digest,
                lastAccess |-> entries[k].lastAccess, outcome |-> "pending"]

Plan(ns, need, excluded) ==
  [ns |-> ns, need |-> need, status |-> "proposed",
   candidates |-> {Snapshot(k) : k \in Victims(ns, need, excluded)}]

\* Mutant: pins taken after the plan are not looked at.
RecheckIgnoringPins(c) ==
  LET e == entries[c.slot]
  IN  IF ~ Published(c.slot) THEN "skipped_missing"
      ELSE IF e.version # c.version \/ e.digest # c.digest THEN "skipped_republished"
      ELSE IF e.lastAccess > c.lastAccess THEN "skipped_accessed"
      ELSE "deleted"

\* Mutant: reads since the plan are not looked at.
RecheckIgnoringAccess(c) ==
  LET e == entries[c.slot]
  IN  IF ~ Published(c.slot) THEN "skipped_missing"
      ELSE IF e.version # c.version \/ e.digest # c.digest THEN "skipped_republished"
      ELSE IF PinActive(c.slot) THEN "skipped_pinned"
      ELSE "deleted"

\* The re-check of one candidate at commit time, in the order of the code.
Recheck(c) ==
  LET e == entries[c.slot]
  IN  IF ~ Published(c.slot) THEN "skipped_missing"
      ELSE IF e.version # c.version \/ e.digest # c.digest THEN "skipped_republished"
      ELSE IF e.lastAccess > c.lastAccess THEN "skipped_accessed"
      ELSE IF PinActive(c.slot) THEN "skipped_pinned"
      ELSE "deleted"

\* SaveEvictionDecision under the next number.
RecordDecision(d) ==
  /\ evictSeq < MaxDecisions
  /\ evictSeq' = evictSeq + 1
  /\ decisions' = [decisions EXCEPT ![evictSeq + 1] = d]

Committed(d) ==
  [d EXCEPT !.status = "committed",
            !.candidates = {[c EXCEPT !.outcome = Recheck(c)] : c \in @}]

Deleted(d) == {c.slot : c \in {x \in d.candidates : x.outcome = "deleted"}}

FreedBytes(d) == SumSizes(Deleted(d))

Without(D) == [k \in Slots |-> IF k \in D THEN NoEntry ELSE entries[k]]

\* The candidates are processed in plan order; a failing DeleteEntry leaves the
\* ones up to some candidate deleted and nothing recorded.
DeletedUpTo(d, last) ==
  {c.slot : c \in {x \in Committed(d).candidates :
       /\ x.outcome = "deleted"
       /\ \/ x.lastAccess < last.lastAccess
          \/ x.lastAccess = last.lastAccess /\ x.slot[2] <= last.slot[2]}}

-----------------------------------------------------------------------------
(* Operations. *)

\* Creates the namespace or replaces its limit.  Entries already published stay,
\* so usage may exceed a lowered limit.
SetNamespaceQuota(ns, max) ==
  /\ quota' = [quota EXCEPT ![ns] = max]
  /\ quotaSetAt' = [quotaSetAt EXCEPT ![ns] = now]
  /\ UNCHANGED <<now, blobs, entries, uploadVars, leaseVars, evictionVars>>

Removable(ns) ==
  /\ ns \in RemovableNamespaces
  /\ Registered(ns)
  /\ \A k \in Slots : k[1] = ns => ~ Published(k)

PinnedIn(ns) == {k \in Slots : k[1] = ns /\ PinActive(k)}

DropPins(K) == pins' = [k \in Slots |-> IF k \in K THEN NoPin ELSE pins[k]]

\* Leases that have ended are deleted with the namespace; open sessions, request
\* records and decisions are not looked at.
DeleteNamespace(ns) ==
  /\ Removable(ns)
  /\ PinnedIn(ns) = {}
  /\ DropPins({k \in Slots : k[1] = ns})
  /\ quota' = [quota EXCEPT ![ns] = Unregistered]
  /\ UNCHANGED <<now, blobs, quotaSetAt, entries, uploadVars, pinReqs, evictionVars>>

\* The walk over the leases deletes ended ones as it meets them.  It stops at an
\* active lease, or at a failing delete, and the namespace stays.
DeleteNamespaceInterrupted(ns) ==
  /\ Removable(ns)
  /\ "store" \in Faults \/ PinnedIn(ns) # {}
  /\ \E K \in SUBSET ({k \in Slots : k[1] = ns} \ PinnedIn(ns)) : DropPins(K)
  /\ UNCHANGED <<now, blobs, quotaVars, entries, uploadVars, pinReqs, evictionVars>>

PlanEviction(ns, need) ==
  /\ Registered(ns)
  /\ RecordDecision(Plan(ns, need, {}))
  /\ UNCHANGED <<now, blobs, quotaVars, entries, uploadVars, leaseVars>>

\* The number is taken before SaveEvictionDecision fails.
PlanEvictionInterrupted(ns) ==
  /\ "store" \in Faults
  /\ Registered(ns)
  /\ evictSeq < MaxDecisions
  /\ evictSeq' = evictSeq + 1
  /\ UNCHANGED <<now, blobs, quotaVars, entries, decisions, uploadVars, leaseVars>>

\* Mutant: a committed decision is committed again.
CommitEvictionAgain(id) ==
  /\ decisions[id].status # "none"
  /\ LET d == Committed(decisions[id])
     IN  /\ decisions' = [decisions EXCEPT ![id] = d]
         /\ entries' = Without(Deleted(d))
  /\ UNCHANGED <<now, blobs, quotaVars, evictSeq, uploadVars, leaseVars>>

\* A committed decision is returned as it is; a proposed one is re-checked
\* candidate by candidate against the present state.
CommitEviction(id) ==
  /\ decisions[id].status = "proposed"
  /\ LET d == Committed(decisions[id])
     IN  /\ decisions' = [decisions EXCEPT ![id] = d]
         /\ entries' = Without(Deleted(d))
  /\ UNCHANGED <<now, blobs, quotaVars, evictSeq, uploadVars, leaseVars>>

CommitEvictionInterrupted(id) ==
  /\ "store" \in Faults
  /\ decisions[id].status = "proposed"
  /\ \E last \in decisions[id].candidates :
       entries' = Without(DeletedUpTo(decisions[id], last))
  /\ UNCHANGED <<now, blobs, quotaVars, uploadVars, leaseVars, evictionVars>>
=============================================================================
