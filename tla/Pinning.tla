------------------------------ MODULE Pinning ------------------------------
(***************************************************************************)
(* Pin leases (cache.go: Pin, RenewPin, Unpin, SweepExpiredPins).  A lease *)
(* protects an entry from eviction and the blobs of the entry it was taken *)
(* on from collection, until its deadline.  Each request may carry a       *)
(* request id, whose first successful result is recorded and replayed.     *)
(***************************************************************************)
EXTENDS CacheState

\* Input of a pin request: an absolute deadline, else a duration, else the default.
Deadline(in) ==
  IF in.deadline > 0 THEN in.deadline
  ELSE now + (IF in.ttl > 0 THEN in.ttl ELSE DefaultPinTTL)

\* A request with an id already recorded is answered from the record, or refused
\* as a conflict; either way nothing changes.
FreshRequest(r) == r # NoRequestId => pinReqs[r].action = "none"

\* SavePin, then SavePinRequest and the index entry.
GrantLease(action, k, in, r, lease) ==
  /\ pins' = [pins EXCEPT ![k] = lease]
  /\ pinReqs' = IF r = NoRequestId THEN pinReqs
                ELSE [pinReqs EXCEPT ![r] = [action |-> action, slot |-> k,
                                             input |-> in, result |-> lease]]

\* SavePin succeeds and SavePinRequest fails: the caller sees an error.
GrantUnrecorded(r, k, lease) ==
  /\ "store" \in Faults
  /\ r # NoRequestId
  /\ pins' = [pins EXCEPT ![k] = lease]
  /\ UNCHANGED pinReqs

-----------------------------------------------------------------------------
(* Pin: on a published entry, over whatever lease the slot has. *)

PinAllowed(k, in) ==
  /\ Deadline(in) > now
  /\ Published(k)
  /\ in.digest # NoDigest => in.digest = entries[k].digest
  /\ in.expected # AnyVersion => in.expected = pins[k].version
  /\ pins[k].version < MaxPinVersion

PinLease(k, in) ==
  [version |-> pins[k].version + 1, entryVersion |-> entries[k].version,
   digest |-> entries[k].digest, manifest |-> entries[k].manifest,
   deadline |-> Deadline(in), status |-> "active"]

PinEntry(k, in, r) ==
  /\ FreshRequest(r)
  /\ PinAllowed(k, in)
  /\ GrantLease("pin", k, in, r, PinLease(k, in))
  /\ UNCHANGED <<now, blobs, quotaVars, entries, uploadVars, evictionVars>>

PinEntryInterrupted(k, in, r) ==
  /\ FreshRequest(r)
  /\ PinAllowed(k, in)
  /\ GrantUnrecorded(r, k, PinLease(k, in))
  /\ UNCHANGED <<now, blobs, quotaVars, entries, uploadVars, evictionVars>>

-----------------------------------------------------------------------------
(* Renew and unpin: on an active lease of the expected version. *)

\* Mutant: a lease counts as active until a sweep marks it expired.
LeaseAllowedUntilSwept(k, in) ==
  /\ pins[k].status = "active"
  /\ in.expected # AnyVersion => in.expected = pins[k].version
  /\ pins[k].version < MaxPinVersion

\* Mutant: the slot need not have a lease at all.
LeaseAllowedAlways(k, in) ==
  /\ in.expected # AnyVersion => in.expected = pins[k].version
  /\ pins[k].version < MaxPinVersion

LeaseAllowed(k, in) ==
  /\ PinActive(k)
  /\ in.expected # AnyVersion => in.expected = pins[k].version
  /\ pins[k].version < MaxPinVersion

\* A renewal never brings the deadline forward.
RenewedLease(k, in) ==
  LET extended == now + (IF in.ttl > 0 THEN in.ttl ELSE DefaultPinTTL)
  IN  [pins[k] EXCEPT !.version = @ + 1,
                      !.deadline = IF @ > extended THEN @ ELSE extended]

RenewPin(k, in, r) ==
  /\ FreshRequest(r)
  /\ LeaseAllowed(k, in)
  /\ GrantLease("renew", k, in, r, RenewedLease(k, in))
  /\ UNCHANGED <<now, blobs, quotaVars, entries, uploadVars, evictionVars>>

RenewPinInterrupted(k, in, r) ==
  /\ FreshRequest(r)
  /\ LeaseAllowed(k, in)
  /\ GrantUnrecorded(r, k, RenewedLease(k, in))
  /\ UNCHANGED <<now, blobs, quotaVars, entries, uploadVars, evictionVars>>

\* Mutant: releasing keeps the lease version.
ReleasedSameVersion(k) == [pins[k] EXCEPT !.status = "released"]

ReleasedLease(k) == [pins[k] EXCEPT !.version = @ + 1, !.status = "released"]

Unpin(k, in, r) ==
  /\ FreshRequest(r)
  /\ LeaseAllowed(k, in)
  /\ GrantLease("unpin", k, in, r, ReleasedLease(k))
  /\ UNCHANGED <<now, blobs, quotaVars, entries, uploadVars, evictionVars>>

UnpinInterrupted(k, in, r) ==
  /\ FreshRequest(r)
  /\ LeaseAllowed(k, in)
  /\ GrantUnrecorded(r, k, ReleasedLease(k))
  /\ UNCHANGED <<now, blobs, quotaVars, entries, uploadVars, evictionVars>>

-----------------------------------------------------------------------------

SweepExpiredPins ==
  /\ ExpirePins(OverduePins)
  /\ UNCHANGED <<now, blobs, quotaVars, entries, pinReqs, uploadVars, evictionVars>>

SweepExpiredPinsInterrupted ==
  /\ "store" \in Faults
  /\ \E K \in SUBSET OverduePins : ExpirePins(K)
  /\ UNCHANGED <<now, blobs, quotaVars, entries, pinReqs, uploadVars, evictionVars>>
=============================================================================
