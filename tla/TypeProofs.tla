----------------------------- MODULE TypeProofs -----------------------------
(***************************************************************************)
(* Type correctness of the service for every value of its constants.  The  *)
(* lemmas go component by component; those that say all a step may do to    *)
(* decisions and promotions are used again in SafetyProofs.                *)
(***************************************************************************)
EXTENDS BuildCache, TLAPS

-----------------------------------------------------------------------------
(* Type correctness, one lemma for the actions of each component.            *)

LEMMA InitTypeOK == Init => TypeOK
<1> SUFFICES ASSUME Init PROVE TypeOK
  OBVIOUS
<1>1. now \in Nat /\ blobs \subseteq Blobs /\ quota \in [Namespaces -> Nat \cup {Unregistered}]
  BY ParameterAssumption DEF Init
<1>2. quotaSetAt \in [Namespaces -> Nat]
  BY DEF Init
<1>3. /\ sessions \in [SessionIds -> Session \cup {Unused, Gone}]
      /\ entries \in [Slots -> Entry \cup {NoEntry}]
      /\ pins \in [Slots -> Pin \cup {NoPin}]
      /\ pinReqs \in [RequestIds -> PinRequest \cup {NoRequest}]
  BY DEF Init
<1>4. /\ decisions \in [DecisionIds -> Decision \cup {NoDecision}]
      /\ idem \in [Namespaces \X IdemKeys -> SessionIds \cup {NoSession}]
      /\ promotions \in [PromoIds -> Promotion \cup {NoPromotion}]
      /\ promoTxns \in [PromoIds -> Phases \cup {NoTxn}]
  BY DEF Init
<1>5. /\ evictSeq \in 0 .. MaxDecisions
      /\ promoReqs \in [RequestIds -> 0 .. MaxPromotions]
      /\ promoSeq \in 0 .. MaxPromotions
      /\ applying \in 0 .. MaxPromotions
      /\ mode \in {"serving", "starting", "down"}
  BY ParameterAssumption DEF Init
<1> QED BY <1>1, <1>2, <1>3, <1>4, <1>5 DEF TypeOK

LEMMA ForgetTypeOK ==
  ASSUME TypeOK, NEW D \in SUBSET SessionIds, ForgetSessions(D)
  PROVE  /\ sessions' \in [SessionIds -> Session \cup {Unused, Gone}]
         /\ idem' \in [Namespaces \X IdemKeys -> SessionIds \cup {NoSession}]
BY DEF TypeOK, ForgetSessions

LEMMA ExpireTypeOK ==
  ASSUME TypeOK, NEW K \in SUBSET OverduePins, ExpirePins(K)
  PROVE  pins' \in [Slots -> Pin \cup {NoPin}]
<1>1. ASSUME NEW k \in K
      PROVE  [pins[k] EXCEPT !.version = @ + 1, !.status = "expired"] \in Pin
  <2>1. pins[k] \in Pin
    BY DEF TypeOK, OverduePins, NoPin
  <2>2. pins[k].version + 1 \in Nat \ {0}
    BY <2>1 DEF Pin
  <2> QED BY <2>1, <2>2 DEF Pin
<1> QED BY <1>1 DEF TypeOK, ExpirePins

(* Uploads. *)

LEMMA OpenSessionType ==
  ASSUME TypeOK, NEW s \in SessionIds, SessionLive(s)
  PROVE  /\ sessions[s] \in Session
         /\ sessions[s].slot \in Slots
         /\ sessions[s].slot[1] \in Namespaces
         /\ sessions[s].manifest \in Seq(Blobs)
<1>1. sessions[s] \in Session
  BY DEF TypeOK, SessionLive, Unused, Gone
<1> QED BY <1>1, ContentAssumption DEF Session, Slots

LEMMA DropIdemTypeOK ==
  ASSUME TypeOK, NEW s \in SessionIds, DropIdem(s)
  PROVE  idem' \in [Namespaces \X IdemKeys -> SessionIds \cup {NoSession}]
BY DEF TypeOK, DropIdem

LEMMA UploadTypeOK ==
  ASSUME TypeOK, UploadStep, UNCHANGED promotionVars
  PROVE  TypeOK'
<1> USE DEF quotaVars, uploadVars, leaseVars, evictionVars, promotionVars
<1>1. ASSUME NEW s \in SessionIds, NEW upload \in UploadRequests,
             NEW key \in IdemKeys \cup {NoIdem}, NEW l \in SessionLeases,
             CreateSession(s, upload[1], key, upload[2], upload[3], l)
      PROVE  TypeOK'
  <2>1. NewSession(upload[1], key, upload[2], upload[3], l) \in Session
    <3>1. upload[1] \in Slots /\ upload[2] \in Artifacts /\ upload[3] \in Manifests
      BY ParameterAssumption
    <3>2. now + l \in Nat
      BY ParameterAssumption DEF TypeOK
    <3> QED BY <3>1, <3>2 DEF NewSession, Session
  <2>2. sessions' \in [SessionIds -> Session \cup {Unused, Gone}]
    BY <1>1, <2>1 DEF TypeOK, CreateSession
  <2>3. idem' \in [Namespaces \X IdemKeys -> SessionIds \cup {NoSession}]
    BY <1>1 DEF TypeOK, CreateSession
  <2> QED BY <1>1, <2>2, <2>3 DEF TypeOK, CreateSession
<1>2. ASSUME NEW k \in Slots, NEW key \in IdemKeys, CreateSessionInterrupted(k, key)
      PROVE  TypeOK'
  BY <1>2 DEF TypeOK, CreateSessionInterrupted
<1>3. ASSUME NEW s \in SessionIds, NEW i \in UNION {DOMAIN m : m \in Manifests},
             UploadChunk(s, i) \/ UploadChunkInterrupted(s, i)
      PROVE  TypeOK'
  <2>1. SessionLive(s) /\ i \in DOMAIN sessions[s].manifest
    BY <1>3 DEF UploadChunk, UploadChunkInterrupted, Uploadable
  <2>2. sessions[s] \in Session /\ sessions[s].manifest \in Seq(Blobs)
    BY <2>1, OpenSessionType
  <2>3. sessions[s].manifest[i] \in Blobs /\ i \in Nat
    BY <2>1, <2>2
  <2>4. [sessions[s] EXCEPT !.received = @ \cup {i}] \in Session
    BY <2>2, <2>3 DEF Session
  <2>5. blobs' \subseteq Blobs
    BY <1>3, <2>3 DEF TypeOK, UploadChunk, UploadChunkInterrupted
  <2>6. sessions' \in [SessionIds -> Session \cup {Unused, Gone}]
    BY <1>3, <2>4 DEF TypeOK, UploadChunk, UploadChunkInterrupted
  <2> QED BY <1>3, <2>5, <2>6 DEF TypeOK, UploadChunk, UploadChunkInterrupted
<1>4. ASSUME NEW s \in SessionIds, NEW l \in SessionLeases, RenewSession(s, l)
      PROVE  TypeOK'
  <2>1. sessions[s] \in Session
    BY <1>4, OpenSessionType DEF RenewSession
  <2>2. now + l \in Nat
    BY ParameterAssumption DEF TypeOK
  <2>3. [sessions[s] EXCEPT !.expiresAt = now + l] \in Session
    BY <2>1, <2>2 DEF Session
  <2> QED BY <1>4, <2>3 DEF TypeOK, RenewSession
<1>5. ASSUME NEW s \in SessionIds, Cancel(s)
      PROVE  TypeOK'
  <2>1. sessions[s] \in Session
    BY <1>5, OpenSessionType DEF Cancel
  <2>2. [sessions[s] EXCEPT !.status = "canceled"] \in Session
    BY <2>1 DEF Session
  <2>3. idem' \in [Namespaces \X IdemKeys -> SessionIds \cup {NoSession}]
    BY <1>5, DropIdemTypeOK DEF Cancel
  <2> QED BY <1>5, <2>2, <2>3 DEF TypeOK, Cancel
<1>6. ASSUME SweepExpired \/ SweepExpiredInterrupted
      PROVE  TypeOK'
  <2>1. PICK D \in SUBSET SessionIds : ForgetSessions(D)
    BY <1>6 DEF SweepExpired, SweepExpiredInterrupted, DeadSessions
  <2> QED BY <1>6, <2>1, ForgetTypeOK DEF TypeOK, SweepExpired, SweepExpiredInterrupted
<1> QED BY <1>1, <1>2, <1>3, <1>4, <1>5, <1>6 DEF UploadStep

(* Entries and decisions. *)

LEMMA PublishedType ==
  ASSUME TypeOK, NEW k \in Slots, Published(k)
  PROVE  /\ entries[k] \in Entry
         /\ entries[k].version \in Nat \ {0}
         /\ entries[k].digest \in Artifacts
         /\ entries[k].manifest \in Manifests
<1>1. entries[k] \in Entry
  BY DEF TypeOK, Published, NoEntry
<1> QED BY <1>1 DEF Entry

LEMMA VersionType ==
  ASSUME TypeOK, NEW k \in Slots
  PROVE  entries[k].version \in Nat
BY DEF TypeOK, Entry, NoEntry

LEMMA DecisionType ==
  ASSUME TypeOK, NEW id \in DecisionIds, decisions[id].status # "none"
  PROVE  decisions[id] \in Decision
BY DEF TypeOK, NoDecision

LEMMA PlanType ==
  ASSUME TypeOK, NEW ns \in Namespaces, NEW need \in Nat \ {0}, NEW excluded
  PROVE  Plan(ns, need, excluded) \in Decision
<1>1. Victims(ns, need, excluded) \in SUBSET Evictable(ns, excluded)
  BY DEF Victims
<1>2. ASSUME NEW k \in Victims(ns, need, excluded)
      PROVE  Snapshot(k) \in Candidate
  <2>1. k \in Slots /\ Published(k)
    BY <1>1 DEF Evictable
  <2>2. entries[k] \in Entry
    BY <2>1, PublishedType
  <2> QED BY <2>1, <2>2 DEF Snapshot, Candidate, Entry, Outcomes
<1> QED BY <1>2 DEF Plan, Decision

LEMMA CommittedType ==
  ASSUME NEW d \in Decision
  PROVE  Committed(d) \in Decision
<1>1. ASSUME NEW c \in d.candidates
      PROVE  [c EXCEPT !.outcome = Recheck(c)] \in Candidate
  <2>1. c \in Candidate
    BY DEF Decision
  <2>2. Recheck(c) \in Outcomes
    BY DEF Recheck, Outcomes
  <2> QED BY <2>1, <2>2 DEF Candidate
<1>2. {[c EXCEPT !.outcome = Recheck(c)] : c \in d.candidates} \in SUBSET Candidate
  BY <1>1
<1> QED BY <1>2 DEF Committed, Decision

LEMMA WithoutType ==
  ASSUME TypeOK, NEW D
  PROVE  Without(D) \in [Slots -> Entry \cup {NoEntry}]
BY DEF TypeOK, Without

LEMMA ReadTypeOK ==
  ASSUME TypeOK, ReadStep, UNCHANGED promotionVars
  PROVE  TypeOK'
<1>1. PICK k \in Slots : Read(k)
  BY DEF ReadStep
<1>2. entries[k] \in Entry
  BY <1>1, PublishedType DEF Read
<1>3. [entries[k] EXCEPT !.lastAccess = IF @ < now THEN now ELSE @] \in Entry
  BY <1>2 DEF Entry, TypeOK
<1> QED BY <1>1, <1>3 DEF TypeOK, Read, quotaVars, uploadVars, leaseVars, evictionVars,
                          promotionVars

(* Publication. *)

LEMMA PublishTypes ==
  ASSUME TypeOK, NEW s \in SessionIds, Publishable(s)
  PROVE  /\ sessions[s].slot \in Slots
         /\ sessions[s].slot[1] \in Namespaces
         /\ NewEntry(s) \in Entry
         /\ OverQuota(s) => RoomDecision(s) \in Decision
<1>1. /\ sessions[s] \in Session
      /\ sessions[s].slot \in Slots
      /\ sessions[s].slot[1] \in Namespaces
  BY OpenSessionType DEF Publishable
<1>2. entries[sessions[s].slot].version + 1 \in Nat \ {0}
  BY <1>1, VersionType
<1>3. now \in Nat
  BY DEF TypeOK
<1>4. sessions[s].artifact \in Artifacts /\ sessions[s].manifest \in Manifests
  BY <1>1 DEF Session
<1>5. NewEntry(s) \in Entry
  BY <1>2, <1>3, <1>4 DEF NewEntry, Entry
<1>6. OverQuota(s) => RoomDecision(s) \in Decision
  BY <1>1, PlanType DEF OverQuota, RoomDecision
<1> QED BY <1>1, <1>5, <1>6

LEMMA RecordTypeOK ==
  ASSUME TypeOK, NEW d \in Decision, RecordDecision(d)
  PROVE  /\ decisions' \in [DecisionIds -> Decision \cup {NoDecision}]
         /\ evictSeq' \in 0 .. MaxDecisions
BY ParameterAssumption DEF TypeOK, RecordDecision, DecisionIds

LEMMA PublishingTypeOK ==
  ASSUME TypeOK, NEW s \in SessionIds, NEW v, Publishable(s), Publish(s, v)
  PROVE  /\ entries' \in [Slots -> Entry \cup {NoEntry}]
         /\ decisions' \in [DecisionIds -> Decision \cup {NoDecision}]
         /\ evictSeq' \in 0 .. MaxDecisions
<1>1. CASE Reuse(s)
  <2>1. sessions[s].slot \in Slots /\ Published(sessions[s].slot)
    BY <1>1, PublishTypes DEF Reuse, SameContent
  <2>2. entries[sessions[s].slot] \in Entry /\ now \in Nat
    BY <2>1, PublishedType DEF TypeOK
  <2>3. [entries[sessions[s].slot] EXCEPT !.lastAccess = now] \in Entry
    BY <2>2 DEF Entry
  <2> QED BY <1>1, <2>3 DEF Reuse, TypeOK, evictionVars
<1>2. CASE PublishWithinQuota(s, v)
  BY <1>2, PublishTypes DEF PublishWithinQuota, TypeOK, evictionVars
<1>3. CASE PublishAfterEviction(s, v)
  <2> DEFINE d == Committed(RoomDecision(s))
  <2>1. d \in Decision
    BY <1>3, PublishTypes, CommittedType DEF PublishAfterEviction
  <2>2. RecordDecision(d)
    BY <1>3 DEF PublishAfterEviction
  <2>3. entries' = [Without(Deleted(d)) EXCEPT ![sessions[s].slot] = NewEntry(s)]
    BY <1>3 DEF PublishAfterEviction
  <2>4. entries' \in [Slots -> Entry \cup {NoEntry}]
    BY <2>3, WithoutType, PublishTypes
  <2> QED BY <2>1, <2>2, <2>4, RecordTypeOK
<1> QED BY <1>1, <1>2, <1>3 DEF Publish

LEMMA PublishTypeOK ==
  ASSUME TypeOK, PublishStep, UNCHANGED promotionVars
  PROVE  TypeOK'
<1> USE DEF quotaVars, uploadVars, leaseVars, promotionVars
<1>1. ASSUME NEW s \in SessionIds, NEW v, Complete(s, v)
      PROVE  TypeOK'
  <2>1. sessions' \in [SessionIds -> Session \cup {Unused, Gone}]
    BY <1>1 DEF TypeOK, Complete
  <2>2. idem' \in [Namespaces \X IdemKeys -> SessionIds \cup {NoSession}]
    BY <1>1, DropIdemTypeOK DEF Complete
  <2> QED BY <1>1, <2>1, <2>2, PublishingTypeOK DEF TypeOK, Complete
<1>2. ASSUME NEW s \in SessionIds, NEW v, CompleteUnclosed(s, v)
      PROVE  TypeOK'
  BY <1>2, PublishingTypeOK DEF TypeOK, CompleteUnclosed
<1>3. ASSUME NEW s \in SessionIds, NEW v, CompleteOverQuota(s, v)
      PROVE  TypeOK'
  <2> DEFINE d == Committed(RoomDecision(s))
  <2>1. d \in Decision
    BY <1>3, PublishTypes, CommittedType DEF CompleteOverQuota
  <2>2. RecordDecision(d) /\ entries' = Without(Deleted(d))
    BY <1>3 DEF CompleteOverQuota
  <2> QED BY <1>3, <2>1, <2>2, RecordTypeOK, WithoutType DEF TypeOK, CompleteOverQuota
<1>4. ASSUME NEW s \in SessionIds, NEW v, CompleteInterrupted(s, v)
      PROVE  TypeOK'
  <2>1. RoomDecision(s) \in Decision
    BY <1>4, PublishTypes DEF CompleteInterrupted
  <2>2. Committed(RoomDecision(s)) \in Decision
    BY <2>1, CommittedType
  <2>3. PICK d \in Decision : RecordDecision(d)
    BY <1>4, <2>1, <2>2 DEF CompleteInterrupted
  <2>4. entries' = entries \/ \E D : entries' = Without(D)
    BY <1>4 DEF CompleteInterrupted
  <2>5. entries' \in [Slots -> Entry \cup {NoEntry}]
    BY <2>4, WithoutType DEF TypeOK
  <2> QED BY <1>4, <2>3, <2>5, RecordTypeOK DEF TypeOK, CompleteInterrupted
<1> QED BY <1>1, <1>2, <1>3, <1>4 DEF PublishStep

(* Namespaces, eviction, pinning, collection. *)

LEMMA DropPinsTypeOK ==
  ASSUME TypeOK, NEW K, DropPins(K)
  PROVE  pins' \in [Slots -> Pin \cup {NoPin}]
BY DEF TypeOK, DropPins

LEMMA NamespaceTypeOK ==
  ASSUME TypeOK, NamespaceStep, UNCHANGED promotionVars
  PROVE  TypeOK'
<1> USE DEF quotaVars, uploadVars, leaseVars, evictionVars, promotionVars
<1>1. ASSUME NEW ns \in Namespaces, NEW max \in QuotaChoices, SetNamespaceQuota(ns, max)
      PROVE  TypeOK'
  <2>1. max \in Nat \cup {Unregistered}
    BY ParameterAssumption
  <2> QED BY <1>1, <2>1 DEF TypeOK, SetNamespaceQuota
<1>2. ASSUME NEW ns \in Namespaces, DeleteNamespace(ns)
      PROVE  TypeOK'
  <2>1. pins' \in [Slots -> Pin \cup {NoPin}]
    BY <1>2, DropPinsTypeOK DEF DeleteNamespace
  <2> QED BY <1>2, <2>1 DEF TypeOK, DeleteNamespace
<1>3. ASSUME NEW ns \in Namespaces, DeleteNamespaceInterrupted(ns)
      PROVE  TypeOK'
  <2>1. pins' \in [Slots -> Pin \cup {NoPin}]
    BY <1>3, DropPinsTypeOK DEF DeleteNamespaceInterrupted
  <2> QED BY <1>3, <2>1 DEF TypeOK, DeleteNamespaceInterrupted
<1> QED BY <1>1, <1>2, <1>3 DEF NamespaceStep

LEMMA EvictionTypeOK ==
  ASSUME TypeOK, EvictionStep, UNCHANGED promotionVars
  PROVE  TypeOK'
<1> USE DEF quotaVars, uploadVars, leaseVars, evictionVars, promotionVars
<1>1. ASSUME NEW ns \in Namespaces, NEW need \in EvictionNeeds, PlanEviction(ns, need)
      PROVE  TypeOK'
  <2>1. Plan(ns, need, {}) \in Decision
    BY ParameterAssumption, PlanType
  <2> QED BY <1>1, <2>1, RecordTypeOK DEF TypeOK, PlanEviction
<1>2. ASSUME NEW ns \in Namespaces, PlanEvictionInterrupted(ns)
      PROVE  TypeOK'
  <2>1. evictSeq + 1 \in 0 .. MaxDecisions
    BY <1>2, ParameterAssumption DEF TypeOK, PlanEvictionInterrupted
  <2> QED BY <1>2, <2>1 DEF TypeOK, PlanEvictionInterrupted
<1>3. ASSUME NEW id \in DecisionIds, CommitEviction(id)
      PROVE  TypeOK'
  <2>1. Committed(decisions[id]) \in Decision
    BY <1>3, DecisionType, CommittedType DEF CommitEviction
  <2>2. entries' \in [Slots -> Entry \cup {NoEntry}]
    BY <1>3, WithoutType DEF CommitEviction
  <2> QED BY <1>3, <2>1, <2>2 DEF TypeOK, CommitEviction
<1>4. ASSUME NEW id \in DecisionIds, CommitEvictionInterrupted(id)
      PROVE  TypeOK'
  <2>1. entries' \in [Slots -> Entry \cup {NoEntry}]
    BY <1>4, WithoutType DEF CommitEvictionInterrupted
  <2> QED BY <1>4, <2>1 DEF TypeOK, CommitEvictionInterrupted
<1> QED BY <1>1, <1>2, <1>3, <1>4 DEF EvictionStep

LEMMA DeadlineType ==
  ASSUME TypeOK, NEW in \in PinInputs
  PROVE  Deadline(in) \in Nat
<1>1. in \in PinInput
  BY ParameterAssumption
<1>2. in.deadline \in Nat /\ in.ttl \in Nat
  BY <1>1 DEF PinInput
<1> QED BY <1>2, ParameterAssumption DEF Deadline, TypeOK

LEMMA LeaseTypes ==
  ASSUME TypeOK, NEW k \in Slots, NEW in \in PinInputs
  PROVE  /\ PinAllowed(k, in) => PinLease(k, in) \in Pin
         /\ LeaseAllowed(k, in) => RenewedLease(k, in) \in Pin
         /\ LeaseAllowed(k, in) => ReleasedLease(k) \in Pin
<1>1. ASSUME PinAllowed(k, in) PROVE PinLease(k, in) \in Pin
  <2>1. entries[k].version \in Nat \ {0} /\ entries[k].digest \in Artifacts
        /\ entries[k].manifest \in Manifests
    BY <1>1, PublishedType DEF PinAllowed
  <2>2. pins[k].version + 1 \in Nat \ {0}
    BY DEF TypeOK, Pin, NoPin
  <2> QED BY <2>1, <2>2, DeadlineType DEF PinLease, Pin
<1>2. ASSUME LeaseAllowed(k, in)
      PROVE  pins[k] \in Pin /\ pins[k].version + 1 \in Nat \ {0}
  <2>1. pins[k] \in Pin
    BY <1>2 DEF LeaseAllowed, PinActive, TypeOK, NoPin
  <2> QED BY <2>1 DEF Pin
<1>3. ASSUME LeaseAllowed(k, in) PROVE RenewedLease(k, in) \in Pin
  <2>1. in.ttl \in Nat
    BY ParameterAssumption DEF PinInput
  <2>2. now + (IF in.ttl > 0 THEN in.ttl ELSE DefaultPinTTL) \in Nat
    BY <2>1, ParameterAssumption DEF TypeOK
  <2>3. pins[k].deadline \in Nat
    BY <1>2, <1>3 DEF Pin
  <2> QED BY <1>2, <1>3, <2>2, <2>3 DEF RenewedLease, Pin
<1>4. ASSUME LeaseAllowed(k, in) PROVE ReleasedLease(k) \in Pin
  BY <1>2, <1>4 DEF ReleasedLease, Pin
<1> QED BY <1>1, <1>3, <1>4

LEMMA GrantTypeOK ==
  ASSUME TypeOK, NEW k \in Slots, NEW in \in PinInputs, NEW r \in RequestIds \cup {NoRequestId},
         NEW lease \in Pin, NEW action \in {"pin", "renew", "unpin"},
         GrantLease(action, k, in, r, lease) \/ GrantUnrecorded(r, k, lease)
  PROVE  /\ pins' \in [Slots -> Pin \cup {NoPin}]
         /\ pinReqs' \in [RequestIds -> PinRequest \cup {NoRequest}]
<1>1. in \in PinInput
  BY ParameterAssumption
<1>2. [action |-> action, slot |-> k, input |-> in, result |-> lease] \in PinRequest
  BY <1>1 DEF PinRequest
<1> QED BY <1>2 DEF TypeOK, GrantLease, GrantUnrecorded

LEMMA PinTypeOK ==
  ASSUME TypeOK, PinStep, UNCHANGED promotionVars
  PROVE  TypeOK'
<1> USE DEF quotaVars, uploadVars, evictionVars, promotionVars
<1>1. ASSUME NEW k \in Slots, NEW in \in PinInputs, NEW r \in RequestIds \cup {NoRequestId},
             PinEntry(k, in, r) \/ PinEntryInterrupted(k, in, r)
      PROVE  TypeOK'
  <2>1. /\ pins' \in [Slots -> Pin \cup {NoPin}]
        /\ pinReqs' \in [RequestIds -> PinRequest \cup {NoRequest}]
    BY <1>1, LeaseTypes, GrantTypeOK DEF PinEntry, PinEntryInterrupted
  <2> QED BY <1>1, <2>1 DEF TypeOK, PinEntry, PinEntryInterrupted
<1>2. ASSUME NEW k \in Slots, NEW in \in PinInputs, NEW r \in RequestIds \cup {NoRequestId},
             RenewPin(k, in, r) \/ RenewPinInterrupted(k, in, r)
      PROVE  TypeOK'
  <2>1. /\ pins' \in [Slots -> Pin \cup {NoPin}]
        /\ pinReqs' \in [RequestIds -> PinRequest \cup {NoRequest}]
    BY <1>2, LeaseTypes, GrantTypeOK DEF RenewPin, RenewPinInterrupted
  <2> QED BY <1>2, <2>1 DEF TypeOK, RenewPin, RenewPinInterrupted
<1>3. ASSUME NEW k \in Slots, NEW in \in PinInputs, NEW r \in RequestIds \cup {NoRequestId},
             Unpin(k, in, r) \/ UnpinInterrupted(k, in, r)
      PROVE  TypeOK'
  <2>1. /\ pins' \in [Slots -> Pin \cup {NoPin}]
        /\ pinReqs' \in [RequestIds -> PinRequest \cup {NoRequest}]
    BY <1>3, LeaseTypes, GrantTypeOK DEF Unpin, UnpinInterrupted
  <2> QED BY <1>3, <2>1 DEF TypeOK, Unpin, UnpinInterrupted
<1>4. ASSUME SweepExpiredPins \/ SweepExpiredPinsInterrupted
      PROVE  TypeOK'
  <2>1. PICK K \in SUBSET OverduePins : ExpirePins(K)
    BY <1>4 DEF SweepExpiredPins, SweepExpiredPinsInterrupted
  <2> QED BY <1>4, <2>1, ExpireTypeOK DEF TypeOK, SweepExpiredPins, SweepExpiredPinsInterrupted
<1> QED BY <1>1, <1>2, <1>3, <1>4 DEF PinStep

\* Whatever a run of the collector does, complete or cut short: it ends sessions that
\* are dead, leases that are overdue, and blobs that are garbage.
LEMMA CollectShape ==
  ASSUME CollectStep
  PROVE  /\ \E D \in SUBSET DeadSessions : ForgetSessions(D)
         /\ pins' = pins \/ \E K \in SUBSET OverduePins : ExpirePins(K)
         /\ \E B \in SUBSET Garbage : blobs' = blobs \ B
         /\ UNCHANGED <<now, quotaVars, entries, pinReqs, evictionVars>>
<1>1. CASE CollectGarbage
  BY <1>1 DEF CollectGarbage
<1>2. CASE CollectGarbageInterrupted
  <2>1. UNCHANGED blobs => \E B \in SUBSET Garbage : blobs' = blobs \ B
    OBVIOUS
  <2> QED BY <1>2, <2>1 DEF CollectGarbageInterrupted
<1> QED BY <1>1, <1>2 DEF CollectStep

LEMMA CollectTypeOK ==
  ASSUME TypeOK, CollectStep, UNCHANGED promotionVars
  PROVE  TypeOK'
<1>1. PICK D \in SUBSET DeadSessions : ForgetSessions(D)
  BY CollectShape
<1>2. D \in SUBSET SessionIds
  BY DEF DeadSessions
<1>3. pins' \in [Slots -> Pin \cup {NoPin}]
  BY CollectShape, ExpireTypeOK DEF TypeOK
<1>4. blobs' \subseteq Blobs
  BY CollectShape DEF TypeOK
<1>5. UNCHANGED <<now, quotaVars, entries, pinReqs, evictionVars>>
  BY CollectShape
<1> QED BY <1>1, <1>2, <1>3, <1>4, <1>5, ForgetTypeOK
        DEF TypeOK, quotaVars, evictionVars, promotionVars

(* Promotion. *)

LEMMA PromotionType ==
  ASSUME TypeOK, NEW p \in PromoIds, promotions[p].status # "none"
  PROVE  promotions[p] \in Promotion
BY DEF TypeOK, NoPromotion

LEMMA FrozenType ==
  ASSUME TypeOK, NEW source \in Slots, NEW target \in Slots, source # target,
         NEW m \in PromotionModes, NEW r \in RequestIds \cup {NoRequestId},
         NEW eviction \in 0 .. MaxDecisions,
         Published(source), Registered(target[1])
  PROVE  Frozen(source, target, m, r, eviction) \in Promotion
<1>1. /\ entries[source].version \in Nat \ {0}
      /\ entries[source].digest \in Artifacts
      /\ entries[source].manifest \in Manifests
  BY PublishedType
<1>2. entries[target].version \in Nat
  BY VersionType
<1>3. (IF Published(target) THEN entries[target].digest ELSE NoDigest) \in Artifacts \cup {NoDigest}
  BY PublishedType
<1>4. target[1] \in Namespaces
  BY DEF Slots
<1>5. quota[target[1]] \in Nat /\ quotaSetAt[target[1]] \in Nat
  BY <1>4 DEF TypeOK, Registered
<1>6. m \in {"copy", "replace"}
  BY ParameterAssumption
<1> QED BY <1>1, <1>2, <1>3, <1>5, <1>6 DEF Frozen, Promotion

LEMMA SavePreparedTypeOK ==
  ASSUME TypeOK, NEW source \in Slots, NEW target \in Slots, source # target,
         NEW m \in PromotionModes, NEW r \in RequestIds \cup {NoRequestId},
         Promotable(source, target, m, r), SavePrepared(source, target, m, r)
  PROVE  /\ promotions' \in [PromoIds -> Promotion \cup {NoPromotion}]
         /\ decisions' \in [DecisionIds -> Decision \cup {NoDecision}]
         /\ evictSeq' \in 0 .. MaxDecisions
         /\ promoSeq' \in 0 .. MaxPromotions
         /\ promoSeq + 1 \in 0 .. MaxPromotions
<1>1. Published(source) /\ Registered(target[1]) /\ target[1] \in Namespaces
  BY DEF Promotable, Slots
<1>2. promoSeq + 1 \in 0 .. MaxPromotions /\ promoSeq' = promoSeq + 1
  BY ParameterAssumption DEF TypeOK, Promotable, SavePrepared
<1>3. CASE NeedsRoom(source, target)
  <2> DEFINE plan == RoomPlan(source, target)
  <2>1. plan \in Decision
    BY <1>1, <1>3, PlanType DEF NeedsRoom, RoomPlan
  <2>2. evictSeq < MaxDecisions /\ evictSeq' = evictSeq + 1
        /\ decisions' = [decisions EXCEPT ![evictSeq + 1] = plan]
    BY <1>3 DEF SavePrepared, RecordDecision
  <2>3. evictSeq + 1 \in 0 .. MaxDecisions
    BY <2>2, ParameterAssumption DEF TypeOK
  <2>4. Frozen(source, target, m, r, evictSeq + 1) \in Promotion
    BY <1>1, <2>3, FrozenType
  <2>5. promotions' = [promotions EXCEPT ![promoSeq + 1] = Frozen(source, target, m, r, evictSeq + 1)]
    BY <1>3 DEF SavePrepared
  <2> QED BY <1>2, <2>1, <2>2, <2>3, <2>4, <2>5 DEF TypeOK
<1>4. CASE ~ NeedsRoom(source, target)
  <2>1. Frozen(source, target, m, r, 0) \in Promotion
    BY <1>1, FrozenType, ParameterAssumption
  <2>2. /\ promotions' = [promotions EXCEPT ![promoSeq + 1] = Frozen(source, target, m, r, 0)]
        /\ UNCHANGED <<decisions, evictSeq>>
    BY <1>4 DEF SavePrepared, evictionVars
  <2> QED BY <1>2, <2>1, <2>2 DEF TypeOK
<1> QED BY <1>3, <1>4

LEMMA PrepareTypeOK ==
  ASSUME TypeOK, PrepareStep
  PROVE  TypeOK'
<1> USE DEF quotaVars, uploadVars, leaseVars
<1>1. PICK route \in PromotionRoutes, m \in PromotionModes, r \in RequestIds \cup {NoRequestId} :
        \/ PreparePromotion(route[1], route[2], m, r)
        \/ PreparePromotionUnrecorded(route[1], route[2], m, r)
        \/ PreparePromotionRefused(route[1], route[2], m, r)
  BY DEF PrepareStep
<1> DEFINE source == route[1]
           target == route[2]
<1>2. source \in Slots /\ target \in Slots /\ source # target
  BY ParameterAssumption
<1> HIDE DEF source, target
<1>3. CASE PreparePromotion(source, target, m, r)
  <2>1. promoReqs' \in [RequestIds -> 0 .. MaxPromotions]
    BY <1>2, <1>3, SavePreparedTypeOK DEF TypeOK, PreparePromotion
  <2> QED BY <1>2, <1>3, <2>1, SavePreparedTypeOK DEF TypeOK, PreparePromotion
<1>4. CASE PreparePromotionUnrecorded(source, target, m, r)
  BY <1>2, <1>4, SavePreparedTypeOK DEF TypeOK, PreparePromotionUnrecorded
<1>5. CASE PreparePromotionRefused(source, target, m, r)
  <2>1. promoSeq' \in 0 .. MaxPromotions
    BY <1>5, ParameterAssumption DEF TypeOK, PreparePromotionRefused, Promotable
  <2>2. /\ decisions' \in [DecisionIds -> Decision \cup {NoDecision}]
        /\ evictSeq' \in 0 .. MaxDecisions
    <3>1. CASE NeedsRoom(source, target) /\ RecordDecision(RoomPlan(source, target))
      <4>1. target[1] \in Namespaces
        BY <1>2 DEF Slots
      <4>2. RoomPlan(source, target) \in Decision
        BY <3>1, <4>1, PlanType DEF NeedsRoom, RoomPlan
      <4> QED BY <3>1, <4>2, RecordTypeOK
    <3>2. CASE /\ UNCHANGED decisions
               /\ UNCHANGED evictSeq \/ (evictSeq < MaxDecisions /\ evictSeq' = evictSeq + 1)
      BY <3>2, ParameterAssumption DEF TypeOK
    <3> QED BY <1>5, <3>1, <3>2 DEF PreparePromotionRefused
  <2> QED BY <1>5, <2>1, <2>2 DEF TypeOK, PreparePromotionRefused
<1> QED BY <1>1, <1>3, <1>4, <1>5 DEF source, target

LEMMA OutcomeTypeOK ==
  ASSUME TypeOK, NEW p \in PromoIds, promotions[p].status # "none",
         NEW outcome \in {"committed", "failed"}, SetOutcome(p, outcome)
  PROVE  promotions' \in [PromoIds -> Promotion \cup {NoPromotion}]
<1>1. promotions[p] \in Promotion
  BY PromotionType
<1>2. [promotions[p] EXCEPT !.status = outcome] \in Promotion
  BY <1>1 DEF Promotion
<1> QED BY <1>2 DEF TypeOK, SetOutcome

LEMMA RequestTypeOK ==
  ASSUME TypeOK, NEW p \in PromoIds, RecordRequest(p)
  PROVE  promoReqs' \in [RequestIds -> 0 .. MaxPromotions]
<1>1. p \in 0 .. MaxPromotions
  BY ParameterAssumption DEF PromoIds
<1> QED BY <1>1 DEF TypeOK, RecordRequest

(* TypeOK alone is not inductive: a commit acts on the promotion its redo log *)
(* names and on the decision that promotion names, and both must be recorded. *)

LogsNamePromotions ==
  \A p \in PromoIds : promoTxns[p] # NoTxn => promotions[p].status # "none"

PlansRecorded ==
  \A p \in PromoIds :
    promotions[p].status # "none" /\ promotions[p].eviction # 0
    => decisions[promotions[p].eviction].status # "none"

TypeInv == TypeOK /\ LogsNamePromotions /\ PlansRecorded

LEMMA AppliedType ==
  ASSUME TypeInv, NEW p \in PromoIds, promoTxns[p] # NoTxn
  PROVE  /\ promotions[p] \in Promotion
         /\ promotions[p].eviction # 0 =>
              /\ promotions[p].eviction \in DecisionIds
              /\ decisions[promotions[p].eviction] \in Decision
<1>1. promotions[p].status # "none"
  BY DEF TypeInv, LogsNamePromotions
<1>2. promotions[p] \in Promotion
  BY <1>1, PromotionType DEF TypeInv
<1>3. promotions[p].eviction \in 0 .. MaxDecisions
  BY <1>2 DEF Promotion
<1>4. ASSUME promotions[p].eviction # 0
      PROVE  /\ promotions[p].eviction \in DecisionIds
             /\ decisions[promotions[p].eviction] \in Decision
  <2>1. promotions[p].eviction \in DecisionIds
    BY <1>3, <1>4, ParameterAssumption DEF DecisionIds
  <2>2. decisions[promotions[p].eviction].status # "none"
    BY <1>1, <1>4 DEF TypeInv, PlansRecorded
  <2> QED BY <2>1, <2>2, DecisionType DEF TypeInv
<1> QED BY <1>2, <1>4

LEMMA PromotedEntryType ==
  ASSUME TypeInv, NEW p \in PromoIds, promoTxns[p] # NoTxn
  PROVE  PromotedEntry(p) \in Entry
<1>1. promotions[p] \in Promotion
  BY AppliedType
<1>2. OriginOf(p) \in Origin
  BY <1>1 DEF OriginOf, Origin, Promotion
<1>3. promotions[p].base + 1 \in Nat \ {0} /\ now \in Nat
  BY <1>1 DEF Promotion, TypeInv, TypeOK
<1> QED BY <1>1, <1>2, <1>3 DEF PromotedEntry, Entry, Promotion

LEMMA CommitTypeOK ==
  ASSUME TypeInv, NEW p \in PromoIds,
         BeginCommit(p) \/ ResumeCommit(p) \/ RejectCommit(p) \/ RecoverCommit(p)
  PROVE  TypeOK'
<1> USE DEF quotaVars, uploadVars, leaseVars, evictionVars
<1>1. p \in 0 .. MaxPromotions
  BY ParameterAssumption DEF PromoIds
<1>2. CASE BeginCommit(p)
  BY <1>1, <1>2 DEF TypeInv, TypeOK, BeginCommit, Phases
<1>3. CASE ResumeCommit(p)
  BY <1>1, <1>3 DEF TypeInv, TypeOK, ResumeCommit
<1>4. CASE RejectCommit(p)
  <2>1. promotions' \in [PromoIds -> Promotion \cup {NoPromotion}]
    BY <1>4, OutcomeTypeOK DEF RejectCommit, Prepared, TypeInv
  <2>2. promoReqs' \in [RequestIds -> 0 .. MaxPromotions]
    BY <1>4, RequestTypeOK DEF RejectCommit, TypeInv, TypeOK
  <2> QED BY <1>4, <2>1, <2>2 DEF TypeInv, TypeOK, RejectCommit
<1>5. CASE RecoverCommit(p)
  BY <1>1, <1>5 DEF TypeInv, TypeOK, RecoverCommit
<1> QED BY <1>2, <1>3, <1>4, <1>5

LEMMA ApplyTypeOK ==
  ASSUME TypeInv,
         \/ ApplyStep
         \/ \E p \in PromoIds : FailCommitKeepingLog(p) \/ InterruptEviction(p)
         \/ InterruptCommit
  PROVE  TypeOK'
<1> USE DEF quotaVars, uploadVars, leaseVars, evictionVars, promotionVars
<1>0. TypeOK
  BY DEF TypeInv
<1>1. ASSUME NEW p \in PromoIds, ApplyEviction(p)
      PROVE  TypeOK'
  <2> DEFINE id == promotions[p].eviction
  <2>1. promoTxns[p] # NoTxn /\ id # 0
    BY <1>1 DEF ApplyEviction, Applying, RoomMade, NoTxn
  <2>2. id \in DecisionIds /\ Committed(decisions[id]) \in Decision
    BY <2>1, AppliedType, CommittedType
  <2>3. entries' \in [Slots -> Entry \cup {NoEntry}]
    BY <1>0, <1>1, WithoutType DEF ApplyEviction
  <2> QED BY <1>0, <1>1, <2>2, <2>3 DEF TypeOK, ApplyEviction
<1>2. ASSUME NEW p \in PromoIds, ConfirmRoom(p) \/ ConfirmEntry(p)
      PROVE  TypeOK'
  BY <1>0, <1>2 DEF TypeOK, ConfirmRoom, ConfirmEntry, Phases
<1>3. ASSUME NEW p \in PromoIds, WriteEntry(p)
      PROVE  TypeOK'
  <2>1. PromotedEntry(p) \in Entry
    BY <1>3, PromotedEntryType DEF WriteEntry, Applying, NoTxn
  <2> QED BY <1>0, <1>3, <2>1 DEF TypeOK, WriteEntry
<1>4. ASSUME NEW p \in PromoIds, RecordCommitted(p) \/ RecordCommittedRequest(p)
      PROVE  TypeOK'
  <2>1. promoTxns[p] # NoTxn
    BY <1>4 DEF RecordCommitted, RecordCommittedRequest, Applying, NoTxn
  <2>2. promotions[p].status # "none"
    BY <2>1 DEF TypeInv, LogsNamePromotions
  <2>3. promotions' \in [PromoIds -> Promotion \cup {NoPromotion}]
    BY <1>0, <1>4, <2>2, OutcomeTypeOK DEF RecordCommitted, RecordCommittedRequest, TypeOK
  <2>4. promoReqs' \in [RequestIds -> 0 .. MaxPromotions]
    BY <1>0, <1>4, RequestTypeOK DEF RecordCommitted, RecordCommittedRequest, TypeOK
  <2> QED BY <1>0, <1>4, <2>3, <2>4 DEF TypeOK, RecordCommitted, RecordCommittedRequest
<1>5. ASSUME NEW p \in PromoIds, CloseLog(p)
      PROVE  TypeOK'
  BY <1>0, <1>5, ParameterAssumption DEF TypeOK, CloseLog, EndedStart
<1>6. ASSUME NEW p \in PromoIds, FailCommit(p) \/ FailCommitKeepingLog(p)
      PROVE  TypeOK'
  <2>1. promoTxns[p] # NoTxn
    BY <1>6 DEF FailCommit, FailCommitKeepingLog, CannotApply, Applying, NoTxn
  <2>2. promotions[p].status # "none"
    BY <2>1 DEF TypeInv, LogsNamePromotions
  <2>3. promotions' \in [PromoIds -> Promotion \cup {NoPromotion}]
    BY <1>0, <1>6, <2>2, OutcomeTypeOK DEF FailCommit, FailCommitKeepingLog
  <2>4. promoReqs' \in [RequestIds -> 0 .. MaxPromotions]
    BY <1>0, <1>6, RequestTypeOK DEF FailCommit, FailCommitKeepingLog, TypeOK
  <2> QED BY <1>0, <1>6, <2>3, <2>4, ParameterAssumption
          DEF TypeOK, FailCommit, FailCommitKeepingLog, EndedStart
<1>7. ASSUME NEW p \in PromoIds, InterruptEviction(p)
      PROVE  TypeOK'
  <2>1. entries' \in [Slots -> Entry \cup {NoEntry}]
    BY <1>0, <1>7, WithoutType DEF InterruptEviction
  <2> QED BY <1>0, <1>7, <2>1, ParameterAssumption DEF TypeOK, InterruptEviction, EndedStart
<1>8. CASE InterruptCommit
  BY <1>0, <1>8, ParameterAssumption DEF TypeOK, InterruptStep, InterruptCommit, EndedStart
<1> QED BY <1>1, <1>2, <1>3, <1>4, <1>5, <1>6, <1>7, <1>8 DEF ApplyStep

LEMMA ProcessTypeOK ==
  ASSUME TypeOK, Tick \/ Restart \/ StartServing
  PROVE  TypeOK'
<1> USE DEF quotaVars, uploadVars, leaseVars, evictionVars, promotionVars
<1>1. CASE Tick
  BY <1>1 DEF TypeOK, Tick
<1>2. CASE Restart
  BY <1>2, ParameterAssumption, NamesAssumption
  DEF TypeOK, Restart, RestoreIdem, RestoreEvictSeq, RestorePromoSeq
<1>3. CASE StartServing
  BY <1>3, ParameterAssumption DEF TypeOK, StartServing, FinishStart
<1> QED BY <1>1, <1>2, <1>3

LEMMA StepTypeOK ==
  ASSUME TypeInv, Next
  PROVE  TypeOK'
<1>1. CASE CacheStep
  BY <1>1, UploadTypeOK, PublishTypeOK, ReadTypeOK, NamespaceTypeOK, EvictionTypeOK,
     PinTypeOK, CollectTypeOK
  DEF TypeInv, CacheStep
<1>2. CASE PromotionStep
  BY <1>2, PrepareTypeOK, CommitTypeOK, ApplyTypeOK DEF TypeInv, PromotionStep, InterruptStep
<1>3. CASE StartStep
  BY <1>3, ProcessTypeOK, CommitTypeOK DEF TypeInv, StartStep
<1> QED BY <1>1, <1>2, <1>3, ProcessTypeOK DEF TypeInv, Next

\* A decision names entries of its namespace.
InNamespace(d) == \A c \in d.candidates : c.slot[1] = d.ns

\* A decision that names such entries as they are in this state.
FreshPlan(d) ==
  /\ InNamespace(d)
  /\ \A c \in d.candidates :
       /\ Published(c.slot)
       /\ c.version = entries[c.slot].version
       /\ c.digest = entries[c.slot].digest
       /\ c.lastAccess = entries[c.slot].lastAccess

LEMMA PlanFresh ==
  ASSUME NEW ns, NEW need, NEW excluded
  PROVE  FreshPlan(Plan(ns, need, excluded))
<1>1. ASSUME NEW k \in Victims(ns, need, excluded)
      PROVE  Published(k) /\ k[1] = ns
  BY <1>1 DEF Victims, Evictable
<1> QED BY <1>1 DEF FreshPlan, InNamespace, Plan, Snapshot

LEMMA CommittedNames ==
  ASSUME NEW d \in Decision, NEW x \in Committed(d).candidates
  PROVE  \E c \in d.candidates :
           /\ c \in Candidate /\ x = [c EXCEPT !.outcome = Recheck(c)]
           /\ x.slot = c.slot /\ x.version = c.version /\ x.digest = c.digest
           /\ x.lastAccess = c.lastAccess
<1>1. PICK c \in d.candidates : x = [c EXCEPT !.outcome = Recheck(c)]
  BY DEF Committed, Decision
<1>2. c \in Candidate
  BY DEF Decision
<1>3. x.slot = c.slot /\ x.version = c.version /\ x.digest = c.digest /\ x.lastAccess = c.lastAccess
  BY <1>1, <1>2 DEF Candidate
<1> QED BY <1>1, <1>2, <1>3

LEMMA CommittedInNamespace ==
  ASSUME NEW d \in Decision, InNamespace(d)
  PROVE  InNamespace(Committed(d))
<1>1. Committed(d).ns = d.ns
  BY DEF Committed, Decision
<1> QED BY <1>1, CommittedNames DEF InNamespace

LEMMA CommittedFresh ==
  ASSUME NEW d \in Decision, FreshPlan(d)
  PROVE  FreshPlan(Committed(d))
<1> SUFFICES ASSUME NEW x \in Committed(d).candidates
             PROVE  /\ Published(x.slot)
                    /\ x.version = entries[x.slot].version
                    /\ x.digest = entries[x.slot].digest
                    /\ x.lastAccess = entries[x.slot].lastAccess
  BY CommittedInNamespace DEF FreshPlan
<1> QED BY CommittedNames DEF FreshPlan

\* All a step may do to the decisions: record one under the next number, or commit
\* a proposed one.
DecisionRecorded == \E d \in Decision : RecordDecision(d) /\ FreshPlan(d)

DecisionCommitted ==
  /\ UNCHANGED evictSeq
  /\ \E id \in DecisionIds :
       /\ decisions[id].status = "proposed"
       /\ decisions' = [decisions EXCEPT ![id] = Committed(decisions[id])]

DecisionsUntouched ==
  UNCHANGED decisions /\ (UNCHANGED evictSeq \/ evictSeq' = evictSeq + 1 \/ RestoreEvictSeq)

LEMMA DecisionShape ==
  ASSUME TypeInv, Next
  PROVE  DecisionRecorded \/ DecisionCommitted \/ DecisionsUntouched
<1> USE DEF quotaVars, uploadVars, leaseVars, evictionVars, promotionVars, DecisionsUntouched
<1>1. CASE CacheStep
  <2>1. CASE UploadStep
    BY <2>1 DEF UploadStep, CreateSession, CreateSessionInterrupted, UploadChunk,
         UploadChunkInterrupted, RenewSession, Cancel, SweepExpired, SweepExpiredInterrupted
  <2>2. CASE PublishStep
    <3> PICK s \in SessionIds, v \in ExpectedVersions :
          \/ Complete(s, v)
          \/ CompleteOverQuota(s, v)
          \/ CompleteUnclosed(s, v)
          \/ CompleteInterrupted(s, v)
      BY <2>2 DEF PublishStep
    <3>1. \/ DecisionsUntouched
          \/ /\ OverQuota(s) /\ Publishable(s)
             /\ RecordDecision(RoomDecision(s)) \/ RecordDecision(Committed(RoomDecision(s)))
      BY DEF Complete, CompleteOverQuota, CompleteUnclosed, CompleteInterrupted,
             Publish, Reuse, PublishWithinQuota, PublishAfterEviction
    <3>2. ASSUME OverQuota(s), Publishable(s)
          PROVE  RoomDecision(s) \in Decision
      BY <3>2, PublishTypes DEF TypeInv
    <3>3. FreshPlan(RoomDecision(s))
      BY PlanFresh DEF RoomDecision
    <3> QED BY <3>1, <3>2, <3>3, CommittedType, CommittedFresh DEF DecisionRecorded
  <2>3. CASE ReadStep
    BY <2>3 DEF ReadStep, Read
  <2>4. CASE NamespaceStep
    BY <2>4 DEF NamespaceStep, SetNamespaceQuota, DeleteNamespace, DeleteNamespaceInterrupted
  <2>5. CASE EvictionStep
    <3>1. ASSUME NEW ns \in Namespaces, NEW need \in EvictionNeeds, PlanEviction(ns, need)
          PROVE  DecisionRecorded
      <4>1. Plan(ns, need, {}) \in Decision
        BY <3>1, PlanType, ParameterAssumption DEF TypeInv
      <4> QED BY <3>1, <4>1, PlanFresh DEF PlanEviction, DecisionRecorded
    <3>2. ASSUME NEW id \in DecisionIds, CommitEviction(id)
          PROVE  DecisionCommitted
      BY <3>2 DEF CommitEviction, DecisionCommitted
    <3> QED BY <2>5, <3>1, <3>2
            DEF EvictionStep, PlanEvictionInterrupted, CommitEvictionInterrupted
  <2>6. CASE PinStep
    BY <2>6 DEF PinStep, PinEntry, PinEntryInterrupted, RenewPin, RenewPinInterrupted, Unpin,
         UnpinInterrupted, SweepExpiredPins, SweepExpiredPinsInterrupted
  <2>7. CASE CollectStep
    BY <2>7, CollectShape
  <2> QED BY <1>1, <2>1, <2>2, <2>3, <2>4, <2>5, <2>6, <2>7 DEF CacheStep
<1>2. CASE PrepareStep
  <2> PICK route \in PromotionRoutes, m \in PromotionModes, r \in RequestIds \cup {NoRequestId} :
        \/ PreparePromotion(route[1], route[2], m, r)
        \/ PreparePromotionUnrecorded(route[1], route[2], m, r)
        \/ PreparePromotionRefused(route[1], route[2], m, r)
    BY <1>2 DEF PrepareStep
  <2> DEFINE source == route[1]
             target == route[2]
  <2>1. \/ DecisionsUntouched
        \/ NeedsRoom(source, target) /\ RecordDecision(RoomPlan(source, target))
    BY DEF PreparePromotion, PreparePromotionUnrecorded, PreparePromotionRefused, SavePrepared
  <2>2. target[1] \in Namespaces
    BY ParameterAssumption DEF Slots
  <2>3. NeedsRoom(source, target) => RoomPlan(source, target) \in Decision
    BY <2>2, PlanType DEF NeedsRoom, RoomPlan, TypeInv
  <2>4. FreshPlan(RoomPlan(source, target))
    BY PlanFresh DEF RoomPlan
  <2> QED BY <2>1, <2>3, <2>4 DEF DecisionRecorded
<1>3. ASSUME NEW p \in PromoIds, ApplyEviction(p)
      PROVE  DecisionCommitted
  <2> DEFINE id == promotions[p].eviction
  <2>1. promoTxns[p] # NoTxn /\ id # 0 /\ decisions[id].status # "committed"
    BY <1>3 DEF ApplyEviction, Applying, RoomMade, NoTxn
  <2>2. id \in DecisionIds /\ decisions[id] \in Decision
    BY <2>1, AppliedType DEF TypeInv
  <2>3. decisions[id].status = "proposed"
    BY <2>1, <2>2 DEF Decision
  <2> QED BY <1>3, <2>2, <2>3 DEF ApplyEviction, DecisionCommitted
<1>4. CASE PromotionStep /\ ~ PrepareStep /\ ~ \E p \in PromoIds : ApplyEviction(p)
  BY <1>4 DEF PromotionStep, BeginCommit, ResumeCommit, RejectCommit, FailCommitKeepingLog,
       InterruptEviction, InterruptStep, InterruptCommit, ApplyStep, ConfirmRoom, WriteEntry,
       ConfirmEntry,
       RecordCommitted, RecordCommittedRequest, CloseLog, FailCommit
<1>5. CASE StartStep \/ Tick \/ Restart
  BY <1>5 DEF StartStep, StartServing, FinishStart, RecoverCommit, Tick, Restart
<1> QED BY <1>1, <1>2, <1>3, <1>4, <1>5 DEF Next

\* No step takes a decision back.
LEMMA DecisionsStay ==
  ASSUME TypeInv, Next
  PROVE  \A i \in DecisionIds : decisions[i].status # "none" => decisions'[i].status # "none"
<1> SUFFICES ASSUME NEW i \in DecisionIds, decisions[i].status # "none"
             PROVE  decisions'[i].status # "none"
  OBVIOUS
<1>1. ASSUME NEW id \in DecisionIds, NEW d \in Decision,
             decisions' = [decisions EXCEPT ![id] = d]
      PROVE  decisions'[i].status # "none"
  BY <1>1 DEF TypeInv, TypeOK, Decision
<1>2. CASE DecisionRecorded
  <2>1. PICK d \in Decision : RecordDecision(d)
    BY <1>2 DEF DecisionRecorded
  <2>2. evictSeq + 1 \in DecisionIds
    BY <2>1, ParameterAssumption DEF TypeInv, TypeOK, RecordDecision, DecisionIds
  <2> QED BY <1>1, <2>1, <2>2 DEF RecordDecision
<1>3. CASE DecisionCommitted
  BY <1>1, <1>3, DecisionType, CommittedType DEF DecisionCommitted, TypeInv
<1> QED BY <1>2, <1>3, DecisionShape DEF DecisionsUntouched

\* The actions that write the outcome of a promotion.
SettledBy(p) ==
  RejectCommit(p) \/ FailCommit(p) \/ FailCommitKeepingLog(p) \/ RecordCommitted(p)

\* What a step may do to the promotions: nothing, save a new one with its plan
\* recorded, or set the outcome of a recorded one.
LEMMA PromotionShape ==
  ASSUME TypeInv, Next
  PROVE  \/ UNCHANGED promotions
         \/ \E source, target \in Slots : \E m, r :
              /\ <<source, target>> \in PromotionRoutes
              /\ Promotable(source, target, m, r) /\ SavePrepared(source, target, m, r)
         \/ \E p \in PromoIds, outcome \in {"committed", "failed"} :
              promotions[p].status # "none" /\ SetOutcome(p, outcome) /\ SettledBy(p)
<1> USE DEF evictionVars, promotionVars
<1>1. CASE CacheStep \/ Tick \/ Restart \/ StartStep
  BY <1>1 DEF CacheStep, Tick, Restart, StartStep, StartServing, FinishStart, RecoverCommit
<1>2. CASE PrepareStep
  <2>1. PICK route \in PromotionRoutes, m \in PromotionModes, r \in RequestIds \cup {NoRequestId} :
          \/ PreparePromotion(route[1], route[2], m, r)
          \/ PreparePromotionUnrecorded(route[1], route[2], m, r)
          \/ PreparePromotionRefused(route[1], route[2], m, r)
    BY <1>2 DEF PrepareStep
  <2>2. route[1] \in Slots /\ route[2] \in Slots /\ <<route[1], route[2]>> = route
    BY ParameterAssumption
  <2>3. \/ UNCHANGED promotions
        \/ Promotable(route[1], route[2], m, r) /\ SavePrepared(route[1], route[2], m, r)
    BY <2>1 DEF PreparePromotion, PreparePromotionUnrecorded, PreparePromotionRefused
  <2> QED BY <2>2, <2>3
<1>3. ASSUME NEW p \in PromoIds, SettledBy(p)
      PROVE  \E outcome \in {"committed", "failed"} :
               promotions[p].status # "none" /\ SetOutcome(p, outcome)
  <2>1. Prepared(p) \/ promoTxns[p] # NoTxn
    BY <1>3 DEF SettledBy, RejectCommit, FailCommit, FailCommitKeepingLog, RecordCommitted,
         CannotApply, Applying, NoTxn
  <2>2. promotions[p].status # "none"
    BY <2>1 DEF Prepared, TypeInv, LogsNamePromotions
  <2> QED BY <1>3, <2>2
          DEF SettledBy, RejectCommit, FailCommit, FailCommitKeepingLog, RecordCommitted
<1>4. CASE PromotionStep /\ ~ PrepareStep
  <2>1. UNCHANGED promotions \/ \E p \in PromoIds : SettledBy(p)
    BY <1>4 DEF SettledBy, PromotionStep, BeginCommit, ResumeCommit, InterruptEviction,
         InterruptStep, InterruptCommit,
         ApplyStep, ApplyEviction, ConfirmRoom, WriteEntry, ConfirmEntry,
         RecordCommittedRequest, CloseLog
  <2> QED BY <1>3, <2>1
<1> QED BY <1>1, <1>2, <1>4 DEF Next, PromotionStep

LEMMA PlansStayRecorded ==
  ASSUME TypeInv, Next
  PROVE  PlansRecorded'
<1> SUFFICES ASSUME NEW q \in PromoIds,
                    promotions'[q].status # "none", promotions'[q].eviction # 0
             PROVE  decisions'[promotions'[q].eviction].status # "none"
  BY DEF PlansRecorded
<1>1. ASSUME promotions[q].status # "none", promotions'[q].eviction = promotions[q].eviction
      PROVE  decisions'[promotions'[q].eviction].status # "none"
  <2>1. promotions[q] \in Promotion
    BY <1>1, PromotionType DEF TypeInv
  <2>2. promotions[q].eviction \in DecisionIds
    BY <1>1, <2>1, ParameterAssumption DEF Promotion, DecisionIds
  <2>3. decisions[promotions[q].eviction].status # "none"
    BY <1>1 DEF TypeInv, PlansRecorded
  <2> QED BY <1>1, <2>2, <2>3, DecisionsStay
<1>2. ASSUME UNCHANGED promotions
      PROVE  decisions'[promotions'[q].eviction].status # "none"
  BY <1>1, <1>2
<1>3. ASSUME NEW source \in Slots, NEW target \in Slots, NEW m, NEW r,
             SavePrepared(source, target, m, r)
      PROVE  decisions'[promotions'[q].eviction].status # "none"
  <2>1. CASE promotions'[q] = promotions[q]
    BY <1>1, <2>1
  <2>2. CASE promotions'[q] # promotions[q]
    <3>1. \/ /\ promotions'[q] = Frozen(source, target, m, r, evictSeq + 1)
             /\ RecordDecision(RoomPlan(source, target))
          \/ promotions'[q] = Frozen(source, target, m, r, 0)
      BY <1>3, <2>2 DEF SavePrepared, TypeInv, TypeOK
    <3>2. /\ promotions'[q].eviction = evictSeq + 1
          /\ RecordDecision(RoomPlan(source, target))
      BY <3>1 DEF Frozen
    <3>3. evictSeq + 1 \in DecisionIds
      BY <3>2, ParameterAssumption DEF RecordDecision, TypeInv, TypeOK, DecisionIds
    <3>4. decisions'[evictSeq + 1] = RoomPlan(source, target)
      BY <3>2, <3>3 DEF RecordDecision, TypeInv, TypeOK
    <3> QED BY <3>2, <3>4 DEF RoomPlan, Plan
  <2> QED BY <2>1, <2>2
<1>4. ASSUME NEW p \in PromoIds, NEW outcome \in {"committed", "failed"},
             promotions[p].status # "none", SetOutcome(p, outcome)
      PROVE  decisions'[promotions'[q].eviction].status # "none"
  <2>1. promotions[p] \in Promotion
    BY <1>4, PromotionType DEF TypeInv
  <2>2. promotions[q].status # "none" /\ promotions'[q].eviction = promotions[q].eviction
    BY <1>4, <2>1 DEF SetOutcome, TypeInv, TypeOK, Promotion
  <2> QED BY <1>1, <2>2
<1> QED BY <1>2, <1>3, <1>4, PromotionShape

LEMMA LogsStayNamed ==
  ASSUME TypeInv, Next
  PROVE  LogsNamePromotions'
<1> USE DEF promotionVars
<1> SUFFICES ASSUME NEW q \in PromoIds, promoTxns'[q] # NoTxn
             PROVE  promotions'[q].status # "none"
  BY DEF LogsNamePromotions
<1>1. promotions[q].status # "none"
  <2>1. ASSUME NEW p \in PromoIds, BeginCommit(p) \/ ConfirmRoom(p) \/ ConfirmEntry(p) \/ CloseLog(p)
                                   \/ FailCommit(p)
        PROVE  promotions[p].status # "none"
    BY <2>1 DEF BeginCommit, ConfirmRoom, ConfirmEntry, CloseLog, FailCommit, CannotApply,
         Prepared, Applying, NoTxn, TypeInv, LogsNamePromotions
  <2>2. \/ promoTxns'[q] = promoTxns[q]
        \/ \E p \in PromoIds : /\ BeginCommit(p) \/ ConfirmRoom(p) \/ ConfirmEntry(p) \/ CloseLog(p)
                                  \/ FailCommit(p)
                               /\ p = q
        \/ promoTxns' = [p \in PromoIds |-> NoTxn]
    <3>1. CASE CacheStep \/ Tick \/ Restart \/ StartStep
      BY <3>1 DEF CacheStep, Tick, Restart, StartStep, StartServing, FinishStart, RecoverCommit
    <3>2. CASE PrepareStep
      BY <3>2 DEF PrepareStep, PreparePromotion, PreparePromotionUnrecorded,
           PreparePromotionRefused
    <3>3. CASE PromotionStep /\ ~ PrepareStep
      BY <3>3 DEF PromotionStep, BeginCommit, ResumeCommit, RejectCommit, FailCommitKeepingLog,
           InterruptEviction, InterruptStep, InterruptCommit, ApplyStep, ApplyEviction,
           ConfirmRoom, WriteEntry,
           ConfirmEntry, RecordCommitted, RecordCommittedRequest, CloseLog, FailCommit, TypeInv,
           TypeOK
    <3> QED BY <3>1, <3>2, <3>3 DEF Next, PromotionStep
  <2> QED BY <2>1, <2>2 DEF TypeInv, LogsNamePromotions
<1>2. ASSUME NEW source, NEW target, NEW m, NEW r, SavePrepared(source, target, m, r)
      PROVE  promotions'[q].status # "none"
  BY <1>1, <1>2 DEF SavePrepared, Frozen, TypeInv, TypeOK
<1>3. ASSUME NEW p \in PromoIds, NEW outcome \in {"committed", "failed"},
             promotions[p].status # "none", SetOutcome(p, outcome)
      PROVE  promotions'[q].status # "none"
  <2>1. promotions[p] \in Promotion
    BY <1>3, PromotionType DEF TypeInv
  <2> QED BY <1>1, <1>3, <2>1 DEF SetOutcome, TypeInv, TypeOK, Promotion
<1> QED BY <1>1, <1>2, <1>3, PromotionShape

\* Every reachable state is well typed: whatever the requests, failures and restarts.
THEOREM TypeInvariant == Spec => []TypeInv
<1>1. Init => TypeInv
  <2>1. ASSUME Init
        PROVE  LogsNamePromotions /\ PlansRecorded
    BY <2>1 DEF Init, LogsNamePromotions, PlansRecorded, NoPromotion
  <2> QED BY <2>1, InitTypeOK DEF TypeInv
<1>2. ASSUME TypeInv, [Next]_vars
      PROVE  TypeInv'
  <2>1. CASE Next
    BY <1>2, <2>1, StepTypeOK, PlansStayRecorded, LogsStayNamed DEF TypeInv
  <2>2. CASE UNCHANGED vars
    BY <1>2, <2>2 DEF TypeInv, TypeOK, LogsNamePromotions, PlansRecorded, vars, quotaVars,
         uploadVars, leaseVars, evictionVars, promotionVars
  <2> QED BY <1>2, <2>1, <2>2
<1> QED BY <1>1, <1>2, PTL DEF Spec

\* TypeOK is the property the runs check; TypeInv adds what makes it inductive.
THEOREM TypeCorrect == Spec => []TypeOK
<1>1. TypeInv => TypeOK
  BY DEF TypeInv
<1> QED BY <1>1, TypeInvariant, PTL
=============================================================================
