---------------------------- MODULE SafetyProofs ----------------------------
(***************************************************************************)
(* What readers, uploaders, lease holders and promotions are promised, for *)
(* every value of the constants: the inductive invariant and its proof.    *)
(* First what one step may do to entries, sessions, leases and blobs, then *)
(* what follows from that.                                                 *)
(***************************************************************************)
EXTENDS TypeProofs

-----------------------------------------------------------------------------
(* Entries. *)

LEMMA DeletedUnpinned ==
  ASSUME NEW d \in Decision, NEW k \in Deleted(Committed(d))
  PROVE  ~ PinActive(k)
<1>1. PICK x \in d.candidates : k = x.slot /\ Recheck(x) = "deleted"
  <2>1. \A x \in d.candidates : x \in Candidate
    BY DEF Decision
  <2> QED BY <2>1 DEF Deleted, Committed, Decision, Candidate
<1> QED BY <1>1 DEF Recheck

LEMMA DeletedUpToUnpinned ==
  ASSUME NEW d \in Decision, NEW last, NEW k \in DeletedUpTo(d, last)
  PROVE  ~ PinActive(k)
<1>1. k \in Deleted(Committed(d))
  BY DEF DeletedUpTo, Deleted
<1> QED BY <1>1, DeletedUnpinned

\* An entry deleted by an eviction.
EvictedUnpinned(k) == entries'[k] = NoEntry /\ ~ PinActive(k)

LEMMA WithoutShape ==
  ASSUME TypeInv, NEW d \in Decision, NEW k \in Slots,
         \/ entries' = Without(Deleted(Committed(d)))
         \/ \E last : entries' = Without(DeletedUpTo(d, last))
  PROVE  entries'[k] = entries[k] \/ EvictedUnpinned(k)
<1>1. CASE entries' = Without(Deleted(Committed(d)))
  BY <1>1, DeletedUnpinned DEF Without, EvictedUnpinned
<1>2. ASSUME NEW last, entries' = Without(DeletedUpTo(d, last))
      PROVE  entries'[k] = entries[k] \/ EvictedUnpinned(k)
  BY <1>2, DeletedUpToUnpinned DEF Without, EvictedUnpinned
<1> QED BY <1>1, <1>2

SameEntry(k) ==
  /\ entries'[k].version = entries[k].version
  /\ entries'[k].digest = entries[k].digest
  /\ entries'[k].manifest = entries[k].manifest

\* An entry that was used: only the time of its last access moves, to the present.
Touched(k) ==
  /\ Published(k) /\ SameEntry(k)
  /\ entries'[k].origin = entries[k].origin
  /\ entries'[k].lastAccess \in {entries[k].lastAccess, now}

PublishedBy(s, k) ==
  Publishable(s) /\ sessions[s].slot = k /\ entries'[k] = NewEntry(s)

PromotedBy(p, k) ==
  WriteEntry(p) /\ promotions[p].target = k /\ entries'[k] = PromotedEntry(p)

LEMMA PublishShape ==
  ASSUME TypeInv, NEW s \in SessionIds, NEW v, NEW k \in Slots, Publishable(s), Publish(s, v)
  PROVE  \/ entries'[k] = entries[k]
         \/ EvictedUnpinned(k)
         \/ Touched(k)
         \/ PublishedBy(s, k)
<1>0. TypeOK /\ sessions[s].slot \in Slots
  BY PublishTypes DEF TypeInv
<1>1. CASE Reuse(s)
  <2>1. CASE sessions[s].slot = k
    <3>1. entries[k] \in Entry
      BY <1>0, <1>1, <2>1, PublishedType DEF Reuse, SameContent
    <3>2. entries'[k] = [entries[k] EXCEPT !.lastAccess = now]
      BY <1>0, <1>1, <2>1 DEF Reuse, TypeOK
    <3> QED BY <1>1, <2>1, <3>1, <3>2 DEF Reuse, SameContent, Touched, SameEntry, Entry
  <2>2. CASE sessions[s].slot # k
    BY <1>0, <1>1, <2>2 DEF Reuse, TypeOK
  <2> QED BY <2>1, <2>2
<1>2. CASE PublishWithinQuota(s, v)
  BY <1>0, <1>2 DEF PublishWithinQuota, PublishedBy, TypeOK
<1>3. CASE PublishAfterEviction(s, v)
  <2> DEFINE D == Deleted(Committed(RoomDecision(s)))
  <2>1. RoomDecision(s) \in Decision
    BY <1>0, <1>3, PublishTypes DEF PublishAfterEviction
  <2>2. entries' = [Without(D) EXCEPT ![sessions[s].slot] = NewEntry(s)]
    BY <1>3 DEF PublishAfterEviction
  <2>3. CASE sessions[s].slot = k
    BY <1>0, <2>2, <2>3 DEF Without, PublishedBy
  <2>4. CASE sessions[s].slot # k
    <3>1. entries'[k] = IF k \in D THEN NoEntry ELSE entries[k]
      BY <2>2, <2>4 DEF Without
    <3>2. k \in D => ~ PinActive(k)
      BY <2>1, DeletedUnpinned
    <3> QED BY <3>1, <3>2 DEF EvictedUnpinned
  <2> QED BY <2>3, <2>4
<1> QED BY <1>1, <1>2, <1>3 DEF Publish

\* Which steps touch entries.
LEMMA EntrySteps ==
  ASSUME Next
  PROVE  \/ entries' = entries
         \/ PublishStep
         \/ ReadStep
         \/ \E id \in DecisionIds : CommitEviction(id) \/ CommitEvictionInterrupted(id)
         \/ \E p \in PromoIds : ApplyEviction(p) \/ InterruptEviction(p) \/ WriteEntry(p)
<1>1. CASE CacheStep
  <2>1. CASE UploadStep
    BY <2>1 DEF UploadStep, CreateSession, CreateSessionInterrupted, UploadChunk,
         UploadChunkInterrupted, RenewSession, Cancel, SweepExpired, SweepExpiredInterrupted
  <2>2. CASE NamespaceStep
    BY <2>2 DEF NamespaceStep, SetNamespaceQuota, DeleteNamespace, DeleteNamespaceInterrupted
  <2>3. CASE EvictionStep
    BY <2>3 DEF EvictionStep, PlanEviction, PlanEvictionInterrupted
  <2>4. CASE PinStep
    BY <2>4 DEF PinStep, PinEntry, PinEntryInterrupted, RenewPin, RenewPinInterrupted, Unpin,
         UnpinInterrupted, SweepExpiredPins, SweepExpiredPinsInterrupted
  <2>5. CASE CollectStep
    BY <2>5, CollectShape
  <2> QED BY <1>1, <2>1, <2>2, <2>3, <2>4, <2>5 DEF CacheStep
<1>2. CASE PromotionStep
  BY <1>2 DEF PromotionStep, PrepareStep, PreparePromotion, PreparePromotionUnrecorded,
       PreparePromotionRefused, BeginCommit, ResumeCommit, RejectCommit, FailCommitKeepingLog,
       InterruptStep, InterruptCommit, ApplyStep, ConfirmRoom, ConfirmEntry, RecordCommitted,
       RecordCommittedRequest, CloseLog, FailCommit
<1>3. CASE StartStep \/ Tick \/ Restart
  BY <1>3 DEF StartStep, StartServing, FinishStart, RecoverCommit, Tick, Restart
<1> QED BY <1>1, <1>2, <1>3 DEF Next

\* All a step may do to an entry.
LEMMA EntryShape ==
  ASSUME TypeInv, Next, NEW k \in Slots
  PROVE  \/ entries'[k] = entries[k]
         \/ EvictedUnpinned(k)
         \/ Touched(k)
         \/ \E s \in SessionIds : PublishedBy(s, k)
         \/ \E p \in PromoIds : PromotedBy(p, k)
<1> DEFINE Goal == \/ entries'[k] = entries[k]
                   \/ EvictedUnpinned(k)
                   \/ Touched(k)
                   \/ \E s \in SessionIds : PublishedBy(s, k)
                   \/ \E p \in PromoIds : PromotedBy(p, k)
<1> SUFFICES Goal
  OBVIOUS
<1>1. CASE PublishStep
  <2>1. PICK s \in SessionIds, v \in ExpectedVersions :
          \/ Complete(s, v)
          \/ CompleteOverQuota(s, v)
          \/ CompleteUnclosed(s, v)
          \/ CompleteInterrupted(s, v)
    BY <1>1 DEF PublishStep
  <2>2. CASE Complete(s, v) \/ CompleteUnclosed(s, v)
    BY <2>2, PublishShape DEF Complete, CompleteUnclosed
  <2>3. CASE CompleteOverQuota(s, v) \/ CompleteInterrupted(s, v)
    <3>1. RoomDecision(s) \in Decision
      BY <2>3, PublishTypes DEF TypeInv, CompleteOverQuota, CompleteInterrupted
    <3>2. \/ entries' = entries
          \/ entries' = Without(Deleted(Committed(RoomDecision(s))))
          \/ \E last : entries' = Without(DeletedUpTo(RoomDecision(s), last))
      BY <2>3 DEF CompleteOverQuota, CompleteInterrupted
    <3> QED BY <3>1, <3>2, WithoutShape
  <2> QED BY <2>1, <2>2, <2>3
<1>2. CASE ReadStep
  <2>1. PICK j \in Slots : Read(j)
    BY <1>2 DEF ReadStep
  <2>2. CASE j = k
    <3>1. Published(k) /\ entries[k] \in Entry
      BY <2>1, <2>2, PublishedType DEF Read, TypeInv
    <3>2. entries'[k] = [entries[k] EXCEPT !.lastAccess = IF @ < now THEN now ELSE @]
      BY <2>1, <2>2 DEF Read, TypeInv, TypeOK
    <3> QED BY <3>1, <3>2 DEF Touched, SameEntry, Entry
  <2>3. CASE j # k
    BY <2>1, <2>3 DEF Read, TypeInv, TypeOK
  <2> QED BY <2>2, <2>3
<1>3. ASSUME NEW id \in DecisionIds, CommitEviction(id) \/ CommitEvictionInterrupted(id)
      PROVE  Goal
  <2>1. decisions[id] \in Decision
    BY <1>3, DecisionType DEF TypeInv, CommitEviction, CommitEvictionInterrupted
  <2>2. \/ entries' = Without(Deleted(Committed(decisions[id])))
        \/ \E last : entries' = Without(DeletedUpTo(decisions[id], last))
    BY <1>3 DEF CommitEviction, CommitEvictionInterrupted
  <2> QED BY <2>1, <2>2, WithoutShape
<1>4. ASSUME NEW p \in PromoIds, ApplyEviction(p) \/ InterruptEviction(p)
      PROVE  Goal
  <2> DEFINE d == decisions[promotions[p].eviction]
  <2>1. promoTxns[p] # NoTxn /\ promotions[p].eviction # 0
    BY <1>4 DEF ApplyEviction, InterruptEviction, Applying, RoomMade, NoTxn
  <2>2. d \in Decision
    BY <2>1, AppliedType
  <2>3. \/ entries' = Without(Deleted(Committed(d)))
        \/ \E last : entries' = Without(DeletedUpTo(d, last))
    BY <1>4 DEF ApplyEviction, InterruptEviction
  <2> QED BY <2>2, <2>3, WithoutShape
<1>5. ASSUME NEW p \in PromoIds, WriteEntry(p)
      PROVE  Goal
  BY <1>5 DEF WriteEntry, PromotedBy, TypeInv, TypeOK
<1> QED BY <1>1, <1>2, <1>3, <1>4, <1>5, EntrySteps

\* What a published slot holds changes only to the next version.
LEMMA EntryNext ==
  ASSUME TypeInv, Next, NEW k \in Slots, entries'[k].version > 0
  PROVE  SameEntry(k) \/ entries'[k].version = entries[k].version + 1
<1>1. CASE EvictedUnpinned(k)
  BY <1>1 DEF EvictedUnpinned, NoEntry
<1>2. ASSUME NEW s \in SessionIds, PublishedBy(s, k)
      PROVE  entries'[k].version = entries[k].version + 1
  BY <1>2 DEF PublishedBy, NewEntry
<1>3. ASSUME NEW p \in PromoIds, PromotedBy(p, k)
      PROVE  entries'[k].version = entries[k].version + 1
  BY <1>3 DEF PromotedBy, WriteEntry, TargetAtBase, PromotedEntry
<1> QED BY <1>1, <1>2, <1>3, EntryShape DEF SameEntry, Touched

\* What a published slot holds changes only to the next version: no commit that was
\* interrupted and resumed overwrites what was published in between.
THEOREM EntryVersionsOnlyGrow == Spec => EntryVersionsGrow
<1>1. ASSUME TypeInv, [Next]_vars
      PROVE  [\A k \in Slots : Published(k) /\ Published(k)' =>
                \/ entries'[k].version = entries[k].version + 1
                \/ /\ entries'[k].version = entries[k].version
                   /\ entries'[k].digest = entries[k].digest
                   /\ entries'[k].manifest = entries[k].manifest]_vars
  BY <1>1, EntryNext DEF Published, SameEntry
<1> QED BY <1>1, TypeInvariant, PTL DEF Spec, EntryVersionsGrow

-----------------------------------------------------------------------------
(* Leases. *)

KeptLease(k) ==
  /\ PinActive(k)
  /\ pins'[k].entryVersion = pins[k].entryVersion
  /\ pins'[k].digest = pins[k].digest
  /\ pins'[k].manifest = pins[k].manifest

LeaseTakenNow(k) ==
  /\ Published(k)
  /\ entries' = entries
  /\ pins'[k].version = pins[k].version + 1
  /\ pins'[k].entryVersion = entries[k].version
  /\ pins'[k].digest = entries[k].digest
  /\ pins'[k].manifest = entries[k].manifest

\* Only the tick of the clock moves it.
LEMMA ClockSteps ==
  ASSUME Next
  PROVE  now' = now \/ Tick
<1>1. CASE CacheStep
  <2>1. CASE UploadStep \/ PublishStep \/ ReadStep
    BY <2>1 DEF UploadStep, CreateSession, CreateSessionInterrupted, UploadChunk,
         UploadChunkInterrupted, RenewSession, Cancel, SweepExpired, SweepExpiredInterrupted,
         PublishStep, Complete, CompleteOverQuota, CompleteUnclosed, CompleteInterrupted,
         ReadStep, Read
  <2>2. CASE NamespaceStep \/ EvictionStep
    BY <2>2 DEF NamespaceStep, SetNamespaceQuota, DeleteNamespace, DeleteNamespaceInterrupted,
         EvictionStep, PlanEviction, PlanEvictionInterrupted, CommitEviction,
         CommitEvictionInterrupted
  <2>3. CASE PinStep
    BY <2>3 DEF PinStep, PinEntry, PinEntryInterrupted, RenewPin, RenewPinInterrupted, Unpin,
         UnpinInterrupted, SweepExpiredPins, SweepExpiredPinsInterrupted
  <2>4. CASE CollectStep
    BY <2>4, CollectShape
  <2> QED BY <1>1, <2>1, <2>2, <2>3, <2>4 DEF CacheStep
<1>2. CASE PromotionStep
  BY <1>2 DEF PromotionStep, PrepareStep, PreparePromotion, PreparePromotionUnrecorded,
       PreparePromotionRefused, BeginCommit, ResumeCommit, RejectCommit, FailCommitKeepingLog,
       InterruptStep, InterruptCommit, InterruptEviction, ApplyStep, ApplyEviction,
       ConfirmRoom, WriteEntry,
       ConfirmEntry, RecordCommitted, RecordCommittedRequest, CloseLog, FailCommit
<1>3. CASE StartStep \/ Restart
  BY <1>3 DEF StartStep, StartServing, FinishStart, RecoverCommit, Restart
<1> QED BY <1>1, <1>2, <1>3 DEF Next

LEMMA TimePasses ==
  ASSUME TypeInv, Next
  PROVE  now \in Nat /\ now' \in Nat /\ now <= now'
BY ClockSteps DEF Tick, TypeInv, TypeOK

\* Which steps touch a lease.
LEMMA LeaseSteps ==
  ASSUME Next
  PROVE  \/ UNCHANGED pins
         \/ /\ RemovableNamespaces # {}
            /\ \E K \in SUBSET Slots : DropPins(K) /\ \A k \in K : ~ PinActive(k)
         \/ \E K \in SUBSET OverduePins : ExpirePins(K)
         \/ PinStep
<1> USE DEF leaseVars
<1>1. CASE CacheStep
  <2>1. CASE UploadStep \/ PublishStep \/ ReadStep
    BY <2>1 DEF UploadStep, CreateSession, CreateSessionInterrupted, UploadChunk,
         UploadChunkInterrupted, RenewSession, Cancel, SweepExpired, SweepExpiredInterrupted,
         PublishStep, Complete, CompleteOverQuota, CompleteUnclosed, CompleteInterrupted,
         ReadStep, Read
  <2>2. CASE NamespaceStep
    <3>1. CASE \E ns \in Namespaces : DeleteNamespace(ns) \/ DeleteNamespaceInterrupted(ns)
      <4>1. PICK ns \in Namespaces : DeleteNamespace(ns) \/ DeleteNamespaceInterrupted(ns)
        BY <3>1
      <4>2. RemovableNamespaces # {}
        BY <4>1 DEF DeleteNamespace, DeleteNamespaceInterrupted, Removable
      <4>3. \E K \in SUBSET {k \in Slots : k[1] = ns} : DropPins(K) /\ \A k \in K : ~ PinActive(k)
        BY <4>1 DEF DeleteNamespace, DeleteNamespaceInterrupted, PinnedIn
      <4> QED BY <4>2, <4>3
    <3> QED BY <2>2, <3>1 DEF NamespaceStep, SetNamespaceQuota
  <2>3. CASE EvictionStep
    BY <2>3 DEF EvictionStep, PlanEviction, PlanEvictionInterrupted, CommitEviction,
         CommitEvictionInterrupted
  <2>4. CASE CollectStep
    BY <2>4, CollectShape
  <2> QED BY <1>1, <2>1, <2>2, <2>3, <2>4 DEF CacheStep
<1>2. CASE PromotionStep
  BY <1>2 DEF PromotionStep, PrepareStep, PreparePromotion, PreparePromotionUnrecorded,
       PreparePromotionRefused, BeginCommit, ResumeCommit, RejectCommit, FailCommitKeepingLog,
       InterruptStep, InterruptCommit, InterruptEviction, ApplyStep, ApplyEviction,
       ConfirmRoom, WriteEntry,
       ConfirmEntry, RecordCommitted, RecordCommittedRequest, CloseLog, FailCommit
<1>3. CASE StartStep \/ Tick \/ Restart
  BY <1>3 DEF StartStep, StartServing, FinishStart, RecoverCommit, Tick, Restart
<1> QED BY <1>1, <1>2, <1>3 DEF Next

\* A lease active after a step was active before it, on the same entry, or was taken
\* by the step on what the slot then held.
LEMMA LeaseShape ==
  ASSUME TypeInv, Next, NEW k \in Slots, PinActive(k)'
  PROVE  KeptLease(k) \/ LeaseTakenNow(k)
<1>0. pins'[k].status = "active" /\ pins'[k].deadline > now'
  BY DEF PinActive
<1>1. ASSUME pins'[k] = pins[k]
      PROVE  KeptLease(k)
  <2>1. pins[k] \in Pin
    BY <1>0, <1>1 DEF TypeInv, TypeOK, NoPin
  <2>2. pins[k].deadline > now
    BY <1>0, <1>1, <2>1, TimePasses DEF Pin
  <2> QED BY <1>0, <1>1, <2>2 DEF KeptLease, PinActive
<1>2. ASSUME NEW K, DropPins(K)
      PROVE  KeptLease(k)
  BY <1>0, <1>1, <1>2 DEF DropPins, NoPin
<1>3. ASSUME NEW K \in SUBSET OverduePins, ExpirePins(K)
      PROVE  KeptLease(k)
  <2>1. CASE k \in K
    <3>1. pins[k] \in Pin
      BY <2>1 DEF OverduePins, TypeInv, TypeOK, NoPin
    <3> QED BY <1>0, <1>3, <2>1, <3>1 DEF ExpirePins, Pin
  <2>2. CASE k \notin K
    BY <1>1, <1>3, <2>2 DEF ExpirePins
  <2> QED BY <2>1, <2>2
<1>4. CASE PinStep
  <2>1. CASE SweepExpiredPins \/ SweepExpiredPinsInterrupted
    <3>1. PICK K \in SUBSET OverduePins : ExpirePins(K)
      BY <2>1 DEF SweepExpiredPins, SweepExpiredPinsInterrupted
    <3> QED BY <1>3, <3>1
  <2>2. CASE ~ (SweepExpiredPins \/ SweepExpiredPinsInterrupted)
    <3>1. PICK j \in Slots, in \in PinInputs, r \in RequestIds \cup {NoRequestId} :
            \/ PinEntry(j, in, r)
            \/ PinEntryInterrupted(j, in, r)
            \/ RenewPin(j, in, r)
            \/ RenewPinInterrupted(j, in, r)
            \/ Unpin(j, in, r)
            \/ UnpinInterrupted(j, in, r)
      BY <1>4, <2>2 DEF PinStep
    <3>2. \/ pins' = [pins EXCEPT ![j] = PinLease(j, in)] /\ Published(j) /\ entries' = entries
          \/ pins' = [pins EXCEPT ![j] = RenewedLease(j, in)] /\ PinActive(j)
          \/ pins' = [pins EXCEPT ![j] = ReleasedLease(j)] /\ PinActive(j)
      BY <3>1 DEF PinEntry, PinEntryInterrupted, RenewPin, RenewPinInterrupted, Unpin,
           UnpinInterrupted, GrantLease, GrantUnrecorded, PinAllowed, LeaseAllowed
    <3>3. CASE j # k
      BY <1>1, <3>2, <3>3 DEF TypeInv, TypeOK
    <3>4. CASE j = k
      <4>1. pins \in [Slots -> Pin \cup {NoPin}]
        BY DEF TypeInv, TypeOK
      <4>2. PinActive(k) => pins[k] \in Pin
        BY <4>1 DEF PinActive, NoPin
      <4>3. CASE pins' = [pins EXCEPT ![j] = PinLease(j, in)] /\ Published(j) /\ entries' = entries
        BY <3>4, <4>1, <4>3 DEF PinLease, LeaseTakenNow
      <4>4. CASE pins' = [pins EXCEPT ![j] = RenewedLease(j, in)] /\ PinActive(j)
        BY <3>4, <4>1, <4>2, <4>4 DEF RenewedLease, KeptLease, Pin
      <4>5. CASE pins' = [pins EXCEPT ![j] = ReleasedLease(j)] /\ PinActive(j)
        BY <1>0, <3>4, <4>1, <4>2, <4>5 DEF ReleasedLease, Pin
      <4> QED BY <3>2, <4>3, <4>4, <4>5
    <3> QED BY <3>3, <3>4
  <2> QED BY <2>1, <2>2
<1> QED BY <1>1, <1>2, <1>3, <1>4, LeaseSteps

\* A pinned key stays published, at the pinned version or above: no eviction, and no
\* commit of a plan older than the pin, takes the entry away.
THEOREM PinnedEntriesKept == Spec => []PinnedEntryKept
<1>1. Init => PinnedEntryKept
  BY DEF Init, PinnedEntryKept, PinActive, NoPin
<1>2. ASSUME TypeInv, PinnedEntryKept, [Next]_vars
      PROVE  PinnedEntryKept'
  <2>1. CASE UNCHANGED vars
    BY <1>2, <2>1 DEF PinnedEntryKept, PinActive, Published, vars, leaseVars
  <2>2. CASE Next
    <3> SUFFICES ASSUME NEW k \in Slots, PinActive(k)'
                 PROVE  /\ entries'[k].version > 0
                        /\ entries'[k].version >= pins'[k].entryVersion
                        /\ entries'[k].version = pins'[k].entryVersion
                           => entries'[k].digest = pins'[k].digest
      BY DEF PinnedEntryKept, Published
    <3>1. entries[k].version \in Nat
      BY <1>2, VersionType DEF TypeInv
    <3>2. CASE LeaseTakenNow(k)
      BY <3>1, <3>2 DEF LeaseTakenNow, Published
    <3>3. CASE KeptLease(k)
      <4>1. /\ PinActive(k)
            /\ Published(k)
            /\ pins[k].entryVersion \in Nat
            /\ entries[k].version >= pins[k].entryVersion
            /\ entries[k].version = pins[k].entryVersion => entries[k].digest = pins[k].digest
        BY <1>2, <3>3
        DEF KeptLease, PinnedEntryKept, PinActive, TypeInv, TypeOK, Pin, NoPin
      <4>2. entries'[k].version > 0
        <5>1. ~ EvictedUnpinned(k)
          BY <4>1 DEF EvictedUnpinned
        <5>2. ASSUME NEW s \in SessionIds, PublishedBy(s, k)
              PROVE  entries'[k].version > 0
          BY <3>1, <5>2 DEF PublishedBy, NewEntry
        <5>3. ASSUME NEW p \in PromoIds, PromotedBy(p, k)
              PROVE  entries'[k].version > 0
          BY <3>1, <5>3 DEF PromotedBy, WriteEntry, TargetAtBase, PromotedEntry
        <5> QED BY <1>2, <2>2, <4>1, <5>1, <5>2, <5>3, EntryShape DEF Touched, SameEntry, Published
      <4>3. SameEntry(k) \/ entries'[k].version = entries[k].version + 1
        BY <1>2, <2>2, <4>2, EntryNext
      <4> QED BY <3>1, <3>3, <4>1, <4>2, <4>3 DEF KeptLease, SameEntry
    <3> QED BY <1>2, <2>2, <3>2, <3>3, LeaseShape
  <2> QED BY <1>2, <2>1, <2>2
<1> QED BY <1>1, <1>2, TypeInvariant, PTL DEF Spec

-----------------------------------------------------------------------------
(* Sessions and blobs. *)

LEMMA SessionShape ==
  ASSUME TypeInv, Next, NEW s \in SessionIds, SessionLive(s)'
  PROVE  \/ SessionLive(s) /\ sessions'[s].manifest = sessions[s].manifest
            /\ sessions'[s].received = sessions[s].received
         \/ sessions[s].status = "unused" /\ sessions'[s].received = {}
         \/ \E i : UploadChunk(s, i)
<1> USE DEF uploadVars
<1> DEFINE Goal == \/ SessionLive(s) /\ sessions'[s].manifest = sessions[s].manifest
                      /\ sessions'[s].received = sessions[s].received
                   \/ sessions[s].status = "unused" /\ sessions'[s].received = {}
                   \/ \E i : UploadChunk(s, i)
<1>0. sessions'[s].status = "open" /\ sessions'[s].expiresAt > now'
  BY DEF SessionLive
<1>1. ASSUME sessions'[s] = sessions[s]
      PROVE  Goal
  <2>1. sessions[s] \in Session
    BY <1>0, <1>1 DEF TypeInv, TypeOK, Unused, Gone
  <2>2. sessions[s].expiresAt > now
    BY <1>0, <1>1, <2>1, TimePasses DEF Session
  <2> QED BY <1>0, <1>1, <2>2 DEF SessionLive
<1>2. ASSUME NEW D, ForgetSessions(D)
      PROVE  Goal
  BY <1>0, <1>1, <1>2 DEF ForgetSessions, Gone
<1>3. CASE UploadStep
  <2>1. ASSUME NEW t \in SessionIds, NEW slot, NEW key, NEW a, NEW m, NEW lease,
               CreateSession(t, slot, key, a, m, lease)
        PROVE  Goal
    BY <1>1, <2>1 DEF CreateSession, NewSession, TypeInv, TypeOK
  <2>2. ASSUME NEW t \in SessionIds, NEW i, UploadChunk(t, i)
        PROVE  Goal
    BY <1>1, <2>2 DEF UploadChunk, TypeInv, TypeOK
  <2>3. ASSUME NEW t \in SessionIds, NEW lease, RenewSession(t, lease)
        PROVE  Goal
    <3>1. CASE t = s
      <4>1. sessions[s] \in Session
        BY <2>3, <3>1, OpenSessionType DEF RenewSession, TypeInv
      <4> QED BY <2>3, <3>1, <4>1 DEF RenewSession, TypeInv, TypeOK, Session
    <3> QED BY <1>1, <2>3, <3>1 DEF RenewSession, TypeInv, TypeOK
  <2>4. ASSUME NEW t \in SessionIds, Cancel(t)
        PROVE  Goal
    <3>1. CASE t = s
      <4>1. sessions[s] \in Session
        BY <2>4, <3>1, OpenSessionType DEF Cancel, TypeInv
      <4> QED BY <1>0, <2>4, <3>1, <4>1 DEF Cancel, TypeInv, TypeOK, Session
    <3> QED BY <1>1, <2>4, <3>1 DEF Cancel, TypeInv, TypeOK
  <2>5. ASSUME SweepExpired \/ SweepExpiredInterrupted
        PROVE  Goal
    BY <1>2, <2>5 DEF SweepExpired, SweepExpiredInterrupted
  <2>6. \/ UNCHANGED sessions
        \/ \E t \in SessionIds : \E slot, key, a, m, lease : CreateSession(t, slot, key, a, m, lease)
        \/ \E t \in SessionIds : \E i : UploadChunk(t, i)
        \/ \E t \in SessionIds : \E lease : RenewSession(t, lease)
        \/ \E t \in SessionIds : Cancel(t)
        \/ SweepExpired \/ SweepExpiredInterrupted
    BY <1>3, Zenon DEF UploadStep, CreateSessionInterrupted, UploadChunkInterrupted
  <2> QED BY <1>1, <2>1, <2>2, <2>3, <2>4, <2>5, <2>6
<1>4. CASE PublishStep
  <2>1. UNCHANGED sessions \/ \E t \in SessionIds : sessions' = [sessions EXCEPT ![t] = Gone]
    BY <1>4 DEF PublishStep, Complete, CompleteOverQuota, CompleteUnclosed, CompleteInterrupted
  <2> QED BY <1>0, <1>1, <2>1 DEF TypeInv, TypeOK, Gone
<1>5. CASE CollectStep
  BY <1>2, <1>5, CollectShape
<1>6. CASE CacheStep /\ ~ (UploadStep \/ PublishStep \/ CollectStep)
  <2>1. CASE NamespaceStep \/ EvictionStep \/ ReadStep
    BY <1>1, <2>1 DEF NamespaceStep, SetNamespaceQuota, DeleteNamespace,
         DeleteNamespaceInterrupted, EvictionStep, PlanEviction, PlanEvictionInterrupted,
         CommitEviction, CommitEvictionInterrupted, ReadStep, Read
  <2>2. CASE PinStep
    BY <1>1, <2>2 DEF PinStep, PinEntry, PinEntryInterrupted, RenewPin, RenewPinInterrupted,
         Unpin, UnpinInterrupted, SweepExpiredPins, SweepExpiredPinsInterrupted
  <2> QED BY <1>6, <2>1, <2>2 DEF CacheStep
<1>7. CASE PromotionStep
  BY <1>1, <1>7 DEF PromotionStep, PrepareStep, PreparePromotion, PreparePromotionUnrecorded,
       PreparePromotionRefused, BeginCommit, ResumeCommit, RejectCommit, FailCommitKeepingLog,
       InterruptStep, InterruptCommit, InterruptEviction, ApplyStep, ApplyEviction,
       ConfirmRoom, WriteEntry,
       ConfirmEntry, RecordCommitted, RecordCommittedRequest, CloseLog, FailCommit
<1>8. CASE StartStep \/ Tick \/ Restart
  BY <1>1, <1>8 DEF StartStep, StartServing, FinishStart, RecoverCommit, Tick, Restart
<1> QED BY <1>3, <1>4, <1>5, <1>6, <1>7, <1>8 DEF Next, CacheStep

\* Only the collector removes blobs, and only the arrival of a chunk adds one.
LEMMA BlobSteps ==
  ASSUME Next
  PROVE  \/ blobs' = blobs
         \/ CollectStep
         \/ \E s \in SessionIds : \E i : UploadChunk(s, i) \/ UploadChunkInterrupted(s, i)
<1>1. CASE CacheStep
  <2>1. CASE UploadStep \/ PublishStep \/ ReadStep
    BY <2>1 DEF UploadStep, CreateSession, CreateSessionInterrupted, RenewSession, Cancel, SweepExpired, SweepExpiredInterrupted,
         PublishStep, Complete, CompleteOverQuota, CompleteUnclosed, CompleteInterrupted,
         ReadStep, Read
  <2>2. CASE NamespaceStep \/ EvictionStep
    BY <2>2 DEF NamespaceStep, SetNamespaceQuota, DeleteNamespace, DeleteNamespaceInterrupted,
         EvictionStep, PlanEviction, PlanEvictionInterrupted, CommitEviction,
         CommitEvictionInterrupted
  <2>3. CASE PinStep
    BY <2>3 DEF PinStep, PinEntry, PinEntryInterrupted, RenewPin, RenewPinInterrupted, Unpin,
         UnpinInterrupted, SweepExpiredPins, SweepExpiredPinsInterrupted
  <2> QED BY <1>1, <2>1, <2>2, <2>3 DEF CacheStep
<1>2. CASE PromotionStep
  BY <1>2 DEF PromotionStep, PrepareStep, PreparePromotion, PreparePromotionUnrecorded,
       PreparePromotionRefused, BeginCommit, ResumeCommit, RejectCommit, FailCommitKeepingLog,
       InterruptStep, InterruptCommit, InterruptEviction, ApplyStep, ApplyEviction,
       ConfirmRoom, WriteEntry,
       ConfirmEntry, RecordCommitted, RecordCommittedRequest, CloseLog, FailCommit
<1>3. CASE StartStep \/ Tick \/ Restart
  BY <1>3 DEF StartStep, StartServing, FinishStart, RecoverCommit, Tick, Restart
<1> QED BY <1>1, <1>2, <1>3 DEF Next

LEMMA BlobsStay ==
  ASSUME Next, ~ CollectStep
  PROVE  blobs \subseteq blobs'
BY BlobSteps DEF UploadChunk, UploadChunkInterrupted

-----------------------------------------------------------------------------
(* What is stored.  The promises to readers and to holders are inductive only   *)
(* together, and with what a promotion carries: its snapshot is of an artifact  *)
(* that was published, and its redo log is acted on only while it is prepared,  *)
(* that is, while the collector keeps what it is about to publish.              *)

SnapshotsMatch ==
  \A p \in PromoIds : Prepared(p) => ArtifactOf[promotions[p].manifest] = promotions[p].digest

OpenLog(p) == promoTxns[p] \in {"committing", "eviction_committed"}

OpenLogsPrepared == \A p \in PromoIds : OpenLog(p) => Prepared(p)

StorageInv ==
  /\ TypeInv
  /\ PublishedReadable
  /\ ProtectedBlobsStored
  /\ SnapshotsMatch
  /\ OpenLogsPrepared

\* Mark and sweep: no step, the collector's included, removes a blob that is
\* referenced when the step begins.
LEMMA RootsStay ==
  ASSUME TypeInv, Next, NEW b \in blobs, b \in LiveBlobs
  PROVE  b \in blobs'
<1>1. CASE CollectStep
  BY <1>1, CollectShape DEF Garbage
<1>2. CASE ~ CollectStep
  BY <1>2, BlobsStay
<1> QED BY <1>1, <1>2

LEMMA ReadableStep ==
  ASSUME StorageInv, Next
  PROVE  PublishedReadable'
<1>0. TypeInv
  BY DEF StorageInv
<1> SUFFICES ASSUME NEW k \in Slots, entries'[k].version > 0
             PROVE  /\ Chunks(entries'[k].manifest) \subseteq blobs'
                    /\ ArtifactOf[entries'[k].manifest] = entries'[k].digest
  BY DEF PublishedReadable, Published, Chunks
<1>1. CASE Published(k) /\ SameEntry(k)
  <2>1. Chunks(entries[k].manifest) \subseteq blobs \cap LiveBlobs
    BY <1>1 DEF StorageInv, PublishedReadable, LiveBlobs, EntryBlobs
  <2> QED BY <1>0, <1>1, <2>1, RootsStay DEF SameEntry, StorageInv, PublishedReadable
<1>2. ASSUME NEW s \in SessionIds, PublishedBy(s, k)
      PROVE  /\ Chunks(entries'[k].manifest) \subseteq blobs'
             /\ ArtifactOf[entries'[k].manifest] = entries'[k].digest
  <2>1. /\ entries'[k].manifest = sessions[s].manifest
        /\ entries'[k].digest = sessions[s].artifact
        /\ Publishable(s)
    BY <1>2 DEF PublishedBy, NewEntry
  <2>2. Chunks(sessions[s].manifest) = ReceivedBlobs(s) /\ SessionLive(s)
    BY <2>1 DEF Publishable, Chunks, ReceivedBlobs
  <2>3. Chunks(sessions[s].manifest) \subseteq blobs \cap LiveBlobs
    BY <2>1, <2>2 DEF Publishable, LiveBlobs, UploadBlobs
  <2> QED BY <1>0, <2>1, <2>3, RootsStay DEF Publishable
<1>3. ASSUME NEW p \in PromoIds, PromotedBy(p, k)
      PROVE  /\ Chunks(entries'[k].manifest) \subseteq blobs'
             /\ ArtifactOf[entries'[k].manifest] = entries'[k].digest
  <2>1. /\ entries'[k].manifest = promotions[p].manifest
        /\ entries'[k].digest = promotions[p].digest
        /\ OpenLog(p)
    BY <1>3 DEF PromotedBy, PromotedEntry, WriteEntry, Applying, OpenLog
  <2>2. Prepared(p)
    BY <2>1 DEF StorageInv, OpenLogsPrepared
  <2>3. Chunks(promotions[p].manifest) \subseteq blobs \cap LiveBlobs
    BY <2>2 DEF StorageInv, ProtectedBlobsStored, LiveBlobs, PromotionBlobs
  <2> QED BY <1>0, <2>1, <2>2, <2>3, RootsStay DEF StorageInv, SnapshotsMatch
<1>4. CASE entries'[k] = entries[k]
  BY <1>1, <1>4 DEF Published, SameEntry
<1>5. CASE EvictedUnpinned(k)
  BY <1>5 DEF EvictedUnpinned, NoEntry
<1> QED BY <1>0, <1>1, <1>2, <1>3, <1>4, <1>5, EntryShape DEF Touched

LEMMA ProtectedStep ==
  ASSUME StorageInv, Next
  PROVE  ProtectedBlobsStored'
<1>0. TypeInv
  BY DEF StorageInv
<1>1. ASSUME NEW s \in SessionIds, SessionLive(s)'
      PROVE  ReceivedBlobs(s)' \subseteq blobs'
  <2>1. ReceivedBlobs(s)' = {sessions'[s].manifest[i] : i \in sessions'[s].received}
    BY DEF ReceivedBlobs
  <2>2. ASSUME SessionLive(s)
        PROVE  ReceivedBlobs(s) \subseteq blobs \cap LiveBlobs
    BY <2>2 DEF StorageInv, ProtectedBlobsStored, LiveBlobs, UploadBlobs
  <2>3. CASE /\ SessionLive(s) /\ sessions'[s].manifest = sessions[s].manifest
             /\ sessions'[s].received = sessions[s].received
    BY <1>0, <2>1, <2>2, <2>3, RootsStay DEF ReceivedBlobs
  <2>4. ASSUME NEW i, UploadChunk(s, i)
        PROVE  ReceivedBlobs(s)' \subseteq blobs'
    <3>1. sessions[s] \in Session
      BY <1>0, <2>4, OpenSessionType DEF UploadChunk, Uploadable, TypeInv
    <3>2. /\ sessions'[s].manifest = sessions[s].manifest
          /\ sessions'[s].received = sessions[s].received \cup {i}
      BY <1>0, <2>4, <3>1 DEF UploadChunk, TypeInv, TypeOK, Session
    <3>3. /\ SessionLive(s)
          /\ blobs' = blobs \cup {sessions[s].manifest[i]}
      BY <2>4 DEF UploadChunk, Uploadable
    <3> QED BY <2>1, <2>2, <3>2, <3>3 DEF ReceivedBlobs
  <2> QED BY <1>0, <1>1, <2>1, <2>3, <2>4, SessionShape
<1>2. ASSUME NEW k \in Slots, PinActive(k)'
      PROVE  Chunks(pins[k].manifest)' \subseteq blobs'
  <2>1. Chunks(pins[k].manifest)' = Chunks(pins'[k].manifest)
    BY DEF Chunks
  <2>2. CASE KeptLease(k)
    <3>1. Chunks(pins[k].manifest) \subseteq blobs \cap LiveBlobs
      BY <2>2 DEF KeptLease, StorageInv, ProtectedBlobsStored, LiveBlobs, LeaseBlobs
    <3> QED BY <1>0, <2>1, <2>2, <3>1, RootsStay DEF KeptLease
  <2>3. CASE LeaseTakenNow(k)
    <3>1. Chunks(entries[k].manifest) \subseteq blobs \cap LiveBlobs
      BY <2>3 DEF LeaseTakenNow, StorageInv, PublishedReadable, LiveBlobs, EntryBlobs
    <3> QED BY <1>0, <2>1, <2>3, <3>1, RootsStay DEF LeaseTakenNow
  <2> QED BY <1>0, <1>2, <2>2, <2>3, LeaseShape
<1>3. ASSUME NEW q \in PromoIds, promotions'[q].status = "prepared"
      PROVE  Chunks(promotions'[q].manifest) \subseteq blobs'
  <2>1. CASE promotions'[q] = promotions[q]
    <3>1. Chunks(promotions[q].manifest) \subseteq blobs \cap LiveBlobs
      BY <1>3, <2>1 DEF Prepared, StorageInv, ProtectedBlobsStored, LiveBlobs, PromotionBlobs
    <3> QED BY <1>0, <2>1, <3>1, RootsStay
  <2>2. ASSUME NEW source \in Slots, NEW target \in Slots, NEW m, NEW r,
               Promotable(source, target, m, r), SavePrepared(source, target, m, r)
        PROVE  \/ promotions'[q] = promotions[q]
               \/ Published(source) /\ promotions'[q].manifest = entries[source].manifest
    BY <1>0, <2>2 DEF Promotable, SavePrepared, Frozen, TypeInv, TypeOK
  <2>3. ASSUME NEW source \in Slots, Published(source),
               promotions'[q].manifest = entries[source].manifest
        PROVE  Chunks(promotions'[q].manifest) \subseteq blobs'
    <3>1. Chunks(entries[source].manifest) \subseteq blobs \cap LiveBlobs
      BY <2>3 DEF StorageInv, PublishedReadable, LiveBlobs, EntryBlobs
    <3> QED BY <1>0, <2>3, <3>1, RootsStay
  <2>4. ASSUME NEW p \in PromoIds, NEW outcome \in {"committed", "failed"},
               promotions[p].status # "none", SetOutcome(p, outcome)
        PROVE  promotions'[q] = promotions[q]
    <3>1. promotions[p] \in Promotion
      BY <1>0, <2>4, PromotionType DEF TypeInv
    <3> QED BY <1>0, <1>3, <2>4, <3>1 DEF SetOutcome, TypeInv, TypeOK, Promotion
  <2> QED BY <1>0, <2>1, <2>2, <2>3, <2>4, PromotionShape
<1>4. ASSUME NEW q \in PromoIds, Prepared(q)'
      PROVE  Chunks(promotions[q].manifest)' \subseteq blobs'
  <2>1. Chunks(promotions[q].manifest)' = Chunks(promotions'[q].manifest)
    BY DEF Chunks
  <2> QED BY <1>3, <1>4, <2>1 DEF Prepared
<1> QED BY <1>1, <1>2, <1>4 DEF ProtectedBlobsStored

LEMMA SnapshotsMatchStep ==
  ASSUME StorageInv, Next
  PROVE  SnapshotsMatch'
<1>0. TypeInv
  BY DEF StorageInv
<1> SUFFICES ASSUME NEW q \in PromoIds, promotions'[q].status = "prepared"
             PROVE  ArtifactOf[promotions'[q].manifest] = promotions'[q].digest
  BY DEF SnapshotsMatch, Prepared
<1>1. CASE promotions'[q] = promotions[q]
  BY <1>1 DEF StorageInv, SnapshotsMatch, Prepared
<1>2. ASSUME NEW source \in Slots, NEW target \in Slots, NEW m, NEW r,
             Promotable(source, target, m, r), SavePrepared(source, target, m, r)
      PROVE  \/ promotions'[q] = promotions[q]
             \/ /\ Published(source)
                /\ promotions'[q].manifest = entries[source].manifest
                /\ promotions'[q].digest = entries[source].digest
  BY <1>0, <1>2 DEF Promotable, SavePrepared, Frozen, TypeInv, TypeOK
<1>3. ASSUME NEW p \in PromoIds, NEW outcome \in {"committed", "failed"},
             promotions[p].status # "none", SetOutcome(p, outcome)
      PROVE  promotions'[q] = promotions[q]
  <2>1. promotions[p] \in Promotion
    BY <1>0, <1>3, PromotionType DEF TypeInv
  <2> QED BY <1>0, <1>3, <2>1 DEF SetOutcome, TypeInv, TypeOK, Promotion
<1> QED BY <1>0, <1>1, <1>2, <1>3, PromotionShape DEF StorageInv, PublishedReadable

\* A redo log that can still write was there before, or a commit begins.
LEMMA OpenLogBegins ==
  ASSUME TypeInv, Next, NEW q \in PromoIds, OpenLog(q)'
  PROVE  OpenLog(q) \/ BeginCommit(q)
<1> USE DEF promotionVars
<1>1. CASE CacheStep \/ Tick \/ Restart \/ StartStep
  BY <1>1 DEF CacheStep, Tick, Restart, StartStep, StartServing, FinishStart, RecoverCommit,
       OpenLog, NoTxn
<1>2. CASE PrepareStep
  BY <1>2 DEF PrepareStep, PreparePromotion, PreparePromotionUnrecorded,
       PreparePromotionRefused, OpenLog
<1>3. CASE PromotionStep /\ ~ PrepareStep
  BY <1>3 DEF PromotionStep, BeginCommit, ResumeCommit, RejectCommit, FailCommitKeepingLog,
       InterruptEviction, InterruptStep, InterruptCommit, ApplyStep, ApplyEviction,
       ConfirmRoom, WriteEntry,
       ConfirmEntry, RecordCommitted, RecordCommittedRequest, CloseLog, FailCommit, TypeInv,
       TypeOK, OpenLog, Applying, NoTxn
<1> QED BY <1>1, <1>2, <1>3 DEF Next, PromotionStep

\* A redo log that can still write is of a promotion still prepared, unless a failed
\* commit can leave its log behind.
LEMMA OpenLogsStep ==
  ASSUME StorageInv, Next, "log" \notin Faults
  PROVE  OpenLogsPrepared'
<1> USE DEF promotionVars
<1>0. TypeInv
  BY DEF StorageInv
<1> SUFFICES ASSUME NEW q \in PromoIds, promoTxns'[q] \in {"committing", "eviction_committed"}
             PROVE  promotions'[q].status = "prepared"
  BY DEF OpenLogsPrepared, OpenLog, Prepared
<1>1. Prepared(q)
  <2>1. OpenLog(q) \/ BeginCommit(q)
    BY <1>0, OpenLogBegins DEF OpenLog
  <2> QED BY <2>1 DEF StorageInv, OpenLogsPrepared, BeginCommit
<1>2. ASSUME NEW source, NEW target, NEW m, NEW r, SavePrepared(source, target, m, r)
      PROVE  promotions'[q].status = "prepared"
  BY <1>0, <1>1, <1>2 DEF SavePrepared, Frozen, Prepared, TypeInv, TypeOK
<1>3. ASSUME NEW p \in PromoIds, NEW outcome, SetOutcome(p, outcome), SettledBy(p)
      PROVE  promotions'[q].status = "prepared"
  <2>1. p # q
    BY <1>0, <1>3 DEF SettledBy, RejectCommit, FailCommit, FailCommitKeepingLog,
         RecordCommitted, Applying, NoTxn, TypeInv, TypeOK
  <2> QED BY <1>0, <1>1, <1>3, <2>1 DEF SetOutcome, Prepared, TypeInv, TypeOK
<1> QED BY <1>0, <1>1, <1>2, <1>3, PromotionShape DEF Prepared

LEMMA StorageInvariant == ASSUME "log" \notin Faults PROVE Spec => []StorageInv
<1>1. Init => StorageInv
  <2> SUFFICES ASSUME Init
               PROVE  StorageInv
    OBVIOUS
  <2>1. TypeInv
    BY InitTypeOK DEF Init, TypeInv, LogsNamePromotions, PlansRecorded, NoPromotion
  <2>2. PublishedReadable /\ ProtectedBlobsStored
    BY DEF Init, PublishedReadable, ProtectedBlobsStored, Published, NoEntry, SessionLive,
           Unused, PinActive, NoPin, Prepared, NoPromotion
  <2>3. SnapshotsMatch /\ OpenLogsPrepared
    BY DEF Init, SnapshotsMatch, OpenLogsPrepared, OpenLog, Prepared, NoPromotion, NoTxn
  <2> QED BY <2>1, <2>2, <2>3 DEF StorageInv
<1>2. ASSUME StorageInv, [Next]_vars
      PROVE  StorageInv'
  <2>1. CASE Next
    BY <1>2, <2>1, StepTypeOK, PlansStayRecorded, LogsStayNamed, ReadableStep, ProtectedStep,
       SnapshotsMatchStep, OpenLogsStep
    DEF StorageInv, TypeInv
  <2>2. CASE UNCHANGED vars
    <3> USE <1>2, <2>2 DEF StorageInv, vars, quotaVars, uploadVars, leaseVars, evictionVars,
            promotionVars
    <3>1. TypeInv'
      BY DEF TypeInv, TypeOK, LogsNamePromotions, PlansRecorded
    <3>2. PublishedReadable'
      BY DEF PublishedReadable, Published, Chunks
    <3>3. ProtectedBlobsStored'
      BY DEF ProtectedBlobsStored, SessionLive, ReceivedBlobs, PinActive, Prepared, Chunks
    <3>4. SnapshotsMatch' /\ OpenLogsPrepared'
      BY DEF SnapshotsMatch, OpenLogsPrepared, OpenLog, Prepared
    <3> QED BY <3>1, <3>2, <3>3, <3>4
  <2> QED BY <1>2, <2>1, <2>2
<1> QED BY <1>1, <1>2, PTL DEF Spec

\* Every published entry can be read back to the end and is the content its digest
\* names, through every interleaving of uploads, overwrites, evictions, lease ends,
\* promotions, collections, failing writes and restarts; provided that a commit that
\* fails does not leave its redo log behind (the run FailedPromotion shows why).
THEOREM PublishedStaysReadable ==
  ASSUME "log" \notin Faults PROVE Spec => []PublishedReadable
<1>1. StorageInv => PublishedReadable
  BY DEF StorageInv
<1> QED BY <1>1, StorageInvariant, PTL

\* Under the same condition the collector keeps every chunk acknowledged to a live
\* upload and the snapshot of every active lease and prepared promotion.
THEOREM ProtectedBlobsStayStored ==
  ASSUME "log" \notin Faults PROVE Spec => []ProtectedBlobsStored
<1>1. StorageInv => ProtectedBlobsStored
  BY DEF StorageInv
<1> QED BY <1>1, StorageInvariant, PTL

-----------------------------------------------------------------------------
(* Decisions and outcomes.  Numbers are issued once, across restarts, which is  *)
(* what keeps a committed decision and a settled promotion from being replaced. *)

PromotionIdsFresh == \A p \in PromoIds : promotions[p].status # "none" => p <= promoSeq

NumbersFresh == DecisionIdsFresh /\ PromotionIdsFresh

LEMMA DecisionIdsFreshStep ==
  ASSUME TypeInv, DecisionIdsFresh, Next
  PROVE  DecisionIdsFresh'
<1>0. TypeOK /\ evictSeq \in Nat
  BY DEF TypeInv, TypeOK
<1> SUFFICES ASSUME NEW n \in DecisionIds, decisions'[n].status # "none"
             PROVE  n <= evictSeq'
  BY DEF DecisionIdsFresh, Recorded
<1>1. ASSUME decisions[n].status # "none"
      PROVE  n <= evictSeq /\ n \in Nat
  BY <1>1 DEF DecisionIdsFresh, Recorded, DecisionIds
<1>2. CASE DecisionRecorded
  BY <1>0, <1>1, <1>2 DEF DecisionRecorded, RecordDecision, TypeOK, DecisionIds
<1>3. CASE DecisionCommitted
  BY <1>0, <1>1, <1>3 DEF DecisionCommitted, TypeOK
<1>4. CASE DecisionsUntouched
  BY <1>0, <1>1, <1>4 DEF DecisionsUntouched, RestoreEvictSeq, Recorded
<1> QED BY <1>2, <1>3, <1>4, DecisionShape

LEMMA CommittedStay ==
  ASSUME TypeInv, DecisionIdsFresh, Next, NEW i \in DecisionIds, decisions[i].status = "committed"
  PROVE  decisions'[i] = decisions[i]
<1>0. TypeOK /\ i \in Nat /\ i <= evictSeq /\ evictSeq \in Nat
  BY DEF TypeInv, TypeOK, DecisionIdsFresh, Recorded, DecisionIds
<1>1. CASE DecisionRecorded
  BY <1>0, <1>1 DEF DecisionRecorded, RecordDecision, TypeOK
<1>2. CASE DecisionCommitted
  BY <1>0, <1>2 DEF DecisionCommitted, TypeOK
<1> QED BY <1>1, <1>2, DecisionShape DEF DecisionsUntouched

LEMMA PromotionIdsFreshStep ==
  ASSUME TypeInv, PromotionIdsFresh, Next
  PROVE  PromotionIdsFresh'
<1> USE DEF promotionVars
<1>0. TypeOK /\ promoSeq \in Nat
  BY DEF TypeInv, TypeOK
<1> SUFFICES ASSUME NEW q \in PromoIds, promotions'[q].status # "none"
             PROVE  q <= promoSeq'
  BY DEF PromotionIdsFresh
<1>1. CASE Restart
  BY <1>1 DEF Restart, RestorePromoSeq
<1>2. promoSeq' = promoSeq \/ promoSeq' = promoSeq + 1 \/ Restart
  <2>1. CASE CacheStep \/ Tick \/ StartStep
    BY <2>1 DEF CacheStep, Tick, StartStep, StartServing, FinishStart, RecoverCommit
  <2>2. CASE PromotionStep
    BY <2>2 DEF PromotionStep, PrepareStep, PreparePromotion, PreparePromotionUnrecorded,
         PreparePromotionRefused, SavePrepared, BeginCommit, ResumeCommit, RejectCommit,
         FailCommitKeepingLog, InterruptStep, InterruptCommit, InterruptEviction, ApplyStep,
         ApplyEviction,
         ConfirmRoom, WriteEntry, ConfirmEntry, RecordCommitted, RecordCommittedRequest,
         CloseLog, FailCommit
  <2> QED BY <2>1, <2>2 DEF Next
<1>3. CASE promotions[q].status # "none"
  BY <1>0, <1>1, <1>2, <1>3 DEF PromotionIdsFresh, PromoIds
<1>4. ASSUME promotions[q].status = "none", NEW source, NEW target, NEW m, NEW r,
             SavePrepared(source, target, m, r)
      PROVE  q <= promoSeq'
  <2>1. promotions'[q] # promotions[q] => q = promoSeq + 1
    BY <1>0, <1>4 DEF SavePrepared, TypeOK
  <2>2. promoSeq' = promoSeq + 1
    BY <1>4 DEF SavePrepared
  <2> QED BY <1>0, <1>4, <2>1, <2>2
<1>5. ASSUME promotions[q].status = "none", NEW p \in PromoIds, NEW outcome,
             promotions[p].status # "none", SetOutcome(p, outcome)
      PROVE  q <= promoSeq'
  BY <1>0, <1>5 DEF SetOutcome, TypeOK
<1> QED BY <1>3, <1>4, <1>5, PromotionShape

\* A recorded promotion only ever has its outcome set.
OnlySettled(q) ==
  /\ promotions'[q].status # "none"
  /\ promotions'[q].eviction = promotions[q].eviction
  /\ promotions'[q].target = promotions[q].target
  /\ promotions'[q].base = promotions[q].base
  /\ promotions'[q].baseDigest = promotions[q].baseDigest
  /\ promotions'[q].quota = promotions[q].quota
  /\ OriginOf(q)' = OriginOf(q)

LEMMA PromotionsStay ==
  ASSUME TypeInv, PromotionIdsFresh, Next, NEW q \in PromoIds, promotions[q].status # "none"
  PROVE  \/ promotions'[q] = promotions[q]
         \/ SettledBy(q) /\ OnlySettled(q)
<1>0. TypeOK /\ q \in Nat /\ q <= promoSeq /\ promoSeq \in Nat
  BY DEF TypeInv, TypeOK, PromotionIdsFresh, PromoIds
<1>1. ASSUME NEW source, NEW target, NEW m, NEW r, SavePrepared(source, target, m, r)
      PROVE  promotions'[q] = promotions[q]
  BY <1>0, <1>1 DEF SavePrepared, TypeOK
<1>2. ASSUME NEW p \in PromoIds, NEW outcome \in {"committed", "failed"},
             SetOutcome(p, outcome), SettledBy(p), promotions'[q] # promotions[q]
      PROVE  SettledBy(q) /\ OnlySettled(q)
  <2>1. promotions[q] \in Promotion
    BY <1>0, PromotionType
  <2>2. p = q /\ promotions'[q] = [promotions[q] EXCEPT !.status = outcome]
    BY <1>0, <1>2 DEF SetOutcome, TypeOK
  <2> QED BY <1>2, <2>1, <2>2 DEF OnlySettled, OriginOf, Promotion
<1> QED BY <1>1, <1>2, PromotionShape

\* The record or the log of a promotion says that its room was made.
ClaimsRoom(p) ==
  promotions[p].status = "committed" \/ promoTxns[p] \in {"eviction_committed", "entry_written"}

LEMMA ClaimShape ==
  ASSUME TypeInv, PromotionIdsFresh, Next, NEW q \in PromoIds, ClaimsRoom(q)'
  PROVE  ClaimsRoom(q) \/ ConfirmRoom(q)
<1> USE DEF promotionVars
<1>0. TypeOK
  BY DEF TypeInv
<1>1. ASSUME promoTxns'[q] \in {"eviction_committed", "entry_written"}
      PROVE  ClaimsRoom(q) \/ ConfirmRoom(q)
  <2>1. CASE CacheStep \/ Tick \/ Restart \/ StartStep
    BY <1>1, <2>1 DEF CacheStep, Tick, Restart, StartStep, StartServing, FinishStart,
         RecoverCommit, ClaimsRoom, NoTxn
  <2>2. CASE PrepareStep
    BY <1>1, <2>2 DEF PrepareStep, PreparePromotion, PreparePromotionUnrecorded,
         PreparePromotionRefused, ClaimsRoom
  <2>3. CASE PromotionStep /\ ~ PrepareStep
    BY <1>0, <1>1, <2>3 DEF PromotionStep, BeginCommit, ResumeCommit, RejectCommit,
         FailCommitKeepingLog, InterruptEviction, InterruptStep, InterruptCommit, ApplyStep,
         ApplyEviction,
         WriteEntry, ConfirmRoom, ConfirmEntry, RecordCommitted, RecordCommittedRequest,
         CloseLog, FailCommit, TypeOK, Applying, ClaimsRoom, NoTxn
  <2> QED BY <2>1, <2>2, <2>3 DEF Next, PromotionStep
<1>2. ASSUME promotions'[q].status = "committed"
      PROVE  ClaimsRoom(q)
  <2>1. CASE promotions'[q] = promotions[q]
    BY <1>2, <2>1 DEF ClaimsRoom
  <2>2. ASSUME NEW source, NEW target, NEW m, NEW r, SavePrepared(source, target, m, r)
        PROVE  promotions'[q] = promotions[q]
    BY <1>0, <1>2, <2>2 DEF SavePrepared, Frozen, TypeOK
  <2>3. ASSUME NEW p \in PromoIds, NEW outcome, promotions[p].status # "none",
               SetOutcome(p, outcome), SettledBy(p), promotions'[q] # promotions[q]
        PROVE  ClaimsRoom(q)
    <3>1. p = q /\ promotions[q] \in Promotion
      BY <1>0, <2>3, PromotionType DEF SetOutcome, TypeOK
    <3>2. RecordCommitted(q)
      BY <1>0, <1>2, <2>3, <3>1 DEF SettledBy, RejectCommit, FailCommit, FailCommitKeepingLog,
           SetOutcome, TypeOK, Promotion
    <3> QED BY <3>2 DEF RecordCommitted, Applying, ClaimsRoom
  <2> QED BY <2>1, <2>2, <2>3, PromotionShape
<1> QED BY <1>1, <1>2 DEF ClaimsRoom

LEMMA RoomMadeStep ==
  ASSUME TypeInv, NumbersFresh, CommittedPromotionMadeRoom, Next
  PROVE  CommittedPromotionMadeRoom'
<1> USE DEF NumbersFresh
<1> SUFFICES ASSUME NEW q \in PromoIds, ClaimsRoom(q)', promotions'[q].eviction # 0
             PROVE  decisions'[promotions'[q].eviction].status = "committed"
  BY DEF CommittedPromotionMadeRoom, ClaimsRoom, RoomMade
<1>1. ClaimsRoom(q) \/ ConfirmRoom(q)
  BY ClaimShape
<1>2. RoomMade(q)
  BY <1>1 DEF CommittedPromotionMadeRoom, ClaimsRoom, ConfirmRoom
<1>3. promotions[q].status # "none"
  BY <1>1 DEF ClaimsRoom, ConfirmRoom, Applying, NoTxn, TypeInv, LogsNamePromotions
<1>4. promotions'[q].eviction = promotions[q].eviction
  BY <1>3, PromotionsStay DEF OnlySettled
<1>5. promotions[q].eviction \in DecisionIds
  BY <1>3, <1>4, PromotionType, ParameterAssumption DEF TypeInv, Promotion, DecisionIds
<1> QED BY <1>2, <1>4, <1>5, CommittedStay DEF RoomMade

DecisionInv == TypeInv /\ NumbersFresh /\ CommittedPromotionMadeRoom

LEMMA DecisionInvariant == Spec => []DecisionInv
<1>1. Init => NumbersFresh /\ CommittedPromotionMadeRoom
  BY DEF Init, NumbersFresh, DecisionIdsFresh, PromotionIdsFresh, Recorded, NoDecision,
         NoPromotion, CommittedPromotionMadeRoom, NoTxn
<1>2. ASSUME TypeInv, NumbersFresh, CommittedPromotionMadeRoom, [Next]_vars
      PROVE  NumbersFresh' /\ CommittedPromotionMadeRoom'
  <2>1. CASE Next
    BY <1>2, <2>1, DecisionIdsFreshStep, PromotionIdsFreshStep, RoomMadeStep DEF NumbersFresh
  <2>2. CASE UNCHANGED vars
    BY <1>2, <2>2 DEF NumbersFresh, DecisionIdsFresh, PromotionIdsFresh, Recorded,
       CommittedPromotionMadeRoom, RoomMade, vars, evictionVars, promotionVars
  <2> QED BY <1>2, <2>1, <2>2
<1> QED BY <1>1, <1>2, TypeInvariant, PTL DEF Spec, DecisionInv

\* The numbers of decisions are issued once, across restarts and failed writes: a plan
\* never overwrites another.
THEOREM DecisionIdsStayFresh == Spec => []DecisionIdsFresh
<1>1. DecisionInv => DecisionIdsFresh
  BY DEF DecisionInv, NumbersFresh
<1> QED BY <1>1, DecisionInvariant, PTL

\* Whatever a commit went through, a promotion that needed room is recorded as
\* committed only with its eviction committed.
THEOREM CommittedPromotionsMadeRoom == Spec => []CommittedPromotionMadeRoom
<1>1. DecisionInv => CommittedPromotionMadeRoom
  BY DEF DecisionInv
<1> QED BY <1>1, DecisionInvariant, PTL

\* The outcome of a committed decision is never rewritten.
THEOREM CommittedDecisionsStay == Spec => CommittedDecisionsFinal
<1>1. ASSUME DecisionInv, [Next]_vars
      PROVE  [\A id \in DecisionIds :
                decisions[id].status = "committed" => decisions'[id] = decisions[id]]_vars
  BY <1>1, CommittedStay DEF DecisionInv, NumbersFresh
<1> QED BY <1>1, DecisionInvariant, PTL DEF Spec, CommittedDecisionsFinal

-----------------------------------------------------------------------------
(* Outcomes of promotions. *)

\* A promotion with a redo log has not failed.
LogsNotFailed == \A p \in PromoIds : promoTxns[p] # NoTxn => promotions[p].status # "failed"

LEMMA SettledOnce ==
  ASSUME StorageInv, LogsNotFailed, "log" \notin Faults, NEW p \in PromoIds, SettledBy(p)
  PROVE  promotions[p].status \notin {"committed", "failed"}
<1>1. CASE RejectCommit(p)
  BY <1>1 DEF RejectCommit, Prepared
<1>2. CASE FailCommit(p)
  <2>1. OpenLog(p)
    BY <1>2 DEF FailCommit, CannotApply, Applying, OpenLog
  <2> QED BY <2>1 DEF StorageInv, OpenLogsPrepared, Prepared
<1>3. CASE RecordCommitted(p)
  BY <1>3 DEF RecordCommitted, Applying, LogsNotFailed, NoTxn
<1> QED BY <1>1, <1>2, <1>3 DEF SettledBy, FailCommitKeepingLog

\* A redo log is opened by the beginning of a commit.
LEMMA LogOpens ==
  ASSUME TypeInv, Next, NEW q \in PromoIds, promoTxns'[q] # NoTxn
  PROVE  promoTxns[q] # NoTxn \/ BeginCommit(q)
<1> USE DEF promotionVars
<1>0. TypeOK
  BY DEF TypeInv
<1>1. CASE CacheStep \/ Tick \/ Restart \/ StartStep
  BY <1>1 DEF CacheStep, Tick, Restart, StartStep, StartServing, FinishStart, RecoverCommit
<1>2. CASE PrepareStep
  BY <1>2 DEF PrepareStep, PreparePromotion, PreparePromotionUnrecorded,
       PreparePromotionRefused
<1>3. CASE PromotionStep /\ ~ PrepareStep
  BY <1>0, <1>3 DEF PromotionStep, BeginCommit, ResumeCommit, RejectCommit,
       FailCommitKeepingLog, InterruptEviction, InterruptStep, InterruptCommit, ApplyStep,
       ApplyEviction,
       WriteEntry, ConfirmRoom, ConfirmEntry, RecordCommitted, RecordCommittedRequest,
       CloseLog, FailCommit, TypeOK, Applying, NoTxn
<1> QED BY <1>1, <1>2, <1>3 DEF Next, PromotionStep

LEMMA LogsNotFailedStep ==
  ASSUME StorageInv, NumbersFresh, LogsNotFailed, "log" \notin Faults, Next
  PROVE  LogsNotFailed'
<1> USE DEF promotionVars
<1>0. TypeInv /\ TypeOK
  BY DEF StorageInv, TypeInv
<1> SUFFICES ASSUME NEW q \in PromoIds, promoTxns'[q] # NoTxn, promotions'[q].status = "failed"
             PROVE  FALSE
  BY DEF LogsNotFailed
<1>1. promoTxns[q] # NoTxn \/ BeginCommit(q)
  BY <1>0, LogOpens
<1>2. promotions[q].status # "none" /\ promotions[q].status # "failed"
  BY <1>0, <1>1 DEF BeginCommit, Prepared, LogsNotFailed, TypeInv, LogsNamePromotions
<1>3. SettledBy(q)
  BY <1>0, <1>2, PromotionsStay DEF NumbersFresh
<1>4. CASE RejectCommit(q)
  BY <1>0, <1>1, <1>4 DEF RejectCommit, BeginCommit, TypeOK
<1>5. CASE FailCommit(q)
  BY <1>0, <1>5 DEF FailCommit, TypeOK
<1>6. CASE RecordCommitted(q)
  <2>1. promotions[q] \in Promotion
    BY <1>0, <1>2, PromotionType
  <2> QED BY <1>0, <1>6, <2>1 DEF RecordCommitted, SetOutcome, TypeOK, Promotion
<1> QED BY <1>3, <1>4, <1>5, <1>6 DEF SettledBy, FailCommitKeepingLog

\* A promotion recorded as committed or failed keeps that outcome; provided that a
\* commit that fails does not leave its redo log behind (the run FailedPromotion
\* shows why).
THEOREM PromotionOutcomesFinal ==
  ASSUME "log" \notin Faults PROVE Spec => PromotionOutcomeFinal
<1>1. Init => LogsNotFailed
  BY DEF Init, LogsNotFailed, NoPromotion
<1>2. ASSUME StorageInv, DecisionInv, LogsNotFailed, [Next]_vars
      PROVE  LogsNotFailed'
  <2>1. CASE Next
    BY <1>2, <2>1, LogsNotFailedStep DEF DecisionInv
  <2>2. CASE UNCHANGED vars
    BY <1>2, <2>2 DEF LogsNotFailed, vars, promotionVars
  <2> QED BY <1>2, <2>1, <2>2
<1>3. ASSUME StorageInv, DecisionInv, LogsNotFailed, [Next]_vars
      PROVE  [\A p \in PromoIds :
                promotions[p].status \in {"committed", "failed"}
                => promotions'[p] = promotions[p]]_vars
  BY <1>3, SettledOnce, PromotionsStay DEF DecisionInv, NumbersFresh
<1> QED BY <1>1, <1>2, <1>3, StorageInvariant, DecisionInvariant, PTL
        DEF Spec, PromotionOutcomeFinal
=============================================================================
