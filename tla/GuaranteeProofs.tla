--------------------------- MODULE GuaranteeProofs ---------------------------
(***************************************************************************)
(* What sessions, leases, references, namespaces, evictions and commits    *)
(* keep to in every step, for every value of the constants.                *)
(***************************************************************************)
EXTENDS SafetyProofs

-----------------------------------------------------------------------------
(* References. *)

\* The collector's second look at a blob (deathReason) and its mark (buildLiveSet)
\* agree, so it never spares a blob it has not marked.
LEMMA InUseIsLive ==
  ASSUME NEW b
  PROVE  InUse(b) <=> b \in LiveBlobs
<1>1. b \in EntryBlobs <=> \E k \in Slots : Published(k) /\ b \in Chunks(entries[k].manifest)
  BY DEF EntryBlobs
<1>2. b \in UploadBlobs <=> \E s \in SessionIds : SessionLive(s) /\ b \in ReceivedBlobs(s)
  BY DEF UploadBlobs
<1>3. b \in LeaseBlobs <=> \E k \in Slots : PinActive(k) /\ b \in Chunks(pins[k].manifest)
  BY DEF LeaseBlobs
<1>4. b \in PromotionBlobs <=> \E p \in PromoIds : Prepared(p) /\ b \in Chunks(promotions[p].manifest)
  BY DEF PromotionBlobs
<1> QED BY <1>1, <1>2, <1>3, <1>4 DEF InUse, LiveBlobs

LEMMA ActiveIsInUse ==
  ASSUME NEW b, NEW r \in ActiveReferences(b)
  PROVE  InUse(b)
<1>1. r \in BlobReferences(b) /\ r.active
  BY DEF ActiveReferences
<1>2. CASE r \in EntryReferences(b)
  BY <1>2 DEF EntryReferences, InUse
<1>3. CASE r \in SessionReferences(b)
  BY <1>1, <1>3 DEF SessionReferences, Reference, InUse
<1>4. CASE r \in PinReferences(b)
  BY <1>1, <1>4 DEF PinReferences, Reference, InUse
<1>5. CASE r \in PromotionReferences(b)
  BY <1>5 DEF PromotionReferences, InUse
<1> QED BY <1>1, <1>2, <1>3, <1>4, <1>5 DEF BlobReferences

\* The references that are reported as active explain what the collector spares: it
\* deletes no blob that has one (GetPromotionDetail, CollectGarbage).
THEOREM ReferencesExplain == Spec => ReferencesExplainCollection
<1>1. ASSUME [Next]_vars
      PROVE  [\A b \in blobs : b \notin blobs' => ActiveReferences(b) = {} /\ ~ InUse(b)]_vars
  <2> SUFFICES ASSUME Next, NEW b \in blobs, b \notin blobs'
               PROVE  ActiveReferences(b) = {} /\ ~ InUse(b)
    BY <1>1
  <2>1. CollectStep
    BY BlobsStay
  <2>2. b \notin LiveBlobs
    BY <2>1, CollectShape DEF Garbage
  <2> QED BY <2>2, InUseIsLive, ActiveIsInUse
<1> QED BY <1>1, PTL DEF Spec, ReferencesExplainCollection

-----------------------------------------------------------------------------
(* Sessions. *)

\* A session that was canceled, deleted or outlived its lease is never live again.
THEOREM SessionsStayDead == Spec => SessionsNeverRevive
<1>1. ASSUME TypeInv, [Next]_vars
      PROVE  [\A s \in SessionIds :
                sessions[s].status # "unused" /\ ~ SessionLive(s) => ~ SessionLive(s)']_vars
  <2> SUFFICES ASSUME Next, NEW s \in SessionIds, SessionLive(s)', sessions[s].status # "unused"
               PROVE  SessionLive(s)
    BY <1>1
  <2> QED BY <1>1, SessionShape DEF UploadChunk, Uploadable
<1> QED BY <1>1, TypeInvariant, PTL DEF Spec, SessionsNeverRevive

\* The index names every live session that has an idempotency key.
LiveIndexed ==
  \A s \in SessionIds : SessionLive(s) /\ sessions[s].idem # NoIdem =>
    idem[IdemSlot(sessions[s].slot, sessions[s].idem)] = s

LEMMA LiveIndexedStep ==
  ASSUME TypeInv, LiveIndexed, Next, "restart" \notin Faults
  PROVE  LiveIndexed'
<1> USE DEF uploadVars
<1> DEFINE Goal(s) == idem'[IdemSlot(sessions'[s].slot, sessions'[s].idem)] = s
<1> SUFFICES ASSUME NEW s \in SessionIds, SessionLive(s)', sessions'[s].idem # NoIdem
             PROVE  Goal(s)
  BY DEF LiveIndexed
<1>0. /\ sessions \in [SessionIds -> Session \cup {Unused, Gone}]
      /\ idem \in [Namespaces \X IdemKeys -> SessionIds \cup {NoSession}]
      /\ sessions'[s] \in Session
      /\ IdemSlot(sessions'[s].slot, sessions'[s].idem) \in Namespaces \X IdemKeys
  <2>1. TypeOK /\ TypeOK'
    BY StepTypeOK DEF TypeInv
  <2>2. sessions'[s] \in Session
    BY <2>1 DEF TypeOK, SessionLive, Unused, Gone
  <2> QED BY <2>1, <2>2 DEF TypeOK, Session, IdemSlot, Slots
<1>1. ASSUME sessions'[s] = sessions[s]
      PROVE  SessionLive(s)
  BY <1>0, <1>1, TimePasses DEF SessionLive, Session
<1>2. ASSUME sessions[s].status # "unused",
             sessions'[s].slot = sessions[s].slot, sessions'[s].idem = sessions[s].idem,
             UNCHANGED idem
      PROVE  Goal(s)
  <2>1. SessionLive(s)
    BY <1>2, SessionShape DEF UploadChunk, Uploadable
  <2> QED BY <1>2, <2>1 DEF LiveIndexed
<1>3. ASSUME sessions'[s] = sessions[s], UNCHANGED idem
      PROVE  Goal(s)
  BY <1>1, <1>3 DEF LiveIndexed
<1>4. ASSUME NEW t \in SessionIds \ {s}, SessionLive(t), sessions'[s] = sessions[s], DropIdem(t)
      PROVE  Goal(s)
  <2>1. SessionLive(s) /\ idem[IdemSlot(sessions[s].slot, sessions[s].idem)] = s
    BY <1>1, <1>4 DEF LiveIndexed
  <2>2. sessions[t].idem # NoIdem => idem[IdemSlot(sessions[t].slot, sessions[t].idem)] = t
    BY <1>4 DEF LiveIndexed
  <2> QED BY <1>0, <1>4, <2>1, <2>2 DEF DropIdem
<1>5. ASSUME NEW D \in SUBSET DeadSessions, ForgetSessions(D)
      PROVE  Goal(s)
  <2>1. s \notin D /\ sessions'[s] = sessions[s]
    BY <1>0, <1>5 DEF ForgetSessions, SessionLive, Gone
  <2> QED BY <1>0, <1>1, <1>5, <2>1 DEF ForgetSessions, LiveIndexed
<1>6. CASE UploadStep
  <2>1. ASSUME NEW t \in SessionIds, NEW slot \in Slots, NEW key \in IdemKeys \cup {NoIdem},
               NEW a, NEW m, NEW lease, CreateSession(t, slot, key, a, m, lease)
        PROVE  Goal(s)
    <3>1. CASE t = s
      <4>1. sessions'[s] = NewSession(slot, key, a, m, lease)
        BY <1>0, <2>1, <3>1 DEF CreateSession
      <4>2. sessions'[s].slot = slot /\ sessions'[s].idem = key
        BY <4>1 DEF NewSession
      <4> QED BY <1>0, <2>1, <3>1, <4>2 DEF CreateSession
    <3>2. CASE t # s
      <4>1. sessions'[s] = sessions[s]
        BY <1>0, <2>1, <3>2 DEF CreateSession
      <4>2. idem[IdemSlot(sessions[s].slot, sessions[s].idem)] = s /\ SessionLive(s)
        BY <1>1, <4>1 DEF LiveIndexed
      <4>3. s # NoSession
        BY NamesAssumption
      <4>4. key # NoIdem => IdemSlot(slot, key) # IdemSlot(sessions[s].slot, sessions[s].idem)
        BY <2>1, <4>2, <4>3 DEF CreateSession, IdemAnswered
      <4> QED BY <1>0, <2>1, <4>1, <4>2, <4>4 DEF CreateSession
    <3> QED BY <3>1, <3>2
  <2>2. ASSUME NEW slot \in Slots, NEW key \in IdemKeys, CreateSessionInterrupted(slot, key)
        PROVE  Goal(s)
    <3>1. sessions'[s] = sessions[s]
      BY <2>2 DEF CreateSessionInterrupted
    <3>2. idem[IdemSlot(sessions[s].slot, sessions[s].idem)] = s /\ SessionLive(s)
      BY <1>1, <3>1 DEF LiveIndexed
    <3>3. s # NoSession
      BY NamesAssumption
    <3>4. IdemSlot(slot, key) # IdemSlot(sessions[s].slot, sessions[s].idem)
      BY <2>2, <3>2, <3>3 DEF CreateSessionInterrupted, IdemAnswered
    <3> QED BY <1>0, <2>2, <3>1, <3>2, <3>4 DEF CreateSessionInterrupted
  <2>3. ASSUME NEW t \in SessionIds, NEW i, UploadChunk(t, i) \/ UploadChunkInterrupted(t, i)
        PROVE  Goal(s)
    <3>1. CASE sessions'[s] = sessions[s]
      BY <1>3, <2>3, <3>1 DEF UploadChunk, UploadChunkInterrupted
    <3>2. CASE sessions'[s] # sessions[s]
      <4>1. s = t /\ SessionLive(s) /\ sessions' = [sessions EXCEPT ![s].received = @ \cup {i}]
        BY <1>0, <2>3, <3>2 DEF UploadChunk, UploadChunkInterrupted, Uploadable
      <4>2. sessions[s] \in Session
        BY <4>1, OpenSessionType DEF SessionLive, TypeInv
      <4>3. sessions'[s].slot = sessions[s].slot /\ sessions'[s].idem = sessions[s].idem
        BY <1>0, <4>1, <4>2 DEF Session
      <4> QED BY <1>2, <2>3, <4>1, <4>3 DEF UploadChunk, UploadChunkInterrupted, SessionLive
    <3> QED BY <3>1, <3>2
  <2>4. ASSUME NEW t \in SessionIds, NEW lease, RenewSession(t, lease)
        PROVE  Goal(s)
    <3>1. CASE t = s
      <4>1. sessions[s] \in Session
        BY <2>4, <3>1, OpenSessionType DEF RenewSession, SessionLive, TypeInv
      <4>2. sessions'[s].slot = sessions[s].slot /\ sessions'[s].idem = sessions[s].idem
        BY <1>0, <2>4, <3>1, <4>1 DEF RenewSession, Session
      <4> QED BY <1>2, <2>4, <3>1, <4>2 DEF RenewSession, SessionLive
    <3>2. CASE t # s
      BY <1>0, <1>3, <2>4, <3>2 DEF RenewSession
    <3> QED BY <3>1, <3>2
  <2>5. ASSUME NEW t \in SessionIds, Cancel(t)
        PROVE  Goal(s)
    <3>1. t # s
      <4> SUFFICES ASSUME t = s PROVE FALSE
        OBVIOUS
      <4>1. sessions[s] \in Session
        BY <2>5, OpenSessionType DEF Cancel, SessionLive, TypeInv
      <4> QED BY <1>0, <2>5, <4>1 DEF Cancel, Session, SessionLive
    <3> QED BY <1>0, <1>4, <2>5, <3>1 DEF Cancel
  <2>6. ASSUME SweepExpired \/ SweepExpiredInterrupted
        PROVE  Goal(s)
    BY <1>5, <2>6 DEF SweepExpired, SweepExpiredInterrupted
  <2>7. \/ \E t \in SessionIds, slot \in Slots, key \in IdemKeys \cup {NoIdem} :
             \E a, m, lease : CreateSession(t, slot, key, a, m, lease)
        \/ \E slot \in Slots, key \in IdemKeys : CreateSessionInterrupted(slot, key)
        \/ \E t \in SessionIds : \E i : UploadChunk(t, i) \/ UploadChunkInterrupted(t, i)
        \/ \E t \in SessionIds : \E lease : RenewSession(t, lease)
        \/ \E t \in SessionIds : Cancel(t)
        \/ SweepExpired \/ SweepExpiredInterrupted
    <3>1. \A upload \in UploadRequests : upload[1] \in Slots
      BY ParameterAssumption
    <3> QED BY <1>6, <3>1, Zenon DEF UploadStep
  <2> QED BY <2>1, <2>2, <2>3, <2>4, <2>5, <2>6, <2>7
<1>7. CASE PublishStep
  <2>1. PICK t \in SessionIds :
          \/ UNCHANGED uploadVars
          \/ SessionLive(t) /\ sessions' = [sessions EXCEPT ![t] = Gone] /\ DropIdem(t)
    BY <1>7 DEF PublishStep, Complete, CompleteOverQuota, CompleteUnclosed, CompleteInterrupted,
         Publishable
  <2> QED BY <1>0, <1>3, <1>4, <2>1 DEF SessionLive, Gone
<1>8. CASE CollectStep
  BY <1>5, <1>8 DEF CollectStep, CollectGarbage, CollectGarbageInterrupted
<1>9. CASE CacheStep /\ ~ (UploadStep \/ PublishStep \/ CollectStep)
  <2>1. CASE NamespaceStep \/ EvictionStep \/ ReadStep
    BY <1>3, <2>1 DEF NamespaceStep, SetNamespaceQuota, DeleteNamespace,
         DeleteNamespaceInterrupted, EvictionStep, PlanEviction, PlanEvictionInterrupted,
         CommitEviction, CommitEvictionInterrupted, ReadStep, Read
  <2>2. CASE PinStep
    BY <1>3, <2>2 DEF PinStep, PinEntry, PinEntryInterrupted, RenewPin, RenewPinInterrupted,
         Unpin, UnpinInterrupted, SweepExpiredPins, SweepExpiredPinsInterrupted
  <2> QED BY <1>9, <2>1, <2>2 DEF CacheStep
<1>10. CASE PromotionStep
  BY <1>3, <1>10 DEF PromotionStep, PrepareStep, PreparePromotion, PreparePromotionUnrecorded,
       PreparePromotionRefused, BeginCommit, ResumeCommit, RejectCommit, FailCommitKeepingLog,
       InterruptStep, InterruptCommit, InterruptEviction, ApplyStep, ApplyEviction,
       ConfirmRoom, WriteEntry,
       ConfirmEntry, RecordCommitted, RecordCommittedRequest, CloseLog, FailCommit
<1>11. CASE StartStep \/ Tick
  BY <1>3, <1>11 DEF StartStep, StartServing, FinishStart, RecoverCommit, Tick
<1> QED BY <1>6, <1>7, <1>8, <1>9, <1>10, <1>11 DEF Next, CacheStep, Restart

\* An idempotency key never names two sessions a client could both complete, as long
\* as the index is not rebuilt (CreateSession, Cancel, Complete, sweepSessionLocked).
THEOREM IdemKeysNameOneSession ==
  ASSUME "restart" \notin Faults
  PROVE  Spec => []IdemKeyNamesOneSession
<1>1. Init => LiveIndexed
  BY DEF Init, LiveIndexed, SessionLive, Unused
<1>2. ASSUME TypeInv, LiveIndexed, [Next]_vars
      PROVE  LiveIndexed'
  <2>1. CASE UNCHANGED vars
    BY <1>2, <2>1 DEF vars, uploadVars, LiveIndexed, SessionLive
  <2> QED BY <1>2, <2>1, LiveIndexedStep
<1>3. LiveIndexed => IdemKeyNamesOneSession
  BY DEF LiveIndexed, IdemKeyNamesOneSession, IdemSlot
<1> QED BY <1>1, <1>2, <1>3, TypeInvariant, PTL DEF Spec

-----------------------------------------------------------------------------
(* Leases. *)

\* Protection begins only with what is published at that moment, under a new version.
THEOREM LeasesBeginOnPublished == Spec => LeaseBeginsOnPublished
<1>1. ASSUME TypeInv, [Next]_vars
      PROVE  [\A k \in Slots : ~ PinActive(k) /\ PinActive(k)' =>
                /\ pins'[k].version > pins[k].version
                /\ pins'[k].entryVersion = entries[k].version
                /\ pins'[k].manifest = entries[k].manifest]_vars
  <2> SUFFICES ASSUME Next, NEW k \in Slots, ~ PinActive(k), PinActive(k)'
               PROVE  /\ pins'[k].version > pins[k].version
                      /\ pins'[k].entryVersion = entries[k].version
                      /\ pins'[k].manifest = entries[k].manifest
    BY <1>1
  <2>1. LeaseTakenNow(k)
    BY <1>1, LeaseShape DEF KeptLease
  <2>2. pins[k].version \in Nat
    BY <1>1 DEF TypeInv, TypeOK, Pin, NoPin
  <2> QED BY <2>1, <2>2 DEF LeaseTakenNow
<1> QED BY <1>1, TypeInvariant, PTL DEF Spec, LeaseBeginsOnPublished

\* While no namespace is removed, every change of a lease is its next version.
LEMMA LeaseVersionNext ==
  ASSUME TypeInv, Next, RemovableNamespaces = {}, NEW k \in Slots
  PROVE  pins'[k] = pins[k] \/ pins'[k].version = pins[k].version + 1
<1>1. pins \in [Slots -> Pin \cup {NoPin}]
  BY DEF TypeInv, TypeOK
<1>2. ASSUME NEW K \in SUBSET OverduePins, ExpirePins(K)
      PROVE  pins'[k] = pins[k] \/ pins'[k].version = pins[k].version + 1
  <2>1. CASE k \in K
    <3>1. pins[k] \in Pin
      BY <1>1, <2>1 DEF OverduePins, NoPin
    <3> QED BY <1>2, <2>1, <3>1 DEF ExpirePins, Pin
  <2>2. CASE k \notin K
    BY <1>2, <2>2 DEF ExpirePins
  <2> QED BY <2>1, <2>2
<1>3. CASE PinStep
  <2>1. CASE SweepExpiredPins \/ SweepExpiredPinsInterrupted
    BY <1>2, <2>1 DEF SweepExpiredPins, SweepExpiredPinsInterrupted
  <2>2. CASE ~ (SweepExpiredPins \/ SweepExpiredPinsInterrupted)
    <3>1. PICK j \in Slots, in \in PinInputs :
            \/ pins' = [pins EXCEPT ![j] = PinLease(j, in)]
            \/ pins' = [pins EXCEPT ![j] = RenewedLease(j, in)] /\ PinActive(j)
            \/ pins' = [pins EXCEPT ![j] = ReleasedLease(j)] /\ PinActive(j)
      BY <1>3, <2>2 DEF PinStep, PinEntry, PinEntryInterrupted, RenewPin, RenewPinInterrupted,
           Unpin, UnpinInterrupted, GrantLease, GrantUnrecorded, LeaseAllowed
    <3>2. PinActive(j) => pins[j] \in Pin
      BY <1>1 DEF PinActive, NoPin
    <3>3. /\ PinLease(j, in).version = pins[j].version + 1
          /\ PinActive(j) => /\ RenewedLease(j, in).version = pins[j].version + 1
                             /\ ReleasedLease(j).version = pins[j].version + 1
      BY <3>2 DEF PinLease, RenewedLease, ReleasedLease, Pin
    <3> QED BY <1>1, <3>1, <3>3
  <2> QED BY <2>1, <2>2
<1> QED BY <1>2, <1>3, LeaseSteps

\* Every change of a lease is a new version of it, as long as no namespace is removed
\* (Pin, RenewPin, Unpin, SweepExpiredPins).
THEOREM LeaseVersionsOnlyGrow ==
  ASSUME RemovableNamespaces = {}
  PROVE  Spec => LeaseVersionsGrow
<1>1. ASSUME TypeInv, [Next]_vars
      PROVE  [\A k \in Slots : pins'[k] # pins[k] => pins'[k].version > pins[k].version]_vars
  <2> SUFFICES ASSUME Next, NEW k \in Slots, pins'[k] # pins[k]
               PROVE  pins'[k].version > pins[k].version
    BY <1>1
  <2>1. pins[k].version \in Nat
    BY <1>1 DEF TypeInv, TypeOK, Pin, NoPin
  <2> QED BY <1>1, <2>1, LeaseVersionNext
<1> QED BY <1>1, TypeInvariant, PTL DEF Spec, LeaseVersionsGrow

\* What a step may do to the recorded requests: record one that is fresh, with the
\* next version of its lease as the result.
Recording(r, k) ==
  /\ pinReqs[r].action = "none"
  /\ pins'[k].version = pins[k].version + 1
  /\ \E req \in PinRequest : /\ pinReqs' = [pinReqs EXCEPT ![r] = req]
                             /\ req.slot = k
                             /\ req.result.version = pins[k].version + 1

LEMMA RequestShape ==
  ASSUME TypeInv, Next
  PROVE  UNCHANGED pinReqs \/ \E r \in RequestIds : \E k \in Slots : Recording(r, k)
<1> USE DEF leaseVars
<1>0. TypeInv'
  <2>1. TypeOK'
    BY StepTypeOK DEF TypeInv
  <2> QED BY <2>1, PlansStayRecorded, LogsStayNamed DEF TypeInv
<1>1. CASE CacheStep /\ ~ PinStep
  <2>1. CASE UploadStep \/ PublishStep \/ ReadStep
    BY <2>1 DEF UploadStep, CreateSession, CreateSessionInterrupted, UploadChunk,
         UploadChunkInterrupted, RenewSession, Cancel, SweepExpired, SweepExpiredInterrupted,
         PublishStep, Complete, CompleteOverQuota, CompleteUnclosed, CompleteInterrupted,
         ReadStep, Read
  <2>2. CASE NamespaceStep \/ EvictionStep
    BY <2>2 DEF NamespaceStep, SetNamespaceQuota, DeleteNamespace, DeleteNamespaceInterrupted,
         EvictionStep, PlanEviction, PlanEvictionInterrupted, CommitEviction,
         CommitEvictionInterrupted
  <2>3. CASE CollectStep
    BY <2>3, CollectShape
  <2> QED BY <1>1, <2>1, <2>2, <2>3 DEF CacheStep
<1>2. CASE PinStep
  <2>1. CASE SweepExpiredPins \/ SweepExpiredPinsInterrupted
    BY <2>1 DEF SweepExpiredPins, SweepExpiredPinsInterrupted
  <2>2. ASSUME NEW k \in Slots, NEW in \in PinInputs, NEW r \in RequestIds \cup {NoRequestId},
               NEW action \in {"pin", "renew", "unpin"}, NEW lease,
               FreshRequest(r), GrantLease(action, k, in, r, lease),
               lease.version = pins[k].version + 1
        PROVE  UNCHANGED pinReqs \/ \E q \in RequestIds : \E j \in Slots : Recording(q, j)
    <3>1. CASE r = NoRequestId
      BY <2>2, <3>1 DEF GrantLease
    <3>2. CASE r # NoRequestId
      <4>1. /\ pinReqs[r].action = "none"
            /\ pins' = [pins EXCEPT ![k] = lease]
            /\ pinReqs' = [pinReqs EXCEPT ![r] = [action |-> action, slot |-> k,
                                                  input |-> in, result |-> lease]]
        BY <2>2, <3>2 DEF FreshRequest, GrantLease
      <4>2. pins'[k] = lease
        BY <4>1 DEF TypeInv, TypeOK
      <4>3. lease \in Pin
        <5>1. pins[k].version \in Nat
          BY DEF TypeInv, TypeOK, Pin, NoPin
        <5>2. lease \in Pin \cup {NoPin}
          BY <1>0, <4>2 DEF TypeInv, TypeOK
        <5> QED BY <2>2, <5>1, <5>2 DEF NoPin
      <4>4. [action |-> action, slot |-> k, input |-> in, result |-> lease] \in PinRequest
        BY <4>3, ParameterAssumption DEF PinRequest
      <4> QED BY <2>2, <3>2, <4>1, <4>2, <4>4 DEF Recording
    <3> QED BY <3>1, <3>2
  <2>3. CASE ~ (SweepExpiredPins \/ SweepExpiredPinsInterrupted)
    <3>1. PICK j \in Slots, in \in PinInputs, r \in RequestIds \cup {NoRequestId} :
            \/ UNCHANGED pinReqs
            \/ FreshRequest(r) /\ GrantLease("pin", j, in, r, PinLease(j, in))
            \/ FreshRequest(r) /\ GrantLease("renew", j, in, r, RenewedLease(j, in)) /\ PinActive(j)
            \/ FreshRequest(r) /\ GrantLease("unpin", j, in, r, ReleasedLease(j)) /\ PinActive(j)
      BY <1>2, <2>3 DEF PinStep, PinEntry, PinEntryInterrupted, RenewPin, RenewPinInterrupted,
           Unpin, UnpinInterrupted, GrantUnrecorded, LeaseAllowed
    <3>2. PinActive(j) => pins[j] \in Pin
      BY DEF TypeInv, TypeOK, PinActive, NoPin
    <3>3. /\ PinLease(j, in).version = pins[j].version + 1
          /\ PinActive(j) => /\ RenewedLease(j, in).version = pins[j].version + 1
                             /\ ReleasedLease(j).version = pins[j].version + 1
      BY <3>2 DEF PinLease, RenewedLease, ReleasedLease, Pin
    <3> QED BY <2>2, <3>1, <3>3
  <2> QED BY <2>1, <2>3
<1>3. CASE PromotionStep
  BY <1>3 DEF PromotionStep, PrepareStep, PreparePromotion, PreparePromotionUnrecorded,
       PreparePromotionRefused, BeginCommit, ResumeCommit, RejectCommit, FailCommitKeepingLog,
       InterruptStep, InterruptCommit, InterruptEviction, ApplyStep, ApplyEviction,
       ConfirmRoom, WriteEntry,
       ConfirmEntry, RecordCommitted, RecordCommittedRequest, CloseLog, FailCommit
<1>4. CASE StartStep \/ Tick \/ Restart
  BY <1>4 DEF StartStep, StartServing, FinishStart, RecoverCommit, Tick, Restart
<1> QED BY <1>1, <1>2, <1>3, <1>4 DEF Next, CacheStep

\* No recorded result is ahead of the lease.
ResultsBehindLease ==
  \A r \in RequestIds : pinReqs[r].action # "none" =>
    pinReqs[r].result.version <= pins[pinReqs[r].slot].version

\* Two recorded requests on one key never produced the same lease version, as long as
\* no namespace is removed.
THEOREM LeaseVersionsStayUnique ==
  ASSUME RemovableNamespaces = {}
  PROVE  Spec => []LeaseVersionsIssuedOnce
<1> DEFINE Inv == ResultsBehindLease /\ LeaseVersionsIssuedOnce
<1>1. Init => Inv
  BY DEF Init, ResultsBehindLease, LeaseVersionsIssuedOnce, NoRequest
<1>2. ASSUME TypeInv, Inv, [Next]_vars
      PROVE  Inv'
  <2>1. CASE UNCHANGED vars
    BY <1>2, <2>1 DEF vars, leaseVars, ResultsBehindLease, LeaseVersionsIssuedOnce
  <2>2. CASE Next
    <3>1. \A k \in Slots : /\ pins[k].version \in Nat /\ pins'[k].version \in Nat
                           /\ pins[k].version <= pins'[k].version
      <4>1. ASSUME NEW k \in Slots PROVE pins[k].version \in Nat
        BY <1>2 DEF TypeInv, TypeOK, Pin, NoPin
      <4> QED BY <1>2, <2>2, <4>1, LeaseVersionNext
    <3>2. \A r \in RequestIds : pinReqs[r].action # "none" =>
            pinReqs[r].slot \in Slots /\ pinReqs[r].result.version \in Nat
      BY <1>2 DEF TypeInv, TypeOK, PinRequest, NoRequest, Pin
    <3>3. CASE UNCHANGED pinReqs
      BY <1>2, <3>1, <3>2, <3>3 DEF ResultsBehindLease, LeaseVersionsIssuedOnce
    <3>4. ASSUME NEW r \in RequestIds, NEW k \in Slots, Recording(r, k) PROVE Inv'
      <4>1. PICK req \in PinRequest :
              /\ pinReqs' = [pinReqs EXCEPT ![r] = req]
              /\ req.slot = k /\ req.result.version = pins[k].version + 1
        BY <3>4 DEF Recording
      <4>2. /\ pinReqs'[r] = req
            /\ \A q \in RequestIds \ {r} : pinReqs'[q] = pinReqs[q]
        BY <1>2, <4>1 DEF TypeInv, TypeOK
      <4>3. ResultsBehindLease'
        BY <1>2, <3>1, <3>2, <3>4, <4>1, <4>2 DEF ResultsBehindLease, Recording
      <4>4. ASSUME NEW q \in RequestIds \ {r}, pinReqs[q].action # "none", pinReqs[q].slot = k
            PROVE  pinReqs[q].result.version < req.result.version
        BY <1>2, <3>1, <3>2, <4>1, <4>4 DEF ResultsBehindLease
      <4>5. LeaseVersionsIssuedOnce'
        <5> SUFFICES ASSUME NEW p \in RequestIds, NEW q \in RequestIds, p # q,
                            pinReqs'[p].action # "none", pinReqs'[q].action # "none",
                            pinReqs'[p].slot = pinReqs'[q].slot
                     PROVE  pinReqs'[p].result.version # pinReqs'[q].result.version
          BY DEF LeaseVersionsIssuedOnce
        <5>1. CASE p # r /\ q # r
          BY <1>2, <4>2, <5>1 DEF LeaseVersionsIssuedOnce
        <5>2. CASE p = r
          BY <3>1, <3>2, <4>1, <4>2, <4>4, <5>2
        <5>3. CASE q = r
          BY <3>1, <3>2, <4>1, <4>2, <4>4, <5>3
        <5> QED BY <5>1, <5>2, <5>3
      <4> QED BY <4>3, <4>5
    <3> QED BY <1>2, <2>2, <3>3, <3>4, RequestShape
  <2> QED BY <1>2, <2>1, <2>2
<1> QED BY <1>1, <1>2, TypeInvariant, PTL DEF Spec

-----------------------------------------------------------------------------
(* Namespaces. *)

\* A namespace goes only with DeleteNamespace, while no commit is under way.
LEMMA NamespaceLeaves ==
  ASSUME TypeInv, Next, NEW ns \in Namespaces, Registered(ns), ~ Registered(ns)'
  PROVE  Idle /\ DeleteNamespace(ns)
<1> USE DEF quotaVars
<1>0. quota \in [Namespaces -> Nat \cup {Unregistered}] /\ quota[ns] \in Nat
  BY DEF TypeInv, TypeOK, Registered
<1>1. CASE UNCHANGED quota
  BY <1>1 DEF Registered
<1>2. CASE Restart \/ StartServing
  BY <1>0, <1>2, ParameterAssumption DEF Restart, StartServing, Registered, Unregistered
<1>3. CASE Idle /\ NamespaceStep
  <2>1. PICK n \in Namespaces :
          \/ \E max \in QuotaChoices : SetNamespaceQuota(n, max)
          \/ DeleteNamespace(n)
          \/ DeleteNamespaceInterrupted(n)
    BY <1>3 DEF NamespaceStep
  <2>2. ASSUME NEW max \in QuotaChoices, SetNamespaceQuota(n, max)
        PROVE  FALSE
    BY <1>0, <2>2, ParameterAssumption DEF SetNamespaceQuota, Registered, Unregistered
  <2>3. CASE DeleteNamespaceInterrupted(n)
    BY <1>1, <2>3 DEF DeleteNamespaceInterrupted
  <2>4. CASE DeleteNamespace(n)
    BY <1>0, <1>3, <2>4 DEF DeleteNamespace, Registered
  <2> QED BY <2>1, <2>2, <2>3, <2>4
<1>4. CASE CacheStep /\ ~ NamespaceStep
  <2>1. CASE UploadStep \/ PublishStep \/ ReadStep
    BY <1>1, <2>1 DEF UploadStep, CreateSession, CreateSessionInterrupted, UploadChunk,
         UploadChunkInterrupted, RenewSession, Cancel, SweepExpired, SweepExpiredInterrupted,
         PublishStep, Complete, CompleteOverQuota, CompleteUnclosed, CompleteInterrupted,
         ReadStep, Read
  <2>2. CASE EvictionStep
    BY <1>1, <2>2 DEF EvictionStep, PlanEviction, PlanEvictionInterrupted, CommitEviction,
         CommitEvictionInterrupted
  <2>3. CASE PinStep
    BY <1>1, <2>3 DEF PinStep, PinEntry, PinEntryInterrupted, RenewPin, RenewPinInterrupted,
         Unpin, UnpinInterrupted, SweepExpiredPins, SweepExpiredPinsInterrupted
  <2>4. CASE CollectStep
    BY <1>1, <2>4, CollectShape
  <2> QED BY <1>4, <2>1, <2>2, <2>3, <2>4 DEF CacheStep
<1>5. CASE PromotionStep
  BY <1>1, <1>5 DEF PromotionStep, PrepareStep, PreparePromotion, PreparePromotionUnrecorded,
       PreparePromotionRefused, BeginCommit, ResumeCommit, RejectCommit, FailCommitKeepingLog,
       InterruptStep, InterruptCommit, InterruptEviction, ApplyStep, ApplyEviction,
       ConfirmRoom, WriteEntry,
       ConfirmEntry, RecordCommitted, RecordCommittedRequest, CloseLog, FailCommit
<1>6. CASE (StartStep /\ ~ StartServing) \/ Tick
  BY <1>1, <1>6 DEF StartStep, RecoverCommit, Tick
<1> QED BY <1>2, <1>3, <1>4, <1>5, <1>6 DEF Next, CacheStep

\* As long as no write fails, a redo log that can still write an entry belongs to a
\* namespace that exists, and to the commit in hand unless the process is starting.
OpenLogsHoldNamespace ==
  Faults \cap {"store", "log"} = {} =>
    \A p \in PromoIds : OpenLog(p) =>
      /\ Registered(promotions[p].target[1])
      /\ applying = p \/ mode # "serving"

LEMMA OpenLogsHoldStep ==
  ASSUME TypeInv, NumbersFresh, OpenLogsHoldNamespace, Next
  PROVE  OpenLogsHoldNamespace'
<1> USE DEF promotionVars
<1> SUFFICES ASSUME Faults \cap {"store", "log"} = {}, NEW q \in PromoIds, OpenLog(q)'
             PROVE  /\ quota'[promotions'[q].target[1]] # Unregistered
                    /\ applying' = q \/ mode' # "serving"
  BY DEF OpenLogsHoldNamespace, Registered
<1>0. TypeOK
  BY DEF TypeInv
<1>1. CASE BeginCommit(q)
  BY <1>1 DEF BeginCommit, Registered, quotaVars
<1>2. CASE OpenLog(q)
  <2>1. /\ Registered(promotions[q].target[1])
        /\ applying = q \/ mode # "serving"
    BY <1>2 DEF OpenLogsHoldNamespace
  <2>2. promotions[q].status # "none"
    BY <1>2 DEF OpenLog, NoTxn, TypeInv, LogsNamePromotions
  <2>3. promotions'[q].target = promotions[q].target
    BY <2>2, PromotionsStay DEF NumbersFresh, OnlySettled
  <2>4. promotions[q].target[1] \in Namespaces
    BY <1>0, <2>2, PromotionType DEF Promotion, Slots
  <2>5. ~ Idle
    BY <2>1 DEF Idle, PromoIds
  <2>6. quota'[promotions[q].target[1]] # Unregistered
    BY <2>1, <2>4, <2>5, NamespaceLeaves DEF Registered
  <2>7. applying' = q \/ mode' # "serving"
    <3>1. CASE CacheStep \/ PrepareStep
      BY <2>5, <3>1 DEF CacheStep, PrepareStep, PreparePromotion, PreparePromotionUnrecorded,
           PreparePromotionRefused
    <3>2. CASE Tick \/ Restart \/ StartStep
      BY <2>1, <3>2 DEF Tick, Restart, StartStep, StartServing, FinishStart, RecoverCommit,
           OpenLog, NoTxn
    <3>3. CASE PromotionStep /\ ~ PrepareStep /\ ~ ApplyStep
      BY <2>5, <3>3 DEF PromotionStep, BeginCommit, ResumeCommit, RejectCommit,
           FailCommitKeepingLog, InterruptEviction, InterruptStep, InterruptCommit
    <3>4. CASE ApplyStep
      <4>1. PICK p \in PromoIds :
              \/ ApplyEviction(p) \/ ConfirmRoom(p) \/ WriteEntry(p) \/ ConfirmEntry(p)
              \/ RecordCommitted(p) \/ RecordCommittedRequest(p)
              \/ CloseLog(p) \/ FailCommit(p)
        BY <3>4 DEF ApplyStep
      <4>2. CASE CloseLog(p) \/ FailCommit(p)
        <5>1. promoTxns'[p] = NoTxn /\ applying = p
          BY <1>0, <4>2 DEF CloseLog, FailCommit, CannotApply, Applying, TypeOK
        <5>2. p # q
          BY <5>1 DEF OpenLog, NoTxn
        <5> QED BY <2>1, <4>2, <5>1, <5>2 DEF CloseLog, FailCommit, EndedStart
      <4>3. CASE ~ (CloseLog(p) \/ FailCommit(p))
        BY <2>1, <4>1, <4>3 DEF ApplyEviction, ConfirmRoom, WriteEntry, ConfirmEntry,
             RecordCommitted, RecordCommittedRequest
      <4> QED BY <4>2, <4>3
    <3> QED BY <3>1, <3>2, <3>3, <3>4 DEF Next, PromotionStep
  <2> QED BY <2>3, <2>6, <2>7
<1> QED BY <1>1, <1>2, OpenLogBegins

\* What is published in a namespace that is gone was there before, or is put there now
\* by a commit: a session completes only into a namespace that exists, and a namespace
\* goes only when nothing is published in it.
LEMMA EntryNamespaceStep ==
  ASSUME TypeInv, Next, NEW k \in Slots, Published(k)', ~ Registered(k[1])'
  PROVE  /\ ~ Registered(k[1])
         /\ \/ Published(k) /\ entries'[k].origin = entries[k].origin
            \/ \E p \in PromoIds : PromotedBy(p, k)
<1>1. k[1] \in Namespaces
  BY DEF Slots
<1>2. ~ Registered(k[1])
  <2>1. SUFFICES ASSUME DeleteNamespace(k[1])
                 PROVE  FALSE
    BY <1>1, NamespaceLeaves
  <2> QED BY <2>1 DEF DeleteNamespace, Removable, Published
<1>3. CASE entries'[k] = entries[k] \/ Touched(k)
  BY <1>2, <1>3 DEF Touched, Published
<1>4. CASE EvictedUnpinned(k)
  BY <1>4 DEF EvictedUnpinned, NoEntry, Published
<1>5. ASSUME NEW s \in SessionIds, PublishedBy(s, k)
      PROVE  FALSE
  BY <1>2, <1>5 DEF PublishedBy, Publishable
<1> QED BY <1>2, <1>3, <1>4, <1>5, EntryShape

EntriesHaveNamespace == \A k \in Slots : Published(k) => Registered(k[1])

\* As long as no write fails, no entry is ever left in, or written into, a namespace
\* that is gone, wherever the process crashes: a commit finds its target's namespace,
\* and holds the mutex until it ends (DeleteNamespace, validatePromotionLocked).
THEOREM EntriesKeepNamespaces ==
  ASSUME Faults \cap {"store", "log"} = {}
  PROVE  Spec => []EntriesHaveNamespace
<1>1. Init => OpenLogsHoldNamespace /\ EntriesHaveNamespace
  BY DEF Init, OpenLogsHoldNamespace, EntriesHaveNamespace, OpenLog, NoTxn, Published, NoEntry
<1>2. ASSUME DecisionInv, OpenLogsHoldNamespace, EntriesHaveNamespace, [Next]_vars
      PROVE  OpenLogsHoldNamespace' /\ EntriesHaveNamespace'
  <2>1. CASE Next
    <3>1. TypeInv /\ NumbersFresh
      BY <1>2 DEF DecisionInv
    <3>2. OpenLogsHoldNamespace'
      BY <1>2, <2>1, <3>1, OpenLogsHoldStep
    <3>3. ASSUME NEW k \in Slots, Published(k)', ~ Registered(k[1])'
          PROVE  FALSE
      <4>1. ~ Registered(k[1])
        BY <2>1, <3>1, <3>3, EntryNamespaceStep
      <4>2. PICK p \in PromoIds : PromotedBy(p, k)
        BY <1>2, <2>1, <3>1, <3>3, <4>1, EntryNamespaceStep DEF EntriesHaveNamespace
      <4>3. OpenLog(p) /\ promotions[p].target = k
        BY <4>2 DEF PromotedBy, WriteEntry, Applying, OpenLog
      <4> QED BY <1>2, <4>1, <4>3 DEF OpenLogsHoldNamespace
    <3>4. EntriesHaveNamespace'
      BY <3>3 DEF EntriesHaveNamespace
    <3> QED BY <3>2, <3>4
  <2>2. CASE UNCHANGED vars
    BY <1>2, <2>2 DEF vars, quotaVars, promotionVars, OpenLogsHoldNamespace, OpenLog, Registered,
       EntriesHaveNamespace, Published
  <2> QED BY <1>2, <2>1, <2>2
<1> QED BY <1>1, <1>2, DecisionInvariant, PTL DEF Spec

-----------------------------------------------------------------------------
(* Evictions. *)

\* No entry was used later than now.
AccessesPast == \A k \in Slots : Published(k) => entries[k].lastAccess <= now

\* The last access a decision saw is not later than that of the entry it names, nor
\* than the present: so an entry that is not newer is the one the decision saw.
NotAhead(c) ==
  /\ c.lastAccess <= now
  /\ Published(c.slot) /\ entries[c.slot].version = c.version =>
       c.lastAccess <= entries[c.slot].lastAccess

CandidatesNotAhead ==
  \A id \in DecisionIds : decisions[id].status # "none" =>
    \A c \in decisions[id].candidates : NotAhead(c)

AccessInv == AccessesPast /\ CandidatesNotAhead

LEMMA AccessesPastStep ==
  ASSUME TypeInv, AccessesPast, Next
  PROVE  AccessesPast'
<1> SUFFICES ASSUME NEW k \in Slots, Published(k)'
             PROVE  entries'[k].lastAccess <= now'
  BY DEF AccessesPast
<1>0. now \in Nat /\ now' \in Nat /\ now <= now'
  BY TimePasses
<1>1. CASE entries'[k] = entries[k] \/ Touched(k)
  <2>1. Published(k) /\ entries'[k].lastAccess \in {entries[k].lastAccess, now}
    BY <1>1 DEF Touched, Published
  <2>2. entries[k].lastAccess \in Nat /\ entries[k].lastAccess <= now
    BY <2>1, PublishedType DEF TypeInv, Entry, AccessesPast
  <2> QED BY <1>0, <2>1, <2>2
<1>2. CASE EvictedUnpinned(k)
  BY <1>2 DEF EvictedUnpinned, NoEntry, Published
<1>3. ASSUME NEW s \in SessionIds, PublishedBy(s, k)
      PROVE  entries'[k].lastAccess <= now'
  BY <1>0, <1>3 DEF PublishedBy, NewEntry
<1>4. ASSUME NEW p \in PromoIds, PromotedBy(p, k)
      PROVE  entries'[k].lastAccess <= now'
  BY <1>0, <1>4 DEF PromotedBy, PromotedEntry
<1> QED BY <1>1, <1>2, <1>3, <1>4, EntryShape

LEMMA NotAheadStep ==
  ASSUME TypeInv, AccessesPast, Next, NEW c \in Candidate, NotAhead(c)
  PROVE  NotAhead(c)'
<1> DEFINE k == c.slot
<1>0. /\ now \in Nat /\ now' \in Nat /\ now <= now'
      /\ k \in Slots /\ c.lastAccess \in Nat /\ c.lastAccess <= now
  BY TimePasses DEF Candidate, NotAhead
<1> SUFFICES ASSUME Published(k)', entries'[k].version = c.version
             PROVE  c.lastAccess <= entries'[k].lastAccess
  BY <1>0 DEF NotAhead, Published
<1>1. CASE entries'[k] = entries[k] \/ Touched(k)
  <2>1. /\ Published(k) /\ entries[k].version = c.version
        /\ entries'[k].lastAccess \in {entries[k].lastAccess, now}
    BY <1>1 DEF Touched, SameEntry, Published
  <2> QED BY <1>0, <2>1 DEF NotAhead
<1>2. CASE EvictedUnpinned(k)
  BY <1>2 DEF EvictedUnpinned, NoEntry, Published
<1>3. ASSUME NEW s \in SessionIds, PublishedBy(s, k)
      PROVE  c.lastAccess <= entries'[k].lastAccess
  BY <1>0, <1>3 DEF PublishedBy, NewEntry
<1>4. ASSUME NEW p \in PromoIds, PromotedBy(p, k)
      PROVE  c.lastAccess <= entries'[k].lastAccess
  BY <1>0, <1>4 DEF PromotedBy, PromotedEntry
<1> QED BY <1>0, <1>1, <1>2, <1>3, <1>4, EntryShape

\* What a fresh plan names is not ahead of what it names.
LEMMA FreshNotAhead ==
  ASSUME TypeInv, AccessesPast, NEW d \in Decision, FreshPlan(d), NEW c \in d.candidates
  PROVE  NotAhead(c)
<1>1. c.slot \in Slots /\ Published(c.slot) /\ c.lastAccess = entries[c.slot].lastAccess
  BY DEF FreshPlan, Decision, Candidate
<1>2. entries[c.slot].lastAccess \in Nat /\ entries[c.slot].lastAccess <= now
  BY <1>1, PublishedType DEF TypeInv, Entry, AccessesPast
<1> QED BY <1>1, <1>2 DEF NotAhead

LEMMA CandidatesStep ==
  ASSUME TypeInv, AccessInv, Next
  PROVE  CandidatesNotAhead'
<1> USE DEF AccessInv
<1> SUFFICES ASSUME NEW id \in DecisionIds, decisions'[id].status # "none",
                    NEW x \in decisions'[id].candidates
             PROVE  NotAhead(x)'
  BY DEF CandidatesNotAhead
<1>0. TypeOK
  BY DEF TypeInv
<1>1. ASSUME NEW d \in Decision, NEW c \in d.candidates, NotAhead(c)
      PROVE  NotAhead(c)'
  <2>1. c \in Candidate
    BY DEF Decision
  <2> QED BY <1>1, <2>1, NotAheadStep
<1>2. CASE decisions'[id] = decisions[id]
  <2>1. decisions[id] \in Decision
    BY <1>0, <1>2, DecisionType
  <2>2. NotAhead(x)
    BY <1>2 DEF CandidatesNotAhead
  <2> QED BY <1>1, <1>2, <2>1, <2>2
<1>3. CASE DecisionRecorded
  <2>1. PICK d \in Decision : RecordDecision(d) /\ FreshPlan(d)
    BY <1>3 DEF DecisionRecorded
  <2>2. decisions'[id] = decisions[id] \/ decisions'[id] = d
    BY <1>0, <2>1 DEF RecordDecision, TypeOK
  <2> QED BY <1>1, <1>2, <2>1, <2>2, FreshNotAhead
<1>4. CASE DecisionCommitted
  <2>1. \/ decisions'[id] = decisions[id]
        \/ /\ decisions[id].status = "proposed"
           /\ decisions'[id] = Committed(decisions[id])
    BY <1>0, <1>4 DEF DecisionCommitted, TypeOK
  <2>2. ASSUME decisions[id].status = "proposed", decisions'[id] = Committed(decisions[id])
        PROVE  NotAhead(x)'
    <3>1. decisions[id] \in Decision
      BY <1>0, <2>2, DecisionType
    <3>2. PICK c \in decisions[id].candidates : x = [c EXCEPT !.outcome = Recheck(c)]
      BY <2>2, <3>1 DEF Committed, Decision
    <3>3. c \in Candidate
      BY <3>1 DEF Decision
    <3>4. x.slot = c.slot /\ x.version = c.version /\ x.lastAccess = c.lastAccess
      BY <3>2, <3>3 DEF Candidate
    <3>5. NotAhead(c)'
      BY <1>1, <2>2, <3>1 DEF CandidatesNotAhead
    <3> QED BY <3>4, <3>5 DEF NotAhead
  <2> QED BY <1>2, <2>1, <2>2
<1> QED BY <1>2, <1>3, <1>4, DecisionShape DEF DecisionsUntouched

\* The decision that deletes k: recorded before, or planned in this step.
DeletedUnder(k, id, d) ==
  /\ d \in Decision
  /\ k \in Deleted(Committed(d))
  /\ decisions'[id] \in {d, Committed(d)}
  /\ (d = decisions[id] /\ d.status # "none") \/ FreshPlan(d)

LEMMA EvictedWithout ==
  ASSUME NEW d \in Decision, NEW k \in Slots, Evicted(k),
         \/ entries' = Without(Deleted(Committed(d)))
         \/ \E last : entries' = Without(DeletedUpTo(d, last))
  PROVE  k \in Deleted(Committed(d))
<1>1. \A last : DeletedUpTo(d, last) \subseteq Deleted(Committed(d))
  BY DEF DeletedUpTo, Deleted
<1> QED BY <1>1 DEF Evicted, Published, Without

LEMMA EvictedUnder ==
  ASSUME TypeInv, Next, NEW k \in Slots, Evicted(k)
  PROVE  \E id \in DecisionIds : \E d : DeletedUnder(k, id, d)
<1> DEFINE Goal == \E id \in DecisionIds : \E d : DeletedUnder(k, id, d)
<1> SUFFICES Goal
  OBVIOUS
<1>0. TypeOK
  BY DEF TypeInv
<1>1. ASSUME NEW d \in Decision, NEW e \in {d, Committed(d)}, RecordDecision(e), FreshPlan(d),
             k \in Deleted(Committed(d))
      PROVE  Goal
  <2>1. evictSeq + 1 \in DecisionIds
    BY <1>0, <1>1, ParameterAssumption DEF RecordDecision, TypeOK, DecisionIds
  <2>2. decisions'[evictSeq + 1] = e
    BY <1>0, <1>1, <2>1 DEF RecordDecision, TypeOK
  <2> QED BY <1>1, <2>1, <2>2 DEF DeletedUnder
<1>2. CASE PublishStep
  <2>1. PICK s \in SessionIds, v \in ExpectedVersions :
          \/ Complete(s, v)
          \/ CompleteOverQuota(s, v)
          \/ CompleteUnclosed(s, v)
          \/ CompleteInterrupted(s, v)
    BY <1>2 DEF PublishStep
  <2> DEFINE d == RoomDecision(s)
  <2>2. Publishable(s) /\ FreshPlan(d) /\ sessions[s].slot \in Slots
    BY <1>0, <2>1, PlanFresh, PublishTypes DEF Complete, CompleteOverQuota, CompleteUnclosed,
       CompleteInterrupted, RoomDecision
  <2>3. ASSUME Publish(s, v)
        PROVE  Goal
    <3>1. CASE Reuse(s)
      BY <1>0, <2>2, <3>1 DEF Reuse, Evicted, Published, SameContent, TypeOK, Entry, NoEntry
    <3>2. CASE PublishWithinQuota(s, v)
      <4>1. NewEntry(s).version > 0
        BY <1>0, <2>2, PublishTypes DEF Entry
      <4> QED BY <1>0, <3>2, <4>1 DEF PublishWithinQuota, Evicted, Published, TypeOK
    <3>3. CASE PublishAfterEviction(s, v)
      <4>1. d \in Decision
        BY <1>0, <2>2, <3>3, PublishTypes DEF PublishAfterEviction
      <4>2. NewEntry(s).version > 0
        BY <1>0, <2>2, PublishTypes DEF Entry
      <4>3. k \in Deleted(Committed(d))
        BY <2>2, <3>3, <4>2 DEF PublishAfterEviction, Evicted, Published, Without
      <4>4. RecordDecision(Committed(d))
        BY <3>3 DEF PublishAfterEviction
      <4> QED BY <1>1, <2>2, <4>1, <4>3, <4>4
    <3> QED BY <2>3, <3>1, <3>2, <3>3 DEF Publish
  <2>4. CASE CompleteOverQuota(s, v) \/ CompleteInterrupted(s, v)
    <3>1. d \in Decision
      BY <1>0, <2>4, PublishTypes DEF CompleteOverQuota, CompleteInterrupted
    <3>2. entries' # entries
      BY DEF Evicted, Published
    <3>3. \E e \in {d, Committed(d)} : RecordDecision(e)
      BY <2>4 DEF CompleteOverQuota, CompleteInterrupted
    <3>4. \/ entries' = Without(Deleted(Committed(d)))
          \/ \E last : entries' = Without(DeletedUpTo(d, last))
      BY <2>4, <3>2 DEF CompleteOverQuota, CompleteInterrupted
    <3> QED BY <1>1, <2>2, <3>1, <3>3, <3>4, EvictedWithout
  <2> QED BY <2>1, <2>3, <2>4 DEF Complete, CompleteUnclosed
<1>3. CASE ReadStep
  <2>1. PICK j \in Slots : Read(j)
    BY <1>3 DEF ReadStep
  <2>2. entries[j] \in Entry
    BY <1>0, <2>1, PublishedType DEF Read
  <2> QED BY <1>0, <2>1, <2>2 DEF Read, Evicted, Published, TypeOK, Entry
<1>4. ASSUME NEW id \in DecisionIds, NEW d, d = decisions[id], d \in Decision,
             decisions'[id] \in {d, Committed(d)},
             \/ entries' = Without(Deleted(Committed(d)))
             \/ \E last : entries' = Without(DeletedUpTo(d, last))
      PROVE  Goal
  <2>1. k \in Deleted(Committed(d)) /\ d.status # "none"
    BY <1>4, EvictedWithout DEF Decision
  <2> QED BY <1>4, <2>1 DEF DeletedUnder
<1>5. ASSUME NEW id \in DecisionIds, CommitEviction(id) \/ CommitEvictionInterrupted(id)
      PROVE  Goal
  <2>1. decisions[id] \in Decision
    BY <1>0, <1>5, DecisionType DEF CommitEviction, CommitEvictionInterrupted
  <2>2. decisions'[id] \in {decisions[id], Committed(decisions[id])}
    BY <1>0, <1>5 DEF CommitEviction, CommitEvictionInterrupted, TypeOK, evictionVars
  <2> QED BY <1>4, <1>5, <2>1, <2>2 DEF CommitEviction, CommitEvictionInterrupted
<1>6. ASSUME NEW p \in PromoIds, ApplyEviction(p) \/ InterruptEviction(p)
      PROVE  Goal
  <2> DEFINE id == promotions[p].eviction
  <2>1. promoTxns[p] # NoTxn /\ id # 0
    BY <1>6 DEF ApplyEviction, InterruptEviction, Applying, RoomMade, NoTxn
  <2>2. id \in DecisionIds /\ decisions[id] \in Decision
    BY <2>1, AppliedType
  <2>3. decisions'[id] \in {decisions[id], Committed(decisions[id])}
    BY <1>0, <1>6, <2>2 DEF ApplyEviction, InterruptEviction, TypeOK, evictionVars
  <2> QED BY <1>4, <1>6, <2>2, <2>3 DEF ApplyEviction, InterruptEviction
<1>7. ASSUME NEW p \in PromoIds, WriteEntry(p)
      PROVE  FALSE
  <2>1. promotions[p].base + 1 > 0
    <3>1. promotions[p].status # "none"
      BY <1>7 DEF WriteEntry, Applying, NoTxn, TypeInv, LogsNamePromotions
    <3> QED BY <1>0, <3>1, PromotionType DEF Promotion
  <2> QED BY <1>0, <1>7, <2>1 DEF WriteEntry, PromotedEntry, Evicted, Published, TypeOK
<1> QED BY <1>2, <1>3, <1>5, <1>6, <1>7, EntrySteps DEF Evicted, Published

\* An entry disappears only under a recorded decision that names it as it was at that
\* moment, last access included, and never while it is pinned (commitEvictionLocked).
THEOREM EvictionsMatchDecisions == Spec => EvictionMatchesDecision
<1>1. Init => AccessInv
  BY DEF Init, AccessInv, AccessesPast, CandidatesNotAhead, Published, NoEntry, NoDecision
<1>2. ASSUME TypeInv, AccessInv, [Next]_vars
      PROVE  AccessInv'
  <2>1. CASE Next
    BY <1>2, <2>1, AccessesPastStep, CandidatesStep DEF AccessInv
  <2>2. CASE UNCHANGED vars
    BY <1>2, <2>2 DEF vars, evictionVars, AccessInv, AccessesPast, CandidatesNotAhead, NotAhead,
       Published
  <2> QED BY <1>2, <2>1, <2>2
<1>3. ASSUME TypeInv, AccessInv, [Next]_vars
      PROVE  [\A k \in Slots : Evicted(k) =>
                /\ ~ PinActive(k)
                /\ \E id \in DecisionIds :
                     /\ decisions'[id].status # "none"
                     /\ \E c \in decisions'[id].candidates :
                          /\ c.slot = k
                          /\ c.version = entries[k].version
                          /\ c.digest = entries[k].digest
                          /\ c.lastAccess = entries[k].lastAccess]_vars
  <2> SUFFICES ASSUME Next, NEW k \in Slots, Evicted(k)
               PROVE  /\ ~ PinActive(k)
                      /\ \E id \in DecisionIds :
                           /\ decisions'[id].status # "none"
                           /\ \E c \in decisions'[id].candidates :
                                /\ c.slot = k
                                /\ c.version = entries[k].version
                                /\ c.digest = entries[k].digest
                                /\ c.lastAccess = entries[k].lastAccess
    BY <1>3
  <2>0. PICK id \in DecisionIds : \E d : DeletedUnder(k, id, d)
    BY <1>3, EvictedUnder
  <2>1. PICK d : DeletedUnder(k, id, d)
    BY <2>0
  <2>2. PICK c \in d.candidates : c.slot = k /\ Recheck(c) = "deleted"
    <3>1. d \in Decision /\ k \in Deleted(Committed(d))
      BY <2>1 DEF DeletedUnder
    <3>2. \A x \in d.candidates : x \in Candidate
      BY <3>1 DEF Decision
    <3> QED BY <3>1, <3>2 DEF Deleted, Committed, Decision, Candidate
  <2>3. c \in Candidate /\ c.lastAccess \in Nat
    BY <2>1 DEF DeletedUnder, Decision, Candidate
  <2>4. /\ Published(k) /\ ~ PinActive(k)
        /\ c.version = entries[k].version /\ c.digest = entries[k].digest
        /\ ~ (entries[k].lastAccess > c.lastAccess)
    BY <2>2 DEF Recheck
  <2>5. NotAhead(c)
    <3>1. d \in Decision
      BY <2>1 DEF DeletedUnder
    <3>2. CASE FreshPlan(d)
      BY <1>3, <3>1, <3>2, FreshNotAhead DEF AccessInv
    <3>3. CASE d = decisions[id] /\ d.status # "none"
      BY <1>3, <3>3 DEF AccessInv, CandidatesNotAhead
    <3> QED BY <2>1, <3>2, <3>3 DEF DeletedUnder
  <2>6. c.lastAccess = entries[k].lastAccess
    <3>1. entries[k].lastAccess \in Nat
      BY <1>3, <2>4, PublishedType DEF TypeInv, Entry
    <3> QED BY <2>2, <2>3, <2>4, <2>5, <3>1 DEF NotAhead
  <2>7. CASE decisions'[id] = d
    <3>1. d.status # "none"
      BY <2>1 DEF DeletedUnder, Decision
    <3> QED BY <2>2, <2>4, <2>6, <2>7, <3>1
  <2>8. CASE decisions'[id] = Committed(d)
    <3> DEFINE x == [c EXCEPT !.outcome = Recheck(c)]
    <3>1. /\ decisions'[id].status # "none"
          /\ x \in decisions'[id].candidates
      BY <2>1, <2>8 DEF DeletedUnder, Committed, Decision
    <3>2. /\ x.slot = c.slot /\ x.version = c.version /\ x.digest = c.digest
          /\ x.lastAccess = c.lastAccess
      BY <2>3 DEF Candidate
    <3> QED BY <2>2, <2>4, <2>6, <3>1, <3>2
  <2> QED BY <2>1, <2>7, <2>8 DEF DeletedUnder
<1> QED BY <1>1, <1>2, <1>3, TypeInvariant, PTL DEF Spec, EvictionMatchesDecision
-----------------------------------------------------------------------------
(* Commits. *)

\* Only a write of the commit in hand leaves the mutex with it.
LEMMA CommitKeepsMutex ==
  ASSUME Next, applying # 0, applying' = applying
  PROVE  \E p \in PromoIds :
           /\ applying = p
           /\ \/ ApplyEviction(p) \/ ConfirmRoom(p) \/ WriteEntry(p) \/ ConfirmEntry(p)
              \/ RecordCommitted(p) \/ RecordCommittedRequest(p)
<1>1. ~ CacheStep /\ ~ Tick /\ ~ Restart /\ ~ StartStep
  BY DEF CacheStep, Idle, Tick, Restart, StartStep, StartServing, FinishStart, RecoverCommit
<1>2. ~ PrepareStep
  BY DEF PrepareStep, PreparePromotion, PreparePromotionUnrecorded, PreparePromotionRefused, Idle
<1>3. ~ InterruptStep
  BY DEF InterruptStep, InterruptCommit, InterruptEviction
<1>4. ApplyStep
  BY <1>1, <1>2, <1>3 DEF Next, PromotionStep, BeginCommit, ResumeCommit, RejectCommit, Idle,
       FailCommitKeepingLog
<1> QED BY <1>4 DEF ApplyStep, ApplyEviction, ConfirmRoom, WriteEntry, ConfirmEntry,
         RecordCommitted, RecordCommittedRequest, CloseLog, FailCommit, Applying

\* What a write was to bring about is there when it is done.
LEMMA WritesTakeHold ==
  ASSUME TypeInv, NEW p \in PromoIds
  PROVE  /\ ApplyEviction(p) => RoomMade(p)'
         /\ WriteEntry(p) => EntryPresent(p)'
         /\ RecordCommitted(p) => promotions'[p].status = "committed"
         /\ RecordCommittedRequest(p) => RequestRecorded(p)'
<1> USE DEF promotionVars, Applying, NoTxn
<1>0. TypeOK
  BY DEF TypeInv
<1>1. ASSUME ApplyEviction(p)
      PROVE  RoomMade(p)'
  <2>1. promotions[p].eviction \in DecisionIds /\ decisions[promotions[p].eviction] \in Decision
    BY <1>1, AppliedType DEF ApplyEviction, RoomMade
  <2>2. Committed(decisions[promotions[p].eviction]).status = "committed"
    BY <2>1 DEF Committed, Decision
  <2> QED BY <1>0, <1>1, <2>1, <2>2 DEF ApplyEviction, RoomMade, TypeOK
<1>2. ASSUME WriteEntry(p)
      PROVE  EntryPresent(p)'
  <2>1. promotions[p] \in Promotion /\ PromotedEntry(p) \in Entry
    BY <1>2, AppliedType, PromotedEntryType DEF WriteEntry
  <2>2. entries'[promotions[p].target] = PromotedEntry(p) /\ promotions' = promotions
    BY <1>0, <1>2, <2>1 DEF WriteEntry, Promotion, TypeOK
  <2>3. PromotedEntry(p).version > 0 /\ promotions[p].version > 0
    BY <2>1 DEF Entry, Promotion
  <2> QED BY <2>2, <2>3 DEF EntryPresent, Published, PromotedEntry, OriginOf
<1>3. ASSUME RecordCommitted(p)
      PROVE  promotions'[p].status = "committed"
  <2>1. promotions[p] \in Promotion
    BY <1>3, AppliedType DEF RecordCommitted
  <2> QED BY <1>0, <1>3, <2>1 DEF RecordCommitted, SetOutcome, Promotion, TypeOK
<1>4. ASSUME RecordCommittedRequest(p)
      PROVE  RequestRecorded(p)'
  <2>1. promotions[p] \in Promotion
    BY <1>4, AppliedType DEF RecordCommittedRequest
  <2> QED BY <1>0, <1>4, <2>1 DEF RecordCommittedRequest, RecordRequest, RequestRecorded,
           Promotion, TypeOK
<1> QED BY <1>1, <1>2, <1>3, <1>4

\* A commit goes straight to its end: between two of its writes there is no other step,
\* and each of them, the first or a repetition after an interruption, does one thing
\* that had still to be done (applyPromotionLocked).
THEOREM CommitsAdvance == Spec => CommitAdvances
<1>1. ASSUME TypeInv, Next, applying # 0, applying' = applying
      PROVE  StepsLeft' < StepsLeft
  <2> USE DEF Applying
  <2>0. TypeOK
    BY <1>1 DEF TypeInv
  <2>1. PICK p \in PromoIds :
          /\ applying = p
          /\ \/ ApplyEviction(p) \/ ConfirmRoom(p) \/ WriteEntry(p) \/ ConfirmEntry(p)
             \/ RecordCommitted(p) \/ RecordCommittedRequest(p)
    BY <1>1, CommitKeepsMutex
  <2>2. applying' = p /\ p # 0
    BY <1>1, <2>1
  <2>3. CASE ApplyEviction(p)
    <3>1. StepsLeft = 7
      BY <2>1, <2>2, <2>3 DEF ApplyEviction, StepsLeft
    <3>2. RoomMade(p)' /\ promoTxns'[p] = "committing"
      BY <1>1, <2>3, WritesTakeHold DEF ApplyEviction, promotionVars
    <3>3. StepsLeft' = 6
      BY <2>2, <3>2 DEF StepsLeft
    <3> QED BY <3>1, <3>3
  <2>4. CASE ConfirmRoom(p)
    <3>1. StepsLeft \in {6, 7}
      BY <2>1, <2>2, <2>4 DEF ConfirmRoom, StepsLeft
    <3>2. promoTxns'[p] = "eviction_committed"
      BY <2>0, <2>4 DEF ConfirmRoom, TypeOK
    <3>3. StepsLeft' \in {4, 5}
      BY <2>2, <3>2 DEF StepsLeft
    <3> QED BY <3>1, <3>3
  <2>5. CASE WriteEntry(p)
    <3>1. StepsLeft = 5
      BY <2>1, <2>2, <2>5 DEF WriteEntry, StepsLeft
    <3>2. EntryPresent(p)' /\ promoTxns'[p] = "eviction_committed"
      BY <1>1, <2>5, WritesTakeHold DEF WriteEntry, promotionVars
    <3>3. StepsLeft' = 4
      BY <2>2, <3>2 DEF StepsLeft
    <3> QED BY <3>1, <3>3
  <2>6. CASE ConfirmEntry(p)
    <3>1. StepsLeft \in {4, 5}
      BY <2>1, <2>2, <2>6 DEF ConfirmEntry, StepsLeft
    <3>2. promoTxns'[p] = "entry_written"
      BY <2>0, <2>6 DEF ConfirmEntry, TypeOK
    <3>3. StepsLeft' \in {1, 2, 3}
      BY <2>2, <3>2 DEF StepsLeft
    <3> QED BY <3>1, <3>3
  <2>7. CASE RecordCommitted(p)
    <3>1. StepsLeft = 3
      BY <2>1, <2>2, <2>7 DEF RecordCommitted, StepsLeft
    <3>2. promotions'[p].status = "committed" /\ promoTxns'[p] = "entry_written"
      BY <1>1, <2>7, WritesTakeHold DEF RecordCommitted
    <3>3. StepsLeft' \in {1, 2}
      BY <2>2, <3>2 DEF StepsLeft
    <3> QED BY <3>1, <3>3
  <2>8. CASE RecordCommittedRequest(p)
    <3>1. StepsLeft = 2
      BY <2>1, <2>2, <2>8 DEF RecordCommittedRequest, StepsLeft
    <3>2. /\ RequestRecorded(p)'
          /\ promotions'[p].status = "committed" /\ promoTxns'[p] = "entry_written"
      BY <1>1, <2>8, WritesTakeHold DEF RecordCommittedRequest
    <3>3. StepsLeft' = 1
      BY <2>2, <3>2 DEF StepsLeft
    <3> QED BY <3>1, <3>3
  <2> QED BY <2>1, <2>3, <2>4, <2>5, <2>6, <2>7, <2>8
<1> QED BY <1>1, TypeInvariant, PTL DEF Spec, CommitAdvances

-----------------------------------------------------------------------------
(* Who holds a commit.  As long as no write fails, a commit lets go of the      *)
(* mutex only when its log is closed or the process starts, so that there is    *)
(* one unfinished commit at most and nothing happens around it until it ends.   *)

\* What a recorded promotion is about never changes.
LEMMA FrozenStays ==
  ASSUME DecisionInv, Next, NEW q \in PromoIds, promotions[q].status # "none"
  PROVE  /\ promotions'[q].status # "none"
         /\ promotions'[q].target = promotions[q].target
         /\ promotions'[q].source = promotions[q].source
         /\ promotions'[q].digest = promotions[q].digest
         /\ promotions'[q].request = promotions[q].request
         /\ promotions'[q].eviction = promotions[q].eviction
         /\ promotions'[q].base = promotions[q].base
         /\ promotions'[q].baseDigest = promotions[q].baseDigest
         /\ promotions'[q].quota = promotions[q].quota
         /\ OriginOf(q)' = OriginOf(q)
<1>1. promotions'[q] = promotions[q] \/ OnlySettled(q)
  BY PromotionsStay DEF DecisionInv, NumbersFresh
<1>2. CASE promotions'[q] = promotions[q]
  BY <1>2 DEF OriginOf
<1>3. CASE OnlySettled(q)
  BY <1>3 DEF OnlySettled, OriginOf
<1> QED BY <1>1, <1>2, <1>3

\* The log or the record of a promotion says that its entry is written.
ClaimsEntry(p) == promoTxns[p] = "entry_written" \/ promotions[p].status = "committed"

LEMMA ClaimBegins ==
  ASSUME DecisionInv, Next, NEW q \in PromoIds, ClaimsEntry(q)'
  PROVE  ClaimsEntry(q) \/ ConfirmEntry(q)
<1> USE DEF promotionVars
<1>0. TypeInv /\ TypeOK /\ PromotionIdsFresh
  BY DEF DecisionInv, NumbersFresh, TypeInv
<1>1. ASSUME promoTxns'[q] = "entry_written"
      PROVE  ClaimsEntry(q) \/ ConfirmEntry(q)
  <2>1. CASE CacheStep \/ Tick \/ Restart \/ StartStep
    BY <1>1, <2>1 DEF CacheStep, Tick, Restart, StartStep, StartServing, FinishStart,
         RecoverCommit, ClaimsEntry, NoTxn
  <2>2. CASE PrepareStep
    BY <1>1, <2>2 DEF PrepareStep, PreparePromotion, PreparePromotionUnrecorded,
         PreparePromotionRefused, ClaimsEntry
  <2>3. CASE PromotionStep /\ ~ PrepareStep
    BY <1>0, <1>1, <2>3 DEF PromotionStep, BeginCommit, ResumeCommit, RejectCommit,
         FailCommitKeepingLog, InterruptEviction, InterruptStep, InterruptCommit, ApplyStep,
         ApplyEviction,
         WriteEntry, ConfirmRoom, ConfirmEntry, RecordCommitted, RecordCommittedRequest,
         CloseLog, FailCommit, TypeOK, Applying, ClaimsEntry, NoTxn
  <2> QED BY <2>1, <2>2, <2>3 DEF Next, PromotionStep
<1>2. ASSUME promotions'[q].status = "committed"
      PROVE  ClaimsEntry(q)
  <2>1. CASE promotions'[q] = promotions[q]
    BY <1>2, <2>1 DEF ClaimsEntry
  <2>2. ASSUME NEW source, NEW target, NEW m, NEW r, SavePrepared(source, target, m, r)
        PROVE  promotions'[q] = promotions[q]
    BY <1>0, <1>2, <2>2 DEF SavePrepared, Frozen, TypeOK
  <2>3. ASSUME NEW p \in PromoIds, NEW outcome, promotions[p].status # "none",
               SetOutcome(p, outcome), SettledBy(p), promotions'[q] # promotions[q]
        PROVE  ClaimsEntry(q)
    <3>1. p = q /\ promotions[q] \in Promotion
      BY <1>0, <2>3, PromotionType DEF SetOutcome, TypeOK
    <3>2. RecordCommitted(q)
      BY <1>0, <1>2, <2>3, <3>1 DEF SettledBy, RejectCommit, FailCommit, FailCommitKeepingLog,
           SetOutcome, TypeOK, Promotion
    <3> QED BY <3>2 DEF RecordCommitted, Applying, ClaimsEntry
  <2> QED BY <1>0, <2>1, <2>2, <2>3, PromotionShape
<1> QED BY <1>1, <1>2 DEF ClaimsEntry

NoWriteFails == Faults \cap {"store", "log"} = {}

\* A commit whose log says that it goes on.
Underway(p) == promoTxns[p] # NoTxn /\ promotions[p].status # "committed"

UnderwayHeld == \A p \in PromoIds : Underway(p) => applying = p \/ mode # "serving"

OneUnderway == \A p, q \in PromoIds : Underway(p) /\ Underway(q) => p = q

CommittedLogsWritten ==
  \A p \in PromoIds :
    promotions[p].status = "committed" => promoTxns[p] \in {NoTxn, "entry_written"}

HoldInv == UnderwayHeld /\ OneUnderway /\ CommittedLogsWritten

LEMMA CommittedNotSettled ==
  ASSUME DecisionInv, NoWriteFails, HoldInv, NEW p \in PromoIds, SettledBy(p)
  PROVE  promotions[p].status # "committed"
<1>1. CASE RejectCommit(p)
  BY <1>1 DEF RejectCommit, Prepared
<1>2. CASE FailCommit(p)
  BY <1>2 DEF FailCommit, CannotApply, Applying, HoldInv, CommittedLogsWritten, NoTxn
<1>3. CASE RecordCommitted(p)
  BY <1>3 DEF RecordCommitted
<1> QED BY <1>1, <1>2, <1>3 DEF SettledBy, FailCommitKeepingLog, NoWriteFails

LEMMA CommittedStays ==
  ASSUME DecisionInv, NoWriteFails, HoldInv, Next, NEW p \in PromoIds,
         promotions[p].status = "committed"
  PROVE  promotions'[p] = promotions[p]
BY CommittedNotSettled, PromotionsStay DEF DecisionInv, NumbersFresh

LEMMA UnderwayBegins ==
  ASSUME DecisionInv, NoWriteFails, HoldInv, Next, NEW q \in PromoIds, Underway(q)'
  PROVE  Underway(q) \/ BeginCommit(q)
BY LogOpens, CommittedStays DEF Underway, DecisionInv

LEMMA UnderwayHeldStep ==
  ASSUME DecisionInv, NoWriteFails, HoldInv, Next
  PROVE  UnderwayHeld'
<1> USE DEF promotionVars
<1> SUFFICES ASSUME NEW q \in PromoIds, Underway(q)'
             PROVE  applying' = q \/ mode' # "serving"
  BY DEF UnderwayHeld
<1>0. TypeOK
  BY DEF DecisionInv, TypeInv
<1>1. CASE BeginCommit(q)
  BY <1>1 DEF BeginCommit
<1>2. CASE Underway(q)
  <2>1. applying = q \/ mode # "serving"
    BY <1>2 DEF HoldInv, UnderwayHeld
  <2>2. ~ Idle
    BY <2>1 DEF Idle, PromoIds
  <2>3. CASE CacheStep \/ PrepareStep
    BY <2>2, <2>3 DEF CacheStep, PrepareStep, PreparePromotion, PreparePromotionUnrecorded,
         PreparePromotionRefused
  <2>4. CASE Tick \/ Restart \/ StartStep
    BY <1>2, <2>1, <2>4 DEF Tick, Restart, StartStep, StartServing, FinishStart, RecoverCommit,
         Unfinished, Underway
  <2>5. CASE PromotionStep /\ ~ PrepareStep /\ ~ ApplyStep
    BY <2>2, <2>5 DEF PromotionStep, BeginCommit, ResumeCommit, RejectCommit,
         FailCommitKeepingLog, InterruptEviction, InterruptStep, InterruptCommit, NoWriteFails
  <2>6. CASE ApplyStep
    <3>1. PICK p \in PromoIds :
            \/ ApplyEviction(p) \/ ConfirmRoom(p) \/ WriteEntry(p) \/ ConfirmEntry(p)
            \/ RecordCommitted(p) \/ RecordCommittedRequest(p)
            \/ CloseLog(p) \/ FailCommit(p)
      BY <2>6 DEF ApplyStep
    <3>2. CASE CloseLog(p) \/ FailCommit(p)
      <4>1. promoTxns'[p] = NoTxn /\ applying = p
        BY <1>0, <3>2 DEF CloseLog, FailCommit, CannotApply, Applying, TypeOK
      <4>2. p # q
        BY <4>1 DEF Underway
      <4> QED BY <2>1, <3>2, <4>1, <4>2 DEF CloseLog, FailCommit, EndedStart
    <3>3. CASE ~ (CloseLog(p) \/ FailCommit(p))
      BY <2>1, <3>1, <3>3 DEF ApplyEviction, ConfirmRoom, WriteEntry, ConfirmEntry,
           RecordCommitted, RecordCommittedRequest
    <3> QED BY <3>2, <3>3
  <2> QED BY <2>3, <2>4, <2>5, <2>6 DEF Next, PromotionStep
<1> QED BY <1>1, <1>2, UnderwayBegins

LEMMA OneUnderwayStep ==
  ASSUME DecisionInv, NoWriteFails, HoldInv, Next
  PROVE  OneUnderway'
<1> SUFFICES ASSUME NEW p \in PromoIds, NEW q \in PromoIds, Underway(p)', Underway(q)'
             PROVE  p = q
  BY DEF OneUnderway
<1>1. ASSUME NEW r \in PromoIds, NEW t \in PromoIds, BeginCommit(r), Underway(t)
      PROVE  FALSE
  BY <1>1 DEF BeginCommit, Idle, HoldInv, UnderwayHeld, PromoIds
<1>2. (Underway(p) \/ BeginCommit(p)) /\ (Underway(q) \/ BeginCommit(q))
  BY UnderwayBegins
<1>3. CASE Underway(p) /\ Underway(q)
  BY <1>3 DEF HoldInv, OneUnderway
<1>4. CASE BeginCommit(p) /\ BeginCommit(q)
  BY <1>4 DEF BeginCommit
<1> QED BY <1>1, <1>2, <1>3, <1>4

\* Once the log says that the entry is written it is only closed.
LEMMA WrittenLogStays ==
  ASSUME DecisionInv, Next, NEW q \in PromoIds, promoTxns[q] = "entry_written"
  PROVE  promoTxns'[q] \in {NoTxn, "entry_written"}
<1> USE DEF promotionVars
<1>0. TypeOK
  BY DEF DecisionInv, TypeInv
<1>1. CASE CacheStep \/ Tick \/ Restart \/ StartStep
  BY <1>1 DEF CacheStep, Tick, Restart, StartStep, StartServing, FinishStart, RecoverCommit
<1>2. CASE PrepareStep
  BY <1>2 DEF PrepareStep, PreparePromotion, PreparePromotionUnrecorded,
       PreparePromotionRefused
<1>3. CASE PromotionStep /\ ~ PrepareStep
  BY <1>0, <1>3 DEF PromotionStep, BeginCommit, ResumeCommit, RejectCommit,
       FailCommitKeepingLog, InterruptEviction, InterruptStep, InterruptCommit, ApplyStep,
       ApplyEviction,
       WriteEntry, ConfirmRoom, ConfirmEntry, RecordCommitted, RecordCommittedRequest,
       CloseLog, FailCommit, TypeOK, Applying, NoTxn
<1> QED BY <1>1, <1>2, <1>3 DEF Next, PromotionStep

LEMMA CommittedLogsStep ==
  ASSUME DecisionInv, NoWriteFails, HoldInv, Next
  PROVE  CommittedLogsWritten'
<1> USE DEF promotionVars
<1>0. TypeInv /\ TypeOK
  BY DEF DecisionInv, TypeInv
<1> SUFFICES ASSUME NEW q \in PromoIds, promotions'[q].status = "committed"
             PROVE  promoTxns'[q] \in {NoTxn, "entry_written"}
  BY DEF CommittedLogsWritten
<1>1. ClaimsEntry(q)
  BY ClaimBegins, CommittedStays DEF ClaimsEntry, ConfirmEntry
<1>2. promoTxns[q] \in {NoTxn, "entry_written"}
  BY <1>1 DEF ClaimsEntry, HoldInv, CommittedLogsWritten
<1>3. ~ BeginCommit(q)
  BY <1>1, <1>2 DEF BeginCommit, Prepared, ClaimsEntry, NoTxn
<1>4. CASE promoTxns[q] = NoTxn
  BY <1>0, <1>3, <1>4, LogOpens
<1>5. CASE promoTxns[q] = "entry_written"
  BY <1>5, WrittenLogStays
<1> QED BY <1>2, <1>4, <1>5

\* While a commit is under way no entry changes but by its own writes.
LEMMA OnlyCommitWrites ==
  ASSUME DecisionInv, NoWriteFails, HoldInv, Next, NEW p \in PromoIds, Underway(p)
  PROVE  UNCHANGED entries \/ ApplyEviction(p) \/ WriteEntry(p)
<1>1. ~ Idle
  BY DEF HoldInv, UnderwayHeld, Idle, PromoIds
<1>2. ASSUME NEW r \in PromoIds, ApplyEviction(r) \/ WriteEntry(r)
      PROVE  r = p
  <2>1. Underway(r)
    BY <1>2 DEF ApplyEviction, WriteEntry, Applying, Underway, HoldInv, CommittedLogsWritten,
         NoTxn
  <2> QED BY <2>1 DEF HoldInv, OneUnderway
<1>3. CASE CacheStep
  BY <1>1, <1>3 DEF CacheStep
<1>4. CASE PromotionStep
  <2>1. CASE ApplyStep
    BY <1>2, <2>1 DEF ApplyStep, ConfirmRoom, ConfirmEntry, RecordCommitted,
         RecordCommittedRequest, CloseLog, FailCommit
  <2>2. CASE ~ ApplyStep
    BY <1>4, <2>2 DEF PromotionStep, PrepareStep, PreparePromotion, PreparePromotionUnrecorded,
         PreparePromotionRefused, BeginCommit, ResumeCommit, RejectCommit,
         FailCommitKeepingLog, InterruptEviction, InterruptStep, InterruptCommit, NoWriteFails
  <2> QED BY <2>1, <2>2
<1>5. CASE StartStep \/ Tick \/ Restart
  BY <1>5 DEF StartStep, StartServing, FinishStart, RecoverCommit, Tick, Restart
<1> QED BY <1>3, <1>4, <1>5 DEF Next

LEMMA HoldInvariant == ASSUME NoWriteFails PROVE Spec => []HoldInv
<1>1. Init => HoldInv
  BY DEF Init, HoldInv, UnderwayHeld, OneUnderway, Underway, CommittedLogsWritten
<1>2. ASSUME DecisionInv, HoldInv, [Next]_vars
      PROVE  HoldInv'
  <2>1. CASE Next
    BY <1>2, <2>1, UnderwayHeldStep, OneUnderwayStep, CommittedLogsStep DEF HoldInv
  <2>2. CASE UNCHANGED vars
    BY <1>2, <2>2 DEF HoldInv, UnderwayHeld, OneUnderway, Underway, CommittedLogsWritten,
         vars, promotionVars
  <2> QED BY <1>2, <2>1, <2>2
<1> QED BY <1>1, <1>2, DecisionInvariant, PTL DEF Spec
==============================================================================
