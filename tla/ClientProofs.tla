---------------------------- MODULE ClientProofs ----------------------------
(***************************************************************************)
(* The service keeps the contract with its clients (CacheContract): every  *)
(* step of every handler, of every commit of a promotion, of the clock and *)
(* of a restart is one step of the contract or none, for every value of the*)
(* constants.  And the contract is worth keeping: it implies what clients  *)
(* rely on.                                                                *)
(***************************************************************************)
EXTENDS SafetyProofs

-----------------------------------------------------------------------------
(* What clients see of a state and of the next one. *)

LEMMA SameSlots == Clients!Slots = Slots
BY DEF Clients!Slots, Slots

Item(e) == [version |-> e.version, manifest |-> e.manifest]
Snap(pin) == [version |-> pin.entryVersion, manifest |-> pin.manifest]

LEMMA Seen ==
  /\ OnShelf = [k \in Slots |-> IF entries[k].version > 0 THEN Item(entries[k]) ELSE NoEntry]
  /\ OnShelf' = [k \in Slots |-> IF entries'[k].version > 0 THEN Item(entries'[k]) ELSE NoEntry]
  /\ KeptByLease = [k \in Slots |-> IF PinActive(k) THEN Snap(pins[k]) ELSE NoEntry]
  /\ KeptByLease' = [k \in Slots |-> IF PinActive(k)' THEN Snap(pins'[k]) ELSE NoEntry]
BY DEF OnShelf, KeptByLease, Published, Item, Snap

\* An item that is on a shelf is none other than nothing.
LEMMA Something ==
  ASSUME NEW n \in Nat \ {0}, NEW m
  PROVE  [version |-> n, manifest |-> m] # NoEntry
<1>1. [version |-> n, manifest |-> m].version # NoEntry.version
  BY DEF NoEntry
<1> QED BY <1>1

\* A slot shows the version of its entry, and what no lease protects is loose.
LEMMA ShelfVersion ==
  ASSUME TypeInv, NEW k \in Slots
  PROVE  OnShelf[k].version = entries[k].version
<1>1. entries[k].version \in Nat
  BY VersionType DEF TypeInv
<1> QED BY <1>1, Seen DEF Item, NoEntry

LEMMA Unkept ==
  ASSUME NEW k \in Slots, ~ PinActive(k)
  PROVE  KeptByLease[k] = Clients!Nothing
BY Seen DEF NoEntry, Clients!Nothing

\* The lease stays as it is, or was and is not active.
LeaseSame(k) == pins'[k] = pins[k] \/ (~ PinActive(k) /\ pins'[k].status # "active")

\* Leases that are not asked for stay as they are until the clock ends them.
LEMMA KeptStays ==
  ASSUME TypeInv, Next, ~ PinStep, ~ Tick
  PROVE  KeptByLease' = KeptByLease
<1>1. now' = now
  BY ClockSteps
<1>2. ASSUME NEW k \in Slots, LeaseSame(k)
      PROVE  /\ PinActive(k)' = PinActive(k)
             /\ PinActive(k) => pins'[k] = pins[k]
  BY <1>1, <1>2 DEF PinActive, LeaseSame
<1>3. ASSUME NEW k \in Slots
      PROVE  LeaseSame(k)
  <2>1. ASSUME NEW K \in SUBSET Slots, DropPins(K), \A j \in K : ~ PinActive(j)
        PROVE  LeaseSame(k)
    BY <2>1 DEF DropPins, NoPin, LeaseSame
  <2>2. ASSUME NEW K \in SUBSET OverduePins, ExpirePins(K)
        PROVE  LeaseSame(k)
    <3>1. CASE k \in K
      <4>1. pins[k] \in Pin /\ ~ PinActive(k)
        BY <3>1 DEF OverduePins, PinActive, TypeInv, TypeOK, NoPin
      <4> QED BY <2>2, <3>1, <4>1 DEF ExpirePins, Pin, LeaseSame
    <3> QED BY <2>2, <3>1 DEF ExpirePins, LeaseSame
  <2> QED BY <2>1, <2>2, LeaseSteps DEF LeaseSame
<1>4. \A k \in Slots : /\ PinActive(k)' = PinActive(k)
                       /\ PinActive(k) => pins'[k] = pins[k]
  BY <1>2, <1>3
<1> QED BY <1>4, Seen

-----------------------------------------------------------------------------
(* Leases and the clock. *)

\* As the clock ticks leases end, and none begins.
LEMMA TickIsRelease ==
  ASSUME TypeInv, Tick
  PROVE  Clients!Next
<1> DEFINE K == {k \in Slots : ~ PinActive(k)'}
<1>1. /\ now \in Nat /\ now' = now + 1
      /\ UNCHANGED <<blobs, entries, pins>>
  BY DEF Tick, TypeInv, TypeOK, leaseVars
<1>2. ASSUME NEW k \in Slots, PinActive(k)'
      PROVE  PinActive(k)
  <2>1. pins[k] \in Pin
    BY <1>1, <1>2 DEF PinActive, TypeInv, TypeOK, NoPin
  <2> QED BY <1>1, <1>2, <2>1 DEF PinActive, Pin
<1>3. KeptByLease' = [k \in Slots |-> IF k \in K THEN NoEntry ELSE KeptByLease[k]]
  BY <1>1, <1>2, Seen
<1>4. UNCHANGED <<OnShelf, blobs>>
  BY <1>1, Seen
<1>5. Clients!Release(K)
  BY <1>3, <1>4, SameSlots DEF Clients!Release, Clients!Cleared, Clients!Nothing, NoEntry
<1>6. K \in SUBSET Clients!Slots
  BY SameSlots
<1> QED BY <1>5, <1>6 DEF Clients!Next

\* One slot's lease changes.
LEMMA OneLease ==
  ASSUME TypeInv, NEW j \in Slots, NEW lease, pins' = [pins EXCEPT ![j] = lease],
         UNCHANGED <<now, blobs, entries>>
  PROVE  /\ KeptByLease' = [KeptByLease EXCEPT ![j] =
                              IF lease.status = "active" /\ lease.deadline > now
                              THEN Snap(lease) ELSE NoEntry]
         /\ UNCHANGED <<OnShelf, blobs>>
<1>1. pins'[j] = lease /\ \A k \in Slots \ {j} : pins'[k] = pins[k]
  BY DEF TypeInv, TypeOK
<1>2. /\ PinActive(j)' = (lease.status = "active" /\ lease.deadline > now)
      /\ \A k \in Slots \ {j} : PinActive(k)' = PinActive(k)
  BY <1>1 DEF PinActive
<1>3. KeptByLease' = [k \in Slots |-> IF k = j THEN IF PinActive(j)' THEN Snap(lease) ELSE NoEntry
                                               ELSE KeptByLease[k]]
  BY <1>1, <1>2, Seen
<1>4. KeptByLease = [k \in Slots |-> KeptByLease[k]]
  BY Seen
<1>5. UNCHANGED OnShelf
  BY Seen
<1> QED BY <1>2, <1>3, <1>4, <1>5

LEMMA PinIsStep ==
  ASSUME TypeInv, PinStep
  PROVE  Clients!Next \/ UNCHANGED Clients!contractVars
<1>1. CASE SweepExpiredPins \/ SweepExpiredPinsInterrupted
  <2>1. /\ UNCHANGED <<now, blobs, entries>>
        /\ \E K \in SUBSET OverduePins : ExpirePins(K)
    BY <1>1 DEF SweepExpiredPins, SweepExpiredPinsInterrupted
  <2>2. ASSUME NEW k \in Slots
        PROVE  /\ PinActive(k)' = PinActive(k)
               /\ PinActive(k) => pins'[k] = pins[k]
    <3>1. PICK K \in SUBSET OverduePins : ExpirePins(K)
      BY <2>1
    <3>2. CASE k \in K
      <4>1. pins[k] \in Pin /\ ~ PinActive(k)
        BY <3>2 DEF OverduePins, PinActive, TypeInv, TypeOK, NoPin
      <4>2. pins'[k].status # "active"
        BY <3>1, <3>2, <4>1 DEF ExpirePins, Pin
      <4> QED BY <4>1, <4>2 DEF PinActive
    <3>3. CASE k \notin K
      BY <2>1, <3>1, <3>3 DEF ExpirePins, PinActive
    <3> QED BY <3>2, <3>3
  <2> QED BY <2>1, <2>2, Seen DEF Clients!contractVars
<1>2. CASE ~ (SweepExpiredPins \/ SweepExpiredPinsInterrupted)
  <2>1. PICK j \in Slots, in \in PinInputs, r \in RequestIds \cup {NoRequestId} :
          \/ PinEntry(j, in, r)
          \/ PinEntryInterrupted(j, in, r)
          \/ RenewPin(j, in, r)
          \/ RenewPinInterrupted(j, in, r)
          \/ Unpin(j, in, r)
          \/ UnpinInterrupted(j, in, r)
    BY <1>2 DEF PinStep
  <2>2. UNCHANGED <<now, blobs, entries>>
    BY <2>1 DEF PinEntry, PinEntryInterrupted, RenewPin, RenewPinInterrupted, Unpin,
       UnpinInterrupted
  <2>3. \/ pins' = [pins EXCEPT ![j] = PinLease(j, in)] /\ PinAllowed(j, in)
        \/ pins' = [pins EXCEPT ![j] = RenewedLease(j, in)] /\ PinActive(j)
        \/ pins' = [pins EXCEPT ![j] = ReleasedLease(j)] /\ PinActive(j)
    BY <2>1 DEF PinEntry, PinEntryInterrupted, RenewPin, RenewPinInterrupted, Unpin,
       UnpinInterrupted, GrantLease, GrantUnrecorded, LeaseAllowed
  <2>4. CASE pins' = [pins EXCEPT ![j] = PinLease(j, in)] /\ PinAllowed(j, in)
    <3>1. /\ KeptByLease' = [KeptByLease EXCEPT ![j] = Snap(PinLease(j, in))]
          /\ UNCHANGED <<OnShelf, blobs>>
      <4>1. PinLease(j, in).status = "active" /\ PinLease(j, in).deadline > now
        BY <2>4 DEF PinAllowed, PinLease
      <4> QED BY <2>2, <2>4, <4>1, OneLease
    <3>2. OnShelf[j] = Snap(PinLease(j, in))
      BY <2>4, Seen DEF PinAllowed, Published, PinLease, Snap, Item
    <3>3. entries[j].version \in Nat \ {0}
      BY <2>4, PublishedType DEF PinAllowed, TypeInv
    <3>4. OnShelf[j] # Clients!Nothing
      BY <3>2, <3>3, Something DEF Snap, PinLease, Clients!Nothing, NoEntry
    <3>5. Clients!Keep(j)
      BY <3>1, <3>2, <3>4 DEF Clients!Keep
    <3> QED BY <3>5, SameSlots DEF Clients!Next
  <2>5. CASE pins' = [pins EXCEPT ![j] = RenewedLease(j, in)] /\ PinActive(j)
    <3>1. pins[j] \in Pin /\ in \in PinInput /\ now \in Nat /\ DefaultPinTTL \in Nat
      BY <2>5, ParameterAssumption DEF PinActive, TypeInv, TypeOK, NoPin
    <3> DEFINE extended == now + (IF in.ttl > 0 THEN in.ttl ELSE DefaultPinTTL)
    <3>2. extended \in Nat
      BY <3>1 DEF PinInput
    <3>3. /\ RenewedLease(j, in).status = "active"
          /\ RenewedLease(j, in).deadline = IF pins[j].deadline > extended
                                            THEN pins[j].deadline ELSE extended
          /\ Snap(RenewedLease(j, in)) = Snap(pins[j])
      BY <2>5, <3>1 DEF RenewedLease, Snap, Pin, PinActive
    <3>4. pins[j].deadline \in Nat /\ pins[j].deadline > now
      BY <2>5, <3>1 DEF PinActive, Pin
    <3>5. RenewedLease(j, in).deadline > now
      BY <3>1, <3>2, <3>3, <3>4
    <3>6. /\ KeptByLease' = [KeptByLease EXCEPT ![j] = Snap(pins[j])]
          /\ UNCHANGED <<OnShelf, blobs>>
      BY <2>2, <2>5, <3>3, <3>5, OneLease
    <3>7. KeptByLease[j] = Snap(pins[j]) /\ KeptByLease = [k \in Slots |-> KeptByLease[k]]
      BY <2>5, Seen
    <3>8. KeptByLease' = KeptByLease
      BY <3>6, <3>7
    <3> QED BY <3>6, <3>8 DEF Clients!contractVars
  <2>6. CASE pins' = [pins EXCEPT ![j] = ReleasedLease(j)] /\ PinActive(j)
    <3>1. pins[j] \in Pin
      BY <2>6 DEF PinActive, TypeInv, TypeOK, NoPin
    <3>2. ReleasedLease(j).status # "active"
      BY <3>1 DEF ReleasedLease, Pin
    <3>3. /\ KeptByLease' = [KeptByLease EXCEPT ![j] = NoEntry]
          /\ UNCHANGED <<OnShelf, blobs>>
      BY <2>2, <2>6, <3>2, OneLease
    <3>4. KeptByLease = [k \in Slots |-> KeptByLease[k]]
      BY Seen
    <3>5. Clients!Release({j})
      BY <3>3, <3>4, SameSlots DEF Clients!Release, Clients!Cleared, Clients!Nothing, NoEntry
    <3>6. {j} \in SUBSET Clients!Slots
      BY SameSlots
    <3> QED BY <3>5, <3>6 DEF Clients!Next
  <2> QED BY <2>3, <2>4, <2>5, <2>6
<1> QED BY <1>1, <1>2

-----------------------------------------------------------------------------
(* Plans.  A decision keeps to its namespace, from the plan on. *)

PlansInNamespace ==
  \A id \in DecisionIds : decisions[id].status # "none" => InNamespace(decisions[id])

LEMMA PlansInNamespaceStep ==
  ASSUME TypeInv, PlansInNamespace, Next
  PROVE  PlansInNamespace'
<1>0. TypeOK
  BY DEF TypeInv
<1> SUFFICES ASSUME NEW id \in DecisionIds, decisions'[id].status # "none"
             PROVE  InNamespace(decisions'[id])
  BY DEF PlansInNamespace, InNamespace
<1>1. CASE decisions'[id] = decisions[id]
  BY <1>1 DEF PlansInNamespace
<1>2. CASE DecisionRecorded
  <2>1. PICK d \in Decision : RecordDecision(d) /\ FreshPlan(d)
    BY <1>2 DEF DecisionRecorded
  <2>2. decisions'[id] = decisions[id] \/ decisions'[id] = d
    BY <1>0, <2>1 DEF RecordDecision, TypeOK
  <2> QED BY <1>1, <2>1, <2>2 DEF FreshPlan
<1>3. CASE DecisionCommitted
  <2>1. \/ decisions'[id] = decisions[id]
        \/ /\ decisions[id].status = "proposed"
           /\ decisions'[id] = Committed(decisions[id])
    BY <1>0, <1>3 DEF DecisionCommitted, TypeOK
  <2>2. ASSUME decisions[id].status = "proposed"
        PROVE  decisions[id] \in Decision /\ InNamespace(decisions[id])
    BY <1>0, <2>2, DecisionType DEF PlansInNamespace
  <2> QED BY <1>1, <2>1, <2>2, CommittedInNamespace
<1> QED BY <1>1, <1>2, <1>3, DecisionShape DEF DecisionsUntouched

ClientInv == StorageInv /\ PlansInNamespace

LEMMA ClientInvariant == ASSUME "log" \notin Faults PROVE Spec => []ClientInv
<1>1. Init => PlansInNamespace
  BY DEF Init, PlansInNamespace, NoDecision
<1>2. ASSUME StorageInv, PlansInNamespace, [Next]_vars
      PROVE  PlansInNamespace'
  <2>1. CASE Next
    BY <1>2, <2>1, PlansInNamespaceStep DEF StorageInv
  <2>2. CASE UNCHANGED vars
    BY <1>2, <2>2 DEF PlansInNamespace, InNamespace, vars, evictionVars
  <2> QED BY <1>2, <2>1, <2>2
<1> QED BY <1>1, <1>2, StorageInvariant, PTL DEF Spec, ClientInv

-----------------------------------------------------------------------------
(* Entries. *)

\* What a decision deletes is loose in its namespace.
LEMMA DeletedLoose ==
  ASSUME NEW d \in Decision, InNamespace(d), NEW D \in SUBSET Deleted(Committed(d))
  PROVE  D \in SUBSET Clients!Loose(d.ns)
<1> SUFFICES ASSUME NEW k \in D
             PROVE  k \in Clients!Loose(d.ns)
  OBVIOUS
<1>1. PICK c \in Committed(d).candidates : k = c.slot
  BY DEF Deleted
<1>2. c \in Candidate /\ k \in Slots
  BY <1>1, CommittedType DEF Decision, Candidate
<1>3. k[1] = d.ns
  <2>1. Committed(d).ns = d.ns
    BY DEF Committed, Decision
  <2> QED BY <1>1, <2>1, CommittedInNamespace DEF InNamespace
<1>4. ~ PinActive(k)
  BY DeletedUnpinned
<1> QED BY <1>2, <1>3, <1>4, Unkept, SameSlots DEF Clients!Loose

LEMMA ShelfWithout ==
  ASSUME NEW D, entries' = Without(D)
  PROVE  OnShelf' = Clients!Cleared(OnShelf, D)
<1>1. \A k \in Slots : entries'[k] = IF k \in D THEN NoEntry ELSE entries[k]
  BY DEF Without
<1>2. NoEntry.version = 0
  BY DEF NoEntry
<1> QED BY <1>1, <1>2, Seen, SameSlots DEF Clients!Cleared, Clients!Nothing, NoEntry

LEMMA EvictionIsEvict ==
  ASSUME NEW d \in Decision, InNamespace(d), UNCHANGED <<KeptByLease, blobs>>,
         \/ entries' = Without(Deleted(Committed(d)))
         \/ \E last : entries' = Without(DeletedUpTo(d, last))
  PROVE  Clients!Next
<1>1. \A last : DeletedUpTo(d, last) \subseteq Deleted(Committed(d))
  BY DEF DeletedUpTo, Deleted
<1>2. PICK D \in SUBSET Deleted(Committed(d)) : entries' = Without(D)
  BY <1>1
<1>3. D \in SUBSET Clients!Loose(d.ns) /\ OnShelf' = Clients!Cleared(OnShelf, D)
  BY <1>2, DeletedLoose, ShelfWithout
<1>4. Clients!Evict(d.ns, D)
  BY <1>3 DEF Clients!Evict
<1>5. d.ns \in Namespaces /\ D \in SUBSET Clients!Slots
  BY <1>3 DEF Decision, Clients!Loose
<1> QED BY <1>4, <1>5 DEF Clients!Next

\* A new entry with what made room for it gone is a publication.
LEMMA WriteIsPublish ==
  ASSUME TypeInv, NEW j \in Slots, NEW e, NEW D \in SUBSET (Clients!Loose(j[1]) \ {j}),
         entries' = [Without(D) EXCEPT ![j] = e],
         e.version = entries[j].version + 1, e.manifest \in Manifests,
         Chunks(e.manifest) \subseteq blobs,
         UNCHANGED <<KeptByLease, blobs>>
  PROVE  Clients!Next
<1>1. entries[j].version \in Nat /\ OnShelf[j].version = entries[j].version
  BY VersionType, ShelfVersion DEF TypeInv
<1>2. /\ entries'[j] = e
      /\ \A k \in Slots \ {j} : entries'[k] = IF k \in D THEN NoEntry ELSE entries[k]
  BY DEF Without
<1>3. NoEntry.version = 0
  BY DEF NoEntry
<1>4. OnShelf' = [k \in Slots |-> IF k = j THEN Item(e)
                                  ELSE IF k \in D THEN NoEntry ELSE OnShelf[k]]
  BY <1>1, <1>2, <1>3, Seen
<1>5. OnShelf' = [Clients!Cleared(OnShelf, D) EXCEPT ![j] = Item(e)]
  BY <1>4, SameSlots DEF Clients!Cleared, Clients!Nothing, NoEntry
<1>6. Item(e) = [version |-> OnShelf[j].version + 1, manifest |-> e.manifest]
  BY <1>1 DEF Item
<1>7. Clients!Stored(Item(e), blobs)
  BY DEF Clients!Stored, Clients!Parts, Chunks, Item
<1>8. Clients!Publish(j, e.manifest, D)
  BY <1>5, <1>6, <1>7 DEF Clients!Publish
<1>9. D \in SUBSET Clients!Slots
  BY DEF Clients!Loose
<1> QED BY <1>8, <1>9, SameSlots DEF Clients!Next

LEMMA PublishIsStep ==
  ASSUME TypeInv, NEW s \in SessionIds, NEW v, Publishable(s), Publish(s, v),
         UNCHANGED <<KeptByLease, blobs>>
  PROVE  Clients!Next \/ UNCHANGED Clients!contractVars
<1> DEFINE j == sessions[s].slot
<1>0. /\ TypeOK
      /\ j \in Slots
      /\ Chunks(sessions[s].manifest) \subseteq blobs
      /\ sessions[s].manifest \in Manifests
  BY PublishTypes, OpenSessionType DEF TypeInv, Publishable, Session
<1>1. CASE Reuse(s)
  <2>1. entries[j] \in Entry
    BY <1>0, <1>1, PublishedType DEF Reuse, SameContent
  <2>2. \A k \in Slots : /\ entries'[k].version = entries[k].version
                         /\ entries'[k].manifest = entries[k].manifest
    BY <1>0, <1>1, <2>1 DEF Reuse, TypeOK, Entry
  <2> QED BY <2>2, Seen DEF Item, Clients!contractVars
<1>2. /\ NewEntry(s).version = entries[j].version + 1
      /\ NewEntry(s).manifest = sessions[s].manifest
  BY DEF NewEntry
<1>3. CASE PublishWithinQuota(s, v)
  <2>1. Without({}) = entries
    BY <1>0 DEF Without, TypeOK
  <2>2. entries' = [Without({}) EXCEPT ![j] = NewEntry(s)]
    BY <1>3, <2>1 DEF PublishWithinQuota
  <2> QED BY <1>0, <1>2, <2>2, WriteIsPublish
<1>4. CASE PublishAfterEviction(s, v)
  <2> DEFINE d == RoomDecision(s)
             D == Deleted(Committed(d))
  <2>1. d \in Decision /\ InNamespace(d) /\ d.ns = j[1]
    BY <1>0, <1>4, PublishTypes, PlanFresh DEF PublishAfterEviction, FreshPlan, RoomDecision, Plan
  <2>2. D \in SUBSET Clients!Loose(j[1])
    BY <2>1, DeletedLoose
  <2>3. j \notin D
    <3>1. \A c \in d.candidates : c.slot # j
      <4>1. j \notin Victims(j[1], Excess(s), {j})
        BY DEF Victims, Evictable
      <4>2. ASSUME NEW c \in d.candidates
            PROVE  c.slot \in Victims(j[1], Excess(s), {j})
        <5>1. PICK k \in Victims(j[1], Excess(s), {j}) : c = Snapshot(k)
          BY <4>2 DEF RoomDecision, Plan
        <5> QED BY <5>1 DEF Snapshot
      <4> QED BY <4>1, <4>2
    <3> QED BY <2>1, <3>1, CommittedNames DEF Deleted
  <2>4. entries' = [Without(D) EXCEPT ![j] = NewEntry(s)]
    BY <1>4 DEF PublishAfterEviction
  <2> HIDE DEF D
  <2> QED BY <1>0, <1>2, <2>2, <2>3, <2>4, WriteIsPublish
<1> QED BY <1>1, <1>3, <1>4 DEF Publish

LEMMA CompleteIsStep ==
  ASSUME TypeInv, PublishStep, KeptByLease' = KeptByLease
  PROVE  Clients!Next \/ UNCHANGED Clients!contractVars
<1>1. PICK s \in SessionIds, v \in ExpectedVersions :
        \/ Complete(s, v)
        \/ CompleteOverQuota(s, v)
        \/ CompleteUnclosed(s, v)
        \/ CompleteInterrupted(s, v)
  BY DEF PublishStep
<1>2. CASE Complete(s, v) \/ CompleteUnclosed(s, v)
  BY <1>2, PublishIsStep DEF Complete, CompleteUnclosed
<1>3. CASE CompleteOverQuota(s, v) \/ CompleteInterrupted(s, v)
  <2> DEFINE d == RoomDecision(s)
  <2>1. d \in Decision /\ InNamespace(d)
    BY <1>3, PublishTypes, PlanFresh DEF TypeInv, CompleteOverQuota, CompleteInterrupted,
       FreshPlan, RoomDecision
  <2>2. UNCHANGED blobs
    BY <1>3 DEF CompleteOverQuota, CompleteInterrupted
  <2>3. \/ entries' = entries
        \/ entries' = Without(Deleted(Committed(d)))
        \/ \E last : entries' = Without(DeletedUpTo(d, last))
    BY <1>3 DEF CompleteOverQuota, CompleteInterrupted
  <2>4. entries' = entries => OnShelf' = OnShelf
    BY Seen
  <2> QED BY <2>1, <2>2, <2>3, <2>4, EvictionIsEvict DEF Clients!contractVars
<1> QED BY <1>1, <1>2, <1>3

\* Steps that leave the leases and the stored chunks alone.
LEMMA EntriesMapToSteps ==
  ASSUME ClientInv, Next, UNCHANGED <<KeptByLease, blobs>>
  PROVE  Clients!Next \/ UNCHANGED Clients!contractVars
<1>0. TypeInv /\ TypeOK
  BY DEF ClientInv, StorageInv, TypeInv
<1>1. CASE entries' = entries
  BY <1>1, Seen DEF Clients!contractVars
<1>2. CASE PublishStep
  BY <1>0, <1>2, CompleteIsStep
<1>3. CASE ReadStep
  <2>1. PICK j \in Slots : Read(j)
    BY <1>3 DEF ReadStep
  <2>2. entries[j] \in Entry
    BY <1>0, <2>1, PublishedType DEF Read
  <2>3. \A k \in Slots : /\ entries'[k].version = entries[k].version
                         /\ entries'[k].manifest = entries[k].manifest
    BY <1>0, <2>1, <2>2 DEF Read, TypeOK, Entry
  <2> QED BY <2>3, Seen DEF Item, Clients!contractVars
<1>4. ASSUME NEW id \in DecisionIds, CommitEviction(id) \/ CommitEvictionInterrupted(id)
      PROVE  Clients!Next
  <2>1. decisions[id] \in Decision /\ InNamespace(decisions[id])
    BY <1>0, <1>4, DecisionType
    DEF ClientInv, PlansInNamespace, CommitEviction, CommitEvictionInterrupted
  <2> QED BY <1>4, <2>1, EvictionIsEvict DEF CommitEviction, CommitEvictionInterrupted
<1>5. ASSUME NEW p \in PromoIds, ApplyEviction(p) \/ InterruptEviction(p)
      PROVE  Clients!Next
  <2> DEFINE id == promotions[p].eviction
  <2>1. promoTxns[p] # NoTxn /\ id # 0
    BY <1>5 DEF ApplyEviction, InterruptEviction, Applying, RoomMade, NoTxn
  <2>2. id \in DecisionIds /\ decisions[id] \in Decision
    BY <1>0, <2>1, AppliedType
  <2>3. InNamespace(decisions[id])
    BY <2>2 DEF ClientInv, PlansInNamespace, Decision
  <2> QED BY <1>5, <2>2, <2>3, EvictionIsEvict DEF ApplyEviction, InterruptEviction
<1>6. ASSUME NEW p \in PromoIds, WriteEntry(p)
      PROVE  Clients!Next
  <2>1. Prepared(p)
    BY <1>6 DEF WriteEntry, Applying, ClientInv, StorageInv, OpenLogsPrepared, OpenLog
  <2>2. promotions[p] \in Promotion
    BY <1>0, <2>1, PromotionType DEF Prepared
  <2>3. promotions[p].target \in Slots /\ promotions[p].manifest \in Manifests
    BY <2>2 DEF Promotion
  <2>4. Chunks(promotions[p].manifest) \subseteq blobs
    BY <2>1 DEF ClientInv, StorageInv, ProtectedBlobsStored
  <2>5. /\ PromotedEntry(p).version = entries[promotions[p].target].version + 1
        /\ PromotedEntry(p).manifest = promotions[p].manifest
    BY <1>6 DEF WriteEntry, TargetAtBase, PromotedEntry
  <2>6. Without({}) = entries
    BY <1>0 DEF Without, TypeOK
  <2>7. entries' = [Without({}) EXCEPT ![promotions[p].target] = PromotedEntry(p)]
    BY <1>6, <2>6 DEF WriteEntry
  <2> QED BY <1>0, <2>3, <2>4, <2>5, <2>7, WriteIsPublish
<1> QED BY <1>1, <1>2, <1>3, <1>4, <1>5, <1>6, EntrySteps

-----------------------------------------------------------------------------
(* The refinement. *)

LEMMA ClientInit == Init => Clients!Init
<1> SUFFICES ASSUME Init
             PROVE  Clients!Init
  OBVIOUS
<1>1. \A k \in Slots : ~ (entries[k].version > 0) /\ ~ PinActive(k)
  BY DEF Init, NoEntry, NoPin, PinActive
<1> QED BY <1>1, Seen, SameSlots DEF Init, Clients!Init, Clients!Nothing, NoEntry

\* A run of the collector, complete or cut short, takes what nobody can reach.
LEMMA CollectIsCollect ==
  ASSUME StorageInv, PublishedReadable', ProtectedBlobsStored', CollectStep,
         KeptByLease' = KeptByLease
  PROVE  Clients!Next
<1>1. PICK B \in SUBSET Garbage : blobs' = blobs \ B
  BY CollectShape
<1>2. OnShelf' = OnShelf
  BY CollectShape, Seen
<1>3. ASSUME NEW k \in Slots
      PROVE  Clients!Stored(OnShelf[k], blobs')
  <2>1. CASE Published(k)
    <3>1. entries'[k] = entries[k]
      BY CollectShape
    <3>2. Chunks(entries[k].manifest) \subseteq blobs'
      BY <2>1, <3>1 DEF PublishedReadable, Published, Chunks
    <3>3. OnShelf[k].manifest = entries[k].manifest
      BY <2>1, Seen DEF Published, Item
    <3> QED BY <3>2, <3>3 DEF Clients!Stored, Clients!Parts, Chunks
  <2>2. CASE ~ Published(k)
    BY <2>2, Seen DEF Published, Clients!Stored, Clients!Nothing, NoEntry
  <2> QED BY <2>1, <2>2
<1>4. ASSUME NEW k \in Slots
      PROVE  Clients!Stored(KeptByLease[k], blobs')
  <2>1. CASE PinActive(k)'
    <3>1. Chunks(pins'[k].manifest) \subseteq blobs'
      BY <2>1 DEF ProtectedBlobsStored, Chunks
    <3>2. KeptByLease[k].manifest = pins'[k].manifest
      BY <2>1, Seen DEF Snap
    <3> QED BY <3>1, <3>2 DEF Clients!Stored, Clients!Parts, Chunks
  <2>2. CASE ~ PinActive(k)'
    BY <2>2, Seen DEF Clients!Stored, Clients!Nothing, NoEntry
  <2> QED BY <2>1, <2>2
<1>5. Clients!Collect(B)
  BY <1>1, <1>2, <1>3, <1>4, SameSlots DEF Clients!Collect
<1>6. B \in SUBSET blobs
  BY DEF Garbage
<1> QED BY <1>5, <1>6 DEF Clients!Next

\* The arrival of a chunk, recorded or not.
LEMMA ArrivalIsReceive ==
  ASSUME TypeInv, NEW s \in SessionIds, NEW i,
         UploadChunk(s, i) \/ UploadChunkInterrupted(s, i),
         KeptByLease' = KeptByLease
  PROVE  Clients!Next
<1>1. sessions[s].manifest \in Seq(Blobs) /\ i \in DOMAIN sessions[s].manifest
  BY OpenSessionType DEF TypeInv, UploadChunk, UploadChunkInterrupted, Uploadable
<1>2. sessions[s].manifest[i] \in Blobs
  BY <1>1
<1>3. blobs' = blobs \cup {sessions[s].manifest[i]} /\ entries' = entries
  BY DEF UploadChunk, UploadChunkInterrupted
<1>4. OnShelf' = OnShelf
  BY <1>3, Seen
<1>5. Clients!Receive(sessions[s].manifest[i])
  BY <1>3, <1>4 DEF Clients!Receive
<1> QED BY <1>2, <1>5 DEF Clients!Next

LEMMA ClientStep ==
  ASSUME ClientInv, ClientInv', Next
  PROVE  Clients!Next \/ UNCHANGED Clients!contractVars
<1>0. TypeInv /\ StorageInv /\ PublishedReadable' /\ ProtectedBlobsStored'
  BY DEF ClientInv, StorageInv
<1>1. CASE Tick
  BY <1>0, <1>1, TickIsRelease
<1>2. CASE PinStep
  BY <1>0, <1>2, PinIsStep
<1>3. CASE ~ Tick /\ ~ PinStep
  <2>1. KeptByLease' = KeptByLease
    BY <1>0, <1>3, KeptStays
  <2>2. CASE CollectStep
    BY <1>0, <2>1, <2>2, CollectIsCollect
  <2>3. ASSUME NEW s \in SessionIds, NEW i, UploadChunk(s, i) \/ UploadChunkInterrupted(s, i)
        PROVE  Clients!Next
    BY <1>0, <2>1, <2>3, ArrivalIsReceive
  <2>4. CASE blobs' = blobs
    BY <2>1, <2>4, EntriesMapToSteps
  <2> QED BY <2>2, <2>3, <2>4, BlobSteps
<1> QED BY <1>1, <1>2, <1>3

\* The whole service implements the contract with its clients: whatever interleaving of
\* requests, commits, collections, failing writes and restarts, clients see one change
\* of the contract at a time, complete or not at all; provided that a commit that fails
\* does not leave its redo log behind (the run FailedPromotion shows why).
THEOREM ServiceKeepsContract ==
  ASSUME "log" \notin Faults PROVE Spec => KeepsCacheContract
<1>1. ASSUME ClientInv, ClientInv', [Next]_vars
      PROVE  [Clients!Next]_(Clients!contractVars)
  <2>1. CASE Next
    BY <1>1, <2>1, ClientStep
  <2>2. CASE UNCHANGED vars
    <3>1. UNCHANGED <<now, blobs, entries, pins>>
      BY <2>2 DEF vars, leaseVars
    <3>2. \A k \in Slots : PinActive(k)' = PinActive(k)
      BY <3>1 DEF PinActive
    <3> QED BY <3>1, <3>2, Seen DEF Clients!contractVars
  <2> QED BY <1>1, <2>1, <2>2
<1> QED BY <1>1, ClientInit, ClientInvariant, PTL DEF Spec, KeepsCacheContract, Clients!Spec

-----------------------------------------------------------------------------
(* What the contract is worth.  From here on the service plays no part: only    *)
(* the six changes of the contract do.                                          *)

Things == [version : Nat \ {0}, manifest : Manifests] \cup {Clients!Nothing}

PromiseInv ==
  /\ OnShelf \in [Clients!Slots -> Things]
  /\ KeptByLease \in [Clients!Slots -> Things]
  /\ Clients!Promises

LEMMA ThingFields ==
  /\ Clients!Nothing.version = 0
  /\ \A x \in Things : x.version \in Nat
  /\ \A x \in Things : x # Clients!Nothing => x.version > 0 /\ x.manifest \in Manifests
  /\ \A n \in Nat, m \in Manifests :
       LET x == [version |-> n + 1, manifest |-> m]
       IN  x \in Things /\ x.version = n + 1
BY DEF Things, Clients!Nothing

LEMMA ClearedThings ==
  ASSUME NEW table \in [Clients!Slots -> Things], NEW K
  PROVE  /\ Clients!Cleared(table, K) \in [Clients!Slots -> Things]
         /\ \A k \in Clients!Slots :
              Clients!Cleared(table, K)[k] = IF k \in K THEN Clients!Nothing ELSE table[k]
BY DEF Clients!Cleared, Things

\* The promises at one slot.
PromisedAt(item, keep, chunks) ==
  /\ Clients!Stored(item, chunks) /\ Clients!Stored(keep, chunks)
  /\ keep # Clients!Nothing =>
       /\ item.version >= keep.version
       /\ item.version = keep.version => item = keep

LEMMA PromisesBySlot ==
  /\ Clients!Promises = \A k \in Clients!Slots : PromisedAt(OnShelf[k], KeptByLease[k], blobs)
  /\ Clients!Promises' = \A k \in Clients!Slots : PromisedAt(OnShelf'[k], KeptByLease'[k], blobs')
BY DEF Clients!Promises, PromisedAt, Clients!Stored

LEMMA PromiseStep ==
  ASSUME PromiseInv, Clients!Next
  PROVE  PromiseInv'
<1> USE SameSlots
<1> SUFFICES /\ OnShelf' \in [Clients!Slots -> Things]
             /\ KeptByLease' \in [Clients!Slots -> Things]
             /\ \A k \in Clients!Slots : PromisedAt(OnShelf'[k], KeptByLease'[k], blobs')
  BY PromisesBySlot DEF PromiseInv, Things, Clients!Slots, Clients!Nothing
<1> DEFINE Goal == /\ OnShelf' \in [Clients!Slots -> Things]
                   /\ KeptByLease' \in [Clients!Slots -> Things]
                   /\ \A k \in Clients!Slots : PromisedAt(OnShelf'[k], KeptByLease'[k], blobs')
<1>0. /\ OnShelf \in [Clients!Slots -> Things]
      /\ KeptByLease \in [Clients!Slots -> Things]
      /\ \A k \in Clients!Slots : PromisedAt(OnShelf[k], KeptByLease[k], blobs)
  BY PromisesBySlot DEF PromiseInv
<1>1. ASSUME NEW b \in Blobs, Clients!Receive(b)
      PROVE  Goal
  BY <1>0, <1>1 DEF Clients!Receive, PromisedAt, Clients!Stored
<1>2. ASSUME NEW j \in Clients!Slots, NEW m \in Manifests, NEW K \in SUBSET Clients!Slots,
             Clients!Publish(j, m, K)
      PROVE  Goal
  <2> DEFINE item == [version |-> OnShelf[j].version + 1, manifest |-> m]
             C == Clients!Cleared(OnShelf, K)
  <2>1. /\ Clients!Stored(item, blobs)
        /\ \A k \in K : k # j /\ KeptByLease[k] = Clients!Nothing
        /\ OnShelf' = [C EXCEPT ![j] = item]
        /\ KeptByLease' = KeptByLease /\ blobs' = blobs
    BY <1>2 DEF Clients!Publish, Clients!Loose
  <2>2. /\ C \in [Clients!Slots -> Things]
        /\ \A k \in Clients!Slots : C[k] = IF k \in K THEN Clients!Nothing ELSE OnShelf[k]
    BY <1>0, ClearedThings
  <2>3. /\ OnShelf[j].version \in Nat
        /\ item \in Things /\ item.version = OnShelf[j].version + 1
    BY <1>0, ThingFields
  <2> HIDE DEF C, item
  <2>4. OnShelf' \in [Clients!Slots -> Things]
    BY <2>1, <2>2, <2>3
  <2>5. ASSUME NEW k \in Clients!Slots
        PROVE  PromisedAt(OnShelf'[k], KeptByLease'[k], blobs')
    <3>1. CASE k = j
      <4>1. OnShelf'[k] = item /\ KeptByLease'[k].version \in Nat
        BY <1>0, <2>1, <2>2, <3>1, ThingFields
      <4>2. PromisedAt(OnShelf[j], KeptByLease[j], blobs)
        BY <1>0
      <4> QED BY <2>1, <2>3, <3>1, <4>1, <4>2 DEF PromisedAt
    <3>2. CASE k \in K
      <4>1. OnShelf'[k] = Clients!Nothing /\ KeptByLease'[k] = Clients!Nothing
        BY <2>1, <2>2, <3>2
      <4> QED BY <4>1 DEF PromisedAt, Clients!Stored
    <3>3. CASE k # j /\ k \notin K
      BY <1>0, <2>1, <2>2, <3>3
    <3> QED BY <3>1, <3>2, <3>3
  <2> QED BY <1>0, <2>1, <2>4, <2>5
<1>3. ASSUME NEW ns, NEW K \in SUBSET Clients!Slots, Clients!Evict(ns, K)
      PROVE  Goal
  <2>1. /\ \A k \in K : KeptByLease[k] = Clients!Nothing
        /\ OnShelf' = Clients!Cleared(OnShelf, K)
        /\ KeptByLease' = KeptByLease /\ blobs' = blobs
    BY <1>3 DEF Clients!Evict, Clients!Loose
  <2>2. /\ OnShelf' \in [Clients!Slots -> Things]
        /\ \A k \in Clients!Slots : OnShelf'[k] = IF k \in K THEN Clients!Nothing ELSE OnShelf[k]
    BY <1>0, <2>1, ClearedThings
  <2>3. PromisedAt(Clients!Nothing, Clients!Nothing, blobs)
    BY DEF PromisedAt, Clients!Stored
  <2> QED BY <1>0, <2>1, <2>2, <2>3
<1>4. ASSUME NEW j \in Clients!Slots, Clients!Keep(j)
      PROVE  Goal
  <2>1. PromisedAt(OnShelf[j], OnShelf[j], blobs)
    <3>1. OnShelf[j].version \in Nat
      BY <1>0, ThingFields
    <3> QED BY <1>0, <3>1 DEF PromisedAt
  <2> QED BY <1>0, <1>4, <2>1 DEF Clients!Keep
<1>5. ASSUME NEW K \in SUBSET Clients!Slots, Clients!Release(K)
      PROVE  Goal
  <2>1. /\ KeptByLease' = Clients!Cleared(KeptByLease, K)
        /\ OnShelf' = OnShelf /\ blobs' = blobs
    BY <1>5 DEF Clients!Release
  <2>2. /\ KeptByLease' \in [Clients!Slots -> Things]
        /\ \A k \in Clients!Slots :
             KeptByLease'[k] = IF k \in K THEN Clients!Nothing ELSE KeptByLease[k]
    BY <1>0, <2>1, ClearedThings
  <2>3. ASSUME NEW k \in Clients!Slots
        PROVE  PromisedAt(OnShelf[k], Clients!Nothing, blobs)
    BY <1>0 DEF PromisedAt, Clients!Stored
  <2> QED BY <1>0, <2>1, <2>2, <2>3
<1>6. ASSUME NEW B, Clients!Collect(B)
      PROVE  Goal
  BY <1>0, <1>6 DEF Clients!Collect, PromisedAt
<1> QED BY <1>1, <1>2, <1>3, <1>4, <1>5, <1>6 DEF Clients!Next

\* Whoever keeps the contract keeps the promises: what is on a shelf or kept by a lease
\* can be fetched, and what is kept stays on its shelf until a later version replaces it.
THEOREM ContractGivesPromises == KeepsCacheContract => []Clients!Promises
<1>1. Clients!Init => PromiseInv
  BY DEF Clients!Init, PromiseInv, Things, Clients!Promises, Clients!Stored
<1>2. ASSUME PromiseInv, [Clients!Next]_(Clients!contractVars)
      PROVE  PromiseInv'
  <2>1. CASE Clients!Next
    BY <1>2, <2>1, PromiseStep
  <2>2. CASE UNCHANGED Clients!contractVars
    BY <1>2, <2>2, PromisesBySlot
    DEF Clients!contractVars, PromiseInv, Things, Clients!Slots, Clients!Nothing
  <2> QED BY <1>2, <2>1, <2>2
<1>3. PromiseInv => Clients!Promises
  BY DEF PromiseInv
<1> QED BY <1>1, <1>2, <1>3, PTL DEF KeepsCacheContract, Clients!Spec
=============================================================================
