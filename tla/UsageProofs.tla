----------------------------- MODULE UsageProofs -----------------------------
(***************************************************************************)
(* How the bytes a namespace is charged for move, for every value of the   *)
(* constants: sums over slots, what a publication does to them, and the    *)
(* order in which it makes room.  A sum is the number of bytes counted one *)
(* by one, so the facts about it are facts about finite sets.              *)
(***************************************************************************)
EXTENDS GuaranteeProofs, FiniteSetTheorems

-----------------------------------------------------------------------------
(* Sums over slots, in any table e of entries: that before a step or that   *)
(* after it.                                                                *)

Tables == [Slots -> Entry \cup {NoEntry}]

\* The slots of K hold entries of e, finitely many.
Held(e, K) == /\ K \in SUBSET Slots
              /\ IsFiniteSet(K)
              /\ \A k \in K : e[k].version > 0

BytesIn(e, K) == UNION {{k} \X (1 .. SizeOf[e[k].digest]) : k \in K}
SumIn(e, K)   == Cardinality(BytesIn(e, K))
HeldIn(e, ns) == {k \in Slots : k[1] = ns /\ e[k].version > 0}

LEMMA SumsOfTables ==
  /\ \A K : SumSizes(K) = SumIn(entries, K)
  /\ \A ns : UsedBytes(ns) = SumIn(entries, HeldIn(entries, ns))
  /\ \A ns : UsedBytes(ns)' = SumIn(entries', HeldIn(entries', ns))
BY DEF SumSizes, BytesOf, SumIn, BytesIn, UsedBytes, HeldIn, Published

LEMMA SizeType ==
  ASSUME NEW e \in Tables, NEW k \in Slots, e[k].version > 0
  PROVE  SizeOf[e[k].digest] \in Nat \ {0}
<1>1. e[k] \in Entry
  BY DEF Tables, NoEntry
<1> QED BY <1>1, ContentAssumption DEF Entry

LEMMA BytesFinite ==
  ASSUME NEW e \in Tables, NEW K, Held(e, K)
  PROVE  IsFiniteSet(BytesIn(e, K))
<1> DEFINE Of(k) == {k} \X (1 .. SizeOf[e[k].digest])
           Parts == {Of(k) : k \in K}
           f == [k \in K |-> Of(k)]
<1>1. f \in Surjection(K, Parts)
  BY DEF Surjection
<1>2. IsFiniteSet(Parts)
  BY <1>1, FS_Surjection DEF Held
<1>3. ASSUME NEW k \in K
      PROVE  IsFiniteSet(Of(k))
  <2>1. SizeOf[e[k].digest] \in Nat
    BY SizeType DEF Held
  <2>2. IsFiniteSet(1 .. SizeOf[e[k].digest])
    BY <2>1, FS_Interval
  <2>3. IsFiniteSet({k})
    BY FS_Singleton
  <2> QED BY <2>2, <2>3, FS_Product
<1>4. IsFiniteSet(UNION Parts)
  BY <1>2, <1>3, FS_UNION
<1> QED BY <1>4 DEF BytesIn

\* A sum over finitely many entries is a number.
LEMMA SumType ==
  ASSUME NEW e \in Tables, NEW K, Held(e, K)
  PROVE  SumIn(e, K) \in Nat
BY BytesFinite, FS_CardinalityType DEF SumIn

LEMMA HeldPart ==
  ASSUME NEW e, NEW K, Held(e, K), NEW J \in SUBSET K
  PROVE  Held(e, J) /\ Held(e, K \ J)
<1>1. IsFiniteSet(J) /\ IsFiniteSet(K \ J)
  BY FS_Subset, FS_Difference DEF Held
<1> QED BY <1>1 DEF Held

\* Fewer slots, fewer bytes.
LEMMA SumMonotone ==
  ASSUME NEW e \in Tables, NEW K, Held(e, K), NEW J \in SUBSET K
  PROVE  SumIn(e, J) <= SumIn(e, K)
<1>1. BytesIn(e, J) \in SUBSET BytesIn(e, K)
  BY DEF BytesIn
<1> QED BY <1>1, BytesFinite, FS_Subset DEF SumIn

\* The sum over a set is that over a part of it and that over the rest.
LEMMA SumSplit ==
  ASSUME NEW e \in Tables, NEW K, Held(e, K), NEW J \in SUBSET K
  PROVE  SumIn(e, K) = SumIn(e, J) + SumIn(e, K \ J)
<1>1. BytesIn(e, K) = BytesIn(e, J) \cup BytesIn(e, K \ J)
  BY DEF BytesIn
<1>2. BytesIn(e, J) \cap BytesIn(e, K \ J) = {}
  <2> SUFFICES ASSUME NEW k \in K \ J, NEW j \in J, NEW x,
                      x \in {j} \X (1 .. SizeOf[e[j].digest]),
                      x \in {k} \X (1 .. SizeOf[e[k].digest])
               PROVE  FALSE
    BY DEF BytesIn
  <2>1. j # k
    OBVIOUS
  <2> QED BY <2>1
<1>3. /\ IsFiniteSet(BytesIn(e, J))
      /\ IsFiniteSet(BytesIn(e, K \ J))
  BY HeldPart, BytesFinite
<1>4. Cardinality(BytesIn(e, K)) =
        Cardinality(BytesIn(e, J)) + Cardinality(BytesIn(e, K \ J)) - Cardinality({})
  <2>1. Cardinality(BytesIn(e, J) \cup BytesIn(e, K \ J)) =
          Cardinality(BytesIn(e, J)) + Cardinality(BytesIn(e, K \ J))
            - Cardinality(BytesIn(e, J) \cap BytesIn(e, K \ J))
    BY <1>3, FS_Union
  <2> QED BY <1>1, <1>2, <2>1
<1>5. /\ Cardinality(BytesIn(e, J)) \in Nat
      /\ Cardinality(BytesIn(e, K \ J)) \in Nat
      /\ Cardinality({}) = 0
  BY <1>3, FS_CardinalityType, FS_EmptySet
<1> QED BY <1>4, <1>5 DEF SumIn

LEMMA SumOne ==
  ASSUME NEW e \in Tables, NEW k \in Slots, e[k].version > 0
  PROVE  SumIn(e, {k}) = SizeOf[e[k].digest]
<1>1. PICK n \in Nat \ {0} : n = SizeOf[e[k].digest]
  BY SizeType
<1>2. IsFiniteSet(1 .. n) /\ Cardinality(1 .. n) = n
  <2>1. 1 \in Int /\ n \in Int /\ ~ (1 > n)
    BY <1>1
  <2>2. IsFiniteSet(1 .. n) /\ Cardinality(1 .. n) = n - 1 + 1
    BY <2>1, FS_Interval
  <2> QED BY <2>2
<1>3. IsFiniteSet({k}) /\ Cardinality({k}) = 1
  BY FS_Singleton
<1>4. Cardinality({k} \X (1 .. n)) = 1 * n
  BY <1>2, <1>3, FS_Product
<1>5. BytesIn(e, {k}) = {k} \X (1 .. n)
  BY <1>1 DEF BytesIn
<1>6. SumIn(e, {k}) = 1 * n
  BY <1>4, <1>5 DEF SumIn
<1> QED BY <1>1, <1>6

\* Slots that hold the same content are charged the same.
LEMMA SumSame ==
  ASSUME NEW e, NEW f, NEW K, \A k \in K : f[k].digest = e[k].digest
  PROVE  SumIn(f, K) = SumIn(e, K)
<1>1. BytesIn(f, K) = BytesIn(e, K)
  BY DEF BytesIn
<1> QED BY <1>1 DEF SumIn

-----------------------------------------------------------------------------
(* What a step may do to a table.                                           *)

\* Nothing new is published: slots are emptied, or their entry is used.
Shrinks(e, f) ==
  \A k \in Slots : f[k].version > 0 => e[k].version > 0 /\ f[k].digest = e[k].digest

\* The same but for the slot j.
ShrinksBut(e, f, j) ==
  \A k \in Slots \ {j} : f[k].version > 0 => e[k].version > 0 /\ f[k].digest = e[k].digest

FinitelyMany(e) == IsFiniteSet({k \in Slots : e[k].version > 0})

LEMMA HeldInHeld ==
  ASSUME NEW e, FinitelyMany(e), NEW ns
  PROVE  Held(e, HeldIn(e, ns))
<1>1. HeldIn(e, ns) \in SUBSET {k \in Slots : e[k].version > 0}
  BY DEF HeldIn
<1> QED BY <1>1, FS_Subset DEF FinitelyMany, Held

\* A step publishes in one slot at most.
LEMMA StaysFinite ==
  ASSUME NEW e, NEW f, NEW j, FinitelyMany(e), ShrinksBut(e, f, j)
  PROVE  FinitelyMany(f)
<1> DEFINE P == {k \in Slots : e[k].version > 0}
           Q == {k \in Slots : f[k].version > 0}
<1>1. IsFiniteSet(P \cup {j})
  BY FS_AddElement DEF FinitelyMany
<1>2. Q \in SUBSET (P \cup {j})
  BY DEF ShrinksBut
<1>3. IsFiniteSet(Q)
  BY <1>1, <1>2, FS_Subset
<1> QED BY <1>3 DEF FinitelyMany

LEMMA UsageShrinks ==
  ASSUME NEW e \in Tables, NEW f \in Tables, FinitelyMany(e), Shrinks(e, f), NEW ns
  PROVE  SumIn(f, HeldIn(f, ns)) <= SumIn(e, HeldIn(e, ns))
<1>1. HeldIn(f, ns) \in SUBSET HeldIn(e, ns)
  BY DEF HeldIn, Shrinks
<1>2. SumIn(f, HeldIn(f, ns)) = SumIn(e, HeldIn(f, ns))
  BY SumSame DEF HeldIn, Shrinks
<1> QED BY <1>1, <1>2, HeldInHeld, SumMonotone

\* What slot k contributes to the usage of its namespace.
Charge(e, k) == IF e[k].version > 0 THEN SizeOf[e[k].digest] ELSE 0

\* The usage of a namespace is the charge of one of its slots and the rest.
LEMMA UsageOfSlot ==
  ASSUME NEW e \in Tables, FinitelyMany(e), NEW k \in Slots
  PROVE  /\ SumIn(e, HeldIn(e, k[1])) = Charge(e, k) + SumIn(e, HeldIn(e, k[1]) \ {k})
         /\ SumIn(e, HeldIn(e, k[1]) \ {k}) \in Nat
         /\ Charge(e, k) \in Nat
<1> DEFINE H == HeldIn(e, k[1])
<1>1. Held(e, H) /\ Held(e, H \ {k})
  <2>1. Held(e, H)
    BY HeldInHeld
  <2>2. H \ (H \cap {k}) = H \ {k}
    OBVIOUS
  <2>3. Held(e, H \ (H \cap {k}))
    BY <2>1, HeldPart
  <2> QED BY <2>1, <2>2, <2>3
<1>2. SumIn(e, H \ {k}) \in Nat
  BY <1>1, SumType
<1>3. CASE e[k].version > 0
  <2>1. {k} \in SUBSET H
    BY <1>3 DEF HeldIn
  <2>2. SumIn(e, H) = SumIn(e, {k}) + SumIn(e, H \ {k})
    BY <1>1, <2>1, SumSplit
  <2>3. SumIn(e, {k}) = SizeOf[e[k].digest] /\ SizeOf[e[k].digest] \in Nat
    BY <1>3, SumOne, SizeType
  <2> QED BY <1>2, <1>3, <2>2, <2>3 DEF Charge
<1>4. CASE ~ (e[k].version > 0)
  <2>1. H \ {k} = H
    BY <1>4 DEF HeldIn
  <2>2. Charge(e, k) = 0
    BY <1>4 DEF Charge
  <2>3. SumIn(e, H) = SumIn(e, H \ {k})
    BY <2>1
  <2> QED BY <1>2, <2>2, <2>3
<1> QED BY <1>3, <1>4

\* One slot is written: its namespace is charged for the new entry instead of the
\* one replaced, the others as before.
LEMMA UsageWritten ==
  ASSUME NEW e \in Tables, NEW f \in Tables, FinitelyMany(e), NEW k \in Slots,
         f[k].version > 0, \A j \in Slots \ {k} : f[j] = e[j]
  PROVE  /\ SumIn(f, HeldIn(f, k[1])) =
              SumIn(e, HeldIn(e, k[1])) - Charge(e, k) + SizeOf[f[k].digest]
         /\ \A ns : ns # k[1] => SumIn(f, HeldIn(f, ns)) = SumIn(e, HeldIn(e, ns))
<1>1. FinitelyMany(f)
  BY StaysFinite DEF ShrinksBut
<1>2. HeldIn(f, k[1]) \ {k} = HeldIn(e, k[1]) \ {k}
  BY DEF HeldIn
<1>3. SumIn(f, HeldIn(f, k[1]) \ {k}) = SumIn(e, HeldIn(e, k[1]) \ {k})
  <2>1. PICK K : K = HeldIn(e, k[1]) \ {k}
    OBVIOUS
  <2>2. \A j \in K : f[j].digest = e[j].digest
    BY <2>1 DEF HeldIn
  <2>3. SumIn(f, K) = SumIn(e, K)
    BY <2>2, SumSame
  <2> QED BY <1>2, <2>1, <2>3
<1>4. Charge(f, k) = SizeOf[f[k].digest] /\ SizeOf[f[k].digest] \in Nat
  BY SizeType DEF Charge
<1>5. SumIn(f, HeldIn(f, k[1])) =
        SumIn(e, HeldIn(e, k[1])) - Charge(e, k) + SizeOf[f[k].digest]
  BY <1>1, <1>3, <1>4, UsageOfSlot
<1>6. ASSUME NEW ns, ns # k[1]
      PROVE  SumIn(f, HeldIn(f, ns)) = SumIn(e, HeldIn(e, ns))
  <2>1. HeldIn(f, ns) = HeldIn(e, ns)
    BY <1>6 DEF HeldIn
  <2>2. \A j \in HeldIn(e, ns) : f[j].digest = e[j].digest
    BY <1>6 DEF HeldIn
  <2> QED BY <2>1, <2>2, SumSame
<1> QED BY <1>5, <1>6

\* Slots of one namespace are emptied: it is charged for the others.
LEMMA UsageEmptied ==
  ASSUME NEW e \in Tables, NEW f \in Tables, FinitelyMany(e), NEW ns,
         NEW D \in SUBSET HeldIn(e, ns),
         f = [k \in Slots |-> IF k \in D THEN NoEntry ELSE e[k]]
  PROVE  /\ SumIn(e, HeldIn(e, ns)) = SumIn(e, D) + SumIn(f, HeldIn(f, ns))
         /\ SumIn(e, D) \in Nat
         /\ SumIn(f, HeldIn(f, ns)) \in Nat
<1> DEFINE H == HeldIn(e, ns)
<1>1. HeldIn(f, ns) = H \ D
  BY DEF HeldIn, NoEntry
<1>2. SumIn(f, H \ D) = SumIn(e, H \ D)
  BY SumSame DEF HeldIn
<1>3. Held(e, H) /\ Held(e, D) /\ Held(e, H \ D)
  BY HeldInHeld, HeldPart
<1>4. SumIn(e, H) = SumIn(e, D) + SumIn(e, H \ D)
  BY <1>3, SumSplit
<1> QED BY <1>1, <1>2, <1>3, <1>4, SumType

-----------------------------------------------------------------------------
(* What the steps of the service do to the table of entries.                *)

\* A plan committed at once takes all its victims.
LEMMA RoomTaken ==
  ASSUME TypeInv, NEW ns \in Namespaces, NEW need, NEW excluded
  PROVE  /\ Deleted(Committed(Plan(ns, need, excluded))) = Victims(ns, need, excluded)
         /\ Victims(ns, need, excluded) \in SUBSET HeldIn(entries, ns)
         /\ Victims(ns, need, excluded) \cap excluded = {}
<1> DEFINE V == Victims(ns, need, excluded)
           d == Plan(ns, need, excluded)
<1>1. V \in SUBSET Evictable(ns, excluded)
  BY DEF Victims
<1>2. ASSUME NEW k \in V
      PROVE  Recheck(Snapshot(k)) = "deleted"
  <2>1. k \in Slots /\ Published(k) /\ ~ PinActive(k)
    BY <1>1 DEF Evictable
  <2>2. entries[k].lastAccess \in Nat
    BY <2>1, PublishedType DEF TypeInv, Entry
  <2> QED BY <2>1, <2>2 DEF Recheck, Snapshot
<1>3. d.candidates = {Snapshot(k) : k \in V}
  BY DEF Plan
<1>4. Committed(d).candidates = {[c EXCEPT !.outcome = Recheck(c)] : c \in d.candidates}
  BY DEF Committed, Plan
<1>5. Deleted(Committed(d)) \in SUBSET V
  <2>1. ASSUME NEW x \in Committed(d).candidates
        PROVE  x.slot \in V
    <3>1. PICK k \in V : x = [Snapshot(k) EXCEPT !.outcome = Recheck(Snapshot(k))]
      BY <1>3, <1>4
    <3> QED BY <3>1 DEF Snapshot
  <2> QED BY <2>1 DEF Deleted
<1>6. ASSUME NEW k \in V
      PROVE  k \in Deleted(Committed(d))
  <2> DEFINE c == [Snapshot(k) EXCEPT !.outcome = Recheck(Snapshot(k))]
  <2>1. c \in Committed(d).candidates
    BY <1>3, <1>4
  <2>2. c.outcome = "deleted" /\ c.slot = k
    BY <1>2 DEF Snapshot
  <2> QED BY <2>1, <2>2 DEF Deleted
<1> QED BY <1>1, <1>5, <1>6 DEF Evictable, HeldIn, Published

PublishesWithinQuota(s) ==
  /\ Publishable(s)
  /\ \E v : PublishWithinQuota(s, v)

PublishesAfterEviction(s) ==
  /\ Publishable(s)
  /\ \E v : PublishAfterEviction(s, v)

LEMMA EvictionShrinks ==
  ASSUME TypeInv, NEW D, entries' = Without(D)
  PROVE  Shrinks(entries, entries')
BY DEF Shrinks, Without, NoEntry

\* The three ways a step may treat the table.
LEMMA TableStep ==
  ASSUME TypeInv, Next
  PROVE  \/ Shrinks(entries, entries')
         \/ \E s \in SessionIds : PublishesWithinQuota(s) \/ PublishesAfterEviction(s)
         \/ \E p \in PromoIds : WriteEntry(p)
<1> DEFINE Publishes == \E s \in SessionIds : PublishesWithinQuota(s) \/ PublishesAfterEviction(s)
<1>1. CASE entries' = entries
  BY <1>1 DEF Shrinks
<1>2. ASSUME NEW j \in Slots, NEW t,
             Published(j), entries' = [entries EXCEPT ![j].lastAccess = t]
      PROVE  Shrinks(entries, entries')
  <2>1. entries[j] \in Entry
    BY <1>2, PublishedType DEF TypeInv
  <2>2. \A k \in Slots \ {j} : entries'[k] = entries[k]
    BY <1>2 DEF TypeInv, TypeOK
  <2>3. entries'[j] = [entries[j] EXCEPT !.lastAccess = t]
    BY <1>2 DEF TypeInv, TypeOK
  <2>4. entries'[j].digest = entries[j].digest
    BY <2>1, <2>3 DEF Entry
  <2> QED BY <1>2, <2>2, <2>4 DEF Shrinks, Published
<1>3. CASE PublishStep
  <2>1. PICK s \in SessionIds, v \in ExpectedVersions :
          \/ Complete(s, v)
          \/ CompleteOverQuota(s, v)
          \/ CompleteUnclosed(s, v)
          \/ CompleteInterrupted(s, v)
    BY <1>3 DEF PublishStep
  <2>2. CASE Complete(s, v) \/ CompleteUnclosed(s, v)
    <3>1. Publishable(s) /\ Publish(s, v)
      BY <2>2 DEF Complete, CompleteUnclosed
    <3>2. CASE Reuse(s)
      <4>1. sessions[s].slot \in Slots
        BY <3>1, PublishTypes DEF TypeInv
      <4> QED BY <1>2, <3>2, <4>1 DEF Reuse, SameContent
    <3> QED BY <3>1, <3>2 DEF Publish, PublishesWithinQuota, PublishesAfterEviction
  <2>3. CASE CompleteOverQuota(s, v) \/ CompleteInterrupted(s, v)
    <3>1. entries' = entries \/ \E D : entries' = Without(D)
      BY <2>3 DEF CompleteOverQuota, CompleteInterrupted
    <3> QED BY <1>1, <3>1, EvictionShrinks
  <2> QED BY <2>1, <2>2, <2>3
<1>4. CASE ReadStep
  <2>1. PICK j \in Slots : Read(j)
    BY <1>4 DEF ReadStep
  <2> QED BY <1>2, <2>1 DEF Read
<1>5. ASSUME NEW id \in DecisionIds, CommitEviction(id) \/ CommitEvictionInterrupted(id)
      PROVE  Shrinks(entries, entries')
  <2>1. \E D : entries' = Without(D)
    BY <1>5 DEF CommitEviction, CommitEvictionInterrupted
  <2> QED BY <2>1, EvictionShrinks
<1>6. ASSUME NEW p \in PromoIds, ApplyEviction(p) \/ InterruptEviction(p)
      PROVE  Shrinks(entries, entries')
  <2>1. \E D : entries' = Without(D)
    BY <1>6 DEF ApplyEviction, InterruptEviction
  <2> QED BY <2>1, EvictionShrinks
<1> QED BY <1>1, <1>3, <1>4, <1>5, <1>6, EntrySteps

\* What a publication writes where.
LEMMA PublicationWrites ==
  ASSUME TypeInv, NEW s \in SessionIds, Publishable(s)
  PROVE  LET k == sessions[s].slot
         IN  /\ k \in Slots
             /\ PublishesWithinQuota(s) =>
                  entries' = [entries EXCEPT ![k] = NewEntry(s)]
             /\ PublishesAfterEviction(s) =>
                  entries' = [Without(Victims(k[1], Excess(s), {k})) EXCEPT ![k] = NewEntry(s)]
             /\ NewEntry(s).version > 0
             /\ NewEntry(s).digest = sessions[s].artifact
<1> DEFINE k == sessions[s].slot
<1>1. k \in Slots /\ k[1] \in Namespaces /\ NewEntry(s) \in Entry
  BY PublishTypes DEF TypeInv
<1>2. Deleted(Committed(RoomDecision(s))) = Victims(k[1], Excess(s), {k})
  BY <1>1, RoomTaken DEF RoomDecision
<1>3. NewEntry(s).version > 0 /\ NewEntry(s).digest = sessions[s].artifact
  BY <1>1 DEF NewEntry, Entry
<1> QED BY <1>1, <1>2, <1>3
        DEF PublishesWithinQuota, PublishWithinQuota, PublishesAfterEviction, PublishAfterEviction

-----------------------------------------------------------------------------
(* Only finitely many slots are ever published, whatever keys there are.    *)

FinitelyPublished == FinitelyMany(entries)

UsageInv == TypeInv /\ FinitelyPublished

LEMMA FinitelyPublishedStep ==
  ASSUME TypeInv, FinitelyPublished, [Next]_vars
  PROVE  FinitelyPublished'
<1>1. CASE UNCHANGED vars
  BY <1>1 DEF FinitelyPublished, FinitelyMany, vars
<1>2. CASE Next
  <2>1. CASE Shrinks(entries, entries')
    BY <2>1, StaysFinite DEF FinitelyPublished, Shrinks, ShrinksBut
  <2>2. ASSUME NEW s \in SessionIds, PublishesWithinQuota(s) \/ PublishesAfterEviction(s)
        PROVE  FinitelyPublished'
    <3> DEFINE k == sessions[s].slot
    <3>1. Publishable(s)
      BY <2>2 DEF PublishesWithinQuota, PublishesAfterEviction
    <3>2. \/ entries' = [entries EXCEPT ![k] = NewEntry(s)]
          \/ \E D : entries' = [Without(D) EXCEPT ![k] = NewEntry(s)]
      BY <2>2, <3>1, PublicationWrites
    <3>3. ShrinksBut(entries, entries', k)
      <4> SUFFICES ASSUME NEW j \in Slots \ {k}, entries'[j].version > 0
                   PROVE  entries[j].version > 0 /\ entries'[j].digest = entries[j].digest
        BY DEF ShrinksBut
      <4>1. CASE entries' = [entries EXCEPT ![k] = NewEntry(s)]
        BY <4>1 DEF TypeInv, TypeOK
      <4>2. ASSUME NEW D, entries' = [Without(D) EXCEPT ![k] = NewEntry(s)]
            PROVE  entries[j].version > 0 /\ entries'[j].digest = entries[j].digest
        <5>1. entries'[j] = Without(D)[j]
          BY <4>2 DEF Without
        <5> QED BY <5>1 DEF Without, NoEntry
      <4> QED BY <3>2, <4>1, <4>2
    <3> QED BY <3>3, StaysFinite DEF FinitelyPublished
  <2>3. ASSUME NEW p \in PromoIds, WriteEntry(p)
        PROVE  FinitelyPublished'
    <3>1. ShrinksBut(entries, entries', promotions[p].target)
      BY <2>3 DEF ShrinksBut, WriteEntry, TypeInv, TypeOK
    <3> QED BY <3>1, StaysFinite DEF FinitelyPublished
  <2> QED BY <1>2, <2>1, <2>2, <2>3, TableStep
<1> QED BY <1>1, <1>2

LEMMA UsageInvariant == Spec => []UsageInv
<1>1. Init => FinitelyPublished
  <2>1. Init => {k \in Slots : entries[k].version > 0} = {}
    BY DEF Init, NoEntry
  <2> QED BY <2>1, FS_EmptySet DEF FinitelyPublished, FinitelyMany
<1>2. TypeInv /\ FinitelyPublished /\ [Next]_vars => FinitelyPublished'
  BY FinitelyPublishedStep
<1> QED BY <1>1, <1>2, TypeInvariant, PTL DEF Spec, UsageInv

-----------------------------------------------------------------------------
(* Quotas.                                                                  *)

LEMMA TablesType ==
  ASSUME TypeInv
  PROVE  entries \in Tables /\ (Next => entries' \in Tables)
<1>1. Next => TypeOK'
  BY StepTypeOK
<1> QED BY <1>1 DEF TypeInv, TypeOK, Tables

LEMMA UsageType ==
  ASSUME UsageInv, NEW ns
  PROVE  UsedBytes(ns) \in Nat
BY HeldInHeld, SumType, SumsOfTables, TablesType DEF UsageInv, FinitelyPublished

\* The quota by which a publication is judged, for any table of entries e it may
\* start from after making room.
LEMMA PublicationFits ==
  ASSUME UsageInv, Next, NEW s \in SessionIds, Publishable(s), NEW ns \in Namespaces,
         PublishesWithinQuota(s) \/ PublishesAfterEviction(s),
         quota[ns] > 0, UsedBytes(ns)' > UsedBytes(ns)
  PROVE  UsedBytes(ns)' <= quota[ns]
<1>0. PICK k : k = sessions[s].slot
  OBVIOUS
<1> DEFINE size == SizeOf[sessions[s].artifact]
<1>1. entries \in Tables /\ entries' \in Tables /\ FinitelyMany(entries)
  BY TablesType DEF UsageInv, FinitelyPublished
<1>2. k \in Slots /\ NewEntry(s).version > 0 /\ NewEntry(s).digest = sessions[s].artifact
  BY <1>0, PublicationWrites DEF UsageInv
<1>3. size \in Nat
  <2>1. sessions[s].artifact \in Artifacts
    BY OpenSessionType DEF UsageInv, TypeInv, Publishable, Session
  <2> QED BY <2>1, ContentAssumption
<1>4. quota[k[1]] \in Int
  BY <1>2 DEF UsageInv, TypeInv, TypeOK, Slots, Unregistered
<1>5. UsedBytes(k[1]) \in Nat /\ Charge(entries, k) \in Nat
  BY <1>1, <1>2, UsageType, UsageOfSlot
<1>6. Excess(s) = UsedBytes(k[1]) - Charge(entries, k) + size - quota[k[1]]
  BY <1>0 DEF Excess, Charge, Published
<1>7. CASE PublishesWithinQuota(s)
  <2>1. entries' = [entries EXCEPT ![k] = NewEntry(s)]
    BY <1>0, <1>7, PublicationWrites DEF UsageInv
  <2>2. entries'[k] = NewEntry(s) /\ \A j \in Slots \ {k} : entries'[j] = entries[j]
    BY <1>1, <1>2, <2>1 DEF Tables
  <2>3. /\ UsedBytes(k[1])' = UsedBytes(k[1]) - Charge(entries, k) + size
        /\ ns # k[1] => UsedBytes(ns)' = UsedBytes(ns)
    BY <1>1, <1>2, <2>2, UsageWritten, SumsOfTables
  <2>4. UsedBytes(ns) \in Nat
    BY UsageType
  <2>5. ns = k[1]
    BY <2>3, <2>4
  <2>6. ~ (Excess(s) \in Nat \ {0})
    BY <1>0, <1>7, <2>5 DEF PublishesWithinQuota, PublishWithinQuota, OverQuota
  <2> QED BY <1>3, <1>4, <1>5, <1>6, <2>3, <2>5, <2>6
<1>8. CASE PublishesAfterEviction(s)
  <2>0. PICK D, mid : D = Victims(k[1], Excess(s), {k}) /\ mid = Without(D)
    OBVIOUS
  <2>1. entries' = [mid EXCEPT ![k] = NewEntry(s)]
    BY <1>0, <1>8, <2>0, PublicationWrites DEF UsageInv
  <2>2. /\ D \in SUBSET HeldIn(entries, k[1])
        /\ k \notin D
        /\ Deleted(Committed(RoomDecision(s))) = D
    <3>1. k[1] \in Namespaces
      BY <1>2 DEF Slots
    <3> QED BY <1>0, <2>0, <3>1, RoomTaken DEF UsageInv, RoomDecision
  <2>3. mid \in Tables /\ FinitelyMany(mid)
    <3>1. mid \in Tables
      BY <2>0, WithoutType DEF UsageInv, TypeInv, Tables
    <3>2. ShrinksBut(entries, mid, k)
      BY <2>0 DEF ShrinksBut, Without, NoEntry
    <3> QED BY <1>1, <3>1, <3>2, StaysFinite
  <2>4. entries'[k] = NewEntry(s) /\ \A j \in Slots \ {k} : entries'[j] = mid[j]
    BY <1>2, <2>1, <2>3 DEF Tables
  <2>5. mid[k] = entries[k]
    BY <1>2, <2>0, <2>2 DEF Without
  <2>6. /\ UsedBytes(k[1])' = SumIn(mid, HeldIn(mid, k[1])) - Charge(mid, k) + size
        /\ ns # k[1] => UsedBytes(ns)' = SumIn(mid, HeldIn(mid, ns))
    BY <1>1, <1>2, <2>3, <2>4, UsageWritten, SumsOfTables
  <2>7. Charge(mid, k) = Charge(entries, k)
    BY <2>5 DEF Charge
  <2>8. /\ UsedBytes(k[1]) = SumIn(entries, D) + SumIn(mid, HeldIn(mid, k[1]))
        /\ SumIn(entries, D) \in Nat
        /\ SumIn(mid, HeldIn(mid, k[1])) \in Nat
    <3>1. mid = [i \in Slots |-> IF i \in D THEN NoEntry ELSE entries[i]]
      BY <2>0 DEF Without
    <3>2. /\ SumIn(entries, HeldIn(entries, k[1])) = SumIn(entries, D) + SumIn(mid, HeldIn(mid, k[1]))
          /\ SumIn(entries, D) \in Nat
          /\ SumIn(mid, HeldIn(mid, k[1])) \in Nat
      BY <1>1, <2>2, <2>3, <3>1, UsageEmptied
    <3> QED BY <3>2, SumsOfTables
  <2>9. ns = k[1]
    <3>1. Shrinks(entries, mid)
      BY <2>0 DEF Shrinks, Without, NoEntry
    <3>2. SumIn(mid, HeldIn(mid, ns)) <= UsedBytes(ns)
      BY <1>1, <2>3, <3>1, UsageShrinks, SumsOfTables
    <3>3. SumIn(mid, HeldIn(mid, ns)) \in Nat /\ UsedBytes(ns) \in Nat
      BY <2>3, HeldInHeld, SumType, UsageType
    <3> QED BY <2>6, <3>2, <3>3
  <2>10. SumIn(entries, D) >= Excess(s)
    BY <1>8, <2>2, SumsOfTables DEF PublishesAfterEviction, PublishAfterEviction, FreedBytes
  <2> QED BY <1>3, <1>4, <1>5, <1>6, <2>6, <2>7, <2>8, <2>9, <2>10
<1> QED BY <1>7, <1>8

\* Which step may leave a namespace above its limit: the write of a promotion, which
\* was fitted into the quota when it was prepared.
OnlyPromotionsOverfill ==
  [][\A ns \in Namespaces :
       quota[ns] > 0 /\ UsedBytes(ns)' > UsedBytes(ns) =>
         \/ UsedBytes(ns)' <= quota[ns]
         \/ \E p \in PromoIds : WriteEntry(p) /\ promotions[p].target[1] = ns]_vars

LEMMA UsageStep ==
  ASSUME UsageInv, Next, NEW ns \in Namespaces,
         quota[ns] > 0, UsedBytes(ns)' > UsedBytes(ns)
  PROVE  \/ UsedBytes(ns)' <= quota[ns]
         \/ \E p \in PromoIds : WriteEntry(p) /\ promotions[p].target[1] = ns
<1>1. entries \in Tables /\ entries' \in Tables /\ FinitelyMany(entries)
  BY TablesType DEF UsageInv, FinitelyPublished
<1>2. UsedBytes(ns) \in Nat
  BY UsageType
<1>3. CASE Shrinks(entries, entries')
  <2>1. UsedBytes(ns)' <= UsedBytes(ns)
    BY <1>1, <1>3, UsageShrinks, SumsOfTables
  <2>2. UsedBytes(ns)' \in Nat
    <3>1. FinitelyMany(entries')
      BY FinitelyPublishedStep DEF UsageInv, FinitelyPublished
    <3> QED BY <1>1, <3>1, HeldInHeld, SumType, SumsOfTables
  <2> QED BY <1>2, <2>1, <2>2
<1>4. ASSUME NEW s \in SessionIds, PublishesWithinQuota(s) \/ PublishesAfterEviction(s)
      PROVE  UsedBytes(ns)' <= quota[ns]
  <2>1. Publishable(s)
    BY <1>4 DEF PublishesWithinQuota, PublishesAfterEviction
  <2> QED BY <1>4, <2>1, PublicationFits
<1>5. ASSUME NEW p \in PromoIds, WriteEntry(p)
      PROVE  promotions[p].target[1] = ns
  <2>1. PICK k : k = promotions[p].target
    OBVIOUS
  <2>2. k \in Slots /\ PromotedEntry(p) \in Entry
    <3>1. promoTxns[p] # NoTxn
      BY <1>5 DEF WriteEntry, Applying, NoTxn
    <3> QED BY <2>1, <3>1, AppliedType, PromotedEntryType DEF UsageInv, Promotion
  <2>3. entries'[k] = PromotedEntry(p) /\ \A j \in Slots \ {k} : entries'[j] = entries[j]
    BY <1>1, <1>5, <2>1, <2>2 DEF WriteEntry, Tables
  <2>4. entries'[k].version > 0
    BY <2>2, <2>3 DEF Entry
  <2>5. ns # k[1] => UsedBytes(ns)' = UsedBytes(ns)
    BY <1>1, <2>2, <2>3, <2>4, UsageWritten, SumsOfTables
  <2> QED BY <1>2, <2>1, <2>5
<1> QED BY <1>3, <1>4, <1>5, TableStep DEF UsageInv

\* Publication keeps every limit: only the write of a promotion leaves a namespace
\* above it after growing its usage.
THEOREM OverfillsByPromotionOnly == Spec => OnlyPromotionsOverfill
<1>1. ASSUME UsageInv, [Next]_vars
      PROVE  [\A ns \in Namespaces :
                quota[ns] > 0 /\ UsedBytes(ns)' > UsedBytes(ns) =>
                  \/ UsedBytes(ns)' <= quota[ns]
                  \/ \E p \in PromoIds : WriteEntry(p) /\ promotions[p].target[1] = ns]_vars
  BY <1>1, UsageStep
<1> QED BY <1>1, UsageInvariant, PTL DEF Spec, OnlyPromotionsOverfill

\* A promotion runs along a route clients may promote along.
PromotionsFollowRoutes ==
  \A p \in PromoIds : promotions[p].status # "none" =>
    <<promotions[p].source, promotions[p].target>> \in PromotionRoutes

LEMMA PromotionsFollowRoutesStep ==
  ASSUME TypeInv, PromotionsFollowRoutes, [Next]_vars
  PROVE  PromotionsFollowRoutes'
<1>1. CASE UNCHANGED vars \/ UNCHANGED promotions
  BY <1>1 DEF PromotionsFollowRoutes, vars, promotionVars
<1>2. ASSUME NEW source \in Slots, NEW target \in Slots, NEW m, NEW r,
             <<source, target>> \in PromotionRoutes, SavePrepared(source, target, m, r)
      PROVE  PromotionsFollowRoutes'
  <2>1. PICK e : promotions' = [promotions EXCEPT ![promoSeq + 1] = Frozen(source, target, m, r, e)]
    BY <1>2 DEF SavePrepared
  <2>2. /\ Frozen(source, target, m, r, e).source = source
        /\ Frozen(source, target, m, r, e).target = target
    BY DEF Frozen
  <2> QED BY <1>2, <2>1, <2>2 DEF PromotionsFollowRoutes, TypeInv, TypeOK
<1>3. ASSUME NEW p \in PromoIds, NEW outcome,
             promotions[p].status # "none", SetOutcome(p, outcome)
      PROVE  PromotionsFollowRoutes'
  <2>1. promotions[p] \in Promotion
    BY <1>3, PromotionType DEF TypeInv
  <2>2. /\ [promotions[p] EXCEPT !.status = outcome].source = promotions[p].source
        /\ [promotions[p] EXCEPT !.status = outcome].target = promotions[p].target
    BY <2>1 DEF Promotion
  <2> QED BY <1>3, <2>2 DEF PromotionsFollowRoutes, SetOutcome, TypeInv, TypeOK
<1> QED BY <1>1, <1>2, <1>3, PromotionShape

\* Where nothing is promoted, every step that raises the usage of a namespace with a
\* limit leaves it within the limit: an upload makes room or is refused, whatever was
\* planned, pinned or read in between.
THEOREM UsageStaysWithinQuota ==
  ASSUME PromotionRoutes = {}
  PROVE  Spec => UsageGrowsWithinQuota
<1>1. Init => PromotionsFollowRoutes
  BY DEF Init, PromotionsFollowRoutes, NoPromotion
<1>2. TypeInv /\ PromotionsFollowRoutes /\ [Next]_vars => PromotionsFollowRoutes'
  BY PromotionsFollowRoutesStep
<1>3. ASSUME UsageInv, PromotionsFollowRoutes, [Next]_vars
      PROVE  [\A ns \in Namespaces :
                quota[ns] > 0 /\ UsedBytes(ns)' > UsedBytes(ns) =>
                  UsedBytes(ns)' <= quota[ns]]_vars
  <2>1. ASSUME NEW p \in PromoIds
        PROVE  ~ WriteEntry(p)
    BY <1>3 DEF UsageInv, TypeInv, LogsNamePromotions, PromotionsFollowRoutes, WriteEntry,
         Applying, NoTxn
  <2> QED BY <1>3, <2>1, UsageStep
<1> QED BY <1>1, <1>2, <1>3, TypeInvariant, UsageInvariant, PTL DEF Spec, UsageGrowsWithinQuota

-----------------------------------------------------------------------------
(* Promotions that made room.  As long as no write fails, what a commit has     *)
(* measured is not disturbed before its entry is written: neither the limit,    *)
(* nor what the target held, nor what else its namespace holds.                 *)

LimitStands(p) == quota[promotions[p].target[1]] = promotions[p].quota

\* What the entry is going to replace is what it was measured against.
BaseStands(p) ==
  TargetAtBase(p) /\ ~ EntryPresent(p) /\ promotions[p].base > 0
  => entries[promotions[p].target].digest = promotions[p].baseDigest

RoomStands(p) ==
  promoTxns[p] = "eviction_committed" /\ ~ EntryPresent(p) => ~ StillTooLarge(p)

MeasuresStand ==
  \A p \in PromoIds : Underway(p) => LimitStands(p) /\ BaseStands(p) /\ RoomStands(p)

\* A commit begins with what was found at prepare.
LEMMA MeasuresBegin ==
  ASSUME DecisionInv, NEW q \in PromoIds, BeginCommit(q)
  PROVE  LimitStands(q)' /\ BaseStands(q)' /\ RoomStands(q)'
<1> USE DEF promotionVars, quotaVars
<1>0. TypeOK /\ ~ QuotaChanged(q) /\ ~ TargetChanged(q)
  BY DEF DecisionInv, TypeInv, BeginCommit, Stale
<1>1. UNCHANGED <<entries, quota, promotions>> /\ promoTxns'[q] = "committing"
  BY <1>0 DEF BeginCommit, TypeOK
<1>2. LimitStands(q)'
  BY <1>0, <1>1 DEF QuotaChanged, LimitStands
<1>3. ASSUME TargetAtBase(q), ~ EntryPresent(q), promotions[q].base > 0
      PROVE  entries[promotions[q].target].digest = promotions[q].baseDigest
  <2> DEFINE e == entries[promotions[q].target]
  <2>1. promotions[q] \in Promotion
    BY <1>0, PromotionType DEF BeginCommit, Prepared
  <2>2. Published(promotions[q].target)
    BY <1>3 DEF TargetAtBase, Published
  <2>3. ~ (e.origin = OriginOf(q) /\ e.digest = promotions[q].digest)
    BY <1>3, <2>1, <2>2 DEF EntryPresent, OriginOf, Promotion
  <2> QED BY <1>0, <2>2, <2>3 DEF TargetChanged
<1>4. BaseStands(q)'
  BY <1>1, <1>3 DEF BaseStands, TargetAtBase, EntryPresent, Published
<1> QED BY <1>1, <1>2, <1>4 DEF RoomStands

\* While a commit is under way no limit changes: a restart gives one to a default
\* namespace that has none.
LEMMA LimitStandsStep ==
  ASSUME DecisionInv, HoldInv, Next, NEW q \in PromoIds, Underway(q), LimitStands(q)
  PROVE  LimitStands(q)'
<1> USE DEF quotaVars
<1>0. TypeInv /\ promotions[q] \in Promotion
  BY AppliedType DEF DecisionInv, Underway
<1>1. ~ Idle /\ Unfinished # {}
  BY DEF HoldInv, UnderwayHeld, Idle, PromoIds, Unfinished, Underway
<1>2. promotions'[q].target = promotions[q].target /\ promotions'[q].quota = promotions[q].quota
  BY <1>0, FrozenStays DEF Underway, TypeInv, LogsNamePromotions
<1>3. CASE UNCHANGED quota
  BY <1>2, <1>3 DEF LimitStands
<1>4. CASE Restart
  <2> DEFINE ns == promotions[q].target[1]
  <2>1. ns \in Namespaces /\ quota[ns] \in Nat
    BY <1>0 DEF Promotion, Slots, LimitStands
  <2>2. quota'[ns] = quota[ns]
    BY <1>0, <1>4, <2>1 DEF Restart, TypeInv, TypeOK, Unregistered
  <2> QED BY <1>2, <2>2 DEF LimitStands
<1>5. CASE PromotionStep
  <2>1. CASE ApplyStep
    BY <1>3, <2>1 DEF ApplyStep, ApplyEviction, ConfirmRoom, WriteEntry, ConfirmEntry,
         RecordCommitted, RecordCommittedRequest, CloseLog, FailCommit
  <2>2. CASE ~ ApplyStep
    BY <1>3, <1>5, <2>2 DEF PromotionStep, PrepareStep, PreparePromotion,
         PreparePromotionUnrecorded,
         PreparePromotionRefused, BeginCommit, ResumeCommit, RejectCommit,
         FailCommitKeepingLog, InterruptEviction, InterruptStep, InterruptCommit
  <2> QED BY <2>1, <2>2
<1>6. CASE StartStep \/ Tick
  BY <1>1, <1>3, <1>6 DEF StartStep, StartServing, FinishStart, RecoverCommit, Tick
<1>7. ~ CacheStep
  BY <1>1 DEF CacheStep
<1> QED BY <1>4, <1>5, <1>6, <1>7 DEF Next

\* How a log comes to say that room was made.
LEMMA RoomConfirmed ==
  ASSUME DecisionInv, NoWriteFails, HoldInv, Next, NEW q \in PromoIds, Underway(q)',
         promoTxns'[q] = "eviction_committed"
  PROVE  promoTxns[q] = "eviction_committed" \/ ConfirmRoom(q)
<1>1. promotions[q].status # "committed"
  BY CommittedStays DEF Underway
<1>2. promoTxns[q] # "entry_written"
  BY WrittenLogStays DEF NoTxn
<1>3. ClaimsRoom(q) \/ ConfirmRoom(q)
  BY ClaimShape DEF ClaimsRoom, DecisionInv, NumbersFresh
<1> QED BY <1>1, <1>2, <1>3 DEF ClaimsRoom

LEMMA MeasuresStandStep ==
  ASSUME DecisionInv, NoWriteFails, HoldInv, MeasuresStand, Next
  PROVE  MeasuresStand'
<1> SUFFICES ASSUME NEW q \in PromoIds, Underway(q)'
             PROVE  LimitStands(q)' /\ BaseStands(q)' /\ RoomStands(q)'
  BY DEF MeasuresStand
<1>0. TypeInv
  BY DEF DecisionInv
<1>1. CASE BeginCommit(q)
  BY <1>1, MeasuresBegin
<1>2. CASE Underway(q)
  <2>0. LimitStands(q) /\ BaseStands(q) /\ RoomStands(q)
    BY <1>2 DEF MeasuresStand
  <2>1. promotions[q].status # "none" /\ promotions[q] \in Promotion
    BY <1>0, <1>2, AppliedType DEF Underway, TypeInv, LogsNamePromotions
  <2>2. /\ promotions'[q].target = promotions[q].target
        /\ promotions'[q].source = promotions[q].source
        /\ promotions'[q].digest = promotions[q].digest
        /\ promotions'[q].request = promotions[q].request
        /\ promotions'[q].eviction = promotions[q].eviction
        /\ promotions'[q].base = promotions[q].base
        /\ promotions'[q].baseDigest = promotions[q].baseDigest
        /\ promotions'[q].quota = promotions[q].quota
    BY <2>1, FrozenStays
  <2>3. LimitStands(q)'
    BY <1>2, <2>0, LimitStandsStep
  <2>4. UNCHANGED entries \/ ApplyEviction(q) \/ WriteEntry(q)
    BY <1>2, OnlyCommitWrites
  <2>5. CASE UNCHANGED entries
    <3>1. /\ EntryPresent(q)' = EntryPresent(q)
          /\ TargetAtBase(q)' = TargetAtBase(q)
          /\ StillTooLarge(q)' = StillTooLarge(q)
      BY <2>2, <2>5 DEF EntryPresent, TargetAtBase, StillTooLarge, Published, UsedBytes,
           SumSizes, BytesOf
    <3>2. BaseStands(q)'
      BY <2>0, <2>2, <2>5, <3>1 DEF BaseStands
    <3>3. RoomStands(q)'
      BY <2>0, <3>1, RoomConfirmed DEF RoomStands, ConfirmRoom
    <3> QED BY <2>3, <3>2, <3>3
  <2>6. CASE ApplyEviction(q)
    <3>1. PICK D : entries' = Without(D)
      BY <2>6 DEF ApplyEviction
    <3>2. UNCHANGED <<promotions, promoTxns>> /\ promoTxns[q] = "committing"
      BY <2>6 DEF ApplyEviction, Applying, promotionVars
    <3>3. \/ entries'[promotions[q].target] = entries[promotions[q].target]
          \/ entries'[promotions[q].target] = NoEntry
      BY <2>1, <3>1 DEF Without, Promotion
    <3>4. BaseStands(q)'
      BY <2>0, <3>2, <3>3 DEF BaseStands, TargetAtBase, EntryPresent, Published, NoEntry
    <3> QED BY <2>3, <3>2, <3>4 DEF RoomStands
  <2>7. CASE WriteEntry(q)
    <3>1. EntryPresent(q)'
      BY <1>0, <2>7, WritesTakeHold
    <3> QED BY <2>3, <3>1 DEF BaseStands, RoomStands
  <2> QED BY <2>4, <2>5, <2>6, <2>7
<1> QED BY <1>1, <1>2, UnderwayBegins

LEMMA MeasuresInvariant == ASSUME NoWriteFails PROVE Spec => []MeasuresStand
<1>1. Init => MeasuresStand
  BY DEF Init, MeasuresStand, Underway
<1>2. ASSUME DecisionInv, HoldInv, MeasuresStand, [Next]_vars
      PROVE  MeasuresStand'
  <2>1. CASE Next
    BY <1>2, <2>1, MeasuresStandStep
  <2>2. CASE UNCHANGED vars
    BY <1>2, <2>2 DEF MeasuresStand, Underway, LimitStands, BaseStands, RoomStands,
         TargetAtBase, EntryPresent, StillTooLarge, Published, UsedBytes, SumSizes, BytesOf,
         vars, quotaVars, promotionVars
  <2> QED BY <1>2, <2>1, <2>2
<1> QED BY <1>1, <1>2, DecisionInvariant, HoldInvariant, PTL DEF Spec

\* What a commit writes after it made room fits.
LEMMA PlannedWriteFits ==
  ASSUME UsageInv, HoldInv, MeasuresStand, Next, NEW p \in PromoIds, WriteEntry(p),
         promotions[p].eviction # 0, NEW ns, ns = promotions[p].target[1]
  PROVE  UsedBytes(ns)' <= quota[ns]
<1>1. PICK k : k = promotions[p].target /\ k[1] = ns
  OBVIOUS
<1>2. /\ promotions[p] \in Promotion /\ k \in Slots
      /\ PromotedEntry(p) \in Entry
  BY <1>1, AppliedType, PromotedEntryType DEF UsageInv, WriteEntry, Applying, NoTxn, Promotion
<1>3. LimitStands(p) /\ BaseStands(p) /\ ~ StillTooLarge(p)
  <2>1. Underway(p)
    BY DEF WriteEntry, Applying, Underway, HoldInv, CommittedLogsWritten, NoTxn
  <2> QED BY <2>1 DEF MeasuresStand, RoomStands, WriteEntry, Applying
<1>4. entries \in Tables /\ entries' \in Tables /\ FinitelyMany(entries)
  BY TablesType DEF UsageInv, FinitelyPublished
<1>5. PICK size \in Nat : size = SizeOf[promotions[p].digest]
  BY <1>2, ContentAssumption DEF Promotion
<1>6. UsedBytes(ns)' = UsedBytes(ns) - Charge(entries, k) + size
  <2>1. entries'[k] = PromotedEntry(p) /\ \A j \in Slots \ {k} : entries'[j] = entries[j]
    BY <1>1, <1>2, <1>4 DEF WriteEntry, Tables
  <2>2. entries'[k].version > 0 /\ entries'[k].digest = promotions[p].digest
    BY <1>2, <2>1 DEF PromotedEntry, Entry
  <2> QED BY <1>1, <1>2, <1>4, <1>5, <2>1, <2>2, UsageWritten, SumsOfTables
<1>7. Charge(entries, k) =
        IF promotions[p].base > 0 THEN SizeOf[promotions[p].baseDigest] ELSE 0
  BY <1>1, <1>3 DEF WriteEntry, TargetAtBase, BaseStands, Charge
<1>8. PICK used, charge, limit \in Nat :
        /\ used = UsedBytes(ns)
        /\ charge = Charge(entries, k)
        /\ limit = promotions[p].quota
  BY <1>2, <1>4, UsageType, UsageOfSlot DEF Promotion
<1>9. ~ (used - charge + size > limit)
  BY <1>1, <1>3, <1>5, <1>7, <1>8 DEF StillTooLarge
<1>10. used - charge + size <= limit
  BY <1>9
<1> QED BY <1>1, <1>3, <1>6, <1>8, <1>10 DEF LimitStands

\* A promotion that came with an eviction never brings its target above the limit,
\* wherever the process crashes between the measuring and the write; provided that no
\* write of the store fails, since a commit that does lets others in between
\* (applyPromotionLocked, resumePromotionTxns).
THEOREM PlannedPromotionsKeepLimit ==
  ASSUME NoWriteFails
  PROVE  Spec => PlannedPromotionsFit
<1>1. ASSUME UsageInv, HoldInv, MeasuresStand, [Next]_vars
      PROVE  [\A ns \in Namespaces :
                /\ quota[ns] > 0
                /\ UsedBytes(ns)' > UsedBytes(ns)
                /\ UsedBytes(ns)' > quota[ns]
                => \E p \in PromoIds : /\ applying = p
                                       /\ promotions[p].target[1] = ns
                                       /\ promotions[p].eviction = 0]_vars
  <2> SUFFICES ASSUME Next, NEW ns \in Namespaces,
                      quota[ns] > 0, UsedBytes(ns)' > UsedBytes(ns), UsedBytes(ns)' > quota[ns]
               PROVE  \E p \in PromoIds : /\ applying = p
                                          /\ promotions[p].target[1] = ns
                                          /\ promotions[p].eviction = 0
    BY <1>1
  <2>1. ~ (UsedBytes(ns)' <= quota[ns])
    <3>1. quota[ns] \in Int
      BY <1>1 DEF UsageInv, TypeInv, TypeOK, Unregistered
    <3>2. UsedBytes(ns)' \in Nat
      <4>1. entries' \in Tables /\ FinitelyMany(entries')
        BY <1>1, TablesType, FinitelyPublishedStep DEF UsageInv, FinitelyPublished
      <4> QED BY <4>1, HeldInHeld, SumType, SumsOfTables
    <3> QED BY <3>1, <3>2
  <2>2. PICK p \in PromoIds : WriteEntry(p) /\ promotions[p].target[1] = ns
    BY <1>1, <2>1, UsageStep
  <2>3. promotions[p].eviction = 0
    BY <1>1, <2>1, <2>2, PlannedWriteFits
  <2> QED BY <2>2, <2>3 DEF WriteEntry, Applying
<1> QED BY <1>1, UsageInvariant, HoldInvariant, MeasuresInvariant, PTL
        DEF Spec, PlannedPromotionsFit

-----------------------------------------------------------------------------
(* The order in which room is made.                                         *)

\* The entries of a namespace that could go are totally ordered by their use.
LEMMA UseOrder ==
  ASSUME TypeInv, NEW ns, NEW excluded
  PROVE  LET pool == Evictable(ns, excluded)
         IN  /\ \A k \in pool : ~ UsedBefore(k, k)
             /\ \A j, k \in pool : j # k => UsedBefore(j, k) \/ UsedBefore(k, j)
             /\ \A i, j, k \in pool : UsedBefore(i, j) /\ UsedBefore(j, k) => UsedBefore(i, k)
<1> DEFINE pool == Evictable(ns, excluded)
<1>1. ASSUME NEW k \in pool
      PROVE  /\ k \in Slots /\ k[1] = ns /\ k[2] \in Nat
             /\ entries[k].lastAccess \in Nat
  <2>1. k \in Slots /\ k[1] = ns /\ Published(k)
    BY DEF Evictable
  <2>2. k[2] \in Nat
    BY <2>1, NamesAssumption DEF Slots
  <2> QED BY <2>1, <2>2, PublishedType DEF TypeInv, Entry
<1>2. ASSUME NEW j \in pool, NEW k \in pool, j # k
      PROVE  j[2] # k[2]
  BY <1>1, <1>2 DEF Slots
<1>3. \A k \in pool : ~ UsedBefore(k, k)
  BY <1>1 DEF UsedBefore
<1>4. \A j, k \in pool : j # k => UsedBefore(j, k) \/ UsedBefore(k, j)
  BY <1>1, <1>2 DEF UsedBefore
<1>5. \A i, j, k \in pool : UsedBefore(i, j) /\ UsedBefore(j, k) => UsedBefore(i, k)
  BY <1>1 DEF UsedBefore
<1> QED BY <1>3, <1>4, <1>5

\* A finite set of entries that could go has one used last.
LEMMA LastUsed ==
  ASSUME TypeInv, NEW ns, NEW excluded, NEW V \in SUBSET Evictable(ns, excluded),
         IsFiniteSet(V), V # {}
  PROVE  \E last \in V : \A k \in V \ {last} : UsedBefore(k, last)
<1> DEFINE After(k) == {j \in V : UsedBefore(k, j)}
           Family == {After(k) : k \in V}
           R == StrictSubsetOrdering(V)
<1>1. IsWellFoundedOn(R, FiniteSubsetsOf(V))
  BY FS_StrictSubsetOrderingWellFounded
<1>2. Family \subseteq FiniteSubsetsOf(V) /\ Family # {}
  <2>1. \A k \in V : IsFiniteSet(After(k))
    BY FS_Subset
  <2> QED BY <2>1 DEF FiniteSubsetsOf
<1>3. PICK least \in Family : \A other \in Family : ~ (<<other, least>> \in R)
  BY <1>1, <1>2, WFMin
<1>4. PICK last \in V : least = After(last)
  OBVIOUS
<1>5. ASSUME NEW k \in V \ {last}
      PROVE  UsedBefore(k, last)
  <2>1. SUFFICES ASSUME UsedBefore(last, k)
                 PROVE  FALSE
    BY UseOrder
  <2>2. After(k) \subseteq After(last)
    BY <2>1, UseOrder
  <2>3. k \in After(last) /\ k \notin After(k)
    BY <2>1, UseOrder
  <2>4. <<After(k), After(last)>> \in R
    BY <2>2, <2>3 DEF StrictSubsetOrdering
  <2> QED BY <1>3, <1>4, <2>4
<1> QED BY <1>5

\* And one used first.
LEMMA FirstUsed ==
  ASSUME TypeInv, NEW ns, NEW excluded, NEW V \in SUBSET Evictable(ns, excluded),
         IsFiniteSet(V), V # {}
  PROVE  \E first \in V : \A k \in V \ {first} : UsedBefore(first, k)
<1> DEFINE Before(k) == {j \in V : UsedBefore(j, k)}
           Family == {Before(k) : k \in V}
           R == StrictSubsetOrdering(V)
<1>1. IsWellFoundedOn(R, FiniteSubsetsOf(V))
  BY FS_StrictSubsetOrderingWellFounded
<1>2. Family \subseteq FiniteSubsetsOf(V) /\ Family # {}
  <2>1. \A k \in V : IsFiniteSet(Before(k))
    BY FS_Subset
  <2> QED BY <2>1 DEF FiniteSubsetsOf
<1>3. PICK least \in Family : \A other \in Family : ~ (<<other, least>> \in R)
  BY <1>1, <1>2, WFMin
<1>4. PICK first \in V : least = Before(first)
  OBVIOUS
<1>5. ASSUME NEW k \in V \ {first}
      PROVE  UsedBefore(first, k)
  <2>1. SUFFICES ASSUME UsedBefore(k, first)
                 PROVE  FALSE
    BY UseOrder
  <2>2. Before(k) \subseteq Before(first)
    BY <2>1, UseOrder
  <2>3. k \in Before(first) /\ k \notin Before(k)
    BY <2>1, UseOrder
  <2>4. <<Before(k), Before(first)>> \in R
    BY <2>2, <2>3 DEF StrictSubsetOrdering
  <2> QED BY <1>3, <1>4, <2>4
<1> QED BY <1>5

\* What could go is finitely much, and so is every part of it.
LEMMA EvictableHeld ==
  ASSUME UsageInv, NEW ns, NEW excluded, NEW K \in SUBSET Evictable(ns, excluded)
  PROVE  Held(entries, K) /\ SumSizes(K) \in Nat
<1>1. entries \in Tables
  BY TablesType DEF UsageInv
<1>2. K \in SUBSET {k \in Slots : entries[k].version > 0}
  BY DEF Evictable, Published
<1>3. Held(entries, K)
  BY <1>2, FS_Subset DEF Held, UsageInv, FinitelyPublished, FinitelyMany
<1> QED BY <1>1, <1>3, SumType, SumsOfTables

\* A plan that does not reach the need takes all that could go.
LEMMA ShortPlanTakesAll ==
  ASSUME UsageInv, NEW ns, NEW need \in Nat, NEW excluded,
         SumSizes(Victims(ns, need, excluded)) < need
  PROVE  Victims(ns, need, excluded) = Evictable(ns, excluded)
<1> DEFINE pool == Evictable(ns, excluded)
           V == Victims(ns, need, excluded)
           Before(k) == {j \in pool : UsedBefore(j, k)}
<1>1. entries \in Tables /\ TypeInv
  BY TablesType DEF UsageInv
<1>2. V \in SUBSET pool
  BY DEF Victims
<1> SUFFICES ASSUME pool \ V # {}
             PROVE  FALSE
  BY <1>2
<1>3. IsFiniteSet(pool \ V)
  BY EvictableHeld DEF Held
<1>4. PICK first \in pool \ V : \A k \in (pool \ V) \ {first} : UsedBefore(first, k)
  BY <1>1, <1>3, FirstUsed
<1>5. Before(first) \in SUBSET V
  <2> SUFFICES ASSUME NEW j \in pool \ V, UsedBefore(j, first)
               PROVE  FALSE
    OBVIOUS
  <2>1. j # first
    BY <1>1, <1>4, UseOrder
  <2>2. UsedBefore(first, j)
    BY <1>4, <2>1
  <2>3. UsedBefore(first, first)
    BY <1>1, <1>4, <2>2, UseOrder
  <2> QED BY <1>1, <1>4, <2>3, UseOrder
<1>6. Held(entries, V) /\ SumSizes(V) \in Nat /\ SumSizes(Before(first)) \in Nat
  BY <1>2, EvictableHeld
<1>7. SumSizes(Before(first)) <= SumSizes(V)
  BY <1>1, <1>5, <1>6, SumMonotone, SumsOfTables
<1>8. ~ (SumSizes(Before(first)) < need)
  BY <1>4 DEF Victims
<1> QED BY <1>6, <1>7, <1>8

\* Of what could go, no more goes than is needed, and what was used longer ago first.
LEMMA VictimsAreLRU ==
  ASSUME UsageInv, NEW ns, NEW need \in Nat, NEW excluded
  PROVE  LET V == Victims(ns, need, excluded)
         IN  /\ \A k \in V, j \in Evictable(ns, excluded) \ V : UsedBefore(k, j)
             /\ V # {} => \E last \in V :
                  /\ \A k \in V \ {last} : UsedBefore(k, last)
                  /\ SumSizes(V \ {last}) < need
<1> DEFINE pool == Evictable(ns, excluded)
           V == Victims(ns, need, excluded)
           Before(k) == {j \in pool : UsedBefore(j, k)}
<1>1. entries \in Tables /\ TypeInv
  BY TablesType DEF UsageInv
<1>2. Held(entries, pool)
  <2>1. pool \in SUBSET {k \in Slots : entries[k].version > 0}
    BY DEF Evictable, Published
  <2> QED BY <2>1, FS_Subset DEF Held, UsageInv, FinitelyPublished, FinitelyMany
<1>3. ASSUME NEW k \in pool
      PROVE  /\ Held(entries, Before(k))
             /\ SumSizes(Before(k)) \in Nat
             /\ entries[k].lastAccess \in Nat
  <2>1. Held(entries, Before(k))
    BY <1>2, HeldPart
  <2>2. Published(k) /\ k \in Slots
    BY DEF Evictable
  <2>3. entries[k].lastAccess \in Nat
    BY <1>1, <2>2, PublishedType DEF TypeInv, Entry
  <2> QED BY <1>1, <2>1, <2>3, SumType, SumsOfTables
<1>4. V \in SUBSET pool
  BY DEF Victims
<1>5. ASSUME NEW k \in V, NEW j \in pool \ V, ~ UsedBefore(k, j)
      PROVE  FALSE
  <2>1. UsedBefore(j, k)
    BY <1>1, <1>4, <1>5, UseOrder
  <2>2. Before(j) \in SUBSET Before(k)
    BY <1>1, <1>4, <2>1, UseOrder
  <2>3. SumSizes(Before(j)) <= SumSizes(Before(k))
    BY <1>1, <1>3, <1>4, <2>2, SumMonotone, SumsOfTables
  <2>4. SumSizes(Before(k)) < need /\ ~ (SumSizes(Before(j)) < need)
    BY <1>4 DEF Victims
  <2> QED BY <1>3, <1>4, <2>3, <2>4
<1>6. ASSUME V # {}
      PROVE  \E last \in V :
               /\ \A k \in V \ {last} : UsedBefore(k, last)
               /\ SumSizes(V \ {last}) < need
  <2>1. IsFiniteSet(V)
    BY <1>2, <1>4, FS_Subset DEF Held
  <2>2. PICK last \in V : \A k \in V \ {last} : UsedBefore(k, last)
    BY <1>1, <1>4, <1>6, <2>1, LastUsed
  <2>4. V \ {last} \in SUBSET Before(last)
    BY <1>4, <2>2
  <2>5. SumSizes(V \ {last}) <= SumSizes(Before(last))
    BY <1>1, <1>3, <1>4, <2>4, SumMonotone, SumsOfTables
  <2>6. SumSizes(Before(last)) < need
    BY DEF Victims
  <2>7. SumSizes(V \ {last}) \in Nat
    <3>1. Held(entries, V \ {last})
      BY <1>3, <1>4, <2>4, HeldPart
    <3> QED BY <1>1, <3>1, SumType, SumsOfTables
  <2>8. SumSizes(V \ {last}) < need
    <3>1. SumSizes(Before(last)) \in Nat
      BY <1>3, <1>4
    <3> QED BY <2>5, <2>6, <2>7, <3>1
  <2> QED BY <2>2, <2>8
<1> QED BY <1>5, <1>6

\* The only step that records a decision as committed and publishes is a publication
\* that made room.
LEMMA RoomStep ==
  ASSUME TypeInv, Next, NEW id \in DecisionIds,
         decisions[id].status = "none", decisions'[id].status = "committed",
         NEW k \in Slots, entries'[k].version > entries[k].version
  PROVE  \E s \in SessionIds :
           /\ PublishesAfterEviction(s)
           /\ decisions'[id] = Committed(RoomDecision(s))
<1>1. entries' # entries /\ decisions' # decisions
  <2>1. entries[k].version \in Nat
    BY VersionType DEF TypeInv
  <2> QED BY <2>1
<1>2. ASSUME NEW D
      PROVE  entries' # Without(D)
  <2>1. entries[k].version \in Nat
    BY VersionType DEF TypeInv
  <2> QED BY <2>1 DEF Without, NoEntry
<1>3. CASE PublishStep
  <2>1. PICK s \in SessionIds, v \in ExpectedVersions :
          \/ Complete(s, v)
          \/ CompleteOverQuota(s, v)
          \/ CompleteUnclosed(s, v)
          \/ CompleteInterrupted(s, v)
    BY <1>3 DEF PublishStep
  <2>2. ~ CompleteOverQuota(s, v) /\ ~ CompleteInterrupted(s, v)
    BY <1>1, <1>2 DEF CompleteOverQuota, CompleteInterrupted
  <2>3. Publishable(s) /\ Publish(s, v)
    BY <2>1, <2>2 DEF Complete, CompleteUnclosed
  <2>4. PublishAfterEviction(s, v)
    BY <1>1, <2>3 DEF Publish, Reuse, PublishWithinQuota, evictionVars
  <2>5. RecordDecision(Committed(RoomDecision(s)))
    BY <2>4 DEF PublishAfterEviction
  <2>6. decisions'[id] = Committed(RoomDecision(s))
    BY <2>5 DEF RecordDecision, TypeInv, TypeOK
  <2> QED BY <2>3, <2>4, <2>6 DEF PublishesAfterEviction
<1>4. ~ ReadStep
  BY <1>1 DEF ReadStep, Read, evictionVars
<1>5. \A i \in DecisionIds : ~ CommitEviction(i) /\ ~ CommitEvictionInterrupted(i)
  BY <1>2 DEF CommitEviction, CommitEvictionInterrupted
<1>6. \A p \in PromoIds : ~ ApplyEviction(p) /\ ~ InterruptEviction(p) /\ ~ WriteEntry(p)
  BY <1>1, <1>2 DEF ApplyEviction, InterruptEviction, WriteEntry, evictionVars
<1> QED BY <1>1, <1>3, <1>4, <1>5, <1>6, EntrySteps

LEMMA MakingRoomStep ==
  ASSUME UsageInv, NEW s \in SessionIds, PublishesAfterEviction(s), NEW id \in DecisionIds,
         decisions'[id] = Committed(RoomDecision(s))
  PROVE  GoesInOrder(id)
<1>1. PICK slot, need, V :
        /\ slot = sessions[s].slot
        /\ need = Excess(s)
        /\ V = Victims(slot[1], need, {slot})
  OBVIOUS
<1> DEFINE gone == {k \in Slots : Evicted(k)}
           kept == {k \in Slots : /\ k[1] = decisions'[id].ns
                                  /\ Published(k) /\ ~ PinActive(k)
                                  /\ entries'[k] = entries[k]}
<1>2. decisions'[id].ns = slot[1] /\ decisions'[id].need = need
  BY <1>1 DEF Committed, RoomDecision, Plan
<1>3. Publishable(s) /\ need \in Nat
  BY <1>1 DEF PublishesAfterEviction, PublishAfterEviction, OverQuota
<1>4. /\ slot \in Slots /\ slot[1] \in Namespaces
      /\ entries' = [Without(V) EXCEPT ![slot] = NewEntry(s)]
      /\ NewEntry(s).version > 0
  BY <1>1, <1>3, PublicationWrites DEF UsageInv, Slots
<1>5. /\ V \in SUBSET HeldIn(entries, slot[1])
      /\ slot \notin V
  BY <1>1, <1>4, RoomTaken DEF UsageInv
<1>6. /\ entries'[slot] = NewEntry(s)
      /\ \A k \in Slots \ {slot} : entries'[k] = IF k \in V THEN NoEntry ELSE entries[k]
  BY <1>4 DEF Without
<1>7. gone = V
  <2>1. ASSUME NEW k \in gone
        PROVE  k \in V
    BY <1>4, <1>6 DEF Evicted, Published
  <2>2. ASSUME NEW k \in V
        PROVE  k \in gone
    BY <1>5, <1>6 DEF Evicted, Published, HeldIn, NoEntry
  <2> QED BY <2>1, <2>2
<1>8. kept \in SUBSET (Evictable(slot[1], {slot}) \ V)
  <2> SUFFICES ASSUME NEW k \in kept
               PROVE  k \in Evictable(slot[1], {slot}) /\ k \notin V
    OBVIOUS
  <2>1. k # slot
    <3>1. entries[slot].version \in Nat
      BY <1>4, VersionType DEF UsageInv, TypeInv
    <3>2. NewEntry(s).version = entries[slot].version + 1
      BY <1>1 DEF NewEntry
    <3>3. NewEntry(s).version # entries[slot].version
      BY <3>1, <3>2
    <3> QED BY <1>6, <3>3
  <2>2. k \notin V
    BY <1>6, <2>1 DEF Published, NoEntry
  <2> QED BY <1>2, <2>1, <2>2 DEF Evictable
<1>9. /\ \A k \in V, j \in Evictable(slot[1], {slot}) \ V : UsedBefore(k, j)
      /\ V # {} => \E last \in V :
           /\ \A k \in V \ {last} : UsedBefore(k, last)
           /\ SumSizes(V \ {last}) < need
  <2>1. PICK ns, others : ns = slot[1] /\ others = {slot}
    OBVIOUS
  <2>2. V = Victims(ns, need, others)
    BY <1>1, <2>1
  <2>3. /\ \A k \in V, j \in Evictable(ns, others) \ V : UsedBefore(k, j)
        /\ V # {} => \E last \in V :
             /\ \A k \in V \ {last} : UsedBefore(k, last)
             /\ SumSizes(V \ {last}) < need
    BY <1>3, <2>2, VictimsAreLRU
  <2> QED BY <2>1, <2>3
<1>10. \A k \in gone, j \in kept : UsedBefore(k, j)
  BY <1>7, <1>8, <1>9
<1>11. gone # {} =>
         \E last \in gone :
           /\ \A k \in gone \ {last} : UsedBefore(k, last)
           /\ SumSizes(gone \ {last}) < decisions'[id].need
  BY <1>2, <1>7, <1>9
<1> QED BY <1>10, <1>11 DEF GoesInOrder, UsedBefore

\* A publication that makes room takes what was used longest ago, and no more than it
\* needs: without the last of those evicted it would not have fitted.
THEOREM RoomIsMadeInLRUOrder == Spec => MakingRoomIsLRU
<1>1. ASSUME UsageInv, [Next]_vars
      PROVE  [\A id \in DecisionIds :
                /\ decisions[id].status = "none" /\ decisions'[id].status = "committed"
                /\ \E k \in Slots : entries'[k].version > entries[k].version
                => GoesInOrder(id)]_vars
  <2>1. CASE UNCHANGED vars
    BY <2>1
  <2>2. CASE Next
    <3> SUFFICES ASSUME NEW id \in DecisionIds,
                        decisions[id].status = "none", decisions'[id].status = "committed",
                        NEW j \in Slots, entries'[j].version > entries[j].version
                 PROVE  GoesInOrder(id)
      OBVIOUS
    <3>1. PICK s \in SessionIds :
            /\ PublishesAfterEviction(s)
            /\ decisions'[id] = Committed(RoomDecision(s))
      BY <1>1, <2>2, RoomStep DEF UsageInv
    <3> QED BY <1>1, <3>1, MakingRoomStep
  <2> QED BY <1>1, <2>1, <2>2
<1> QED BY <1>1, UsageInvariant, PTL DEF Spec, MakingRoomIsLRU

LEMMA RefusalStep ==
  ASSUME UsageInv, NEW s \in SessionIds, NEW v, CompleteOverQuota(s, v),
         NEW slot, slot = sessions[s].slot
  PROVE  SizeOf[sessions[s].artifact]
           + SumSizes({k \in Slots \ {slot} :
                         k[1] = slot[1] /\ Published(k) /\ PinActive(k)})
         > quota[slot[1]]
<1>1. PICK ns, others, need, limit, V, staying :
        /\ ns = slot[1] /\ others = {slot} /\ need = Excess(s) /\ limit = quota[slot[1]]
        /\ V = Victims(ns, need, others)
        /\ staying = {k \in Slots \ {slot} : k[1] = slot[1] /\ Published(k) /\ PinActive(k)}
  OBVIOUS
<1>2. Publishable(s) /\ OverQuota(s) /\ need \in Nat
  BY <1>1 DEF CompleteOverQuota, OverQuota
<1>3. sessions[s] \in Session /\ slot \in Slots /\ ns \in Namespaces
  BY <1>1, <1>2, OpenSessionType DEF UsageInv, TypeInv, Publishable
<1>4. PICK size \in Nat : size = SizeOf[sessions[s].artifact]
  BY <1>3, ContentAssumption DEF Session
<1>5. limit \in Nat
  BY <1>1, <1>2, <1>3 DEF OverQuota, UsageInv, TypeInv, TypeOK, Unregistered
<1>6. SumSizes(V) < need
  <2>1. FreedBytes(Committed(RoomDecision(s))) < need
    BY <1>1 DEF CompleteOverQuota
  <2>2. Deleted(Committed(RoomDecision(s))) = V
    BY <1>1, <1>3, RoomTaken DEF RoomDecision, UsageInv
  <2> QED BY <2>1, <2>2 DEF FreedBytes
<1>7. V = Evictable(ns, others)
  BY <1>1, <1>2, <1>6, ShortPlanTakesAll
<1>8. PICK H : H = HeldIn(entries, ns) \ {slot}
  OBVIOUS
<1>9. V \in SUBSET H /\ staying = H \ V
  BY <1>1, <1>7, <1>8 DEF Evictable, HeldIn, Published
<1>10. entries \in Tables /\ FinitelyMany(entries)
  BY TablesType DEF UsageInv, FinitelyPublished
<1>11. Held(entries, H) /\ Held(entries, V) /\ Held(entries, staying)
  <2>1. Held(entries, HeldIn(entries, ns)) /\ H \in SUBSET HeldIn(entries, ns)
    BY <1>8, <1>10, HeldInHeld
  <2>2. Held(entries, H)
    BY <2>1, HeldPart
  <2> QED BY <1>9, <2>2, HeldPart
<1>12. PICK rest, freed, kept, charge \in Nat :
         /\ rest = SumSizes(H) /\ freed = SumSizes(V) /\ kept = SumSizes(staying)
         /\ charge = Charge(entries, slot)
  BY <1>3, <1>10, <1>11, SumType, SumsOfTables, UsageOfSlot
<1>13. rest = freed + kept
  BY <1>9, <1>10, <1>11, <1>12, SumSplit, SumsOfTables
<1>14. UsedBytes(ns) = charge + rest
  BY <1>1, <1>3, <1>8, <1>10, <1>12, UsageOfSlot, SumsOfTables
<1>15. need = UsedBytes(ns) - charge + size - limit
  BY <1>1, <1>4, <1>12 DEF Excess, Charge, Published
<1>16. freed < charge + (freed + kept) - charge + size - limit
  BY <1>6, <1>12, <1>13, <1>14, <1>15
<1>17. size + kept > limit
  BY <1>5, <1>16
<1> QED BY <1>1, <1>4, <1>12, <1>17

\* A publication is refused for lack of room only if it does not fit beside what is
\* pinned: the plan stops short of the need only when nothing is left to take
\* (planEvictionLocked, enforceQuotaLocked).
THEOREM RefusalsLeaveNoRoom == Spec => RefusedOnlyWithoutRoom
<1>1. ASSUME UsageInv
      PROVE  [\A s \in SessionIds, v \in ExpectedVersions :
                CompleteOverQuota(s, v) =>
                  LET slot == sessions[s].slot
                      staying == {k \in Slots \ {slot} :
                                    k[1] = slot[1] /\ Published(k) /\ PinActive(k)}
                  IN  SizeOf[sessions[s].artifact] + SumSizes(staying) > quota[slot[1]]]_vars
  BY <1>1, RefusalStep
<1> QED BY <1>1, UsageInvariant, PTL DEF Spec, RefusedOnlyWithoutRoom
=============================================================================
