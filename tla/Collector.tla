----------------------------- MODULE Collector -----------------------------
(***************************************************************************)
(* The mark-and-sweep collector (cache.go: CollectGarbage, buildLiveSet,   *)
(* deathReason, sweepSessionLocked, sweepExpiredPinsLocked).  One run:     *)
(* delete dead session records, expire overdue leases, mark the blobs still*)
(* referenced, delete the others.                                          *)
(***************************************************************************)
EXTENDS CacheState

(* The roots: every published entry, every live session, every active lease, *)
(* and the snapshot of every promotion that is still prepared.               *)

EntryBlobs  == UNION {Chunks(entries[k].manifest) : k \in {x \in Slots : Published(x)}}
UploadBlobs == UNION {ReceivedBlobs(s) : s \in {x \in SessionIds : SessionLive(x)}}
LeaseBlobs  == UNION {Chunks(pins[k].manifest) : k \in {x \in Slots : PinActive(x)}}

PromotionBlobs == UNION {Chunks(promotions[p].manifest) : p \in {x \in PromoIds : Prepared(x)}}

\* Mutants: one kind of root is forgotten, or leases stay roots when they end.
LiveWithoutEntries    == UploadBlobs \cup LeaseBlobs \cup PromotionBlobs
LiveWithoutUploads    == EntryBlobs \cup LeaseBlobs \cup PromotionBlobs
LiveWithoutLeases     == EntryBlobs \cup UploadBlobs \cup PromotionBlobs
LiveWithoutPromotions == EntryBlobs \cup UploadBlobs \cup LeaseBlobs
LiveWithEndedLeases ==
  EntryBlobs \cup UploadBlobs \cup PromotionBlobs
    \cup UNION {Chunks(pins[k].manifest) : k \in {x \in Slots : pins[x].version > 0}}

LiveBlobs == EntryBlobs \cup UploadBlobs \cup LeaseBlobs \cup PromotionBlobs

Garbage == blobs \ LiveBlobs

\* The sweeps end only sessions and leases that are no roots, so the set marked
\* after them is the set of roots before them.
CollectGarbage ==
  /\ ForgetSessions(DeadSessions)
  /\ ExpirePins(OverduePins)
  /\ blobs' = blobs \ Garbage
  /\ UNCHANGED <<now, quotaVars, entries, pinReqs, evictionVars>>

\* A failing write ends the run in one of its three phases; sessions, leases and
\* blobs are listed in no order the model knows.
CollectGarbageInterrupted ==
  /\ "store" \in Faults
  /\ \/ /\ \E D \in SUBSET DeadSessions : ForgetSessions(D)
        /\ UNCHANGED <<pins, blobs>>
     \/ /\ ForgetSessions(DeadSessions)
        /\ \E K \in SUBSET OverduePins : ExpirePins(K)
        /\ UNCHANGED blobs
     \/ /\ ForgetSessions(DeadSessions)
        /\ ExpirePins(OverduePins)
        /\ \E B \in SUBSET Garbage : blobs' = blobs \ B
  /\ UNCHANGED <<now, quotaVars, entries, pinReqs, evictionVars>>
=============================================================================
