----------------------------- MODULE BuildCache -----------------------------
(***************************************************************************)
(* The build cache service: uploads, eviction, pinning, promotion and      *)
(* collection over one state, the clock, and restarts of the process.      *)
(***************************************************************************)
EXTENDS Uploads, Pinning, Promoting, Queries

Init ==
  /\ now = 0
  /\ blobs = {}
  /\ quota = InitialQuota
  /\ quotaSetAt = [ns \in Namespaces |-> 0]
  /\ sessions = [s \in SessionIds |-> Unused]
  /\ entries = [k \in Slots |-> NoEntry]
  /\ pins = [k \in Slots |-> NoPin]
  /\ pinReqs = [r \in RequestIds |-> NoRequest]
  /\ decisions = [i \in DecisionIds |-> NoDecision]
  /\ idem = [c \in Namespaces \X IdemKeys |-> NoSession]
  /\ evictSeq = 0
  /\ promotions = [p \in PromoIds |-> NoPromotion]
  /\ promoTxns = [p \in PromoIds |-> NoTxn]
  /\ promoReqs = [r \in RequestIds |-> 0]
  /\ promoSeq = 0
  /\ applying = 0
  /\ mode = "serving"

\* A handler reads the clock once, so it does not move under the mutex.
Tick ==
  /\ applying = 0
  /\ now < MaxTime
  /\ now' = now + 1
  /\ UNCHANGED <<blobs, entries, quotaVars, uploadVars, leaseVars, evictionVars, promotionVars>>

-----------------------------------------------------------------------------
(* Restart: restoreIndex rebuilds the in-memory indexes from the store, and *)
(* the daemon applies its quota flag to the default namespace.              *)

\* Any open session of the key may end up in the index: they are listed in the
\* order of their random ids and the last one wins.  Leases are not looked at.
RestorableSessions(c) ==
  {s \in SessionIds : /\ sessions[s].status = "open"
                      /\ <<sessions[s].slot[1], sessions[s].idem>> = c}

RestoreIdem ==
  /\ idem' \in [Namespaces \X IdemKeys -> SessionIds \cup {NoSession}]
  /\ \A c \in Namespaces \X IdemKeys :
       IF RestorableSessions(c) = {} THEN idem'[c] = NoSession
                                     ELSE idem'[c] \in RestorableSessions(c)

Recorded(n) == n \in DecisionIds /\ decisions[n].status # "none"

\* Mutant: the numbering of decisions starts over.
ResetEvictSeq == evictSeq' = 0

RestoreEvictSeq ==
  /\ evictSeq' \in 0 .. MaxDecisions
  /\ evictSeq' > 0 => Recorded(evictSeq')
  /\ \A n \in DecisionIds : Recorded(n) => n <= evictSeq'

RestorePromoSeq ==
  /\ promoSeq' \in 0 .. MaxPromotions
  /\ promoSeq' > 0 => promotions[promoSeq'].status # "none"
  /\ \A p \in PromoIds : promotions[p].status # "none" => p <= promoSeq'

\* The process crashes wherever it is and starts again.
Restart ==
  /\ "restart" \in Faults
  /\ RestoreIdem
  /\ RestoreEvictSeq
  /\ RestorePromoSeq
  /\ quota' = [quota EXCEPT ![DefaultNamespace] = IF @ = Unregistered THEN 0 ELSE @]
  /\ quotaSetAt' = [quotaSetAt EXCEPT ![DefaultNamespace] =
                      IF quota[DefaultNamespace] = Unregistered THEN now ELSE @]
  /\ mode' = "starting"
  /\ applying' = 0
  /\ UNCHANGED <<now, blobs, entries, sessions, leaseVars, decisions,
                 promotions, promoTxns, promoReqs>>

\* Once New has returned the daemon applies its quota flag, if it has one, and ends
\* when that fails.
StartServing ==
  /\ FinishStart
  /\ \/ /\ mode' = "serving"
        /\ IF StartupQuota > 0
           THEN /\ quota' = [quota EXCEPT ![DefaultNamespace] = StartupQuota]
                /\ quotaSetAt' = [quotaSetAt EXCEPT ![DefaultNamespace] = now]
           ELSE UNCHANGED quotaVars
     \/ /\ "store" \in Faults /\ StartupQuota > 0
        /\ mode' = "down"
        /\ UNCHANGED quotaVars

-----------------------------------------------------------------------------

ExpectedVersions == {AnyVersion} \cup 0 .. Cardinality(SessionIds)

UploadStep ==
  \/ \E s \in SessionIds, upload \in UploadRequests, key \in IdemKeys \cup {NoIdem},
        l \in SessionLeases :
       CreateSession(s, upload[1], key, upload[2], upload[3], l)
  \/ \E k \in Slots, key \in IdemKeys : CreateSessionInterrupted(k, key)
  \/ \E s \in SessionIds, i \in UNION {DOMAIN m : m \in Manifests} :
       UploadChunk(s, i) \/ UploadChunkInterrupted(s, i)
  \/ \E s \in SessionIds, l \in SessionLeases : RenewSession(s, l)
  \/ \E s \in SessionIds : Cancel(s)
  \/ SweepExpired
  \/ SweepExpiredInterrupted

PublishStep ==
  \E s \in SessionIds, v \in ExpectedVersions :
    \/ Complete(s, v)
    \/ CompleteOverQuota(s, v)
    \/ CompleteUnclosed(s, v)
    \/ CompleteInterrupted(s, v)

ReadStep == \E k \in Slots : Read(k)

NamespaceStep ==
  \E ns \in Namespaces :
    \/ \E max \in QuotaChoices : SetNamespaceQuota(ns, max)
    \/ DeleteNamespace(ns)
    \/ DeleteNamespaceInterrupted(ns)

EvictionStep ==
  \/ \E ns \in Namespaces, need \in EvictionNeeds : PlanEviction(ns, need)
  \/ \E ns \in Namespaces : PlanEvictionInterrupted(ns)
  \/ \E id \in DecisionIds : CommitEviction(id) \/ CommitEvictionInterrupted(id)

PinStep ==
  \/ \E k \in Slots, in \in PinInputs, r \in RequestIds \cup {NoRequestId} :
       \/ PinEntry(k, in, r)
       \/ PinEntryInterrupted(k, in, r)
       \/ RenewPin(k, in, r)
       \/ RenewPinInterrupted(k, in, r)
       \/ Unpin(k, in, r)
       \/ UnpinInterrupted(k, in, r)
  \/ SweepExpiredPins
  \/ SweepExpiredPinsInterrupted

CollectStep == CollectGarbage \/ CollectGarbageInterrupted

\* The requests that run as one action each.
CacheStep ==
  /\ Idle
  /\ \/ UploadStep
     \/ PublishStep
     \/ ReadStep
     \/ NamespaceStep
     \/ EvictionStep
     \/ PinStep
     \/ CollectStep
  /\ UNCHANGED promotionVars

PrepareStep ==
  \E route \in PromotionRoutes, m \in PromotionModes, r \in RequestIds \cup {NoRequestId} :
    \/ PreparePromotion(route[1], route[2], m, r)
    \/ PreparePromotionUnrecorded(route[1], route[2], m, r)
    \/ PreparePromotionRefused(route[1], route[2], m, r)

\* The steps that end with the mutex released unless a write fails.
ApplyStep ==
  \E p \in PromoIds :
    \/ ApplyEviction(p)
    \/ ConfirmRoom(p)
    \/ WriteEntry(p)
    \/ ConfirmEntry(p)
    \/ RecordCommitted(p)
    \/ RecordCommittedRequest(p)
    \/ CloseLog(p)
    \/ FailCommit(p)

\* A write of the commit in hand fails, at its beginning or within its eviction.
InterruptStep ==
  /\ "store" \in Faults
  /\ InterruptCommit \/ \E p \in PromoIds : InterruptEviction(p)

PromotionStep ==
  \/ PrepareStep
  \/ \E p \in PromoIds :
       \/ BeginCommit(p)
       \/ ResumeCommit(p)
       \/ RejectCommit(p)
       \/ FailCommitKeepingLog(p)
  \/ ApplyStep
  \/ InterruptStep

StartStep == StartServing \/ \E p \in PromoIds : RecoverCommit(p)

Next ==
  \/ CacheStep
  \/ PromotionStep
  \/ StartStep
  \/ Tick
  \/ Restart

Spec == Init /\ [][Next]_vars

\* The daemon runs the collector from a ticker; a handler that holds the mutex and
\* a process that starts go on.
FairSpec ==
  /\ Spec
  /\ WF_vars(Idle /\ CollectGarbage /\ UNCHANGED promotionVars)
  /\ WF_vars(ApplyStep)
  /\ WF_vars(StartStep)

-----------------------------------------------------------------------------
(* Safety. *)

\* What readers are promised: every published entry can be read back to the end,
\* and its blobs concatenate to the content its digest names.  No interleaving of
\* uploads, overwrites, evictions, lease ends and collections may break it.
PublishedReadable ==
  \A k \in Slots : Published(k) =>
    /\ Chunks(entries[k].manifest) \subseteq blobs
    /\ ArtifactOf[entries[k].manifest] = entries[k].digest

\* What uploaders, lease holders and promotions are promised: the collector keeps
\* every chunk acknowledged to a live session, and the snapshot of every active
\* lease and prepared promotion even after its entry was overwritten or evicted.
ProtectedBlobsStored ==
  /\ \A s \in SessionIds : SessionLive(s) => ReceivedBlobs(s) \subseteq blobs
  /\ \A k \in Slots : PinActive(k) => Chunks(pins[k].manifest) \subseteq blobs
  /\ \A p \in PromoIds : Prepared(p) => Chunks(promotions[p].manifest) \subseteq blobs

\* A pinned key stays published as long as the lease is active: neither quota
\* pressure nor a plan made before the pin evicts it, and it is only ever
\* overwritten by later versions.
PinnedEntryKept ==
  \A k \in Slots : PinActive(k) =>
    /\ Published(k)
    /\ entries[k].version >= pins[k].entryVersion
    /\ entries[k].version = pins[k].entryVersion => entries[k].digest = pins[k].digest

\* An idempotency key never names two sessions a client could both complete.
IdemKeyNamesOneSession ==
  \A s, t \in SessionIds :
    /\ SessionLive(s) /\ SessionLive(t)
    /\ sessions[s].idem # NoIdem
    /\ sessions[s].idem = sessions[t].idem
    /\ sessions[s].slot[1] = sessions[t].slot[1]
    => s = t

\* Decision numbers survive restarts: the next number to be issued is above
\* every recorded decision, so a plan never overwrites another.
DecisionIdsFresh == \A n \in DecisionIds : Recorded(n) => n <= evictSeq

\* Two recorded requests on one key never produced the same lease version: the
\* version a holder was given identifies its lease.
LeaseVersionsIssuedOnce ==
  \A q, r \in RequestIds :
    /\ q # r
    /\ pinReqs[q].action # "none" /\ pinReqs[r].action # "none"
    /\ pinReqs[q].slot = pinReqs[r].slot
    => pinReqs[q].result.version # pinReqs[r].result.version

\* Whatever a commit went through, a promotion that needed room is recorded as
\* committed only with its eviction committed, and its redo log never says that
\* room was made before it was.
CommittedPromotionMadeRoom ==
  \A p \in PromoIds :
    promotions[p].status = "committed" \/ promoTxns[p] \in {"eviction_committed", "entry_written"}
    => RoomMade(p)

-----------------------------------------------------------------------------
(* Action properties: what a step may never do. *)

\* A step that brings a namespace with a limit to a higher usage leaves it within
\* the limit: publication makes room first, whatever was planned, pinned or read
\* in between.
UsageGrowsWithinQuota ==
  [][\A ns \in Namespaces :
       quota[ns] > 0 /\ UsedBytes(ns)' > UsedBytes(ns) => UsedBytes(ns)' <= quota[ns]]_vars

\* A promotion that was prepared with an eviction measures the room again after it, so
\* that through crashes and whatever took the room meanwhile only one that saw enough
\* room when it was prepared can bring its target above the limit.
PlannedPromotionsFit ==
  [][\A ns \in Namespaces :
       /\ quota[ns] > 0
       /\ UsedBytes(ns)' > UsedBytes(ns)
       /\ UsedBytes(ns)' > quota[ns]
       => \E p \in PromoIds : /\ applying = p
                              /\ promotions[p].target[1] = ns
                              /\ promotions[p].eviction = 0]_vars

Evicted(k) == Published(k) /\ ~ Published(k)'

\* An entry disappears only under a recorded decision that names it exactly as it
\* was at that moment, content, version and last access; never one read,
\* republished or pinned since the plan.
EvictionMatchesDecision ==
  [][\A k \in Slots : Evicted(k) =>
       /\ ~ PinActive(k)
       /\ \E id \in DecisionIds :
            /\ decisions'[id].status # "none"
            /\ \E c \in decisions'[id].candidates :
                 /\ c.slot = k
                 /\ c.version = entries[k].version
                 /\ c.digest = entries[k].digest
                 /\ c.lastAccess = entries[k].lastAccess]_vars

\* What goes with decision id was used before all that stays, or as long ago and has the
\* lesser key; and all of it is needed.
GoesInOrder(id) ==
  LET gone == {k \in Slots : Evicted(k)}
      kept == {k \in Slots : /\ k[1] = decisions'[id].ns
                             /\ Published(k) /\ ~ PinActive(k)
                             /\ entries'[k] = entries[k]}
      Sooner(k, j) ==
        \/ entries[k].lastAccess < entries[j].lastAccess
        \/ entries[k].lastAccess = entries[j].lastAccess /\ k[2] < j[2]
  IN  /\ \A k \in gone, j \in kept : Sooner(k, j)
      /\ gone # {} =>
           \E last \in gone :
             /\ \A k \in gone \ {last} : Sooner(k, last)
             /\ SumSizes(gone \ {last}) < decisions'[id].need

\* Between two entries of one namespace that a publication could evict, the one
\* used longer ago goes first, of two used at the same moment the one with the lesser
\* key, and no more go than the publication needs: without the last of those evicted
\* it would not have fitted.
MakingRoomIsLRU ==
  [][\A id \in DecisionIds :
       /\ decisions[id].status = "none" /\ decisions'[id].status = "committed"
       /\ \E k \in Slots : entries'[k].version > entries[k].version
       => GoesInOrder(id)]_vars

\* A publish is refused for lack of room only if it would not fit though everything
\* were evicted but what is pinned: the plan never stops short of what could be freed.
RefusedOnlyWithoutRoom ==
  [][\A s \in SessionIds, v \in ExpectedVersions :
       CompleteOverQuota(s, v) =>
         LET slot == sessions[s].slot
             staying == {k \in Slots \ {slot} : k[1] = slot[1] /\ Published(k) /\ PinActive(k)}
         IN  SizeOf[sessions[s].artifact] + SumSizes(staying) > quota[slot[1]]]_vars

\* A publish that is refused for lack of quota deletes nothing.
RefusedPublishKeepsEntries ==
  [][\A id \in DecisionIds :
       decisions[id].status = "none" /\ decisions'[id].status = "committed"
       /\ (\E k \in Slots : Evicted(k))
       => \E k \in Slots : entries'[k].version > entries[k].version]_vars

\* The outcome of a committed decision is never rewritten.
CommittedDecisionsFinal ==
  [][\A id \in DecisionIds :
       decisions[id].status = "committed" => decisions'[id] = decisions[id]]_vars

\* A session that was canceled, deleted or outlived its lease is never live again.
SessionsNeverRevive ==
  [][\A s \in SessionIds :
       sessions[s].status # "unused" /\ ~ SessionLive(s) => ~ SessionLive(s)']_vars

\* Protection begins only with what is published: a lease that was not active
\* becomes active only as a new version holding a snapshot of the present entry.
LeaseBeginsOnPublished ==
  [][\A k \in Slots :
       ~ PinActive(k) /\ PinActive(k)' =>
         /\ pins'[k].version > pins[k].version
         /\ pins'[k].entryVersion = entries[k].version
         /\ pins'[k].manifest = entries[k].manifest]_vars

\* The references the service reports of a blob explain what the collector does: a
\* blob is deleted only if none of them is active (BlobReferences, buildLiveSet and
\* deathReason go through the store separately).
ReferencesExplainCollection ==
  [][\A b \in blobs : b \notin blobs' => ActiveReferences(b) = {} /\ ~ InUse(b)]_vars

\* What a published slot holds changes only to the next version: a commit that was
\* interrupted and taken up later never overwrites what was published meanwhile.
EntryVersionsGrow ==
  [][\A k \in Slots : Published(k) /\ Published(k)' =>
       \/ entries'[k].version = entries[k].version + 1
       \/ /\ entries'[k].version = entries[k].version
          /\ entries'[k].digest = entries[k].digest
          /\ entries'[k].manifest = entries[k].manifest]_vars

\* A promotion that was recorded as committed or failed keeps that outcome.
PromotionOutcomeFinal ==
  [][\A p \in PromoIds :
       promotions[p].status \in {"committed", "failed"} => promotions'[p] = promotions[p]]_vars

\* The writes the commit in hand has still to do if none fails (applyPromotionLocked).
StepsLeft ==
  CASE applying = 0 -> 0
    [] Applying(applying, "committing") -> IF RoomMade(applying) THEN 6 ELSE 7
    [] Applying(applying, "eviction_committed") -> IF EntryPresent(applying) THEN 4 ELSE 5
    [] Applying(applying, "entry_written") ->
         IF promotions[applying].status # "committed" THEN 3
         ELSE IF RequestRecorded(applying) THEN 1 ELSE 2
    [] OTHER -> 0

\* Nothing comes between the steps of a commit, and each brings it nearer to its end,
\* whatever an earlier attempt had done: what it has written it recognises as written,
\* so that it neither repeats a write nor waits.
CommitAdvances ==
  [][applying # 0 /\ applying' = applying => StepsLeft' < StepsLeft]_vars

\* Every change of a lease is a new version of it.
LeaseVersionsGrow ==
  [][\A k \in Slots : pins'[k] # pins[k] => pins'[k].version > pins[k].version]_vars

-----------------------------------------------------------------------------
(* What clients see of the state, and the contract the service keeps with them. *)

OnShelf ==
  [k \in Slots |-> IF Published(k)
                   THEN [version |-> entries[k].version, manifest |-> entries[k].manifest]
                   ELSE NoEntry]

KeptByLease ==
  [k \in Slots |-> IF PinActive(k)
                   THEN [version |-> pins[k].entryVersion, manifest |-> pins[k].manifest]
                   ELSE NoEntry]

Clients == INSTANCE CacheContract WITH shelf <- OnShelf, kept <- KeptByLease, stored <- blobs

\* Every handler, interrupted or not, every step of a promotion's commit, tick of the
\* clock and restart is one step of the contract or invisible to clients.
KeepsCacheContract == Clients!Spec

-----------------------------------------------------------------------------
(* Liveness. *)

\* The process answers and is not killed again.
KeepsServing == <>[](mode = "serving")

\* While the service runs no blob stays in the store for good without a reference:
\* abandoned uploads, replaced content and ended leases are all reclaimed, whatever
\* crashes came before.
GarbageIsCollected ==
  KeepsServing => \A b \in Blobs : []<>(b \in blobs => InUse(b))

\* A commit that wrote its redo log comes to an end with an outcome, by itself or,
\* after a crash, when the service starts again.
CommitsEnd ==
  KeepsServing =>
    \A p \in PromoIds :
      promoTxns[p] # NoTxn ~> promoTxns[p] = NoTxn /\ promotions[p].status \in {"committed", "failed"}

\* An unfinished commit may end the start of the service, but not every start: if the
\* process is started again each time its start has ended and is not killed in
\* between, it gets to answer (resumePromotionTxns, failPromotionLocked).
ServesAgain ==
  /\ <>[][Restart => mode = "down"]_vars
  /\ mode = "down" ~> mode = "starting"
  => []<>(mode = "serving")
=============================================================================
