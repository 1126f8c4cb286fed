----------------------------- MODULE Promoting -----------------------------
(***************************************************************************)
(* Promotion of a published entry into another namespace (promotion.go).   *)
(* Preparing freezes the source entry, the target's quota and version, and *)
(* the eviction that would make room.  Committing re-checks all of it and  *)
(* then evicts, writes the target entry and records the outcome, under a   *)
(* redo log from which a restart goes on.  Promote is a prepare and a      *)
(* commit with nothing in between, one of the orders the two steps allow.  *)
(***************************************************************************)
EXTENDS Eviction

-----------------------------------------------------------------------------
(* Prepare. *)

\* An id already recorded is answered with the promotion it names, or refused as
\* a conflict; either way nothing changes.
FreshPromotionRequest(r) == r # NoRequestId => promoReqs[r] = 0

Uploading(k) == \E s \in SessionIds : SessionLive(s) /\ sessions[s].slot = k

Promotable(source, target, m, r) ==
  /\ FreshPromotionRequest(r)
  /\ Registered(source[1]) /\ Registered(target[1])
  /\ ~ Uploading(source)
  /\ Published(source)
  /\ Published(target) => m = "replace" /\ entries[target].digest # entries[source].digest
  /\ promoSeq < MaxPromotions

\* The bytes by which the promotion would exceed a limited quota of the target.
PromotionExcess(source, target) ==
  LET replaced == IF Published(target) THEN SizeOf[entries[target].digest] ELSE 0
  IN  UsedBytes(target[1]) - replaced + SizeOf[entries[source].digest] - quota[target[1]]

NeedsRoom(source, target) == quota[target[1]] > 0 /\ PromotionExcess(source, target) \in Nat \ {0}

\* Entries that hold a chunk of the source are spared, and so is the target.
SharesChunks(source) ==
  {k \in Slots : /\ Published(k)
                 /\ Chunks(entries[k].manifest) \cap Chunks(entries[source].manifest) # {}}

RoomPlan(source, target) ==
  Plan(target[1], PromotionExcess(source, target), {target} \cup SharesChunks(source))

Freeable(d) == SumSizes({c.slot : c \in d.candidates})

\* The frozen promotion; eviction is the number of its decision, or 0.
Frozen(source, target, m, r, eviction) ==
  [request |-> r, source |-> source, version |-> entries[source].version,
   digest |-> entries[source].digest, manifest |-> entries[source].manifest,
   target |-> target, mode |-> m, base |-> entries[target].version,
   baseDigest |-> IF Published(target) THEN entries[target].digest ELSE NoDigest,
   quota |-> quota[target[1]], quotaSetAt |-> quotaSetAt[target[1]],
   eviction |-> eviction, status |-> "prepared"]

\* SavePromotion, under the next number, with its plan if it needs one.
SavePrepared(source, target, m, r) ==
  /\ promoSeq' = promoSeq + 1
  /\ IF NeedsRoom(source, target)
     THEN LET plan == RoomPlan(source, target)
          IN  /\ Freeable(plan) >= PromotionExcess(source, target)
              /\ RecordDecision(plan)
              /\ promotions' = [promotions EXCEPT ![promoSeq + 1] =
                                  Frozen(source, target, m, r, evictSeq + 1)]
     ELSE /\ promotions' = [promotions EXCEPT ![promoSeq + 1] =
                              Frozen(source, target, m, r, 0)]
          /\ UNCHANGED evictionVars

PreparePromotion(source, target, m, r) ==
  /\ Idle
  /\ Promotable(source, target, m, r)
  /\ SavePrepared(source, target, m, r)
  /\ promoReqs' = IF r = NoRequestId THEN promoReqs
                  ELSE [promoReqs EXCEPT ![r] = promoSeq + 1]
  /\ UNCHANGED <<now, blobs, entries, quotaVars, uploadVars, leaseVars, promoTxns, applying, mode>>

\* SavePromotionRequest fails: the caller sees an error, the promotion exists.
PreparePromotionUnrecorded(source, target, m, r) ==
  /\ "store" \in Faults
  /\ r # NoRequestId
  /\ Idle
  /\ Promotable(source, target, m, r)
  /\ SavePrepared(source, target, m, r)
  /\ UNCHANGED <<now, blobs, entries, quotaVars, uploadVars, leaseVars,
                 promoTxns, promoReqs, applying, mode>>

\* The plan does not free enough, or a write fails before the promotion is saved:
\* the numbers are used up, and a plan already saved stays a proposed decision.
PreparePromotionRefused(source, target, m, r) ==
  /\ Idle
  /\ Promotable(source, target, m, r)
  /\ promoSeq' = promoSeq + 1
  /\ \/ /\ NeedsRoom(source, target)
        /\ LET plan == RoomPlan(source, target)
           IN  /\ "store" \in Faults \/ Freeable(plan) < PromotionExcess(source, target)
               /\ RecordDecision(plan)
     \/ /\ "store" \in Faults
        /\ IF NeedsRoom(source, target)
           THEN evictSeq < MaxDecisions /\ evictSeq' = evictSeq + 1
           ELSE UNCHANGED evictSeq
        /\ UNCHANGED decisions
  /\ UNCHANGED <<now, blobs, entries, quotaVars, uploadVars, leaseVars,
                 promotions, promoTxns, promoReqs, applying, mode>>

-----------------------------------------------------------------------------
(* What a commit re-checks. *)

OriginOf(p) == [request |-> promotions[p].request, source |-> promotions[p].source,
                version |-> promotions[p].version, digest |-> promotions[p].digest]

\* A source deleted since prepare is no change: the snapshot stands in for it.
SourceChanged(p) ==
  LET e == entries[promotions[p].source]
  IN  /\ Published(promotions[p].source)
      /\ e.version # promotions[p].version \/ e.digest # promotions[p].digest

QuotaChanged(p) ==
  LET ns == promotions[p].target[1]
  IN  quota[ns] # promotions[p].quota \/ quotaSetAt[ns] # promotions[p].quotaSetAt

TargetChanged(p) ==
  LET e == entries[promotions[p].target]
  IN  IF Published(promotions[p].target)
      THEN /\ ~ (e.origin = OriginOf(p) /\ e.digest = promotions[p].digest)
           /\ e.version # promotions[p].base \/ e.digest # promotions[p].baseDigest
      ELSE promotions[p].base # 0

\* One candidate read, pinned, republished or gone makes the whole plan stale.
EvictionStale(p) ==
  /\ promotions[p].eviction # 0
  /\ \E c \in decisions[promotions[p].eviction].candidates : Recheck(c) # "deleted"

\* The source is looked at first; a target namespace that is gone is then an error
\* that leaves the promotion prepared.
Stale(p) ==
  \/ SourceChanged(p)
  \/ /\ Registered(promotions[p].target[1])
     /\ QuotaChanged(p) \/ TargetChanged(p) \/ EvictionStale(p)

-----------------------------------------------------------------------------
(* Commit: one action per write, under the mutex.  A commit whose redo log    *)
(* exists has begun and is continued without a re-check.                      *)

\* Mutant: a promotion that failed is taken for one that is prepared.
BeginCommitOfFailed(p) ==
  /\ Idle
  /\ promotions[p].status \in {"prepared", "failed"}
  /\ promoTxns[p] = NoTxn
  /\ Registered(promotions[p].target[1])
  /\ ~ Stale(p)
  /\ promoTxns' = [promoTxns EXCEPT ![p] = "committing"]
  /\ applying' = p
  /\ UNCHANGED <<now, blobs, entries, quotaVars, uploadVars, leaseVars, evictionVars,
                 promotions, promoReqs, promoSeq, mode>>

\* Mutant: the validation does not ask for the target's namespace.
BeginCommitAnywhere(p) ==
  /\ Idle
  /\ Prepared(p)
  /\ promoTxns[p] = NoTxn
  /\ ~ Stale(p)
  /\ promoTxns' = [promoTxns EXCEPT ![p] = "committing"]
  /\ applying' = p
  /\ UNCHANGED <<now, blobs, entries, quotaVars, uploadVars, leaseVars, evictionVars,
                 promotions, promoReqs, promoSeq, mode>>

BeginCommit(p) ==
  /\ Idle
  /\ Prepared(p)
  /\ promoTxns[p] = NoTxn
  /\ Registered(promotions[p].target[1])
  /\ ~ Stale(p)
  /\ promoTxns' = [promoTxns EXCEPT ![p] = "committing"]
  /\ applying' = p
  /\ UNCHANGED <<now, blobs, entries, quotaVars, uploadVars, leaseVars, evictionVars,
                 promotions, promoReqs, promoSeq, mode>>

ResumeCommit(p) ==
  /\ Idle
  /\ Prepared(p)
  /\ promoTxns[p] # NoTxn
  /\ applying' = p
  /\ UNCHANGED <<now, blobs, entries, quotaVars, uploadVars, leaseVars, evictionVars,
                 promotions, promoTxns, promoReqs, promoSeq, mode>>

\* The outcome is written to the promotion, then its request is recorded again.
SetOutcome(p, outcome) == promotions' = [promotions EXCEPT ![p].status = outcome]

RequestRecorded(p) ==
  promotions[p].request # NoRequestId => promoReqs[promotions[p].request] = p

RecordRequest(p) ==
  promoReqs' = IF promotions[p].request = NoRequestId THEN promoReqs
               ELSE [promoReqs EXCEPT ![promotions[p].request] = p]

\* A stale promotion fails before anything was touched.
RejectCommit(p) ==
  /\ Idle
  /\ Prepared(p)
  /\ promoTxns[p] = NoTxn
  /\ Stale(p)
  /\ SetOutcome(p, "failed")
  /\ RecordRequest(p) \/ ("store" \in Faults /\ UNCHANGED promoReqs)
  /\ UNCHANGED <<now, blobs, entries, quotaVars, uploadVars, leaseVars, evictionVars,
                 promoTxns, promoSeq, applying, mode>>

Applying(p, phase) == applying = p /\ promoTxns[p] = phase

RoomMade(p) ==
  promotions[p].eviction # 0 => decisions[promotions[p].eviction].status = "committed"

ApplyEviction(p) ==
  /\ Applying(p, "committing")
  /\ ~ RoomMade(p)
  /\ LET id == promotions[p].eviction
         d  == Committed(decisions[id])
     IN  /\ decisions' = [decisions EXCEPT ![id] = d]
         /\ entries' = Without(Deleted(d))
  /\ UNCHANGED <<now, blobs, quotaVars, uploadVars, leaseVars, evictSeq, promotionVars>>

\* Mutant: what else the target holds is not counted.
StillTooLargeAlone(p) ==
  promotions[p].eviction # 0 /\ SizeOf[promotions[p].digest] > promotions[p].quota

\* Usage is looked at again only when the promotion came with an eviction, and
\* against the quota frozen at prepare.
StillTooLarge(p) ==
  LET pr == promotions[p]
      replaced == IF pr.base > 0 THEN SizeOf[pr.baseDigest] ELSE 0
  IN  /\ pr.eviction # 0
      /\ UsedBytes(pr.target[1]) - replaced + SizeOf[pr.digest] > pr.quota

\* Mutant: the log says room was made before it was.
ConfirmRoomUnmade(p) ==
  /\ Applying(p, "committing")
  /\ ~ StillTooLarge(p)
  /\ promoTxns' = [promoTxns EXCEPT ![p] = "eviction_committed"]
  /\ UNCHANGED <<now, blobs, entries, quotaVars, uploadVars, leaseVars, evictionVars,
                 promotions, promoReqs, promoSeq, applying, mode>>

ConfirmRoom(p) ==
  /\ Applying(p, "committing")
  /\ RoomMade(p)
  /\ ~ StillTooLarge(p)
  /\ promoTxns' = [promoTxns EXCEPT ![p] = "eviction_committed"]
  /\ UNCHANGED <<now, blobs, entries, quotaVars, uploadVars, leaseVars, evictionVars,
                 promotions, promoReqs, promoSeq, applying, mode>>

\* Mutant: what was written is looked for at the version the target had before.
EntryPresentAtBase(p) ==
  LET e == entries[promotions[p].target]
  IN  /\ Published(promotions[p].target)
      /\ e.digest = promotions[p].digest
      /\ e.version = promotions[p].base

\* The target holds what this promotion wrote before it was interrupted.
EntryPresent(p) ==
  LET e == entries[promotions[p].target]
  IN  /\ Published(promotions[p].target)
      /\ e.digest = promotions[p].digest
      /\ e.origin.version > 0
      /\ e.origin.source = promotions[p].source
      /\ e.origin.request = promotions[p].request

\* Mutant: the target is written without a condition.
TargetAtAnyVersion(p) == p \in PromoIds

\* PutEntry's condition: the target is as it was when the promotion was prepared.
TargetAtBase(p) == entries[promotions[p].target].version = promotions[p].base

PromotedEntry(p) ==
  [version |-> promotions[p].base + 1, digest |-> promotions[p].digest,
   manifest |-> promotions[p].manifest, lastAccess |-> now, origin |-> OriginOf(p)]

WriteEntry(p) ==
  /\ Applying(p, "eviction_committed")
  /\ ~ EntryPresent(p)
  /\ TargetAtBase(p)
  /\ entries' = [entries EXCEPT ![promotions[p].target] = PromotedEntry(p)]
  /\ UNCHANGED <<now, blobs, quotaVars, uploadVars, leaseVars, evictionVars, promotionVars>>

\* Mutant: the log says that the entry is written before it is.
ConfirmEntryUnwritten(p) ==
  /\ Applying(p, "eviction_committed")
  /\ EntryPresent(p) \/ TargetAtBase(p)
  /\ promoTxns' = [promoTxns EXCEPT ![p] = "entry_written"]
  /\ UNCHANGED <<now, blobs, entries, quotaVars, uploadVars, leaseVars, evictionVars,
                 promotions, promoReqs, promoSeq, applying, mode>>

ConfirmEntry(p) ==
  /\ Applying(p, "eviction_committed")
  /\ EntryPresent(p)
  /\ promoTxns' = [promoTxns EXCEPT ![p] = "entry_written"]
  /\ UNCHANGED <<now, blobs, entries, quotaVars, uploadVars, leaseVars, evictionVars,
                 promotions, promoReqs, promoSeq, applying, mode>>

\* The status the promotion had when its commit was taken up does not matter: one
\* that is recorded as failed but still has a redo log is committed all the same.
RecordCommitted(p) ==
  /\ Applying(p, "entry_written")
  /\ promotions[p].status # "committed"
  /\ SetOutcome(p, "committed")
  /\ UNCHANGED <<now, blobs, entries, quotaVars, uploadVars, leaseVars, evictionVars,
                 promoTxns, promoReqs, promoSeq, applying, mode>>

RecordCommittedRequest(p) ==
  /\ Applying(p, "entry_written")
  /\ promotions[p].status = "committed"
  /\ ~ RequestRecorded(p)
  /\ RecordRequest(p)
  /\ UNCHANGED <<now, blobs, entries, quotaVars, uploadVars, leaseVars, evictionVars,
                 promotions, promoTxns, promoSeq, applying, mode>>

\* While the process starts, an error of a commit ends it.
EndedStart == mode' = IF mode = "starting" THEN "down" ELSE mode

\* DeletePromotionTxn, after which the commit returns; with an error if its audit
\* record cannot be appended any more.
CloseLog(p) ==
  /\ Applying(p, "entry_written")
  /\ promotions[p].status = "committed"
  /\ RequestRecorded(p)
  /\ promoTxns' = [promoTxns EXCEPT ![p] = NoTxn]
  /\ applying' = 0
  /\ UNCHANGED mode \/ ("store" \in Faults /\ EndedStart)
  /\ UNCHANGED <<now, blobs, entries, quotaVars, uploadVars, leaseVars, evictionVars,
                 promotions, promoReqs, promoSeq>>

\* Mutant: usage that leaves no room is not an error.
CannotApplyToTarget(p) ==
  Applying(p, "eviction_committed") /\ ~ EntryPresent(p) /\ ~ TargetAtBase(p)

\* A begun commit that finds no room, or the target overwritten, fails.
CannotApply(p) ==
  \/ Applying(p, "committing") /\ RoomMade(p) /\ StillTooLarge(p)
  \/ Applying(p, "eviction_committed") /\ ~ EntryPresent(p) /\ ~ TargetAtBase(p)

\* Mutant: the redo log of a commit that fails is left to the next start.
FailCommitLeavingLog(p) ==
  /\ CannotApply(p)
  /\ SetOutcome(p, "failed")
  /\ RecordRequest(p)
  /\ applying' = 0
  /\ EndedStart
  /\ UNCHANGED <<now, blobs, entries, quotaVars, uploadVars, leaseVars, evictionVars,
                 promoTxns, promoSeq>>

\* The outcome is recorded, the redo log deleted and the commit returns an error.
FailCommit(p) ==
  /\ CannotApply(p)
  /\ SetOutcome(p, "failed")
  /\ RecordRequest(p)
  /\ promoTxns' = [promoTxns EXCEPT ![p] = NoTxn]
  /\ applying' = 0
  /\ EndedStart
  /\ UNCHANGED <<now, blobs, entries, quotaVars, uploadVars, leaseVars, evictionVars, promoSeq>>

\* The outcome is recorded and the redo log stays: its delete failed, which is
\* ignored, or the request record failed before it, or the process crashed here.
FailCommitKeepingLog(p) ==
  /\ "log" \in Faults
  /\ CannotApply(p)
  /\ SetOutcome(p, "failed")
  /\ RecordRequest(p) \/ UNCHANGED promoReqs
  /\ applying' = 0
  /\ EndedStart
  /\ UNCHANGED <<now, blobs, entries, quotaVars, uploadVars, leaseVars, evictionVars,
                 promoTxns, promoSeq>>

\* A write of a commit fails: the mutex is released and the log stays.
InterruptCommit ==
  /\ applying # 0
  /\ applying' = 0
  /\ EndedStart
  /\ UNCHANGED <<now, blobs, entries, quotaVars, uploadVars, leaseVars, evictionVars,
                 promotions, promoTxns, promoReqs, promoSeq>>

\* The eviction of a commit deletes some candidates and then fails.
InterruptEviction(p) ==
  /\ Applying(p, "committing")
  /\ ~ RoomMade(p)
  /\ \E last \in decisions[promotions[p].eviction].candidates :
       entries' = Without(DeletedUpTo(decisions[promotions[p].eviction], last))
  /\ applying' = 0
  /\ EndedStart
  /\ UNCHANGED <<now, blobs, quotaVars, uploadVars, leaseVars, evictionVars,
                 promotions, promoTxns, promoReqs, promoSeq>>

-----------------------------------------------------------------------------
(* Start-up: resumePromotionTxns goes through the redo logs before the        *)
(* service answers.                                                           *)

Unfinished == {p \in PromoIds : promoTxns[p] # NoTxn /\ promotions[p].status # "committed"}

RecoverCommit(p) ==
  /\ mode = "starting"
  /\ applying = 0
  /\ p \in Unfinished
  /\ applying' = p
  /\ UNCHANGED <<now, blobs, entries, quotaVars, uploadVars, leaseVars, evictionVars,
                 promotions, promoTxns, promoReqs, promoSeq, mode>>

\* Logs of committed promotions are deleted; an error of that is ignored and leaves
\* the log to the next start.  The quotas and whether the service answers are left to
\* the daemon.
FinishStart ==
  /\ mode = "starting"
  /\ applying = 0
  /\ Unfinished = {}
  /\ \E kept \in SUBSET PromoIds :
       /\ kept # {} => "store" \in Faults
       /\ promoTxns' = [p \in PromoIds |-> IF p \in kept THEN promoTxns[p] ELSE NoTxn]
  /\ UNCHANGED <<now, blobs, entries, uploadVars, leaseVars, evictionVars,
                 promotions, promoReqs, promoSeq, applying>>
=============================================================================
