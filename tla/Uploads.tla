------------------------------ MODULE Uploads ------------------------------
(***************************************************************************)
(* Upload sessions, publication and reads (cache.go: CreateSession,        *)
(* UploadChunk, RenewSession, Complete and publish, Cancel, SweepExpired,  *)
(* Read).                                                                  *)
(***************************************************************************)
EXTENDS Eviction

-----------------------------------------------------------------------------
(* Sessions. *)

IdemSlot(slot, key) == <<slot[1], key>>

\* A repeated idempotency key is answered from the index, without a new session,
\* as long as the session it names is live.
IdemAnswered(slot, key) ==
  /\ key # NoIdem
  /\ idem[IdemSlot(slot, key)] # NoSession
  /\ SessionLive(idem[IdemSlot(slot, key)])

NewSession(slot, key, artifact, manifest, lease) ==
  [slot |-> slot, idem |-> key, artifact |-> artifact, manifest |-> manifest,
   received |-> {}, expiresAt |-> now + lease, status |-> "open"]

CreateSession(s, slot, key, artifact, manifest, lease) ==
  /\ sessions[s].status = "unused"
  /\ Registered(slot[1])
  /\ ~ IdemAnswered(slot, key)
  /\ sessions' = [sessions EXCEPT ![s] = NewSession(slot, key, artifact, manifest, lease)]
  /\ idem' = IF key = NoIdem THEN idem
             ELSE [idem EXCEPT ![IdemSlot(slot, key)] = s]
  /\ UNCHANGED <<now, blobs, quotaVars, entries, leaseVars, evictionVars>>

\* SaveSession fails after the stale index entry was dropped.
CreateSessionInterrupted(slot, key) ==
  /\ "store" \in Faults
  /\ Registered(slot[1])
  /\ key # NoIdem
  /\ ~ IdemAnswered(slot, key)
  /\ idem' = [idem EXCEPT ![IdemSlot(slot, key)] = NoSession]
  /\ UNCHANGED <<now, blobs, quotaVars, sessions, entries, leaseVars, evictionVars>>

\* The chunk is declared, has the declared digest and has not arrived yet.
Uploadable(s, i) ==
  /\ SessionLive(s)
  /\ i \in DOMAIN sessions[s].manifest \ sessions[s].received

UploadChunk(s, i) ==
  /\ Uploadable(s, i)
  /\ blobs' = blobs \cup {sessions[s].manifest[i]}
  /\ sessions' = [sessions EXCEPT ![s].received = @ \cup {i}]
  /\ UNCHANGED <<now, quotaVars, entries, idem, leaseVars, evictionVars>>

\* The blob is stored, the session record that would protect it is not.
UploadChunkInterrupted(s, i) ==
  /\ "store" \in Faults
  /\ Uploadable(s, i)
  /\ blobs' = blobs \cup {sessions[s].manifest[i]}
  /\ UNCHANGED <<now, quotaVars, entries, uploadVars, leaseVars, evictionVars>>

\* Mutant: only the status is checked, not the lease.
RenewSessionAnyLease(s, lease) ==
  /\ sessions[s].status = "open"
  /\ sessions' = [sessions EXCEPT ![s].expiresAt = now + lease]
  /\ UNCHANGED <<now, blobs, quotaVars, entries, idem, leaseVars, evictionVars>>

RenewSession(s, lease) ==
  /\ SessionLive(s)
  /\ sessions' = [sessions EXCEPT ![s].expiresAt = now + lease]
  /\ UNCHANGED <<now, blobs, quotaVars, entries, idem, leaseVars, evictionVars>>

\* The index entry of the session's key is dropped whatever session it names.
DropIdem(s) ==
  idem' = IF sessions[s].idem = NoIdem THEN idem
          ELSE [idem EXCEPT ![IdemSlot(sessions[s].slot, sessions[s].idem)] = NoSession]

Cancel(s) ==
  /\ SessionLive(s)
  /\ sessions' = [sessions EXCEPT ![s].status = "canceled"]
  /\ DropIdem(s)
  /\ UNCHANGED <<now, blobs, quotaVars, entries, leaseVars, evictionVars>>

SweepExpired ==
  /\ ForgetSessions(DeadSessions)
  /\ UNCHANGED <<now, blobs, quotaVars, entries, leaseVars, evictionVars>>

\* Sessions are listed in the order of their random ids, so those swept before a
\* failing delete may be any of the dead ones.
SweepExpiredInterrupted ==
  /\ "store" \in Faults
  /\ \E D \in SUBSET DeadSessions : ForgetSessions(D)
  /\ UNCHANGED <<now, blobs, quotaVars, entries, leaseVars, evictionVars>>

-----------------------------------------------------------------------------
(* Publication. *)

\* Mutant: the final digest is not compared.
PublishableUnchecked(s) ==
  /\ SessionLive(s)
  /\ sessions[s].received = DOMAIN sessions[s].manifest
  /\ Chunks(sessions[s].manifest) \subseteq blobs
  /\ Registered(sessions[s].slot[1])

\* All chunks arrived, and the stored blobs concatenate to the declared artifact.
Publishable(s) ==
  /\ SessionLive(s)
  /\ sessions[s].received = DOMAIN sessions[s].manifest
  /\ Chunks(sessions[s].manifest) \subseteq blobs
  /\ ArtifactOf[sessions[s].manifest] = sessions[s].artifact
  /\ Registered(sessions[s].slot[1])

SameContent(s) ==
  LET e == entries[sessions[s].slot]
  IN  Published(sessions[s].slot) /\ e.digest = sessions[s].artifact

\* A free slot takes a new entry; an entry with other content is replaced only
\* by a request that names its version.
VersionAllows(s, expected) ==
  LET k == sessions[s].slot
  IN  IF Published(k) THEN expected = entries[k].version
                      ELSE expected \in {AnyVersion, 0}

NewEntry(s) ==
  [version |-> entries[sessions[s].slot].version + 1, digest |-> sessions[s].artifact,
   manifest |-> sessions[s].manifest, lastAccess |-> now, origin |-> NoOrigin]

\* The bytes by which publishing the session would exceed a limited quota.
Excess(s) ==
  LET k == sessions[s].slot
      replaced == IF Published(k) THEN SizeOf[entries[k].digest] ELSE 0
  IN  UsedBytes(k[1]) - replaced + SizeOf[sessions[s].artifact] - quota[k[1]]

OverQuota(s) == quota[sessions[s].slot[1]] > 0 /\ Excess(s) \in Nat \ {0}

\* The plan enforceQuotaLocked makes and at once commits: never the slot itself.
RoomDecision(s) == Plan(sessions[s].slot[1], Excess(s), {sessions[s].slot})

Reuse(s) ==
  /\ SameContent(s)
  /\ entries' = [entries EXCEPT ![sessions[s].slot].lastAccess = now]
  /\ UNCHANGED evictionVars

PublishWithinQuota(s, expected) ==
  /\ ~ SameContent(s)
  /\ VersionAllows(s, expected)
  /\ ~ OverQuota(s)
  /\ entries' = [entries EXCEPT ![sessions[s].slot] = NewEntry(s)]
  /\ UNCHANGED evictionVars

\* Mutant: what the eviction freed is not compared with the need.
PublishAfterAnyEviction(s, expected) ==
  /\ ~ SameContent(s)
  /\ VersionAllows(s, expected)
  /\ OverQuota(s)
  /\ LET d == Committed(RoomDecision(s))
     IN  /\ RecordDecision(d)
         /\ entries' = [Without(Deleted(d)) EXCEPT ![sessions[s].slot] = NewEntry(s)]

PublishAfterEviction(s, expected) ==
  /\ ~ SameContent(s)
  /\ VersionAllows(s, expected)
  /\ OverQuota(s)
  /\ LET d == Committed(RoomDecision(s))
     IN  /\ FreedBytes(d) >= Excess(s)
         /\ RecordDecision(d)
         /\ entries' = [Without(Deleted(d)) EXCEPT ![sessions[s].slot] = NewEntry(s)]

Publish(s, expected) ==
  \/ Reuse(s)
  \/ PublishWithinQuota(s, expected)
  \/ PublishAfterEviction(s, expected)

\* Complete: publish, delete the session record, drop its index entry.
Complete(s, expected) ==
  /\ Publishable(s)
  /\ Publish(s, expected)
  /\ sessions' = [sessions EXCEPT ![s] = Gone]
  /\ DropIdem(s)
  /\ UNCHANGED <<now, blobs, quotaVars, leaseVars>>

\* The eviction is committed before it is compared with the need, so a publish
\* that fails with QuotaExceededError has deleted every unpinned entry.
CompleteOverQuota(s, expected) ==
  /\ Publishable(s)
  /\ ~ SameContent(s)
  /\ VersionAllows(s, expected)
  /\ OverQuota(s)
  /\ LET d == Committed(RoomDecision(s))
     IN  /\ FreedBytes(d) < Excess(s)
         /\ RecordDecision(d)
         /\ entries' = Without(Deleted(d))
  /\ UNCHANGED <<now, blobs, quotaVars, uploadVars, leaseVars>>

\* DeleteSession fails: the entry is published, the session stays open.
CompleteUnclosed(s, expected) ==
  /\ "store" \in Faults
  /\ Publishable(s)
  /\ Publish(s, expected)
  /\ UNCHANGED <<now, blobs, quotaVars, uploadVars, leaseVars>>

\* Eviction for room stops at a failing write: the plan is recorded and some
\* victims are gone, or all are gone and PutEntry fails.
CompleteInterrupted(s, expected) ==
  /\ "store" \in Faults
  /\ Publishable(s)
  /\ ~ SameContent(s)
  /\ VersionAllows(s, expected)
  /\ OverQuota(s)
  /\ LET plan == RoomDecision(s)
     IN  \/ /\ RecordDecision(plan)
            /\ \/ UNCHANGED entries
               \/ \E last \in plan.candidates : entries' = Without(DeletedUpTo(plan, last))
         \/ /\ RecordDecision(Committed(plan))
            /\ entries' = Without(Deleted(Committed(plan)))
  /\ UNCHANGED <<now, blobs, quotaVars, uploadVars, leaseVars>>

-----------------------------------------------------------------------------
(* Reads. *)

\* A hit moves the entry's last access time up to now.
Read(k) ==
  /\ Published(k)
  /\ entries' = [entries EXCEPT ![k].lastAccess = IF @ < now THEN now ELSE @]
  /\ UNCHANGED <<now, blobs, quotaVars, uploadVars, leaseVars, evictionVars>>
=============================================================================
