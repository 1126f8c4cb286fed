------------------------------ MODULE Queries ------------------------------
(***************************************************************************)
(* What the service answers about its own state without changing it: the   *)
(* references of a blob (cache.go: blobReferencesLocked, also the body of  *)
(* GetPromotionDetail), each with whether it is active, and the reason the *)
(* collector gives for a blob (deathReason).  They and the collector's mark*)
(* (buildLiveSet) go through the same objects, each in its own way.        *)
(***************************************************************************)
EXTENDS Collector

Reference(kind, holder, active) == [kind |-> kind, holder |-> holder, active |-> active]

EntryReferences(b) ==
  {Reference("entry", k, TRUE) : k \in {x \in Slots : Published(x) /\ b \in Chunks(entries[x].manifest)}}

\* Every session that received the blob is reported, ended or not.
SessionReferences(b) ==
  {Reference("session", s, SessionLive(s)) :
     s \in {x \in SessionIds : sessions[x].status \notin {"unused", "gone"} /\ b \in ReceivedBlobs(x)}}

\* And so is every lease that holds it.
PinReferences(b) ==
  {Reference("pin", k, PinActive(k)) :
     k \in {x \in Slots : pins[x].version > 0 /\ b \in Chunks(pins[x].manifest)}}

PromotionReferences(b) ==
  {Reference("promotion", p, TRUE) :
     p \in {x \in PromoIds : Prepared(x) /\ b \in Chunks(promotions[x].manifest)}}

BlobReferences(b) ==
  EntryReferences(b) \cup SessionReferences(b) \cup PinReferences(b) \cup PromotionReferences(b)

ActiveReferences(b) == {r \in BlobReferences(b) : r.active}

\* deathReason is empty, so the collector spares a blob it has not marked.
InUse(b) ==
  \/ \E k \in Slots : Published(k) /\ b \in Chunks(entries[k].manifest)
  \/ \E s \in SessionIds : SessionLive(s) /\ b \in ReceivedBlobs(s)
  \/ \E k \in Slots : PinActive(k) /\ b \in Chunks(pins[k].manifest)
  \/ \E p \in PromoIds : Prepared(p) /\ b \in Chunks(promotions[p].manifest)
=============================================================================
