----------------------------- MODULE CacheState -----------------------------
(***************************************************************************)
(* The state of the build cache service (cache.go, model.go, store.go): the*)
(* maps its Store persists, the in-memory indexes the Cache keeps beside   *)
(* them, the clock every lease is judged by, and the operators on that     *)
(* state which more than one component uses.                               *)
(*                                                                         *)
(* Every handler of the Cache holds one mutex from its first read to its   *)
(* last write, so a handler is one action.  What a handler leaves behind   *)
(* when a write to the store fails half-way is an action of its own        *)
(* (...Interrupted), enabled when "store" \in Faults; a crash is such an   *)
(* interruption followed by Restart.  Only the commit of a promotion, which*)
(* writes a redo log, is taken apart into its writes; `applying` then names*)
(* the promotion whose commit holds the mutex.                             *)
(*                                                                         *)
(* Data abstraction.  A blob stands for its content and its digest.  A     *)
(* manifest is the sequence of blobs a client cuts an artifact into, and   *)
(* ArtifactOf[m] is the artifact (hence the final digest) that the blobs of*)
(* m concatenate to.  A slot is a cache key in a namespace; keys are       *)
(* numbers because eviction breaks ties by key order.                      *)
(***************************************************************************)
EXTENDS Integers, FiniteSets, Sequences

CONSTANTS
  Namespaces,        \* namespace names
  DefaultNamespace,  \* the namespace every start-up makes sure of
  Keys,              \* cache keys
  SessionIds,        \* upload session ids; each is issued at most once
  IdemKeys,          \* idempotency keys clients may send
  RequestIds,        \* request ids clients may send with pin operations
  Blobs,             \* chunk contents
  Manifests,         \* the chunkings clients declare, sequences of blobs
  Artifacts,         \* artifact contents
  ArtifactOf,        \* the artifact a manifest concatenates to
  SizeOf,            \* the size of an artifact in bytes
  InitialQuota,      \* the quota of each namespace when the run starts
  QuotaChoices,      \* quotas an operator may set; 0 means no limit
  StartupQuota,      \* the -default-quota flag of the daemon; 0 means unset
  RemovableNamespaces, \* the namespaces an operator may delete
  UploadRequests,    \* the uploads clients may declare: slot, artifact, manifest
  SessionLeases,     \* lease durations of sessions
  DefaultPinTTL,     \* lease duration of a pin request that gives none
  PinInputs,         \* parameters of pin, renew and unpin requests
  EvictionNeeds,     \* byte counts asked of a manual eviction plan
  PromotionRoutes,   \* pairs of source and target slots clients may promote along
  PromotionModes,    \* the modes they may ask for
  Faults,            \* which of "restart", "store" and "log" may happen
  MaxTime,           \* bound: the clock stops here
  MaxPinVersion,     \* bound: pin requests stop at this lease version
  MaxDecisions,      \* bound: number of eviction decisions
  MaxPromotions      \* bound: number of promotions

NoIdem       == ""   \* an empty idempotency key: no idempotency asked
NoRequestId  == ""   \* an empty request id: the request is not recorded
NoSession    == ""   \* the idempotency index has no such key
NoDigest     == ""   \* ExpectedDigest left empty
AnyVersion   == -1   \* ExpectedVersion left nil
Unregistered == -1   \* the namespace does not exist

Slots == Namespaces \X Keys

PinInput == [deadline : Nat, ttl : Nat,
             digest : Artifacts \cup {NoDigest}, expected : Nat \cup {AnyVersion}]

ASSUME NamesAssumption ==
  /\ DefaultNamespace \in Namespaces
  /\ Keys \subseteq Nat
  /\ NoIdem \notin IdemKeys
  /\ NoRequestId \notin RequestIds
  /\ NoSession \notin SessionIds
  /\ NoDigest \notin Artifacts

ASSUME ContentAssumption ==
  /\ Manifests \subseteq Seq(Blobs)
  /\ <<>> \notin Manifests
  /\ ArtifactOf \in [Manifests -> Artifacts]
  /\ SizeOf \in [Artifacts -> Nat \ {0}]

ASSUME ParameterAssumption ==
  /\ InitialQuota \in [Namespaces -> Nat \cup {Unregistered}]
  /\ QuotaChoices \subseteq Nat
  /\ StartupQuota \in Nat
  /\ RemovableNamespaces \subseteq Namespaces
  /\ UploadRequests \subseteq Slots \X Artifacts \X Manifests
  /\ SessionLeases \subseteq Nat \ {0}
  /\ DefaultPinTTL \in Nat \ {0}
  /\ PinInputs \subseteq PinInput
  /\ EvictionNeeds \subseteq Nat \ {0}
  /\ PromotionRoutes \subseteq {route \in Slots \X Slots : route[1] # route[2]}
  /\ PromotionModes \subseteq {"copy", "replace"}
  /\ Faults \subseteq {"restart", "store", "log"}
  /\ MaxTime \in Nat
  /\ MaxPinVersion \in Nat
  /\ MaxDecisions \in Nat
  /\ MaxPromotions \in Nat

VARIABLES
  now,        \* Clock.Now()
  blobs,      \* the content-addressed blob store
  quota,      \* namespaces: MaxBytes, or Unregistered
  quotaSetAt, \* namespaces: UpdatedAt
  sessions,   \* upload sessions
  entries,    \* published entries
  pins,       \* pin leases
  pinReqs,    \* recorded pin requests (persisted and indexed in memory alike)
  decisions,  \* eviction decisions
  promotions, \* promotions and their outcome
  promoTxns,  \* the redo log: the phase of each promotion whose commit has begun
  promoReqs,  \* recorded promotion requests
  idem,       \* in memory: (namespace, idempotency key) -> session id
  evictSeq,   \* in memory: the last eviction decision number issued
  promoSeq,   \* in memory: the last promotion number issued
  applying,   \* the promotion whose commit holds the mutex, or 0
  mode        \* the process: "serving", "starting" or "down"

quotaVars     == <<quota, quotaSetAt>>
uploadVars    == <<sessions, idem>>
leaseVars     == <<pins, pinReqs>>
evictionVars  == <<decisions, evictSeq>>
promotionVars == <<promotions, promoTxns, promoReqs, promoSeq, applying, mode>>

vars == <<now, blobs, entries, quotaVars, uploadVars, leaseVars, evictionVars, promotionVars>>

\* No commit of a promotion is under way and the service answers requests.
Idle == mode = "serving" /\ applying = 0

-----------------------------------------------------------------------------
(* Records. *)

Session == [slot : Slots, idem : IdemKeys \cup {NoIdem}, artifact : Artifacts,
            manifest : Manifests, received : SUBSET Nat, expiresAt : Nat,
            status : {"open", "canceled"}]
Unused == [status |-> "unused"]   \* the id has not been issued yet
Gone   == [status |-> "gone"]     \* the record was deleted

Origin == [request : RequestIds \cup {NoRequestId}, source : Slots,
           version : Nat \ {0}, digest : Artifacts]
NoOrigin == [version |-> 0]   \* not promoted

Entry == [version : Nat \ {0}, digest : Artifacts, manifest : Manifests,
          lastAccess : Nat, origin : Origin \cup {NoOrigin}]
NoEntry == [version |-> 0]

Pin == [version : Nat \ {0}, entryVersion : Nat \ {0}, digest : Artifacts,
        manifest : Manifests, deadline : Nat, status : {"active", "released", "expired"}]
NoPin == [version |-> 0, status |-> "none"]

PinRequest == [action : {"pin", "renew", "unpin"}, slot : Slots,
               input : PinInput, result : Pin]
NoRequest == [action |-> "none"]

Outcomes == {"pending", "deleted", "skipped_missing", "skipped_republished",
             "skipped_accessed", "skipped_pinned"}
Candidate == [slot : Slots, version : Nat \ {0}, digest : Artifacts,
              lastAccess : Nat, outcome : Outcomes]
Decision == [ns : Namespaces, need : Nat \ {0}, candidates : SUBSET Candidate,
             status : {"proposed", "committed"}]
NoDecision == [status |-> "none"]

\* base, baseDigest: the target entry the promotion may replace; eviction: the
\* number of the decision that makes room, 0 if none is needed.
Promotion == [request : RequestIds \cup {NoRequestId}, source : Slots, version : Nat \ {0},
              digest : Artifacts, manifest : Manifests, target : Slots,
              mode : {"copy", "replace"}, base : Nat, baseDigest : Artifacts \cup {NoDigest},
              quota : Nat, quotaSetAt : Nat, eviction : 0 .. MaxDecisions,
              status : {"prepared", "committed", "failed"}]
NoPromotion == [status |-> "none"]

Phases == {"committing", "eviction_committed", "entry_written"}
NoTxn  == "none"

DecisionIds == 1 .. MaxDecisions
PromoIds    == 1 .. MaxPromotions

TypeOK ==
  /\ now \in Nat
  /\ blobs \subseteq Blobs
  /\ quota \in [Namespaces -> Nat \cup {Unregistered}]
  /\ quotaSetAt \in [Namespaces -> Nat]
  /\ sessions \in [SessionIds -> Session \cup {Unused, Gone}]
  /\ entries \in [Slots -> Entry \cup {NoEntry}]
  /\ pins \in [Slots -> Pin \cup {NoPin}]
  /\ pinReqs \in [RequestIds -> PinRequest \cup {NoRequest}]
  /\ decisions \in [DecisionIds -> Decision \cup {NoDecision}]
  /\ idem \in [Namespaces \X IdemKeys -> SessionIds \cup {NoSession}]
  /\ evictSeq \in 0 .. MaxDecisions
  /\ promotions \in [PromoIds -> Promotion \cup {NoPromotion}]
  /\ promoTxns \in [PromoIds -> Phases \cup {NoTxn}]
  /\ promoReqs \in [RequestIds -> 0 .. MaxPromotions]
  /\ promoSeq \in 0 .. MaxPromotions
  /\ applying \in 0 .. MaxPromotions
  /\ mode \in {"serving", "starting", "down"}

-----------------------------------------------------------------------------
(* Operators several components share. *)

Chunks(m) == {m[i] : i \in DOMAIN m}

Registered(ns) == quota[ns] # Unregistered

Published(k) == entries[k].version > 0

\* Open and not past its lease: only such a session may be written to, and
\* only such a session protects the blobs it has received.
SessionLive(s) == sessions[s].status = "open" /\ sessions[s].expiresAt > now

\* What SweepExpired and the collector remove.
DeadSessions ==
  {s \in SessionIds : \/ sessions[s].status = "canceled"
                      \/ sessions[s].status = "open" /\ ~ (sessions[s].expiresAt > now)}

ReceivedBlobs(s) == {sessions[s].manifest[i] : i \in sessions[s].received}

PinActive(k) == pins[k].status = "active" /\ pins[k].deadline > now

Prepared(p) == promotions[p].status = "prepared"

\* Leases past their deadline that no sweep has seen yet.
OverduePins == {k \in Slots : pins[k].status = "active" /\ ~ (pins[k].deadline > now)}

\* The bytes a namespace is charged for, counted one by one.
BytesOf(K) == UNION {{k} \X (1 .. SizeOf[entries[k].digest]) : k \in K}
SumSizes(K) == Cardinality(BytesOf(K))
UsedBytes(ns) == SumSizes({k \in Slots : k[1] = ns /\ Published(k)})

\* Mutant: the index entry of a swept session's key goes, whatever session it names.
ForgetSessionsByKey(D) ==
  /\ sessions' = [s \in SessionIds |-> IF s \in D THEN Gone ELSE sessions[s]]
  /\ idem' = [c \in Namespaces \X IdemKeys |->
                IF \E s \in D : <<sessions[s].slot[1], sessions[s].idem>> = c
                THEN NoSession ELSE idem[c]]

\* The session records in D are deleted, and with each the index entry that names it.
ForgetSessions(D) ==
  /\ sessions' = [s \in SessionIds |-> IF s \in D THEN Gone ELSE sessions[s]]
  /\ idem' = [c \in Namespaces \X IdemKeys |->
                IF idem[c] \in D THEN NoSession ELSE idem[c]]

\* Mutant: the sweep keeps the lease version.
ExpirePinsSameVersion(K) ==
  pins' = [k \in Slots |-> IF k \in K THEN [pins[k] EXCEPT !.status = "expired"] ELSE pins[k]]

\* The leases in K are marked expired, each under a new version.
ExpirePins(K) ==
  pins' = [k \in Slots |->
             IF k \in K THEN [pins[k] EXCEPT !.version = @ + 1, !.status = "expired"]
                        ELSE pins[k]]
=============================================================================
