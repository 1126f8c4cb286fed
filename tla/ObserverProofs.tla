--------------------------- MODULE ObserverProofs ---------------------------
(***************************************************************************)
(* What is observed beside the service, for every value of the constants.  *)
(* Readers that fetch blobs without the service's mutex leave the service  *)
(* as it is, so what is proved of it holds with them, and their reads of   *)
(* protected content are never cut short.  Nothing is recorded as committed*)
(* that was not put into its target, and as long as no write of the store  *)
(* fails, crashes never make a commit publish twice or fail after it has   *)
(* published.                                                              *)
(***************************************************************************)
EXTENDS StreamingReads, PromotionHistory, GuaranteeProofs

-----------------------------------------------------------------------------
(* Readers. *)


\* Readers are clients like others: a service with readers is the service.
THEOREM ReadersLeaveService == StreamSpec => Spec
<1>1. StreamInit => Init
  BY DEF StreamInit
<1>2. [StreamNext]_streamVars => [Next]_vars
  <2>1. ASSUME NEW r \in ReaderIds, NEW k \in Slots, OpenReader(r, k)
        PROVE  Next
    BY <2>1 DEF OpenReader, ReadStep, CacheStep, Next
  <2>2. ASSUME NEW r \in ReaderIds, FetchBlob(r) \/ CloseReader(r)
        PROVE  UNCHANGED vars
    BY <2>2 DEF FetchBlob, CloseReader
  <2> QED BY <2>1, <2>2 DEF StreamNext, ReaderStep, streamVars
<1> QED BY <1>1, <1>2, PTL DEF StreamSpec, Spec

\* A reader keeps a list of blobs and has fetched a part of it.
ReadersTyped ==
  readers \in [ReaderIds -> [manifest : Manifests, next : Nat,
                             status : {"reading", "failed", "closed"}] \cup {Unopened}]

LEMMA ReadersStayTyped == StreamSpec => []ReadersTyped
<1> DEFINE Reader == [manifest : Manifests, next : Nat, status : {"reading", "failed", "closed"}]
<1>1. StreamInit => ReadersTyped
  BY DEF StreamInit, ReadersTyped
<1>2. ASSUME TypeInv, ReadersTyped, [StreamNext]_streamVars
      PROVE  ReadersTyped'
  <2>1. ASSUME NEW r \in ReaderIds, readers[r].status \in {"reading", "failed"}
        PROVE  readers[r] \in Reader
    BY <1>2, <2>1 DEF ReadersTyped, Unopened
  <2>2. ASSUME NEW r \in ReaderIds, NEW k \in Slots, OpenReader(r, k)
        PROVE  ReadersTyped'
    <3>1. entries[k] \in Entry
      BY <1>2, <2>2, PublishedType DEF OpenReader, Read, TypeInv
    <3>2. [manifest |-> entries[k].manifest, next |-> 0, status |-> "reading"] \in Reader
      BY <3>1 DEF Entry
    <3> QED BY <1>2, <2>2, <3>2 DEF OpenReader, ReadersTyped
  <2>3. ASSUME NEW r \in ReaderIds, FetchBlob(r)
        PROVE  ReadersTyped'
    <3>1. readers[r] \in Reader
      BY <2>1, <2>3 DEF FetchBlob
    <3> DEFINE fetched == [manifest |-> readers[r].manifest, next |-> readers[r].next + 1,
                           status |-> "reading"]
               failed == [manifest |-> readers[r].manifest, next |-> readers[r].next,
                          status |-> "failed"]
    <3>2. fetched \in Reader /\ failed \in Reader
      BY <3>1
    <3>3. readers' = [readers EXCEPT ![r] = fetched] \/ readers' = [readers EXCEPT ![r] = failed]
      <4>1. CASE NextBlob(r) \in blobs
        <5>1. readers' = [readers EXCEPT ![r].next = readers[r].next + 1, ![r].status = "reading"]
          BY <2>3, <4>1 DEF FetchBlob
        <5> DEFINE moved == [readers EXCEPT ![r].next = readers[r].next + 1]
        <5>2. /\ moved[r] \in Reader
              /\ moved[r].manifest = readers[r].manifest
              /\ moved[r].next = readers[r].next + 1
          BY <1>2, <3>1 DEF ReadersTyped
        <5>3. readers' = [moved EXCEPT ![r].status = "reading"]
          BY <5>1
        <5>4. [moved[r] EXCEPT !.status = "reading"] = fetched
          BY <5>2
        <5>5. readers' = [moved EXCEPT ![r] = fetched]
          BY <5>3, <5>4
        <5> QED BY <5>5
      <4>2. CASE NextBlob(r) \notin blobs
        <5>1. [readers[r] EXCEPT !.status = "failed"] = failed
          BY <3>1
        <5> QED BY <2>3, <4>2, <5>1 DEF FetchBlob
      <4> QED BY <4>1, <4>2
    <3> HIDE DEF fetched, failed
    <3> QED BY <1>2, <3>2, <3>3 DEF ReadersTyped
  <2>4. ASSUME NEW r \in ReaderIds, CloseReader(r)
        PROVE  ReadersTyped'
    <3>1. [readers[r] EXCEPT !.status = "closed"] \in Reader
      BY <2>1, <2>4 DEF CloseReader
    <3>2. readers' = [readers EXCEPT ![r] = [@ EXCEPT !.status = "closed"]]
      BY <2>4 DEF CloseReader
    <3> QED BY <1>2, <3>1, <3>2 DEF ReadersTyped
  <2>5. CASE UNCHANGED readers
    BY <1>2, <2>5 DEF ReadersTyped
  <2> QED BY <1>2, <2>2, <2>3, <2>4, <2>5 DEF StreamNext, ReaderStep, streamVars
<1> QED BY <1>1, <1>2, ReadersLeaveService, TypeInvariant, PTL DEF StreamSpec

\* What a reader asks for next is part of what it is reading.
LEMMA NextIsPart ==
  ASSUME ReadersTyped, NEW r \in ReaderIds, FetchBlob(r)
  PROVE  NextBlob(r) \in Chunks(readers[r].manifest)
<1>1. readers[r].manifest \in Seq(Blobs) /\ readers[r].next \in Nat
  BY ContentAssumption DEF FetchBlob, ReadersTyped, Unopened
<1>2. readers[r].next + 1 \in DOMAIN readers[r].manifest
  BY <1>1 DEF FetchBlob
<1> QED BY <1>2 DEF NextBlob, Chunks

\* A read is cut short only when its content is neither published nor protected by an
\* active lease (EntryReader.Read, CollectGarbage), unless a failed commit can leave
\* its redo log behind.
THEOREM PinnedReadsComplete ==
  ASSUME "log" \notin Faults
  PROVE  StreamSpec => PinnedReadsNeverFail
<1>1. ASSUME StorageInv, ReadersTyped, [StreamNext]_streamVars
      PROVE  [\A r \in ReaderIds : Fails(r) =>
                /\ ~ \E k \in Slots : PinActive(k) /\ pins[k].manifest = readers[r].manifest
                /\ ~ \E k \in Slots : Published(k) /\ entries[k].manifest = readers[r].manifest
             ]_streamVars
  <2> SUFFICES ASSUME StreamNext, NEW r \in ReaderIds, Fails(r)
               PROVE  /\ ~ \E k \in Slots : PinActive(k) /\ pins[k].manifest = readers[r].manifest
                      /\ ~ \E k \in Slots : Published(k) /\ entries[k].manifest = readers[r].manifest
    BY <1>1
  <2>1. readers[r].status = "reading" /\ readers'[r].status = "failed"
    BY DEF Fails
  <2>2. ~ UNCHANGED readers
    BY <2>1
  <2>3. ASSUME NEW q \in ReaderIds, NEW k \in Slots, OpenReader(q, k)
        PROVE  FALSE
    BY <1>1, <2>1, <2>3 DEF OpenReader, ReadersTyped
  <2>4. ASSUME NEW q \in ReaderIds, CloseReader(q)
        PROVE  FALSE
    <3>1. readers'[r] = readers[r] \/ readers'[r] = [readers[r] EXCEPT !.status = "closed"]
      BY <1>1, <2>4 DEF CloseReader, ReadersTyped
    <3>2. readers[r].status # "unopened" /\ readers[r] # Unopened
      BY <2>1 DEF Unopened
    <3> QED BY <1>1, <2>1, <3>1, <3>2 DEF ReadersTyped
  <2>5. PICK q \in ReaderIds : FetchBlob(q)
    BY <2>2, <2>3, <2>4 DEF StreamNext, ReaderStep
  <2>6. q = r /\ NextBlob(r) \notin blobs
    <3>1. q = r
      BY <1>1, <2>1, <2>5 DEF FetchBlob, ReadersTyped
    <3>2. readers[r] \in [manifest : Manifests, next : Nat, status : {"reading", "failed", "closed"}]
      BY <1>1, <2>1 DEF ReadersTyped, Unopened
    <3> QED BY <1>1, <2>1, <2>5, <3>1, <3>2 DEF FetchBlob, ReadersTyped
  <2>7. ~ (Chunks(readers[r].manifest) \subseteq blobs)
    BY <1>1, <2>5, <2>6, NextIsPart
  <2> QED BY <1>1, <2>7 DEF StorageInv, PublishedReadable, ProtectedBlobsStored
<1> QED BY <1>1, ReadersLeaveService, ReadersStayTyped, StorageInvariant, PTL
        DEF StreamSpec, PinnedReadsNeverFail

-----------------------------------------------------------------------------
(* The history of promotions. *)

LEMMA HistoryIsService == HistorySpec => Spec
<1>1. HistoryInit => Init
  BY DEF HistoryInit
<1>2. [HistoryNext]_historyVars => [Next]_vars
  BY DEF HistoryNext, historyVars
<1> QED BY <1>1, <1>2, PTL DEF HistorySpec, Spec

-----------------------------------------------------------------------------
(* Committed promotions.  An entry that names where it came from was put by a  *)
(* promotion that says so, and the log of a commit is ahead of nothing.        *)

WrittenBy(w, k) ==
  /\ promotions[w].status # "none"
  /\ promotions[w].target = k
  /\ promotions[w].digest = entries[k].digest
  /\ OriginOf(w) = entries[k].origin

OriginsPublished ==
  \A k \in Slots : Published(k) /\ entries[k].origin.version > 0 =>
    \E w \in published : WrittenBy(w, k)

ClaimsPublished ==
  \A p \in PromoIds : ClaimsEntry(p) => SamePromotion(p) \cap published # {}

LEMMA OriginsStep ==
  ASSUME DecisionInv, published \subseteq PromoIds, OriginsPublished, HistoryNext
  PROVE  OriginsPublished'
<1>0. TypeInv /\ TypeOK /\ Next
  BY DEF DecisionInv, TypeInv, HistoryNext
<1> SUFFICES ASSUME NEW k \in Slots, entries'[k].version > 0, entries'[k].origin.version > 0
             PROVE  \E w \in published' : WrittenBy(w, k)'
  BY DEF OriginsPublished, Published
<1>1. CASE entries'[k] = entries[k] \/ Touched(k)
  <2>1. /\ Published(k)
        /\ entries'[k].origin = entries[k].origin
        /\ entries'[k].digest = entries[k].digest
    BY <1>1 DEF Touched, SameEntry, Published
  <2>2. PICK w \in published : WrittenBy(w, k)
    BY <2>1 DEF OriginsPublished
  <2>3. WrittenBy(w, k)'
    BY <1>0, <2>1, <2>2, FrozenStays DEF WrittenBy
  <2> QED BY <2>2, <2>3 DEF HistoryNext
<1>2. CASE EvictedUnpinned(k)
  BY <1>2 DEF EvictedUnpinned, NoEntry
<1>3. ASSUME NEW s \in SessionIds, PublishedBy(s, k)
      PROVE  FALSE
  BY <1>3 DEF PublishedBy, NewEntry, NoOrigin
<1>4. ASSUME NEW p \in PromoIds, PromotedBy(p, k)
      PROVE  \E w \in published' : WrittenBy(w, k)'
  <2>1. p \in published' /\ UNCHANGED promotions
    BY <1>4 DEF PromotedBy, HistoryNext, WriteEntry, promotionVars
  <2>2. promotions[p].status # "none"
    BY <1>0, <1>4 DEF PromotedBy, WriteEntry, Applying, NoTxn, TypeInv, LogsNamePromotions
  <2>3. WrittenBy(p, k)'
    BY <1>4, <2>1, <2>2 DEF PromotedBy, PromotedEntry, WrittenBy, OriginOf
  <2> QED BY <2>1, <2>3
<1> QED BY <1>0, <1>1, <1>2, <1>3, <1>4, EntryShape

LEMMA ClaimsStep ==
  ASSUME DecisionInv, published \subseteq PromoIds, OriginsPublished, ClaimsPublished, HistoryNext
  PROVE  ClaimsPublished'
<1>0. TypeInv /\ Next /\ published \subseteq published'
  BY DEF DecisionInv, HistoryNext
<1> SUFFICES ASSUME NEW q \in PromoIds, ClaimsEntry(q)'
             PROVE  (SamePromotion(q) \cap published)' # {}
  BY DEF ClaimsPublished
<1>1. /\ promotions[q].status # "none"
      /\ \E w \in published : w \in SamePromotion(q)
  <2>1. CASE ClaimsEntry(q)
    BY <1>0, <2>1 DEF ClaimsEntry, ClaimsPublished, TypeInv, LogsNamePromotions, NoTxn
  <2>2. CASE ConfirmEntry(q)
    <3>1. promotions[q].status # "none"
      BY <1>0, <2>2 DEF ConfirmEntry, Applying, NoTxn, TypeInv, LogsNamePromotions
    <3> DEFINE k == promotions[q].target
    <3>2. k \in Slots
      BY <1>0, <3>1, PromotionType DEF Promotion, TypeInv
    <3>3. PICK w \in published : WrittenBy(w, k)
      BY <2>2, <3>2 DEF ConfirmEntry, EntryPresent, OriginsPublished
    <3>4. w \in SamePromotion(q)
      BY <2>2, <3>3 DEF ConfirmEntry, EntryPresent, WrittenBy, OriginOf, SamePromotion
    <3> QED BY <3>1, <3>3, <3>4
  <2> QED BY <1>0, <2>1, <2>2, ClaimBegins
<1>2. PICK w \in published : w \in SamePromotion(q)
  BY <1>1
<1>3. w \in PromoIds /\ promotions[w].status # "none"
  BY <1>2 DEF SamePromotion
<1>4. w \in SamePromotion(q)'
  BY <1>0, <1>1, <1>2, <1>3, FrozenStays DEF SamePromotion
<1> QED BY <1>0, <1>2, <1>4

PublicationInv == published \subseteq PromoIds /\ OriginsPublished /\ ClaimsPublished

\* Whatever writes fail and wherever the process crashes, a promotion is recorded as
\* committed only when its content was put into its target (applyPromotionLocked,
\* promotionEntryPresentLocked).
THEOREM CommittedPromotionsWerePublished == HistorySpec => []CommittedWasPublished
<1>1. HistoryInit => PublicationInv
  BY DEF HistoryInit, Init, PublicationInv, OriginsPublished, ClaimsPublished, ClaimsEntry,
         Published, NoEntry, NoPromotion, NoTxn
<1>2. ASSUME DecisionInv, PublicationInv, [HistoryNext]_historyVars
      PROVE  PublicationInv'
  <2>1. CASE HistoryNext
    <3>1. published' \subseteq PromoIds
      BY <1>2, <2>1 DEF HistoryNext, PublicationInv
    <3> QED BY <1>2, <2>1, <3>1, OriginsStep, ClaimsStep DEF PublicationInv
  <2>2. CASE UNCHANGED historyVars
    BY <1>2, <2>2 DEF PublicationInv, OriginsPublished, ClaimsPublished, ClaimsEntry, Published,
         WrittenBy, OriginOf, SamePromotion, historyVars, vars, promotionVars
  <2> QED BY <1>2, <2>1, <2>2
<1>3. PublicationInv => CommittedWasPublished
  BY DEF PublicationInv, ClaimsPublished, ClaimsEntry, CommittedWasPublished
<1> QED BY <1>1, <1>2, <1>3, HistoryIsService, DecisionInvariant, PTL DEF HistorySpec

-----------------------------------------------------------------------------
(* Namespaces.  A commit begins in a namespace that exists; when it can still   *)
(* write into one that is gone, its redo log was open as the namespace went.    *)

OpenLogsOrphaned ==
  \A p \in PromoIds :
    OpenLog(p) /\ ~ Registered(promotions[p].target[1]) => p \in orphaned

PutBy(p, k) ==
  /\ promotions[p].status # "none"
  /\ promotions[p].target = k
  /\ entries[k].origin = OriginOf(p)

StraysOrphaned ==
  \A k \in Slots : Published(k) /\ ~ Registered(k[1]) =>
    \E p \in published \cap orphaned : PutBy(p, k)

LEMMA OpenLogsOrphanedStep ==
  ASSUME DecisionInv, OpenLogsOrphaned, HistoryNext
  PROVE  OpenLogsOrphaned'
<1>0. TypeInv /\ Next /\ orphaned \subseteq orphaned'
  BY DEF DecisionInv, HistoryNext
<1> SUFFICES ASSUME NEW p \in PromoIds, OpenLog(p)',
                    quota'[promotions'[p].target[1]] = Unregistered
             PROVE  p \in orphaned'
  BY DEF OpenLogsOrphaned, Registered
<1>1. CASE BeginCommit(p)
  BY <1>1 DEF BeginCommit, Registered, quotaVars
<1>2. CASE OpenLog(p)
  <2>1. promotions[p].status # "none"
    BY <1>0, <1>2 DEF OpenLog, NoTxn, TypeInv, LogsNamePromotions
  <2>2. promotions'[p].target = promotions[p].target
    BY <1>0, <2>1, FrozenStays
  <2>3. CASE ~ Registered(promotions[p].target[1])
    BY <1>0, <1>2, <2>3 DEF OpenLogsOrphaned
  <2>4. CASE Registered(promotions[p].target[1])
    BY <1>2, <2>2, <2>4 DEF HistoryNext, Orphans, OpenLog, Registered
  <2> QED BY <2>3, <2>4
<1> QED BY <1>0, <1>1, <1>2, OpenLogBegins

LEMMA StraysOrphanedStep ==
  ASSUME DecisionInv, OpenLogsOrphaned, StraysOrphaned, published \subseteq PromoIds, HistoryNext
  PROVE  StraysOrphaned'
<1>0. TypeInv /\ Next /\ published \subseteq published' /\ orphaned \subseteq orphaned'
  BY DEF DecisionInv, HistoryNext
<1> SUFFICES ASSUME NEW k \in Slots, Published(k)', ~ Registered(k[1])'
             PROVE  \E p \in published' \cap orphaned' : PutBy(p, k)'
  BY DEF StraysOrphaned
<1>1. ~ Registered(k[1])
  BY <1>0, EntryNamespaceStep
<1>2. CASE Published(k) /\ entries'[k].origin = entries[k].origin
  <2>1. PICK p \in published \cap orphaned : PutBy(p, k)
    BY <1>1, <1>2 DEF StraysOrphaned
  <2>2. PutBy(p, k)'
    BY <1>0, <1>2, <2>1, FrozenStays DEF PutBy
  <2> QED BY <1>0, <2>1, <2>2
<1>3. ASSUME NEW p \in PromoIds, PromotedBy(p, k)
      PROVE  p \in published' \cap orphaned' /\ PutBy(p, k)'
  <2>1. OpenLog(p) /\ UNCHANGED promotions /\ promotions[p].target = k
    BY <1>3 DEF PromotedBy, WriteEntry, Applying, OpenLog, promotionVars
  <2>2. p \in orphaned
    BY <1>1, <2>1 DEF OpenLogsOrphaned
  <2>3. p \in published'
    BY <1>3 DEF PromotedBy, HistoryNext
  <2>4. promotions[p].status # "none"
    BY <1>0, <2>1 DEF OpenLog, NoTxn, TypeInv, LogsNamePromotions
  <2>5. PutBy(p, k)'
    BY <1>3, <2>1, <2>4 DEF PromotedBy, PromotedEntry, PutBy, OriginOf
  <2> QED BY <1>0, <2>2, <2>3, <2>5
<1> QED BY <1>0, <1>2, <1>3, EntryNamespaceStep

OrphanInv == published \subseteq PromoIds /\ OpenLogsOrphaned /\ StraysOrphaned

\* Whatever writes fail and wherever the process crashes, an entry in a namespace that
\* is gone was put by a commit that had begun while the namespace existed and whose
\* redo log was open when it was deleted (DeleteNamespace, applyPromotionLocked).
THEOREM EntriesStayInNamespaces == HistorySpec => []EntriesInNamespaces
<1>1. HistoryInit => OrphanInv
  BY DEF HistoryInit, Init, OrphanInv, OpenLogsOrphaned, StraysOrphaned, OpenLog, NoTxn,
         Published, NoEntry
<1>2. ASSUME DecisionInv, OrphanInv, [HistoryNext]_historyVars
      PROVE  OrphanInv'
  <2>1. CASE HistoryNext
    <3>1. published' \subseteq PromoIds
      BY <1>2, <2>1 DEF HistoryNext, OrphanInv
    <3> QED BY <1>2, <2>1, <3>1, OpenLogsOrphanedStep, StraysOrphanedStep DEF OrphanInv
  <2>2. CASE UNCHANGED historyVars
    BY <1>2, <2>2 DEF OrphanInv, OpenLogsOrphaned, StraysOrphaned, OpenLog, Published, Registered,
         PutBy, OriginOf, historyVars, vars, promotionVars, quotaVars
  <2> QED BY <1>2, <2>1, <2>2
<1>3. OrphanInv => EntriesInNamespaces
  BY DEF OrphanInv, StraysOrphaned, PutBy, EntriesInNamespaces
<1> QED BY <1>1, <1>2, <1>3, HistoryIsService, DecisionInvariant, PTL DEF HistorySpec

-----------------------------------------------------------------------------
(* Publishing once.  As long as no write fails, nothing happens at the target   *)
(* of an unfinished commit, so that what it has put there stands until it ends. *)

EntryStands(p) ==
  \/ promotions[p].status = "committed"
  \/ promoTxns[p] = "entry_written"
  \/ promoTxns[p] = "eviction_committed" /\ EntryPresent(p)

EntriesStand == \A p \in published : EntryStands(p)

StandInv == published \subseteq PromoIds /\ EntriesStand

\* The log of a commit whose entry stands goes on to the next phase or stays.
LEMMA StandingLogAdvances ==
  ASSUME DecisionInv, NoWriteFails, Next, NEW p \in PromoIds,
         promotions[p].status # "committed",
         \/ promoTxns[p] = "entry_written"
         \/ promoTxns[p] = "eviction_committed" /\ EntryPresent(p)
  PROVE  promoTxns'[p] \in {promoTxns[p], "entry_written"}
<1> USE DEF promotionVars
<1>0. TypeOK
  BY DEF DecisionInv, TypeInv
<1>1. p \in Unfinished
  BY DEF Unfinished, NoTxn
<1>2. CASE CacheStep \/ Tick \/ Restart \/ StartStep
  BY <1>1, <1>2 DEF CacheStep, Tick, Restart, StartStep, StartServing, FinishStart, RecoverCommit
<1>3. CASE PrepareStep
  BY <1>3 DEF PrepareStep, PreparePromotion, PreparePromotionUnrecorded,
       PreparePromotionRefused
<1>4. CASE PromotionStep /\ ~ PrepareStep
  BY <1>0, <1>4 DEF PromotionStep, BeginCommit, ResumeCommit, RejectCommit,
       FailCommitKeepingLog, InterruptEviction, InterruptStep, InterruptCommit, ApplyStep,
       ApplyEviction,
       WriteEntry, ConfirmRoom, ConfirmEntry, RecordCommitted, RecordCommittedRequest,
       CloseLog, FailCommit, CannotApply, TypeOK, Applying, NoTxn
<1> QED BY <1>2, <1>3, <1>4 DEF Next, PromotionStep

LEMMA EntriesStandStep ==
  ASSUME DecisionInv, NoWriteFails, HoldInv, StandInv, HistoryNext
  PROVE  EntriesStand'
<1>0. Next
  BY DEF HistoryNext
<1> SUFFICES ASSUME NEW p \in published'
             PROVE  EntryStands(p)'
  BY DEF EntriesStand
<1>1. CASE p \notin published
  <2>1. p \in PromoIds /\ WriteEntry(p)
    BY <1>1 DEF HistoryNext
  <2>2. promoTxns'[p] = "eviction_committed" /\ EntryPresent(p)'
    BY <2>1, WritesTakeHold DEF DecisionInv, WriteEntry, Applying, promotionVars
  <2> QED BY <2>2 DEF EntryStands
<1>2. CASE p \in published
  <2>1. p \in PromoIds /\ EntryStands(p)
    BY <1>2 DEF StandInv, EntriesStand
  <2>2. CASE promotions[p].status = "committed"
    BY <1>0, <2>1, <2>2, CommittedStays DEF EntryStands
  <2>3. CASE promotions[p].status # "committed" /\ promoTxns[p] = "entry_written"
    BY <1>0, <2>1, <2>3, StandingLogAdvances DEF EntryStands
  <2>4. CASE /\ promotions[p].status # "committed"
             /\ promoTxns[p] = "eviction_committed" /\ EntryPresent(p)
    <3>1. promoTxns'[p] \in {"eviction_committed", "entry_written"}
      BY <1>0, <2>1, <2>4, StandingLogAdvances
    <3>2. Underway(p) /\ promotions[p].status # "none"
      BY <2>1, <2>4 DEF Underway, NoTxn, DecisionInv, TypeInv, LogsNamePromotions
    <3>3. UNCHANGED entries
      BY <1>0, <2>1, <2>4, <3>2, OnlyCommitWrites DEF ApplyEviction, WriteEntry, Applying
    <3>4. /\ promotions'[p].target = promotions[p].target
          /\ promotions'[p].source = promotions[p].source
          /\ promotions'[p].digest = promotions[p].digest
          /\ promotions'[p].request = promotions[p].request
      BY <1>0, <2>1, <3>2, FrozenStays
    <3>5. EntryPresent(p)'
      BY <2>4, <3>3, <3>4 DEF EntryPresent, Published
    <3> QED BY <3>1, <3>5 DEF EntryStands
  <2> QED BY <2>1, <2>2, <2>3, <2>4 DEF EntryStands
<1> QED BY <1>1, <1>2

LEMMA StandInvariant == ASSUME NoWriteFails PROVE HistorySpec => []StandInv
<1>1. HistoryInit => StandInv
  BY DEF HistoryInit, StandInv, EntriesStand
<1>2. ASSUME DecisionInv, HoldInv, StandInv, [HistoryNext]_historyVars
      PROVE  StandInv'
  <2>1. CASE HistoryNext
    <3>1. published' \subseteq PromoIds
      BY <1>2, <2>1 DEF HistoryNext, StandInv
    <3> QED BY <1>2, <2>1, <3>1, EntriesStandStep DEF StandInv
  <2>2. CASE UNCHANGED historyVars
    BY <1>2, <2>2 DEF StandInv, EntriesStand, EntryStands, EntryPresent, Published,
         historyVars, vars, promotionVars
  <2> QED BY <1>2, <2>1, <2>2
<1> QED BY <1>1, <1>2, HistoryIsService, DecisionInvariant, HoldInvariant, PTL DEF HistorySpec

\* Through crashes at any point of its commit and of the starts that resume it, a
\* promotion puts its entry once and does not fail afterwards; provided that no write
\* of the store fails (applyPromotionLocked, resumePromotionTxns).
THEOREM PromotionsPublishOnce == ASSUME NoWriteFails PROVE HistorySpec => PublishesOnce
<1>1. ASSUME DecisionInv, HoldInv, StandInv, HistoryNext, NEW p \in published
      PROVE  /\ ~ WriteEntry(p)
             /\ promotions'[p].status = "failed" => promotions[p].status = "failed"
  <2>1. p \in PromoIds /\ Next /\ EntryStands(p)
    BY <1>1 DEF StandInv, EntriesStand, HistoryNext
  <2>2. promotions[p].status = "committed" => promoTxns[p] \in {NoTxn, "entry_written"}
    BY <1>1, <2>1 DEF HoldInv, CommittedLogsWritten
  <2>3. ~ WriteEntry(p)
    BY <2>1, <2>2 DEF WriteEntry, Applying, EntryStands, NoTxn
  <2>4. ~ RejectCommit(p) /\ ~ FailCommit(p)
    BY <2>1, <2>2 DEF RejectCommit, Prepared, FailCommit, CannotApply, Applying, EntryStands, NoTxn
  <2>5. promotions[p].status # "none"
    BY <1>1, <2>1 DEF EntryStands, NoTxn, DecisionInv, TypeInv, LogsNamePromotions
  <2>6. ASSUME RecordCommitted(p)
        PROVE  promotions'[p].status = "committed"
    <3>1. TypeOK /\ promotions[p] \in Promotion
      BY <1>1, <2>1, <2>5, PromotionType DEF DecisionInv, TypeInv
    <3> QED BY <2>1, <2>6, <3>1 DEF RecordCommitted, SetOutcome, TypeOK, Promotion
  <2>7. promotions'[p] = promotions[p] \/ SettledBy(p)
    BY <1>1, <2>1, <2>5, PromotionsStay DEF DecisionInv, NumbersFresh
  <2> QED BY <2>3, <2>4, <2>6, <2>7 DEF SettledBy, FailCommitKeepingLog, NoWriteFails
<1>2. ASSUME DecisionInv, HoldInv, StandInv, [HistoryNext]_historyVars
      PROVE  [\A p \in published \ disturbed :
                /\ ~ WriteEntry(p)
                /\ promotions'[p].status = "failed"
                   => promotions[p].status = "failed"]_historyVars
  BY <1>1, <1>2
<1> QED BY <1>2, HoldInvariant, StandInvariant, HistoryIsService, DecisionInvariant, PTL
        DEF HistorySpec, PublishesOnce
=============================================================================
