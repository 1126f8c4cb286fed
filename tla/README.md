# A verification development for go-build-cache

TLA+ specifications of the content-addressed build cache service in `src/`,
their TLC configurations, and proofs checked by TLAPS. The reference is the code
(`cache.go`, `promotion.go`, `reader.go`, the stores and the daemon), read with
its tests and `README.md`; every definition that models code is listed in
`PROJECT.json` under `map` with the lines it stands for.

## The system

| component | state | operations | what makes it correct |
|---|---|---|---|
| Namespaces and quotas (`cache.go`) | `MaxBytes`, `UpdatedAt` | set quota, delete namespace | usage grows only within the limit |
| Upload sessions (`cache.go`) | sessions, idempotency index (memory only) | create, upload chunk, renew, cancel, complete, sweep | an acknowledged chunk stays stored while the session lives; a key names one live session; an ended session stays ended |
| Publication and reads (`cache.go`, `reader.go`) | entries with version and access time | complete, read, stream blobs | a published entry can be read to the end and is what its digest says; versions rise |
| Pin leases (`cache.go`) | leases, request records | pin, renew, unpin, sweep | a pinned key stays published, its snapshot stays stored; lease versions identify leases |
| Eviction (`cache.go`) | decisions, decision number (memory) | plan, commit; plan-and-commit inside a publish | deleted entries are exactly those the decision saw; least recently used first, no more than needed; a committed decision is final |
| Garbage collection (`cache.go`) | blob store | sweep, mark, delete | no referenced blob is deleted, every other one is in the end |
| Promotion (`promotion.go`) | promotions, redo log, request records, number | prepare, commit, recover | room is made before it is used; newer targets are not overwritten; an outcome is final; a commit ends |
| Start-up (`cache.go`, `promotion.go`, `main.go`) | rebuilt indexes | restore, resume, apply the quota flag | numbers do not repeat, the index is as before |
| Chunk layout (`cache.go`) | none (pure) | normalise, compare | accepted layouts partition the artifact |
| Store (`store.go`, `memory_store.go`, `file_store.go`) | one file per object, temporary files, a mutex for all but blobs | save, conditional put, get, delete, list, open with migration | each call takes effect at one moment or not at all, also across crashes |
| Audit log (`file_store.go`, `cache.go`) | lines, the collection's generation | append, list, restore the generation | a reported collection has its own number and its removals stay on record |
| Queries (`cache.go`, `promotion.go`) | none | references of a blob, reason of a removal | what they report explains what the collector does |
| HTTP API, digests, formatting | none | | see *Not modelled* |

Components interact through one `Cache` whose mutex every handler holds from its
first read to its last write. What is hard is therefore not a race between two
handlers but what happens *between* handlers and *inside* an interrupted one:

- two-phase operations (plan/commit of an eviction, prepare/commit of a promotion)
  between whose phases everything else may happen;
- leases that end by the clock while nothing has swept them yet;
- the collector, run from a ticker between any two requests;
- readers, which fetch blobs without the mutex;
- a write to the store that fails half-way through a handler, with the earlier
  writes done; a crash at the same place; the restart that rebuilds memory.

Below the `Cache` that mutex does not help: readers call `GetBlob` without it, and
the interface asks for a store that is safe for concurrent callers. A call of the
file store is several system calls, and a crash may come between any two.

The models form three levels. `CacheContract` is what clients see: a shelf with one
item per slot, what leases keep of it, the chunks that can be fetched, and six changes
of these. `BuildCache` is shown to implement it. It takes each call of the store as
atomic; `StoreContract` states that assumption, and `FileStore` is shown to implement
that.

## Modules

| module | models | remarks |
|---|---|---|
| `CacheState` | `Store` maps, in-memory indexes, clock | constants and their assumptions, variables, record types, the type invariant, the predicates on leases and usage |
| `Eviction` | `SetNamespaceQuota`, `DeleteNamespace`, `PlanEviction`, `CommitEviction` | the operators `Plan`, `Recheck`, `Committed` are used by publication and promotion, as in the code |
| `Uploads` | `CreateSession` ... `Complete`, `Read` | `Complete` is split by its outcome: published, refused over quota, interrupted |
| `Pinning` | `Pin`, `RenewPin`, `Unpin`, `SweepExpiredPins` | a request record is the first result of its id |
| `Collector` | `CollectGarbage`, `buildLiveSet` | roots, sweep, delete, interrupted in each phase |
| `Promoting` | `promotion.go` | prepare, re-check, then one action per write of the commit; recovery |
| `PromotionHistory` | | `BuildCache` with history variables: which promotions have put their entry (`published`), which of them let go of the mutex right after (`disturbed`), which had their namespace deleted under an open redo log (`orphaned`) |
| `Queries` | `blobReferencesLocked`, `deathReason` | what is reported, to be compared with what the collector does |
| `CacheContract` | what the documents promise clients | the abstract specification of the service: `Receive`, `Publish`, `Evict`, `Keep`, `Release`, `Collect`; no sessions, clock, plans, redo logs or restarts |
| `BuildCache` | `New`, the daemon, the whole service | `Init`, `Next`, `Restart`, fairness, its properties |
| `StreamingReads` | `EntryReader` | composes readers with `BuildCache` |
| `ChunkLayout` | `normalizeChunks`, `sameParams` | a pure algorithm against its reference definition |
| `StoreInterface` | `store.go` | collections, calls, conditions and answers, shared by the next two |
| `StoreContract` | what `Cache` expects of a `Store`; `memory_store.go` | the abstract specification: one action per call; a listing may be torn |
| `FileStore` | `file_store.go` | one action per system call; `Contract == INSTANCE StoreContract WITH objects <- Visible` |
| `AuditLog` | `AppendAudit`, `ListAudit`, the collector's generation | torn and unended lines, a generation restored from what can be read |
| `TypeProofs`, `SafetyProofs`, `GuaranteeProofs`, `UsageProofs` | | theorems about `BuildCache`; each rests on those before it |
| `ClientProofs` | | `BuildCache` implements `CacheContract` |
| `ObserverProofs` | | theorems about `StreamingReads` and `PromotionHistory` |
| `StoreProofs` | | theorems about `FileStore` and `AuditLog` |
| `LayoutProofs` | | theorems about `ChunkLayout` |
| `MCBuildCache`, `MCStreamingReads`, `MCPromotionHistory`, `MCChunkLayout`, `MCStore` | | values of the constants for TLC |

### How state and actions correspond to the code

A handler is one action, because it holds the mutex throughout and reads the clock
once; its guard collects the early returns. What it leaves behind when a write to
the store fails is a separate action named `...Interrupted`, `...Unrecorded` or
`...Unclosed`, enabled when `"store" \in Faults`; its state is that of the writes
before the failing one, *including* memory (the idempotency index, the numbers).
A crash inside a handler is such an action followed by `Restart`, so the two need
not be told apart. The commit of a promotion is the exception: it writes a redo log
from which it is taken up again, so each of its writes is an action, and the
variable `applying` stands for the mutex it holds in between; `InterruptStep` is the
failure of one of them. A start ends with an error (`mode = "down"`) when a commit it
resumes does, when the audit record after that commit cannot be appended, or when the
quota flag cannot be saved; a redo log it fails to delete waits for the next start.

`Faults` says which of these happen: `"store"` (writes fail), `"restart"` (the
process crashes and starts again), and `"log"` (a commit that failed leaves its redo
log: `failPromotionLocked` ignores the error of the delete at `promotion.go:700`,
returns before it when the request record cannot be written, and may crash before it).

Data. A blob stands for its content and its digest; a manifest is the sequence of
blobs an artifact is cut into and `ArtifactOf` gives what they concatenate to, so a
client that declares a wrong final digest is part of the model. An artifact has a
size; sizes decide quotas. Session ids are issued at most once (`newSessionID` is
random). The order of unordered listings is nondeterministic. An eviction's
`candidates` are a set, ordered where the code orders them by access time and key.
Deleted records are the values `NoEntry`, `NoPin`, `Gone`, ...

The file store. `files` has the file of each object, `temps` the temporary file each
caller is writing, `steps` where each caller is in its call. `writeAtomic` is the
three steps `CreateTemp`, `WriteTemp` (write, chmod, sync, close: nobody but
`ListBlobs` sees the file meanwhile) and `Rename`. Saves and deletes take the mutex,
except those of blobs; gets and listings take none. A listing reads the directories
one after the other and then the files it met; one that has gone since fails the
listing. `legacy` has the entries an earlier version left directly under `entries/`:
opening the store moves them, and a crash may come between the copy and the removal.
The refinement maps the contract's `objects` to `Visible`, the legacy file where
there is one: until it is removed the move has not happened.

The contract with clients. `Clients == INSTANCE CacheContract` shows `OnShelf` (version
and chunks of each published entry), `KeptByLease` (the snapshot of each active lease)
and `blobs` as the contract's `shelf`, `kept` and `stored`. A publication that evicts is
one `Publish`, room included; a commit of a promotion is an `Evict` and a `Publish` with
other steps between them, or not even the second; a tick of the clock is a `Release`.
Nothing else a handler, a failing write or a restart does shows there.

## Runs

Every bound is a constant: `MaxTime` stops the clock, `MaxPinVersion` the pin
requests, `MaxDecisions` and `MaxPromotions` the decisions and promotions. They
stop only what would be endless repetition; sessions are bounded by `SessionIds`.

| run | asks | bounds and why they suffice |
|---|---|---|
| `Uploads` | `PublishedReadable`, `ProtectedBlobsStored`, `IdemKeyNamesOneSession`, `SessionsNeverRevive` | three sessions, one key, three chunkings of two artifacts that share a blob: a session can expire or be canceled, be succeeded under its idempotency key and then swept while a third asks for the key, with failing writes and collections |
| `Quota` | `PinnedEntryKept`, `UsageGrowsWithinQuota`, `MakingRoomIsLRU`, `RefusedOnlyWithoutRoom`, `EvictionMatchesDecision`, `CommittedDecisionsFinal` | three keys, sizes 1 and 2 in a limit of 2, so a publish needs to evict none, one or two, and is refused beside a pin; entries used at the same moment; one decision, planned by hand or by a publish, with reads and a pin in between |
| `Leases` | `TypeOK`, `ProtectedBlobsStored`, `LeaseVersionsIssuedOnce`, `LeaseBeginsOnPublished`, `LeaseVersionsGrow`, `PinnedReadsNeverFail` | two request ids and inputs with and without an expected version, three lease versions, a reader of a two-chunk entry that is overwritten and collected |
| `Progress` | `PlannedPromotionsFit`; `GarbageIsCollected`, `CommitsEnd`, `ServesAgain` (liveness) | three sessions, one of each phase of a life: abandoned uploads, replaced entries, ended leases; a promotion whose eviction is planned and whose room is taken before the commit; any number of crashes, so that starts end in service or not; no symmetry |
| `Promotion` | `PublishedReadable`, `ProtectedBlobsStored`, `ReferencesExplainCollection`, `EntryVersionsGrow` | copy and replace, clients that declare a wrong digest, each write of the commit failing, the redo log of a failed commit kept, the target published by another session or its namespace deleted in between |
| `PromotionRoom` | `CommittedPromotionMadeRoom`, `DecisionIdsFresh`, `CommittedWasPublished`, `EntriesInNamespaces`, `EvictionMatchesDecision`, `PromotionOutcomeFinal`, `PublishesOnce`, `CommitAdvances`, `KeepsCacheContract` (refinement) | a promotion of two bytes into a limit of two that holds one: the eviction is planned, raced by a read, a pin, a manual commit, interrupted, resumed, restarted; a crash or a failing write between putting the entry and logging it; the target's namespace, once emptied, deleted before the commit, which must then not begin, or after its interruption, which may still publish. Of the contract with clients this run takes all six steps, and a plan that ignores leases breaks it |
| `ChunkLayout` | `ZeroBasedAcceptedIffPartition`, `OrderOfRequestIgnored` | all requests of up to three chunks with indexes and offsets in -1..2, sizes in 0..2, totals in 1..4 |
| `Store` | `StoreTypeOK`, `ImplementsContract`, `ReportsNumberedApart`, `ReportsOnRecord`, `MCOpensAgain` (liveness) | two callers, one name in each of three collections that differ in mutex, condition and listing; an entry an earlier version may have left; conditional puts that create and replace. The log: three generations and five lines, so that a torn line falls before, in and after a collection, with a restart after each |
| `RefusedPublish`, `IdemAfterRestart`, `PromotionOverfills`, `FailedPromotion` | one documented promise each, violated by the code | see *Findings* |

`CHECK_DEADLOCK FALSE` is set for `ChunkLayout` only, where a request that was
judged is the end. The service itself never stops: in every other run a sweep of
nothing, for one, is always possible while it serves. Symmetry of session and
request ids is used for safety runs only.

Every property of a passing run has a mutant in `PROJECT.json`: a plausible bug (a
forgotten root of the collector, a dropped re-check, a missing condition) under which
that run finds the property violated. The mutated operators stand beside the
definitions they replace and are marked as such.

### Fairness

`FairSpec` adds three weak fairness conditions. `CollectGarbage` runs again and
again because the daemon starts it from a ticker (`main.go:43-57`) and the mutex is
released by every handler; a failing run is another action and does not discharge
the condition, so the assumption is that the store does not fail for ever.
`ApplyStep` and `StartStep` go on because a handler that holds the mutex, and a
process that starts, run to their end. Requests of clients, the clock, faults and
restarts are never assumed to happen. `-gc-interval 0` turns the ticker off, and
then nothing is collected unless asked for.

The liveness properties name what they need beyond that. `KeepsServing` (the process
answers and is not killed any more) is the premise of `GarbageIsCollected` and
`CommitsEnd`: a commit interrupted by a crash is ended by a start, and a start may
itself fail. `ServesAgain` supposes that whoever supervises the daemon starts it
again and that crashes stop; it shows that the commit whose error ends a start
(`main.go`, `New`) does not end every start. In `Store`, `OpenStep` is weakly fair:
`NewFileStore` waits for nobody.

## Findings

Four runs show the code doing what its documents exclude.

1. **A refused publish deletes entries** (`RefusedPublish`). The eviction is
   committed (`cache.go:743`) before its sum is compared with the need (`:746`).
   `README.md:48-50`: 且**不删除任何东西**.
2. **Idempotency ends with a restart** (`IdemAfterRestart`). `restoreIndex` lets
   the last listed open session of a key win, expired or not (`cache.go:128-132`).
   `cache.go:30-31`: 相同幂等键 + 相同参数返回同一会话.
3. **A promotion overfills its target** (`PromotionOverfills`). Usage is looked at
   again only when the promotion came with an eviction (`promotion.go:579-593`).
   `model.go:92-93`: 总字节数不得超过 MaxBytes.
4. **A failed promotion is committed later, without its content**
   (`FailedPromotion`). A commit that evicted and then found no room leaves its redo
   log when the delete at `promotion.go:700` fails; the next start resumes it
   (`:933` skips only committed promotions), after a collection for which a failed
   promotion was no root. `promotion.go:688-689`: 两端条目不做任何修改;
   `README.md:119-121`: 只要目标或一个未决晋级仍引用，块就不会被回收.

Other disagreements, read from the code and not the subject of a run:

- A pin with an absolute deadline is checked against the clock (`cache.go:1016`)
  before its request id is looked up (`:1025`), so a retry after the deadline is an
  error; `README.md:82-83` says the original result is returned even when the clock
  has advanced.
- Deleting a namespace deletes its ended leases (`cache.go:303`), so lease versions
  begin at 1 again; `model.go:113` says they rise strictly per key.
- Offsets and the total are checked only when the first index is 0
  (`cache.go:1834-1835`); the comment at `cache.go:584` takes them as checked at
  creation for every session. `ZeroBasedAcceptedIffPartition` says what does hold.
- `EntryCountBefore` subtracts the evicted entries from the present count where the
  comment asks to add them back (`promotion.go:850-854`), so it can be negative.
- An audit record can be torn and then swallow the next one, which `ListAudit` skips
  (`file_store.go:882-909`); the comment at `file_store.go:863` calls an append
  atomic. A removal whose record fails is not on record, though `cache.go:857` says
  that every decision is. `ReportsOnRecord` says what does hold.
- A namespace deleted while an interrupted commit still has its redo log gets an entry
  when the commit is resumed (`cache.go:275` looks at neither promotions nor logs, and
  `promotion.go:406` skips the validation that would notice). `EntriesInNamespaces` allows
  only promotions in `orphaned`, whose log was open as the namespace went, and no other: a
  commit that had not begun by then must not.
- A promotion may be recorded as failed though it has published: the log record after
  `PutEntry` fails (`promotion.go:638`), the mutex is released, the target is published
  anew, and the commit taken up again meets it (`:629-632`). The comment at
  `promotion.go:688-689` says that neither end is changed. `PublishesOnce` excepts these
  promotions (`disturbed`) and no others.
- A commit whose `PutEntry` fails leaves a log that says room was made; taken up again it
  skips the measurement (`promotion.go:573`, `:603`), so what was published meanwhile is
  not counted and the target is overfilled although the promotion came with an eviction
  (`model.go:92-93`, as in finding 3). With `Faults = {"store"}` and otherwise the
  constants of `Progress`, TLC finds `PlannedPromotionsFit` violated;
  `PlannedPromotionsKeepLimit` says that it cannot happen as long as no write fails.
- A reader may fail when its unpinned entry is replaced and collected while it reads;
  `reader.go:9` asks the implementation to prevent this. `PinnedReadsNeverFail` says
  when it cannot happen.

## What is proved

The proof modules prove, for every value of the constants that satisfies the named
assumptions of the module in question (`NamesAssumption`, `ContentAssumption`,
`ParameterAssumption`; `StoreAssumption`, `FileStoreAssumption`; `LayoutAssumption`):

| theorem | property | condition |
|---|---|---|
| `TypeInvariant`, `TypeCorrect` | `TypeInv`, `TypeOK` | |
| `PublishedStaysReadable` | `PublishedReadable` | `"log" \notin Faults` |
| `ProtectedBlobsStayStored` | `ProtectedBlobsStored` | `"log" \notin Faults` |
| `PinnedEntriesKept` | `PinnedEntryKept` | |
| `EntryVersionsOnlyGrow` | `EntryVersionsGrow` | |
| `DecisionIdsStayFresh` | `DecisionIdsFresh` | |
| `CommittedPromotionsMadeRoom` | `CommittedPromotionMadeRoom` | |
| `CommittedDecisionsStay` | `CommittedDecisionsFinal` | |
| `PromotionOutcomesFinal` | `PromotionOutcomeFinal` | `"log" \notin Faults` |
| `ReferencesExplain` | `ReferencesExplainCollection` | |
| `SessionsStayDead` | `SessionsNeverRevive` | |
| `IdemKeysNameOneSession` | `IdemKeyNamesOneSession` | `"restart" \notin Faults` |
| `LeasesBeginOnPublished` | `LeaseBeginsOnPublished` | |
| `LeaseVersionsOnlyGrow` | `LeaseVersionsGrow` | `RemovableNamespaces = {}` |
| `LeaseVersionsStayUnique` | `LeaseVersionsIssuedOnce` | `RemovableNamespaces = {}` |
| `EntriesStayInNamespaces` | `EntriesInNamespaces` | |
| `EntriesKeepNamespaces` | `[]EntriesHaveNamespace`: no exception | `Faults \cap {"store", "log"} = {}` |
| `EvictionsMatchDecisions` | `EvictionMatchesDecision` | |
| `CommittedPromotionsWerePublished` | `CommittedWasPublished` | |
| `PromotionsPublishOnce` | `PublishesOnce` | `Faults \cap {"store", "log"} = {}` |
| `CommitsAdvance` | `CommitAdvances` | |
| `UsageStaysWithinQuota` | `UsageGrowsWithinQuota` | `PromotionRoutes = {}` |
| `OverfillsByPromotionOnly` | `OnlyPromotionsOverfill` | |
| `PlannedPromotionsKeepLimit` | `PlannedPromotionsFit` | `Faults \cap {"store", "log"} = {}` |
| `RoomIsMadeInLRUOrder` | `MakingRoomIsLRU` | |
| `RefusalsLeaveNoRoom` | `RefusedOnlyWithoutRoom` | |
| `ServiceKeepsContract` | `KeepsCacheContract`, a refinement | `"log" \notin Faults` |
| `ContractGivesPromises` | `KeepsCacheContract => []Clients!Promises` | |
| `ReadersLeaveService` | `StreamSpec => Spec` | |
| `PinnedReadsComplete` | `PinnedReadsNeverFail` | `"log" \notin Faults` |
| `StoreTypesKept` | `StoreTypeOK` | |
| `FilesKeepContract` | `ImplementsContract`, a refinement | |
| `ReportsStayNumberedApart` | `ReportsNumberedApart` | |
| `ReportsStayOnRecord` | `ReportsOnRecord` | |
| `AcceptedLayoutsPartition` | `ZeroBasedAcceptedIffPartition` | |
| `RepeatsMatchInAnyOrder` | `OrderOfRequestIgnored` | |

Each condition is what a finding or a listed disagreement shows to be needed: the
redo log of a failed commit (finding 4), the index rebuilt by a restart (finding 2),
a promotion that overfills its target (finding 3; `OverfillsByPromotionOnly` has no
condition and says that nothing else does, and `PlannedPromotionsKeepLimit` that only a
promotion which saw enough room at prepare does), lease versions after the deletion of a
namespace, a log record that fails after its entry was put or after its room was measured:
the mutex is then released, and the commit taken up again looks at neither the quota nor
the usage. Everything else, restarts and failing writes included, is allowed.

**`TypeInv`** adds to `TypeOK` that every redo log and the promotion in hand belong
to a recorded promotion (`LogsNamePromotions`) and that a promotion with an eviction
refers to a recorded decision (`PlansRecorded`); without them a step of a commit
could read a field a record does not have.

**`StorageInv`** is the inductive invariant behind the two storage theorems.
`PublishedReadable` alone is not inductive: `Complete` publishes what its session
has uploaded, and a promotion publishes a snapshot taken long before. So it goes
together with `ProtectedBlobsStored` (the blobs a later publish relies on are
stored), `SnapshotsMatch` (a promotion's frozen manifest concatenates to its frozen
digest) and `OpenLogsPrepared` (a promotion whose redo log may still write the target
is prepared, hence a root). The last one is what `"log"` breaks. Blobs are only
deleted by the collector, and what it deletes is disjoint from all four kinds of root.

**`DecisionInv`** is `TypeInv` with the freshness of both numberings and
`CommittedPromotionMadeRoom`: a fresh number cannot overwrite a decision that a
promotion refers to, so `RoomMade` once true stays true.

**`LiveIndexed`**: the index names every live session that has a key, so a second one
is never created under it. **`ResultsBehindLease`**: no recorded result is ahead of
its lease, so the next version is new. **`OpenLogsHoldNamespace`**: while no write
fails, a redo log that can still write is that of the commit in hand or of a start,
neither of which lets a namespace be deleted. Where writes fail,
**`OpenLogsOrphaned`** takes its place: an open log whose namespace is gone was open as
it went, since a commit begins only in a namespace that exists. **`AccessInv`**: the last access a
decision saw is not later than that of the entry it names, so a candidate the
re-check lets through is the entry the decision saw, not merely one no newer.
**`PublicationInv`**: an entry that names its origin was put by a promotion that says the
same, and a log or record that claims the entry is written is preceded by such a
promotion. **`HoldInv`**: without failing writes at most one commit is under way and
holds the mutex unless the process is starting, so no entry changes but by its own
writes (`OnlyCommitWrites`). On it rest **`StandInv`**, an entry put by a promotion stands
until its log says so, hence the write is neither repeated nor disowned; and
**`MeasuresStand`**, the limit, the entry to be replaced and the usage a commit has
measured are still those when it writes.
**`ReadersTyped`** carries `StorageInv` over to the readers: `ReadersLeaveService`
says that they change nothing the service could notice.

**`StoreInv`** says of each caller which step it is at, whom the mutex belongs to, that
the condition a conditional write checked still holds at its rename (`WriteReady`),
that a listing has found what it does not mention as changed (`WalkTrue`), and that a
half-migrated entry is the same in both places. Each system call is then either a
stutter or the moment one call of the contract takes effect (`ContractStep`).
**`LogInv`** says that the records of a report are on lines that have ended, which no
later append can spoil, and that the numbers of reports have been used up.

**`UsageInv`** is `TypeInv` and that finitely many slots are published
(`FinitelyPublished`; the constants may be infinite sets). The usage of a namespace is a
sum over a set, and what a sum does cannot be proved by induction here. So a sum is
taken for what it is: `SumSizes` counts the bytes of the entries, `BytesOf`, and adding
or removing an entry adds or removes a disjoint set, for which the theorems about
cardinalities suffice. Each step of `Next` treats the table of entries in one of three
ways (`TableStep`): it only removes entries or moves access times, it publishes within
the limit, or it puts a promotion's entry. **`PromotionsFollowRoutes`** makes `PromotionRoutes = {}` mean that
nothing is ever promoted.
**`ClientInv`** is `StorageInv` and `PlansInNamespace`: what an eviction deletes is of
one namespace, as the contract's `Evict` asks. Handlers that clients do not see change
none of the three maps; `StorageInv` gives each publication its stored chunks and each
collection its guard. That the contract is worth keeping is `ContractGivesPromises`.
**`CommitsAdvance`** has no induction: each write of a commit establishes the condition by
which the next step recognises it as done (`WritesTakeHold`), so the number of writes
left falls. It is the safety half of `CommitsEnd`: what is left to fairness is that a
handler goes on.
**`LayoutInv`** carries the verdict of `Normalize`. That the running sums accept exactly
the partitions looks at the first chunk that starts elsewhere than its predecessors end,
or the first byte that is in no chunk or in two: a set of naturals that is not empty has a
least element (`LeastNatural`, from the well-foundedness of inclusion on finite sets)
where a proof by induction would do the same. A sequence sorted by distinct indexes is
unique for its set of chunks (`AscendingIsUnique`), hence the order of a request is lost.

The action properties follow from these invariants step by step. The invariants of
`BuildCache` and the store that the theorems name were run through TLC before.

Model-checked only: the liveness properties (`GarbageIsCollected`, `CommitsEnd`,
`ServesAgain`, `MCOpensAgain`), which need fairness and `ENABLED`.

## Not modelled

- `api.go` decodes a request, makes one call and encodes its result.
- `GetPromotionDetail`, the status of a namespace, lists and lookups change nothing and
  promise nothing that could be set against another part; the references of a blob,
  which do, are in `Queries`.
- A crash of the machine: the file store syncs each file but not its directory, so what
  a rename leaves on disk then is up to the file system. `FileStore` is about crashes
  of the process, after which the files are as they were.
- Two processes on one directory, which the documentation does not provide for. The
  temporary files a crash leaves: no name is used twice and no listing reports them.
- The second look of `CollectGarbage` before each delete (`cache.go:923-933`), which
  under the mutex sees the state the mark saw: the model deletes at least as much.
- JSON, the order of a listing, file permissions. A `MemoryStore` is `StoreContract`
  itself: it does each call under one mutex.
- Digest parsing, hashing, error texts, formatting, flags, the HTTP server.
- A clock that goes back.

## Plan

1. Done: the modules, runs and proofs above, core first (state, eviction, uploads,
   collector), then leases, promotion, restarts, readers and chunk layout, then the
   store in files with its contract, the audit log and the queries; then the usage
   properties, the chunk layout and the contract with clients.
2. Next, proofs: the contract with clients extended to the readers; what a commit that a
   failing write interrupted may still exceed.
3. Next, models: the conservation equation of `GetPromotionDetail` as a pure definition;
   a crash of the machine, from an explicit assumption on what a rename leaves; a clock
   that goes back.
