\* A promotion that needs room in a namespace with a limit, interrupted and restarted
\* while entries are read, pinned, evicted, published and collected and its target, once
\* emptied, may be deleted; what it publishes is counted.
SPECIFICATION HistorySpec
CONSTANTS
  s1 = s1
  s2 = s2
  Namespaces = {"dev", "prod"}
  DefaultNamespace = "dev"
  Keys = {1, 2}
  SessionIds = {s1, s2}
  IdemKeys = {}
  RequestIds = {}
  Blobs <- SizedBlobs
  Manifests <- SizedManifests
  Artifacts <- SizedArtifacts
  ArtifactOf <- SizedArtifactOf
  SizeOf <- SizedSizeOf
  InitialQuota <- ProdLimitTwo
  QuotaChoices = {}
  StartupQuota = 1
  RemovableNamespaces = {"prod"}
  UploadRequests <- SourceAndNeighbour
  SessionLeases = {2}
  DefaultPinTTL = 1
  PinInputs <- PinsOfA
  EvictionNeeds = {}
  PromotionRoutes <- ToProd
  PromotionModes = {"copy"}
  Faults = {"store", "restart"}
  MaxTime = 1
  MaxPinVersion = 1
  MaxDecisions = 1
  MaxPromotions = 1
INVARIANTS
  CommittedPromotionMadeRoom
  DecisionIdsFresh
  CommittedWasPublished
  EntriesInNamespaces
PROPERTIES
  EvictionMatchesDecision
  PromotionOutcomeFinal
  PublishesOnce
  CommitAdvances
  KeepsCacheContract
SYMMETRY Symmetry
