\* Liveness: uploads are abandoned, leases end, a promotion needs room that is taken
\* before its commit, and the process is killed and started again.
SPECIFICATION FairSpec
CONSTANTS
  s1 = s1
  s2 = s2
  s3 = s3
  Namespaces = {"dev", "prod"}
  DefaultNamespace = "dev"
  Keys = {1, 2, 3}
  SessionIds = {s1, s2, s3}
  IdemKeys = {}
  RequestIds = {}
  Blobs <- SizedBlobs
  Manifests <- SizedManifests
  Artifacts <- SizedArtifacts
  ArtifactOf <- SizedArtifactOf
  SizeOf <- SizedSizeOf
  InitialQuota <- ProdLimitTwo
  QuotaChoices = {}
  StartupQuota = 0
  RemovableNamespaces = {}
  UploadRequests <- SourceAndNeighbours
  SessionLeases = {1}
  DefaultPinTTL = 1
  PinInputs <- PinsOfA
  EvictionNeeds = {}
  PromotionRoutes <- ToProd
  PromotionModes = {"copy"}
  Faults = {"restart"}
  MaxTime = 1
  MaxPinVersion = 1
  MaxDecisions = 1
  MaxPromotions = 1
PROPERTIES
  PlannedPromotionsFit
  GarbageIsCollected
  CommitsEnd
  ServesAgain
