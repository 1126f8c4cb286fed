\* A commit that evicts, fails for lack of room, and is taken up again at start-up after
\* the content it froze was collected.
SPECIFICATION Spec
CONSTANTS
  s1 = s1
  s2 = s2
  s3 = s3
  Namespaces = {"dev", "prod"}
  DefaultNamespace = "dev"
  Keys = {1, 2, 3}
  SessionIds = {s1, s2, s3}
  IdemKeys = {}
  RequestIds = {}
  Blobs <- SizedBlobs
  Manifests <- SizedManifests
  Artifacts <- SizedArtifacts
  ArtifactOf <- SizedArtifactOf
  SizeOf <- SizedSizeOf
  InitialQuota <- ProdLimitTwo
  QuotaChoices = {}
  StartupQuota = 0
  RemovableNamespaces = {}
  UploadRequests <- SourceAndNeighbours
  SessionLeases = {1}
  DefaultPinTTL = 1
  PinInputs <- NoPinInputs
  EvictionNeeds = {1}
  PromotionRoutes <- ToProd
  PromotionModes = {"copy"}
  Faults = {"restart", "log"}
  MaxTime = 0
  MaxPinVersion = 0
  MaxDecisions = 3
  MaxPromotions = 1
INVARIANTS
  PublishedReadable
SYMMETRY Symmetry
