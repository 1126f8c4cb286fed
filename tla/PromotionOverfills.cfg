\* A promotion prepared before the room it counts on is taken by an upload.
SPECIFICATION Spec
CONSTANTS
  s1 = s1
  s2 = s2
  Namespaces = {"dev", "prod"}
  DefaultNamespace = "dev"
  Keys = {1, 2}
  SessionIds = {s1, s2}
  IdemKeys = {}
  RequestIds = {}
  Blobs <- SizedBlobs
  Manifests <- SizedManifests
  Artifacts <- SizedArtifacts
  ArtifactOf <- SizedArtifactOf
  SizeOf <- SizedSizeOf
  InitialQuota <- ProdLimitTwo
  QuotaChoices = {}
  StartupQuota = 0
  RemovableNamespaces = {}
  UploadRequests <- SourceAndRival
  SessionLeases = {1}
  DefaultPinTTL = 1
  PinInputs <- NoPinInputs
  EvictionNeeds = {}
  PromotionRoutes <- ToProd
  PromotionModes = {"copy"}
  Faults = {}
  MaxTime = 0
  MaxPinVersion = 0
  MaxDecisions = 0
  MaxPromotions = 1
PROPERTIES
  UsageGrowsWithinQuota
