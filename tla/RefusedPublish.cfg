\* An artifact larger than the quota of its namespace.
SPECIFICATION Spec
CONSTANTS
  s1 = s1
  s2 = s2
  Namespaces = {"default"}
  DefaultNamespace = "default"
  Keys = {1, 2}
  SessionIds = {s1, s2}
  IdemKeys = {}
  RequestIds = {}
  Blobs <- SizedBlobs
  Manifests <- SizedManifests
  Artifacts <- SizedArtifacts
  ArtifactOf <- SizedArtifactOf
  SizeOf <- SizedSizeOf
  InitialQuota <- LimitOne
  QuotaChoices = {}
  StartupQuota = 0
  RemovableNamespaces = {}
  UploadRequests <- AnyUploads
  SessionLeases = {1}
  DefaultPinTTL = 1
  PinInputs <- NoPinInputs
  EvictionNeeds = {}
  PromotionRoutes = {}
  PromotionModes = {}
  Faults = {}
  MaxTime = 0
  MaxPinVersion = 0
  MaxDecisions = 1
  MaxPromotions = 0
PROPERTIES
  RefusedPublishKeepsEntries
