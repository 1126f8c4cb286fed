\* Promotions into a namespace without a limit that may be deleted meanwhile, with
\* failing writes between the steps of a commit.
SPECIFICATION Spec
CONSTANTS
  s1 = s1
  s2 = s2
  s3 = s3
  Namespaces = {"dev", "prod"}
  DefaultNamespace = "dev"
  Keys = {1}
  SessionIds = {s1, s2, s3}
  IdemKeys = {}
  RequestIds = {q1}
  Blobs <- SizedBlobs
  Manifests <- SizedManifests
  Artifacts <- SizedArtifacts
  ArtifactOf <- SizedArtifactOf
  SizeOf <- SizedSizeOf
  InitialQuota <- Unlimited
  QuotaChoices = {}
  StartupQuota = 0
  RemovableNamespaces = {"prod"}
  UploadRequests <- AnyUploads
  SessionLeases = {1}
  DefaultPinTTL = 1
  PinInputs <- NoPinInputs
  EvictionNeeds = {}
  PromotionRoutes <- ToProd
  PromotionModes = {"copy", "replace"}
  Faults = {"store", "log"}
  MaxTime = 0
  MaxPinVersion = 0
  MaxDecisions = 0
  MaxPromotions = 1
  q1 = q1
INVARIANTS
  PublishedReadable
  ProtectedBlobsStored
PROPERTIES
  ReferencesExplainCollection
  EntryVersionsGrow
SYMMETRY Symmetry
