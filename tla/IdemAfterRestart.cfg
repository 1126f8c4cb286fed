\* A restart while an expired session and a live one share an idempotency key.
SPECIFICATION Spec
CONSTANTS
  s1 = s1
  s2 = s2
  s3 = s3
  Namespaces = {"default"}
  DefaultNamespace = "default"
  Keys = {1}
  SessionIds = {s1, s2, s3}
  IdemKeys = {"i"}
  RequestIds = {}
  Blobs <- OneBlob
  Manifests <- OneManifest
  Artifacts <- OneArtifact
  ArtifactOf <- OneArtifactOf
  SizeOf <- OneSizeOf
  InitialQuota <- Unlimited
  QuotaChoices = {}
  StartupQuota = 0
  RemovableNamespaces = {}
  UploadRequests <- AnyUploads
  SessionLeases = {1, 2}
  DefaultPinTTL = 1
  PinInputs <- NoPinInputs
  EvictionNeeds = {}
  PromotionRoutes = {}
  PromotionModes = {}
  Faults = {"restart"}
  MaxTime = 1
  MaxPinVersion = 0
  MaxDecisions = 0
  MaxPromotions = 0
INVARIANTS
  IdemKeyNamesOneSession
