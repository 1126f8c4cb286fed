\* Three sessions upload two artifacts that share a chunk, one of them in two chunkings,
\* under one key and one idempotency key, with expiry, collections and failing writes.
SPECIFICATION Spec
CONSTANTS
  s1 = s1
  s2 = s2
  s3 = s3
  Namespaces = {"default"}
  DefaultNamespace = "default"
  Keys = {1}
  SessionIds = {s1, s2, s3}
  IdemKeys = {"i"}
  RequestIds = {}
  Blobs <- ChunkedBlobs
  Manifests <- ChunkedManifests
  Artifacts <- ChunkedArtifacts
  ArtifactOf <- ChunkedArtifactOf
  SizeOf <- ChunkedSizeOf
  InitialQuota <- Unlimited
  QuotaChoices = {}
  StartupQuota = 0
  RemovableNamespaces = {}
  UploadRequests <- HonestUploads
  SessionLeases = {1}
  DefaultPinTTL = 1
  PinInputs <- NoPinInputs
  EvictionNeeds = {}
  PromotionRoutes = {}
  PromotionModes = {}
  Faults = {"store"}
  MaxTime = 1
  MaxPinVersion = 0
  MaxDecisions = 0
  MaxPromotions = 0
INVARIANTS
  PublishedReadable
  ProtectedBlobsStored
  IdemKeyNamesOneSession
PROPERTIES
  SessionsNeverRevive
SYMMETRY Symmetry
