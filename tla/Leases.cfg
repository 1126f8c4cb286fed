\* Two recorded pin requests, one with a version condition, on a key that is published,
\* overwritten, collected and read chunk by chunk while leases end.
SPECIFICATION StreamSpec
CONSTANTS
  s1 = s1
  s2 = s2
  Namespaces = {"default"}
  DefaultNamespace = "default"
  Keys = {1}
  SessionIds = {s1, s2}
  IdemKeys = {}
  RequestIds = {q1, q2}
  Blobs <- PlainBlobs
  Manifests <- PlainManifests
  Artifacts <- ChunkedArtifacts
  ArtifactOf <- PlainArtifactOf
  SizeOf <- ChunkedSizeOf
  InitialQuota <- Unlimited
  QuotaChoices = {}
  StartupQuota = 0
  RemovableNamespaces = {}
  UploadRequests <- HonestUploads
  SessionLeases = {3}
  DefaultPinTTL = 1
  PinInputs <- ConditionalPins
  EvictionNeeds = {}
  PromotionRoutes = {}
  PromotionModes = {}
  Faults = {}
  MaxTime = 2
  MaxPinVersion = 3
  MaxDecisions = 0
  MaxPromotions = 0
  ReaderIds = {r1}
  q1 = q1
  q2 = q2
  r1 = r1
INVARIANTS
  TypeOK
  ProtectedBlobsStored
  LeaseVersionsIssuedOnce
PROPERTIES
  LeaseBeginsOnPublished
  LeaseVersionsGrow
  PinnedReadsNeverFail
SYMMETRY Symmetry
