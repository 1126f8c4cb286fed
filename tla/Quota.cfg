\* Three sessions publish artifacts of one and two bytes under three keys of a
\* namespace limited to two, between reads, pins and a manual eviction.
SPECIFICATION Spec
CONSTANTS
  s1 = s1
  s2 = s2
  s3 = s3
  Namespaces = {"default"}
  DefaultNamespace = "default"
  Keys = {1, 2, 3}
  SessionIds = {s1, s2, s3}
  IdemKeys = {}
  RequestIds = {}
  Blobs <- SizedBlobs
  Manifests <- SizedManifests
  Artifacts <- SizedArtifacts
  ArtifactOf <- SizedArtifactOf
  SizeOf <- SizedSizeOf
  InitialQuota <- LimitTwo
  QuotaChoices = {}
  StartupQuota = 0
  RemovableNamespaces = {}
  UploadRequests <- HonestUploads
  SessionLeases = {3}
  DefaultPinTTL = 1
  PinInputs <- PinsOfB
  EvictionNeeds = {1}
  PromotionRoutes = {}
  PromotionModes = {}
  Faults = {}
  MaxTime = 1
  MaxPinVersion = 1
  MaxDecisions = 1
  MaxPromotions = 0
INVARIANTS
  PinnedEntryKept
PROPERTIES
  UsageGrowsWithinQuota
  MakingRoomIsLRU
  RefusedOnlyWithoutRoom
  EvictionMatchesDecision
  CommittedDecisionsFinal
SYMMETRY Symmetry
