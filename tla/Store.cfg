\* Two callers whose system calls interleave, crash and fail, on a store that may hold
\* an entry of an earlier version; and the audit log through torn records and restarts.
SPECIFICATION MCSpec
CONSTANTS
  p1 = p1
  p2 = p2
  blob = blob
  entry = entry
  session = session
  v1 = v1
  v2 = v2
  Callers = {p1, p2}
  Names = {blob, entry, session}
  Values = {v1, v2}
  CollectionOf <- MCCollectionOf
  VersionOf <- MCVersionOf
  ClientCalls <- MCClientCalls
  LegacyNames = {entry}
  StoreFaults <- AllStoreFaults
  Garbage = {x1}
  MaxGeneration = 3
  MaxLines = 5
  x1 = x1
INVARIANTS
  StoreTypeOK
  ReportsNumberedApart
  ReportsOnRecord
PROPERTIES
  ImplementsContract
  MCOpensAgain
