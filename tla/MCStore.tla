------------------------------ MODULE MCStore ------------------------------
(***************************************************************************)
(* FileStore on two callers and one name of each collection that differs in*)
(* how it is written or listed, and AuditLog.  The objects and the log have*)
(* no file and no call in common, so a run explores one or the other.      *)
(***************************************************************************)
EXTENDS FileStore, AuditLog

CONSTANTS p1, p2, blob, entry, session, v1, v2, x1

MCCollectionOf ==
  [n \in Names |-> CASE n = blob -> Blobs [] n = entry -> Entries [] n = session -> Sessions]

MCVersionOf == [v \in Values |-> IF v = v1 THEN 1 ELSE 2]

\* An entry is created as v1, and v1 is replaced by v2.
MCClientCalls ==
  {[op |-> "put", name |-> blob, value |-> BlobContent, want |-> OnlyNew],
   [op |-> "put", name |-> entry, value |-> v1, want |-> OnlyNew],
   [op |-> "put", name |-> entry, value |-> v2, want |-> 1],
   [op |-> "put", name |-> session, value |-> v1, want |-> OnlyNew],
   [op |-> "delete", name |-> blob],
   [op |-> "delete", name |-> entry],
   [op |-> "get", name |-> entry],
   [op |-> "list", collection |-> Blobs],
   [op |-> "list", collection |-> Entries]}

AllStoreFaults == {"crash", "write"}

VARIABLE part   \* "objects" or "log"

MCVars == <<storeVars, logVars, part>>

MCInit ==
  /\ Init
  /\ LogInit
  /\ part \in {"objects", "log"}

MCNext ==
  \/ part = "objects" /\ Next /\ UNCHANGED <<logVars, part>>
  \/ part = "log" /\ LogNext /\ UNCHANGED <<storeVars, part>>

MCSpec == MCInit /\ [][MCNext]_MCVars /\ WF_storeVars(part = "objects" /\ OpenStep)

MCOpensAgain == part = "objects" => OpensAgain
=============================================================================
