----------------------------- MODULE StoreProofs -----------------------------
(***************************************************************************)
(* The store that keeps its objects in files implements the contract of a  *)
(* store, for every set of callers, names, values and calls; and what its  *)
(* audit log keeps of the collections that were reported.                  *)
(***************************************************************************)
EXTENDS FileStore, AuditLog, SequenceTheorems, TLAPS

-----------------------------------------------------------------------------
(* What the calls of clients are. *)

LEMMA CallFields ==
  ASSUME NEW c \in ClientCalls
  PROVE  /\ c.op \in {"put", "delete", "get", "list"}
         /\ c.op \in {"put", "delete", "get"} => c.name \in Names
         /\ c.op = "put" => /\ c.value \in Contents
                            /\ c.value \in Holds(c.name)
                            /\ c.value # Absent
         /\ c.op = "put" /\ CollectionOf[c.name] = Blobs => c.value = BlobContent
         /\ c.op = "list" => c.collection \in Collections
         /\ c # NoCall
<1>1. c \in PutCalls \cup DeleteCalls \cup GetCalls \cup ListCalls
  BY StoreAssumption DEF StoreAssumption
<1>2. CASE c \in PutCalls
  <2>1. /\ c.op = "put" /\ c.name \in Names /\ c.value \in Contents
        /\ CollectionOf[c.name] = Blobs <=> c.value = BlobContent
    BY <1>2 DEF PutCalls
  <2>2. c.value \in Holds(c.name) /\ c.value # Absent
    BY <2>1, StoreAssumption DEF StoreAssumption, Holds, Contents
  <2> QED BY <2>1, <2>2 DEF NoCall
<1>3. CASE c \in DeleteCalls
  BY <1>3 DEF DeleteCalls, NoCall
<1>4. CASE c \in GetCalls
  BY <1>4 DEF GetCalls, NoCall
<1>5. CASE c \in ListCalls
  BY <1>5 DEF ListCalls, NoCall
<1> QED BY <1>1, <1>2, <1>3, <1>4, <1>5

LEMMA AnswerTypes ==
  /\ Pending \in Answers /\ Done \in Answers /\ ConditionFailed \in Answers /\ Failed \in Answers
  /\ Done # Pending /\ ConditionFailed # Pending /\ Failed # Pending
  /\ \A v \in Contents \cup {Absent} : Found(v) \in Answers /\ Found(v) # Pending
  /\ \A col \in Collections : \A f \in [In(col) -> Contents \cup {Absent}] :
       Listed(f) \in Answers /\ Listed(f) # Pending
<1>1. /\ Done # Pending /\ ConditionFailed # Pending /\ Failed # Pending
      /\ \A v : Found(v) # Pending /\ Listed(v) # Pending
  <2>1. /\ Pending.status = "pending" /\ Done.status = "ok" /\ Failed.status = "error"
        /\ ConditionFailed.status = "condition_failed"
        /\ \A v : Found(v).status = "found" /\ Listed(v).status = "listed"
    BY DEF Done, Pending, ConditionFailed, Failed, Found, Listed
  <2> QED BY <2>1
<1> QED BY <1>1 DEF Answers

-----------------------------------------------------------------------------
(* The invariant the refinement rests on. *)

Writing == {"check", "create", "write", "rename"}

\* A call is at a step of its own kind, and whoever changes anything but a blob holds
\* the mutex from the first look at it to the answer.
CallAt(p) ==
  /\ calls[p] # NoCall => running = "open"
  /\ steps[p] \in Writing => calls[p].op = "put"
  /\ steps[p] = "remove" => calls[p].op = "delete"
  /\ steps[p] = "list" => calls[p].op = "list"
  /\ steps[p] \in Writing \cup {"remove"} /\ ~ IsBlob(calls[p]) => lock = p

\* What the check of a conditional write found still holds when the file is renamed.
WriteReady(p) ==
  /\ steps[p] \in {"create", "write", "rename"} => Allowed(calls[p], files[calls[p].name])
  /\ steps[p] = "rename" => temps[p] = calls[p].value

\* A listing has told the truth of every object it has passed and that did not change.
WalkTrue(p) ==
  LET w == walks[p]
  IN  IF steps[p] = "list"
      THEN /\ w.ahead \cap w.unread = {}
           /\ \A n \in w.ahead : w.found[n] = Absent
           /\ \A n \in In(calls[p].collection) \ touched[p] :
                n \notin w.ahead \cup w.unread => w.found[n] = files[n]
      ELSE w = NoWalk

\* No call is made before the files of an earlier version are gone, and a file is
\* removed only when its entry is where it belongs.
Migrated ==
  /\ running = "open" => \A n \in Names : legacy[n] = Absent
  /\ migrating # NoName => running = "opening" /\ files[migrating] = legacy[migrating]

StoreInv ==
  /\ StoreTypeOK
  /\ \A p \in Callers : CallAt(p) /\ WriteReady(p) /\ WalkTrue(p)
  /\ Migrated

-----------------------------------------------------------------------------
(* Types. *)

LEMMA InitStoreType == Init => StoreTypeOK
<1> SUFFICES ASSUME Init PROVE StoreTypeOK
  OBVIOUS
<1>1. NoWalk \in Walk
  BY DEF NoWalk, Walk
<1>2. \A n \in Names : files[n] \in Holds(n) /\ legacy[n] \in Holds(n)
  <2> SUFFICES ASSUME NEW n \in Names PROVE files[n] \in Holds(n) /\ legacy[n] \in Holds(n)
    OBVIOUS
  <2>1. CASE n \in LegacyNames
    <3>1. CollectionOf[n] # Blobs
      BY <2>1, FileStoreAssumption DEF FileStoreAssumption, In, Entries, Blobs
    <3> QED BY <3>1 DEF Init, Holds
  <2>2. CASE n \notin LegacyNames
    BY <2>2 DEF Init, Holds
  <2> QED BY <2>1, <2>2
<1> QED
  BY <1>1, <1>2, AnswerTypes DEF Init, StoreTypeOK, Steps, Contents, NoFile, NoName, Nobody

\* Reading a directory moves its names from those ahead to those to be read.
LEMMA DirectoryRead ==
  ASSUME StoreTypeOK, NEW p \in Callers, ReadDirectory(p)
  PROVE  /\ walks' \in [Callers -> Walk]
         /\ \A q \in Callers \ {p} : walks'[q] = walks[q]
         /\ \E dir \in SUBSET walks[p].ahead : \E T \in SUBSET Callers :
              walks'[p] = [walks[p] EXCEPT !.ahead = @ \ dir,
                                      !.unread = {n \in dir : files[n] # Absent},
                                      !.temps = T]
<1>1. PICK dir \in SUBSET walks[p].ahead, T \in SUBSET Callers :
        walks' = [walks EXCEPT ![p].ahead = @ \ dir,
                               ![p].unread = {n \in dir : files[n] # Absent},
                               ![p].temps = T]
  BY DEF ReadDirectory
<1>2. walks[p] \in Walk
  BY DEF StoreTypeOK
<1>3. walks'[p] = [walks[p] EXCEPT !.ahead = @ \ dir, !.unread = {n \in dir : files[n] # Absent},
                                   !.temps = T]
  BY <1>1 DEF StoreTypeOK
<1>4. walks'[p] \in Walk
  BY <1>2, <1>3 DEF Walk
<1>5. walks' \in [Callers -> Walk]
  BY <1>1, <1>4 DEF StoreTypeOK
<1>6. \A q \in Callers \ {p} : walks'[q] = walks[q]
  BY <1>1 DEF StoreTypeOK
<1> QED BY <1>3, <1>5, <1>6

\* One step per action; under it, what is not a matter of course.
LEMMA StoreTypeStep ==
  ASSUME StoreInv, [Next]_storeVars
  PROVE  StoreTypeOK'
<1> USE DEF StoreInv
<1>0. /\ NoWalk \in Walk /\ NoCall \notin ClientCalls
      /\ "idle" \in Steps /\ "begin" \in Steps /\ "check" \in Steps /\ "create" \in Steps
      /\ "write" \in Steps /\ "rename" \in Steps /\ "remove" \in Steps /\ "list" \in Steps
      /\ "end" \in Steps /\ NoFile # Partial /\ NoFile \notin Contents
  BY CallFields, FileStoreAssumption DEF NoWalk, Walk, Steps, NoFile, Partial, FileStoreAssumption
<1>1. CASE UNCHANGED storeVars
  BY <1>1 DEF storeVars, fileVars, callVars, openVars, StoreTypeOK
<1>2. ASSUME NEW p \in Callers, NEW c \in ClientCalls, Begin(p, c) PROVE StoreTypeOK'
  BY <1>0, <1>2 DEF Begin, GoTo, StoreTypeOK, fileVars, openVars
<1>3. ASSUME NEW p \in Callers, StatBlob(p) PROVE StoreTypeOK'
  <2>1. CASE files[calls[p].name] # Absent
    BY <1>0, <1>3, <2>1, AnswerTypes DEF StatBlob, At, Finish, GoTo, StoreTypeOK, fileVars, openVars
  <2>2. CASE files[calls[p].name] = Absent
    BY <1>0, <1>3, <2>2, AnswerTypes DEF StatBlob, At, Finish, GoTo, StoreTypeOK, fileVars, openVars
  <2> QED BY <2>1, <2>2
<1>4. ASSUME NEW p \in Callers, TakeLock(p) PROVE StoreTypeOK'
  BY <1>0, <1>4 DEF TakeLock, At, GoTo, StoreTypeOK, fileVars, openVars
<1>5. ASSUME NEW p \in Callers, CheckEntry(p) PROVE StoreTypeOK'
  <2>1. CASE Allowed(calls[p], files[calls[p].name])
    BY <1>0, <1>5, <2>1 DEF CheckEntry, At, Finish, GoTo, StoreTypeOK, fileVars, openVars
  <2>2. CASE ~ Allowed(calls[p], files[calls[p].name])
    BY <1>0, <1>5, <2>2, AnswerTypes
    DEF CheckEntry, At, Finish, GoTo, StoreTypeOK, fileVars, openVars
  <2> QED BY <2>1, <2>2
<1>6. ASSUME NEW p \in Callers, CreateTemp(p) PROVE StoreTypeOK'
  BY <1>0, <1>6 DEF CreateTemp, At, GoTo, StoreTypeOK, openVars
<1>7. ASSUME NEW p \in Callers, WriteTemp(p) PROVE StoreTypeOK'
  <2>1. calls[p] \in ClientCalls /\ calls[p].op = "put"
    BY <1>7 DEF WriteTemp, At, StoreTypeOK, CallAt, Writing
  <2>2. calls[p].value \in Contents
    BY <2>1, CallFields
  <2> QED BY <1>0, <1>7, <2>2 DEF WriteTemp, At, GoTo, StoreTypeOK, openVars
<1>8. ASSUME NEW p \in Callers, Rename(p) PROVE StoreTypeOK'
  <2>1. calls[p] \in ClientCalls /\ calls[p].op = "put" /\ temps[p] = calls[p].value
    BY <1>8 DEF Rename, At, StoreTypeOK, CallAt, WriteReady, Writing
  <2>2. calls[p].value \in Contents /\ calls[p].name \in Names /\ calls[p].value \in Holds(calls[p].name)
    BY <2>1, CallFields
  <2>3. touched' \in [Callers -> SUBSET Names]
    BY <1>8, <2>2 DEF Rename, NoteChange, StoreTypeOK
  <2> QED
    BY <1>0, <1>8, <2>1, <2>2, <2>3, AnswerTypes DEF Rename, At, Finish, GoTo, StoreTypeOK, openVars
<1>9. ASSUME NEW p \in Callers, RemoveFile(p) PROVE StoreTypeOK'
  <2>1. calls[p] \in ClientCalls /\ calls[p].op = "delete"
    BY <1>9 DEF RemoveFile, At, StoreTypeOK, CallAt
  <2>2. calls[p].name \in Names
    BY <2>1, CallFields
  <2>3. touched' \in [Callers -> SUBSET Names]
    BY <1>9, <2>2 DEF RemoveFile, NoteChange, StoreTypeOK
  <2> QED
    BY <1>0, <1>9, <2>2, <2>3, AnswerTypes
    DEF RemoveFile, At, Finish, GoTo, StoreTypeOK, openVars, Holds
<1>10. ASSUME NEW p \in Callers, ReadFile(p) PROVE StoreTypeOK'
  <2>1. calls[p].name \in Names
    BY <1>10, CallFields DEF ReadFile, At, StoreTypeOK
  <2>2. Found(files[calls[p].name]) \in Answers /\ Found(files[calls[p].name]) # Pending
    BY <2>1, AnswerTypes DEF StoreTypeOK
  <2> QED BY <1>0, <1>10, <2>2 DEF ReadFile, At, Finish, GoTo, StoreTypeOK, fileVars, openVars
<1>11. ASSUME NEW p \in Callers, OpenTree(p) PROVE StoreTypeOK'
  <2>1. [walks[p] EXCEPT !.ahead = In(calls[p].collection)] \in Walk
    <3>1. walks[p] \in Walk /\ In(calls[p].collection) \in SUBSET Names
      BY DEF StoreTypeOK, In
    <3> QED BY <3>1 DEF Walk
  <2> QED BY <1>0, <1>11, <2>1 DEF OpenTree, At, GoTo, StoreTypeOK, fileVars, openVars
<1>12. ASSUME NEW p \in Callers, ReadDirectory(p) PROVE StoreTypeOK'
  <2>1. walks' \in [Callers -> Walk]
    BY <1>12, DirectoryRead
  <2> QED BY <1>12, <2>1 DEF ReadDirectory, StoreTypeOK, fileVars, openVars
<1>13. ASSUME NEW p \in Callers, NEW n \in Names, ReadListed(p, n) PROVE StoreTypeOK'
  <2>1. walks[p] \in Walk /\ files[n] \in Contents \cup {Absent}
    BY DEF StoreTypeOK
  <2>2. [walks[p] EXCEPT !.unread = @ \ {n}, !.found[n] = files[n]] \in Walk
    BY <2>1 DEF Walk
  <2>3. walks' \in [Callers -> Walk]
    BY <1>13, <2>2 DEF ReadListed, StoreTypeOK
  <2> QED BY <1>13, <2>3 DEF ReadListed, StoreTypeOK, fileVars, openVars
<1>14. ASSUME NEW p \in Callers, NEW q \in Callers, StatTemp(p, q) PROVE StoreTypeOK'
  <2>1. walks[p] \in Walk
    BY DEF StoreTypeOK
  <2>2. [walks[p] EXCEPT !.temps = @ \ {q}] \in Walk
    BY <2>1 DEF Walk
  <2>3. walks' \in [Callers -> Walk]
    BY <1>14, <2>2 DEF StatTemp, StoreTypeOK
  <2> QED BY <1>14, <2>3 DEF StatTemp, StoreTypeOK, fileVars, openVars
<1>15. ASSUME NEW p \in Callers, MeetVanished(p) PROVE StoreTypeOK'
  BY <1>0, <1>15, AnswerTypes
  DEF MeetVanished, Listing, At, Finish, GoTo, StoreTypeOK, fileVars, openVars
<1>16. ASSUME NEW p \in Callers, FinishListing(p) PROVE StoreTypeOK'
  <2> DEFINE found == [n \in In(calls[p].collection) |-> walks[p].found[n]]
  <2>1. calls[p] \in ClientCalls /\ calls[p].op = "list"
    BY <1>16 DEF FinishListing, Listing, At, StoreTypeOK, CallAt
  <2>2. calls[p].collection \in Collections /\ In(calls[p].collection) \subseteq Names
    BY <2>1, CallFields DEF In
  <2>3. found \in [In(calls[p].collection) -> Contents \cup {Absent}]
    BY <2>2 DEF StoreTypeOK, Walk
  <2>4. Listed(found) \in Answers /\ Listed(found) # Pending
    BY <2>2, <2>3, AnswerTypes
  <2> QED
    BY <1>0, <1>16, <2>4 DEF FinishListing, Listing, At, Finish, GoTo, StoreTypeOK, fileVars, openVars
<1>17. ASSUME NEW p \in Callers, FailCall(p) PROVE StoreTypeOK'
  BY <1>0, <1>17, AnswerTypes DEF FailCall, Finish, GoTo, StoreTypeOK, openVars
<1>18. ASSUME NEW p \in Callers, Return(p) PROVE StoreTypeOK'
  BY <1>0, <1>18, AnswerTypes DEF Return, At, GoTo, StoreTypeOK, fileVars, openVars
<1>19. CASE Open
  BY <1>19 DEF Open, StoreTypeOK, fileVars, callVars
<1>20. ASSUME NEW n \in Names, MigrateEntry(n) PROVE StoreTypeOK'
  BY <1>20 DEF MigrateEntry, StoreTypeOK, callVars
<1>21. CASE RemoveLegacy
  BY <1>21 DEF RemoveLegacy, StoreTypeOK, callVars, Holds
<1>22. CASE FinishOpen
  BY <1>22 DEF FinishOpen, StoreTypeOK, fileVars, callVars
<1>23. CASE FailOpen
  BY <1>23 DEF FailOpen, StoreTypeOK, callVars
<1>24. CASE Crash
  BY <1>0, <1>24, AnswerTypes DEF Crash, StoreTypeOK
<1> QED
  BY <1>1, <1>2, <1>3, <1>4, <1>5, <1>6, <1>7, <1>8, <1>9, <1>10, <1>11, <1>12, <1>13, <1>14,
     <1>15, <1>16, <1>17, <1>18, <1>19, <1>20, <1>21, <1>22, <1>23, <1>24
  DEF Next, CallStep, OpenStep

\* A caller stays at steps of its call, and nobody takes the mutex from it.
LEMMA CallAtStep ==
  ASSUME StoreInv, [Next]_storeVars, NEW q \in Callers
  PROVE  CallAt(q)'
<1> USE DEF StoreInv, StoreTypeOK, CallAt, Writing, IsBlob, NeedsLock, fileVars, callVars, openVars
<1>1. CASE UNCHANGED storeVars
  BY <1>1 DEF storeVars
<1>2. ASSUME NEW p \in Callers, NEW c \in ClientCalls, Begin(p, c) PROVE CallAt(q)'
  BY <1>2 DEF Begin, GoTo
<1>3. ASSUME NEW p \in Callers, StatBlob(p) PROVE CallAt(q)'
  BY <1>3 DEF StatBlob, GoTo, Finish, At
<1>4. ASSUME NEW p \in Callers, TakeLock(p) PROVE CallAt(q)'
  BY <1>4, FileStoreAssumption DEF TakeLock, GoTo, At, FileStoreAssumption, Nobody
<1>5. ASSUME NEW p \in Callers, CheckEntry(p) PROVE CallAt(q)'
  BY <1>5 DEF CheckEntry, GoTo, Finish, At
<1>6. ASSUME NEW p \in Callers, CreateTemp(p) PROVE CallAt(q)'
  BY <1>6 DEF CreateTemp, GoTo, At
<1>7. ASSUME NEW p \in Callers, WriteTemp(p) PROVE CallAt(q)'
  BY <1>7 DEF WriteTemp, GoTo, At
<1>8. ASSUME NEW p \in Callers, Rename(p) PROVE CallAt(q)'
  BY <1>8 DEF Rename, GoTo, Finish, At, NoteChange
<1>9. ASSUME NEW p \in Callers, RemoveFile(p) PROVE CallAt(q)'
  BY <1>9 DEF RemoveFile, GoTo, Finish, At, NoteChange
<1>10. ASSUME NEW p \in Callers, ReadFile(p) PROVE CallAt(q)'
  BY <1>10 DEF ReadFile, GoTo, Finish, At
<1>11. ASSUME NEW p \in Callers, OpenTree(p) PROVE CallAt(q)'
  BY <1>11 DEF OpenTree, GoTo, At
<1>12. ASSUME NEW p \in Callers, ReadDirectory(p) PROVE CallAt(q)'
  BY <1>12 DEF ReadDirectory, Listing, At
<1>13. ASSUME NEW p \in Callers, NEW n \in Names, ReadListed(p, n) PROVE CallAt(q)'
  BY <1>13 DEF ReadListed, Listing, At
<1>14. ASSUME NEW p \in Callers, NEW r \in Callers, StatTemp(p, r) PROVE CallAt(q)'
  BY <1>14 DEF StatTemp, Listing, At
<1>15. ASSUME NEW p \in Callers, MeetVanished(p) PROVE CallAt(q)'
  BY <1>15 DEF MeetVanished, GoTo, Finish, Listing, At
<1>16. ASSUME NEW p \in Callers, FinishListing(p) PROVE CallAt(q)'
  BY <1>16 DEF FinishListing, GoTo, Finish, Listing, At
<1>17. ASSUME NEW p \in Callers, FailCall(p) PROVE CallAt(q)'
  BY <1>17 DEF FailCall, GoTo, Finish
<1>18. ASSUME NEW p \in Callers, Return(p) PROVE CallAt(q)'
  BY <1>18 DEF Return, GoTo, At
<1>19. CASE Open
  BY <1>19 DEF Open
<1>20. ASSUME NEW n \in Names, MigrateEntry(n) PROVE CallAt(q)'
  BY <1>20 DEF MigrateEntry
<1>21. CASE RemoveLegacy
  BY <1>21 DEF RemoveLegacy
<1>22. CASE FinishOpen
  BY <1>22 DEF FinishOpen
<1>23. CASE FailOpen
  BY <1>23 DEF FailOpen
<1>24. CASE Crash
  BY <1>24 DEF Crash
<1> QED
  BY <1>1, <1>2, <1>3, <1>4, <1>5, <1>6, <1>7, <1>8, <1>9, <1>10, <1>11, <1>12,
     <1>13, <1>14, <1>15, <1>16, <1>17, <1>18, <1>19, <1>20, <1>21, <1>22, <1>23, <1>24
  DEF Next, CallStep, OpenStep

\* Opening moves one entry at a time; a store that is open has none left to move.
LEMMA MigratedStep ==
  ASSUME StoreInv, [Next]_storeVars
  PROVE  Migrated'
<1> USE DEF StoreInv, StoreTypeOK, Migrated, fileVars, callVars, openVars
<1>1. CASE UNCHANGED storeVars
  BY <1>1 DEF storeVars
<1>2. ASSUME NEW p \in Callers, NEW c \in ClientCalls, Begin(p, c) PROVE Migrated'
  BY <1>2 DEF Begin, GoTo
<1>3. ASSUME NEW p \in Callers, StatBlob(p) PROVE Migrated'
  BY <1>3 DEF StatBlob, GoTo, Finish, At
<1>4. ASSUME NEW p \in Callers, TakeLock(p) PROVE Migrated'
  BY <1>4 DEF TakeLock, GoTo, At
<1>5. ASSUME NEW p \in Callers, CheckEntry(p) PROVE Migrated'
  BY <1>5 DEF CheckEntry, GoTo, Finish, At
<1>6. ASSUME NEW p \in Callers, CreateTemp(p) PROVE Migrated'
  BY <1>6 DEF CreateTemp, GoTo, At
<1>7. ASSUME NEW p \in Callers, WriteTemp(p) PROVE Migrated'
  BY <1>7 DEF WriteTemp, GoTo, At
<1>8. ASSUME NEW p \in Callers, Rename(p) PROVE Migrated'
  BY <1>8 DEF Rename, GoTo, Finish, At, CallAt
<1>9. ASSUME NEW p \in Callers, RemoveFile(p) PROVE Migrated'
  BY <1>9 DEF RemoveFile, GoTo, Finish, At, CallAt
<1>10. ASSUME NEW p \in Callers, ReadFile(p) PROVE Migrated'
  BY <1>10 DEF ReadFile, GoTo, Finish, At
<1>11. ASSUME NEW p \in Callers, OpenTree(p) PROVE Migrated'
  BY <1>11 DEF OpenTree, GoTo, At
<1>12. ASSUME NEW p \in Callers, ReadDirectory(p) PROVE Migrated'
  BY <1>12 DEF ReadDirectory, Listing, At
<1>13. ASSUME NEW p \in Callers, NEW n \in Names, ReadListed(p, n) PROVE Migrated'
  BY <1>13 DEF ReadListed, Listing, At
<1>14. ASSUME NEW p \in Callers, NEW r \in Callers, StatTemp(p, r) PROVE Migrated'
  BY <1>14 DEF StatTemp, Listing, At
<1>15. ASSUME NEW p \in Callers, MeetVanished(p) PROVE Migrated'
  BY <1>15 DEF MeetVanished, GoTo, Finish, Listing, At
<1>16. ASSUME NEW p \in Callers, FinishListing(p) PROVE Migrated'
  BY <1>16 DEF FinishListing, GoTo, Finish, Listing, At
<1>17. ASSUME NEW p \in Callers, FailCall(p) PROVE Migrated'
  BY <1>17 DEF FailCall, GoTo, Finish
<1>18. ASSUME NEW p \in Callers, Return(p) PROVE Migrated'
  BY <1>18 DEF Return, GoTo, At
<1>19. CASE Open
  BY <1>19 DEF Open
<1>20. ASSUME NEW n \in Names, MigrateEntry(n) PROVE Migrated'
  BY <1>20 DEF MigrateEntry
<1>21. CASE RemoveLegacy
  BY <1>21 DEF RemoveLegacy
<1>22. CASE FinishOpen
  BY <1>22 DEF FinishOpen
<1>23. CASE FailOpen
  BY <1>23 DEF FailOpen
<1>24. CASE Crash
  BY <1>24 DEF Crash
<1> QED
  BY <1>1, <1>2, <1>3, <1>4, <1>5, <1>6, <1>7, <1>8, <1>9, <1>10, <1>11, <1>12,
     <1>13, <1>14, <1>15, <1>16, <1>17, <1>18, <1>19, <1>20, <1>21, <1>22, <1>23, <1>24
  DEF Next, CallStep, OpenStep

\* Under the mutex nobody changes the entry a condition was checked for.
LEMMA WriteReadyStep ==
  ASSUME StoreInv, [Next]_storeVars, NEW q \in Callers
  PROVE  WriteReady(q)'
<1> USE DEF StoreInv, StoreTypeOK, WriteReady, CallAt, Writing, IsBlob, fileVars, callVars, openVars
<1>1. CASE UNCHANGED storeVars
  BY <1>1 DEF storeVars
<1>2. ASSUME NEW p \in Callers, NEW c \in ClientCalls, Begin(p, c) PROVE WriteReady(q)'
  BY <1>2 DEF Begin, GoTo
<1>3. ASSUME NEW p \in Callers, StatBlob(p) PROVE WriteReady(q)'
  BY <1>3 DEF StatBlob, GoTo, Finish, At, Allowed, Entries, Blobs
<1>4. ASSUME NEW p \in Callers, TakeLock(p) PROVE WriteReady(q)'
  BY <1>4 DEF TakeLock, GoTo, At, Allowed
<1>5. ASSUME NEW p \in Callers, CheckEntry(p) PROVE WriteReady(q)'
  BY <1>5 DEF CheckEntry, GoTo, Finish, At
<1>6. ASSUME NEW p \in Callers, CreateTemp(p) PROVE WriteReady(q)'
  BY <1>6 DEF CreateTemp, GoTo, At
<1>7. ASSUME NEW p \in Callers, WriteTemp(p) PROVE WriteReady(q)'
  BY <1>7 DEF WriteTemp, GoTo, At
<1>8. ASSUME NEW p \in Callers, Rename(p) PROVE WriteReady(q)'
  <2>1. CASE q = p
    BY <1>8, <2>1 DEF Rename, GoTo, Finish, At
  <2>2. CASE q # p /\ steps[q] \in {"create", "write", "rename"}
    <3>1. /\ calls[p] \in ClientCalls /\ calls[q] \in ClientCalls
          /\ calls[p].op = "put" /\ calls[q].op = "put"
      BY <1>8, <2>2 DEF Rename, At
    <3>2. calls[p].name \in Names /\ calls[q].name \in Names
      BY <3>1, CallFields
    <3>3. CASE CollectionOf[calls[q].name] # Entries
      BY <1>8, <2>2, <3>3 DEF Rename, GoTo, Finish, At, Allowed
    <3>4. CASE CollectionOf[calls[q].name] = Entries
      <4>1. lock = q
        BY <2>2, <3>4 DEF Entries, Blobs
      <4>2. calls[p].name # calls[q].name
        BY <1>8, <2>2, <3>4, <4>1 DEF Rename, At, Entries, Blobs
      <4>3. files'[calls[q].name] = files[calls[q].name]
        BY <1>8, <3>2, <4>2 DEF Rename
      <4> QED BY <1>8, <2>2, <4>3 DEF Rename, GoTo, Finish, At
    <3> QED BY <3>3, <3>4
  <2>3. CASE q # p /\ steps[q] \notin {"create", "write", "rename"}
    BY <1>8, <2>3 DEF Rename, GoTo, Finish, At
  <2> QED BY <2>1, <2>2, <2>3
<1>9. ASSUME NEW p \in Callers, RemoveFile(p) PROVE WriteReady(q)'
  <2>1. CASE q = p
    BY <1>9, <2>1 DEF RemoveFile, GoTo, Finish, At
  <2>2. CASE q # p /\ steps[q] \in {"create", "write", "rename"}
    <3>1. /\ calls[p] \in ClientCalls /\ calls[q] \in ClientCalls
          /\ calls[p].op = "delete" /\ calls[q].op = "put"
      BY <1>9, <2>2 DEF RemoveFile, At
    <3>2. calls[p].name \in Names /\ calls[q].name \in Names
      BY <3>1, CallFields
    <3>3. CASE CollectionOf[calls[q].name] # Entries
      BY <1>9, <2>2, <3>3 DEF RemoveFile, GoTo, Finish, At, Allowed
    <3>4. CASE CollectionOf[calls[q].name] = Entries
      <4>1. lock = q
        BY <2>2, <3>4 DEF Entries, Blobs
      <4>2. calls[p].name # calls[q].name
        BY <1>9, <2>2, <3>4, <4>1 DEF RemoveFile, At, Entries, Blobs
      <4>3. files'[calls[q].name] = files[calls[q].name]
        BY <1>9, <3>2, <4>2 DEF RemoveFile
      <4> QED BY <1>9, <2>2, <4>3 DEF RemoveFile, GoTo, Finish, At
    <3> QED BY <3>3, <3>4
  <2>3. CASE q # p /\ steps[q] \notin {"create", "write", "rename"}
    BY <1>9, <2>3 DEF RemoveFile, GoTo, Finish, At
  <2> QED BY <2>1, <2>2, <2>3
<1>10. ASSUME NEW p \in Callers, ReadFile(p) PROVE WriteReady(q)'
  BY <1>10 DEF ReadFile, GoTo, Finish, At
<1>11. ASSUME NEW p \in Callers, OpenTree(p) PROVE WriteReady(q)'
  BY <1>11 DEF OpenTree, GoTo, At
<1>12. ASSUME NEW p \in Callers, ReadDirectory(p) PROVE WriteReady(q)'
  BY <1>12 DEF ReadDirectory, Listing, At
<1>13. ASSUME NEW p \in Callers, NEW n \in Names, ReadListed(p, n) PROVE WriteReady(q)'
  BY <1>13 DEF ReadListed, Listing, At
<1>14. ASSUME NEW p \in Callers, NEW r \in Callers, StatTemp(p, r) PROVE WriteReady(q)'
  BY <1>14 DEF StatTemp, Listing, At
<1>15. ASSUME NEW p \in Callers, MeetVanished(p) PROVE WriteReady(q)'
  BY <1>15 DEF MeetVanished, GoTo, Finish, Listing, At
<1>16. ASSUME NEW p \in Callers, FinishListing(p) PROVE WriteReady(q)'
  BY <1>16 DEF FinishListing, GoTo, Finish, Listing, At
<1>17. ASSUME NEW p \in Callers, FailCall(p) PROVE WriteReady(q)'
  BY <1>17 DEF FailCall, GoTo, Finish
<1>18. ASSUME NEW p \in Callers, Return(p) PROVE WriteReady(q)'
  BY <1>18 DEF Return, GoTo, At
<1>19. CASE Open
  BY <1>19 DEF Open
<1>20. ASSUME NEW n \in Names, MigrateEntry(n) PROVE WriteReady(q)'
  BY <1>20 DEF MigrateEntry
<1>21. CASE RemoveLegacy
  BY <1>21 DEF RemoveLegacy
<1>22. CASE FinishOpen
  BY <1>22 DEF FinishOpen
<1>23. CASE FailOpen
  BY <1>23 DEF FailOpen
<1>24. CASE Crash
  BY <1>24 DEF Crash
<1> QED
  BY <1>1, <1>2, <1>3, <1>4, <1>5, <1>6, <1>7, <1>8, <1>9, <1>10, <1>11, <1>12,
     <1>13, <1>14, <1>15, <1>16, <1>17, <1>18, <1>19, <1>20, <1>21, <1>22, <1>23, <1>24
  DEF Next, CallStep, OpenStep

\* A listing keeps its word of the objects that do not change.
LEMMA WalkTrueStep ==
  ASSUME StoreInv, [Next]_storeVars, NEW q \in Callers
  PROVE  WalkTrue(q)'
<1> USE DEF StoreInv, StoreTypeOK, WalkTrue, Walk, CallAt, In, fileVars, callVars, openVars
<1>1. CASE UNCHANGED storeVars
  BY <1>1 DEF storeVars
<1>2. ASSUME NEW p \in Callers, NEW c \in ClientCalls, Begin(p, c) PROVE WalkTrue(q)'
  BY <1>2 DEF Begin, GoTo
<1>3. ASSUME NEW p \in Callers, StatBlob(p) PROVE WalkTrue(q)'
  BY <1>3 DEF StatBlob, GoTo, Finish, At
<1>4. ASSUME NEW p \in Callers, TakeLock(p) PROVE WalkTrue(q)'
  BY <1>4 DEF TakeLock, GoTo, At
<1>5. ASSUME NEW p \in Callers, CheckEntry(p) PROVE WalkTrue(q)'
  BY <1>5 DEF CheckEntry, GoTo, Finish, At
<1>6. ASSUME NEW p \in Callers, CreateTemp(p) PROVE WalkTrue(q)'
  BY <1>6 DEF CreateTemp, GoTo, At
<1>7. ASSUME NEW p \in Callers, WriteTemp(p) PROVE WalkTrue(q)'
  BY <1>7 DEF WriteTemp, GoTo, At
<1>8. ASSUME NEW p \in Callers, Rename(p) PROVE WalkTrue(q)'
  BY <1>8 DEF Rename, GoTo, Finish, At, NoteChange
<1>9. ASSUME NEW p \in Callers, RemoveFile(p) PROVE WalkTrue(q)'
  BY <1>9 DEF RemoveFile, GoTo, Finish, At, NoteChange
<1>10. ASSUME NEW p \in Callers, ReadFile(p) PROVE WalkTrue(q)'
  BY <1>10 DEF ReadFile, GoTo, Finish, At
<1>11. ASSUME NEW p \in Callers, OpenTree(p) PROVE WalkTrue(q)'
  <2>1. CASE q = p
    <3>1. walks[p] = NoWalk
      BY <1>11 DEF OpenTree, At
    <3>2. /\ walks'[p].ahead = In(calls[p].collection)
          /\ walks'[p].unread = {} /\ walks'[p].found = [n \in Names |-> Absent]
      BY <1>11, <3>1 DEF OpenTree, NoWalk
    <3> QED BY <1>11, <2>1, <3>2 DEF OpenTree, GoTo, At
  <2>2. CASE q # p
    BY <1>11, <2>2 DEF OpenTree, GoTo, At
  <2> QED BY <2>1, <2>2
<1>12. ASSUME NEW p \in Callers, ReadDirectory(p) PROVE WalkTrue(q)'
  <2>1. PICK dir \in SUBSET walks[p].ahead, T \in SUBSET Callers :
          walks'[p] = [walks[p] EXCEPT !.ahead = @ \ dir,
                                  !.unread = {n \in dir : files[n] # Absent},
                                  !.temps = T]
    BY <1>12, DirectoryRead
  <2>2. CASE q = p
    <3>1. /\ walks'[p].ahead = walks[p].ahead \ dir
          /\ walks'[p].unread = {n \in dir : files[n] # Absent}
          /\ walks'[p].found = walks[p].found
      BY <2>1 DEF Walk
    <3>2. walks[p].unread = {} /\ steps[p] = "list"
      BY <1>12 DEF ReadDirectory, Listing, At
    <3>3. ASSUME NEW n \in In(calls[p].collection) \ touched[p], n \notin walks'[p].ahead \cup walks'[p].unread
          PROVE  walks'[p].found[n] = files[n]
      <4>1. CASE n \in dir
        BY <3>1, <3>2, <3>3, <4>1
      <4>2. CASE n \notin dir
        BY <3>1, <3>2, <3>3, <4>2
      <4> QED BY <4>1, <4>2
    <3>4. steps' = steps /\ calls' = calls /\ touched' = touched /\ files' = files
      BY <1>12 DEF ReadDirectory
    <3>5. walks[p].ahead \cap walks[p].unread = {} /\ \A n \in walks[p].ahead : walks[p].found[n] = Absent
      BY <3>2
    <3>6. walks'[p].ahead \cap walks'[p].unread = {} /\ \A n \in walks'[p].ahead : walks'[p].found[n] = Absent
      BY <3>1, <3>5
    <3> QED BY <2>2, <3>2, <3>3, <3>4, <3>6
  <2>3. CASE q # p
    <3>1. \A r \in Callers \ {p} : walks'[r] = walks[r]
      BY <1>12, DirectoryRead
    <3>2. walks'[q] = walks[q]
      BY <2>3, <3>1
    <3>3. steps' = steps /\ calls' = calls /\ touched' = touched /\ files' = files
      BY <1>12 DEF ReadDirectory
    <3> QED BY <3>2, <3>3
  <2> QED BY <2>2, <2>3
<1>13. ASSUME NEW p \in Callers, NEW n \in Names, ReadListed(p, n) PROVE WalkTrue(q)'
  BY <1>13 DEF ReadListed, Listing, At
<1>14. ASSUME NEW p \in Callers, NEW r \in Callers, StatTemp(p, r) PROVE WalkTrue(q)'
  BY <1>14 DEF StatTemp, Listing, At
<1>15. ASSUME NEW p \in Callers, MeetVanished(p) PROVE WalkTrue(q)'
  BY <1>15 DEF MeetVanished, GoTo, Finish, Listing, At
<1>16. ASSUME NEW p \in Callers, FinishListing(p) PROVE WalkTrue(q)'
  BY <1>16 DEF FinishListing, GoTo, Finish, Listing, At
<1>17. ASSUME NEW p \in Callers, FailCall(p) PROVE WalkTrue(q)'
  BY <1>17 DEF FailCall, GoTo, Finish
<1>18. ASSUME NEW p \in Callers, Return(p) PROVE WalkTrue(q)'
  BY <1>18 DEF Return, GoTo, At
<1>19. CASE Open
  BY <1>19 DEF Open
<1>20. ASSUME NEW n \in Names, MigrateEntry(n) PROVE WalkTrue(q)'
  BY <1>20 DEF MigrateEntry
<1>21. CASE RemoveLegacy
  BY <1>21 DEF RemoveLegacy
<1>22. CASE FinishOpen
  BY <1>22 DEF FinishOpen
<1>23. CASE FailOpen
  BY <1>23 DEF FailOpen
<1>24. CASE Crash
  BY <1>24 DEF Crash
<1> QED
  BY <1>1, <1>2, <1>3, <1>4, <1>5, <1>6, <1>7, <1>8, <1>9, <1>10, <1>11, <1>12,
     <1>13, <1>14, <1>15, <1>16, <1>17, <1>18, <1>19, <1>20, <1>21, <1>22, <1>23, <1>24
  DEF Next, CallStep, OpenStep

LEMMA StoreInvStep == StoreInv /\ [Next]_storeVars => StoreInv'
<1> SUFFICES ASSUME StoreInv, [Next]_storeVars PROVE StoreInv'
  OBVIOUS
<1>1. StoreTypeOK' /\ Migrated'
  BY StoreTypeStep, MigratedStep
<1>2. \A q \in Callers : CallAt(q)' /\ WriteReady(q)' /\ WalkTrue(q)'
  BY CallAtStep, WriteReadyStep, WalkTrueStep
<1> QED BY <1>1, <1>2 DEF StoreInv

LEMMA StoreInvInit == Init => StoreInv
<1> SUFFICES ASSUME Init PROVE StoreInv
  OBVIOUS
<1>1. StoreTypeOK
  BY InitStoreType
<1>2. ASSUME NEW p \in Callers PROVE CallAt(p) /\ WriteReady(p) /\ WalkTrue(p)
  BY DEF Init, CallAt, WriteReady, WalkTrue, Writing
<1>3. Migrated
  BY DEF Init, Migrated, NoName
<1> QED BY <1>1, <1>2, <1>3 DEF StoreInv

\* The invariant holds of every state of the store.
LEMMA StoreInvariant == Spec => []StoreInv
BY StoreInvInit, StoreInvStep, PTL DEF Spec

\* Files, calls and answers are of their kinds, a temporary file exists exactly while
\* it is being written, and an answer exactly when a call is at its end (FileStore).
THEOREM StoreTypesKept == Spec => []StoreTypeOK
<1>1. StoreInv => StoreTypeOK
  BY DEF StoreInv
<1> QED BY <1>1, StoreInvariant, PTL

-----------------------------------------------------------------------------
(* The refinement. *)

\* The contract and the store mean the same calls and answers.
LEMMA SameInterface ==
  /\ Contract!NoCall = NoCall /\ Contract!Pending = Pending /\ Contract!Done = Done
  /\ Contract!ConditionFailed = ConditionFailed /\ Contract!Failed = Failed
  /\ Contract!Absent = Absent /\ Contract!Contents = Contents
  /\ \A v : Contract!Found(v) = Found(v) /\ Contract!Listed(v) = Listed(v)
  /\ \A n : Contract!Holds(n) = Holds(n)
  /\ \A col : Contract!In(col) = In(col)
  /\ \A c, old : Contract!Allowed(c, old) <=> Allowed(c, old)
<1>1. Contract!Absent = Absent /\ Contract!BlobContent = BlobContent /\ Contract!Contents = Contents
  BY DEF Contract!Absent, Absent, Contract!BlobContent, BlobContent, Contract!Contents, Contents
<1>2. \A n : Contract!Holds(n) = Holds(n)
  BY <1>1 DEF Contract!Holds, Holds, Contract!Blobs, Blobs
<1>3. \A c, old : Contract!Allowed(c, old) <=> Allowed(c, old)
  BY <1>1 DEF Contract!Allowed, Allowed, Contract!Entries, Entries, Contract!OnlyNew, OnlyNew
<1> QED
  BY <1>1, <1>2, <1>3
  DEF Contract!NoCall, NoCall, Contract!Pending, Pending, Contract!Done, Done,
      Contract!ConditionFailed, ConditionFailed, Contract!Failed, Failed, Contract!Found, Found,
      Contract!Listed, Listed, Contract!In, In

LEMMA ContractInit == Init => Contract!Init
<1> SUFFICES ASSUME Init PROVE Contract!Init
  OBVIOUS
<1>1. StoreTypeOK
  BY InitStoreType
<1>2. /\ Visible \in [Names -> Contents \cup {Absent}]
      /\ \A n \in Names : Visible[n] \in Holds(n)
  BY <1>1 DEF StoreTypeOK, Visible
<1> QED BY <1>2, SameInterface DEF Init, Contract!Init

\* While calls are made, what the directory shows is what the files hold.
LEMMA VisibleFiles ==
  /\ StoreInv /\ running = "open" => Visible = files
  /\ StoreInv' /\ running' = "open" => Visible' = files'
BY DEF StoreInv, Migrated, StoreTypeOK, Visible

\* The listings learn of one file what the contract's listings learn of the objects.
LEMMA ChangeNoted ==
  ASSUME StoreTypeOK, Visible = files, Visible' = files',
         NEW n \in Names, NEW v, files' = [files EXCEPT ![n] = v], NoteChange(n)
  PROVE  Contract!NoteChanges
<1>1. {m \in Names : files'[m] # files[m]} = IF files'[n] # files[n] THEN {n} ELSE {}
  BY DEF StoreTypeOK
<1>2. \A q \in Callers :
        (IF calls[q].op = "list" /\ files'[n] # files[n] THEN touched[q] \cup {n} ELSE touched[q])
          = IF calls[q].op = "list" THEN touched[q] \cup {m \in Names : files'[m] # files[m]}
            ELSE touched[q]
  BY <1>1
<1> QED BY <1>2 DEF NoteChange, Contract!NoteChanges

LEMMA NothingNoted ==
  ASSUME StoreTypeOK, Visible' = Visible, touched' = touched
  PROVE  Contract!NoteChanges
BY DEF StoreTypeOK, Contract!NoteChanges

LEMMA RenameIsPut ==
  ASSUME StoreInv, StoreInv', NEW p \in Callers, Rename(p)
  PROVE  Contract!Put(p)
<1>1. /\ calls[p] \in ClientCalls /\ calls[p].op = "put" /\ answers[p] = Pending
      /\ temps[p] = calls[p].value /\ Allowed(calls[p], files[calls[p].name])
  BY DEF Rename, At, StoreInv, StoreTypeOK, CallAt, WriteReady, Writing
<1>2. Visible = files /\ Visible' = files'
  BY <1>1, VisibleFiles, CallFields DEF Rename, At, openVars, StoreInv, CallAt
<1>3. calls[p].name \in Names
  BY <1>1, CallFields
<1>4. Contract!NoteChanges
  BY <1>2, <1>3, ChangeNoted DEF Rename, StoreInv
<1> QED
  BY <1>1, <1>2, <1>4, SameInterface DEF Rename, Finish, Contract!Put, Contract!Waiting, Contract!Answer

LEMMA RemoveIsDelete ==
  ASSUME StoreInv, StoreInv', NEW p \in Callers, RemoveFile(p)
  PROVE  Contract!Delete(p)
<1>1. calls[p] \in ClientCalls /\ calls[p].op = "delete" /\ answers[p] = Pending
  BY DEF RemoveFile, At, StoreInv, StoreTypeOK, CallAt
<1>2. Visible = files /\ Visible' = files'
  BY <1>1, VisibleFiles, CallFields DEF RemoveFile, At, openVars, StoreInv, CallAt
<1>3. calls[p].name \in Names
  BY <1>1, CallFields
<1>4. Contract!NoteChanges
  BY <1>2, <1>3, ChangeNoted DEF RemoveFile, StoreInv
<1> QED
  BY <1>1, <1>2, <1>4, SameInterface
  DEF RemoveFile, Finish, Contract!Delete, Contract!Waiting, Contract!Answer

\* A blob that is there already is the blob that was to be written.
LEMMA StatIsPut ==
  ASSUME StoreInv, StoreInv', NEW p \in Callers, StatBlob(p), files[calls[p].name] # Absent
  PROVE  Contract!Put(p)
<1>1. /\ calls[p] \in ClientCalls /\ calls[p].op = "put" /\ answers[p] = Pending
      /\ CollectionOf[calls[p].name] = Blobs
  BY DEF StatBlob, At, IsBlob, StoreInv, StoreTypeOK
<1>2. calls[p].name \in Names /\ calls[p].value = BlobContent
  BY <1>1, CallFields
<1>3. files[calls[p].name] = calls[p].value
  BY <1>1, <1>2 DEF StoreInv, StoreTypeOK, Holds
<1>4. Visible = files /\ Visible' = files' /\ files' = files
  BY <1>1, VisibleFiles, CallFields DEF StatBlob, At, fileVars, openVars, StoreInv, CallAt
<1>5. files = [files EXCEPT ![calls[p].name] = calls[p].value]
  BY <1>2, <1>3 DEF StoreInv, StoreTypeOK
<1>6. Allowed(calls[p], files[calls[p].name])
  BY <1>1 DEF Allowed, Entries, Blobs
<1>7. Contract!NoteChanges
  BY <1>4, NothingNoted DEF StatBlob, StoreInv
<1> QED
  BY <1>1, <1>4, <1>5, <1>6, <1>7, SameInterface
  DEF StatBlob, Finish, Contract!Put, Contract!Waiting, Contract!Answer

LEMMA FailedCheckIsPut ==
  ASSUME StoreInv, StoreInv', NEW p \in Callers, CheckEntry(p),
         ~ Allowed(calls[p], files[calls[p].name])
  PROVE  Contract!Put(p)
<1>1. calls[p] \in ClientCalls /\ calls[p].op = "put" /\ answers[p] = Pending
  BY DEF CheckEntry, At, StoreInv, StoreTypeOK, CallAt, Writing
<1>2. Visible = files /\ Visible' = files' /\ files' = files
  BY <1>1, VisibleFiles, CallFields DEF CheckEntry, At, fileVars, openVars, StoreInv, CallAt
<1>3. Contract!NoteChanges
  BY <1>2, NothingNoted DEF CheckEntry, StoreInv
<1> QED
  BY <1>1, <1>2, <1>3, SameInterface
  DEF CheckEntry, Finish, Contract!Put, Contract!Waiting, Contract!Answer

LEMMA ReadIsGet ==
  ASSUME StoreInv, StoreInv', NEW p \in Callers, ReadFile(p)
  PROVE  Contract!Get(p)
<1>1. calls[p] \in ClientCalls /\ calls[p].op = "get" /\ answers[p] = Pending
  BY DEF ReadFile, At, StoreInv, StoreTypeOK
<1>2. Visible = files /\ Visible' = files' /\ files' = files
  BY <1>1, VisibleFiles, CallFields DEF ReadFile, At, fileVars, openVars, StoreInv, CallAt
<1> QED
  BY <1>1, <1>2, SameInterface DEF ReadFile, Finish, Contract!Get, Contract!Waiting, Contract!Answer

\* What a listing found is true of every object that did not change while it ran.
LEMMA FinishIsList ==
  ASSUME StoreInv, StoreInv', NEW p \in Callers, FinishListing(p)
  PROVE  Contract!List(p)
<1> DEFINE col == calls[p].collection
           contents == [n \in In(col) |-> walks[p].found[n]]
<1>1. calls[p] \in ClientCalls /\ calls[p].op = "list" /\ answers[p] = Pending /\ steps[p] = "list"
  BY DEF FinishListing, Listing, At, StoreInv, StoreTypeOK, CallAt
<1>2. Visible = files /\ Visible' = files' /\ files' = files
  BY <1>1, VisibleFiles, CallFields DEF FinishListing, Listing, At, fileVars, openVars, StoreInv, CallAt
<1>3. contents \in [In(col) -> Contents \cup {Absent}]
  <2>1. walks[p].found \in [Names -> Contents \cup {Absent}]
    BY DEF StoreInv, StoreTypeOK, Walk
  <2> QED BY <2>1 DEF In
<1>4. \A n \in In(col) \ touched[p] : contents[n] = files[n]
  BY <1>1 DEF StoreInv, WalkTrue, FinishListing
<1>5. answers' = [answers EXCEPT ![p] = Listed(contents)]
  BY DEF FinishListing, Finish
<1>6. UNCHANGED <<Visible, calls, touched>>
  BY <1>2 DEF FinishListing
<1> HIDE DEF contents
<1> QED
  BY <1>1, <1>2, <1>3, <1>4, <1>5, <1>6, SameInterface
  DEF Contract!List, Contract!Waiting, Contract!Answer

\* Every step of the store is one of the contract or none.
LEMMA ContractStep ==
  ASSUME StoreInv, StoreInv', [Next]_storeVars
  PROVE  [Contract!Next]_(Contract!contractVars)
<1> DEFINE Quiet == UNCHANGED <<files, legacy, calls, answers, touched>>
<1>0. ASSUME Quiet PROVE [Contract!Next]_(Contract!contractVars)
  BY <1>0 DEF Contract!contractVars, Visible
<1>1. CASE UNCHANGED storeVars
  BY <1>0, <1>1 DEF storeVars, fileVars, callVars
<1>2. ASSUME NEW p \in Callers, NEW c \in ClientCalls, Begin(p, c) PROVE Contract!Begin(p, c)
  BY <1>2, SameInterface DEF Begin, Contract!Begin, Visible, fileVars
<1>3. ASSUME NEW p \in Callers, StatBlob(p) PROVE Contract!Put(p) \/ Quiet
  BY <1>3, StatIsPut DEF StatBlob, fileVars
<1>4. ASSUME NEW p \in Callers, TakeLock(p) PROVE Quiet
  BY <1>4 DEF TakeLock, fileVars
<1>5. ASSUME NEW p \in Callers, CheckEntry(p) PROVE Contract!Put(p) \/ Quiet
  BY <1>5, FailedCheckIsPut DEF CheckEntry, fileVars
<1>6. ASSUME NEW p \in Callers, CreateTemp(p) \/ WriteTemp(p) PROVE Quiet
  BY <1>6 DEF CreateTemp, WriteTemp
<1>7. ASSUME NEW p \in Callers, OpenTree(p) \/ ReadDirectory(p) PROVE Quiet
  BY <1>7 DEF OpenTree, ReadDirectory, fileVars
<1>8. ASSUME NEW p \in Callers, NEW n \in Names, ReadListed(p, n) PROVE Quiet
  BY <1>8 DEF ReadListed, fileVars
<1>9. ASSUME NEW p \in Callers, NEW q \in Callers, StatTemp(p, q) PROVE Quiet
  BY <1>9 DEF StatTemp, fileVars
<1>10. ASSUME NEW p \in Callers, MeetVanished(p) \/ FailCall(p) PROVE Contract!Fail(p)
  <2>1. calls[p] # NoCall /\ answers[p] = Pending
    BY <1>10 DEF MeetVanished, Listing, At, FailCall, StoreInv, StoreTypeOK
  <2> QED
    BY <1>10, <2>1, SameInterface
    DEF MeetVanished, FailCall, Finish, Contract!Fail, Contract!Answer, Visible, fileVars
<1>11. ASSUME NEW p \in Callers, Return(p) PROVE Contract!Return(p)
  BY <1>11, SameInterface
  DEF Return, At, Contract!Return, Contract!Answer, Visible, fileVars, StoreInv, StoreTypeOK
<1>12. ASSUME Open \/ FinishOpen \/ FailOpen PROVE Quiet
  BY <1>12 DEF Open, FinishOpen, FailOpen, fileVars, callVars
<1>13. ASSUME NEW n \in Names, MigrateEntry(n) PROVE [Contract!Next]_(Contract!contractVars)
  <2>1. Visible' = Visible
    BY <1>13 DEF MigrateEntry, Visible, StoreInv, StoreTypeOK
  <2> QED BY <1>13, <2>1 DEF MigrateEntry, Contract!contractVars, callVars
<1>14. ASSUME RemoveLegacy PROVE [Contract!Next]_(Contract!contractVars)
  <2>1. Visible' = Visible
    BY <1>14 DEF RemoveLegacy, Visible, StoreInv, StoreTypeOK, Migrated
  <2> QED BY <1>14, <2>1 DEF RemoveLegacy, Contract!contractVars, callVars
<1>15. ASSUME Crash PROVE Contract!Crash
  BY <1>15, SameInterface DEF Crash, Contract!Crash, Visible
<1>16. \A p \in Callers :
         /\ \A c \in ClientCalls : Contract!Begin(p, c) => Contract!Next
         /\ Contract!Put(p) \/ Contract!Delete(p) \/ Contract!Get(p) \/ Contract!List(p)
              \/ Contract!Fail(p) \/ Contract!Return(p) => Contract!Next
  BY DEF Contract!Next
<1>17. Contract!Crash => Contract!Next
  BY DEF Contract!Next
<1>18. ASSUME NEW p \in Callers, Rename(p) \/ RemoveFile(p) \/ ReadFile(p) \/ FinishListing(p)
       PROVE  Contract!Next
  BY <1>16, <1>18, RenameIsPut, RemoveIsDelete, ReadIsGet, FinishIsList
<1> HIDE DEF Quiet
<1> QED
  BY <1>0, <1>1, <1>2, <1>3, <1>4, <1>5, <1>6, <1>7, <1>8, <1>9, <1>10, <1>11, <1>12, <1>13,
     <1>14, <1>15, <1>16, <1>17, <1>18
  DEF Next, CallStep, OpenStep

\* The files keep the contract of a store, whatever the interleaving of system calls,
\* failures and crashes of the process (FileStore against the interface of store.go).
THEOREM FilesKeepContract == Spec => ImplementsContract
<1>1. Init => Contract!Init
  BY ContractInit
<1>2. StoreInv /\ StoreInv' /\ [Next]_storeVars => [Contract!Next]_(Contract!contractVars)
  BY ContractStep
<1> QED BY <1>1, <1>2, StoreInvariant, PTL DEF Spec, ImplementsContract, Contract!Spec

-----------------------------------------------------------------------------
(* The audit log (AuditLog.tla): what a reported collection removed stays on   *)
(* record, and its number is its own, for any number of collections, crashes    *)
(* and torn records.                                                            *)


-----------------------------------------------------------------------------
(* What no later record can spoil. *)

\* A record is safe once its line has ended or another follows it.
Safe == {lines[i] : i \in {j \in DOMAIN lines : ended \/ j < Len(lines)}} \ {Garbled}

RecordsOf(r) ==
  {FinishOf(r.generation)} \cup {RemovalOf(r.generation, x) : x \in r.removed}

Rec == [generation : Nat, action : {"eviction", "gc_start", "gc_finish"}]
         \cup [generation : Nat, action : {"removed"}, what : Garbage]
         \cup {Garbled}

Run == [generation : Nat, removed : SUBSET Garbage]

LogTypeOK ==
  /\ lines \in Seq(Rec)
  /\ ended \in BOOLEAN
  /\ ~ ended => lines # <<>>
  /\ gcGen \in Nat
  /\ run \in Run
  /\ reports \in Seq(Run)

\* The numbers of the run and of all reports have been used up, and no report and no
\* removal of the run is at the mercy of the next line.
LogInv ==
  /\ LogTypeOK
  /\ run # NoRun => run.generation = gcGen /\ ended
  /\ \A i \in DOMAIN reports : reports[i].generation <= gcGen
  /\ run # NoRun => \A i \in DOMAIN reports : reports[i].generation < gcGen
  /\ ReportsNumberedApart
  /\ \A i \in DOMAIN reports : RecordsOf(reports[i]) \subseteq Safe
  /\ run # NoRun => \A x \in run.removed : RemovalOf(run.generation, x) \in Safe

-----------------------------------------------------------------------------

LEMMA RecordKinds ==
  ASSUME NEW g \in Nat, NEW x \in Garbage
  PROVE  /\ StartOf(g) \in Rec /\ FinishOf(g) \in Rec /\ RemovalOf(g, x) \in Rec
         /\ OtherRecord \in Rec /\ Garbled \in Rec
         /\ FinishOf(g) # Garbled /\ RemovalOf(g, x) # Garbled
BY DEF Rec, StartOf, FinishOf, RemovalOf, OtherRecord, Garbled

\* An append adds at most its record and spoils nothing that was safe; one that
\* succeeds makes its record safe.
LEMMA AppendKeepsSafe ==
  ASSUME LogTypeOK, NEW rec \in Rec, Recorded(rec) \/ NotRecorded(rec)
  PROVE  /\ lines' \in Seq(Rec) /\ ended' \in BOOLEAN /\ (~ ended' => lines' # <<>>)
         /\ Safe \subseteq Safe'
<1>1. Garbled \in Rec
  BY DEF Rec
<1>2. ASSUME NEW t \in Rec
      PROVE  /\ Joined(t) \in Seq(Rec) /\ Joined(t) # <<>>
             /\ Len(Joined(t)) >= Len(lines)
             /\ ended => Len(Joined(t)) = Len(lines) + 1
             /\ \A i \in DOMAIN lines : ended \/ i < Len(lines) => Joined(t)[i] = lines[i]
  <2>1. CASE ended
    <3>1. Joined(t) = Append(lines, t) /\ lines \in Seq(Rec)
      BY <2>1 DEF Joined, LogTypeOK
    <3>2. /\ Append(lines, t) \in Seq(Rec) /\ Len(Append(lines, t)) = Len(lines) + 1
          /\ \A i \in 1 .. Len(lines) : Append(lines, t)[i] = lines[i]
      BY <3>1, AppendProperties
    <3> QED BY <2>1, <3>1, <3>2, LenProperties
  <2>2. CASE ~ ended
    BY <1>1, <2>2 DEF Joined, LogTypeOK
  <2> QED BY <2>1, <2>2
<1>3. CASE UNCHANGED <<lines, ended>>
  BY <1>3 DEF Safe, LogTypeOK
<1>4. ASSUME NEW t \in Rec, lines' = Joined(t), ended' \in BOOLEAN
      PROVE  /\ lines' \in Seq(Rec) /\ lines' # <<>>
             /\ Safe \subseteq Safe'
  <2>1. ASSUME NEW i \in DOMAIN lines, ended \/ i < Len(lines)
        PROVE  i \in DOMAIN lines' /\ lines'[i] = lines[i] /\ i < Len(lines')
    <3>1. /\ DOMAIN lines = 1 .. Len(lines) /\ Len(lines) \in Nat
          /\ DOMAIN lines' = 1 .. Len(lines') /\ Len(lines') \in Nat
      BY <1>2, <1>4, LenProperties DEF LogTypeOK
    <3>2. Len(lines') >= Len(lines) /\ (ended => Len(lines') = Len(lines) + 1) /\ lines'[i] = lines[i]
      BY <1>2, <1>4, <2>1
    <3>3. i < Len(lines')
      <4>1. CASE ended
        <5>1. Len(lines') = Len(lines) + 1
          BY <3>2, <4>1
        <5> QED BY <3>1, <5>1
      <4>2. CASE ~ ended
        <5>1. i < Len(lines)
          BY <2>1, <4>2
        <5>2. Len(lines') >= Len(lines) /\ i \in 1 .. Len(lines)
          BY <3>1, <3>2
        <5>3. Len(lines) \in Nat /\ Len(lines') \in Nat
          BY <3>1
        <5> QED BY <5>1, <5>2, <5>3
      <4> QED BY <4>1, <4>2
    <3>4. i \in DOMAIN lines'
      BY <3>1, <3>3
    <3> QED BY <3>2, <3>3, <3>4
  <2>2. Safe \subseteq Safe'
    <3> SUFFICES ASSUME NEW r \in Safe PROVE r \in Safe'
      OBVIOUS
    <3>1. PICK i \in DOMAIN lines : (ended \/ i < Len(lines)) /\ lines[i] = r /\ r # Garbled
      BY DEF Safe
    <3> QED BY <2>1, <3>1 DEF Safe
  <2> QED BY <1>2, <1>4, <2>2
<1> QED
  BY <1>1, <1>3, <1>4 DEF Recorded, NotRecorded, LogTypeOK

LEMMA RecordedIsSafe ==
  ASSUME LogTypeOK, NEW rec \in Rec, rec # Garbled, Recorded(rec), ended
  PROVE  rec \in Safe'
BY DEF LogTypeOK, Recorded, Joined, Safe

LEMMA LogInvInit == LogInit => LogInv
BY DEF LogInit, LogInv, LogTypeOK, ReportsNumberedApart, NoRun, Run

LEMMA ReportTypes ==
  ASSUME LogTypeOK, NEW i \in DOMAIN reports
  PROVE  reports[i].generation \in Nat /\ reports[i].removed \in SUBSET Garbage
<1>1. reports[i] \in Run
  BY ElementOfSeq, LenProperties DEF LogTypeOK
<1> QED BY <1>1 DEF Run

LEMMA StartStep ==
  ASSUME LogInv, StartRun
  PROVE  LogInv'
<1> USE DEF LogInv
<1> DEFINE g == gcGen + 1
<1>1. g \in Nat /\ StartOf(g) \in Rec
  BY DEF LogTypeOK, StartOf, Rec
<1>2. Recorded(StartOf(g)) \/ NotRecorded(StartOf(g))
  BY DEF StartRun
<1>3. /\ lines' \in Seq(Rec) /\ ended' \in BOOLEAN /\ (~ ended' => lines' # <<>>)
      /\ Safe \subseteq Safe'
  BY <1>1, <1>2, AppendKeepsSafe
<1>4. reports' = reports /\ gcGen' = g /\ \A r : RecordsOf(r) \subseteq Safe => RecordsOf(r) \subseteq Safe'
  BY <1>3 DEF StartRun, RecordsOf
<1>5. \/ run' = [generation |-> g, removed |-> {}] /\ ended'
      \/ run' = NoRun
  BY DEF StartRun, Recorded
<1>6. run' \in Run /\ LogTypeOK'
  BY <1>1, <1>3, <1>4, <1>5 DEF LogTypeOK, Run, NoRun
<1>7. \A i \in DOMAIN reports : reports[i].generation < g
  BY ReportTypes DEF LogTypeOK
<1>8. ReportsNumberedApart'
  BY <1>4 DEF ReportsNumberedApart
<1>9. run' # NoRun => run'.generation = g /\ ended' /\ run'.removed = {}
  BY <1>5
<1>10. \A i \in DOMAIN reports' : reports'[i].generation <= gcGen' /\ reports'[i].generation < gcGen'
  BY <1>4, <1>7, ReportTypes DEF LogTypeOK
<1>11. \A i \in DOMAIN reports' : RecordsOf(reports'[i]) \subseteq Safe'
  BY <1>4
<1> QED BY <1>4, <1>6, <1>8, <1>9, <1>10, <1>11

LEMMA RemoveStep ==
  ASSUME LogInv, NEW x \in Garbage, RemoveGarbage(x)
  PROVE  LogInv'
<1> USE DEF LogInv
<1> DEFINE rec == RemovalOf(run.generation, x)
<1>1. run \in Run /\ rec \in Rec /\ rec # Garbled /\ ended
  BY RecordKinds DEF RemoveGarbage, LogTypeOK, Run
<1>2. Recorded(rec) \/ NotRecorded(rec)
  BY DEF RemoveGarbage
<1>3. /\ lines' \in Seq(Rec) /\ ended' \in BOOLEAN /\ (~ ended' => lines' # <<>>)
      /\ Safe \subseteq Safe'
  BY <1>1, <1>2, AppendKeepsSafe
<1>4. reports' = reports /\ gcGen' = gcGen /\ \A r : RecordsOf(r) \subseteq Safe => RecordsOf(r) \subseteq Safe'
  BY <1>3 DEF RemoveGarbage, RecordsOf
<1>5. ReportsNumberedApart'
  BY <1>4 DEF ReportsNumberedApart
<1>6. CASE Recorded(rec) /\ run' = [run EXCEPT !.removed = @ \cup {x}]
  <2>1. rec \in Safe' /\ ended'
    BY <1>1, <1>6, RecordedIsSafe DEF Recorded
  <2>2. /\ run' \in Run /\ run'.generation = run.generation
        /\ run'.removed = run.removed \cup {x}
    BY <1>1, <1>6 DEF Run
  <2>3. \A y \in run'.removed : RemovalOf(run'.generation, y) \in Safe'
    BY <1>3, <2>1, <2>2 DEF RemoveGarbage
  <2> QED BY <1>3, <1>4, <1>5, <2>1, <2>2, <2>3 DEF LogTypeOK, RemoveGarbage
<1>7. CASE run' = NoRun
  BY <1>3, <1>4, <1>5, <1>7 DEF LogTypeOK, Run, NoRun
<1> QED BY <1>6, <1>7 DEF RemoveGarbage

LEMMA FinishStep ==
  ASSUME LogInv, FinishRun
  PROVE  LogInv'
<1> USE DEF LogInv
<1> DEFINE rec == FinishOf(run.generation)
<1>1. run \in Run /\ rec \in Rec /\ rec # Garbled /\ ended
  BY DEF FinishRun, LogTypeOK, Run, FinishOf, Rec, Garbled
<1>2. Recorded(rec) \/ NotRecorded(rec)
  BY DEF FinishRun
<1>3. /\ lines' \in Seq(Rec) /\ ended' \in BOOLEAN /\ (~ ended' => lines' # <<>>)
      /\ Safe \subseteq Safe'
  BY <1>1, <1>2, AppendKeepsSafe
<1>4. gcGen' = gcGen /\ run' = NoRun /\ NoRun \in Run
  BY DEF FinishRun, NoRun, Run
<1>5. \A r : RecordsOf(r) \subseteq Safe => RecordsOf(r) \subseteq Safe'
  BY <1>3 DEF RecordsOf
<1>6. CASE reports' = reports
  BY <1>3, <1>4, <1>5, <1>6 DEF LogTypeOK, ReportsNumberedApart
<1>7. CASE Recorded(rec) /\ reports' = Append(reports, run)
  <2>1. rec \in Safe' /\ \A x \in run.removed : RemovalOf(run.generation, x) \in Safe'
    BY <1>1, <1>3, <1>7, RecordedIsSafe DEF FinishRun
  <2>2. RecordsOf(run) \subseteq Safe'
    BY <2>1 DEF RecordsOf
  <2>3. /\ reports' \in Seq(Run) /\ Len(reports') = Len(reports) + 1
        /\ reports'[Len(reports) + 1] = run
        /\ \A i \in 1 .. Len(reports) : reports'[i] = reports[i]
        /\ DOMAIN reports = 1 .. Len(reports) /\ DOMAIN reports' = 1 .. Len(reports')
        /\ Len(reports) \in Nat
    BY <1>1, <1>7, AppendProperties, LenProperties DEF LogTypeOK
  <2>4. ASSUME NEW i \in DOMAIN reports'
        PROVE  \/ i \in DOMAIN reports /\ reports'[i] = reports[i]
               \/ i = Len(reports) + 1 /\ reports'[i] = run
    BY <2>3
  <2>5. \A i \in DOMAIN reports' : RecordsOf(reports'[i]) \subseteq Safe'
    BY <1>5, <2>2, <2>4
  <2>6. \A i \in DOMAIN reports' : reports'[i].generation <= gcGen
    BY <1>1, <2>4 DEF FinishRun, LogTypeOK
  <2>7. ASSUME NEW i \in DOMAIN reports', NEW j \in DOMAIN reports', i < j
        PROVE  reports'[i].generation < reports'[j].generation
    <3>1. i \in DOMAIN reports /\ reports'[i] = reports[i]
      BY <2>3, <2>7
    <3>2. CASE j \in DOMAIN reports
      BY <2>3, <2>7, <3>1, <3>2 DEF ReportsNumberedApart
    <3>3. CASE j = Len(reports) + 1
      <4>1. reports[i].generation < run.generation
        BY <3>1 DEF FinishRun
      <4> QED BY <2>3, <3>1, <3>3, <4>1
    <3> QED BY <2>4, <3>2, <3>3
  <2> QED BY <1>3, <1>4, <2>3, <2>5, <2>6, <2>7 DEF LogTypeOK, ReportsNumberedApart
<1> QED BY <1>6, <1>7 DEF FinishRun

LEMMA OtherStep ==
  ASSUME LogInv, AppendOther
  PROVE  LogInv'
<1>1. OtherRecord \in Rec
  BY DEF OtherRecord, Rec
<1>2. /\ lines' \in Seq(Rec) /\ ended' \in BOOLEAN /\ (~ ended' => lines' # <<>>)
      /\ Safe \subseteq Safe'
  BY <1>1, AppendKeepsSafe DEF AppendOther, LogInv
<1>3. \A r : RecordsOf(r) \subseteq Safe => RecordsOf(r) \subseteq Safe'
  BY <1>2 DEF RecordsOf
<1> QED BY <1>2, <1>3 DEF AppendOther, LogInv, LogTypeOK, ReportsNumberedApart

\* The generation that is restored is that of no report and no later one.
LEMMA RestoreStep ==
  ASSUME LogInv, Restore
  PROVE  LogInv'
<1> USE DEF LogInv
<1>1. Safe \subseteq Legible
  BY DEF Safe, Legible
<1>2. ASSUME NEW i \in DOMAIN reports PROVE reports[i].generation <= gcGen'
  <2>1. FinishOf(reports[i].generation) \in Legible
    BY <1>1 DEF RecordsOf
  <2> QED BY <2>1 DEF Restore, FinishOf
<1>3. gcGen' \in Nat
  <2>1. Legible \subseteq Rec \ {Garbled}
    BY DEF Legible, LogTypeOK
  <2>2. \A rec \in Rec \ {Garbled} : rec.generation \in Nat
    BY DEF Rec
  <2> QED BY <2>1, <2>2 DEF Restore
<1>4. Safe' = Safe /\ run' = NoRun /\ NoRun \in Run
  BY DEF Restore, Safe, NoRun, Run
<1>5. \A r : RecordsOf(r) \subseteq Safe => RecordsOf(r) \subseteq Safe'
  BY <1>4 DEF RecordsOf
<1> QED BY <1>2, <1>3, <1>4, <1>5 DEF Restore, LogTypeOK, ReportsNumberedApart

LEMMA LogInvariant == LogSpec => []LogInv
<1>1. LogInv /\ [LogNext]_logVars => LogInv'
  <2> SUFFICES ASSUME LogInv, [LogNext]_logVars PROVE LogInv'
    OBVIOUS
  <2>1. CASE UNCHANGED logVars
    <3>1. UNCHANGED <<lines, ended, gcGen, run, reports>> /\ Safe' = Safe
      BY <2>1 DEF logVars, Safe
    <3>2. \A r : RecordsOf(r) \subseteq Safe => RecordsOf(r) \subseteq Safe'
      BY <3>1 DEF RecordsOf
    <3> QED BY <3>1, <3>2 DEF LogInv, LogTypeOK, ReportsNumberedApart
  <2> QED BY <2>1, StartStep, RemoveStep, FinishStep, OtherStep, RestoreStep DEF LogNext
<1> QED BY <1>1, LogInvInit, PTL DEF LogSpec

\* The number of a collection names it, however often the numbering was restored from
\* a log with torn records (Cache.gcGen).
THEOREM ReportsStayNumberedApart == LogSpec => []ReportsNumberedApart
<1>1. LogInv => ReportsNumberedApart
  BY DEF LogInv
<1> QED BY <1>1, LogInvariant, PTL

\* What a reported collection removed, and its end, can be read in the log for ever
\* (CollectGarbage, AppendAudit, ListAudit).
THEOREM ReportsStayOnRecord == LogSpec => []ReportsOnRecord
<1>1. LogInv => ReportsOnRecord
  <2> SUFFICES ASSUME LogInv, NEW i \in DOMAIN reports
               PROVE  {FinishOf(reports[i].generation)}
                        \cup {RemovalOf(reports[i].generation, x) : x \in reports[i].removed}
                        \subseteq Legible
    BY DEF ReportsOnRecord
  <2> QED BY DEF LogInv, RecordsOf, Safe, Legible
<1> QED BY <1>1, LogInvariant, PTL
=============================================================================
