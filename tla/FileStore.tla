------------------------------ MODULE FileStore ------------------------------
(***************************************************************************)
(* The store that keeps its objects in files (file_store.go): one file for *)
(* each object, written to a temporary file in the same directory and then *)
(* renamed, under one mutex except for blobs.  Each system call is a step, *)
(* so calls interleave and a crash of the process may come between any two.*)
(* Opening the store moves entries that an earlier version left directly   *)
(* under entries/ into the directory of the default namespace.             *)
(***************************************************************************)
EXTENDS StoreInterface, FiniteSets

CONSTANTS
  LegacyNames,  \* entries an earlier version may have left
  StoreFaults   \* which of "crash" and "write" may happen

ASSUME FileStoreAssumption ==
  /\ LegacyNames \subseteq In(Entries)
  /\ StoreFaults \subseteq {"crash", "write"}
  /\ "nobody" \notin Callers
  /\ "no file" \notin Contents
  /\ "no name" \notin Names

VARIABLES
  files,      \* the file of each object
  legacy,     \* the file an earlier version left for it
  temps,      \* the temporary file each caller is writing
  lock,       \* who holds FileStore.mu
  steps,      \* where each caller is in its call
  walks,      \* what each listing has ahead, met and found
  migrating,  \* opening: the entry that was moved and not yet removed
  running,    \* the process: "down", "opening" or "open"
  calls, answers, touched   \* as in StoreContract

fileVars   == <<files, legacy, temps>>
callVars   == <<calls, answers, touched, lock, steps, walks>>
openVars   == <<migrating, running>>
storeVars  == <<fileVars, callVars, openVars>>

Nobody  == "nobody"
NoFile  == "no file"
Partial == "partial"   \* created, not completely written
NoName  == "no name"
NoWalk  == [ahead |-> {}, unread |-> {}, temps |-> {}, found |-> [n \in Names |-> Absent]]

\* What the directory shows to one who reads it: the objects of the contract.
Visible == [n \in Names |-> IF legacy[n] # Absent THEN legacy[n] ELSE files[n]]

Contract == INSTANCE StoreContract WITH objects <- Visible

Init ==
  /\ files = [n \in Names |-> Absent]
  /\ legacy \in [Names -> Values \cup {Absent}]
  /\ \A n \in Names \ LegacyNames : legacy[n] = Absent
  /\ temps = [p \in Callers |-> NoFile]
  /\ lock = Nobody
  /\ steps = [p \in Callers |-> "idle"]
  /\ walks = [p \in Callers |-> NoWalk]
  /\ migrating = NoName
  /\ running = "down"
  /\ calls = [p \in Callers |-> NoCall]
  /\ answers = [p \in Callers |-> Pending]
  /\ touched = [p \in Callers |-> {}]

-----------------------------------------------------------------------------
(* Calls. *)

At(p, step) == calls[p] # NoCall /\ steps[p] = step

GoTo(p, step) == steps' = [steps EXCEPT ![p] = step]

\* The call has its answer; what is left is to release the mutex.
Finish(p, a) ==
  /\ answers' = [answers EXCEPT ![p] = a]
  /\ GoTo(p, "end")

IsBlob(c) == CollectionOf[c.name] = Blobs

\* Saves and deletes of everything but blobs hold the mutex.
NeedsLock(c) == c.op \in {"put", "delete"} /\ ~ IsBlob(c)

\* The listings under way learn that the object of n changed.
NoteChange(n) ==
  touched' = [q \in Callers |-> IF calls[q].op = "list" /\ files'[n] # files[n]
                                THEN touched[q] \cup {n} ELSE touched[q]]

Begin(p, c) ==
  /\ running = "open"
  /\ calls[p] = NoCall
  /\ calls' = [calls EXCEPT ![p] = c]
  /\ touched' = [touched EXCEPT ![p] = {}]
  /\ GoTo(p, "begin")
  /\ UNCHANGED <<fileVars, openVars, answers, lock, walks>>

\* PutBlob: a blob that is there already is not written again.
StatBlob(p) ==
  /\ At(p, "begin") /\ calls[p].op = "put" /\ IsBlob(calls[p])
  /\ IF files[calls[p].name] # Absent
     THEN Finish(p, Done)
     ELSE GoTo(p, "create") /\ UNCHANGED answers
  /\ UNCHANGED <<fileVars, openVars, calls, touched, lock, walks>>

\* Mutant: the condition of an entry is looked at before the mutex is held.
TakeLockUnlessEntry(p) ==
  /\ At(p, "begin") /\ NeedsLock(calls[p])
  /\ lock = Nobody \/ CollectionOf[calls[p].name] = Entries
  /\ lock' = p
  /\ GoTo(p, IF calls[p].op = "delete" THEN "remove"
             ELSE IF CollectionOf[calls[p].name] = Entries THEN "check" ELSE "create")
  /\ UNCHANGED <<fileVars, openVars, calls, answers, touched, walks>>

TakeLock(p) ==
  /\ At(p, "begin") /\ NeedsLock(calls[p])
  /\ lock = Nobody
  /\ lock' = p
  /\ GoTo(p, IF calls[p].op = "delete" THEN "remove"
             ELSE IF CollectionOf[calls[p].name] = Entries THEN "check" ELSE "create")
  /\ UNCHANGED <<fileVars, openVars, calls, answers, touched, walks>>

CheckEntry(p) ==
  /\ At(p, "check")
  /\ IF Allowed(calls[p], files[calls[p].name])
     THEN GoTo(p, "create") /\ UNCHANGED answers
     ELSE Finish(p, ConditionFailed)
  /\ UNCHANGED <<fileVars, openVars, calls, touched, lock, walks>>

CreateTemp(p) ==
  /\ At(p, "create")
  /\ temps' = [temps EXCEPT ![p] = Partial]
  /\ GoTo(p, "write")
  /\ UNCHANGED <<files, legacy, openVars, calls, answers, touched, lock, walks>>

\* Write, chmod, sync and close.
WriteTemp(p) ==
  /\ At(p, "write")
  /\ temps' = [temps EXCEPT ![p] = calls[p].value]
  /\ GoTo(p, "rename")
  /\ UNCHANGED <<files, legacy, openVars, calls, answers, touched, lock, walks>>

Rename(p) ==
  /\ At(p, "rename")
  /\ files' = [files EXCEPT ![calls[p].name] = temps[p]]
  /\ temps' = [temps EXCEPT ![p] = NoFile]
  /\ Finish(p, Done)
  /\ NoteChange(calls[p].name)
  /\ UNCHANGED <<legacy, openVars, calls, lock, walks>>

RemoveFile(p) ==
  /\ \/ At(p, "remove")
     \/ At(p, "begin") /\ calls[p].op = "delete" /\ IsBlob(calls[p])
  /\ files' = [files EXCEPT ![calls[p].name] = Absent]
  /\ Finish(p, Done)
  /\ NoteChange(calls[p].name)
  /\ UNCHANGED <<legacy, temps, openVars, calls, lock, walks>>

\* A file that is open can be read to its end whatever is renamed or removed.
ReadFile(p) ==
  /\ At(p, "begin") /\ calls[p].op = "get"
  /\ Finish(p, Found(files[calls[p].name]))
  /\ UNCHANGED <<fileVars, openVars, calls, touched, lock, walks>>

-----------------------------------------------------------------------------
(* Listings.  They hold no mutex: each directory is read, then its files.  *)

\* Collections kept as trees, listed one directory after the other.
Trees == {Blobs, Entries, Pins}

Listing(p) == At(p, "list")

OpenTree(p) ==
  /\ At(p, "begin") /\ calls[p].op = "list"
  /\ walks' = [walks EXCEPT ![p].ahead = In(calls[p].collection)]
  /\ GoTo(p, "list")
  /\ UNCHANGED <<fileVars, openVars, calls, answers, touched, lock>>

\* Temporary files are told by their names, but ListBlobs asks for the size of each
\* file before it looks at the name.
ReadDirectory(p) ==
  /\ Listing(p) /\ walks[p].unread = {} /\ walks[p].temps = {}
  /\ \E dir \in SUBSET walks[p].ahead \ {{}} :
       /\ calls[p].collection \in Trees \/ dir = walks[p].ahead
       /\ walks' = [walks EXCEPT
            ![p].ahead  = @ \ dir,
            ![p].unread = {n \in dir : files[n] # Absent},
            ![p].temps  = IF calls[p].collection = Blobs
                          THEN {q \in Callers : temps[q] # NoFile /\ calls[q].name \in dir}
                          ELSE {}]
  /\ UNCHANGED <<fileVars, openVars, calls, answers, touched, lock, steps>>

\* A file that was met and is gone when it is read fails the listing.
ReadListed(p, n) ==
  /\ Listing(p) /\ n \in walks[p].unread
  /\ files[n] # Absent
  /\ walks' = [walks EXCEPT ![p].unread = @ \ {n}, ![p].found[n] = files[n]]
  /\ UNCHANGED <<fileVars, openVars, calls, answers, touched, lock, steps>>

StatTemp(p, q) ==
  /\ Listing(p) /\ q \in walks[p].temps
  /\ temps[q] # NoFile
  /\ walks' = [walks EXCEPT ![p].temps = @ \ {q}]
  /\ UNCHANGED <<fileVars, openVars, calls, answers, touched, lock, steps>>

MeetVanished(p) ==
  /\ Listing(p)
  /\ \/ \E n \in walks[p].unread : files[n] = Absent
     \/ \E q \in walks[p].temps : temps[q] = NoFile
  /\ Finish(p, Failed)
  /\ walks' = [walks EXCEPT ![p] = NoWalk]
  /\ UNCHANGED <<fileVars, openVars, calls, touched, lock>>

FinishListing(p) ==
  /\ Listing(p)
  /\ walks[p].ahead = {} /\ walks[p].unread = {} /\ walks[p].temps = {}
  /\ Finish(p, Listed([n \in In(calls[p].collection) |-> walks[p].found[n]]))
  /\ walks' = [walks EXCEPT ![p] = NoWalk]
  /\ UNCHANGED <<fileVars, openVars, calls, touched, lock>>

-----------------------------------------------------------------------------
(* The end of a call. *)

\* Mutant: a write that fails leaves its temporary file.
FailCallLeavingTemp(p) ==
  /\ "write" \in StoreFaults
  /\ calls[p] # NoCall /\ steps[p] # "end"
  /\ steps[p] = "begin" => ~ NeedsLock(calls[p])
  /\ Finish(p, Failed)
  /\ walks' = [walks EXCEPT ![p] = NoWalk]
  /\ UNCHANGED <<fileVars, openVars, calls, touched, lock>>

\* A system call fails.  The temporary file is removed; one that is left behind, here
\* or by a crash, has a name nobody looks for again.
FailCall(p) ==
  /\ "write" \in StoreFaults
  /\ calls[p] # NoCall /\ steps[p] # "end"
  /\ steps[p] = "begin" => ~ NeedsLock(calls[p])
  /\ Finish(p, Failed)
  /\ temps' = [temps EXCEPT ![p] = NoFile]
  /\ walks' = [walks EXCEPT ![p] = NoWalk]
  /\ UNCHANGED <<files, legacy, openVars, calls, touched, lock>>

Return(p) ==
  /\ At(p, "end")
  /\ calls' = [calls EXCEPT ![p] = NoCall]
  /\ answers' = [answers EXCEPT ![p] = Pending]
  /\ GoTo(p, "idle")
  /\ lock' = IF lock = p THEN Nobody ELSE lock
  /\ UNCHANGED <<fileVars, openVars, touched, walks>>

-----------------------------------------------------------------------------
(* Opening the store. *)

Open ==
  /\ running = "down"
  /\ running' = "opening"
  /\ UNCHANGED <<fileVars, callVars, migrating>>

\* Mutant: an entry is moved only if it was not moved before.
MigrateOnlyNew(n) ==
  /\ running = "opening" /\ migrating = NoName
  /\ legacy[n] # Absent
  /\ files[n] = Absent
  /\ files' = [files EXCEPT ![n] = legacy[n]]
  /\ migrating' = n
  /\ UNCHANGED <<legacy, temps, callVars, running>>

\* PutEntry without a condition (-2): after a crash the entry is moved again.
MigrateEntry(n) ==
  /\ running = "opening" /\ migrating = NoName
  /\ legacy[n] # Absent
  /\ files' = [files EXCEPT ![n] = legacy[n]]
  /\ migrating' = n
  /\ UNCHANGED <<legacy, temps, callVars, running>>

RemoveLegacy ==
  /\ running = "opening" /\ migrating # NoName
  /\ legacy' = [legacy EXCEPT ![migrating] = Absent]
  /\ migrating' = NoName
  /\ UNCHANGED <<files, temps, callVars, running>>

FinishOpen ==
  /\ running = "opening" /\ migrating = NoName
  /\ \A n \in Names : legacy[n] = Absent
  /\ running' = "open"
  /\ UNCHANGED <<fileVars, callVars, migrating>>

\* An error ends NewFileStore.
FailOpen ==
  /\ "write" \in StoreFaults
  /\ running = "opening"
  /\ running' = "down"
  /\ migrating' = NoName
  /\ UNCHANGED <<files, legacy, temps, callVars>>

\* The process is gone, and with it everything but the files.
Crash ==
  /\ "crash" \in StoreFaults
  /\ running # "down"
  /\ running' = "down"
  /\ migrating' = NoName
  /\ calls' = [p \in Callers |-> NoCall]
  /\ answers' = [p \in Callers |-> Pending]
  /\ steps' = [p \in Callers |-> "idle"]
  /\ walks' = [p \in Callers |-> NoWalk]
  /\ lock' = Nobody
  /\ temps' = [p \in Callers |-> NoFile]
  /\ UNCHANGED <<files, legacy, touched>>

-----------------------------------------------------------------------------

CallStep ==
  \E p \in Callers :
    \/ \E c \in ClientCalls : Begin(p, c)
    \/ StatBlob(p)
    \/ TakeLock(p)
    \/ CheckEntry(p)
    \/ CreateTemp(p)
    \/ WriteTemp(p)
    \/ Rename(p)
    \/ RemoveFile(p)
    \/ ReadFile(p)
    \/ OpenTree(p)
    \/ ReadDirectory(p)
    \/ \E n \in Names : ReadListed(p, n)
    \/ \E q \in Callers : StatTemp(p, q)
    \/ MeetVanished(p)
    \/ FinishListing(p)
    \/ FailCall(p)
    \/ Return(p)

OpenStep ==
  \/ Open
  \/ \E n \in Names : MigrateEntry(n)
  \/ RemoveLegacy
  \/ FinishOpen

Next == CallStep \/ OpenStep \/ FailOpen \/ Crash

Spec == Init /\ [][Next]_storeVars

\* NewFileStore is called at every start and does not wait for anyone.
FairSpec == Spec /\ WF_storeVars(OpenStep)

-----------------------------------------------------------------------------
(* Properties. *)

Steps == {"idle", "begin", "check", "create", "write", "rename", "remove", "list", "end"}

Walk == [ahead : SUBSET Names, unread : SUBSET Names, temps : SUBSET Callers,
         found : [Names -> Contents \cup {Absent}]]

\* Each object, step and file is of its kind; a temporary file exists exactly while it
\* is being written, and an answer exactly when a call is at its end.
StoreTypeOK ==
  /\ files \in [Names -> Contents \cup {Absent}]
  /\ legacy \in [Names -> Contents \cup {Absent}]
  /\ \A n \in Names : files[n] \in Holds(n) /\ legacy[n] \in Holds(n)
  /\ temps \in [Callers -> Contents \cup {NoFile, Partial}]
  /\ lock \in Callers \cup {Nobody}
  /\ steps \in [Callers -> Steps]
  /\ walks \in [Callers -> Walk]
  /\ migrating \in Names \cup {NoName}
  /\ running \in {"down", "opening", "open"}
  /\ calls \in [Callers -> ClientCalls \cup {NoCall}]
  /\ answers \in [Callers -> Answers]
  /\ touched \in [Callers -> SUBSET Names]
  /\ \A p \in Callers :
       /\ calls[p] = NoCall <=> steps[p] = "idle"
       /\ temps[p] # NoFile <=> steps[p] \in {"write", "rename"}
       /\ answers[p] # Pending <=> steps[p] = "end"

\* The files keep the contract of a store: whatever the interleaving of system calls,
\* failures and crashes of the process, each call reads or changes one object in one
\* moment, a write that failed or was cut short left no trace in the objects, a write
\* that was answered is still there after a restart, and a conditional write never
\* overwrites a version it did not ask for (PutEntry, writeAtomic).
ImplementsContract == Contract!Spec

\* A store whose process is not killed again and meets no more errors opens, whatever
\* an earlier crash left half-migrated (migrateLegacyEntries).
OpensAgain ==
  <>[][~ Crash /\ ~ FailOpen]_storeVars => <>[](running = "open")
=============================================================================
