--------------------------- MODULE StreamingReads ---------------------------
(***************************************************************************)
(* Readers of published entries (cache.go: Read; reader.go: EntryReader).  *)
(* Read looks the entry up under the service lock and returns a reader that*)
(* fetches the blobs one after the other without it, while every operation *)
(* of BuildCache goes on.  A blob that has been opened can be read to its  *)
(* end whatever happens to it, so a reader's steps are its GetBlob calls.  *)
(***************************************************************************)
EXTENDS BuildCache

CONSTANT ReaderIds   \* readers; each is opened at most once

VARIABLE readers

streamVars == <<vars, readers>>

\* A reader keeps the manifest it is reading, how many blobs it has fetched (next;
\* all of them is end of file) and whether it is "reading", "failed" or "closed".
Unopened == [status |-> "unopened"]

StreamInit == Init /\ readers = [r \in ReaderIds |-> Unopened]

\* The chunk list is copied while the lock is held.
OpenReader(r, k) ==
  /\ readers[r].status = "unopened"
  /\ Idle /\ Read(k) /\ UNCHANGED promotionVars
  /\ readers' = [readers EXCEPT ![r] = [manifest |-> entries[k].manifest,
                                        next |-> 0, status |-> "reading"]]

NextBlob(r) == readers[r].manifest[readers[r].next + 1]

\* A missing blob is an error to the caller, who may try again or give up.
FetchBlob(r) ==
  /\ readers[r].status \in {"reading", "failed"}
  /\ readers[r].next < Len(readers[r].manifest)
  /\ readers' = IF NextBlob(r) \in blobs
                THEN [readers EXCEPT ![r].next = @ + 1, ![r].status = "reading"]
                ELSE [readers EXCEPT ![r].status = "failed"]
  /\ UNCHANGED vars

CloseReader(r) ==
  /\ readers[r].status \in {"reading", "failed"}
  /\ readers' = [readers EXCEPT ![r].status = "closed"]
  /\ UNCHANGED vars

ReaderStep ==
  \E r \in ReaderIds :
    \/ \E k \in Slots : OpenReader(r, k)
    \/ FetchBlob(r)
    \/ CloseReader(r)

StreamNext == ReaderStep \/ (Next /\ UNCHANGED readers)

StreamSpec == StreamInit /\ [][StreamNext]_streamVars

-----------------------------------------------------------------------------

Fails(r) == readers[r].status = "reading" /\ readers'[r].status = "failed"

\* A read can only be cut short once its entry was evicted or replaced, and then
\* only if no active lease protects the content it is reading.
PinnedReadsNeverFail ==
  [][\A r \in ReaderIds : Fails(r) =>
       /\ ~ \E k \in Slots : PinActive(k) /\ pins[k].manifest = readers[r].manifest
       /\ ~ \E k \in Slots : Published(k) /\ entries[k].manifest = readers[r].manifest]_streamVars
=============================================================================
