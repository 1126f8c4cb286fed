------------------------------ MODULE AuditLog ------------------------------
(***************************************************************************)
(* The audit log (AppendAudit and ListAudit of file_store.go) and the      *)
(* numbering of garbage collections that is restored from it (cache.go).   *)
(* The log is one file that is only appended to.  An append that fails, or *)
(* is cut short by a crash, may leave any part of its line behind, and the *)
(* next line then continues it: ListAudit skips the line they make.        *)
(*                                                                         *)
(* A collection records that it starts, each session, lease or blob it has *)
(* removed, and that it is done; the first append that fails ends it.  The *)
(* Cache's mutex is held throughout.                                       *)
(***************************************************************************)
EXTENDS Integers, Sequences

CONSTANTS
  Garbage,        \* what collections remove: sessions, leases and blobs
  MaxGeneration,  \* bound on the collections
  MaxLines        \* bound on the log

VARIABLES
  lines,    \* audit.log: what each line says
  ended,    \* whether the last line has its end
  gcGen,    \* Cache.gcGen, the number of the last collection
  run,      \* the collection under way
  reports   \* the collections that were reported, in order

logVars == <<lines, ended, gcGen, run, reports>>

Garbled == [action |-> "garbled"]   \* a line that is no record
NoRun   == [generation |-> 0, removed |-> {}]

StartOf(g)      == [generation |-> g, action |-> "gc_start"]
FinishOf(g)     == [generation |-> g, action |-> "gc_finish"]
RemovalOf(g, x) == [generation |-> g, action |-> "removed", what |-> x]
OtherRecord     == [generation |-> 0, action |-> "eviction"]   \* evictions, promotions, sweeps

\* ListAudit skips what is no record; the last line may lack its end.
Legible == {lines[i] : i \in DOMAIN lines} \ {Garbled}

LogInit ==
  /\ lines = <<>>
  /\ ended = TRUE
  /\ gcGen = 0
  /\ run = NoRun
  /\ reports = <<>>

\* What is written after a line without an end continues that line.
Joined(text) ==
  IF ended THEN Append(lines, text) ELSE [lines EXCEPT ![Len(lines)] = Garbled]

\* AppendAudit of rec succeeds.
Recorded(rec) ==
  /\ Len(lines) < MaxLines
  /\ lines' = Joined(rec)
  /\ ended' = TRUE

\* It fails or the process ends in it: nothing was written, or a part, or the record
\* without its end, or all of it and only Sync failed.
NotRecorded(rec) ==
  /\ Len(lines) < MaxLines
  /\ \/ UNCHANGED <<lines, ended>>
     \/ lines' = Joined(Garbled) /\ ended' = FALSE
     \/ lines' = Joined(rec) /\ ended' \in BOOLEAN

\* Mutant: a collection does not record its start.
StartUnrecorded ==
  /\ run = NoRun /\ gcGen < MaxGeneration
  /\ gcGen' = gcGen + 1
  /\ run' = [generation |-> gcGen + 1, removed |-> {}]
  /\ UNCHANGED <<lines, ended, reports>>

\* The number is used up even if the record of it fails.
StartRun ==
  /\ run = NoRun /\ gcGen < MaxGeneration
  /\ gcGen' = gcGen + 1
  /\ \/ Recorded(StartOf(gcGen + 1)) /\ run' = [generation |-> gcGen + 1, removed |-> {}]
     \/ NotRecorded(StartOf(gcGen + 1)) /\ run' = NoRun
  /\ UNCHANGED reports

\* What is removed is removed before it is recorded.
RemoveGarbage(x) ==
  /\ run # NoRun /\ x \notin run.removed
  /\ \/ Recorded(RemovalOf(run.generation, x)) /\ run' = [run EXCEPT !.removed = @ \cup {x}]
     \/ NotRecorded(RemovalOf(run.generation, x)) /\ run' = NoRun
  /\ UNCHANGED <<gcGen, reports>>

FinishRun ==
  /\ run # NoRun
  /\ \/ Recorded(FinishOf(run.generation)) /\ reports' = Append(reports, run)
     \/ NotRecorded(FinishOf(run.generation)) /\ UNCHANGED reports
  /\ run' = NoRun
  /\ UNCHANGED gcGen

\* Another handler appends its record.
AppendOther ==
  /\ run = NoRun
  /\ Recorded(OtherRecord) \/ NotRecorded(OtherRecord)
  /\ UNCHANGED <<gcGen, run, reports>>

\* Mutant: the generation is that of the last record.
RestoreLast ==
  /\ run' = NoRun
  /\ gcGen' = IF lines # <<>> /\ lines[Len(lines)] # Garbled THEN lines[Len(lines)].generation ELSE 0
  /\ UNCHANGED <<lines, ended, reports>>

\* The process ends, and the next one restores the generation from the log.
Restore ==
  /\ run' = NoRun
  /\ gcGen' \in {0} \cup {rec.generation : rec \in Legible}
  /\ \A rec \in Legible : gcGen' >= rec.generation
  /\ UNCHANGED <<lines, ended, reports>>

LogNext ==
  \/ StartRun
  \/ \E x \in Garbage : RemoveGarbage(x)
  \/ FinishRun
  \/ AppendOther
  \/ Restore

LogSpec == LogInit /\ [][LogNext]_logVars

-----------------------------------------------------------------------------
(* Properties. *)

\* The number of a collection names it: no two reports carry the same one, and later
\* ones carry larger ones, whatever crashes and torn records came between
\* (Cache.gcGen, restored from ListAudit).
ReportsNumberedApart ==
  \A i, j \in DOMAIN reports : i < j => reports[i].generation < reports[j].generation

\* Everything a reported collection has removed can be read in the log for ever, and
\* so can its end: only the record of its start may be lost to the torn line before it.
ReportsOnRecord ==
  \A i \in DOMAIN reports :
    LET r == reports[i]
    IN  {FinishOf(r.generation)} \cup {RemovalOf(r.generation, x) : x \in r.removed} \subseteq Legible
=============================================================================
