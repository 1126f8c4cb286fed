---------------------------- MODULE ChunkLayout ----------------------------
(***************************************************************************)
(* The chunk layout a client declares when it creates an upload session    *)
(* (cache.go: normalizeChunks, sameParams, and the size check of Complete).*)
(* A request lists chunks in any order, each with its index, offset and    *)
(* size; an accepted request is kept sorted by index, and completion adds  *)
(* up the sizes.  Byte contents and digests are left out.                  *)
(***************************************************************************)
EXTENDS Integers, Sequences, SequencesExt

CONSTANTS Indices, Offsets, Sizes,  \* field values a request may carry
          Totals,                   \* declared total sizes
          MaxChunks                 \* bound: chunks of one request

ASSUME LayoutAssumption ==
  /\ Indices \subseteq Int /\ Offsets \subseteq Int /\ Sizes \subseteq Int
  /\ Totals \subseteq Nat \ {0}
  /\ MaxChunks \in Nat

VARIABLES request,  \* the chunks as the client lists them
          total,    \* the total size the client declares
          layout,   \* the chunks the session keeps
          stage     \* "requested", "rejected", "open", "published"

layoutVars == <<request, total, layout, stage>>

ChunkSpec == [index : Indices, offset : Offsets, size : Sizes]

-----------------------------------------------------------------------------
(* The checks of the code. *)

\* The place of a chunk in the order of the indexes; chunks with one index, which no
\* accepted request has, stay in the order listed.
Place(chunks, i) ==
  1 + Cardinality({j \in DOMAIN chunks :
                     \/ chunks[j].index < chunks[i].index
                     \/ chunks[j].index = chunks[i].index /\ j < i})

SortedByIndex(chunks) ==
  [n \in DOMAIN chunks |-> chunks[CHOOSE i \in DOMAIN chunks : Place(chunks, i) = n]]

\* SizeBefore(c)[n]: the bytes of the first n chunks.
SizeBefore(chunks) ==
  LET sum[n \in 0 .. Len(chunks)] ==
        IF n = 0 THEN 0 ELSE sum[n - 1] + chunks[n].size
  IN  sum

WellFormed(chunks) ==
  /\ Len(chunks) > 0
  /\ \A i \in DOMAIN chunks :
       chunks[i].index >= 0 /\ chunks[i].size > 0 /\ chunks[i].offset >= 0
  /\ \A i, j \in DOMAIN chunks : chunks[i].index = chunks[j].index => i = j

\* Mutant: the sum of the sizes is not compared with the total.
ContiguousAnyTotal(sorted, size) ==
  sorted[1].index = 0 =>
    \A i \in DOMAIN sorted : sorted[i].offset = SizeBefore(sorted)[i - 1]

\* Offsets and the total are only looked at when the numbering starts at zero.
Contiguous(sorted, size) ==
  sorted[1].index = 0 =>
    /\ \A i \in DOMAIN sorted : sorted[i].offset = SizeBefore(sorted)[i - 1]
    /\ SizeBefore(sorted)[Len(sorted)] = size

Acceptable(chunks, size) ==
  WellFormed(chunks) /\ Contiguous(SortedByIndex(chunks), size)

\* Mutant: the repeated request is compared in the order the client lists it.
SameChunksAsListed(kept, chunks) == kept = chunks

\* The chunks of a repeated request against those of the session it repeats.
SameChunks(kept, chunks) == kept = SortedByIndex(chunks)

-----------------------------------------------------------------------------

LayoutInit ==
  /\ request \in SeqOf(ChunkSpec, MaxChunks)
  /\ total \in Totals
  /\ layout = <<>>
  /\ stage = "requested"

Normalize ==
  /\ stage = "requested"
  /\ IF Acceptable(request, total)
     THEN layout' = SortedByIndex(request) /\ stage' = "open"
     ELSE layout' = layout /\ stage' = "rejected"
  /\ UNCHANGED <<request, total>>

\* All chunks have arrived in their declared sizes: the sum must be the total.
CompleteLayout ==
  /\ stage = "open"
  /\ SizeBefore(layout)[Len(layout)] = total
  /\ stage' = "published"
  /\ UNCHANGED <<request, total, layout>>

LayoutNext == Normalize \/ CompleteLayout

LayoutSpec == LayoutInit /\ [][LayoutNext]_layoutVars

-----------------------------------------------------------------------------
(* What a layout is for, by bytes rather than by running sums. *)

Bytes(c) == c.offset .. (c.offset + c.size - 1)

\* The chunks partition the artifact, in the order of their indexes.
Partitions(chunks, size) ==
  /\ UNION {Bytes(chunks[i]) : i \in DOMAIN chunks} = 0 .. (size - 1)
  /\ \A i, j \in DOMAIN chunks :
       chunks[i].index < chunks[j].index =>
         \A x \in Bytes(chunks[i]), y \in Bytes(chunks[j]) : x < y

\* A layout numbered from zero is accepted exactly when it partitions the
\* artifact, whatever order the client lists the chunks in and whatever gaps its
\* numbering has.
ZeroBasedAcceptedIffPartition ==
  WellFormed(request) /\ (\E i \in DOMAIN request : request[i].index = 0) =>
    /\ stage \in {"open", "published"} => Partitions(request, total)
    /\ stage = "rejected" => ~ Partitions(request, total)

\* A repeated request is the same request in whatever order it lists its chunks.
OrderOfRequestIgnored ==
  stage = "open" =>
    \A q \in SeqOf({request[i] : i \in DOMAIN request}, Len(request)) :
      SameChunks(layout, q) <=> /\ Len(q) = Len(request)
                                /\ ToSet(q) = ToSet(request)
=============================================================================
