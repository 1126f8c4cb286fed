--------------------------- MODULE CacheContract ---------------------------
(***************************************************************************)
(* What the service promises its clients, without sessions, clock, plans,  *)
(* redo logs or restarts (README.md; cache.go): a shelf with one item per  *)
(* slot, the items that leases keep, and the chunks in store.  Every change*)
(* a client can see is one of the six below and takes effect at one moment:*)
(* a crash or a failing write anywhere leaves the state before or after    *)
(* one of them.                                                            *)
(***************************************************************************)
EXTENDS Integers, Sequences

CONSTANTS Namespaces, Keys, Blobs, Manifests

VARIABLES
  shelf,   \* what a read of each slot returns: a version and its chunks
  kept,    \* the item each slot's lease protects
  stored   \* the chunks that can be fetched

contractVars == <<shelf, kept, stored>>

Slots == Namespaces \X Keys

Nothing == [version |-> 0]

Parts(item) == {item.manifest[i] : i \in DOMAIN item.manifest}

Stored(item, chunks) == item # Nothing => Parts(item) \subseteq chunks

Cleared(table, K) == [k \in Slots |-> IF k \in K THEN Nothing ELSE table[k]]

\* What may leave the shelf of a namespace: what no lease keeps.
Loose(ns) == {k \in Slots : k[1] = ns /\ kept[k] = Nothing}

Init ==
  /\ shelf = [k \in Slots |-> Nothing]
  /\ kept = [k \in Slots |-> Nothing]
  /\ stored = {}

Receive(b) ==
  /\ stored' = stored \cup {b}
  /\ UNCHANGED <<shelf, kept>>

\* An item whose chunks are stored follows the one on its shelf, and what has to make
\* room for it in its namespace goes at the same moment.
Publish(k, m, K) ==
  LET item == [version |-> shelf[k].version + 1, manifest |-> m]
  IN  /\ Stored(item, stored)
      /\ K \subseteq Loose(k[1]) \ {k}
      /\ shelf' = [Cleared(shelf, K) EXCEPT ![k] = item]
      /\ UNCHANGED <<kept, stored>>

Evict(ns, K) ==
  /\ K \subseteq Loose(ns)
  /\ shelf' = Cleared(shelf, K)
  /\ UNCHANGED <<kept, stored>>

\* A lease keeps what its slot holds as it begins.
Keep(k) ==
  /\ shelf[k] # Nothing
  /\ kept' = [kept EXCEPT ![k] = shelf[k]]
  /\ UNCHANGED <<shelf, stored>>

\* Leases end: one by request, any number by the clock.
Release(K) ==
  /\ kept' = Cleared(kept, K)
  /\ UNCHANGED <<shelf, stored>>

Collect(B) ==
  /\ stored' = stored \ B
  /\ \A k \in Slots : Stored(shelf[k], stored') /\ Stored(kept[k], stored')
  /\ UNCHANGED <<shelf, kept>>

Next ==
  \/ \E b \in Blobs : Receive(b)
  \/ \E k \in Slots, m \in Manifests, K \in SUBSET Slots : Publish(k, m, K)
  \/ \E ns \in Namespaces, K \in SUBSET Slots : Evict(ns, K)
  \/ \E k \in Slots : Keep(k)
  \/ \E K \in SUBSET Slots : Release(K)
  \/ \E B \in SUBSET stored : Collect(B)

Spec == Init /\ [][Next]_contractVars

-----------------------------------------------------------------------------

\* Whatever is on a shelf or kept can be fetched, and a kept item stays on its shelf
\* until a later version replaces it.
Promises ==
  \A k \in Slots :
    /\ Stored(shelf[k], stored) /\ Stored(kept[k], stored)
    /\ kept[k] # Nothing =>
         /\ shelf[k].version >= kept[k].version
         /\ shelf[k].version = kept[k].version => shelf[k] = kept[k]
=============================================================================
