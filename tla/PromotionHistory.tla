-------------------------- MODULE PromotionHistory --------------------------
(***************************************************************************)
(* What promotions have published, and what had happened to them by then,  *)
(* counted beside the service.  The redo log tells a commit that is taken  *)
(* up again how far it had come, but it is written after the fact: between *)
(* PutEntry and SavePromotionTxn the entry is there and the log does not   *)
(* say so (applyPromotionLocked).  Whether a promotion publishes once      *)
(* cannot be read off the state, in which its entry may have been replaced *)
(* since; nor can whether its namespace was deleted before or after its    *)
(* commit began.  Both are kept in history variables.                      *)
(***************************************************************************)
EXTENDS BuildCache

VARIABLES
  published,   \* promotions that have put their entry
  disturbed,   \* those of them whose commit let go of the mutex right after that
  orphaned     \* promotions whose namespace was deleted while their commit had begun

historyVars == <<vars, published, disturbed, orphaned>>

HistoryInit ==
  /\ Init
  /\ published = {}
  /\ disturbed = {}
  /\ orphaned = {}

\* SavePromotionTxn fails while the service goes on: the commit returns an error
\* with its entry published and its redo log one phase behind, and every other
\* request may come before it is taken up again.
LetsGo(p) ==
  /\ InterruptStep /\ InterruptCommit
  /\ mode = "serving"
  /\ Applying(p, "eviction_committed")
  /\ EntryPresent(p)

\* DeleteNamespace takes the target of a commit whose redo log was left when an error
\* released the mutex, and which has still to put its entry.
Orphans(p) ==
  /\ promoTxns[p] \in {"committing", "eviction_committed"}
  /\ quota[promotions[p].target[1]] # Unregistered
  /\ quota'[promotions[p].target[1]] = Unregistered

HistoryNext ==
  /\ Next
  /\ published' = published \cup {p \in PromoIds : WriteEntry(p)}
  /\ disturbed' = disturbed \cup {p \in PromoIds : LetsGo(p)}
  /\ orphaned' = orphaned \cup {p \in PromoIds : Orphans(p)}

HistorySpec == HistoryInit /\ [][HistoryNext]_historyVars

-----------------------------------------------------------------------------

\* Entries live in namespaces that exist: a namespace goes only when nothing is
\* published in it, and neither a session nor a promotion that was merely prepared
\* completes into one that is gone.  Only a commit that had begun while its namespace
\* existed, was interrupted with its redo log left, and whose namespace was deleted
\* before it was taken up again still writes its entry there (DeleteNamespace does not
\* look at redo logs, and a commit that has one is not validated again).
EntriesInNamespaces ==
  \A k \in Slots : Published(k) /\ ~ Registered(k[1]) =>
    \E p \in published \cap orphaned :
      promotions[p].target = k /\ entries[k].origin = OriginOf(p)

\* The promotions that would leave the same entry in the same slot.  Two requests
\* may prepare the same promotion, and what one wrote the other finds present.
SamePromotion(p) ==
  {w \in PromoIds : /\ promotions[w].status # "none"
                    /\ promotions[w].target = promotions[p].target
                    /\ promotions[w].source = promotions[p].source
                    /\ promotions[w].digest = promotions[p].digest
                    /\ promotions[w].request = promotions[p].request}

\* A promotion is recorded as committed only when its content was put into its
\* target, by itself or by another that promotes the same: whatever was interrupted,
\* the log never leads past a write that has not happened.
CommittedWasPublished ==
  \A p \in PromoIds :
    promotions[p].status = "committed" => SamePromotion(p) \cap published # {}

\* A promotion that has put its entry does not put it again and does not fail, through
\* crashes at any point of its commit and of the starts that resume it.  A failing
\* redo-log write lets others at the target in between; only then may the entry be
\* replaced or evicted before the commit knows that it was written.
PublishesOnce ==
  [][\A p \in published \ disturbed :
       /\ ~ WriteEntry(p)
       /\ promotions'[p].status = "failed" => promotions[p].status = "failed"]_historyVars
=============================================================================
