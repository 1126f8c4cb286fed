------------------------- MODULE MCPromotionHistory -------------------------
(***************************************************************************)
(* Promotion histories over the instances of MCBuildCache.                 *)
(***************************************************************************)
EXTENDS PromotionHistory, MCBuildCache
=============================================================================
