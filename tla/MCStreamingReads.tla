-------------------------- MODULE MCStreamingReads --------------------------
(***************************************************************************)
(* Streaming reads over the instances of MCBuildCache.                     *)
(***************************************************************************)
EXTENDS StreamingReads, MCBuildCache
=============================================================================
