-------------------------- MODULE MCServiceCaches --------------------------
(* Instances of ServiceCaches for TLC. Nothing in the code ties one chat or  *)
(* message to another, so one of each is enough; the cases of a run (Worlds) *)
(* take the three caches one at a time. Link previews share no state with    *)
(* them: they get a case of their own, the world without anything else.      *)
EXTENDS ServiceCaches, LinkPreview

MCInit == CacheInit /\ PreviewInit

MCNext ==
    \/ CacheNext /\ UNCHANGED <<world, previewVars>>
    \/ world = {} /\ PreviewNext /\ UNCHANGED <<cacheVars, world>>

MCSpec ==
    /\ MCInit /\ [][MCNext]_<<cacheVars, world, previewVars>>
    /\ CacheFairness /\ FrontendAsks /\ RequestsSucceed

=============================================================================
