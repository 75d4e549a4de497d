-------------------------- MODULE MCCacheRetention --------------------------
(* Instances of CacheRetention for TLC; the other values are in the cfgs. *)
EXTENDS CacheRetention

\* Workspaces expire after one day, caches after two.
ShortDays == [t \in Trees |-> IF t \in Workspaces THEN 1 ELSE 2]
=============================================================================
