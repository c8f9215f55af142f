---------------------------- MODULE MCCacheAuth ----------------------------
(***************************************************************************)
(* Instances of CacheAuth for TLC; the .cfg files give the constants their *)
(* values: two API calls that are retried, one that is exempt, one login().*)
(***************************************************************************)
EXTENDS CacheAuth
=============================================================================
