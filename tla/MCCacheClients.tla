--------------------------- MODULE MCCacheClients ---------------------------
(* Instances of CacheClients: a lifetime as long as the fallback's and a   *)
(* longer one, and one fallback slot for two keys, so that a write evicts. *)
EXTENDS CacheClients
=============================================================================
