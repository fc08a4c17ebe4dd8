---------------------------- MODULE CacheClients ----------------------------
(***************************************************************************)
(* TieredCache driven by arbitrary callers: any key may be read or written *)
(* with any lifetime at any moment, the process may be stopped and started *)
(* again, and the Redis server may go away and come back at any time.      *)
(* Every module of the backend that uses the cache (the verify route, the  *)
(* Wikipedia and SerpAPI retrievers) is one of these callers.              *)
(***************************************************************************)
EXTENDS TieredCache

CONSTANTS
  Values,         \* what the callers store
  Lifetimes,      \* the per-key TTLs they ask for
  Horizon         \* bound of the observer since, past every lifetime

ASSUME LifetimesAssumption ==
  /\ Lifetimes \subseteq Nat \ {0}
  /\ Horizon \in Nat
  /\ \A n \in Lifetimes \cup {FallbackTTL} : n <= Horizon

\* None is no entry at all.
ASSUME NoEntryAssumption == None \notin Entry(Values)

VARIABLES
  up,             \* the process has run init_cache and not ended
  unsure,         \* <<key, value>> of SETEX calls whose reply was lost
  since           \* since[k][v]: ticks since a set_cached(k, v) last wrote v

vars == <<cacheVars, up, unsure, since>>

(***************************************************************************)
(* since is an observer, not program state.  It counts to Horizon and      *)
(* stays there: "never, or too long ago for any lifetime to last".         *)
(***************************************************************************)
Wrote(k, v) == since' = [since EXCEPT ![k][v] = 0]

\* Every variable has its type: the tiers hold entries of stored values only.
TypeOK ==
  /\ CacheTypeOK(Values)
  /\ up \in BOOLEAN
  /\ unsure \subseteq Keys \X Values
  /\ since \in [Keys -> [Values -> 0..Horizon]]

Init ==
  /\ CacheInit
  /\ up = FALSE
  /\ unsure = {}
  /\ since = [k \in Keys |-> [v \in Values |-> Horizon]]

Start ==
  /\ ~up
  /\ up' = TRUE
  /\ InitCache
  /\ UNCHANGED <<unsure, since>>

\* The process ends; calls that were waiting for Redis end with it.
Stop ==
  /\ up
  /\ up' = FALSE
  /\ unsure' = {}
  /\ DropCache
  /\ UNCHANGED since

SetInRedis(k, v, ttl) ==
  /\ up
  /\ PutRedis(k, v, ttl)
  /\ Wrote(k, v)
  /\ UNCHANGED <<up, unsure>>

\* SETEX is executed and the caller sees a timeout instead of its reply.
SetReplyLost(k, v, ttl) ==
  /\ up
  /\ PutRedis(k, v, ttl)
  /\ unsure' = unsure \cup {<<k, v>>}
  /\ Wrote(k, v)
  /\ UNCHANGED up

SetInFallback(k, v) ==
  /\ up
  /\ \/ /\ ~Reachable
        /\ UNCHANGED unsure
     \/ /\ <<k, v>> \in unsure
        /\ unsure' = unsure \ {<<k, v>>}
  /\ PutFallback(k, v)
  /\ Wrote(k, v)
  /\ UNCHANGED up

RedisOutage == RedisDown /\ UNCHANGED <<up, unsure, since>>

RedisReturns == RedisRecovers /\ UNCHANGED <<up, unsure, since>>

Pass ==
  /\ Tick
  /\ since' = [k \in Keys |-> [v \in Values |->
                 IF since[k][v] < Horizon THEN since[k][v] + 1 ELSE Horizon]]
  /\ UNCHANGED <<up, unsure>>

Next ==
  \/ Start
  \/ Stop
  \/ \E k \in Keys, v \in Values, ttl \in Lifetimes : SetInRedis(k, v, ttl)
  \/ \E k \in Keys, v \in Values, ttl \in Lifetimes : SetReplyLost(k, v, ttl)
  \/ \E k \in Keys, v \in Values : SetInFallback(k, v)
  \/ RedisOutage
  \/ RedisReturns
  \/ Pass

Spec == Init /\ [][Next]_vars /\ WF_vars(Pass)

-----------------------------------------------------------------------------
(***************************************************************************)
(* Nothing outlives the lifetime it was stored with, whichever tier serves *)
(* it, through outages, restarts, lost replies and later writes of other   *)
(* values: a value get_cached can return was set under that key less than  *)
(* its lifetime ago (setex and TTLCache in cache.py:211,222).              *)
(***************************************************************************)
NothingOverdue ==
  \A k \in Keys :
    /\ redis[k] # None => since[k][redis[k].value] < redis[k].ttl
    /\ fallback[k] # None => since[k][fallback[k].value] < FallbackTTL

(***************************************************************************)
(* The fallback never holds more than maxsize entries (cache.py:108): a    *)
(* long outage cannot grow the process without bound.                      *)
(***************************************************************************)
FallbackBounded == Cardinality(Held(fallback)) <= FallbackSize

(***************************************************************************)
(* An entry is not immortal: once nobody writes a value any more, there is *)
(* a moment after which no lookup finds it, in either tier.                *)
(***************************************************************************)
EverythingExpires ==
  \A k \in Keys, v \in Values :
    (<>[](since[k][v] # 0)) =>
      <>[](\A tier \in {redis, fallback} : tier[k] = None \/ tier[k].value # v)
=============================================================================
