----------------------------- MODULE TieredCache -----------------------------
(***************************************************************************)
(* The two-tier cache of app/core/cache.py: a Redis server shared by every *)
(* run of the backend, and the in-memory TTLCache that takes over for one  *)
(* call whenever Redis cannot answer that call.                            *)
(*                                                                         *)
(* A call of get_cached or set_cached suspends at most once, at the Redis  *)
(* round trip: the body of the fallback lock contains no await.  So a read *)
(* is one step, and a write is one step unless Redis executed SETEX and    *)
(* its reply was lost, in which case the same value is written to the      *)
(* fallback later.  That second write is left to the caller's control      *)
(* state: PutRedis and PutFallback are the two steps it chooses from.      *)
(*                                                                         *)
(* Lifetimes are counted in ticks.  A cached entry knows its age and the   *)
(* lifetime it was granted; Tick ages both tiers together.                 *)
(***************************************************************************)
EXTENDS Naturals, FiniteSets

CONSTANTS
  Keys,           \* hashed cache keys
  None,           \* "no entry": what a lookup that misses returns
  FallbackTTL,    \* the TTLCache's one lifetime, cache_ttl_seconds
  FallbackSize,   \* the TTLCache's maxsize
  RedisEnabled    \* settings.redis_enabled and settings.cache_enabled

ASSUME CacheAssumption ==
  /\ FallbackTTL \in Nat \ {0}
  /\ FallbackSize \in Nat \ {0}
  /\ RedisEnabled \in BOOLEAN

VARIABLES
  redisUp,        \* the Redis server answers
  client,         \* _redis_client is not None
  redis,          \* the Redis keyspace
  fallback        \* _fallback_cache

cacheVars == <<redisUp, client, redis, fallback>>

Entry(V) == [value : V, age : Nat, ttl : Nat]

CacheTypeOK(V) ==
  /\ redisUp \in BOOLEAN
  /\ client \in BOOLEAN
  /\ redis \in [Keys -> Entry(V) \cup {None}]
  /\ fallback \in [Keys -> Entry(V) \cup {None}]

Empty == [k \in Keys |-> None]

(***************************************************************************)
(* Before the first startup nothing is cached; the module creates its      *)
(* TTLCache at import, with no client.                                     *)
(***************************************************************************)
CacheInit ==
  /\ redisUp \in BOOLEAN
  /\ client = FALSE
  /\ redis = Empty
  /\ fallback = Empty

Held(tier) == {k \in Keys : tier[k] # None}

\* Mutant: the value is stored without its lifetime.
Unstamped(v, ttl) == v

Fresh(v, ttl) == [value |-> v, age |-> 0, ttl |-> ttl]

Reachable == client /\ redisUp

(***************************************************************************)
(* get_cached: the tier that answers this call, and the entry it finds.    *)
(* A Redis miss is final; only an exception falls through to the TTLCache. *)
(***************************************************************************)
Serving == IF Reachable THEN redis ELSE fallback

Found(k) == Serving[k]

\* set_cached, the try block: SETEX replaces value and remaining lifetime.
PutRedis(k, v, ttl) ==
  /\ Reachable
  /\ redis' = [redis EXCEPT ![k] = Fresh(v, ttl)]
  /\ UNCHANGED <<redisUp, client, fallback>>

\* Mutant: the fallback is a plain dict, which makes no room.
PutUnbounded(k, v) ==
  /\ fallback' = [fallback EXCEPT ![k] = Fresh(v, FallbackTTL)]
  /\ UNCHANGED <<redisUp, client, redis>>

(***************************************************************************)
(* set_cached, after the except: the TTLCache stores every value with its  *)
(* own lifetime and makes room first when the key is new and it is full.   *)
(***************************************************************************)
PutFallback(k, v) ==
  /\ \/ /\ fallback[k] # None \/ Cardinality(Held(fallback)) < FallbackSize
        /\ fallback' = [fallback EXCEPT ![k] = Fresh(v, FallbackTTL)]
     \/ /\ fallback[k] = None
        /\ Cardinality(Held(fallback)) >= FallbackSize
        /\ \E victim \in Held(fallback) :
             fallback' = [fallback EXCEPT ![victim] = None,
                                          ![k] = Fresh(v, FallbackTTL)]
  /\ UNCHANGED <<redisUp, client, redis>>

(***************************************************************************)
(* init_cache: a new TTLCache, and a client only if the ping succeeds.     *)
(* Nothing sets _redis_client again in the life of the process.            *)
(***************************************************************************)
InitCache ==
  /\ client' = (RedisEnabled /\ redisUp)
  /\ fallback' = Empty
  /\ UNCHANGED <<redisUp, redis>>

\* The process ends: close_cache, or a crash.  Its memory is gone.
DropCache ==
  /\ client' = FALSE
  /\ fallback' = Empty
  /\ UNCHANGED <<redisUp, redis>>

RedisDown ==
  /\ redisUp
  /\ redisUp' = FALSE
  /\ UNCHANGED <<client, redis, fallback>>

(***************************************************************************)
(* Redis answers again.  docker-compose.yml runs it with appendfsync       *)
(* everysec: the writes of its last second may be gone.  An older value    *)
(* such a write had replaced is taken as gone with it.                     *)
(***************************************************************************)
RedisRecovers ==
  /\ ~redisUp
  /\ redisUp' = TRUE
  /\ \E lost \in SUBSET {k \in Held(redis) : redis[k].age = 0} :
       redis' = [k \in Keys |-> IF k \in lost THEN None ELSE redis[k]]
  /\ UNCHANGED <<client, fallback>>

\* Mutant: a value is stored with SET, which has no expiry.
NeverAged(e) == e

\* Mutant: an entry is still served at the instant its lifetime is over.
AgedLate(e) ==
  IF e = None \/ e.age >= e.ttl THEN None ELSE [e EXCEPT !.age = @ + 1]

(***************************************************************************)
(* Time passes.  Both tiers stop returning an entry whose lifetime is over *)
(* (Redis expires the key, the TTLCache ignores and later purges it).      *)
(***************************************************************************)
Aged(e) ==
  IF e = None \/ e.age + 1 >= e.ttl THEN None ELSE [e EXCEPT !.age = @ + 1]

Tick ==
  /\ redis' = [k \in Keys |-> Aged(redis[k])]
  /\ fallback' = [k \in Keys |-> Aged(fallback[k])]
  /\ UNCHANGED <<redisUp, client>>
=============================================================================
