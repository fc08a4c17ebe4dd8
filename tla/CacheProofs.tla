---------------------------- MODULE CacheProofs ----------------------------
(***************************************************************************)
(* Proofs about CacheClients, for any keys, values and lifetimes.  What    *)
(* makes NothingOverdue inductive is that a cell's age bounds the time     *)
(* since its value was set: every write of a value resets both, and they   *)
(* grow together.                                                          *)
(***************************************************************************)
EXTENDS CacheClients, FiniteSetTheorems, TLAPS

USE DEF cacheVars

\* A live entry of key k is within its lifetime, and no older than its write.
Young(k, e) ==
  /\ e.age < e.ttl
  /\ since[k][e.value] <= e.age

CacheInv ==
  /\ TypeOK
  /\ \A k \in Keys : redis[k] # None => Young(k, redis[k])
  /\ \A k \in Keys : fallback[k] # None =>
       Young(k, fallback[k]) /\ fallback[k].ttl = FallbackTTL
  /\ IsFiniteSet(Held(fallback))
  /\ FallbackBounded

\* What a cell can become in one step: cleared, kept, aged, or written.
Written(k, e, ttl) == \E v \in Values : e = Fresh(v, ttl) /\ since'[k][v] = 0

\* A fresh entry has the type of an entry and is young.
LEMMA FreshIsYoung ==
  ASSUME NEW k \in Keys, NEW n \in Nat \ {0}, NEW e, Written(k, e, n)
  PROVE  e \in Entry(Values) /\ Young(k, e)' /\ e.ttl = n
  BY DEF Written, Fresh, Entry, Young

\* The observer after a write, and after time has passed.
LEMMA WroteMoves ==
  ASSUME TypeOK, NEW k \in Keys, NEW v \in Values, Wrote(k, v)
  PROVE  /\ since' \in [Keys -> [Values -> 0..Horizon]]
         /\ since'[k][v] = 0
         /\ \A c \in Keys, w \in Values : since'[c][w] <= since[c][w]
  BY LifetimesAssumption DEF TypeOK, Wrote

\* A cell that is kept while the observer does not advance stays young.
LEMMA KeptIsYoung ==
  ASSUME TypeOK, NEW k \in Keys, NEW e \in Entry(Values), Young(k, e),
         since' \in [Keys -> [Values -> 0..Horizon]],
         \A c \in Keys, w \in Values : since'[c][w] <= since[c][w]
  PROVE  Young(k, e)'
<1>1. since[k][e.value] \in Nat /\ since'[k][e.value] \in Nat /\ e.age \in Nat
  BY LifetimesAssumption DEF TypeOK, Entry
<1> QED BY <1>1 DEF Young, Entry

\* One write of one tier, seen from the tier that is written.
LEMMA WriteStep ==
  ASSUME TypeOK, NEW tier, NEW k \in Keys, NEW v \in Values, NEW n \in Nat \ {0},
         tier \in [Keys -> Entry(Values) \cup {None}],
         \A c \in Keys : tier[c] # None => Young(c, tier[c]),
         Wrote(k, v),
         NEW new, new \in [Keys -> Entry(Values) \cup {None}],
         new[k] = Fresh(v, n),
         \A c \in Keys \ {k} : new[c] \in {tier[c], None}
  PROVE  /\ \A c \in Keys : new[c] # None => Young(c, new[c])'
         /\ new[k].ttl = n
<1>1. Written(k, new[k], n)
  BY WroteMoves DEF Written
<1>2. Young(k, new[k])' /\ new[k].ttl = n
  BY <1>1, FreshIsYoung
<1>3. ASSUME NEW c \in Keys \ {k}, new[c] # None PROVE Young(c, new[c])'
  <2>1. new[c] = tier[c] /\ tier[c] \in Entry(Values) /\ Young(c, tier[c])
    BY <1>3
  <2>2. PICK e \in Entry(Values) : e = tier[c]
    BY <2>1
  <2>3. Young(c, e)'
    BY <2>1, <2>2, WroteMoves, KeptIsYoung
  <2> QED BY <2>1, <2>2, <2>3 DEF Young
<1> QED BY <1>2, <1>3

\* The tier that is not written stays young: the observer only goes back.
LEMMA OtherTierStep ==
  ASSUME TypeOK, NEW tier, NEW k \in Keys, NEW v \in Values,
         tier \in [Keys -> Entry(Values) \cup {None}],
         \A c \in Keys : tier[c] # None => Young(c, tier[c]),
         Wrote(k, v)
  PROVE  \A c \in Keys : tier[c] # None => Young(c, tier[c])'
<1> SUFFICES ASSUME NEW c \in Keys, tier[c] # None PROVE Young(c, tier[c])'
  OBVIOUS
<1>1. PICK e \in Entry(Values) : e = tier[c]
  OBVIOUS
<1>2. Young(c, e)'
  BY <1>1, WroteMoves, KeptIsYoung
<1> QED BY <1>1, <1>2 DEF Young

\* SETEX, with or without its reply.
LEMMA RedisWrite ==
  ASSUME CacheInv, NEW k \in Keys, NEW v \in Values, NEW n \in Lifetimes,
         PutRedis(k, v, n), Wrote(k, v), up' = up,
         unsure' \in SUBSET (Keys \X Values)
  PROVE  CacheInv'
<1> USE DEF CacheInv
<1>0. n \in Nat \ {0}
  BY LifetimesAssumption
<1>1. /\ redis \in [Keys -> Entry(Values) \cup {None}]
      /\ redis' = [redis EXCEPT ![k] = Fresh(v, n)]
      /\ UNCHANGED <<redisUp, client, fallback>>
  BY DEF PutRedis, TypeOK, CacheTypeOK
<1>2. Fresh(v, n) \in Entry(Values)
  BY <1>0 DEF Fresh, Entry
<1>3. TypeOK'
  BY <1>1, <1>2, WroteMoves DEF TypeOK, CacheTypeOK
<1>4. PICK new : new = redis'
  OBVIOUS
<1>5. /\ new \in [Keys -> Entry(Values) \cup {None}]
      /\ new[k] = Fresh(v, n)
      /\ \A c \in Keys \ {k} : new[c] \in {redis[c], None}
  BY <1>1, <1>2, <1>4
<1>6. \A c \in Keys : new[c] # None => Young(c, new[c])'
  <2>1. TypeOK /\ \A c \in Keys : redis[c] # None => Young(c, redis[c])
    OBVIOUS
  <2>2. PICK m \in Nat \ {0} : m = n
    BY <1>0
  <2>3. new[k] = Fresh(v, m)
    BY <1>5, <2>2
  <2>4. PICK tier : tier = redis
    OBVIOUS
  <2>5. /\ tier \in [Keys -> Entry(Values) \cup {None}]
        /\ \A c \in Keys : tier[c] # None => Young(c, tier[c])
        /\ \A c \in Keys \ {k} : new[c] \in {tier[c], None}
    BY <1>1, <1>5, <2>1, <2>4
  <2> HIDE DEF CacheInv
  <2> QED BY <1>5, <2>1, <2>3, <2>5, WriteStep
<1>7. PICK tier : tier = fallback
  OBVIOUS
<1>8. \A c \in Keys : tier[c] # None => Young(c, tier[c])'
  BY <1>7, OtherTierStep DEF TypeOK, CacheTypeOK
<1> QED BY <1>1, <1>3, <1>4, <1>6, <1>7, <1>8
        DEF FallbackBounded, Held, Young

\* The TTLCache makes room before it takes a new key.
LEMMA RoomIsMade ==
  ASSUME CacheInv, NEW k \in Keys, NEW v \in Values, PutFallback(k, v)
  PROVE  IsFiniteSet(Held(fallback)') /\ FallbackBounded'
<1> DEFINE S == Held(fallback)
<1>0. /\ fallback \in [Keys -> Entry(Values) \cup {None}]
      /\ IsFiniteSet(S) /\ Cardinality(S) <= FallbackSize
      /\ Cardinality(S) \in Nat /\ FallbackSize \in Nat \ {0}
  BY FS_CardinalityType, CacheAssumption
  DEF CacheInv, TypeOK, CacheTypeOK, FallbackBounded
<1>1. CASE /\ fallback[k] # None \/ Cardinality(S) < FallbackSize
           /\ fallback' = [fallback EXCEPT ![k] = Fresh(v, FallbackTTL)]
  <2>1. Held(fallback)' \subseteq S \cup {k}
    BY <1>0, <1>1 DEF Held
  <2>2. k \in S \/ Cardinality(S) < FallbackSize
    BY <1>1 DEF Held
  <2> HIDE DEF S
  <2>3. /\ IsFiniteSet(S \cup {k})
        /\ Cardinality(S \cup {k}) =
             IF k \in S THEN Cardinality(S) ELSE Cardinality(S) + 1
    BY <1>0, FS_AddElement
  <2>a. Cardinality(S \cup {k}) <= FallbackSize
    BY <1>0, <2>2, <2>3
  <2>4. /\ IsFiniteSet(Held(fallback)')
        /\ Cardinality(Held(fallback)') <= Cardinality(S \cup {k})
    BY <2>1, <2>3, FS_Subset
  <2> QED BY <1>0, <2>3, <2>a, <2>4, FS_CardinalityType DEF FallbackBounded
<1>2. CASE \E victim \in S :
             fallback' = [fallback EXCEPT ![victim] = None,
                                          ![k] = Fresh(v, FallbackTTL)]
  <2>1. PICK victim \in S :
             fallback' = [fallback EXCEPT ![victim] = None,
                                          ![k] = Fresh(v, FallbackTTL)]
    BY <1>2
  <2>2. Held(fallback)' \subseteq (S \ {victim}) \cup {k}
    BY <1>0, <2>1 DEF Held
  <2> HIDE DEF S
  <2>3. /\ IsFiniteSet(S \ {victim})
        /\ Cardinality(S \ {victim}) = Cardinality(S) - 1
    BY <1>0, <2>1, FS_RemoveElement
  <2>4. /\ IsFiniteSet((S \ {victim}) \cup {k})
        /\ Cardinality((S \ {victim}) \cup {k}) <= FallbackSize
    BY <1>0, <2>3, FS_AddElement
  <2>5. /\ IsFiniteSet(Held(fallback)')
        /\ Cardinality(Held(fallback)') <= Cardinality((S \ {victim}) \cup {k})
    BY <2>2, <2>4, FS_Subset
  <2> QED BY <1>0, <2>4, <2>5, FS_CardinalityType DEF FallbackBounded
<1> QED BY <1>1, <1>2 DEF PutFallback

\* A write that the TTLCache takes.
LEMMA FallbackWrite ==
  ASSUME CacheInv, NEW k \in Keys, NEW v \in Values, SetInFallback(k, v)
  PROVE  CacheInv'
<1> USE DEF CacheInv
<1>1. /\ PutFallback(k, v) /\ Wrote(k, v) /\ up' = up
      /\ unsure' \in SUBSET (Keys \X Values)
      /\ UNCHANGED <<redisUp, client, redis>>
      /\ fallback \in [Keys -> Entry(Values) \cup {None}]
      /\ FallbackTTL \in Nat \ {0}
  BY CacheAssumption DEF SetInFallback, PutFallback, TypeOK, CacheTypeOK
<1>2. Fresh(v, FallbackTTL) \in Entry(Values)
  BY <1>1 DEF Fresh, Entry
<1>3. PICK new : new = fallback'
  OBVIOUS
<1>4. /\ new \in [Keys -> Entry(Values) \cup {None}]
      /\ new[k] = Fresh(v, FallbackTTL)
      /\ \A c \in Keys \ {k} : new[c] \in {fallback[c], None}
  BY <1>1, <1>2, <1>3 DEF PutFallback, Held
<1>5. TypeOK'
  BY <1>1, <1>3, <1>4, WroteMoves DEF TypeOK, CacheTypeOK
<1>6. /\ \A c \in Keys : new[c] # None => Young(c, new[c])'
      /\ new[k].ttl = FallbackTTL
  BY <1>1, <1>4, WriteStep
<1>7. PICK tier : tier = redis
  OBVIOUS
<1>8. \A c \in Keys : tier[c] # None => Young(c, tier[c])'
  BY <1>1, <1>7, OtherTierStep DEF TypeOK, CacheTypeOK
<1>9. \A c \in Keys : new[c] # None => new[c].ttl = FallbackTTL
  BY <1>4, <1>6
<1>10. IsFiniteSet(Held(fallback)') /\ FallbackBounded'
  BY <1>1, RoomIsMade
<1> QED BY <1>1, <1>3, <1>5, <1>6, <1>7, <1>8, <1>9, <1>10 DEF Held, Young

\* Ageing: what is left of a young entry is young.
LEMMA AgedIsYoung ==
  ASSUME TypeOK, Pass, NEW k \in Keys, NEW e \in Entry(Values), Young(k, e),
         NEW f, f = Aged(e), f # None
  PROVE  f \in Entry(Values) /\ Young(k, f)' /\ f.ttl = e.ttl
<1>1. e # None
  BY NoEntryAssumption
<1>2. /\ f \in Entry(Values) /\ f.value = e.value /\ f.ttl = e.ttl
      /\ f.age = e.age + 1 /\ f.age < f.ttl
  BY <1>1 DEF Aged, Entry
<1>3. /\ since[k][e.value] \in Nat
      /\ since'[k][e.value] <= since[k][e.value] + 1
  BY LifetimesAssumption DEF Pass, TypeOK, Entry
<1>4. since'[k][e.value] \in Nat /\ e.age \in Nat
  BY LifetimesAssumption DEF Pass, TypeOK, Entry
<1> QED BY <1>2, <1>3, <1>4 DEF Young

\* The passing of time.
LEMMA PassStep == ASSUME CacheInv, Pass PROVE CacheInv'
<1> USE DEF CacheInv
<1>1. /\ redis' = [k \in Keys |-> Aged(redis[k])]
      /\ fallback' = [k \in Keys |-> Aged(fallback[k])]
      /\ UNCHANGED <<redisUp, client, up, unsure>>
      /\ redis \in [Keys -> Entry(Values) \cup {None}]
      /\ fallback \in [Keys -> Entry(Values) \cup {None}]
  BY DEF Pass, Tick, TypeOK, CacheTypeOK
<1>2. Aged(None) = None
  BY DEF Aged
<1>3. ASSUME NEW k \in Keys, redis'[k] # None
      PROVE  redis'[k] \in Entry(Values) /\ Young(k, redis[k])'
  <2>1. PICK f : f = redis'[k]
    OBVIOUS
  <2>2. PICK e \in Entry(Values) : e = redis[k] /\ e # None
    BY <1>1, <1>2, <1>3
  <2>3. f \in Entry(Values) /\ Young(k, f)'
    BY <1>1, <1>3, <2>1, <2>2, AgedIsYoung
  <2> QED BY <2>1, <2>3 DEF Young
<1>4. ASSUME NEW k \in Keys, fallback'[k] # None
      PROVE  /\ fallback'[k] \in Entry(Values) /\ Young(k, fallback[k])'
             /\ fallback'[k].ttl = FallbackTTL
  <2>1. PICK f : f = fallback'[k]
    OBVIOUS
  <2>2. PICK e \in Entry(Values) : e = fallback[k] /\ e # None
    BY <1>1, <1>2, <1>4
  <2>3. f \in Entry(Values) /\ Young(k, f)' /\ f.ttl = FallbackTTL
    BY <1>1, <1>4, <2>1, <2>2, AgedIsYoung
  <2> QED BY <2>1, <2>3 DEF Young
<1>5. since' \in [Keys -> [Values -> 0..Horizon]]
  BY LifetimesAssumption DEF Pass, TypeOK
<1>6. TypeOK'
  BY <1>1, <1>3, <1>4, <1>5 DEF TypeOK, CacheTypeOK
<1>7. Held(fallback)' \subseteq Held(fallback)
  BY <1>1, <1>2 DEF Held
<1>8. /\ IsFiniteSet(Held(fallback)')
      /\ Cardinality(Held(fallback)') <= Cardinality(Held(fallback))
  BY <1>7, FS_Subset
<1>9. FallbackBounded'
  BY <1>8, FS_CardinalityType, CacheAssumption DEF FallbackBounded
<1> QED BY <1>3, <1>4, <1>6, <1>8, <1>9 DEF Held

\* Outages, recoveries, starts and stops write nothing.
LEMMA EnvironmentStep ==
  ASSUME CacheInv, Start \/ Stop \/ RedisOutage \/ RedisReturns \/ UNCHANGED vars
  PROVE  CacheInv'
<1> USE DEF CacheInv
<1>1. TypeOK'
  BY CacheAssumption
  DEF TypeOK, CacheTypeOK, Start, InitCache, Stop, DropCache, Empty, RedisOutage,
      RedisDown, RedisReturns, RedisRecovers, vars
<1>2. since' = since /\ \A k \in Keys : redis'[k] \in {redis[k], None}
  BY DEF TypeOK, CacheTypeOK, Start, InitCache, Stop, DropCache, RedisOutage,
         RedisDown, RedisReturns, RedisRecovers, vars
<1>3. CASE fallback' = fallback
  BY <1>1, <1>2, <1>3 DEF Young, Held, FallbackBounded
<1>4. CASE fallback' = Empty
  <2>1. Held(fallback)' = {}
    BY <1>4 DEF Held, Empty
  <2>2. IsFiniteSet(Held(fallback)') /\ FallbackBounded'
    BY <2>1, FS_EmptySet, CacheAssumption DEF FallbackBounded
  <2> QED BY <1>1, <1>2, <1>4, <2>2 DEF Young, Empty, Held
<1> QED BY <1>3, <1>4 DEF Start, InitCache, Stop, DropCache, RedisOutage, RedisDown,
                          RedisReturns, RedisRecovers, vars

\* CacheInv holds at first, when both tiers are empty.
LEMMA InitCacheInv == Init => CacheInv
<1> SUFFICES ASSUME Init PROVE CacheInv
  OBVIOUS
<1>1. TypeOK
  <2>1. CacheTypeOK(Values)
    BY DEF Init, CacheInit, Empty, CacheTypeOK
  <2>2. since \in [Keys -> [Values -> 0..Horizon]]
    BY LifetimesAssumption DEF Init
  <2> QED BY <2>1, <2>2 DEF Init, TypeOK
<1>2. Held(fallback) = {} /\ \A k \in Keys : redis[k] = None /\ fallback[k] = None
  BY DEF Init, CacheInit, Empty, Held
<1> QED BY <1>1, <1>2, FS_EmptySet, CacheAssumption DEF CacheInv, FallbackBounded

(***************************************************************************)
(* The inductive invariant of the two tiers under any callers.             *)
(***************************************************************************)
THEOREM CacheInvariant == Spec => []CacheInv
<1>1. ASSUME CacheInv, [Next]_vars PROVE CacheInv'
  <2>1. ASSUME NEW k \in Keys, NEW v \in Values, NEW ttl \in Lifetimes,
               SetInRedis(k, v, ttl) \/ SetReplyLost(k, v, ttl)
        PROVE  CacheInv'
    <3>1. PutRedis(k, v, ttl) /\ Wrote(k, v) /\ up' = up
      BY <2>1 DEF SetInRedis, SetReplyLost
    <3>2. unsure' \in SUBSET (Keys \X Values)
      BY <1>1, <2>1 DEF SetInRedis, SetReplyLost, CacheInv, TypeOK
    <3> QED BY <1>1, <3>1, <3>2, RedisWrite
  <2>2. ASSUME NEW k \in Keys, NEW v \in Values, SetInFallback(k, v) PROVE CacheInv'
    BY <1>1, <2>2, FallbackWrite
  <2>3. CASE Start \/ Stop \/ RedisOutage \/ RedisReturns \/ UNCHANGED vars
    BY <1>1, <2>3, EnvironmentStep
  <2>4. CASE Pass
    BY <1>1, <2>4, PassStep
  <2> QED BY <1>1, <2>1, <2>2, <2>3, <2>4 DEF Next
<1> QED BY InitCacheInv, <1>1, PTL DEF Spec

(***************************************************************************)
(* The tiers hold well-formed entries of stored values and nothing else.   *)
(***************************************************************************)
THEOREM CacheTypeCorrect == Spec => []TypeOK
<1>1. CacheInv => TypeOK
  BY DEF CacheInv
<1> QED BY CacheInvariant, <1>1, PTL

(***************************************************************************)
(* No lookup, in either tier, returns a value past the lifetime it was     *)
(* stored with, whatever outages, restarts and double writes happened.     *)
(***************************************************************************)
THEOREM NothingOverdueCorrect == Spec => []NothingOverdue
<1>1. CacheInv => NothingOverdue
  <2> SUFFICES ASSUME CacheInv, NEW k \in Keys
               PROVE  /\ redis[k] # None => since[k][redis[k].value] < redis[k].ttl
                      /\ fallback[k] # None =>
                           since[k][fallback[k].value] < FallbackTTL
    BY DEF NothingOverdue
  <2>1. ASSUME NEW e \in Entry(Values), Young(k, e)
        PROVE  since[k][e.value] < e.ttl
    <3>1. since[k][e.value] \in Nat /\ e.age \in Nat /\ e.ttl \in Nat
      BY LifetimesAssumption DEF CacheInv, TypeOK, Entry
    <3> QED BY <2>1, <3>1 DEF Young
  <2> QED BY <2>1 DEF CacheInv, TypeOK, CacheTypeOK
<1> QED BY CacheInvariant, <1>1, PTL

(***************************************************************************)
(* The in-memory fallback never outgrows maxsize.                          *)
(***************************************************************************)
THEOREM FallbackBoundedCorrect == Spec => []FallbackBounded
<1>1. CacheInv => FallbackBounded
  BY DEF CacheInv
<1> QED BY CacheInvariant, <1>1, PTL
=============================================================================
