---------------------------- MODULE VerifyProofs ----------------------------
(***************************************************************************)
(* Proofs about VerifyService, for any requests, users, bodies, judge      *)
(* outcomes, and any lifetimes in the assumed order.  IInv is shown to be  *)
(* inductive conjunct by conjunct: TypeStep, ControlStep, OriginStep,      *)
(* TierStep and LogStep.  The safety properties then follow from it in one *)
(* state, and so does, action by action, that VerifyService implements     *)
(* VerifyContract.                                                         *)
(***************************************************************************)
EXTENDS VerifyInvariant, VerifyRefinement, FiniteSetTheorems, TLAPS

USE DEF requestVars, processVars, storeVars, tierVars, Goto

\* The key of every body names a cell of each tier.
LEMMA KeyTypes == \A b \in Bodies : Key(b) \in CacheKeys
  BY DEF CacheKeys

\* The lifetime a verdict is stored with is a positive number of ticks.
LEMMA TTLTypes ==
  ASSUME NEW v \in Verdict, NEW t
  PROVE  CacheTTL(v, t) \in Nat \ {0}
  BY TTLAssumption DEF CacheTTL, TypeTTL, QueryTypeTTL

\* Before the first startup every variable has its type.
LEMMA InitType == Init => TypeOK
<1> SUFFICES ASSUME Init PROVE TypeOK
  OBVIOUS
<1>1. CacheTypeOK(Verdict)
  BY DEF Init, CacheInit, CacheTypeOK, Empty
<1> QED BY <1>1 DEF Init, TypeOK

\* The two ways a response comes to be: read from a tier, or judged.
LEMMA HitIsAnswer ==
  ASSUME IInv, NEW r \in Requests, Hit(r)
  PROVE  /\ Found(Key(body[r])) \in Entry(Verdict)
         /\ [verdict |-> Found(Key(body[r])).value, hit |-> TRUE] \in Answer
<1>1. body[r] \in Bodies
  BY DEF Hit, IInv, Control
<1>2. Found(Key(body[r])) \in Entry(Verdict)
  BY <1>1, KeyTypes DEF Hit, IInv, TypeOK, CacheTypeOK, Found, Serving
<1> QED BY <1>2 DEF Answer, Entry

\* The response the judge step builds is well formed.
LEMMA JudgedIsAnswer ==
  ASSUME TypeOK, NEW r \in Requests, NEW g \in JudgeOutcomes
  PROVE  [verdict |-> [by |-> r, grade |-> g, low |-> low[r]], hit |-> FALSE]
           \in Answer
  BY VerifyAssumption DEF Answer, Verdict, TypeOK

\* Every step of the service keeps every variable in its type.
LEMMA TypeStep ==
  ASSUME IInv, [Next]_vars PROVE TypeOK'
<1> USE DEF IInv, TypeOK, CacheTypeOK, InFlight
<1>1. ASSUME NEW r \in Requests, NEW u \in Users, NEW b \in Bodies, Arrive(r, u, b)
      PROVE  TypeOK'
  BY <1>1 DEF Arrive
<1>2. ASSUME NEW r \in Requests, Advance(r) PROVE TypeOK'
  <2>1. CASE Hit(r)
    BY <2>1, HitIsAnswer DEF Hit
  <2>2. CASE Miss(r)
    BY <2>2 DEF Miss
  <2>3. CASE Preprocess(r)
    BY <2>3 DEF Preprocess
  <2>4. CASE PreprocessFails(r)
    BY <2>4 DEF PreprocessFails
  <2>5. CASE Retrieve(r)
    BY <2>5 DEF Retrieve
  <2>6. CASE Mediate(r)
    BY <2>6 DEF Mediate
  <2>7. CASE Judge(r)
    BY <2>7, JudgedIsAnswer DEF Judge
  <2>8. CASE ScoreClaims(r)
    BY <2>8 DEF ScoreClaims
  <2>9. CASE StoreInRedis(r) \/ StoreReplyLost(r)
    BY <2>9, KeyTypes, TTLTypes, NoneAssumption
    DEF StoreInRedis, StoreReplyLost, PutRedis, Fresh, Control, Answer, Entry
  <2>10. CASE StoreInFallback(r)
    BY <2>10, KeyTypes, TTLAssumption, NoneAssumption
    DEF StoreInFallback, PutFallback, Fresh, Control, Answer, Entry, Held
  <2>11. CASE Respond(r)
    BY <2>11 DEF Respond
  <2>12. CASE TrackAnalytics(r)
    BY <2>12 DEF TrackAnalytics, Row, Record, Control, Answer
  <2>13. CASE WriteHistory(r)
    BY <2>13 DEF WriteHistory, Row, Record, Control, Answer
  <2> QED BY <1>2, <2>1, <2>2, <2>3, <2>4, <2>5, <2>6, <2>7, <2>8, <2>9,
             <2>10, <2>11, <2>12, <2>13 DEF Advance
<1>3. CASE Startup
  BY <1>3 DEF Startup, InitCache, Empty
<1>4. CASE End
  BY <1>4 DEF End, DropCache, Empty
<1>5. CASE MongoFlips
  BY <1>5 DEF MongoFlips
<1>6. CASE RedisOutage
  BY <1>6 DEF RedisOutage, RedisDown
<1>7. CASE RedisReturns
  BY <1>7 DEF RedisReturns, RedisRecovers, Held
<1>8. CASE TimePasses
  BY <1>8 DEF TimePasses, Tick, Aged, Entry
<1>9. ASSUME NEW k \in CacheKeys, EvictedByRetriever(k) PROVE TypeOK'
  BY <1>9 DEF EvictedByRetriever
<1>10. CASE UNCHANGED vars
  BY <1>10 DEF vars
<1> QED BY <1>1, <1>2, <1>3, <1>4, <1>5, <1>6, <1>7, <1>8, <1>9, <1>10 DEF Next

\* Every step keeps a coroutine's position and its locals in agreement.
LEMMA ControlStep ==
  ASSUME IInv, [Next]_vars, NEW q \in Requests PROVE Control(q)'
<1> USE DEF Control, InFlight, Unserved
<1>0. Control(q) /\ TypeOK
  BY DEF IInv
<1>a. /\ pc \in [Requests -> InFlight \cup {"idle", "done", "lost"}]
      /\ user \in [Requests -> Users \cup {None}]
      /\ body \in [Requests -> Bodies \cup {None}]
      /\ low \in [Requests -> BOOLEAN]
      /\ final \in [Requests -> Answer \cup {None}]
      /\ status \in [Requests -> {0, 200, 500}]
  BY <1>0 DEF TypeOK
<1>1. ASSUME NEW r \in Requests, NEW u \in Users, NEW b \in Bodies, Arrive(r, u, b)
      PROVE  Control(q)'
  BY <1>0, <1>a, <1>1 DEF Arrive
<1>2. ASSUME NEW r \in Requests, Advance(r) PROVE Control(q)'
  <2>1. CASE Hit(r)
    <3> DEFINE answer == [verdict |-> Found(Key(body[r])).value, hit |-> TRUE]
    <3>1. answer # None
      BY <2>1, HitIsAnswer, NoneAssumption
    <3>2. final' = [final EXCEPT ![r] = answer]
      BY <2>1 DEF Hit
    <3>3. /\ Goto(r, "lookup", "respond")
          /\ UNCHANGED <<user, body, low, status>>
      BY <2>1 DEF Hit
    <3> HIDE DEF answer
    <3> QED BY <1>0, <1>a, <3>1, <3>2, <3>3
  <2>2. CASE Miss(r)
    BY <1>0, <1>a, <2>2 DEF Miss
  <2>3. CASE Preprocess(r)
    BY <1>0, <1>a, <2>3 DEF Preprocess
  <2>4. CASE PreprocessFails(r)
    BY <1>0, <1>a, <2>4 DEF PreprocessFails
  <2>5. CASE Retrieve(r)
    <3>1. PICK found \in SUBSET RoutingRules[TypeOf(body[r])] :
            Goto(r, "retrieve", IF Cardinality(found) > 1 THEN "mediate" ELSE "judge")
      BY <2>5 DEF Retrieve
    <3>2. Cardinality(found) > 1 => RoutingRules[TypeOf(body[r])] # {}
      BY FS_EmptySet
    <3> QED BY <1>0, <1>a, <2>5, <3>1, <3>2 DEF Retrieve
  <2>6. CASE Mediate(r)
    BY <1>0, <1>a, <2>6 DEF Mediate
  <2>7. CASE Judge(r)
    BY <1>0, <1>a, <2>7, JudgedIsAnswer, NoneAssumption DEF Judge
  <2>8. CASE ScoreClaims(r)
    BY <1>0, <1>a, <2>8 DEF ScoreClaims
  <2>9. CASE StoreInRedis(r)
    BY <1>0, <1>a, <2>9 DEF StoreInRedis
  <2>10. CASE StoreReplyLost(r)
    BY <1>0, <1>a, <2>10 DEF StoreReplyLost
  <2>11. CASE StoreInFallback(r)
    BY <1>0, <1>a, <2>11 DEF StoreInFallback
  <2>12. CASE Respond(r)
    BY <1>0, <1>a, <2>12 DEF Respond
  <2>13. CASE TrackAnalytics(r)
    BY <1>0, <1>a, <2>13 DEF TrackAnalytics
  <2>14. CASE WriteHistory(r)
    BY <1>0, <1>a, <2>14 DEF WriteHistory
  <2> QED BY <1>2, <2>1, <2>2, <2>3, <2>4, <2>5, <2>6, <2>7, <2>8, <2>9,
             <2>10, <2>11, <2>12, <2>13, <2>14 DEF Advance
<1>3. CASE End
  BY <1>0, <1>a, <1>3 DEF End
<1>4. CASE UNCHANGED requestVars
  BY <1>0, <1>4
<1>5. Startup \/ MongoFlips \/ RedisOutage \/ RedisReturns \/ TimePasses
        \/ (\E k \in CacheKeys : EvictedByRetriever(k)) \/ UNCHANGED vars
      => UNCHANGED requestVars
  BY DEF Startup, MongoFlips, RedisOutage, RedisReturns, TimePasses,
         EvictedByRetriever, vars
<1> QED BY <1>1, <1>2, <1>3, <1>4, <1>5 DEF Next

\* The environment's steps, other than End, touch no request.
LEMMA QuietSteps ==
  Startup \/ MongoFlips \/ RedisOutage \/ RedisReturns \/ TimePasses
    \/ (\E k \in CacheKeys : EvictedByRetriever(k)) \/ UNCHANGED vars
  => UNCHANGED requestVars
  BY DEF Startup, MongoFlips, RedisOutage, RedisReturns, TimePasses,
         EvictedByRetriever, vars

\* A response appears at a hit or at the judge, and nowhere else.
LEMMA FinalChanges ==
  ASSUME IInv, [Next]_vars, NEW q \in Requests
  PROVE  \/ final'[q] = final[q]
         \/ Hit(q) \/ Judge(q)
<1>0. final \in [Requests -> Answer \cup {None}]
  BY DEF IInv, TypeOK
<1>1. ASSUME NEW r \in Requests, Advance(r) PROVE final'[q] = final[q] \/ Hit(q) \/ Judge(q)
  BY <1>0, <1>1 DEF Advance, Hit, Miss, Preprocess, PreprocessFails, Retrieve, Mediate,
    Judge, ScoreClaims, StoreInRedis, StoreReplyLost, StoreInFallback, Respond,
    TrackAnalytics, WriteHistory
<1>2. ASSUME NEW r \in Requests, NEW u \in Users, NEW b \in Bodies, Arrive(r, u, b)
      PROVE  final'[q] = final[q]
  BY <1>2 DEF Arrive
<1>3. CASE End
  BY <1>3 DEF End
<1> QED BY <1>1, <1>2, <1>3, QuietSteps DEF Next

\* A final_response, once built, is never altered, nor is what it answers.
LEMMA Settled ==
  ASSUME IInv, [Next]_vars, NEW q \in Requests, final[q] # None
  PROVE  /\ final'[q] = final[q]
         /\ body'[q] = body[q]
         /\ user'[q] = user[q]
<1>0. Control(q) /\ body \in [Requests -> Bodies \cup {None}]
                /\ user \in [Requests -> Users \cup {None}]
  BY DEF IInv, TypeOK
<1>1. final'[q] = final[q]
  BY <1>0, FinalChanges DEF Control, Unserved, Hit, Judge
<1>2. ASSUME NEW r \in Requests, NEW u \in Users, NEW b \in Bodies, Arrive(r, u, b)
      PROVE  body'[q] = body[q] /\ user'[q] = user[q]
  BY <1>0, <1>2 DEF Arrive, Control
<1>3. ASSUME NEW r \in Requests, Advance(r) PROVE body' = body /\ user' = user
  BY <1>3 DEF Advance, Hit, Miss, Preprocess, PreprocessFails, Retrieve, Mediate,
    Judge, ScoreClaims, StoreInRedis, StoreReplyLost, StoreInFallback, Respond,
    TrackAnalytics, WriteHistory
<1>4. CASE End
  BY <1>1, <1>4 DEF End
<1> QED BY <1>1, <1>2, <1>3, <1>4, QuietSteps DEF Next

\* The request that minted a verdict has that verdict as its response.
LEMMA MintedSpeaks ==
  ASSUME NEW v \in Verdict, NEW o, MintedBy(o, v)
  PROVE  final[o] # None /\ final[o].verdict = v
<1>1. PICK a \in Answer : a = [verdict |-> v, hit |-> FALSE]
  BY DEF Answer
<1>2. a # None
  BY NoneAssumption
<1> QED BY <1>1, <1>2 DEF MintedBy

\* What Origin and Filed say of a minted verdict outlasts the step.
LEMMA MintedStays ==
  ASSUME IInv, [Next]_vars, NEW v \in Verdict, MintedBy(v.by, v)
  PROVE  /\ MintedBy(v.by, v)'
         /\ body'[v.by] = body[v.by]
         /\ body[v.by] \in Bodies
         /\ v.low => RoutingRules[TypeOf(body[v.by])] # {}
<1>1. v.by \in Requests
  BY DEF Verdict
<1>2. final[v.by] # None
  BY MintedSpeaks
<1>3. Origin(v.by)
  BY <1>1 DEF IInv
<1>4. final[v.by].verdict = v
  BY DEF MintedBy
<1> QED BY <1>1, <1>2, <1>3, <1>4, Settled DEF Origin, MintedBy

\* Every step leaves each response with a verdict minted on its own text.
LEMMA OriginStep ==
  ASSUME IInv, [Next]_vars, NEW q \in Requests PROVE Origin(q)'
<1> SUFFICES ASSUME final'[q] # None PROVE Origin(q)'
  BY DEF Origin
<1>0. /\ final \in [Requests -> Answer \cup {None}]
      /\ low \in [Requests -> BOOLEAN]
      /\ Control(q)
  BY DEF IInv, TypeOK
<1>1. CASE final[q] # None
  <2>0. PICK v \in Verdict : v = final[q].verdict
    BY <1>0, <1>1 DEF Answer
  <2>1. MintedBy(v.by, v) /\ Origin(q)
    BY <1>0, <1>1, <2>0 DEF IInv, Origin
  <2>2. final'[q] = final[q] /\ body'[q] = body[q]
    BY <1>1, Settled
  <2>3. /\ MintedBy(v.by, v)'
        /\ body'[v.by] = body[v.by]
    BY <2>1, MintedStays
  <2> QED BY <1>1, <2>0, <2>1, <2>2, <2>3 DEF Origin, TypeOf
<1>2. CASE final[q] = None /\ Hit(q)
  <2>1. PICK k \in CacheKeys : k = Key(body[q])
    BY <1>0, <1>2, KeyTypes DEF Hit, Control
  <2>2. PICK e \in Entry(Verdict) : e = Found(k)
    BY <1>2, <2>1, HitIsAnswer
  <2>3. Filed(k, e)
    BY <1>2, <2>1, <2>2 DEF IInv, Tiers, Found, Serving, Hit
  <2>4. PICK v \in Verdict : v = e.value
    BY DEF Entry
  <2>5. MintedBy(v.by, v) /\ Key(body[v.by]) = Key(body[q])
    BY <2>1, <2>3, <2>4 DEF Filed
  <2>6. v.by # q
    <3>1. [verdict |-> v, hit |-> FALSE] \in Answer
      BY DEF Answer
    <3> QED BY <1>2, <2>5, <3>1, NoneAssumption DEF MintedBy
  <2>7. final' = [final EXCEPT ![q] = [verdict |-> v, hit |-> TRUE]] /\ body' = body
    BY <1>2, <2>1, <2>2, <2>4 DEF Hit
  <2>8. final'[q] = [verdict |-> v, hit |-> TRUE]
    BY <1>0, <2>7
  <2>9. /\ MintedBy(v.by, v)'
        /\ body[v.by] \in Bodies
        /\ v.low => RoutingRules[TypeOf(body[v.by])] # {}
    BY <2>5, MintedStays
  <2> QED BY <2>5, <2>6, <2>7, <2>8, <2>9 DEF Origin, TypeOf
<1>3. CASE final[q] = None /\ Judge(q)
  <2>1. PICK g \in JudgeOutcomes :
          final' = [final EXCEPT ![q] =
                      [verdict |-> [by |-> q, grade |-> g, low |-> low[q]],
                       hit |-> FALSE]]
    BY <1>3 DEF Judge
  <2>2. final'[q] = [verdict |-> [by |-> q, grade |-> g, low |-> low[q]],
                     hit |-> FALSE]
    BY <1>0, <2>1
  <2>3. body' = body /\ body[q] \in Bodies
    BY <1>0, <1>3 DEF Judge, Control
  <2>4. low[q] => RoutingRules[TypeOf(body[q])] # {}
    BY <1>0 DEF Control
  <2> QED BY <2>2, <2>3, <2>4 DEF Origin, MintedBy, TypeOf
<1> QED BY <1>1, <1>2, <1>3, FinalChanges

\* What a step may do to one cell of a tier: nothing, clear it, age it, write it.
CellStep(tier, k, ttl(_)) ==
  \/ tier'[k] = tier[k]
  \/ tier'[k] = None
  \/ tier'[k] = Aged(tier[k])
  \/ \E r \in Requests :
       /\ StoreInRedis(r) \/ StoreReplyLost(r) \/ StoreInFallback(r)
       /\ Key(body[r]) = k
       /\ tier'[k] = Fresh(final[r].verdict, ttl(r))

OwnTTL(r) == CacheTTL(final[r].verdict, TypeOf(body[r]))
OneTTL(r) == FallbackTTL

\* What one step can do to one Redis key.
LEMMA RedisCells ==
  ASSUME IInv, [Next]_vars, NEW k \in CacheKeys PROVE CellStep(redis, k, OwnTTL)
<1> USE DEF CellStep, OwnTTL
<1>0. redis \in [CacheKeys -> Entry(Verdict) \cup {None}]
  BY DEF IInv, TypeOK, CacheTypeOK
<1>1. ASSUME NEW r \in Requests, NEW u \in Users, NEW b \in Bodies, Arrive(r, u, b)
      PROVE  redis' = redis
  BY <1>1 DEF Arrive
<1>2. ASSUME NEW r \in Requests, StoreInRedis(r) \/ StoreReplyLost(r)
      PROVE  CellStep(redis, k, OwnTTL)
  BY <1>0, <1>2 DEF StoreInRedis, StoreReplyLost, PutRedis
<1>3. ASSUME NEW r \in Requests, Advance(r), ~StoreInRedis(r), ~StoreReplyLost(r)
      PROVE  redis' = redis
  BY <1>3 DEF Advance, Hit, Miss, Preprocess, PreprocessFails, Retrieve, Mediate,
    Judge, ScoreClaims, StoreInFallback, PutFallback, Respond, TrackAnalytics,
    WriteHistory
<1>4. Startup \/ End \/ MongoFlips \/ RedisOutage
        \/ (\E c \in CacheKeys : EvictedByRetriever(c)) \/ UNCHANGED vars
      => redis' = redis
  BY DEF Startup, InitCache, End, DropCache, MongoFlips, RedisOutage, RedisDown,
         EvictedByRetriever, vars
<1>5. RedisReturns => CellStep(redis, k, OwnTTL)
  BY DEF RedisReturns, RedisRecovers
<1>6. TimePasses => CellStep(redis, k, OwnTTL)
  BY DEF TimePasses, Tick
<1> QED BY <1>1, <1>2, <1>3, <1>4, <1>5, <1>6 DEF Next

\* What one step can do to one entry of the TTLCache.
LEMMA FallbackCells ==
  ASSUME IInv, [Next]_vars, NEW k \in CacheKeys PROVE CellStep(fallback, k, OneTTL)
<1> USE DEF CellStep, OneTTL
<1>0. fallback \in [CacheKeys -> Entry(Verdict) \cup {None}]
  BY DEF IInv, TypeOK, CacheTypeOK
<1>1. ASSUME NEW r \in Requests, NEW u \in Users, NEW b \in Bodies, Arrive(r, u, b)
      PROVE  fallback' = fallback
  BY <1>1 DEF Arrive
<1>2. ASSUME NEW r \in Requests, StoreInFallback(r)
      PROVE  CellStep(fallback, k, OneTTL)
  BY <1>0, <1>2 DEF StoreInFallback, PutFallback, Held
<1>3. ASSUME NEW r \in Requests, Advance(r), ~StoreInFallback(r)
      PROVE  fallback' = fallback
  BY <1>3 DEF Advance, Hit, Miss, Preprocess, PreprocessFails, Retrieve, Mediate,
    Judge, ScoreClaims, StoreInRedis, StoreReplyLost, PutRedis, Respond,
    TrackAnalytics, WriteHistory
<1>4. MongoFlips \/ RedisOutage \/ RedisReturns \/ UNCHANGED vars
      => fallback' = fallback
  BY DEF MongoFlips, RedisOutage, RedisDown, RedisReturns, RedisRecovers, vars
<1>5. Startup \/ End => fallback'[k] = None
  BY DEF Startup, InitCache, End, DropCache, Empty
<1>6. TimePasses => CellStep(fallback, k, OneTTL)
  BY DEF TimePasses, Tick
<1>7. (\E c \in CacheKeys : EvictedByRetriever(c)) => CellStep(fallback, k, OneTTL)
  BY <1>0 DEF EvictedByRetriever
<1> QED BY <1>1, <1>2, <1>3, <1>4, <1>5, <1>6, <1>7 DEF Next

\* An entry that was filed correctly stays so while it is kept or ages.
LEMMA FiledStays ==
  ASSUME IInv, [Next]_vars, NEW k \in CacheKeys,
         NEW e \in Entry(Verdict), Filed(k, e),
         NEW f, f # None, f = e \/ f = Aged(e)
  PROVE  /\ Filed(k, f)'
         /\ f.value = e.value /\ f.ttl = e.ttl
         /\ body'[f.value.by] = body[e.value.by]
<1>1. e # None
  BY NoneAssumption
<1>2. f \in Entry(Verdict) /\ f.value = e.value /\ f.ttl = e.ttl /\ f.age < f.ttl
  BY <1>1 DEF Aged, Entry, Filed
<1>3. PICK v \in Verdict : v = e.value
  BY DEF Entry
<1>4. MintedBy(v.by, v)
  BY <1>3 DEF Filed
<1> QED BY <1>2, <1>3, <1>4, MintedStays DEF Filed

\* What a request stores is its own verdict, under its own key.
LEMMA StoredIsOwn ==
  ASSUME IInv, [Next]_vars, NEW r \in Requests,
         StoreInRedis(r) \/ StoreReplyLost(r) \/ StoreInFallback(r)
  PROVE  /\ final[r].verdict \in Verdict
         /\ final[r].verdict.by = r
         /\ MintedBy(r, final[r].verdict)
<1>1. pc[r] \in {"store", "restore"}
  BY DEF StoreInRedis, StoreReplyLost, StoreInFallback
<1>2. Control(r) /\ Origin(r) /\ final[r] \in Answer \cup {None}
  BY DEF IInv, TypeOK
<1> QED BY <1>1, <1>2 DEF Control, Origin, Answer

\* A new entry is filed under the key of the text its verdict is about.
LEMMA FreshIsFiled ==
  ASSUME IInv, [Next]_vars, NEW r \in Requests, NEW n \in Nat \ {0},
         StoreInRedis(r) \/ StoreReplyLost(r) \/ StoreInFallback(r),
         NEW k, k = Key(body[r]),
         NEW f, f = Fresh(final[r].verdict, n)
  PROVE  /\ Filed(k, f)'
         /\ f.ttl = n
         /\ f.value = final[r].verdict
         /\ body'[f.value.by] = body[r]
<1>1. PICK v \in Verdict : v = final[r].verdict /\ v.by = r /\ MintedBy(v.by, v)
  BY StoredIsOwn
<1>2. f.value = v /\ f.age = 0 /\ f.ttl = n
  BY <1>1 DEF Fresh
<1>3. MintedBy(v.by, v)' /\ body'[v.by] = body[v.by]
  BY <1>1, MintedStays
<1> QED BY <1>1, <1>2, <1>3 DEF Filed

\* Every step leaves both tiers holding only correctly filed entries.
LEMMA TierStep ==
  ASSUME IInv, [Next]_vars, NEW k \in CacheKeys PROVE Tiers(k)'
<1>0. /\ redis[k] \in Entry(Verdict) \cup {None}
      /\ fallback[k] \in Entry(Verdict) \cup {None}
      /\ Tiers(k)
  BY DEF IInv, TypeOK, CacheTypeOK
<1>1. ASSUME redis'[k] # None
      PROVE  /\ Filed(k, redis[k])'
             /\ redis'[k].ttl = CacheTTL(redis'[k].value,
                                         TypeOf(body'[redis'[k].value.by]))
  <2>1. PICK f : f = redis'[k]
    OBVIOUS
  <2>2. CASE redis'[k] = redis[k] \/ redis'[k] = Aged(redis[k])
    <3>1. redis[k] # None
      BY <1>1, <2>2 DEF Aged
    <3>2. PICK e \in Entry(Verdict) : e = redis[k]
      BY <1>0, <3>1
    <3>3. Filed(k, e) /\ e.ttl = CacheTTL(e.value, TypeOf(body[e.value.by]))
      BY <1>0, <3>1, <3>2 DEF Tiers
    <3>4. /\ Filed(k, f)'
          /\ f.value = e.value /\ f.ttl = e.ttl
          /\ body'[f.value.by] = body[e.value.by]
      BY <1>1, <2>1, <2>2, <3>2, <3>3, FiledStays
    <3> QED BY <2>1, <3>3, <3>4 DEF Filed
  <2>3. ASSUME NEW r \in Requests,
               StoreInRedis(r) \/ StoreReplyLost(r) \/ StoreInFallback(r),
               Key(body[r]) = k, redis'[k] = Fresh(final[r].verdict, OwnTTL(r))
        PROVE  /\ Filed(k, redis[k])'
               /\ redis'[k].ttl = CacheTTL(redis'[k].value,
                                           TypeOf(body'[redis'[k].value.by]))
    <3>1. PICK n \in Nat \ {0} : n = OwnTTL(r)
      BY <2>3, StoredIsOwn, TTLTypes DEF OwnTTL
    <3>2. /\ Filed(k, f)'
          /\ f.ttl = n
          /\ f.value = final[r].verdict
          /\ body'[f.value.by] = body[r]
      BY <2>1, <2>3, <3>1, FreshIsFiled
    <3> QED BY <2>1, <3>1, <3>2 DEF Filed, OwnTTL
  <2> QED BY <1>1, <2>2, <2>3, RedisCells DEF CellStep
<1>2. ASSUME fallback'[k] # None
      PROVE  Filed(k, fallback[k])' /\ fallback'[k].ttl = FallbackTTL
  <2>1. PICK f : f = fallback'[k]
    OBVIOUS
  <2>2. CASE fallback'[k] = fallback[k] \/ fallback'[k] = Aged(fallback[k])
    <3>1. fallback[k] # None
      BY <1>2, <2>2 DEF Aged
    <3>2. PICK e \in Entry(Verdict) : e = fallback[k]
      BY <1>0, <3>1
    <3>3. Filed(k, e) /\ e.ttl = FallbackTTL
      BY <1>0, <3>1, <3>2 DEF Tiers
    <3>4. Filed(k, f)' /\ f.ttl = e.ttl
      BY <1>2, <2>1, <2>2, <3>2, <3>3, FiledStays
    <3> QED BY <2>1, <3>3, <3>4 DEF Filed
  <2>3. ASSUME NEW r \in Requests,
               StoreInRedis(r) \/ StoreReplyLost(r) \/ StoreInFallback(r),
               Key(body[r]) = k, fallback'[k] = Fresh(final[r].verdict, OneTTL(r))
        PROVE  Filed(k, fallback[k])' /\ fallback'[k].ttl = FallbackTTL
    <3>1. Filed(k, f)' /\ f.ttl = FallbackTTL
      BY <2>1, <2>3, TTLAssumption, FreshIsFiled DEF OneTTL
    <3> QED BY <2>1, <3>1 DEF Filed
  <2> QED BY <1>2, <2>2, <2>3, FallbackCells DEF CellStep
<1> QED BY <1>1, <1>2 DEF Tiers, TypeOf

\* A request whose response has been sent only moves on through its tasks.
LEMMA SentStays ==
  ASSUME IInv, [Next]_vars, NEW q \in Requests, status[q] = 200
  PROVE  /\ status'[q] = 200
         /\ pc[q] = "done" => pc'[q] = "done"
         /\ pc[q] \in {"history", "done", "lost"} => pc'[q] \in {"history", "done", "lost"}
<1>0. /\ Control(q)
      /\ pc \in [Requests -> InFlight \cup {"idle", "done", "lost"}]
      /\ status \in [Requests -> {0, 200, 500}]
  BY DEF IInv, TypeOK
<1>1. pc[q] \in {"analytics", "history", "done", "lost"}
  BY <1>0 DEF Control, InFlight
<1>2. ASSUME NEW r \in Requests, NEW u \in Users, NEW b \in Bodies, Arrive(r, u, b)
      PROVE  pc'[q] = pc[q] /\ status'[q] = 200
  BY <1>0, <1>1, <1>2 DEF Arrive
<1>3. ASSUME NEW r \in Requests, TrackAnalytics(r) \/ WriteHistory(r)
      PROVE  /\ status'[q] = 200
             /\ pc[q] = "done" => pc'[q] = "done"
             /\ pc[q] \in {"history", "done", "lost"} => pc'[q] \in {"history", "done", "lost"}
  BY <1>0, <1>1, <1>3 DEF TrackAnalytics, WriteHistory
<1>4. ASSUME NEW r \in Requests, Advance(r), ~TrackAnalytics(r), ~WriteHistory(r)
      PROVE  pc'[q] = pc[q] /\ status'[q] = 200
  BY <1>0, <1>1, <1>4 DEF Advance, Hit, Miss, Preprocess, PreprocessFails, Retrieve,
    Mediate, Judge, ScoreClaims, StoreInRedis, StoreReplyLost, StoreInFallback, Respond
<1>5. CASE End
  BY <1>0, <1>5 DEF End, InFlight
<1> QED BY <1>2, <1>3, <1>4, <1>5, QuietSteps DEF Next

\* So a row written for it stays the row that would be written for it.
LEMMA RowStays ==
  ASSUME IInv, [Next]_vars, NEW h \in Record, status[h.id] = 200, h = Row(h.id)
  PROVE  h = Row(h.id)'
<1>1. h.id \in Requests
  BY DEF Record
<1>2. final[h.id] # None
  BY <1>1 DEF IInv, Control
<1> QED BY <1>1, <1>2, Settled DEF Row

\* Every step leaves history and events holding only rows of sent responses.
LEMMA LogStep ==
  ASSUME IInv, [Next]_vars PROVE Logs'
<1>0. Logs /\ history \subseteq Record /\ events \subseteq Record
  BY DEF IInv, TypeOK
<1>a. /\ pc \in [Requests -> InFlight \cup {"idle", "done", "lost"}]
      /\ status \in [Requests -> {0, 200, 500}]
  BY DEF IInv, TypeOK
<1>1. \A h \in history : /\ pc'[h.id] = "done" /\ status'[h.id] = 200
                          /\ h = Row(h.id)'
  BY <1>0, SentStays, RowStays DEF Logs, Record
<1>2. \A e \in events : /\ pc'[e.id] \in {"history", "done", "lost"}
                         /\ status'[e.id] = 200
                         /\ e = Row(e.id)'
                         /\ ~e.hit
  BY <1>0, SentStays, RowStays DEF Logs, Record
<1>3. ASSUME NEW r \in Requests, WriteHistory(r) PROVE Logs'
  <2>1. events' = events /\ history' \subseteq history \cup {Row(r)}
    BY <1>3 DEF WriteHistory
  <2>2. Row(r)' = Row(r)
    BY <1>3 DEF WriteHistory, Row
  <2>3. PICK h : h = Row(r)
    OBVIOUS
  <2>4. h.id = r /\ pc'[r] = "done" /\ status'[r] = 200
    BY <1>3, <1>a, <2>3 DEF WriteHistory, Row, IInv, Control
  <2> QED BY <1>1, <1>2, <2>1, <2>2, <2>3, <2>4 DEF Logs
<1>4. ASSUME NEW r \in Requests, TrackAnalytics(r) PROVE Logs'
  <2>1. history' = history /\ events' \subseteq events \cup {Row(r)}
    BY <1>4 DEF TrackAnalytics
  <2>2. Row(r)' = Row(r)
    BY <1>4 DEF TrackAnalytics, Row
  <2>3. PICK e : e = Row(r)
    OBVIOUS
  <2>4. e.id = r /\ pc'[r] = "history" /\ status'[r] = 200 /\ ~e.hit
    BY <1>4, <1>a, <2>3 DEF TrackAnalytics, Row, IInv, Control
  <2> QED BY <1>1, <1>2, <2>1, <2>2, <2>3, <2>4 DEF Logs
<1>5. CASE history' = history /\ events' = events
  BY <1>1, <1>2, <1>5 DEF Logs
<1>6. ASSUME NEW r \in Requests, Advance(r), ~TrackAnalytics(r), ~WriteHistory(r)
      PROVE  history' = history /\ events' = events
  BY <1>6 DEF Advance, Hit, Miss, Preprocess, PreprocessFails, Retrieve, Mediate,
    Judge, ScoreClaims, StoreInRedis, StoreReplyLost, StoreInFallback, Respond
<1>7. ASSUME NEW r \in Requests, NEW u \in Users, NEW b \in Bodies, Arrive(r, u, b)
      PROVE  history' = history /\ events' = events
  BY <1>7 DEF Arrive
<1>8. Startup \/ End \/ MongoFlips \/ RedisOutage \/ RedisReturns \/ TimePasses
        \/ (\E k \in CacheKeys : EvictedByRetriever(k)) \/ UNCHANGED vars
      => history' = history /\ events' = events
  BY DEF Startup, End, MongoFlips, RedisOutage, RedisReturns, TimePasses,
         EvictedByRetriever, vars
<1> QED BY <1>3, <1>4, <1>5, <1>6, <1>7, <1>8 DEF Next

-----------------------------------------------------------------------------
\* The invariant holds before the first startup.
LEMMA InitInv == Init => IInv
<1> SUFFICES ASSUME Init PROVE IInv
  OBVIOUS
<1>1. TypeOK
  BY InitType
<1>2. \A r \in Requests : Control(r) /\ Origin(r)
  BY DEF Init, Control, Origin, Unserved, InFlight
<1>3. \A k \in CacheKeys : Tiers(k)
  BY DEF Init, CacheInit, Empty, Tiers
<1> QED BY <1>1, <1>2, <1>3 DEF IInv, Logs, Init

(***************************************************************************)
(* The inductive invariant holds of every reachable state of the service,  *)
(* for any requests, users, bodies and lifetimes in the assumed order.     *)
(***************************************************************************)
THEOREM Invariant == Spec => []IInv
<1>1. IInv /\ [Next]_vars => IInv'
  BY TypeStep, ControlStep, OriginStep, TierStep, LogStep DEF IInv
<1> QED BY InitInv, <1>1, PTL DEF Spec

(***************************************************************************)
(* Every variable of the service keeps its type.                           *)
(***************************************************************************)
THEOREM TypeCorrect == Spec => []TypeOK
<1>1. IInv => TypeOK
  BY DEF IInv
<1> QED BY Invariant, <1>1, PTL

(***************************************************************************)
(* No client is ever told something that was computed about another text:  *)
(* through both tiers, outages, lost replies, evictions and restarts.      *)
(***************************************************************************)
THEOREM AnswersCorrect == Spec => []AnswersMatchTheText
<1>1. IInv => AnswersMatchTheText
  BY DEF IInv, Origin, Key, AnswersMatchTheText
<1> QED BY Invariant, <1>1, PTL

(***************************************************************************)
(* cache_hit tells whether the pipeline ran, in responses and in records.  *)
(***************************************************************************)
THEOREM HitFlagCorrect == Spec => []HitFlagTruthful
<1>1. IInv => HitFlagTruthful
  <2> SUFFICES ASSUME IInv PROVE HitFlagTruthful
    OBVIOUS
  <2>1. \A r \in Requests : final[r] # None =>
          (final[r].hit <=> final[r].verdict.by # r)
    BY DEF IInv, Origin
  <2>2. ASSUME NEW h \in history PROVE h.hit <=> h.verdict.by # h.id
    <3>1. h.id \in Requests /\ status[h.id] = 200 /\ h = Row(h.id)
      BY <2>2 DEF IInv, TypeOK, Record, Logs
    <3>2. final[h.id] # None
      BY <3>1 DEF IInv, Control
    <3> QED BY <2>1, <3>1, <3>2 DEF Row
  <2> QED BY <2>1, <2>2 DEF HitFlagTruthful
<1> QED BY Invariant, <1>1, PTL

(***************************************************************************)
(* The audit trail records what was answered, to whom, at most once.       *)
(***************************************************************************)
THEOREM AuditTrailCorrect == Spec => []AuditTrailFaithful
<1>1. IInv => AuditTrailFaithful
  BY DEF IInv, Logs, AuditTrailFaithful
<1> QED BY Invariant, <1>1, PTL

(***************************************************************************)
(* Analytics count each answered pipeline run once, and nothing else.      *)
(***************************************************************************)
THEOREM EventsCorrect == Spec => []EventsCountRuns
<1>1. IInv => EventsCountRuns
  <2> SUFFICES ASSUME IInv, NEW e \in events
               PROVE  /\ status[e.id] = 200
                      /\ MintedBy(e.id, e.verdict)
                      /\ e.user = user[e.id]
                      /\ e = Row(e.id)
    BY DEF EventsCountRuns
  <2>1. e.id \in Requests /\ status[e.id] = 200 /\ e = Row(e.id) /\ ~e.hit
    BY DEF IInv, TypeOK, Record, Logs
  <2>2. final[e.id] # None
    BY <2>1 DEF IInv, Control
  <2>3. e.verdict = final[e.id].verdict /\ ~final[e.id].hit /\ e.user = user[e.id]
    BY <2>1 DEF Row
  <2>4. Origin(e.id)
    BY <2>1 DEF IInv
  <2> QED BY <2>1, <2>2, <2>3, <2>4 DEF Origin
<1> QED BY Invariant, <1>1, PTL

(***************************************************************************)
(* A request answered with 500 left no record, no event and no entry.      *)
(***************************************************************************)
THEOREM FailuresCorrect == Spec => []FailuresLeaveNoTrace
<1>1. IInv => FailuresLeaveNoTrace
  <2> SUFFICES ASSUME IInv, NEW r \in Requests, status[r] = 500
               PROVE  /\ \A x \in history \cup events : x.id # r /\ x.verdict.by # r
                      /\ \A k \in CacheKeys :
                           /\ redis[k] # None => redis[k].value.by # r
                           /\ fallback[k] # None => fallback[k].value.by # r
    BY DEF FailuresLeaveNoTrace
  <2>1. final[r] = None
    BY DEF IInv, Control
  <2>2. \A v \in Verdict : ~MintedBy(r, v)
    BY <2>1, MintedSpeaks
  <2>3. ASSUME NEW x \in history \cup events PROVE x.id # r /\ x.verdict.by # r
    <3>1. x.id \in Requests /\ status[x.id] = 200 /\ x = Row(x.id)
      BY <2>3 DEF IInv, TypeOK, Record, Logs
    <3>2. final[x.id] # None /\ final[x.id] \in Answer
      BY <3>1 DEF IInv, Control, TypeOK
    <3>3. MintedBy(x.verdict.by, x.verdict) /\ x.verdict \in Verdict
      BY <3>1, <3>2 DEF IInv, Origin, Row, Answer
    <3> QED BY <2>1, <2>2, <3>1, <3>2, <3>3
  <2>4. ASSUME NEW k \in CacheKeys
        PROVE  /\ redis[k] # None => redis[k].value.by # r
               /\ fallback[k] # None => fallback[k].value.by # r
    <3>1. Tiers(k)
      BY DEF IInv
    <3>2. /\ redis[k] \in Entry(Verdict) \cup {None}
          /\ fallback[k] \in Entry(Verdict) \cup {None}
      BY DEF IInv, TypeOK, CacheTypeOK
    <3> QED BY <2>2, <3>1, <3>2 DEF Tiers, Filed, Entry
  <2> QED BY <2>3, <2>4
<1> QED BY Invariant, <1>1, PTL

(***************************************************************************)
(* What Redis serves is within the shelf life of its claim type, and the   *)
(* low-confidence cap never lengthens it: an opinion, the one type it      *)
(* could lengthen, is routed to no source and never reaches the mediator.  *)
(***************************************************************************)
THEOREM RedisLifetimesCorrect == Spec => []RedisHonoursLifetimes
<1>1. IInv => RedisHonoursLifetimes
  <2> SUFFICES ASSUME IInv, NEW k \in CacheKeys, redis[k] # None
               PROVE  WithinLimits(redis[k])
    BY DEF RedisHonoursLifetimes
  <2>1. PICK e \in Entry(Verdict) : e = redis[k]
    BY DEF IInv, TypeOK, CacheTypeOK
  <2>2. PICK v \in Verdict : v = e.value
    BY DEF Entry
  <2>3. PICK t : t = TypeOf(body[v.by])
    OBVIOUS
  <2>4. /\ MintedBy(v.by, v)
        /\ e.age < CacheTTL(v, t)
    BY <2>1, <2>2, <2>3 DEF IInv, Tiers, Filed
  <2>5. v.by \in Requests
    BY DEF Verdict
  <2>6. final[v.by] # None /\ final[v.by].verdict = v /\ Origin(v.by)
    BY <2>4, <2>5, MintedSpeaks DEF IInv
  <2>7. /\ body[v.by] \in Bodies
        /\ v.low => RoutingRules[t] # {}
    BY <2>3, <2>6 DEF Origin
  <2>8. t \in QueryTypes
    BY <2>3, <2>7, VerifyAssumption DEF TypeOf
  <2>9. e.age \in Nat
    BY DEF Entry
  <2>10. v.low => t # "opinion_subjective"
    BY <2>7 DEF RoutingRules
  <2>11. CacheTTL(v, t) <= TypeTTL(t)
    BY <2>8, <2>10, TTLAssumption DEF CacheTTL, TypeTTL, QueryTypeTTL, QueryTypes
  <2>12. v.low => CacheTTL(v, t) <= LowConfidenceTTL
    BY TTLAssumption DEF CacheTTL
  <2>13. v.grade = "raised" => CacheTTL(v, t) = ErrorTTL
    BY DEF CacheTTL
  <2>14. CacheTTL(v, t) \in Nat /\ TypeTTL(t) \in Nat /\ LowConfidenceTTL \in Nat
    BY TTLTypes, TTLAssumption DEF TypeTTL, QueryTypeTTL
  <2>15. /\ e.age < TypeTTL(t)
         /\ v.low => e.age < LowConfidenceTTL
         /\ v.grade = "raised" => e.age < ErrorTTL
    BY <2>4, <2>9, <2>11, <2>12, <2>13, <2>14
  <2> QED BY <2>1, <2>2, <2>3, <2>15 DEF WithinLimits
<1> QED BY Invariant, <1>1, PTL

-----------------------------------------------------------------------------
(***************************************************************************)
(* VerifyService implements VerifyContract, for every value of the         *)
(* constants: its initial states map to the contract's, and each step maps *)
(* to a step of the contract or to no change.  The invariant IInv supplies *)
(* what a single state of the service does not show, such as that a        *)
(* request whose row is pending is in neither collection.                  *)
(***************************************************************************)

\* The initial states of the service are initial states of the contract.
LEMMA InitRefines == Init => Contract!Init
  BY DEF Init, Contract!Init, StageMap, TextMap, MintedMap, ShownMap, Trail,
         Counted, Stage, Text, Minted, Shown, InFlight

\* What each projection depends on: a step that leaves that alone leaves it.
LEMMA ProjectionsStay ==
  /\ UNCHANGED body => TextMap' = TextMap
  /\ UNCHANGED final => MintedMap' = MintedMap
  /\ UNCHANGED <<status, final>> => ShownMap' = ShownMap
  /\ UNCHANGED history => Trail' = Trail
  /\ UNCHANGED events => Counted' = Counted
  /\ UNCHANGED <<status, pc>> => StageMap' = StageMap
  BY DEF TextMap, Text, MintedMap, Minted, ShownMap, Shown, Trail, Counted,
         StageMap, Stage

\* A request that moves between two awaits before its response stays open.
LEMMA StillOpen ==
  ASSUME IInv, NEW r \in Requests, NEW from, NEW to \in InFlight,
         Goto(r, from, to), from \in InFlight, UNCHANGED status
  PROVE  StageMap' = StageMap
<1>1. pc \in [Requests -> InFlight \cup {"idle", "done", "lost"}]
  BY DEF IInv, TypeOK
<1>2. ASSUME NEW q \in Requests PROVE Stage(q)' = Stage(q)
  BY <1>1 DEF Stage, InFlight
<1> QED BY <1>2 DEF StageMap

\* One request's stage changes and no other's.
LEMMA StageMoves ==
  ASSUME NEW r \in Requests, NEW s, Stage(r)' = s,
         \A q \in Requests : q # r => Stage(q)' = Stage(q)
  PROVE  StageMap' = [StageMap EXCEPT ![r] = s]
  BY DEF StageMap

\* A new request is opened with its user and its text.
LEMMA ArriveRefines ==
  ASSUME IInv, NEW r \in Requests, NEW u \in Users, NEW b \in Bodies,
         Arrive(r, u, b)
  PROVE  Contract!Open(r, u, Key(b))
<1>1. /\ pc \in [Requests -> InFlight \cup {"idle", "done", "lost"}]
      /\ body \in [Requests -> Bodies \cup {None}]
      /\ Control(r)
  BY DEF IInv, TypeOK
<1>2. /\ pc[r] = "idle" /\ pc' = [pc EXCEPT ![r] = "lookup"]
      /\ body' = [body EXCEPT ![r] = b] /\ user' = [user EXCEPT ![r] = u]
      /\ UNCHANGED <<final, status, history, events>>
  BY DEF Arrive
<1>3. status[r] = 0
  BY <1>1, <1>2 DEF Control
<1>4. StageMap[r] = "idle" /\ StageMap' = [StageMap EXCEPT ![r] = "open"]
  <2>1. Stage(r) = "idle" /\ Stage(r)' = "open"
    BY <1>1, <1>2, <1>3 DEF Stage, InFlight
  <2>2. \A q \in Requests : q # r => Stage(q)' = Stage(q)
    BY <1>1, <1>2, <1>3 DEF Stage
  <2> QED BY <2>1, <2>2, StageMoves DEF StageMap
<1>5. TextMap' = [TextMap EXCEPT ![r] = Key(b)]
  BY <1>1, <1>2, NoneAssumption DEF TextMap, Text, Key
<1> QED BY <1>2, <1>4, <1>5, ProjectionsStay DEF Contract!Open

\* The judge's verdict is the one verdict the request mints.
LEMMA JudgeRefines ==
  ASSUME IInv, NEW r \in Requests, Judge(r)
  PROVE  \E v \in Verdict : Contract!Mint(r, v)
<1>1. PICK g \in JudgeOutcomes :
        final' = [final EXCEPT ![r] =
                    [verdict |-> [by |-> r, grade |-> g, low |-> low[r]],
                     hit |-> FALSE]]
  BY DEF Judge
<1>2. PICK v \in Verdict : v = [by |-> r, grade |-> g, low |-> low[r]]
  BY JudgedIsAnswer DEF IInv, Answer
<1>3. PICK a \in Answer : a = [verdict |-> v, hit |-> FALSE]
  BY DEF Answer
<1>a. a # None
  BY NoneAssumption
<1>4. /\ Goto(r, "judge", "score")
      /\ UNCHANGED <<user, body, status, history, events>>
      /\ final \in [Requests -> Answer \cup {None}]
      /\ final' = [final EXCEPT ![r] = a]
      /\ Control(r)
  BY <1>1, <1>2, <1>3 DEF Judge, IInv, TypeOK
<1>5. final[r] = None /\ status[r] = 0
  BY <1>4 DEF Control, Unserved, InFlight
<1>6. StageMap' = StageMap
  BY <1>4, StillOpen DEF InFlight
<1>7. StageMap[r] = "open"
  BY <1>4, <1>5 DEF StageMap, Stage, InFlight
<1>8. MintedMap[r] = None /\ MintedMap' = [MintedMap EXCEPT ![r] = v]
  BY <1>3, <1>a, <1>4, <1>5 DEF MintedMap, Minted
<1>9. ShownMap' = ShownMap
  BY <1>4, <1>5 DEF ShownMap, Shown
<1> QED BY <1>4, <1>6, <1>7, <1>8, <1>9, ProjectionsStay DEF Contract!Mint

\* A hit mints nothing, and nothing is shown before the response is sent.
LEMMA HitRefines ==
  ASSUME IInv, NEW r \in Requests, Hit(r) PROVE UNCHANGED Contract!vars
<1>1. PICK a \in Answer : a = [verdict |-> Found(Key(body[r])).value, hit |-> TRUE]
  BY HitIsAnswer
<1>2. /\ Goto(r, "lookup", "respond")
      /\ UNCHANGED <<user, body, status, history, events>>
      /\ final \in [Requests -> Answer \cup {None}]
      /\ final' = [final EXCEPT ![r] = a] /\ a.hit
      /\ Control(r)
  BY <1>1 DEF Hit, IInv, TypeOK
<1>3. final[r] = None /\ status[r] = 0
  BY <1>2 DEF Control, Unserved, InFlight
<1>4. StageMap' = StageMap
  BY <1>2, StillOpen DEF InFlight
<1>5. MintedMap' = MintedMap /\ ShownMap' = ShownMap
  BY <1>2, <1>3 DEF MintedMap, Minted, ShownMap, Shown
<1> QED BY <1>2, <1>4, <1>5, ProjectionsStay DEF Contract!vars

\* The response answers the request with a verdict minted on its own text.
LEMMA RespondRefines ==
  ASSUME IInv, NEW r \in Requests, Respond(r)
  PROVE  \E origin \in Requests : Contract!Reply(r, origin)
<1>1. /\ final[r] # None /\ status[r] = 0 /\ body[r] \in Bodies
      /\ final[r] \in Answer
      /\ Origin(r)
  BY DEF Respond, IInv, TypeOK, Control, InFlight
<1>2. PICK origin \in Requests : origin = final[r].verdict.by
  BY <1>1 DEF Answer, Verdict
<1>3. PICK v \in Verdict : v = final[r].verdict
  BY <1>1 DEF Answer
<1>4. MintedBy(origin, v) /\ final[origin] # None /\ final[origin].verdict = v
  BY <1>1, <1>2, <1>3, MintedSpeaks DEF Origin
<1>5. MintedMap[origin] # None
  BY <1>4, NoneAssumption DEF MintedMap, Minted, MintedBy
<1>6. TextMap[origin] = TextMap[r]
  BY <1>1, <1>2, NoneAssumption DEF TextMap, Text, Origin
<1>7. MintedMap[r] # None => origin = r
  BY <1>1, <1>2 DEF MintedMap, Minted, Origin
<1>8. /\ pc[r] = "respond"
      /\ status' = [status EXCEPT ![r] = 200]
      /\ status \in [Requests -> {0, 200, 500}]
      /\ pc \in [Requests -> InFlight \cup {"idle", "done", "lost"}]
      /\ \E to \in {"done", "history", "analytics"} : pc' = [pc EXCEPT ![r] = to]
      /\ UNCHANGED <<user, body, final, history, events>>
  BY DEF Respond, IInv, TypeOK
<1>9. StageMap[r] = "open" /\ StageMap' = [StageMap EXCEPT ![r] = "answered"]
  <2>1. Stage(r) = "open" /\ Stage(r)' = "answered"
    BY <1>1, <1>8 DEF Stage, InFlight
  <2>2. \A q \in Requests : q # r => Stage(q)' = Stage(q)
    BY <1>1, <1>8 DEF Stage
  <2> QED BY <2>1, <2>2, StageMoves DEF StageMap
<1>10. ShownMap' = [ShownMap EXCEPT ![r] = origin]
  BY <1>1, <1>2, <1>8 DEF ShownMap, Shown
<1> QED BY <1>5, <1>6, <1>7, <1>8, <1>9, <1>10, ProjectionsStay DEF Contract!Reply

\* A preprocessing failure ends a request that minted nothing.
LEMMA FailRefines ==
  ASSUME IInv, NEW r \in Requests, PreprocessFails(r) PROVE Contract!Fail(r)
<1>1. /\ Goto(r, "preprocess", "done")
      /\ status' = [status EXCEPT ![r] = 500]
      /\ status \in [Requests -> {0, 200, 500}]
      /\ pc \in [Requests -> InFlight \cup {"idle", "done", "lost"}]
      /\ UNCHANGED <<user, body, final, history, events>>
      /\ Control(r)
  BY DEF PreprocessFails, IInv, TypeOK
<1>2. final[r] = None /\ status[r] = 0
  BY <1>1 DEF Control, Unserved, InFlight
<1>3. StageMap[r] = "open" /\ StageMap' = [StageMap EXCEPT ![r] = "failed"]
  <2>1. Stage(r) = "open" /\ Stage(r)' = "failed"
    BY <1>1, <1>2 DEF Stage, InFlight
  <2>2. \A q \in Requests : q # r => Stage(q)' = Stage(q)
    BY <1>1, <1>2 DEF Stage
  <2> QED BY <2>1, <2>2, StageMoves DEF StageMap
<1>4. MintedMap[r] = None
  BY <1>2 DEF MintedMap, Minted
<1>5. ShownMap' = ShownMap
  BY <1>1, <1>2 DEF ShownMap, Shown
<1> QED BY <1>1, <1>3, <1>4, <1>5, ProjectionsStay DEF Contract!Fail

\* The end of the process abandons exactly the requests not yet answered.
LEMMA EndRefines == ASSUME IInv, End PROVE Contract!Abandon
<1>1. /\ pc' = [r \in Requests |-> IF pc[r] \in InFlight THEN "lost" ELSE pc[r]]
      /\ UNCHANGED <<user, body, final, status, history, events>>
      /\ status \in [Requests -> {0, 200, 500}]
  BY DEF End, IInv, TypeOK
<1>2. ASSUME NEW r \in Requests
      PROVE  Stage(r)' = IF Stage(r) = "open" THEN "abandoned" ELSE Stage(r)
  BY <1>1 DEF Stage, InFlight
<1>3. StageMap' = [r \in Requests |->
                     IF StageMap[r] = "open" THEN "abandoned" ELSE StageMap[r]]
  BY <1>2 DEF StageMap
<1> QED BY <1>1, <1>3, ProjectionsStay DEF Contract!Abandon

\* The entry the contract would record is the row the service records.
LEMMA RowIsEntry ==
  ASSUME IInv, NEW r \in Requests, pc[r] \in {"analytics", "history"}
  PROVE  /\ Row(r).id = r
         /\ Contract!Entry(r) = <<Row(r).id, Row(r).user, Row(r).verdict.by>>
         /\ Contract!Entry(r) \notin Trail
         /\ StageMap[r] = "answered"
<1>1. status[r] = 200 /\ Logs /\ pc \in [Requests -> InFlight \cup {"idle", "done", "lost"}]
  BY DEF IInv, Control, TypeOK
<1>2. \A h \in history : h.id # r
  BY <1>1 DEF Logs
<1> QED BY <1>1, <1>2 DEF Row, Contract!Entry, Trail, StageMap, Stage, ShownMap, Shown

\* The event of a run is counted once, before the user's record exists.
LEMMA TrackRefines ==
  ASSUME IInv, NEW r \in Requests, TrackAnalytics(r)
  PROVE  Contract!Count(r) \/ UNCHANGED Contract!vars
<1>1. /\ Goto(r, "analytics", "history")
      /\ UNCHANGED <<user, body, final, status, history>>
      /\ events' = events \cup {Row(r)} \/ events' = events
  BY DEF TrackAnalytics
<1>2. StageMap' = StageMap
  BY <1>1, StillOpen DEF InFlight
<1>3. r \notin Counted
  BY <1>1 DEF Counted, IInv, Logs
<1>4. ShownMap[r] = r
  <2>1. status[r] = 200 /\ final[r] # None /\ ~final[r].hit /\ Origin(r)
    BY <1>1 DEF IInv, Control
  <2> QED BY <2>1 DEF ShownMap, Shown, Origin
<1>5. CASE events' = events \cup {Row(r)}
  <2>1. Counted' = Counted \cup {r}
    BY <1>1, <1>5, RowIsEntry DEF Counted
  <2> QED BY <1>1, <1>2, <1>3, <1>4, <2>1, RowIsEntry, ProjectionsStay DEF Contract!Count
<1>6. CASE events' = events
  BY <1>1, <1>2, <1>6, ProjectionsStay DEF Contract!vars
<1> QED BY <1>1, <1>5, <1>6

\* The user's record is written once, with what the response showed.
LEMMA WriteRefines ==
  ASSUME IInv, NEW r \in Requests, WriteHistory(r)
  PROVE  Contract!Audit(r) \/ UNCHANGED Contract!vars
<1>1. /\ Goto(r, "history", "done")
      /\ UNCHANGED <<user, body, final, status, events>>
      /\ history' = history \cup {Row(r)} \/ history' = history
  BY DEF WriteHistory
<1>2. StageMap' = StageMap
  BY <1>1 DEF StageMap, Stage, InFlight, IInv, TypeOK, Control
<1>3. CASE history' = history \cup {Row(r)}
  <2>1. Trail' = Trail \cup {Contract!Entry(r)}
    BY <1>1, <1>3, RowIsEntry DEF Trail
  <2> QED BY <1>1, <1>2, <2>1, RowIsEntry, ProjectionsStay DEF Contract!Audit
<1>4. CASE history' = history
  BY <1>1, <1>2, <1>4, ProjectionsStay DEF Contract!vars
<1> QED BY <1>1, <1>3, <1>4

\* The contract sees nothing of the steps between two awaits.
LEMMA QuietRefines ==
  ASSUME IInv, NEW r \in Requests,
         \/ Miss(r) \/ Preprocess(r) \/ Retrieve(r) \/ Mediate(r) \/ ScoreClaims(r)
         \/ StoreInRedis(r) \/ StoreReplyLost(r) \/ StoreInFallback(r)
  PROVE  UNCHANGED Contract!vars
<1>1. UNCHANGED <<user, body, final, status, history, events>>
  BY DEF Miss, Preprocess, Retrieve, Mediate, ScoreClaims, StoreInRedis,
         StoreReplyLost, StoreInFallback
<1>2. \E from, to \in InFlight : Goto(r, from, to)
  BY DEF Miss, Preprocess, Retrieve, Mediate, ScoreClaims, StoreInRedis,
         StoreReplyLost, StoreInFallback, InFlight
<1>3. StageMap' = StageMap
  BY <1>1, <1>2, StillOpen
<1> QED BY <1>1, <1>3, ProjectionsStay DEF Contract!vars

\* Nor of what the environment does.
LEMMA EnvironmentRefines ==
  ASSUME \/ Startup \/ MongoFlips \/ RedisOutage \/ RedisReturns \/ TimePasses
         \/ (\E k \in CacheKeys : EvictedByRetriever(k)) \/ UNCHANGED vars
  PROVE  UNCHANGED Contract!vars
<1>1. UNCHANGED requestVars
  BY QuietSteps
<1>2. UNCHANGED <<history, events>>
  BY DEF Startup, MongoFlips, RedisOutage, RedisReturns, TimePasses,
         EvictedByRetriever, vars
<1> QED BY <1>1, <1>2, ProjectionsStay DEF Contract!vars

\* Every step of the service is a step of the contract, or invisible to it.
LEMMA StepRefines ==
  ASSUME IInv, [Next]_vars PROVE [Contract!Next]_(Contract!vars)
<1>1. ASSUME NEW r \in Requests, NEW u \in Users, NEW b \in Bodies, Arrive(r, u, b)
      PROVE  Contract!Next
  BY <1>1, ArriveRefines, KeyTypes DEF Contract!Next
<1>2. ASSUME NEW r \in Requests, Advance(r) PROVE [Contract!Next]_(Contract!vars)
  <2>1. CASE Hit(r)
    BY <2>1, HitRefines
  <2>2. CASE Judge(r)
    BY <2>2, JudgeRefines DEF Contract!Next
  <2>3. CASE Respond(r)
    BY <2>3, RespondRefines DEF Contract!Next
  <2>4. CASE PreprocessFails(r)
    BY <2>4, FailRefines DEF Contract!Next
  <2>5. CASE TrackAnalytics(r)
    BY <2>5, TrackRefines DEF Contract!Next
  <2>6. CASE WriteHistory(r)
    BY <2>6, WriteRefines DEF Contract!Next
  <2>7. CASE \/ Miss(r) \/ Preprocess(r) \/ Retrieve(r) \/ Mediate(r) \/ ScoreClaims(r)
             \/ StoreInRedis(r) \/ StoreReplyLost(r) \/ StoreInFallback(r)
    BY <2>7, QuietRefines
  <2> QED BY <1>2, <2>1, <2>2, <2>3, <2>4, <2>5, <2>6, <2>7 DEF Advance
<1>3. CASE End
  BY <1>3, EndRefines DEF Contract!Next
<1> QED BY <1>1, <1>2, <1>3, EnvironmentRefines DEF Next

(***************************************************************************)
(* Whatever a client can observe of POST /api/verify, for any number of    *)
(* requests and users and through any outages and restarts, the contract   *)
(* allows.                                                                 *)
(***************************************************************************)
THEOREM Refinement == Spec => ImplementsContract
<1>1. Init => Contract!Init
  BY InitRefines
<1>2. IInv /\ [Next]_vars => [Contract!Next]_(Contract!vars)
  BY StepRefines
<1> QED BY Invariant, <1>1, <1>2, PTL DEF Spec, ImplementsContract, Contract!Spec
=============================================================================
