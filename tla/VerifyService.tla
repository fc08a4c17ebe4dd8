---------------------------- MODULE VerifyService ----------------------------
(***************************************************************************)
(* POST /api/verify (app/api/routes/verify.py) as served by one backend    *)
(* process: the handler's coroutine, cut at every await, the background    *)
(* tasks it leaves behind, and the lifespan of main.py that starts and     *)
(* ends the process around them.  Requests interleave at each cut.         *)
(*                                                                         *)
(* Redis and MongoDB are external: each may go away and return at any      *)
(* time.  The process may end at any time and be started again, which      *)
(* loses the requests in flight, their pending tasks and the fallback.     *)
(* A request in this module is authenticated and within its rate limit.    *)
(***************************************************************************)
EXTENDS Naturals, FiniteSets, Sequences

CONSTANTS
  Requests,         \* request_id of the calls in a behaviour
  Users,            \* user_id, the JWT subject
  Bodies,           \* [question, answer] payloads, stripped, as token sequences
  Classify,         \* determine_query_type, on the questions in Bodies
  JudgeOutcomes,    \* which Grades a run of judge.judge can lead to
  None,
  ErrorTTL, OpinionTTL, RecentTTL, NumericTTL, EncyclopedicTTL,
  DefaultVerifyTTL, LowConfidenceTTL,
  FallbackTTL, FallbackSize, RedisEnabled

QueryTypes == {"encyclopedic", "recent_event", "numeric_statistical",
               "opinion_subjective", "medical_health", "finance", "programming"}

(***************************************************************************)
(* How the verdict came about.  "judged": an LLM answered.  "neutral":     *)
(* LLMJudge.judge caught the failure itself and returned its 50.           *)
(* "raised": judge.judge raised and the route built its own 50.            *)
(***************************************************************************)
Grades == {"judged", "neutral", "raised"}

ASSUME VerifyAssumption ==
  /\ Bodies \subseteq [question : Seq(STRING), answer : Seq(STRING)]
  /\ Classify \in [{b.question : b \in Bodies} -> QueryTypes]
  /\ JudgeOutcomes \subseteq Grades

\* 60 s, 30 min, 1 h, 24 h, 7 days, 1 h, 1 h: only their order matters.
ASSUME TTLAssumption ==
  /\ {ErrorTTL, OpinionTTL, RecentTTL, NumericTTL, EncyclopedicTTL,
      DefaultVerifyTTL, LowConfidenceTTL, FallbackTTL} \subseteq Nat \ {0}
  /\ ErrorTTL <= OpinionTTL
  /\ OpinionTTL <= LowConfidenceTTL
  /\ LowConfidenceTTL <= RecentTTL
  /\ LowConfidenceTTL <= DefaultVerifyTTL
  /\ LowConfidenceTTL <= NumericTTL
  /\ LowConfidenceTTL <= EncyclopedicTTL

VARIABLES
  pc,             \* pc[r]: the await the coroutine of r is suspended at
  user, body,     \* user_id and body of r, None before it arrives
  low,            \* low[r]: source_confidence < min_score_to_cache
  final,          \* final[r]: final_response; kept after a crash, as history
  status,         \* status[r]: HTTP status delivered to the client, 0 before
  up,             \* the lifespan of main.py is between startup and shutdown
  db,             \* app.state.db is not None
  mongoUp,        \* MongoDB answers
  history,        \* collection user_history
  events,         \* collection verification events
  redisUp, client, redis, fallback

requestVars == <<pc, user, body, low, final, status>>
processVars == <<up, db>>
storeVars == <<mongoUp, history, events>>
tierVars == <<redisUp, client, redis, fallback>>

\* Mutant: the question is forgotten in the key.
KeyOfAnswerOnly(b) == b.answer

\* verify_cache_key: the digest of question + answer, one string.
Key(b) == b.question \o b.answer

CacheKeys == {Key(b) : b \in Bodies}

INSTANCE TieredCache WITH Keys <- CacheKeys

vars == <<requestVars, processVars, storeVars, tierVars>>

TypeOf(b) == Classify[b.question]

(***************************************************************************)
(* A verdict stands for score, verdict text and request_id of a response.  *)
(* low is not part of the response: it tags how the verdict was reached.   *)
(***************************************************************************)
Verdict == [by : Requests, grade : Grades, low : BOOLEAN]
Answer == [verdict : Verdict, hit : BOOLEAN]
Record == [id : Requests, user : Users, verdict : Verdict, hit : BOOLEAN]

\* None is no payload, no user, no response and no cache entry.
ASSUME NoneAssumption ==
  None \notin Bodies \cup Users \cup Answer \cup Verdict \cup Entry(Verdict)

InFlight == {"lookup", "preprocess", "retrieve", "mediate", "judge", "score",
             "store", "restore", "respond", "analytics", "history"}

\* Every variable has its type, and the tiers hold verdicts only.
TypeOK ==
  /\ pc \in [Requests -> InFlight \cup {"idle", "done", "lost"}]
  /\ user \in [Requests -> Users \cup {None}]
  /\ body \in [Requests -> Bodies \cup {None}]
  /\ low \in [Requests -> BOOLEAN]
  /\ final \in [Requests -> Answer \cup {None}]
  /\ status \in [Requests -> {0, 200, 500}]
  /\ up \in BOOLEAN
  /\ db \in BOOLEAN
  /\ mongoUp \in BOOLEAN
  /\ history \subseteq Record
  /\ events \subseteq Record
  /\ CacheTypeOK(Verdict)

Init ==
  /\ pc = [r \in Requests |-> "idle"]
  /\ user = [r \in Requests |-> None]
  /\ body = [r \in Requests |-> None]
  /\ low = [r \in Requests |-> FALSE]
  /\ final = [r \in Requests |-> None]
  /\ status = [r \in Requests |-> 0]
  /\ up = FALSE
  /\ db = FALSE
  /\ mongoUp \in BOOLEAN
  /\ history = {}
  /\ events = {}
  /\ CacheInit

Goto(r, from, to) ==
  /\ pc[r] = from
  /\ pc' = [pc EXCEPT ![r] = to]

-----------------------------------------------------------------------------
(* The handler. *)

Arrive(r, u, b) ==
  /\ up
  /\ Goto(r, "idle", "lookup")
  /\ user' = [user EXCEPT ![r] = u]
  /\ body' = [body EXCEPT ![r] = b]
  /\ UNCHANGED <<low, final, status, processVars, storeVars, tierVars>>

\* Mutant: the flag is not overridden, the stored False goes out.
HitUnflagged(r) ==
  /\ Goto(r, "lookup", "respond")
  /\ Found(Key(body[r])) # None
  /\ final' = [final EXCEPT ![r] = [verdict |-> Found(Key(body[r])).value,
                                    hit |-> FALSE]]
  /\ UNCHANGED <<user, body, low, status, processVars, storeVars, tierVars>>

\* Mutant: the stored envelope is returned instead of the value in it.
HitReturnsEntry(r) ==
  /\ Goto(r, "lookup", "respond")
  /\ Found(Key(body[r])) # None
  /\ final' = [final EXCEPT ![r] = Found(Key(body[r]))]
  /\ UNCHANGED <<user, body, low, status, processVars, storeVars, tierVars>>

(***************************************************************************)
(* get_cached returned.  A hit becomes the response with cache_hit set and *)
(* everything else, request_id included, as it was stored.  What is stored *)
(* under this key was dumped from a VerifyResponse by this route, so that  *)
(* building a VerifyResponse from it succeeds; the 500 it would end in for *)
(* an entry of another shape (an older release, another writer) is left    *)
(* out.                                                                    *)
(***************************************************************************)
Hit(r) ==
  /\ Goto(r, "lookup", "respond")
  /\ Found(Key(body[r])) # None
  /\ final' = [final EXCEPT ![r] = [verdict |-> Found(Key(body[r])).value,
                                    hit |-> TRUE]]
  /\ UNCHANGED <<user, body, low, status, processVars, storeVars, tierVars>>

Miss(r) ==
  /\ Goto(r, "lookup", "preprocess")
  /\ Found(Key(body[r])) = None
  /\ UNCHANGED <<user, body, low, final, status, processVars, storeVars, tierVars>>

Preprocess(r) ==
  /\ Goto(r, "preprocess", "retrieve")
  /\ UNCHANGED <<user, body, low, final, status, processVars, storeVars, tierVars>>

\* Mutant: the failure is reported and, like every other one, carried on from.
FailsAndGoesOn(r) ==
  /\ Goto(r, "preprocess", "retrieve")
  /\ status' = [status EXCEPT ![r] = 500]
  /\ UNCHANGED <<user, body, low, final, processVars, storeVars, tierVars>>

\* preprocess_async raised: the one failure of the pipeline that is fatal.
PreprocessFails(r) ==
  /\ Goto(r, "preprocess", "done")
  /\ status' = [status EXCEPT ![r] = 500]
  /\ UNCHANGED <<user, body, low, final, processVars, storeVars, tierVars>>

\* SourceRouter.get_sources_for_query_type
RoutingRules ==
  [encyclopedic        |-> {"wikipedia", "serpapi", "scholar", "gov"},
   recent_event        |-> {"serpapi", "wikipedia", "gov", "scholar", "news"},
   numeric_statistical |-> {"wikipedia", "serpapi", "gov", "scholar", "finance"},
   opinion_subjective  |-> {},
   medical_health      |-> {"medical", "scholar", "gov"},
   finance             |-> {"finance", "news", "serpapi"},
   programming         |-> {"serpapi", "wikipedia"}]

(***************************************************************************)
(* Any subset of the routed sources has evidence: a source that fails or   *)
(* finds nothing is left out, and no claims, or an exception, leave none.  *)
(* The mediator is asked only when more than one source is left.           *)
(***************************************************************************)
Retrieve(r) ==
  /\ pc[r] = "retrieve"
  /\ \E found \in SUBSET RoutingRules[TypeOf(body[r])] :
       Goto(r, "retrieve", IF Cardinality(found) > 1 THEN "mediate" ELSE "judge")
  /\ UNCHANGED <<user, body, low, final, status, processVars, storeVars, tierVars>>

\* No client, an API failure or an exception all leave the confidence at 1.0.
Mediate(r) ==
  /\ Goto(r, "mediate", "judge")
  /\ \E doubtful \in BOOLEAN : low' = [low EXCEPT ![r] = doubtful]
  /\ UNCHANGED <<user, body, final, status, processVars, storeVars, tierVars>>

Judge(r) ==
  /\ Goto(r, "judge", "score")
  /\ \E g \in JudgeOutcomes :
       final' = [final EXCEPT ![r] =
                   [verdict |-> [by |-> r, grade |-> g, low |-> low[r]],
                    hit |-> FALSE]]
  /\ UNCHANGED <<user, body, low, status, processVars, storeVars, tierVars>>

\* judge_per_claim: whatever it does, the response is built and goes on.
ScoreClaims(r) ==
  /\ Goto(r, "score", "store")
  /\ UNCHANGED <<user, body, low, final, status, processVars, storeVars, tierVars>>

QueryTypeTTL == [encyclopedic        |-> EncyclopedicTTL,
                 numeric_statistical |-> NumericTTL,
                 recent_event        |-> RecentTTL,
                 opinion_subjective  |-> OpinionTTL]

TypeTTL(t) ==
  IF t \in DOMAIN QueryTypeTTL THEN QueryTypeTTL[t] ELSE DefaultVerifyTTL

\* Mutant: the cap on doubtful verdicts forgets "not _judge_failed".
CapOverridesError(v, t) ==
  IF v.low THEN LowConfidenceTTL
  ELSE IF v.grade = "raised" THEN ErrorTTL
  ELSE TypeTTL(t)

\* cache_ttl; _judge_failed is grade "raised".
CacheTTL(v, t) ==
  IF v.grade = "raised" THEN ErrorTTL
  ELSE IF v.low THEN LowConfidenceTTL
  ELSE TypeTTL(t)

StoreInRedis(r) ==
  /\ Goto(r, "store", "respond")
  /\ PutRedis(Key(body[r]), final[r].verdict,
              CacheTTL(final[r].verdict, TypeOf(body[r])))
  /\ UNCHANGED <<user, body, low, final, status, processVars, storeVars>>

\* Mutant: a cache write that timed out makes the request start over.
StoreStartsOver(r) ==
  /\ Goto(r, "store", "lookup")
  /\ PutRedis(Key(body[r]), final[r].verdict,
              CacheTTL(final[r].verdict, TypeOf(body[r])))
  /\ UNCHANGED <<user, body, low, final, status, processVars, storeVars>>

\* SETEX was executed, its reply never came: the except branch is next.
StoreReplyLost(r) ==
  /\ Goto(r, "store", "restore")
  /\ PutRedis(Key(body[r]), final[r].verdict,
              CacheTTL(final[r].verdict, TypeOf(body[r])))
  /\ UNCHANGED <<user, body, low, final, status, processVars, storeVars>>

\* Mutant: a lost reply is taken for a Redis that will be found down.
StoreOnlyWhenDown(r) ==
  /\ ~Reachable
  /\ Goto(r, "store", "respond")
  /\ PutFallback(Key(body[r]), final[r].verdict)
  /\ UNCHANGED <<user, body, low, final, status, processVars, storeVars>>

StoreInFallback(r) ==
  /\ \/ ~Reachable /\ Goto(r, "store", "respond")
     \/ Goto(r, "restore", "respond")
  /\ PutFallback(Key(body[r]), final[r].verdict)
  /\ UNCHANGED <<user, body, low, final, status, processVars, storeVars>>

\* Mutant: the hit returns before its history task is added.
RespondForgetsHits(r) ==
  /\ pc[r] = "respond"
  /\ \/ (~db \/ final[r].hit) /\ Goto(r, "respond", "done")
     \/ db /\ ~final[r].hit /\ Goto(r, "respond", "analytics")
  /\ status' = [status EXCEPT ![r] = 200]
  /\ UNCHANGED <<user, body, low, final, processVars, storeVars, tierVars>>

\* Mutant: the analytics task is added for hits too.
RespondTracksHits(r) ==
  /\ pc[r] = "respond"
  /\ \/ ~db /\ Goto(r, "respond", "done")
     \/ db /\ Goto(r, "respond", "analytics")
  /\ status' = [status EXCEPT ![r] = 200]
  /\ UNCHANGED <<user, body, low, final, processVars, storeVars, tierVars>>

(***************************************************************************)
(* The response is sent.  Its background tasks follow, one after the       *)
(* other: the analytics event (a miss only), then the history record, and  *)
(* neither when app.state.db is None.                                      *)
(***************************************************************************)
Respond(r) ==
  /\ pc[r] = "respond"
  /\ \/ ~db /\ Goto(r, "respond", "done")
     \/ db /\ final[r].hit /\ Goto(r, "respond", "history")
     \/ db /\ ~final[r].hit /\ Goto(r, "respond", "analytics")
  /\ status' = [status EXCEPT ![r] = 200]
  /\ UNCHANGED <<user, body, low, final, processVars, storeVars, tierVars>>

Row(r) == [id |-> r, user |-> user[r], verdict |-> final[r].verdict,
           hit |-> final[r].hit]

\* record_async: an insert that fails is logged and forgotten.
TrackAnalytics(r) ==
  /\ Goto(r, "analytics", "history")
  /\ events' = IF mongoUp THEN events \cup {Row(r)} ELSE events
  /\ UNCHANGED <<user, body, low, final, status, processVars, mongoUp, history,
                 tierVars>>

(***************************************************************************)
(* _write_history: UserHistoryRecord refuses an empty question, insert     *)
(* swallows what MongoDB raises, and neither is ever retried.              *)
(***************************************************************************)
Recordable(b) == b.question # <<>>

\* Mutant: the record takes the response's request_id, which a hit shares.
WriteUnderResponseId(r) ==
  /\ Goto(r, "history", "done")
  /\ history' = IF mongoUp /\ Recordable(body[r])
                THEN history \cup {[Row(r) EXCEPT !.id = final[r].verdict.by]}
                ELSE history
  /\ UNCHANGED <<user, body, low, final, status, processVars, mongoUp, events,
                 tierVars>>

WriteHistory(r) ==
  /\ Goto(r, "history", "done")
  /\ history' = IF mongoUp /\ Recordable(body[r])
                THEN history \cup {Row(r)} ELSE history
  /\ UNCHANGED <<user, body, low, final, status, processVars, mongoUp, events,
                 tierVars>>

-----------------------------------------------------------------------------
(* The process and its environment. *)

\* lifespan, startup: the cache first, then MongoDB, and only then requests.
Startup ==
  /\ ~up
  /\ up' = TRUE
  /\ db' = mongoUp
  /\ InitCache
  /\ UNCHANGED <<requestVars, storeVars>>

(***************************************************************************)
(* The process ends.  With requests in flight this is a crash; without, it *)
(* is also the lifespan's shutdown, which closes the clients.              *)
(***************************************************************************)
End ==
  /\ up
  /\ up' = FALSE
  /\ db' = FALSE
  /\ pc' = [r \in Requests |-> IF pc[r] \in InFlight THEN "lost" ELSE pc[r]]
  /\ DropCache
  /\ UNCHANGED <<user, body, low, final, status, storeVars>>

MongoFlips ==
  /\ mongoUp' = ~mongoUp
  /\ UNCHANGED <<requestVars, processVars, history, events, tierVars>>

RedisOutage == RedisDown /\ UNCHANGED <<requestVars, processVars, storeVars>>

RedisReturns == RedisRecovers /\ UNCHANGED <<requestVars, processVars, storeVars>>

TimePasses == Tick /\ UNCHANGED <<requestVars, processVars, storeVars>>

(***************************************************************************)
(* Entries of the retrievers share the fallback and can push any verdict   *)
(* out of it.                                                              *)
(***************************************************************************)
EvictedByRetriever(k) ==
  /\ up
  /\ fallback[k] # None
  /\ fallback' = [fallback EXCEPT ![k] = None]
  /\ UNCHANGED <<requestVars, processVars, storeVars, redisUp, client, redis>>

Advance(r) ==
  \/ Hit(r) \/ Miss(r) \/ Preprocess(r) \/ PreprocessFails(r)
  \/ Retrieve(r) \/ Mediate(r) \/ Judge(r) \/ ScoreClaims(r)
  \/ StoreInRedis(r) \/ StoreReplyLost(r) \/ StoreInFallback(r)
  \/ Respond(r) \/ TrackAnalytics(r) \/ WriteHistory(r)

Next ==
  \/ \E r \in Requests, u \in Users, b \in Bodies : Arrive(r, u, b)
  \/ \E r \in Requests : Advance(r)
  \/ Startup
  \/ End
  \/ MongoFlips
  \/ RedisOutage
  \/ RedisReturns
  \/ TimePasses
  \/ \E k \in CacheKeys : EvictedByRetriever(k)

(***************************************************************************)
(* Every await of the handler is bounded by a timeout of its client, so a  *)
(* coroutine always moves on, and docker restarts a process that ended.    *)
(* Nothing is assumed of clients, outages or the passing of time.          *)
(***************************************************************************)
Fairness ==
  /\ \A r \in Requests : WF_vars(Advance(r))
  /\ WF_vars(Startup)

Spec == Init /\ [][Next]_vars /\ Fairness

-----------------------------------------------------------------------------
(* Safety. *)

(***************************************************************************)
(* Whatever a client is told about its answer was computed by a pipeline   *)
(* run on the same question + answer text, and unchanged since: a hit      *)
(* carries exactly the verdict some other request minted under that key.   *)
(* verify.py:149-161, through both tiers, outages and restarts.            *)
(***************************************************************************)
MintedBy(o, v) == final[o] = [verdict |-> v, hit |-> FALSE]

AnswersMatchTheText ==
  \A r \in Requests : final[r] # None =>
    LET origin == final[r].verdict.by IN
    /\ MintedBy(origin, final[r].verdict)
    /\ body[origin].question \o body[origin].answer =
         body[r].question \o body[r].answer

(***************************************************************************)
(* cache_hit is true exactly when no pipeline ran for this request         *)
(* (models/history.py:77-83): in the response, and in the audit record.    *)
(***************************************************************************)
HitFlagTruthful ==
  /\ \A r \in Requests : final[r] # None =>
       (final[r].hit <=> final[r].verdict.by # r)
  /\ \A h \in history : h.hit <=> h.verdict.by # h.id

(***************************************************************************)
(* The audit trail never lies: a record names a request that was answered  *)
(* with 200, the user who sent it (not the one whose run filled the cache) *)
(* and the verdict that user was shown, and a request has at most one.     *)
(***************************************************************************)
AuditTrailFaithful ==
  /\ \A h \in history : status[h.id] = 200 /\ h = Row(h.id)
  /\ \A g, h \in history : g.id = h.id => g = h

(***************************************************************************)
(* Analytics count pipeline runs: an event names a request that ran the    *)
(* pipeline itself and was answered, so hits and failures are never        *)
(* counted, and no request is counted twice.                               *)
(***************************************************************************)
EventsCountRuns ==
  /\ \A e \in events :
       /\ status[e.id] = 200
       /\ MintedBy(e.id, e.verdict)
       /\ e.user = user[e.id]
  /\ \A d, e \in events : d.id = e.id => d = e

(***************************************************************************)
(* A request that failed with 500 leaves nothing behind: no audit record,  *)
(* no event, no cache entry another user could be served from.             *)
(***************************************************************************)
FailuresLeaveNoTrace ==
  \A r \in Requests : status[r] = 500 =>
    /\ \A x \in history \cup events : x.id # r /\ x.verdict.by # r
    /\ \A k \in CacheKeys :
         /\ redis[k] # None => redis[k].value.by # r
         /\ fallback[k] # None => fallback[k].value.by # r

(***************************************************************************)
(* What Redis serves is within the shelf life of its claim type, and       *)
(* younger than the low-confidence and the error limit where they apply.   *)
(* The low-confidence cap replaces the type's lifetime unconditionally     *)
(* (verify.py:356-359), so it would LENGTHEN an opinion's 30 minutes: that *)
(* it never does rests on the routing of opinions to no source at all.     *)
(***************************************************************************)
WithinLimits(e) ==
  LET v == e.value IN
  /\ e.age < TypeTTL(TypeOf(body[v.by]))
  /\ v.low => e.age < LowConfidenceTTL
  /\ v.grade = "raised" => e.age < ErrorTTL

RedisHonoursLifetimes ==
  \A k \in CacheKeys : redis[k] # None => WithinLimits(redis[k])

-----------------------------------------------------------------------------
(* Liveness. *)

\* An admitted request is answered, or dies with the process: it never hangs.
EveryRequestEnds ==
  \A r \in Requests : pc[r] = "lookup" ~> pc[r] \in {"done", "lost"}

(***************************************************************************)
(* A user whose response is ready finds the request in the history, hit or *)
(* miss, unless MongoDB or the process fails before the record is written, *)
(* or the process started without MongoDB.                                 *)
(***************************************************************************)
Audited(r) == \E h \in history : h.id = r

AnswersAreAudited ==
  \A r \in Requests :
    (pc[r] = "respond" /\ db /\ Recordable(body[r])) ~>
      (Audited(r) \/ ~mongoUp \/ ~up)

=============================================================================
