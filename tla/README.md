# A verification development of TruthLens AI

TruthLens checks answers of AI chats. A browser extension sends a question and
an answer to a FastAPI backend, which looks for evidence, asks an LLM for a
verdict, caches it, and records who asked what. This directory holds TLA+
modules of that program, TLC configurations that check them on small
instances, and theorems that TLAPS checks for every value of the constants: every
safety invariant of every passing run is one of them. `PROJECT.json` lists components, runs,
hazards, findings and theorems, and maps every definition to the lines it models.

## 1. The system

### Components, state, operations

| component | state | operations | modelled |
|---|---|---|---|
| verify route, `app/api/routes/verify.py` | locals of one coroutine per request | `verify` (7 awaits), `_write_history`; reads: `get_history`, `health_check` | `VerifyService` (not the reads) |
| two-tier cache, `app/core/cache.py` | `_redis_client`, `_fallback_cache`; the Redis keyspace | `init_cache`, `close_cache`, `get_cached`, `set_cached` | `TieredCache`, `CacheClients` |
| lifespan, `main.py` | `app.state.db` and the singletons | startup, shutdown | `VerifyService` |
| retrieval, `app/services/retrieval/*`, `app/core/http_client.py` | search results in the cache; the connection pool | `retrieve_evidence`, `search`, `get_evidence` | `Retrieval` |
| evidence aggregator | none | `aggregate`, `deduplicate`, `rank_evidence`, `trim_to_budget` | `EvidenceAggregator` |
| LLM judge, mediator | API clients | `judge`, `judge_per_claim`, `check_consensus`, `extract_triplets` (called by preprocessing) | `Judging`; their outcomes in `VerifyService` |
| preprocessing | none | `preprocess_async`, `determine_query_type` | outcomes only, in `VerifyService` |
| MongoDB access, history model | collection `user_history` | `init_mongo`, `insert`, `list_for_user` | writes, in `VerifyService`; events, in `Analytics` |
| analytics tracker and routes | collection of events | `record_async`, `get_events_from_db`, `get_stats_async`, `clear_async` | `Analytics` |
| authentication | none (stateless JWTs) | `google_login`, `decode`, `get_current_user` | as the browser sees it, in `Session`; `get_optional_user`, in `Analytics` |
| rate limiter | slowapi's counters | `_user_id_key` | see section 7 |
| content script, `chrome-extension/content.js` | overlays in the document, timers | `verifyAndShowOverlay`, `removeOverlay`, `autoClose` | `PageOverlay` |
| chat injector, `ai-chat-injector.js` | `rightPanel`, `isInjecting`, buttons, timers | `injectButtons`, `verifyText`, `createRightPanel`, `closeRightPanel` | `ChatPanel` |
| popup, `popup.js` | `chrome.storage`, the screen | sign-in, sign-out, `runVerification` | `Session` |
| dashboards, `dashboard/app.js`, `analytics-dashboard/app.js` | cards, charts and their canvases | `fetchAndRender`, `fetchOverview`, `renderStats`, `renderOverview` | `Dashboard` |
| background worker, configuration, `app/utils/cache.py` | none that matters | menu click, constants, a stub | see section 7 |

### How they interact

A request enters `verify` with a user id taken from its token. The route asks
the cache, and on a miss runs preprocessing, retrieval, mediator, judge and
per-claim scoring, stores the response, answers, and leaves two background tasks
(analytics event, history record) that write to MongoDB after the response is
out. The retrievers share the same cache functions, and so the same 1000 slots of
the fallback, and one pool of 20 connections. The cache is the only state
requests share in the backend; it is shared by all users. Three front ends call the
route: overlay, panel and popup. They share one stored token,
which each of them deletes when it sees a 401. The two dashboards poll the
statistics of the events, without a token and so for all users.

### What is hard

* **Interleaving.** Every `await` lets another request in. Lookup and store of
  a verdict, or of a search, are far apart.
* **Failure.** Redis can leave and return between any two calls, with what it
  held before; a reply can be lost after the write was done; MongoDB can be away
  at startup or later; the process can end anywhere. Every layer except
  preprocessing swallows its failures and goes on.
* **Time.** Seven lifetimes decide how long a verdict is served, and a tier that
  knows only one of them takes over during an outage. In the extension, timers
  outlive what they were set for.
* **Ordering.** Answers to the extension come in any order; a sign-in may end
  after the sign-out that followed it.

### What makes each component correct

Cache: nothing outlives its lifetime; bounded memory. Route: an answer is a
verdict on the text that was sent; the flags, records and events tell the truth; a
failure leaves nothing behind; a request ends; an answer is recorded. Retrieval: a
failure costs its own evidence only; a further credit is spent only after a term that
brought nothing; the fan-out ends. Judging: no evidence is lost or doubled before it is
cut, a claim is found where it is, and no two readers of a score contradict each other. Analytics: a clear takes what it should, the trend is the
newest, and a dashboard comes to show what is stored.
Extension: one overlay unless another slides out just then, one panel, no spinner left
without its answer, no answer without a button, no button that stays disabled, an account in the popup that is
the one charged. `PROJECT.json` lists the single hazards at their lines.

## 2. The modules

```
TieredCache      <- CacheClients   <- MCCacheClients, CacheProofs
     ^
     | INSTANCE
VerifyService    <- VerifyClaims, VerifyInvariant      <- MCVerifyService
     |  <- VerifyRefinement (INSTANCE VerifyContract)  <- MCVerifyProgress
     |  <- VerifyInvariant, VerifyRefinement            <- VerifyProofs
Retrieval        <- MCRetrieval, RetrievalProofs
EvidenceAggregator <- Judging <- MCJudging, JudgingProofs
Analytics        <- Dashboard <- MCDashboard, DashboardProofs
PageOverlay <- PageOverlayProofs;  ChatPanel <- ChatPanelProofs;  Session <- SessionProofs
```

**TieredCache** is the cache as a set of steps others use: `Found` (`get_cached`),
`PutRedis` and `PutFallback` (the two halves of `set_cached`), `InitCache`,
`DropCache`, outages and `Tick`. A read is one step, because the only await is
the Redis round trip. A write is one step, or two when SETEX was executed and its
reply lost. An entry is `[value, age, ttl]`. An entry is gone from `redis` or
`fallback` at the tick its lifetime is over, and `PutFallback` evicts
when a new key finds `FallbackSize` entries. The TTLCache evicts the oldest
entry; the model any.

**CacheClients** drives it with arbitrary callers. `since` is an observer, the
ticks since a value was last set under a key, against which the
stored ages are checked; `unsure` remembers whose reply was lost.

**VerifyService** is the route. `pc[r]` names the await request r waits at, and one
action is all the code from there to the next await:

| action | code |
|---|---|
| `Arrive` | validation and key, `verify.py:115-148` |
| `Hit`, `Miss` | `get_cached` has returned, 156-187 |
| `Preprocess`, `PreprocessFails` | 189-205 |
| `Retrieve` | 207-239; any subset of the routed sources has evidence |
| `Mediate` | `check_consensus`; decides `low` |
| `Judge`, `ScoreClaims` | 252-339; `Grades` is how the verdict came about |
| `StoreInRedis`, `StoreReplyLost`, `StoreInFallback` | 341-373, through `set_cached` |
| `Respond` | 375-435: response sent, tasks scheduled |
| `TrackAnalytics`, `WriteHistory` | the background tasks, in their order |
| `Startup`, `End` | lifespan; `End` is shutdown and crash |

A verdict is `[by, grade, low]`: the request whose run made it, whether an LLM, the
judge's own fallback or the route's stands behind it, and whether the mediator
doubted it. `final` is never reset, so that later states can be compared with what
was said. Payloads are `[question, answer]` with token sequences, so that the
concatenation in the key is the real one. Payloads are stripped already; a
question that consisted of blanks is the empty sequence.

**VerifyContract** is what callers rely on, without tiers, clocks and
processes: open, mint at most one verdict, reply once with one's own verdict or
one minted on the same text, or fail, or be abandoned; then count and audit, at
most once, in that order. **VerifyRefinement** gives the mapping: `Stage` from
`status` and `pc`, `Minted` from a `final` that is no hit, `Shown` from the moment
the 200 is sent, `Trail` and `Counted` from the collections.

**VerifyInvariant** is the inductive invariant (section 5), **VerifyClaims** a
statement of the repository that the code does not keep (section 4).

**Retrieval** is the fan-out. A task is a claim at a source; it looks up the cache
(`LookupHit` or `StartSearch`), tries terms (`Acquire` a connection, `Answer` or
`Fail`), concludes, stores and is gathered. Wikipedia asks for all terms at once,
SerpAPI for one after the other. `world` is what the sources know.
`StartSearch` may miss an entry that is there: it expired, or is in the tier not in
use. `troubled` is an observer: the keys for which some attempt failed. What is gathered,
`result[r][s]`, is a function from the positions of the claims that have evidence, so that the
order of the texts is the order of the claims.

**PageOverlay** is `content.js` on one page: `page` is the overlays in document
order, `timers` the pending `setTimeout` callbacks with their remaining time.
`getElementById` is `Head(page)`. The user may start a call at any moment, over a spinner, a result
or an error, and during a slide-out, as `content.js:24-29` and 41-42 let them. `hasty` is an
observer: the overlays that were shown while another was sliding out. **ChatPanel** is `ai-chat-injector.js`: `button[m]`
is the length of the text a button was created with, `target[m]` the panel whose
content a call captured, `closing` the pending slide-outs, and delays are
arbitrary. That the end of an answer adds an element (`Complete`) is assumed of the chat page: the
observer is told of nothing else. **Session** is the stored token and everything that writes it: sign-in
and sign-out handlers, 401s in popup and tabs, a verification that finds no token and clears
what is stored by then (`Cleared`), the expiry of tokens, and a popup that can be closed at any
moment.

**EvidenceAggregator** is the text functions as operators. A text is a sequence of
characters of an `Alphabet` (in the instance letters of both cases, stop, newline, blank, a
digit, a boilerplate phrase), positions are Python's, and the lengths 50, 500, 1000 and
the budget are CONSTANTS. Lists are built by position: `InOrder` gives the n-th member of a set
of positions by its rank, and `Concat` finds the n-th element of several lists from the lengths
before it (`Extent`). A fold or `SelectSeq` would say the same and could not be reasoned about.

**Judging** is the second half of a pipeline run, from the evidence of the sources to the response:

| action | code |
|---|---|
| `AggregateEvidence` | `aggregator.aggregate`, `verify.py:229-238` |
| `Mediate` | `check_consensus` and what the route does with it, 236-250 |
| `Judge` | `judge`, `_parse_judge_response`, `_heuristic_judge` |
| `JudgePerClaim` | `judge_per_claim`: clamping, verdicts, offsets |
| `Respond` | `VerifyResponse.from_judge_response` |

The sources' texts, the answer and the replies are a `case` chosen at the start. A reply
that cannot be used, for any reason, is `Unusable`. `VerifyService` takes this half
as its steps `Mediate`, `Judge` and `ScoreClaims` with any outcome; `Judging` says which
outcomes there are. They are two modules and not one because what users are told about each
other's requests does not depend on the texts.

**Analytics** is the store of events: `answered` is the order of their timestamps, `inserted`
that of their insertion, and the two differ because background tasks overlap. `events` is the set
of documents in the collection. A read returns those it matches, cut by its limit at one
end of its sort (`SortKey`, `FirstOf`, `LastOf`); what the limit leaves is all that its
readers depend on. `Nobody` is the caller without a valid token, who speaks for everyone. `gone`
is an observer. **Dashboard** adds one of the two pages: `fetch` holds overlapping requests
whose answers come in any order, `drawn` what a chart shows, `canvases` the charts that
still have something to draw on. Where the outcome depends on Chart.js (a chart with data and
no canvas), the rendering may go on or end.

Definitions marked "Mutant" are wrong on purpose. No specification uses them; putting
one in the place of the definition that follows it must break the property it is
listed with in `PROJECT.json`, which shows that the property depends on that code.

## 3. The runs

Run one with `tlc -workers 2 -config X.cfg M` (module and cfg in `PROJECT.json`).

| run | instance | what it shows |
|---|---|---|
| `cache` | 2 keys, 2 values, lifetimes 1 and 2, fallback lifetime 1 and size 1 | `NothingOverdue`, `FallbackBounded`, `EverythingExpires`. Two keys for one slot make every write an eviction; a lifetime on either side of the fallback's shows that the tiers differ. |
| `verify_safety` | 2 requests, 2 users, 2 payloads of two types with the same answer, ranks 1-4 for the lifetimes, fallback size 1 | the five agreement properties and `RedisHonoursLifetimes`. Two requests are what a race, a hit and a re-minting need; the opinion is there for the low-confidence cap. |
| `verify_progress` | 2 requests, 1 user, 1 payload | `EveryRequestEnds`, `AnswersAreAudited`, and the refinement of `VerifyContract`. |
| `retrieval` | r1: claim a at Wikipedia and SerpAPI; r2: claims b, a at SerpAPI; 2 terms; 2 connections; 2 worlds | `FailuresStayLocal`, `CreditsAreSpared`, `EveryRetrievalEnds`. Timeouts and errors are attempts of a kind of their own (`failed`), apart from terms that found nothing. A shared claim, a key two tasks race for, a claim two sources cache, and fewer connections than attempts. |
| `overlay` | 2 calls at any moment, delays 2, 3, 5 | `StraysAreHasty`, `SpinnersAreAnswered`, `PageClears`. Retries over results and errors, overlapping calls, answers within a slide-out, stale timers: two calls show up to four overlays, and a slide-out lasts two ticks so that things happen in it. |
| `chat_panel` | 2 answers of up to 3 units, minimum 2, 3 panels, 2 pending slide-outs | `NoAnswerForgotten`, `VerdictsAreOfWholeAnswers`, `OnePanel`, `SpinnersAreAwaited`, `ButtonsComeBack`, on platforms that wait and that do not. |
| `session` | 2 accounts, 2 tabs, 2 sign-in handlers, 3 tokens | `NeverStuckSigningIn`, `AccountShownIsCharged`. Two handlers run at once when a 401 re-enables the button under the first. |
| `dashboard` | 3 runs of 2 users, one event of an earlier process, one without sources; limit 2, trend 1; 2 fetches; one restart | `TrendIsNewestWithinLimit`, `ClearsAreExact`, `DashboardCatchesUp`. Three events exceed the limit; two in flight arrive in either order; a fetch can be overtaken by another. |
| `judging` | budget of 4 characters; 1 or 2 sources with up to 3 snippets; every reply around the thresholds; answers of up to 4 characters, claims of up to 4 | `EvidenceKeptOnce`, `BudgetKeepsTheBest`, `SpansShowTheirSource`, `VerdictsNeverClash`. Snippets within snippets within snippets, texts at, below and beyond the limit, scores on either side of every threshold, the panel's included; claims shorter and longer than what is looked for. |

Bounds: `Horizon` stops the observer `since` past the longest lifetime, where every
age is the same; `MaxTokens` ends the minting of tokens; `MaxClosing` bounds
clicks on a closing panel (a third pending slide-out does what a second does: it
takes down the panel of its moment); `Calls`, `Requests` and `Messages`
bound the behaviours. The cases of `judging` come in three families (texts, replies, claims) that
vary one concern each, since no operator mixes them. `PanelAssumption` leaves an unused identity whenever one is
needed. Lifetimes are ranks: only their order is used. `verify_safety` uses symmetry
in requests and users; the runs with liveness use none. `verify_safety` leaves out the judge's own
neutral 50: the safety properties treat it as any other verdict, the violation run
`error_fallbacks` needs it, and the theorems cover every choice.

Deadlock is checked, except where the system may stop: a chat page whose answers
are all too short for a button, a retrieval that is over, and a response that is built.

### Fairness

* `VerifyService`: weak fairness of `Advance(r)`, because every await of the handler
  ends by a timeout of its client (httpx 10 s, Redis 3 s, MongoDB 5 s, the LLM
  clients' own) and asyncio runs what is ready; and of `Startup`, because
  docker-compose restarts the process. None of arrivals, outages or time.
* `CacheClients`: weak fairness of `Pass`. Time passes.
* `Retrieval`: weak fairness of any progress at all; the model has no cycle, so a
  fairness per task is not needed.
* `PageOverlay`, `ChatPanel`: the browser answers storage calls and ends a fetch, and
  runs timers. Nothing is assumed of the user or of the AI.
* `Dashboard`: the page's timer fires, the server answers or fails, the browser delivers.
  Users, background tasks and MongoDB owe nothing; `DashboardCatchesUp` is about
  behaviours in which the store can be read from some point on.
* `Session` and `Judging` have no liveness property.

## 4. Where the code and its documentation differ

TLC finds the documented statement violated in these runs:

* `error_fallbacks`: `verify.py:343` promises that error fallbacks are cached for 60 s.
  `LLMJudge.judge` catches LLM failures itself (`llm_judge.py:238-242`), so the
  route stores its neutral 50 like a verdict, for up to seven days.
* `dead_chart`: the overview of `analytics-dashboard/` is "Real-time pipeline analytics"
  (`app.js:34`). A chart that is drawn without data overwrites its own canvas (148, 230,
  270); when data come there is nothing to draw on until the page is reloaded. A page
  opened on a fresh database, or open during a clear, loses its charts.
* `evidence_budget`: `evidence_aggregator.py:20` and the backend summary promise a token
  budget. When two sources answer, the route replaces the aggregated evidence by what
  the mediator makes of the raw texts (`verify.py:245`), also when there is no mediator.

These follow from the modelled code too and have no run of their own:

* `cache.py:203` documents `ttl` as an override; `set_cached` does not pass it to the
  fallback, so during an outage an error lives as long as a verdict.
* `models/history.py:41` says a record has the `request_id` of the response; on a cache
  hit the response keeps the id it was stored with (`verify.py:161`, 171).
* `verify.py:164` says the audit trail records every request; a question of blanks
  passes validation, is stripped to nothing and is refused by the history model after
  it was answered. `AnswersAreAudited` excepts it.
* `content.js:404` "Remove existing overlay": `getElementById` finds an overlay that is
  already sliding out before the one behind it, which is then spared. A retry over a result or
  an error, answered within 200 ms (no token, a fast 401, a cache hit), leaves its spinner beside its
  answer. `PageOverlay` has these steps. What still holds is `StraysAreHasty` (one overlay, and one
  more for each shown during a slide-out) and `SpinnersAreAnswered`; `PageClears` excepts such pages.
* `serp_retriever.py:9-12` goes on to the next term only if the current one "genuinely returns
  no results", because each call costs a credit; the loop also goes on after a timeout and after
  any error (134-139, where a log line says so). `CreditsAreSpared` tells the two apart and allows
  both.
* `models/response.py:41-46` calls `end_index` an offset in the original answer. A claim without a
  source sentence is looked for by its first 50 characters, and `end_index` is the place found plus
  the length of the whole claim (`llm_judge.py:391-395`), which can lie beyond the answer.
  `SpansShowTheirSource` says when it cannot. A claim found by its first 30 characters gets the
  first sentence that has them, which may be that of another claim.
* `models/response.py:75` describes the flag as "True if score < 60"; the heuristic's neutral 50
  has `False` (`llm_judge.py:206`), a 50 of the LLM has `True` (193).
* `models/response.py:84` puts "likely accurate" at 75; the code has 70. The panel's class agrees
  with the docstring (75 and 40, `ai-chat-injector.js:689`), and its legend has 75 and 50 (760-762):
  72 is "Likely Accurate" and of mixed reliability on one screen, 45 is uncertain and of low
  reliability. `VerdictsNeverClash` names these bands and excludes every other disagreement; its
  mutant shows what 75 in the response would do.
* The statistics read the oldest 10000 events, so past that number the "last 10 events"
  (`tracker.py:164`) are not the last. `TrendIsNewestWithinLimit` is about fewer.

## 5. What is proved

TLAPS checks these for all values of the constants (any sets of requests, users,
payloads, keys and values; any lifetimes and sizes) under the `ASSUME`s of the modules:

* `CacheProofs`: `TypeOK`, `NothingOverdue` and `FallbackBounded` of `CacheClients`.
* `VerifyProofs`: `TypeOK`, `AnswersMatchTheText`, `HitFlagTruthful`,
  `AuditTrailFaithful`, `EventsCountRuns`, `FailuresLeaveNoTrace` and
  `RedisHonoursLifetimes` of `VerifyService`, and `Spec => ImplementsContract`.
* `ChatPanelProofs`: `TypeOK`, `NoAnswerForgotten`, `VerdictsAreOfWholeAnswers`, `OnePanel` and
  `SpinnersAreAwaited` of `ChatPanel`, all its safety.
* `SessionProofs`: `TypeOK`, `NeverStuckSigningIn` and `AccountShownIsCharged` of `Session`.
* `RetrievalProofs`: `TypeOK`, `CreditsAreSpared`, `FailuresStayLocal` of `Retrieval`, and
  `OutcomesAreKnown`, the part of the last about single tasks.
* `JudgingProofs`: `TypeOK`, `VerdictsNeverClash`, `EvidenceKeptOnce`, `BudgetKeepsTheBest` and
  `SpansShowTheirSource` of `Judging`, all its invariants.
* `PageOverlayProofs`: `TypeOK`, `StraysAreHasty` and `SpinnersAreAnswered` of `PageOverlay`, all
  its safety, for any user.
* `DashboardProofs`: `TypeOK` of `Dashboard`, and `TrendIsNewestWithinLimit` and `ClearsAreExact`
  of the `Analytics` it extends.

Assumptions: lifetimes are positive; the error lifetime is the shortest, then
the opinion's, then the low-confidence one (60 s, 30 min, 1 h); `None` is none of the
values it is compared with; `Horizon` is no shorter than any lifetime; a spare panel and a
fresh token exist whenever one is needed; a reply that is not `Unusable` has an integer
score or none; the alphabet has the white space and the stops the code looks for, lower case stays
in it, and the boilerplate phrases are finitely many; `HeadLen` is at most `DirectLen` (30 and
50), `TrendLen` at most `MaxEvents` (10 and 10000), an overlay slides out sooner than it
closes (200 ms against 8 s and 20 s).

*The cache.* `NothingOverdue` speaks of `since`, which no action reads, so it is
not inductive. `CacheInv` adds that the age of an entry bounds the time since
its value was last set (`Young`): a write resets both, time moves both, and an
overwritten value keeps its `since` while its entry is gone. Together with "an entry
present has time left" this gives the property. The bound of the fallback needs
that its set of keys is finite, which is part of the invariant since `Keys` need
not be.

*The service.* The properties relate responses, records and entries of different
requests; `IInv` ties them to control. `Control` says which locals are
set where a coroutine stands, and that only a claim type with sources reaches the
mediator. `Origin` says every response carries a verdict that some request on the
same text minted. `Tiers` says the same of cached verdicts, with the lifetime
they were stored with. `Logs` says a background task writes its own row and
only after the response. The one idea behind all of it: a `final` that carries its own
verdict never changes, so whoever refers to it stays right. `RedisHonoursLifetimes`
rests on `Control`: the unconditional low-confidence assignment in
`verify.py:356-359` would prolong an opinion, and does not because opinions are
routed to no source.

*The refinement.* Under `IInv`, each action is mapped to a step of the contract
or a stutter: `Judge` to `Mint`, `Respond` to `Reply` by the minting request,
`End` to `Abandon`, the background tasks to `Count` and `Audit`, the rest to stutters.

*The chat panel.* `SpinnersAreAwaited` is not inductive: a spinner could be left behind if its
call wrote to another panel. `SpinnersAreCaptured` says the call it belongs to has
captured that very panel. `CallsHaveButtons` and `ShownHasContent` tie calls to buttons and
panels to what they display. `WholeAnswers` says buttons and results are of answers that are complete; a
complete answer does not grow.

*The session.* The conjunction of the properties with the types is inductive: whatever
stores a token shows the account it was minted for, and whatever else touches the storage
empties it.

*Retrieval.* A sequential source has at most one term under way, and only after those before it
found nothing or failed (`TermsInTurn`, inductive with the types of the attempts). An attempt that
found nothing, or something, found what there is, and a failed one has left its key among the
`troubled` (`AttemptsAreTrue`); `CreditsAreSpared` follows from the two. For `OutcomesAreKnown` the
invariant adds that so did whoever filled the cache (`CacheIsTrue`), and that a term
left out was left out for an earlier one that was found or is under way
(`IdleTermsAreSpared`); the first term found is found by well-founded induction on the
terms. `FailuresStayLocal` adds `GatheredIsFinal`: once a request has its evidence its tasks
are done, and the evidence is still what is put together from their outcomes. Neither a task that ends later,
nor another request, can change it.

*Judging.* `ScoredInv` ties every verdict and flag to its score; clamping makes the
score one of 0..100 whatever integer the model wrote, and the neutral 50 is the only score
without the flag of its value (`FlagOf`); the thresholds are compared there. The other three invariants of the runs say little about steps: `SpanInv` and
`EvidenceInv` say that what is shown is what `LocateClaim` and `Aggregate` returned, and that the
mediator is met by more than one item only. The work is in what those operators return, for texts
of any length over any alphabet:

* `MinFacts` is the one induction: a set of numbers has a least member. `RankIsBijection` gives
  the members of a finite strict order the ranks 0, 1, ...; with it `InOrder` and `Sorted` are
  permutations, and `ExtentFacts` and `ConcatFacts` say where a list lies in a concatenation.
* *Nothing is lost in deduplication* (`SurvivorAround`). A dropped snippet is equal to an earlier
  one or lies in a longer one, and that may be dropped in turn. Among all snippets around it take
  the longest, and of those the first: nothing drops that one. `SurvivorsApart` says that no
  survivor lies in another (`InTransitive`, `InShorter`), from which a second pass keeps all.
* *A claim is where it is shown* (`LocateFacts`). A sentence is a piece of the answer
  (`PiecesFacts`), so it is found in it, and the slice at the place found is the sentence
  (`FoundSlice`). An answer that has the claim has its first 50 characters (`OpeningFacts`); only these
  were looked for, and so only these are known to lie in it.
* *The budget costs the best snippet nothing* (`CutFacts`, `TrimFacts`). Snippets are stripped and
  joined by newlines, so a first snippet below the limit is followed by a newline below the limit,
  and the last newline or stop is no earlier. What is cut begins and ends the snippet in ink,
  so stripping it leaves the snippet whole (`StripKeepsStart`). The snippet at the front is the best
  by `RankFacts`.

*The page.* The document is a queue: `removeOverlay` only ever starts the slide-out of the first
overlay, so overlays leave in the order they came, whatever timer or click asks for it. `PageInv`
has four parts. `TypeInv` adds to the types that an overlay in the document, or one a callback
refers to, was shown by a call that got that far (`ShownInOrder`), so that none is appended twice.
`FirstLeaves` says that only the first overlay slides out. `AnswersBehind` strengthens
`SpinnersAreAnswered`: the answer of a call stands behind its spinner and so does not leave before
it. `StraysInv` is `StraysAreHasty` and the finiteness of `hasty`: showing an overlay adds one that
stays and, unless the first is leaving already, sets off the first (`ReplacingKeepsTheCount`); if it
is leaving, the new overlay is hasty. All steps of the module are one of three kinds (`StepKinds`):
one shows an overlay, one takes an overlay out, and the rest leave the document as it is.

*Analytics.* `StoreInv` says that the collection is what was inserted less what was cleared since,
that nothing is inserted twice because a task that is done never inserts again, and that every
document has one timestamp. Distinct timestamps rank the documents (`RankIsBijection`), so the
first or last n of a list are n of them, or all of them, and come before, or after, the rest. Within the
limit the two sorts see the same events, and the trend is the newest. `PageTypes` carries the
bounds of the reads to the answers under way and to what is drawn.

## 6. What is only model-checked

Liveness everywhere (`EverythingExpires`, `EveryRequestEnds`, `AnswersAreAudited`,
`PageClears`, `ButtonsComeBack`, `EveryRetrievalEnds`, `DashboardCatchesUp`): TLAPS has no
proof rules for fairness here. Every invariant of a passing run is proved. The three statements
that `error_fallbacks`, `dead_chart` and `evidence_budget` refute are false, and a counterexample is
what TLC gives. What the proofs do not reach either: that the operators on texts are those of the
code; the mapped lines and the mutants are there for that.

## 7. What is not modelled

* Text outside `EvidenceAggregator` and `Judging`: prompts, the regular expressions that find the
  claim type, claims and terms, snippets. There a verdict, a claim or a term is an identity.
* `lower()` of some letters is longer than the letter: offsets found in lower case are then
  off in the answer. The alphabet of `Judging` has no such letter.
* SHA-256 and JSON: taken as injective and lossless.
* `GET /api/history`: it pages over a collection that only grows at the front of the order,
  so a page can repeat a record and never skips one; composing it with the route multiplies the
  states for a property that follows from one line of arithmetic. `/health`.
* The preprocessing and pipeline statistics (sums over the events `EventsFor` returns) and
  the tabs that show them; Live Verify on both dashboards, which posts without a token and is
  always refused.
* The rate limiter: slowapi keeps the windows, the repository has a pure key function.
* `utils/cache.py`, a stub nothing imports; configuration and logging.
* Redis losing a write in its last second also drops the value that write had
  replaced; a replay of the log would bring the older value back.
* Several backend processes on one Redis. `EvictedByRetriever` is the only
  interference with a process's own fallback, and Redis is shared through restarts.
* Which verdict a user sees last: the answer of an older call may replace that of a newer one,
  in the overlay and in the panel. The models have these steps; the code orders neither, and no
  property does.
* A chat page on which the end of an answer adds no element: the observer would not be told, and a
  platform whose selector waits would get its button with the next change of the page.
* A cached entry that is no `VerifyResponse`: `VerifyResponse(**cached_response)` would end in a
  500 outside the route's own failure path. The route only reads what it dumped from a
  `VerifyResponse` itself; an entry of another release is left out.
* `SHOW_RESULT`, which `content.js` handles and nothing sends.
* A late 401 that removes a newer token: `Session` has that step, and no property
  forbids it since the code compares nothing.
* In `Retrieval`, clients without a shared pool and a missing API key (the search then
  returns at once and caches nothing).

## 8. What is left

The order was that of importance: what users are told, what is recorded about them, where
they see it, how it was judged, what is counted. Of the plan these are left:

1. A composition of `Session` with the route: a record is filed under the account
   that was shown when the verification was started.
2. The extraction of claims and search terms as operators over the alphabet of
   `EvidenceAggregator`.
