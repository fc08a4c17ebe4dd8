------------------------------ MODULE Retrieval ------------------------------
(***************************************************************************)
(* Retrieval of evidence: SourceRouter.retrieve_evidence fans out one task *)
(* per claim and source (app/services/retrieval/source_router.py), and the *)
(* retrievers share one pool of connections (app/core/http_client.py) and, *)
(* two of them, the cache.  Several requests retrieve at the same time.    *)
(*                                                                         *)
(* A search tries terms, from the claim itself to broader ones.  Wikipedia *)
(* asks for all of them at once, SerpAPI for one after the other, and the  *)
(* site-restricted sources have one.  An attempt waits for a connection,   *)
(* holds it, and ends; the two calls of a Wikipedia attempt hold one       *)
(* connection at a time and are one attempt here.                          *)
(***************************************************************************)
EXTENDS Naturals, SequencesExt

CONSTANTS
  Requests,       \* runs of retrieve_evidence
  ClaimsOf,       \* ClaimsOf[r]: the claims of request r, in order
  Sources,        \* the names _retrieve_from_source knows
  SourcesOf,      \* SourcesOf[r]: the sources the query type of r routes to
  Terms,          \* Terms[s]: how many terms a search of s tries
  Worlds,         \* what the sources know, see World
  PoolSize,       \* max_connections
  None

Claims == UNION {ToSet(ClaimsOf[r]) : r \in Requests}
Keys == Sources \X Claims

(***************************************************************************)
(* What a source has on the k-th term of a claim: "text", results without  *)
(* a snippet to use ("bare"), or nothing.                                  *)
(***************************************************************************)
World == [Keys -> Seq({"text", "bare", "none"})]

ASSUME RetrievalAssumption ==
  /\ ClaimsOf \in [Requests -> Seq(Claims)]
  /\ SourcesOf \in [Requests -> SUBSET Sources]
  /\ Terms \in [Sources -> Nat \ {0}]
  /\ PoolSize \in Nat \ {0}
  /\ \A w \in Worlds : w \in World /\ \A k \in Keys : Len(w[k]) = Terms[k[1]]

\* A task is one claim of a request at one source.
Tasks == UNION {{r} \X (1..Len(ClaimsOf[r])) \X SourcesOf[r] : r \in Requests}
Of(r) == {t \in Tasks : t[1] = r}
Key(t) == <<t[3], ClaimsOf[t[1]][t[2]]>>
TermsOf(t) == 1..Terms[t[3]]

Caching == {"wikipedia", "serpapi"}
Concurrent == {"wikipedia"}

VARIABLES
  world,          \* what the sources know, in this behaviour
  stage,          \* stage[t]: where task t is
  attempt,        \* attempt[t][k]: how far term k of task t is
  cached,         \* cached[k]: a search result under key k, or None
  outcome,        \* outcome[t]: the term whose text t returned, or None
  result,         \* result[r]: evidence per source, or None before gather
  troubled        \* observer: keys an attempt has failed for

vars == <<world, stage, attempt, cached, outcome, result, troubled>>

(***************************************************************************)
(* The dict a search returns: the number of the term that was found, or 0  *)
(* for found = False.  A dict is true either way: both are cache hits.     *)
(***************************************************************************)
Searches(k) == 0..Terms[k[1]]

(***************************************************************************)
(* The texts of one source: at the position of a claim the term whose text *)
(* it got, nothing where it got none.  They are joined in this order.      *)
(***************************************************************************)
Texts(r, s) == UNION {[got -> 1..Terms[s]] : got \in SUBSET (1..Len(ClaimsOf[r]))}

\* Every variable has its type.
TypeOK ==
  /\ world \in Worlds
  /\ stage \in [Tasks -> {"lookup", "search", "store", "done"}]
  /\ DOMAIN attempt = Tasks
  /\ \A t \in Tasks : attempt[t] \in
       [TermsOf(t) -> {"idle", "wait", "open", "found", "none", "failed"}]
  /\ DOMAIN cached = Keys
  /\ \A k \in Keys : cached[k] \in Searches(k) \cup {None}
  /\ DOMAIN outcome = Tasks
  /\ \A t \in Tasks : outcome[t] \in TermsOf(t) \cup {None}
  /\ DOMAIN result = Requests
  /\ \A r \in Requests : result[r] # None =>
       DOMAIN result[r] = SourcesOf[r] /\ \A s \in SourcesOf[r] : result[r][s] \in Texts(r, s)
  /\ troubled \subseteq Keys

Init ==
  /\ world \in Worlds
  /\ stage = [t \in Tasks |-> "lookup"]
  /\ attempt = [t \in Tasks |-> [k \in TermsOf(t) |-> "idle"]]
  /\ cached = [k \in Keys |-> None]
  /\ outcome = [t \in Tasks |-> None]
  /\ result = [r \in Requests |-> None]
  /\ troubled = {}

-----------------------------------------------------------------------------
(* The cache in front of a search. *)

\* Mutant: get_evidence does not look at found.
TextUnchecked(t, n) == n

\* get_evidence: the text of the term that was found, if it has one.
TextOf(t, n) == IF n # 0 /\ world[Key(t)][n] = "text" THEN n ELSE None

\* Mutant: both retrievers cache under the bare claim.
SharedKey(t) == <<CHOOSE s \in Sources : s \in Caching, Key(t)[2]>>

\* wiki_<claim> or serp_<claim>.
CacheKey(t) == Key(t)

LookupHit(t) ==
  /\ stage[t] = "lookup"
  /\ t[3] \in Caching
  /\ cached[CacheKey(t)] # None
  /\ stage' = [stage EXCEPT ![t] = "done"]
  /\ outcome' = [outcome EXCEPT ![t] = TextOf(t, cached[CacheKey(t)])]
  /\ UNCHANGED <<world, attempt, cached, result, troubled>>

(***************************************************************************)
(* No cache, or a miss: there is no entry, it expired or was evicted, or   *)
(* it is in the tier that is not in use now and may be found again later.  *)
(***************************************************************************)
StartSearch(t) ==
  /\ stage[t] = "lookup"
  /\ stage' = [stage EXCEPT ![t] = "search"]
  /\ attempt' = [attempt EXCEPT ![t] = [k \in TermsOf(t) |->
                   IF k = 1 \/ t[3] \in Concurrent THEN "wait" ELSE "idle"]]
  /\ UNCHANGED <<world, cached, outcome, result, troubled>>

-----------------------------------------------------------------------------
(* Attempts, and the pool. *)

Attempts == UNION {{t} \X TermsOf(t) : t \in Tasks}
Held == {a \in Attempts : attempt[a[1]][a[2]] = "open"}

Acquire(t, k) ==
  /\ attempt[t][k] = "wait"
  /\ Cardinality(Held) < PoolSize
  /\ attempt' = [attempt EXCEPT ![t][k] = "open"]
  /\ UNCHANGED <<world, stage, cached, outcome, result, troubled>>

\* Mutant: no return on the first term found.
OverGoesOn(t, k, how) ==
  attempt' = [attempt EXCEPT ![t] = [j \in TermsOf(t) |->
    CASE j = k -> how
      [] j = k + 1 /\ @[j] = "idle" -> "wait"
      [] OTHER -> @[j]]]

\* The attempt is over; a sequential search that found nothing goes on to its
\* next term, whether there is nothing or the attempt failed.
Over(t, k, how) ==
  attempt' = [attempt EXCEPT ![t] = [j \in TermsOf(t) |->
    CASE j = k -> how
      [] j = k + 1 /\ how # "found" /\ @[j] = "idle" -> "wait"
      [] OTHER -> @[j]]]

Answer(t, k) ==
  /\ attempt[t][k] = "open"
  /\ Over(t, k, IF world[Key(t)][k] = "none" THEN "none" ELSE "found")
  /\ UNCHANGED <<world, stage, cached, outcome, result, troubled>>

(***************************************************************************)
(* No connection within the pool's second, a timeout, a transport error,   *)
(* an answer that cannot be read, or an error the source answers instead   *)
(* of results: the search goes on as if there were nothing on this term.   *)
(***************************************************************************)
Fail(t, k) ==
  /\ \/ attempt[t][k] = "open"
     \/ attempt[t][k] = "wait" /\ Cardinality(Held) >= PoolSize
  /\ Over(t, k, "failed")
  /\ troubled' = troubled \cup {Key(t)}
  /\ UNCHANGED <<world, stage, cached, outcome, result>>

-----------------------------------------------------------------------------
(* The end of a search, and of the fan-out. *)

\* Mutant: a sequential search waits for the terms it never came to, too.
ConcludedAll(t) == \A k \in TermsOf(t) : attempt[t][k] \in {"found", "none", "failed"}

(***************************************************************************)
(* gather waits for every concurrent term; a sequential search stops at    *)
(* the first term found.                                                   *)
(***************************************************************************)
Concluded(t) == \A k \in TermsOf(t) : attempt[t][k] \notin {"wait", "open"}

FirstFound(t) ==
  LET found == {k \in TermsOf(t) : attempt[t][k] = "found"} IN
  IF found = {} THEN 0 ELSE CHOOSE k \in found : \A j \in found : k <= j

Conclude(t) ==
  /\ stage[t] = "search"
  /\ Concluded(t)
  /\ outcome' = [outcome EXCEPT ![t] = TextOf(t, FirstFound(t))]
  /\ stage' = [stage EXCEPT ![t] = IF t[3] \in Caching THEN "store" ELSE "done"]
  /\ UNCHANGED <<world, attempt, cached, result, troubled>>

\* Cached regardless of hit or miss, over whatever is cached by now.
StoreSearch(t) ==
  /\ stage[t] = "store"
  /\ cached' = [cached EXCEPT ![CacheKey(t)] = FirstFound(t)]
  /\ stage' = [stage EXCEPT ![t] = "done"]
  /\ UNCHANGED <<world, attempt, outcome, result, troubled>>

\* What the tasks of r came out with, the ones without a text left out.
Recombined(r) ==
  [s \in SourcesOf[r] |->
     [i \in {n \in 1..Len(ClaimsOf[r]) : outcome[<<r, n, s>>] # None} |-> outcome[<<r, i, s>>]]]

(***************************************************************************)
(* gather returns when every task has, with the results in task order:     *)
(* whichever task was first, a text stays with the position of its claim.  *)
(***************************************************************************)
Gather(r) ==
  /\ result[r] = None
  /\ \A t \in Of(r) : stage[t] = "done"
  /\ result' = [result EXCEPT ![r] = Recombined(r)]
  /\ UNCHANGED <<world, stage, attempt, cached, outcome, troubled>>

Work(t) ==
  \/ LookupHit(t) \/ StartSearch(t) \/ Conclude(t) \/ StoreSearch(t)
  \/ \E k \in TermsOf(t) : Acquire(t, k) \/ Answer(t, k) \/ Fail(t, k)

Next ==
  \/ \E t \in Tasks : Work(t)
  \/ \E r \in Requests : Gather(r)

(***************************************************************************)
(* The event loop never idles while something can go on, and httpx ends    *)
(* every wait, for the pool as for an answer, by a timeout.                *)
(***************************************************************************)
Progress == (\E t \in Tasks : Work(t)) \/ (\E r \in Requests : Gather(r))

Spec == Init /\ [][Next]_vars /\ WF_vars(Progress)

-----------------------------------------------------------------------------
(***************************************************************************)
(* What a source knows of a claim: the text of the first term that has     *)
(* results, if that one has a text.                                        *)
(***************************************************************************)
Known(k) ==
  LET terms == {n \in 1..Len(world[k]) : world[k][n] # "none"} IN
  IF terms = {} THEN None
  ELSE LET n == CHOOSE m \in terms : \A j \in terms : m <= j IN
       IF world[k][n] = "text" THEN n ELSE None

(***************************************************************************)
(* README.md:16 "Retrieval failures ... degrade gracefully": a failure     *)
(* costs only the claim and source it happened to.  At every other one a   *)
(* request gets exactly what the source knows, at the position of its      *)
(* claim, whichever tasks, terms and requests it raced with and whoever    *)
(* filled the cache.                                                       *)
(***************************************************************************)
FailuresStayLocal ==
  \A r \in Requests : result[r] # None =>
    \A s \in SourcesOf[r], i \in 1..Len(ClaimsOf[r]) :
      LET key == <<s, ClaimsOf[r][i]>> IN
      key \notin troubled =>
        /\ i \in DOMAIN result[r][s] <=> Known(key) # None
        /\ i \in DOMAIN result[r][s] => result[r][s][i] = Known(key)

(***************************************************************************)
(* serp_retriever.py:9-12: each SerpAPI call costs a credit, so the next   *)
(* term is tried "only ... if the current one genuinely returns no         *)
(* results".  What the code keeps of this: a search never has two calls    *)
(* open, makes none once a term was found, and every call after the first  *)
(* is owed to an earlier term on which the source really has nothing, or,  *)
(* beyond what the comment says (134-139), to an attempt that failed.      *)
(***************************************************************************)
CreditsAreSpared ==
  \A t \in Tasks : t[3] \notin Concurrent =>
    \A j, k \in TermsOf(t) : j < k /\ attempt[t][k] # "idle" =>
      \/ attempt[t][j] = "none" /\ world[Key(t)][j] = "none"
      \/ attempt[t][j] = "failed" /\ Key(t) \in troubled

\* Every fan-out is gathered, however small the pool they all compete for.
EveryRetrievalEnds == \A r \in Requests : <>(result[r] # None)
=============================================================================
