--------------------------- MODULE RetrievalProofs ---------------------------
(***************************************************************************)
(* Retrieval for any requests, claims, sources, terms and pool: SerpAPI is *)
(* asked one term at a time, a task whose claim and source saw no failure  *)
(* ends with exactly what the source knows, and so does the evidence that  *)
(* gather puts together from the tasks.                                    *)
(***************************************************************************)
EXTENDS Retrieval, WellFoundedInduction, TLAPS

\* attempt[t] has one state for every term of the task.
AttemptsTyped ==
  /\ DOMAIN attempt = Tasks
  /\ \A t \in Tasks : attempt[t] \in
       [TermsOf(t) -> {"idle", "wait", "open", "found", "none", "failed"}]

\* A sequential search comes to a term when it has nothing from the ones before.
TermsInTurn ==
  \A t \in Tasks : t[3] \notin Concurrent =>
    \A j, k \in TermsOf(t) : j < k /\ attempt[t][k] # "idle" =>
      attempt[t][j] \in {"none", "failed"}

CreditsInv == AttemptsTyped /\ TermsInTurn

LEMMA InitCredits == Init => CreditsInv
BY DEF Init, CreditsInv, AttemptsTyped, TermsInTurn

LEMMA StartTyped ==
  ASSUME AttemptsTyped, NEW t \in Tasks, StartSearch(t)
  PROVE  /\ AttemptsTyped'
         /\ \A k \in TermsOf(t) :
              attempt'[t][k] = IF k = 1 \/ t[3] \in Concurrent THEN "wait" ELSE "idle"
         /\ \A u \in Tasks \ {t} : attempt'[u] = attempt[u]
BY DEF AttemptsTyped, StartSearch

LEMMA AcquireTyped ==
  ASSUME AttemptsTyped, NEW t \in Tasks, NEW k \in TermsOf(t), Acquire(t, k)
  PROVE  /\ AttemptsTyped'
         /\ attempt'[t][k] = "open"
         /\ \A j \in TermsOf(t) \ {k} : attempt'[t][j] = attempt[t][j]
         /\ \A u \in Tasks \ {t} : attempt'[u] = attempt[u]
BY DEF AttemptsTyped, Acquire

LEMMA OverTyped ==
  ASSUME AttemptsTyped, NEW t \in Tasks, NEW k \in TermsOf(t),
         NEW how \in {"found", "none", "failed"},
         Over(t, k, how)
  PROVE  /\ AttemptsTyped'
         /\ attempt'[t][k] = how
         /\ \A j \in TermsOf(t) \ {k} :
              attempt'[t][j] = IF j = k + 1 /\ how # "found" /\ attempt[t][j] = "idle"
                               THEN "wait" ELSE attempt[t][j]
         /\ \A u \in Tasks \ {t} : attempt'[u] = attempt[u]
<1>1. attempt' = [attempt EXCEPT ![t] = [j \in TermsOf(t) |->
                    CASE j = k -> how
                      [] j = k + 1 /\ how # "found" /\ attempt[t][j] = "idle" -> "wait"
                      [] OTHER -> attempt[t][j]]]
  BY DEF Over
<1>2. \A j \in TermsOf(t) : j = k => ~(j = k + 1)
  BY DEF TermsOf
<1>3. /\ attempt'[t][k] = how
      /\ \A j \in TermsOf(t) \ {k} :
           attempt'[t][j] = IF j = k + 1 /\ how # "found" /\ attempt[t][j] = "idle"
                            THEN "wait" ELSE attempt[t][j]
  BY <1>1, <1>2 DEF AttemptsTyped
<1>4. /\ DOMAIN attempt' = Tasks
      /\ \A u \in Tasks \ {t} : attempt'[u] = attempt[u]
  BY <1>1 DEF AttemptsTyped
<1>5. attempt'[t] = [j \in TermsOf(t) |->
                       CASE j = k -> how
                         [] j = k + 1 /\ how # "found" /\ attempt[t][j] = "idle" -> "wait"
                         [] OTHER -> attempt[t][j]]
  BY <1>1 DEF AttemptsTyped
<1>6. attempt'[t] \in [TermsOf(t) -> {"idle", "wait", "open", "found", "none", "failed"}]
  <2>1. \A j \in TermsOf(t) : attempt'[t][j] \in {"idle", "wait", "open", "found", "none", "failed"}
    BY <1>3 DEF AttemptsTyped
  <2> QED
    BY <1>5, <2>1
<1> QED
  BY <1>3, <1>4, <1>6 DEF AttemptsTyped

(***************************************************************************)
(* The end of an attempt.  It was waiting or open, so every earlier term   *)
(* had found nothing and no later one was begun; the next one begins only  *)
(* if this one found nothing either.                                       *)
(***************************************************************************)
LEMMA OverSpares ==
  ASSUME CreditsInv, NEW t \in Tasks, NEW k \in TermsOf(t),
         NEW how \in {"found", "none", "failed"},
         attempt[t][k] \in {"wait", "open"}, Over(t, k, how)
  PROVE  CreditsInv'
<1>1. AttemptsTyped
  BY DEF CreditsInv
<1> SUFFICES ASSUME NEW u \in Tasks, u[3] \notin Concurrent,
                    NEW i \in TermsOf(u), NEW j \in TermsOf(u),
                    i < j, attempt'[u][j] # "idle"
             PROVE  attempt'[u][i] \in {"none", "failed"}
  BY <1>1, OverTyped DEF CreditsInv, TermsInTurn, TermsOf
<1>2. CASE u # t
  BY <1>1, <1>2, OverTyped DEF CreditsInv, TermsInTurn
<1>3. CASE u = t
  <2>1. \A n \in TermsOf(t) : n < k => attempt[t][n] \in {"none", "failed"}
    BY <1>3 DEF CreditsInv, TermsInTurn
  <2>2. \A n \in TermsOf(t) : k < n => attempt[t][n] = "idle"
    BY <1>3 DEF CreditsInv, TermsInTurn
  <2>3. /\ attempt'[t][k] = how
        /\ \A n \in TermsOf(t) \ {k} :
             attempt'[t][n] = IF n = k + 1 /\ how # "found" /\ attempt[t][n] = "idle"
                              THEN "wait" ELSE attempt[t][n]
    BY <1>1, OverTyped
  <2>4. \A n \in TermsOf(t) : n < k => attempt'[t][n] \in {"none", "failed"}
    BY <2>1, <2>3 DEF TermsOf
  <2>5. \A n \in TermsOf(t) : k < n /\ attempt'[t][n] # "idle" => n = k + 1 /\ how # "found"
    BY <2>2, <2>3 DEF TermsOf
  <2> QED
    BY <1>3, <2>3, <2>4, <2>5 DEF TermsOf
<1> QED
  BY <1>2, <1>3

LEMMA WorkSpares ==
  ASSUME CreditsInv, NEW t \in Tasks, Work(t)
  PROVE  CreditsInv'
<1>1. AttemptsTyped
  BY DEF CreditsInv
<1>2. CASE LookupHit(t) \/ Conclude(t) \/ StoreSearch(t)
  BY <1>2 DEF CreditsInv, AttemptsTyped, TermsInTurn, LookupHit, Conclude, StoreSearch
<1>3. CASE StartSearch(t)
  <2>1. \A j, k \in TermsOf(t) : j < k => k # 1
    BY DEF TermsOf
  <2> QED
    BY <1>1, <1>3, <2>1, StartTyped DEF CreditsInv, TermsInTurn
<1>4. ASSUME NEW k \in TermsOf(t), Acquire(t, k) PROVE CreditsInv'
  <2>1. attempt[t][k] = "wait"
    BY <1>4 DEF Acquire
  <2> QED
    BY <1>1, <1>4, <2>1, AcquireTyped DEF CreditsInv, TermsInTurn
<1>5. ASSUME NEW k \in TermsOf(t), Answer(t, k) PROVE CreditsInv'
  BY <1>5, OverSpares DEF Answer
<1>6. ASSUME NEW k \in TermsOf(t), Fail(t, k) PROVE CreditsInv'
  BY <1>6, OverSpares DEF Fail
<1> QED
  BY <1>2, <1>3, <1>4, <1>5, <1>6 DEF Work

LEMMA StepCredits == CreditsInv /\ [Next]_vars => CreditsInv'
<1>1. ASSUME CreditsInv, NEW r \in Requests, Gather(r) PROVE CreditsInv'
  BY <1>1 DEF CreditsInv, AttemptsTyped, TermsInTurn, Gather
<1>2. CreditsInv /\ UNCHANGED vars => CreditsInv'
  BY DEF CreditsInv, AttemptsTyped, TermsInTurn, vars
<1> QED
  BY <1>1, <1>2, WorkSpares DEF Next

LEMMA CreditsInvariant == Spec => []CreditsInv
BY InitCredits, StepCredits, PTL DEF Spec

-----------------------------------------------------------------------------
(* What a task returns. *)

\* The terms on which the source has results for k, and the first of them, or 0.
Has(k) == {n \in 1..Terms[k[1]] : world[k][n] # "none"}
Best(k) == IF Has(k) = {} THEN 0 ELSE CHOOSE m \in Has(k) : \A j \in Has(k) : m <= j

(***************************************************************************)
(* A task comes out with what the source knows, unless an attempt for its  *)
(* claim and source has failed: whoever searched, whatever was cached, and *)
(* in whatever order the terms were answered.                              *)
(***************************************************************************)
OutcomesAreKnown ==
  \A t \in Tasks :
    stage[t] \in {"store", "done"} /\ Key(t) \notin troubled => outcome[t] = Known(Key(t))

\* Connections are waited for or held by searches only.
OnlySearchesAttempt ==
  \A t \in Tasks : \A k \in TermsOf(t) : stage[t] # "search" => attempt[t][k] \notin {"wait", "open"}

\* What an attempt says is true, unless it failed, which its key shows.
AttemptsAreTrue ==
  \A t \in Tasks : \A k \in TermsOf(t) :
    /\ attempt[t][k] = "found" => world[Key(t)][k] # "none"
    /\ attempt[t][k] = "none" => world[Key(t)][k] = "none"
    /\ attempt[t][k] = "failed" => Key(t) \in troubled

\* A term is left out only because of an earlier one that did not come up empty.
IdleTermsAreSpared ==
  \A t \in Tasks : \A k \in TermsOf(t) : stage[t] \in {"search", "store"} /\ attempt[t][k] = "idle" =>
    t[3] \notin Concurrent /\ \E j \in TermsOf(t) : j < k /\ attempt[t][j] \in {"wait", "open", "found"}

\* The cache holds what there is.
CacheIsTrue ==
  \A k \in Keys : cached[k] # None /\ k \notin troubled => cached[k] = Best(k)

KnownInv ==
  /\ CreditsInv
  /\ world \in Worlds
  /\ stage \in [Tasks -> {"lookup", "search", "store", "done"}]
  /\ DOMAIN cached = Keys /\ DOMAIN outcome = Tasks
  /\ OnlySearchesAttempt /\ AttemptsAreTrue /\ IdleTermsAreSpared /\ CacheIsTrue
  /\ OutcomesAreKnown

LEMMA InitKnown == Init => KnownInv
BY InitCredits
   DEF Init, KnownInv, OnlySearchesAttempt, AttemptsAreTrue, IdleTermsAreSpared, CacheIsTrue, OutcomesAreKnown

LEMMA TaskKey ==
  ASSUME NEW t \in Tasks
  PROVE  Key(t) \in Keys /\ Key(t)[1] = t[3] /\ CacheKey(t) = Key(t)
<1>1. PICK r \in Requests : t \in {r} \X (1..Len(ClaimsOf[r])) \X SourcesOf[r]
  BY DEF Tasks
<1>2. t[1] = r /\ t[2] \in 1..Len(ClaimsOf[r]) /\ t[3] \in SourcesOf[r]
  BY <1>1
<1>3. ClaimsOf[r] \in Seq(Claims) /\ SourcesOf[r] \in SUBSET Sources
  BY RetrievalAssumption
<1>4. ClaimsOf[r][t[2]] \in Claims
  BY <1>2, <1>3
<1> QED
  BY <1>2, <1>3, <1>4 DEF Key, Keys, CacheKey

\* Every task has a first term.
LEMMA TermCount == \A t \in Tasks : Terms[t[3]] \in Nat /\ Terms[t[3]] >= 1
BY TaskKey, RetrievalAssumption DEF Keys

\* A set of positive numbers that is not empty has one least member.
LEMMA LeastMember ==
  ASSUME NEW S, S \subseteq Nat, S # {}
  PROVE  \E m \in S : /\ \A j \in S : m <= j
                      /\ m = CHOOSE n \in S : \A j \in S : n <= j
<1>1. PICK m \in S : \A j \in S : ~(<<j, m>> \in OpToRel(<, Nat))
  BY NatLessThanWellFounded, WFMin
<1>2. \A j \in S : m <= j
  <2>1. OpToRel(<, Nat) = {ss \in Nat \X Nat : ss[1] < ss[2]}
    BY DEF OpToRel
  <2>2. \A j \in S : j < m => <<j, m>> \in OpToRel(<, Nat)
    BY <2>1
  <2>3. \A j \in S : ~(j < m)
    BY Zenon, <1>1, <2>2
  <2> QED
    BY <2>3
<1>3. \A n \in S : (\A j \in S : n <= j) => n = m
  BY <1>2
<1> QED
  BY <1>2, <1>3

\* Known in terms of Best.
LEMMA KnownIsText ==
  ASSUME world \in Worlds, NEW t \in Tasks
  PROVE  Known(Key(t)) = TextOf(t, Best(Key(t)))
<1> DEFINE k == Key(t)
<1>1. k \in Keys
  BY TaskKey
<1>2. Len(world[k]) = Terms[k[1]]
  BY <1>1, RetrievalAssumption
<1>3. Has(k) = {n \in 1..Len(world[k]) : world[k][n] # "none"}
  BY <1>2 DEF Has
<1>4. CASE Has(k) = {}
  BY <1>3, <1>4 DEF Known, Best, TextOf
<1>5. CASE Has(k) # {}
  <2>1. PICK m \in Has(k) : m = CHOOSE n \in Has(k) : \A j \in Has(k) : n <= j
    BY <1>5, LeastMember DEF Has
  <2>2. Best(k) = m
    BY <1>5, <2>1 DEF Best
  <2>3. m # 0
    BY TermCount, TaskKey DEF Has
  <2> QED
    BY <1>3, <1>5, <2>1, <2>2, <2>3 DEF Known, TextOf
<1> QED
  BY <1>4, <1>5

(***************************************************************************)
(* An untroubled search that is concluded has found the first term there   *)
(* is: every term before the first found one came up empty, for one that   *)
(* was left out would point to an earlier one that was found.              *)
(***************************************************************************)
LEMMA ConcludedIsBest ==
  ASSUME KnownInv, NEW t \in Tasks, stage[t] \in {"search", "store"}, Concluded(t),
         Key(t) \notin troubled
  PROVE  FirstFound(t) = Best(Key(t))
<1> DEFINE found == {k \in TermsOf(t) : attempt[t][k] = "found"}
           has == Has(Key(t))
<1>1. TermsOf(t) = 1..Terms[Key(t)[1]]
  BY TaskKey DEF TermsOf
<1>2. found \subseteq has
  BY <1>1 DEF KnownInv, AttemptsAreTrue, Has
<1>3. \A k \in TermsOf(t) : attempt[t][k] \in {"idle", "found", "none"}
  BY DEF KnownInv, CreditsInv, AttemptsTyped, AttemptsAreTrue, Concluded
<1>4. \A k \in TermsOf(t) : attempt[t][k] = "idle" => \E j \in found : j < k
  BY <1>3 DEF KnownInv, IdleTermsAreSpared
<1>5. \A k \in TermsOf(t) : attempt[t][k] = "none" => k \notin has
  BY DEF KnownInv, AttemptsAreTrue, Has
<1>6. CASE found = {}
  <2>1. has = {}
    BY <1>1, <1>3, <1>4, <1>5, <1>6 DEF Has
  <2> QED
    BY <1>6, <2>1 DEF FirstFound, Best
<1>7. CASE found # {}
  <2>1. found \subseteq Nat /\ has \subseteq Nat
    BY <1>1, <1>2 DEF Has
  <2>2. PICK m \in found : /\ \A j \in found : m <= j
                           /\ m = CHOOSE n \in found : \A j \in found : n <= j
    BY <1>7, <2>1, LeastMember
  <2>3. \A n \in has : m <= n
    <3> SUFFICES ASSUME NEW n \in has, ~(m <= n) PROVE FALSE
      OBVIOUS
    <3>1. n \in TermsOf(t) /\ n < m
      BY <1>1, <2>1 DEF Has
    <3>2. attempt[t][n] # "found"
      BY <2>2, <3>1
    <3>3. PICK j \in found : j < n
      BY <1>3, <1>4, <1>5, <3>1, <3>2
    <3> QED
      BY <2>1, <2>2, <3>1, <3>3
  <2>4. m \in has
    BY <1>2
  <2>5. PICK p \in has : /\ \A j \in has : p <= j
                         /\ p = CHOOSE n \in has : \A j \in has : n <= j
    BY <2>1, <2>4, LeastMember
  <2>6. p = m
    BY <2>1, <2>3, <2>4, <2>5
  <2>7. FirstFound(t) = m
    BY <1>7, <2>2 DEF FirstFound
  <2>8. Best(Key(t)) = p
    BY <2>4, <2>5 DEF Best
  <2> QED
    BY <2>6, <2>7, <2>8
<1> QED
  BY <1>6, <1>7

-----------------------------------------------------------------------------
\* The definitions that read the world alone.
LEMMA WorldStays ==
  ASSUME world' = world
  PROVE  /\ \A k : Best(k)' = Best(k)
         /\ \A k : Known(k)' = Known(k)
BY DEF Best, Has, Known

LEMMA HitKnown ==
  ASSUME KnownInv, NEW t \in Tasks, LookupHit(t)
  PROVE  KnownInv'
<1> USE DEF KnownInv
<1>1. CreditsInv'
  BY WorkSpares DEF Work
<1>2. outcome' = [outcome EXCEPT ![t] = TextOf(t, cached[Key(t)])] /\ cached[Key(t)] # None
  BY TaskKey DEF LookupHit
<1>3. stage' = [stage EXCEPT ![t] = "done"] /\ stage[t] = "lookup"
  BY DEF LookupHit
<1>4. UNCHANGED <<world, attempt, cached, troubled>>
  BY DEF LookupHit
<1>5. Key(t) \notin troubled => outcome'[t] = Known(Key(t))
  BY <1>2, TaskKey, KnownIsText DEF CacheIsTrue
<1>6. OutcomesAreKnown'
  BY <1>2, <1>3, <1>4, <1>5, WorldStays DEF OutcomesAreKnown
<1>7. OnlySearchesAttempt' /\ IdleTermsAreSpared'
  BY <1>3, <1>4 DEF OnlySearchesAttempt, IdleTermsAreSpared
<1>8. AttemptsAreTrue' /\ CacheIsTrue'
  BY <1>4, WorldStays DEF AttemptsAreTrue, CacheIsTrue
<1> QED
  BY <1>1, <1>2, <1>3, <1>4, <1>6, <1>7, <1>8

LEMMA StartKnown ==
  ASSUME KnownInv, NEW t \in Tasks, StartSearch(t)
  PROVE  KnownInv'
<1> USE DEF KnownInv
<1>1. CreditsInv' /\ AttemptsTyped
  BY WorkSpares DEF Work, CreditsInv
<1>2. stage' = [stage EXCEPT ![t] = "search"] /\ UNCHANGED <<world, cached, outcome, troubled>>
  BY DEF StartSearch
<1>3. /\ \A k \in TermsOf(t) :
           attempt'[t][k] = IF k = 1 \/ t[3] \in Concurrent THEN "wait" ELSE "idle"
      /\ \A u \in Tasks \ {t} : attempt'[u] = attempt[u]
  BY <1>1, StartTyped
<1>4. OutcomesAreKnown'
  BY <1>2, WorldStays DEF OutcomesAreKnown
<1>5. OnlySearchesAttempt'
  BY <1>2, <1>3 DEF OnlySearchesAttempt
<1>6. AttemptsAreTrue' /\ CacheIsTrue'
  BY <1>2, <1>3, WorldStays DEF AttemptsAreTrue, CacheIsTrue
<1>7. IdleTermsAreSpared'
  <2>1. \A k \in TermsOf(t) : attempt'[t][k] = "idle" =>
          t[3] \notin Concurrent /\ 1 \in TermsOf(t) /\ 1 < k /\ attempt'[t][1] = "wait"
    BY <1>3, TermCount DEF TermsOf
  <2> QED
    BY <1>2, <1>3, <2>1 DEF IdleTermsAreSpared
<1> QED
  BY <1>1, <1>2, <1>4, <1>5, <1>6, <1>7

LEMMA AcquireKnown ==
  ASSUME KnownInv, NEW t \in Tasks, NEW k \in TermsOf(t), Acquire(t, k)
  PROVE  KnownInv'
<1> USE DEF KnownInv
<1>1. CreditsInv' /\ AttemptsTyped
  BY WorkSpares DEF Work, CreditsInv
<1>2. attempt[t][k] = "wait" /\ UNCHANGED <<world, stage, cached, outcome, troubled>>
  BY DEF Acquire
<1>3. /\ attempt'[t][k] = "open"
      /\ \A j \in TermsOf(t) \ {k} : attempt'[t][j] = attempt[t][j]
      /\ \A u \in Tasks \ {t} : attempt'[u] = attempt[u]
  BY <1>1, AcquireTyped
<1>4. OutcomesAreKnown' /\ CacheIsTrue'
  BY <1>2, WorldStays DEF OutcomesAreKnown, CacheIsTrue
<1>5. OnlySearchesAttempt' /\ AttemptsAreTrue'
  BY <1>2, <1>3 DEF OnlySearchesAttempt, AttemptsAreTrue
<1>6. IdleTermsAreSpared'
  BY <1>2, <1>3 DEF IdleTermsAreSpared
<1> QED
  BY <1>1, <1>2, <1>4, <1>5, <1>6

\* The end of an attempt, with an answer or a failure; only a failure may be untrue.
LEMMA OverKnown ==
  ASSUME KnownInv, NEW t \in Tasks, NEW k \in TermsOf(t),
         NEW how \in {"found", "none", "failed"},
         attempt[t][k] \in {"wait", "open"}, Over(t, k, how), CreditsInv',
         UNCHANGED <<world, stage, cached, outcome>>,
         troubled \subseteq troubled',
         how = "found" => world[Key(t)][k] # "none",
         how = "none" => world[Key(t)][k] = "none",
         how = "failed" => Key(t) \in troubled'
  PROVE  KnownInv'
<1> USE DEF KnownInv
<1>1. AttemptsTyped
  BY DEF CreditsInv
<1>2. /\ attempt'[t][k] = how
      /\ \A j \in TermsOf(t) \ {k} :
           attempt'[t][j] = IF j = k + 1 /\ how # "found" /\ attempt[t][j] = "idle"
                            THEN "wait" ELSE attempt[t][j]
      /\ \A u \in Tasks \ {t} : attempt'[u] = attempt[u]
  BY <1>1, OverTyped
<1>3. stage[t] = "search"
  BY DEF OnlySearchesAttempt
<1>4. OutcomesAreKnown' /\ CacheIsTrue'
  BY WorldStays DEF OutcomesAreKnown, CacheIsTrue
<1>5. OnlySearchesAttempt'
  BY <1>2, <1>3 DEF OnlySearchesAttempt
<1>6. AttemptsAreTrue'
  BY <1>2 DEF AttemptsAreTrue
<1>7. IdleTermsAreSpared'
  <2> SUFFICES ASSUME NEW u \in Tasks, NEW i \in TermsOf(u),
                      stage[u] \in {"search", "store"}, attempt'[u][i] = "idle"
               PROVE  /\ u[3] \notin Concurrent
                      /\ \E j \in TermsOf(u) : j < i /\ attempt'[u][j] \in {"wait", "open", "found"}
    BY DEF IdleTermsAreSpared
  <2>1. CASE u # t
    BY <1>2, <2>1 DEF IdleTermsAreSpared
  <2>2. CASE u = t
    <3>1. attempt[t][i] = "idle" /\ i # k
      BY <1>2, <2>2
    <3>2. t[3] \notin Concurrent
      BY <2>2, <3>1 DEF IdleTermsAreSpared
    <3>3. PICK j \in TermsOf(t) : j < i /\ attempt[t][j] \in {"wait", "open", "found"}
      BY <2>2, <3>1 DEF IdleTermsAreSpared
    <3>4. CASE j # k
      <4>1. attempt'[t][j] = attempt[t][j]
        BY <1>2, <3>3, <3>4
      <4> QED
        BY <2>2, <3>2, <3>3, <4>1
    <3>5. CASE j = k /\ how = "found"
      BY <1>2, <2>2, <3>2, <3>3, <3>5
    <3>6. CASE j = k /\ how # "found"
      <4>1. k + 1 \in TermsOf(t) /\ k < k + 1 /\ k + 1 # k /\ k + 1 <= i
        BY <2>2, <3>3, <3>6, TermCount DEF TermsOf
      <4>2. attempt[t][k + 1] = "idle"
        BY <3>2, <4>1 DEF CreditsInv, TermsInTurn
      <4>3. attempt'[t][k + 1] = "wait"
        BY <1>2, <3>6, <4>1, <4>2
      <4>4. k + 1 < i
        BY <2>2, <4>1, <4>3 DEF TermsOf
      <4> QED
        BY <2>2, <3>2, <4>1, <4>3, <4>4
    <3> QED
      BY <3>4, <3>5, <3>6
  <2> QED
    BY <2>1, <2>2
<1> QED
  BY <1>4, <1>5, <1>6, <1>7

LEMMA ConcludeKnown ==
  ASSUME KnownInv, NEW t \in Tasks, Conclude(t)
  PROVE  KnownInv'
<1> USE DEF KnownInv
<1>1. CreditsInv'
  BY WorkSpares DEF Work
<1>2. /\ stage[t] = "search" /\ Concluded(t)
      /\ outcome' = [outcome EXCEPT ![t] = TextOf(t, FirstFound(t))]
      /\ UNCHANGED <<world, attempt, cached, troubled>>
      /\ \E to \in {"store", "done"} : stage' = [stage EXCEPT ![t] = to]
  BY DEF Conclude
<1>3. Key(t) \notin troubled => outcome'[t] = Known(Key(t))
  BY <1>2, ConcludedIsBest, KnownIsText
<1>4. OutcomesAreKnown'
  BY <1>2, <1>3, WorldStays DEF OutcomesAreKnown
<1>5. OnlySearchesAttempt'
  BY <1>2 DEF OnlySearchesAttempt, Concluded
<1>6. IdleTermsAreSpared'
  BY <1>2 DEF IdleTermsAreSpared
<1>7. AttemptsAreTrue' /\ CacheIsTrue'
  BY <1>2, WorldStays DEF AttemptsAreTrue, CacheIsTrue
<1> QED
  BY <1>1, <1>2, <1>4, <1>5, <1>6, <1>7

LEMMA StoreKnown ==
  ASSUME KnownInv, NEW t \in Tasks, StoreSearch(t)
  PROVE  KnownInv'
<1> USE DEF KnownInv
<1>1. CreditsInv'
  BY WorkSpares DEF Work
<1>2. /\ stage[t] = "store" /\ stage' = [stage EXCEPT ![t] = "done"]
      /\ cached' = [cached EXCEPT ![Key(t)] = FirstFound(t)]
      /\ UNCHANGED <<world, attempt, outcome, troubled>>
  BY TaskKey DEF StoreSearch
<1>3. Concluded(t)
  BY <1>2 DEF Concluded, OnlySearchesAttempt
<1>4. Key(t) \notin troubled => FirstFound(t) = Best(Key(t))
  BY <1>2, <1>3, ConcludedIsBest
<1>5. CacheIsTrue'
  BY <1>2, <1>4, WorldStays, TaskKey DEF CacheIsTrue
<1>6. OutcomesAreKnown'
  BY <1>2, WorldStays DEF OutcomesAreKnown
<1>7. OnlySearchesAttempt' /\ IdleTermsAreSpared' /\ AttemptsAreTrue'
  BY <1>2 DEF OnlySearchesAttempt, IdleTermsAreSpared, AttemptsAreTrue
<1> QED
  BY <1>1, <1>2, <1>5, <1>6, <1>7

LEMMA WorkKnown ==
  ASSUME KnownInv, NEW t \in Tasks, Work(t)
  PROVE  KnownInv'
<1>1. CreditsInv'
  BY WorkSpares DEF KnownInv
<1>2. ASSUME NEW k \in TermsOf(t), Answer(t, k) PROVE KnownInv'
  <2> DEFINE how == IF world[Key(t)][k] = "none" THEN "none" ELSE "found"
  <2>1. how \in {"found", "none"} /\ (how = "none" <=> world[Key(t)][k] = "none")
    OBVIOUS
  <2>2. /\ attempt[t][k] = "open" /\ Over(t, k, how)
        /\ UNCHANGED <<world, stage, cached, outcome, troubled>>
    BY <1>2 DEF Answer
  <2> HIDE DEF how
  <2> QED
    BY <1>1, <2>1, <2>2, OverKnown
<1>3. ASSUME NEW k \in TermsOf(t), Fail(t, k) PROVE KnownInv'
  <2>1. /\ attempt[t][k] \in {"wait", "open"} /\ Over(t, k, "failed")
        /\ UNCHANGED <<world, stage, cached, outcome>>
        /\ troubled \subseteq troubled' /\ Key(t) \in troubled'
    BY <1>3 DEF Fail
  <2> QED
    BY <1>1, <2>1, OverKnown
<1> QED
  BY <1>2, <1>3, HitKnown, StartKnown, AcquireKnown, ConcludeKnown, StoreKnown DEF Work

LEMMA StepKnown == KnownInv /\ [Next]_vars => KnownInv'
<1>1. KnownInv /\ (UNCHANGED vars \/ \E r \in Requests : Gather(r)) => KnownInv'
  <2> SUFFICES ASSUME KnownInv, UNCHANGED <<world, stage, attempt, cached, outcome, troubled>>, CreditsInv'
               PROVE  KnownInv'
    BY StepCredits DEF KnownInv, vars, Gather, Next
  <2>1. OutcomesAreKnown' /\ CacheIsTrue'
    BY WorldStays DEF KnownInv, OutcomesAreKnown, CacheIsTrue
  <2> QED
    BY <2>1 DEF KnownInv, OnlySearchesAttempt, AttemptsAreTrue, IdleTermsAreSpared
<1> QED
  BY <1>1, WorkKnown DEF Next

LEMMA KnownInvariant == Spec => []KnownInv
BY InitKnown, StepKnown, PTL DEF Spec

(***************************************************************************)
(* OutcomesAreKnown, the half of FailuresStayLocal that the tasks race     *)
(* for: neither the cache, nor the pool, nor the order of the answers ever *)
(* changes what an untroubled claim and source come out with.              *)
(***************************************************************************)
THEOREM OutcomesCorrect == Spec => []OutcomesAreKnown
<1>1. KnownInv => OutcomesAreKnown
  BY DEF KnownInv
<1> QED
  BY <1>1, KnownInvariant, PTL

(***************************************************************************)
(* CreditsAreSpared, for any number of terms, requests and connections: a  *)
(* sequential search comes to a term in turn, and what it has from each    *)
(* term before is nothing because there is nothing or because it failed.   *)
(***************************************************************************)
THEOREM CreditsCorrect == Spec => []CreditsAreSpared
<1>1. KnownInv => CreditsAreSpared
  BY DEF KnownInv, CreditsInv, TermsInTurn, AttemptsAreTrue, CreditsAreSpared
<1> QED
  BY <1>1, KnownInvariant, PTL

-----------------------------------------------------------------------------
(* Types. *)

\* The terms of a task are those of its source.
LEMMA TaskTerms ==
  ASSUME NEW t \in Tasks
  PROVE  /\ Searches(Key(t)) = 0..Terms[t[3]]
         /\ TermsOf(t) = 1..Terms[t[3]]
         /\ Terms[t[3]] \in Nat
  BY TaskKey, TermCount DEF Searches, TermsOf

\* The first term found, or 0.
LEMMA FirstFoundTyped ==
  ASSUME NEW t \in Tasks
  PROVE  FirstFound(t) \in Searches(Key(t))
<1> DEFINE found == {k \in TermsOf(t) : attempt[t][k] = "found"}
<1>1. CASE found = {}
  BY <1>1, TaskTerms DEF FirstFound
<1>2. CASE found # {}
  <2>1. found \subseteq Nat
    BY TaskTerms
  <2>2. PICK m \in found : m = CHOOSE n \in found : \A j \in found : n <= j
    BY <1>2, <2>1, LeastMember
  <2>3. FirstFound(t) = m
    BY <1>2, <2>2 DEF FirstFound
  <2> QED BY <2>3, TaskTerms
<1> QED BY <1>1, <1>2

\* What a cached search, or a new one, leaves a task with is a term or nothing.
LEMMA TextOfTyped ==
  ASSUME NEW t \in Tasks, NEW n \in Searches(Key(t))
  PROVE  TextOf(t, n) \in TermsOf(t) \cup {None}
  BY TaskTerms DEF TextOf

\* Positions of claims and sources make up the tasks of a request.
LEMMA TasksOf ==
  ASSUME NEW r \in Requests, NEW i \in 1..Len(ClaimsOf[r]), NEW s \in SourcesOf[r]
  PROVE  /\ <<r, i, s>> \in Tasks /\ <<r, i, s>> \in Of(r)
         /\ Key(<<r, i, s>>) = <<s, ClaimsOf[r][i]>>
  BY DEF Tasks, Of, Key

\* What gather puts together has the type of a result.
LEMMA RecombinedTyped ==
  ASSUME NEW r \in Requests, \A t \in Tasks : outcome[t] \in TermsOf(t) \cup {None}
  PROVE  /\ DOMAIN Recombined(r) = SourcesOf[r]
         /\ \A s \in SourcesOf[r] : Recombined(r)[s] \in Texts(r, s)
<1>1. ASSUME NEW s \in SourcesOf[r] PROVE Recombined(r)[s] \in Texts(r, s)
  <2> DEFINE got == {n \in 1..Len(ClaimsOf[r]) : outcome[<<r, n, s>>] # None}
  <2>1. Recombined(r)[s] = [i \in got |-> outcome[<<r, i, s>>]]
    BY DEF Recombined
  <2>2. \A i \in got : outcome[<<r, i, s>>] \in 1..Terms[s]
    BY TasksOf, TaskTerms
  <2>3. got \in SUBSET (1..Len(ClaimsOf[r]))
    OBVIOUS
  <2> HIDE DEF got
  <2>4. Recombined(r)[s] \in [got -> 1..Terms[s]]
    BY <2>1, <2>2
  <2> QED BY <2>3, <2>4 DEF Texts
<1> QED BY <1>1 DEF Recombined

LEMMA InitType == Init => TypeOK
  BY DEF Init, TypeOK

(***************************************************************************)
(* A step of a task changes one stage, may write one cache entry and one   *)
(* outcome, both of the types of a search, and leaves results alone.       *)
(***************************************************************************)
LEMMA WorkTyped ==
  ASSUME TypeOK, AttemptsTyped', NEW t \in Tasks, Work(t)
  PROVE  TypeOK'
<1> USE DEF TypeOK
<1>1. /\ DOMAIN attempt' = Tasks
      /\ \A u \in Tasks : attempt'[u] \in
           [TermsOf(u) -> {"idle", "wait", "open", "found", "none", "failed"}]
  BY DEF AttemptsTyped
<1>2. Key(t) \in Keys /\ CacheKey(t) = Key(t)
  BY TaskKey
<1>3. CASE LookupHit(t)
  <2>1. cached[Key(t)] \in Searches(Key(t))
    BY <1>2, <1>3 DEF LookupHit
  <2>2. TextOf(t, cached[Key(t)]) \in TermsOf(t) \cup {None}
    BY <2>1, TextOfTyped
  <2> QED BY <1>1, <1>2, <1>3, <2>2 DEF LookupHit
<1>4. CASE Conclude(t)
  <2>1. TextOf(t, FirstFound(t)) \in TermsOf(t) \cup {None}
    BY FirstFoundTyped, TextOfTyped
  <2> QED BY <1>1, <1>4, <2>1 DEF Conclude
<1>5. CASE StoreSearch(t)
  <2>1. FirstFound(t) \in Searches(Key(t))
    BY FirstFoundTyped
  <2> QED BY <1>1, <1>2, <1>5, <2>1 DEF StoreSearch
<1>6. CASE StartSearch(t) \/ \E k \in TermsOf(t) : Acquire(t, k) \/ Answer(t, k)
  BY <1>1, <1>6 DEF StartSearch, Acquire, Answer
<1>7. CASE \E k \in TermsOf(t) : Fail(t, k)
  BY <1>1, <1>2, <1>7 DEF Fail
<1> QED BY <1>3, <1>4, <1>5, <1>6, <1>7 DEF Work

\* Every step keeps the types.
LEMMA StepType == TypeOK /\ CreditsInv /\ [Next]_vars => TypeOK'
<1> SUFFICES ASSUME TypeOK, CreditsInv, [Next]_vars PROVE TypeOK'
  OBVIOUS
<1>1. AttemptsTyped'
  BY StepCredits DEF CreditsInv
<1>2. ASSUME NEW t \in Tasks, Work(t) PROVE TypeOK'
  BY <1>1, <1>2, WorkTyped
<1>3. ASSUME NEW r \in Requests, Gather(r) PROVE TypeOK'
  <2>1. /\ result' = [result EXCEPT ![r] = Recombined(r)]
        /\ UNCHANGED <<world, stage, attempt, cached, outcome, troubled>>
    BY <1>3 DEF Gather
  <2>2. /\ DOMAIN Recombined(r) = SourcesOf[r]
        /\ \A s \in SourcesOf[r] : Recombined(r)[s] \in Texts(r, s)
    BY RecombinedTyped DEF TypeOK
  <2>3. /\ DOMAIN result' = Requests
        /\ \A q \in Requests : result'[q] = IF q = r THEN Recombined(r) ELSE result[q]
    BY <2>1 DEF TypeOK
  <2> QED BY <2>1, <2>2, <2>3 DEF TypeOK
<1>4. CASE UNCHANGED vars
  BY <1>4 DEF vars, TypeOK
<1> QED BY <1>2, <1>3, <1>4 DEF Next

\* Every variable of Retrieval has its type, whatever the sources answer.
THEOREM RetrievalTypeCorrect == Spec => []TypeOK
<1>1. TypeOK /\ CreditsInv /\ [Next]_vars => TypeOK'
  BY StepType
<1> QED BY <1>1, InitType, CreditsInvariant, PTL DEF Spec

-----------------------------------------------------------------------------
(* What a request is given. *)

(***************************************************************************)
(* Once gathered, a request's tasks are over, and what it was given is     *)
(* what they came out with: no task comes out with anything else later.    *)
(***************************************************************************)
GatheredIsFinal ==
  \A r \in Requests : result[r] # None =>
    /\ \A t \in Of(r) : stage[t] = "done"
    /\ result[r] = Recombined(r)

\* A task that is over stays over, with the same outcome.
LEMMA DoneStays ==
  ASSUME TypeOK, NEW t \in Tasks, Work(t), NEW u \in Tasks, stage[u] = "done"
  PROVE  stage'[u] = "done" /\ outcome'[u] = outcome[u]
  BY DEF TypeOK, Work, LookupHit, StartSearch, Conclude, StoreSearch, Acquire, Answer, Fail

\* Recombined is about the outcomes of the request's own tasks.
LEMMA RecombinedStays ==
  ASSUME NEW r \in Requests, \A t \in Of(r) : outcome'[t] = outcome[t]
  PROVE  Recombined(r)' = Recombined(r)
<1>1. \A s \in SourcesOf[r], i \in 1..Len(ClaimsOf[r]) :
        outcome'[<<r, i, s>>] = outcome[<<r, i, s>>]
  BY TasksOf
<1> QED BY <1>1 DEF Recombined

LEMMA StepGathered == TypeOK /\ GatheredIsFinal /\ [Next]_vars => GatheredIsFinal'
<1> SUFFICES ASSUME TypeOK, GatheredIsFinal, [Next]_vars,
                    NEW r \in Requests, result'[r] # None
             PROVE  /\ \A t \in Of(r) : stage'[t] = "done"
                    /\ result'[r] = Recombined(r)'
  BY DEF GatheredIsFinal, Of
<1>1. Of(r) \subseteq Tasks
  BY DEF Of
<1>2. ASSUME NEW t \in Tasks, Work(t)
      PROVE  /\ \A u \in Of(r) : stage'[u] = "done"
             /\ result'[r] = Recombined(r)'
  <2>1. UNCHANGED result
    BY <1>2 DEF Work, LookupHit, StartSearch, Conclude, StoreSearch, Acquire, Answer, Fail
  <2>2. (\A u \in Of(r) : stage[u] = "done") /\ result[r] = Recombined(r)
    BY <2>1 DEF GatheredIsFinal
  <2>3. \A u \in Of(r) : stage'[u] = "done" /\ outcome'[u] = outcome[u]
    BY <1>1, <1>2, <2>2, DoneStays
  <2> QED BY <2>1, <2>2, <2>3, RecombinedStays
<1>3. ASSUME NEW q \in Requests, Gather(q)
      PROVE  /\ \A u \in Of(r) : stage'[u] = "done"
             /\ result'[r] = Recombined(r)'
  <2>1. UNCHANGED <<stage, outcome>> /\ result' = [result EXCEPT ![q] = Recombined(q)]
    BY <1>3 DEF Gather
  <2>2. Recombined(r)' = Recombined(r)
    BY <2>1, RecombinedStays
  <2>3. CASE r = q
    BY <1>3, <2>1, <2>2, <2>3 DEF Gather, TypeOK
  <2>4. CASE r # q
    BY <2>1, <2>2, <2>4 DEF GatheredIsFinal, TypeOK
  <2> QED BY <2>3, <2>4
<1>4. CASE UNCHANGED vars
  <2>1. Recombined(r)' = Recombined(r)
    BY <1>4, RecombinedStays DEF vars
  <2> QED BY <1>4, <2>1 DEF vars, GatheredIsFinal
<1> QED BY <1>2, <1>3, <1>4 DEF Next

LEMMA GatheredLocal == KnownInv /\ GatheredIsFinal => FailuresStayLocal
<1> SUFFICES ASSUME KnownInv, GatheredIsFinal,
                    NEW r \in Requests, result[r] # None,
                    NEW s \in SourcesOf[r], NEW i \in 1..Len(ClaimsOf[r]),
                    <<s, ClaimsOf[r][i]>> \notin troubled
             PROVE  /\ i \in DOMAIN result[r][s] <=> Known(<<s, ClaimsOf[r][i]>>) # None
                    /\ i \in DOMAIN result[r][s] => result[r][s][i] = Known(<<s, ClaimsOf[r][i]>>)
  BY DEF FailuresStayLocal
<1> DEFINE t == <<r, i, s>>
<1>1. t \in Tasks /\ t \in Of(r) /\ Key(t) = <<s, ClaimsOf[r][i]>>
  BY TasksOf
<1>2. stage[t] = "done" /\ result[r] = Recombined(r)
  BY <1>1 DEF GatheredIsFinal
<1>3. outcome[t] = Known(<<s, ClaimsOf[r][i]>>)
  BY <1>1, <1>2 DEF KnownInv, OutcomesAreKnown
<1>4. result[r][s] = [n \in {m \in 1..Len(ClaimsOf[r]) : outcome[<<r, m, s>>] # None}
                       |-> outcome[<<r, n, s>>]]
  BY <1>2 DEF Recombined
<1> QED BY <1>3, <1>4

(***************************************************************************)
(* FailuresStayLocal, for any number of requests that share the cache and  *)
(* the pool: what a request is given at a claim and source without a       *)
(* failure is what the source knows, at the time of gather and ever after. *)
(***************************************************************************)
THEOREM FailuresStayLocalCorrect == Spec => []FailuresStayLocal
<1>1. Init => GatheredIsFinal
  BY DEF Init, GatheredIsFinal
<1>2. TypeOK /\ GatheredIsFinal /\ [Next]_vars => GatheredIsFinal'
  BY StepGathered
<1>3. KnownInv /\ GatheredIsFinal => FailuresStayLocal
  BY GatheredLocal
<1> QED BY <1>1, <1>2, <1>3, RetrievalTypeCorrect, KnownInvariant, PTL DEF Spec
=============================================================================
