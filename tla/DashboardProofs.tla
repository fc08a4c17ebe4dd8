--------------------------- MODULE DashboardProofs ---------------------------
(***************************************************************************)
(* Proofs about the analytics store and the pages that watch it, for any   *)
(* runs, users, limits and number of overlapping fetches.  StoreInv ties   *)
(* the collection to what was inserted and what was cleared, and every     *)
(* document to a timestamp; that the reads are right then follows from     *)
(* what the first or the last n of a list are.                             *)
(***************************************************************************)
EXTENDS Dashboard, FunctionTheorems, SequenceTheorems, FiniteSetTheorems, TLAPS

-----------------------------------------------------------------------------
(* The first n of a finite set, by a key. *)

\* Below(S, at, r): the members of S that come before r.
Below(S, at, r) == {q \in S : at[q] < at[r]}
Lowest(S, at, n) == {r \in S : Cardinality(Below(S, at, r)) < n}

\* Keys that differ order a set, and its members have the ranks 0, 1, ...
LEMMA RankIsBijection ==
  ASSUME NEW S, IsFiniteSet(S), NEW at \in [S -> Int],
         \A q, r \in S : at[q] = at[r] => q = r
  PROVE  /\ \A q, r \in S : at[q] < at[r] <=>
              Cardinality(Below(S, at, q)) < Cardinality(Below(S, at, r))
         /\ [r \in S |-> Cardinality(Below(S, at, r))]
              \in Bijection(S, 0..(Cardinality(S) - 1))
<1> DEFINE n == Cardinality(S)
           rank == [r \in S |-> Cardinality(Below(S, at, r))]
<1>1. n \in Nat
  BY FS_CardinalityType
<1>2. ASSUME NEW r \in S
      PROVE  IsFiniteSet(Below(S, at, r)) /\ rank[r] \in 0..(n - 1)
  <2>1. Below(S, at, r) \subseteq S \ {r}
    BY DEF Below
  <2>2. IsFiniteSet(S \ {r}) /\ Cardinality(S \ {r}) = n - 1
    BY FS_RemoveElement
  <2>3. IsFiniteSet(Below(S, at, r)) /\ Cardinality(Below(S, at, r)) <= n - 1
    BY <2>1, <2>2, FS_Subset
  <2>4. Cardinality(Below(S, at, r)) \in Nat
    BY <2>3, FS_CardinalityType
  <2> QED BY <1>1, <2>3, <2>4
<1>3. ASSUME NEW q \in S, NEW r \in S, at[q] < at[r]
      PROVE  rank[q] < rank[r]
  <2>1. Below(S, at, q) \cup {q} \subseteq Below(S, at, r)
    BY <1>3 DEF Below
  <2>2. q \notin Below(S, at, q)
    BY DEF Below
  <2>3. /\ IsFiniteSet(Below(S, at, q) \cup {q})
        /\ Cardinality(Below(S, at, q) \cup {q}) = rank[q] + 1
    BY <1>2, <2>2, FS_AddElement
  <2>4. rank[q] + 1 <= rank[r]
    BY <1>2, <2>1, <2>3, FS_Subset
  <2> QED BY <1>2, <2>4
<1>4. \A q, r \in S : at[q] < at[r] <=> rank[q] < rank[r]
  <2> SUFFICES ASSUME NEW q \in S, NEW r \in S PROVE at[q] < at[r] <=> rank[q] < rank[r]
    OBVIOUS
  <2>1. rank[q] \in Int /\ rank[r] \in Int /\ at[q] \in Int /\ at[r] \in Int
    BY <1>2
  <2> HIDE DEF rank
  <2> QED BY <2>1, <1>3
<1>5. rank \in Injection(S, 0..(n - 1))
  <2>1. rank \in [S -> 0..(n - 1)]
    BY <1>2
  <2>2. \A q, r \in S : rank[q] = rank[r] => q = r
    BY <1>2, <1>3
  <2> QED BY <2>1, <2>2 DEF Injection, IsInjective
<1>6. IsFiniteSet(0..(n - 1)) /\ Cardinality(0..(n - 1)) = n
  BY <1>1, FS_Interval
<1>7. rank \in Surjection(S, 0..(n - 1))
  BY <1>5, <1>6, FS_Injection
<1> QED BY <1>4, <1>5, <1>7 DEF Bijection

\* The first n are n, or all there are, and come before the rest.
LEMMA LowestFacts ==
  ASSUME NEW S, IsFiniteSet(S), NEW at \in [S -> Int],
         \A q, r \in S : at[q] = at[r] => q = r,
         NEW n \in Nat
  PROVE  /\ IsFiniteSet(Lowest(S, at, n))
         /\ Cardinality(Lowest(S, at, n)) =
              IF n <= Cardinality(S) THEN n ELSE Cardinality(S)
         /\ Cardinality(S) <= n => Lowest(S, at, n) = S
         /\ \A q \in Lowest(S, at, n), r \in S \ Lowest(S, at, n) : at[q] < at[r]
<1> DEFINE size == Cardinality(S)
           low == Lowest(S, at, n)
           rank == [r \in S |-> Cardinality(Below(S, at, r))]
           upto == IF n <= size THEN n ELSE size
<1>1. size \in Nat
  BY FS_CardinalityType
<1>2. /\ rank \in [S -> 0..(size - 1)]
      /\ \A q, r \in S : rank[q] = rank[r] => q = r
      /\ \A k \in 0..(size - 1) : \E r \in S : rank[r] = k
      /\ \A q, r \in S : at[q] < at[r] <=> rank[q] < rank[r]
  <2>1. rank \in Bijection(S, 0..(size - 1))
    BY RankIsBijection
  <2>2. \A q, r \in S : at[q] < at[r] <=> rank[q] < rank[r]
    <3>1. \A q, r \in S : at[q] < at[r] <=>
            Cardinality(Below(S, at, q)) < Cardinality(Below(S, at, r))
      BY RankIsBijection
    <3> QED BY <3>1
  <2> HIDE DEF rank, size
  <2> QED BY <2>1, <2>2 DEF Bijection, Injection, Surjection, IsInjective
<1>3. low = {r \in S : rank[r] < n}
  BY DEF Lowest
<1> HIDE DEF rank, size, low
<1>4. low \subseteq S /\ \A r \in S : r \in low <=> rank[r] < n
  BY <1>3
<1>5. ExistsBijection(1..upto, low)
  <2> DEFINE f == [r \in low |-> rank[r] + 1]
  <2>1. upto \in Nat /\ upto <= n /\ upto <= size
    BY <1>1
  <2>2. f \in [low -> 1..upto]
    <3> SUFFICES ASSUME NEW r \in low PROVE rank[r] + 1 \in 1..upto
      OBVIOUS
    <3>1. rank[r] \in 0..(size - 1) /\ rank[r] < n
      BY <1>2, <1>4
    <3> QED BY <1>1, <3>1
  <2>3. \A q, r \in low : f[q] = f[r] => q = r
    <3> SUFFICES ASSUME NEW q \in low, NEW r \in low, rank[q] + 1 = rank[r] + 1
                 PROVE  q = r
      OBVIOUS
    <3>1. rank[q] \in Int /\ rank[r] \in Int
      BY <1>2, <1>4
    <3>2. rank[q] = rank[r]
      BY <3>1
    <3> QED BY <1>2, <1>4, <3>2
  <2>4. \A k \in 1..upto : \E r \in low : f[r] = k
    <3> SUFFICES ASSUME NEW k \in 1..upto PROVE \E r \in low : rank[r] + 1 = k
      OBVIOUS
    <3>1. k - 1 \in 0..(size - 1) /\ k - 1 < n
      BY <1>1, <2>1
    <3>2. PICK r \in S : rank[r] = k - 1
      BY <1>2, <3>1
    <3> QED BY <1>4, <3>1, <3>2
  <2> HIDE DEF f, upto
  <2>5. f \in Bijection(low, 1..upto)
    BY <2>2, <2>3, <2>4 DEF Bijection, Injection, Surjection, IsInjective
  <2>6. ExistsBijection(low, 1..upto)
    BY <2>5 DEF ExistsBijection
  <2> QED BY <2>6, Fun_ExistsBijSymmetric
<1>6. upto \in Nat
  BY <1>1
<1>7. IsFiniteSet(low) /\ Cardinality(low) = upto
  BY <1>5, <1>6, FS_NatBijection, FS_CountingElements
<1>8. ASSUME size <= n PROVE low = S
  BY <1>1, <1>2, <1>4, <1>8
<1>9. ASSUME NEW q \in low, NEW r \in S \ low PROVE at[q] < at[r]
  <2>1. rank[q] < n /\ ~(rank[r] < n) /\ rank[q] \in Int /\ rank[r] \in Int
    BY <1>2, <1>4
  <2>2. rank[q] < rank[r]
    BY <2>1
  <2> QED BY <1>2, <1>4, <2>2
<1> QED BY <1>7, <1>8, <1>9 DEF size, low

-----------------------------------------------------------------------------
(* Lists of runs without repetition. *)

\* Appending a run that is not there keeps a list without repetition.
LEMMA AppendRun ==
  ASSUME NEW S, NEW s \in Seq(S), IsInjective(s), NEW r \in S, r \notin ToSet(s)
  PROVE  /\ Append(s, r) \in Seq(S)
         /\ IsInjective(Append(s, r))
         /\ ToSet(Append(s, r)) = ToSet(s) \cup {r}
<1> DEFINE n == Len(s)
           more == Append(s, r)
<1>1. n \in Nat /\ DOMAIN s = 1..n
  BY LenProperties
<1>2. /\ more \in Seq(S) /\ Len(more) = n + 1
      /\ \A i \in 1..n : more[i] = s[i]
      /\ more[n + 1] = r
  BY AppendProperties
<1>3. DOMAIN more = 1..(n + 1)
  BY <1>2, LenProperties
<1> HIDE DEF n, more
<1>4. \A i, j \in 1..n : s[i] = s[j] => i = j
  BY <1>1 DEF IsInjective
<1>5. \A i \in 1..n : s[i] # r
  BY <1>1 DEF ToSet
<1>6. IsInjective(more)
  BY <1>1, <1>2, <1>3, <1>4, <1>5 DEF IsInjective
<1>7. ToSet(more) = ToSet(s) \cup {r}
  <2>1. \A i \in 1..(n + 1) : i \in 1..n \/ i = n + 1
    BY <1>1
  <2>2. \A i \in 1..n : i \in 1..(n + 1)
    BY <1>1
  <2>3. n + 1 \in 1..(n + 1)
    BY <1>1
  <2> QED BY <1>1, <1>2, <1>3, <2>1, <2>2, <2>3 DEF ToSet
<1> QED BY <1>2, <1>6, <1>7 DEF more

\* The members of a list are finitely many.
LEMMA ListIsFinite ==
  ASSUME NEW S, NEW s \in Seq(S)
  PROVE  ToSet(s) \subseteq S /\ IsFiniteSet(ToSet(s))
<1>1. Len(s) \in Nat /\ DOMAIN s = 1..Len(s) /\ s \in [1..Len(s) -> S]
  BY LenProperties
<1>2. s \in Surjection(1..Len(s), ToSet(s))
  BY <1>1 DEF Surjection, ToSet
<1>3. IsFiniteSet(1..Len(s))
  BY <1>1, FS_Interval
<1> QED BY <1>1, <1>2, <1>3, FS_Surjection DEF ToSet

\* A member of a list has a place in it.
LEMMA PlaceFacts ==
  ASSUME NEW S, NEW s \in Seq(S), NEW r \in ToSet(s)
  PROVE  Place(s, r) \in DOMAIN s /\ Place(s, r) \in Nat /\ s[Place(s, r)] = r
<1>1. DOMAIN s = 1..Len(s) /\ Len(s) \in Nat
  BY LenProperties
<1>2. \E i \in DOMAIN s : s[i] = r
  BY DEF ToSet
<1>3. Place(s, r) \in DOMAIN s /\ s[Place(s, r)] = r
  BY <1>2 DEF Place
<1> QED BY <1>1, <1>3

-----------------------------------------------------------------------------
(* The store. *)

(***************************************************************************)
(* A run is stamped when it ends, inserted when its task is done, and      *)
(* cleared after that: a clear in between would miss it, and what is       *)
(* queued is in neither list.                                              *)
(***************************************************************************)
StoreInv ==
  /\ stage \in [Requests -> {"new", "event", "done"}]
  /\ {answered, inserted} \subseteq Seq(Requests)
  /\ IsInjective(answered) /\ IsInjective(inserted)
  /\ {db, mongo} \subseteq BOOLEAN
  /\ gone \subseteq Requests
  /\ events = ToSet(inserted) \ gone
  /\ \A r \in ToSet(answered) : stage[r] # "new"
  /\ \A r \in Requests : stage[r] = "event" => r \in ToSet(answered)
  /\ \A r \in ToSet(inserted) : stage[r] = "done" /\ r \in ToSet(answered)
  /\ \A r \in gone : stage[r] = "done"

LEMMA StoreStart == StoreInit => StoreInv
<1> SUFFICES ASSUME StoreInit PROVE StoreInv
  OBVIOUS
<1>1. Earlier \in Seq(Requests) /\ IsInjective(Earlier)
  BY AnalyticsAssumption
<1>2. ToSet(Earlier) \subseteq Requests
  BY <1>1, ListIsFinite
<1> QED BY <1>1, <1>2 DEF StoreInit, StoreInv

LEMMA AnswerStep ==
  ASSUME StoreInv, NEW r \in Requests, Answer(r)
  PROVE  StoreInv'
<1>1. stage[r] = "new" /\ r \notin ToSet(answered) /\ r \notin gone
  BY DEF StoreInv, Answer, Goto
<1>2. ToSet(answered) \subseteq Requests /\ ToSet(inserted) \subseteq Requests
  BY ListIsFinite DEF StoreInv
<1>3. UNCHANGED <<inserted, events, db, mongo, gone>>
  BY DEF Answer
<1>4. CASE db
  <2>1. stage' = [stage EXCEPT ![r] = "event"] /\ answered' = Append(answered, r)
    BY <1>4 DEF Answer, Goto
  <2>2. /\ answered' \in Seq(Requests) /\ IsInjective(answered')
        /\ ToSet(answered') = ToSet(answered) \cup {r}
    BY <1>1, <2>1, AppendRun DEF StoreInv
  <2> QED BY <1>1, <1>2, <1>3, <2>1, <2>2 DEF StoreInv
<1>5. CASE ~db
  <2>1. stage' = [stage EXCEPT ![r] = "done"] /\ answered' = answered
    BY <1>5 DEF Answer, Goto
  <2> QED BY <1>1, <1>2, <1>3, <2>1 DEF StoreInv
<1> QED BY <1>4, <1>5

LEMMA RecordStep ==
  ASSUME StoreInv, NEW r \in Requests, RecordEvent(r)
  PROVE  StoreInv'
<1>1. /\ stage[r] = "event" /\ stage' = [stage EXCEPT ![r] = "done"]
      /\ r \in ToSet(answered) /\ r \notin ToSet(inserted) /\ r \notin gone
      /\ UNCHANGED <<answered, db, mongo, gone>>
  BY DEF StoreInv, RecordEvent, Goto
<1>2. ToSet(answered) \subseteq Requests /\ ToSet(inserted) \subseteq Requests
  BY ListIsFinite DEF StoreInv
<1>3. CASE UNCHANGED <<events, inserted>>
  BY <1>1, <1>2, <1>3 DEF StoreInv
<1>4. CASE events' = events \cup {r} /\ inserted' = Append(inserted, r)
  <2>1. /\ inserted' \in Seq(Requests) /\ IsInjective(inserted')
        /\ ToSet(inserted') = ToSet(inserted) \cup {r}
    BY <1>1, <1>4, AppendRun DEF StoreInv
  <2> QED BY <1>1, <1>2, <1>4, <2>1 DEF StoreInv
<1> QED BY <1>3, <1>4 DEF RecordEvent

\* A clear deletes what it speaks for, for its query matches just that.
LEMMA ClearStep ==
  ASSUME StoreInv, NEW who \in Callers, Clear(who)
  PROVE  StoreInv'
<1>1. \A r \in Requests : Matches(who, r) <=> SpeaksFor(who, r)
  BY AnalyticsAssumption DEF Matches, SpeaksFor, Callers
<1>2. ToSet(inserted) \subseteq Requests
  BY ListIsFinite DEF StoreInv
<1>3. events' = ToSet(inserted) \ gone'
  BY <1>1, <1>2 DEF Clear, StoreInv
<1> QED BY <1>3 DEF Clear, StoreInv

LEMMA RestartStep == StoreInv /\ Restart => StoreInv'
<1> SUFFICES ASSUME StoreInv, Restart PROVE StoreInv'
  OBVIOUS
<1>1. ToSet(answered) \subseteq Requests /\ ToSet(inserted) \subseteq Requests
  BY ListIsFinite DEF StoreInv
<1> QED BY <1>1 DEF Restart, StoreInv

LEMMA StoreStays == StoreInv /\ UNCHANGED storeVars => StoreInv'
  BY DEF StoreInv, storeVars

\* Every step of the store or of a page keeps it.
LEMMA StoreStepKeeps == StoreInv /\ [Next]_vars => StoreInv'
<1> SUFFICES ASSUME StoreInv, [Next]_vars PROVE StoreInv'
  OBVIOUS
<1>1. ASSUME StoreStep PROVE StoreInv'
  <2>1. CASE MongoToggles
    BY <2>1 DEF MongoToggles, StoreInv
  <2> QED BY <1>1, <2>1, AnswerStep, RecordStep, ClearStep DEF StoreStep
<1>2. ASSUME NEW f \in Fetches, Ask(f) \/ Serve(f) \/ Deliver(f) PROVE StoreInv'
  BY <1>2, StoreStays DEF Ask, Serve, Deliver
<1>3. CASE RestartServer
  BY <1>3, RestartStep DEF RestartServer
<1>4. CASE UNCHANGED vars
  BY <1>4, StoreStays DEF vars
<1> QED BY <1>1, <1>2, <1>3, <1>4 DEF Next

LEMMA StoreInvariant == Spec => []StoreInv
<1>1. Init => StoreInv
  BY StoreStart DEF Init
<1> QED BY <1>1, StoreStepKeeps, PTL DEF Spec

(***************************************************************************)
(* ClearsAreExact, whatever clears, inserts, outages and restarts come in  *)
(* whatever order: the collection is what was inserted less what was       *)
(* cleared since, and no run has two documents.                            *)
(***************************************************************************)
THEOREM ClearsCorrect == Spec => []ClearsAreExact
<1>1. StoreInv => ClearsAreExact
  BY DEF StoreInv, ClearsAreExact
<1> QED BY <1>1, StoreInvariant, PTL

-----------------------------------------------------------------------------
(* The reads. *)

\* The documents are finitely many and each has its own timestamp.
LEMMA KeysDiffer ==
  ASSUME StoreInv
  PROVE  /\ IsFiniteSet(events) /\ events \subseteq Requests
         /\ \A r \in events : SortKey(r) \in Nat
         /\ \A q, r \in events : SortKey(q) = SortKey(r) => q = r
         /\ \A q, r \in events : SortKey(q) < SortKey(r) => Before(q, r)
<1>1. IsFiniteSet(ToSet(inserted)) /\ ToSet(inserted) \subseteq Requests
  BY ListIsFinite DEF StoreInv
<1>2. events \subseteq ToSet(inserted) /\ events \subseteq ToSet(answered)
  BY DEF StoreInv
<1>3. \A r \in events : /\ SortKey(r) \in DOMAIN answered /\ SortKey(r) \in Nat
                         /\ answered[SortKey(r)] = r
  BY <1>2, PlaceFacts DEF SortKey, StoreInv
<1> QED BY <1>1, <1>2, <1>3, FS_Subset DEF Before

\* What the first n and the last n of a list of documents are.
LEMMA ReadFacts ==
  ASSUME StoreInv, NEW list \in SUBSET events, NEW n \in Nat
  PROVE  /\ IsFiniteSet(list) /\ Cardinality(list) \in Nat
         /\ FirstOf(n, list) \subseteq list /\ LastOf(n, list) \subseteq list
         /\ Cardinality(FirstOf(n, list)) =
              IF n <= Cardinality(list) THEN n ELSE Cardinality(list)
         /\ Cardinality(LastOf(n, list)) =
              IF n <= Cardinality(list) THEN n ELSE Cardinality(list)
         /\ Cardinality(list) <= n => FirstOf(n, list) = list /\ LastOf(n, list) = list
         /\ \A q \in LastOf(n, list), r \in list \ LastOf(n, list) :
              SortKey(r) < SortKey(q)
<1> DEFINE at == [r \in list |-> SortKey(r)]
           ago == [r \in list |-> -SortKey(r)]
<1>1. /\ \A r \in list : SortKey(r) \in Nat
      /\ \A q, r \in list : SortKey(q) = SortKey(r) => q = r
  BY KeysDiffer
<1>2. IsFiniteSet(list) /\ Cardinality(list) \in Nat
  BY KeysDiffer, FS_Subset, FS_CardinalityType
<1>3. at \in [list -> Int] /\ \A q, r \in list : at[q] = at[r] => q = r
  BY <1>1
<1>4. /\ ago \in [list -> Int]
      /\ \A q, r \in list : ago[q] = ago[r] => q = r
      /\ \A q, r \in list : ago[q] < ago[r] <=> SortKey(q) > SortKey(r)
  BY <1>1
<1>5. FirstOf(n, list) = Lowest(list, at, n)
  <2>1. \A r \in list : Below(list, at, r) = {q \in list : SortKey(q) < SortKey(r)}
    BY DEF Below
  <2> HIDE DEF at
  <2> QED BY <2>1 DEF FirstOf, Lowest
<1>6. LastOf(n, list) = Lowest(list, ago, n)
  <2>1. \A r \in list : Below(list, ago, r) = {q \in list : SortKey(q) > SortKey(r)}
    BY <1>4 DEF Below
  <2> HIDE DEF ago
  <2> QED BY <2>1 DEF LastOf, Lowest
<1>7. /\ Cardinality(Lowest(list, at, n)) =
           IF n <= Cardinality(list) THEN n ELSE Cardinality(list)
      /\ Cardinality(list) <= n => Lowest(list, at, n) = list
  <2> HIDE DEF at
  <2> QED BY <1>2, <1>3, LowestFacts
<1>8. /\ Cardinality(Lowest(list, ago, n)) =
           IF n <= Cardinality(list) THEN n ELSE Cardinality(list)
      /\ Cardinality(list) <= n => Lowest(list, ago, n) = list
      /\ \A q \in Lowest(list, ago, n), r \in list \ Lowest(list, ago, n) : ago[q] < ago[r]
  <2> HIDE DEF ago
  <2> QED BY <1>2, <1>4, LowestFacts
<1>9. FirstOf(n, list) \subseteq list /\ LastOf(n, list) \subseteq list
  BY DEF FirstOf, LastOf
<1>10. \A q \in LastOf(n, list), r \in list \ LastOf(n, list) : SortKey(r) < SortKey(q)
  <2>1. \A q \in LastOf(n, list), r \in list \ LastOf(n, list) : SortKey(q) > SortKey(r)
    BY <1>4, <1>6, <1>8, <1>9
  <2> QED BY <1>1, <1>9, <2>1
<1> HIDE DEF at, ago
<1> QED BY <1>2, <1>5, <1>6, <1>7, <1>8, <1>9, <1>10

\* While all events fit, the trend is the end of all of them.
LEMMA TrendFacts == StoreInv => TrendIsNewestWithinLimit
<1> SUFFICES ASSUME StoreInv, NEW who \in Callers, Cardinality(Matching(who)) <= MaxEvents
             PROVE  /\ \A q \in Trend(who), r \in Matching(who) \ Trend(who) : Before(r, q)
                    /\ Cardinality(Trend(who)) = TrendLen \/ Trend(who) = Matching(who)
                    /\ Trend(who) = Newest(who, TrendLen)
  BY DEF TrendIsNewestWithinLimit
<1>1. Matching(who) \in SUBSET events /\ MaxEvents \in Nat /\ TrendLen \in Nat
  BY AnalyticsAssumption DEF Matching
<1>2. EventsFor(who) = Matching(who)
  BY <1>1, ReadFacts DEF EventsFor
<1>3. Trend(who) = LastOf(TrendLen, Matching(who)) /\ Trend(who) = Newest(who, TrendLen)
  BY <1>2 DEF Trend, Newest
<1>4. /\ Cardinality(Matching(who)) \in Nat
      /\ LastOf(TrendLen, Matching(who)) \subseteq Matching(who)
      /\ Cardinality(LastOf(TrendLen, Matching(who))) =
           IF TrendLen <= Cardinality(Matching(who)) THEN TrendLen
           ELSE Cardinality(Matching(who))
      /\ Cardinality(Matching(who)) <= TrendLen =>
           LastOf(TrendLen, Matching(who)) = Matching(who)
      /\ \A q \in LastOf(TrendLen, Matching(who)),
            r \in Matching(who) \ LastOf(TrendLen, Matching(who)) : SortKey(r) < SortKey(q)
  BY <1>1, ReadFacts
<1>5. \A q \in Trend(who), r \in Matching(who) \ Trend(who) : Before(r, q)
  <2>1. \A q \in Trend(who), r \in Matching(who) \ Trend(who) : SortKey(r) < SortKey(q)
    BY <1>3, <1>4
  <2>2. Trend(who) \subseteq events
    BY <1>1, <1>3, <1>4
  <2> QED BY <1>1, <2>1, <2>2, KeysDiffer
<1>6. Cardinality(Trend(who)) = TrendLen \/ Trend(who) = Matching(who)
  <2>1. CASE TrendLen <= Cardinality(Matching(who))
    BY <2>1, <1>3, <1>4
  <2>2. CASE ~(TrendLen <= Cardinality(Matching(who)))
    <3>1. Cardinality(Matching(who)) <= TrendLen
      BY <2>2, <1>1, <1>4
    <3> QED BY <3>1, <1>3, <1>4
  <2> QED BY <2>1, <2>2
<1> QED BY <1>3, <1>5, <1>6

(***************************************************************************)
(* The trend of the statistics and the first page of the history are the   *)
(* newest events of their caller, in whatever order they were inserted and *)
(* whatever was cleared in between, as long as one read holds all events.  *)
(***************************************************************************)
THEOREM TrendCorrect == Spec => []TrendIsNewestWithinLimit
BY TrendFacts, StoreInvariant, PTL

-----------------------------------------------------------------------------
(* What the pages hold. *)

\* The pages' part of TypeOK.
PageTypes ==
  /\ restarted \in BOOLEAN
  /\ kind \in {"dashboard", "analytics"}
  /\ DOMAIN fetch = Fetches
  /\ \A f \in Fetches :
       \/ fetch[f] \in [state : {"idle", "asked"}]
       \/ fetch[f] \in [state : {"answer"}, stats : Statistics]
  /\ cards \in 0..MaxEvents \cup {None}
  /\ canvases \subseteq Charts
  /\ DOMAIN drawn = Charts
  /\ \A c \in Charts : drawn[c] = None \/ drawn[c] \in Statistics

\* What the route answers are statistics within both limits.
LEMMA StatsTyped == StoreInv => Stats(Nobody) \in Statistics
<1> SUFFICES ASSUME StoreInv PROVE Stats(Nobody) \in Statistics
  OBVIOUS
<1> DEFINE all == Matching(Nobody)
           list == EventsFor(Nobody)
           trend == Trend(Nobody)
<1>1. MaxEvents \in Nat \ {0} /\ TrendLen \in Nat \ {0}
  BY AnalyticsAssumption
<1>2. events \subseteq Requests /\ all \in SUBSET events
  BY KeysDiffer DEF Matching
<1>3. /\ Cardinality(all) \in Nat
      /\ list \subseteq all
      /\ Cardinality(list) = IF MaxEvents <= Cardinality(all) THEN MaxEvents
                             ELSE Cardinality(all)
  BY <1>1, <1>2, ReadFacts DEF EventsFor
<1>4. list \in SUBSET events
  BY <1>2, <1>3
<1>5. /\ Cardinality(list) \in Nat
      /\ trend \subseteq list
      /\ Cardinality(trend) = IF TrendLen <= Cardinality(list) THEN TrendLen
                              ELSE Cardinality(list)
  <2> HIDE DEF list
  <2>1. trend = LastOf(TrendLen, list)
    BY DEF Trend, list
  <2> HIDE DEF trend
  <2> QED BY <1>1, <1>4, <2>1, ReadFacts
<1>6. IsFiniteSet(trend)
  BY <1>2, <1>3, <1>5, KeysDiffer, FS_Subset
<1> HIDE DEF all, list, trend
<1>7. Cardinality(list) \in 0..MaxEvents
  BY <1>1, <1>3
<1>8. trend \in Trends
  <2>1. Cardinality(trend) <= TrendLen
    BY <1>1, <1>5
  <2> QED BY <1>2, <1>4, <1>5, <1>6, <2>1 DEF Trends
<1>9. CASE db
  <2>1. Stats(Nobody) = [total   |-> Cardinality(list),
                         sourced |-> \E r \in list : HasSources[r],
                         trend   |-> trend]
    BY <1>9 DEF Stats, list, trend
  <2>2. (\E r \in list : HasSources[r]) \in BOOLEAN
    OBVIOUS
  <2> QED BY <1>7, <1>8, <2>1, <2>2 DEF Statistics
<1>10. CASE ~db
  <2>1. {} \in Trends
    BY <1>1, FS_EmptySet DEF Trends
  <2>2. 0 \in 0..MaxEvents
    BY <1>1
  <2> QED BY <1>10, <2>1, <2>2 DEF Stats, Statistics
<1> QED BY <1>9, <1>10

\* Both ways to render leave every chart empty or with statistics.
LEMMA RenderedTyped ==
  ASSUME PageTypes, NEW stats \in Statistics,
         RewriteContainers(stats) \/ DrawOnCanvases(stats)
  PROVE  /\ canvases' \subseteq Charts
         /\ DOMAIN drawn' = Charts
         /\ \A c \in Charts : drawn'[c] = None \/ drawn'[c] \in Statistics
<1>1. CASE RewriteContainers(stats)
  BY <1>1 DEF RewriteContainers, PageTypes
<1>2. CASE DrawOnCanvases(stats)
  <2>1. PICK stop :
          /\ canvases' = {c \in canvases : At(c) < stop => ~Empty(c, stats)}
          /\ drawn' = [c \in Charts |->
               CASE At(c) > stop -> drawn[c]
                 [] At(c) <= stop /\ (c \notin canvases \/ Empty(c, stats)) -> None
                 [] OTHER -> stats]
    BY <1>2 DEF DrawOnCanvases
  <2>2. canvases' \subseteq Charts
    BY <2>1 DEF PageTypes
  <2>3. ASSUME NEW c \in Charts
        PROVE  drawn'[c] = None \/ drawn'[c] \in Statistics
    <3>1. drawn'[c] = drawn[c] \/ drawn'[c] = None \/ drawn'[c] = stats
      <4> DEFINE later == At(c) > stop
                 bare == At(c) <= stop /\ (c \notin canvases \/ Empty(c, stats))
      <4>1. drawn'[c] = CASE later -> drawn[c] [] bare -> None [] OTHER -> stats
        BY <2>1
      <4> HIDE DEF later, bare
      <4> QED BY <4>1
    <3> QED BY <3>1 DEF PageTypes
  <2> QED BY <2>1, <2>2, <2>3
<1> QED BY <1>1, <1>2

LEMMA PageStart == Init => PageTypes
<1> SUFFICES ASSUME Init PROVE PageTypes
  OBVIOUS
<1>1. Idle \in [state : {"idle", "asked"}]
  BY DEF Idle
<1>2. /\ restarted \in BOOLEAN /\ kind \in {"dashboard", "analytics"}
      /\ fetch = [f \in Fetches |-> Idle] /\ cards = None
      /\ canvases = Charts /\ drawn = [c \in Charts |-> None]
  BY DEF Init
<1> QED BY <1>1, <1>2 DEF PageTypes

\* Every step of the pages, or under them, keeps the types.
LEMMA PageStepKeeps == StoreInv /\ PageTypes /\ [Next]_vars => PageTypes'
<1> SUFFICES ASSUME StoreInv, PageTypes, [Next]_vars PROVE PageTypes'
  OBVIOUS
<1> USE DEF Idle
<1>1. CASE UNCHANGED pageVars
  BY <1>1 DEF PageTypes, pageVars
<1>2. ASSUME NEW f \in Fetches, Ask(f) PROVE PageTypes'
  BY <1>2 DEF Ask, PageTypes
<1>3. ASSUME NEW f \in Fetches, Serve(f) PROVE PageTypes'
  <2>1. PICK got : /\ got = Idle \/ got \in [state : {"answer"}, stats : Statistics]
                   /\ fetch' = [fetch EXCEPT ![f] = got]
    BY <1>3, StatsTyped DEF Serve
  <2>2. UNCHANGED <<kind, cards, canvases, drawn, restarted>>
    BY <1>3 DEF Serve
  <2> QED BY <2>1, <2>2 DEF PageTypes
<1>4. ASSUME NEW f \in Fetches, Deliver(f) PROVE PageTypes'
  <2>1. /\ fetch[f].state = "answer"
        /\ fetch' = [fetch EXCEPT ![f] = Idle]
        /\ cards' = fetch[f].stats.total
        /\ RewriteContainers(fetch[f].stats) \/ DrawOnCanvases(fetch[f].stats)
        /\ UNCHANGED <<kind, restarted>>
    BY <1>4 DEF Deliver
  <2>2. fetch[f].stats \in Statistics
    BY <2>1 DEF PageTypes
  <2>3. cards' \in 0..MaxEvents
    BY <2>1, <2>2 DEF Statistics
  <2>4. /\ canvases' \subseteq Charts
        /\ DOMAIN drawn' = Charts
        /\ \A c \in Charts : drawn'[c] = None \/ drawn'[c] \in Statistics
    BY <2>1, <2>2, RenderedTyped
  <2> QED BY <2>1, <2>3, <2>4 DEF PageTypes
<1>5. CASE RestartServer
  BY <1>5 DEF RestartServer, PageTypes
<1> QED BY <1>1, <1>2, <1>3, <1>4, <1>5 DEF Next, vars

(***************************************************************************)
(* TypeOK: whatever the order of asks, answers, writes and clears, a page  *)
(* holds statistics whose total and trend are within the limits of the     *)
(* reads, and no chart holds anything else.                                *)
(***************************************************************************)
THEOREM DashboardTypeCorrect == Spec => []TypeOK
<1>1. Init => StoreInv /\ PageTypes
  BY StoreStart, PageStart DEF Init
<1>2. StoreInv /\ PageTypes /\ [Next]_vars => (StoreInv /\ PageTypes)'
  BY StoreStepKeeps, PageStepKeeps
<1>3. StoreInv /\ PageTypes => TypeOK
  <2> SUFFICES ASSUME StoreInv, PageTypes PROVE TypeOK
    OBVIOUS
  <2>1. events \subseteq Requests
    BY KeysDiffer
  <2> QED BY <2>1 DEF StoreInv, PageTypes, TypeOK
<1> QED BY <1>1, <1>2, <1>3, PTL DEF Spec
=============================================================================
