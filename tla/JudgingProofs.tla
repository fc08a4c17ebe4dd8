---------------------------- MODULE JudgingProofs ----------------------------
(***************************************************************************)
(* For any cases, alphabet, lengths, thresholds and budget:                *)
(*   - every score shown is in range and the verdicts drawn from one score *)
(*     agree, whatever the models reply (ScoredInv);                       *)
(*   - the evidence is kept once: what deduplication drops lies in what it *)
(*     keeps;                                                              *)
(*   - a claim is shown where it stands in the answer (SpanInv);           *)
(*   - the budget costs the best snippet nothing (EvidenceInv).            *)
(* The last three need what the operators on texts do: an induction on     *)
(* lengths gives the least member of a set of numbers (MinFacts), ranks    *)
(* give the order of a list (RankIsBijection), and extents the place of a  *)
(* list in a concatenation (ExtentFacts).                                  *)
(***************************************************************************)
EXTENDS Judging, FunctionTheorems, SequenceTheorems, FiniteSetTheorems,
        WellFoundedInduction, TLAPS

\* The flag says that a score is below 60, except that of the neutral answer.
FlagOf(score, flag) ==
  IF case.reply = Unusable THEN score = 50 /\ ~flag ELSE flag <=> score < 60

\* Every verdict is the one of its score, and the flag of the judge is bound to it.
ScoredInv ==
  /\ case \in Cases
  /\ \/ judged = None /\ stage \in {"aggregate", "mediate", "judge"}
     \/ /\ judged \in [score : Scores, verdict : JudgeVerdicts, flag : BOOLEAN]
        /\ FlagOf(judged.score, judged.flag)
  /\ \A n \in DOMAIN claimResults :
       claimResults[n].score \in Scores /\ claimResults[n].verdict = ClaimVerdict(claimResults[n].score)
  /\ response # None =>
       /\ response.score \in Scores /\ response.flag \in BOOLEAN
       /\ response = [score |-> response.score, verdict |-> UserVerdict(response.score), flag |-> response.flag]
       /\ FlagOf(response.score, response.flag)
  /\ stage \in {"aggregate", "mediate", "judge", "claims", "respond", "done"}

\* A score is clamped, whatever integer it was, and 50 when it is missing.
LEMMA ClampedInRange ==
  ASSUME NEW s \in Int \cup {NoScore}
  PROVE  Clamped(s) \in Scores
<1>1. NoScore \notin Int
  BY JudgingAssumption
<1> QED BY <1>1 DEF Clamped, Scores

\* The three verdicts have no gap.
LEMMA VerdictOfScore ==
  ASSUME NEW s \in Scores
  PROVE  /\ InferredVerdict(s) \in JudgeVerdicts
         /\ ClaimVerdict(s) \in UserVerdicts
         /\ UserVerdict(s) = ClaimVerdict(s)
BY DEF Scores, InferredVerdict, ClaimVerdict, UserVerdict, JudgeVerdicts, UserVerdicts

LEMMA InitScored == Init => ScoredInv
BY DEF Init, ScoredInv

\* A reply of the judge, usable or not.
LEMMA JudgeScored == ScoredInv /\ Judge => ScoredInv'
<1> SUFFICES ASSUME ScoredInv, Judge PROVE ScoredInv'
  OBVIOUS
<1> DEFINE r == case.reply
<1>1. CASE r = Unusable
  <2>1. judged' = Neutral
    BY <1>1 DEF Judge
  <2>2. judged' \in [score : Scores, verdict : JudgeVerdicts, flag : BOOLEAN]
    BY <2>1 DEF Neutral, Scores, JudgeVerdicts
  <2>3. judged'.flag = FALSE /\ judged'.score = 50
    BY <2>1 DEF Neutral
  <2>4. FlagOf(judged.score, judged.flag)'
    BY <1>1, <2>3 DEF FlagOf, Judge
  <2> QED
    BY <2>2, <2>4 DEF Judge, Goto, ScoredInv, FlagOf
<1>2. CASE r # Unusable
  <2>1. r.score \in Int \cup {NoScore}
    BY <1>2, JudgingAssumption DEF ScoredInv
  <2>2. Clamped(r.score) \in Scores
    BY <2>1, ClampedInRange
  <2>3. judged' = Parsed(r)
    BY <1>2 DEF Judge
  <2>4. judged' = [score |-> Clamped(r.score), verdict |-> judged'.verdict, flag |-> Clamped(r.score) < 60]
    BY <2>3 DEF Parsed
  <2>5. judged'.verdict \in JudgeVerdicts
    BY <2>2, <2>3, VerdictOfScore DEF Parsed
  <2>6. judged' \in [score : Scores, verdict : JudgeVerdicts, flag : BOOLEAN]
    <3> DEFINE low == Clamped(r.score) < 60
    <3>1. low \in BOOLEAN
      OBVIOUS
    <3>2. judged' = [score |-> Clamped(r.score), verdict |-> judged'.verdict, flag |-> low]
      BY <2>4
    <3> HIDE DEF low
    <3> QED
      BY <2>2, <2>5, <3>1, <3>2
  <2>7. judged'.score = Clamped(r.score) /\ judged'.flag = (Clamped(r.score) < 60)
    BY <2>4
  <2>8. FlagOf(judged.score, judged.flag)'
    BY <1>2, <2>7 DEF FlagOf, Judge
  <2> QED
    BY <2>6, <2>8 DEF Judge, Goto, ScoredInv, FlagOf
<1> QED
  BY <1>1, <1>2

LEMMA ClaimsScored == ScoredInv /\ JudgePerClaim => ScoredInv'
<1> SUFFICES ASSUME ScoredInv, JudgePerClaim PROVE ScoredInv'
  OBVIOUS
<1>1. ASSUME NEW n \in DOMAIN claimResults'
      PROVE  /\ claimResults'[n].score \in Scores
             /\ claimResults'[n].verdict = ClaimVerdict(claimResults'[n].score)
  <2>1. CASE case.claims = Unusable
    BY <1>1, <2>1 DEF JudgePerClaim
  <2>2. CASE case.claims # Unusable
    <3>1. /\ n \in DOMAIN case.claims
          /\ claimResults'[n] = ClaimResult(case.claims[n])
      BY <1>1, <2>2 DEF JudgePerClaim
    <3>2. case.claims[n].score \in Int \cup {NoScore}
      BY <2>2, <3>1, JudgingAssumption DEF ScoredInv
    <3>3. Clamped(case.claims[n].score) \in Scores
      BY <3>2, ClampedInRange
    <3> QED
      BY <3>1, <3>3 DEF ClaimResult
  <2> QED
    BY <2>1, <2>2
<1> QED
  BY <1>1 DEF JudgePerClaim, Goto, ScoredInv, FlagOf

LEMMA ResponseScored == ScoredInv /\ Respond => ScoredInv'
BY DEF Respond, Goto, ScoredInv, FlagOf

LEMMA StepScored == ScoredInv /\ [Next]_vars => ScoredInv'
<1> SUFFICES ASSUME ScoredInv, [Next]_vars PROVE ScoredInv'
  OBVIOUS
<1>1. CASE AggregateEvidence
  BY <1>1 DEF AggregateEvidence, Goto, ScoredInv, FlagOf
<1>2. CASE Mediate
  BY <1>2 DEF Mediate, Goto, ScoredInv, FlagOf
<1>3. CASE UNCHANGED vars
  BY <1>3 DEF vars, ScoredInv, FlagOf
<1> QED
  BY <1>1, <1>2, <1>3, JudgeScored, ClaimsScored, ResponseScored DEF Next

LEMMA Scored == Spec => []ScoredInv
BY InitScored, StepScored, PTL DEF Spec

-----------------------------------------------------------------------------
\* TypeOK: no reply of a model brings a score out of range or a verdict of another kind.
THEOREM JudgingTypeCorrect == Spec => []TypeOK
<1>1. ScoredInv => TypeOK
  <2> SUFFICES ASSUME ScoredInv PROVE TypeOK
    OBVIOUS
  <2>1. judged = None \/ judged \in [score : Scores, verdict : JudgeVerdicts, flag : BOOLEAN]
    BY DEF ScoredInv
  <2>2. \A n \in DOMAIN claimResults :
          claimResults[n].score \in Scores /\ claimResults[n].verdict \in UserVerdicts
    BY VerdictOfScore DEF ScoredInv
  <2>3. response # None => UserVerdict(response.score) \in UserVerdicts
    BY VerdictOfScore DEF ScoredInv
  <2>4. response = None \/ response \in [score : Scores, verdict : UserVerdicts, flag : BOOLEAN]
    BY <2>3 DEF ScoredInv
  <2> QED
    BY <2>1, <2>2, <2>4 DEF TypeOK, ScoredInv
<1> QED
  BY <1>1, Scored, PTL

(***************************************************************************)
(* VerdictsNeverClash, for any integer a model replies: response, claims,  *)
(* flag, buckets and the panel's classes contradict each other nowhere but *)
(* at the scores, and for the neutral answer, that the property names.     *)
(***************************************************************************)
THEOREM VerdictsCorrect == Spec => []VerdictsNeverClash
<1>1. ScoredInv => VerdictsNeverClash
  <2> SUFFICES ASSUME ScoredInv, response # None PROVE VerdictsNeverClash
    BY DEF VerdictsNeverClash
  <2> DEFINE s == response.score
  <2>1. s \in 0..100 /\ response.verdict = UserVerdict(s)
    BY DEF ScoredInv, Scores
  <2>2. /\ UserVerdict(s) = "accurate" <=> s >= 70
        /\ UserVerdict(s) = "hallucination" <=> s < 40
    BY <2>1 DEF UserVerdict
  <2>3. /\ ScoreBucket(s) \in {"0-19", "20-39"} <=> s < 40
        /\ ScoreBucket(s) \in {"60-79", "80-100"} <=> s >= 60
    BY <2>1 DEF ScoreBucket
  <2>4. /\ PanelClass(s) = "verified" <=> s >= 75
        /\ PanelClass(s) = "hallucination" <=> s < 40
        /\ PanelReliability(s) = "high" <=> s >= 75
        /\ PanelReliability(s) = "low" <=> s < 50
    BY <2>1 DEF PanelClass, PanelReliability
  <2>5. /\ case.reply = Unusable => s = 50 /\ ~response.flag
        /\ case.reply # Unusable => (response.flag <=> s < 60)
    BY DEF ScoredInv, FlagOf
  <2>6. \A n \in DOMAIN claimResults :
          claimResults[n].score = s => claimResults[n].verdict = response.verdict
    BY <2>1, VerdictOfScore DEF ScoredInv, Scores
  <2> HIDE DEF s
  <2>7. /\ s >= 70 => ~response.flag /\ s >= 60 /\ ~(s < 40) /\ ~(s < 50)
        /\ s < 40 => response.flag
    BY <2>1, <2>5
  <2>8. /\ s \notin 40..49 => (s < 40 <=> s < 50)
        /\ s \notin 70..74 => (s >= 70 <=> s >= 75)
    BY <2>1
  <2> QED
    BY <2>1, <2>2, <2>3, <2>4, <2>5, <2>6, <2>7, <2>8 DEF VerdictsNeverClash, s
<1> QED
  BY <1>1, Scored, PTL

-----------------------------------------------------------------------------
(* Members in order. *)

\* Below(S, R, x): the members of S that R has before x.
Below(S, R, x) == {y \in S : <<y, x>> \in R}

StrictOrder(R, S) ==
  /\ \A x \in S : <<x, x>> \notin R
  /\ \A x, y, z \in S : <<x, y>> \in R /\ <<y, z>> \in R => <<x, z>> \in R
  /\ \A x, y \in S : x # y => <<x, y>> \in R \/ <<y, x>> \in R

\* A strict total order gives the members of a finite set the ranks 0, 1, ...
LEMMA RankIsBijection ==
  ASSUME NEW S, IsFiniteSet(S), NEW R,
         StrictOrder(R, S)
  PROVE  /\ Cardinality(S) \in Nat
         /\ \A x \in S : Cardinality(Below(S, R, x)) \in 0..(Cardinality(S) - 1)
         /\ \A x, y \in S :
              <<x, y>> \in R <=> Cardinality(Below(S, R, x)) < Cardinality(Below(S, R, y))
         /\ \A k \in 0..(Cardinality(S) - 1) : \E x \in S : Cardinality(Below(S, R, x)) = k
<1> DEFINE n == Cardinality(S)
           rank == [x \in S |-> Cardinality(Below(S, R, x))]
<1>1. n \in Nat
  BY FS_CardinalityType
<1>2. ASSUME NEW x \in S
      PROVE  IsFiniteSet(Below(S, R, x)) /\ rank[x] \in 0..(n - 1)
  <2>1. Below(S, R, x) \subseteq S \ {x}
    BY DEF Below, StrictOrder
  <2>2. IsFiniteSet(S \ {x}) /\ Cardinality(S \ {x}) = n - 1
    BY FS_RemoveElement
  <2>3. IsFiniteSet(Below(S, R, x)) /\ Cardinality(Below(S, R, x)) <= n - 1
    BY <2>1, <2>2, FS_Subset
  <2>4. Cardinality(Below(S, R, x)) \in Nat
    BY <2>3, FS_CardinalityType
  <2> QED BY <1>1, <2>3, <2>4
<1>3. ASSUME NEW x \in S, NEW y \in S, <<x, y>> \in R
      PROVE  rank[x] < rank[y]
  <2>1. Below(S, R, x) \cup {x} \subseteq Below(S, R, y)
    BY <1>3 DEF Below, StrictOrder
  <2>2. x \notin Below(S, R, x)
    BY DEF Below, StrictOrder
  <2>3. /\ IsFiniteSet(Below(S, R, x) \cup {x})
        /\ Cardinality(Below(S, R, x) \cup {x}) = rank[x] + 1
    BY <1>2, <2>2, FS_AddElement
  <2>4. rank[x] + 1 <= rank[y]
    BY <1>2, <2>1, <2>3, FS_Subset
  <2> QED BY <1>2, <2>4
<1>4. \A x, y \in S : <<x, y>> \in R <=> rank[x] < rank[y]
  <2> SUFFICES ASSUME NEW x \in S, NEW y \in S PROVE <<x, y>> \in R <=> rank[x] < rank[y]
    OBVIOUS
  <2>1. rank[x] \in Int /\ rank[y] \in Int
    BY <1>2
  <2>2. <<x, y>> \in R => rank[x] < rank[y]
    BY <1>3
  <2>3. <<y, x>> \in R => rank[y] < rank[x]
    BY <1>3
  <2>4. <<x, y>> \in R \/ <<y, x>> \in R \/ x = y
    BY DEF StrictOrder
  <2> HIDE DEF rank
  <2> QED BY <2>1, <2>2, <2>3, <2>4
<1>5. rank \in Injection(S, 0..(n - 1))
  <2>1. rank \in [S -> 0..(n - 1)]
    BY <1>2
  <2>2. \A x, y \in S : rank[x] = rank[y] => x = y
    <3> SUFFICES ASSUME NEW x \in S, NEW y \in S, rank[x] = rank[y] PROVE x = y
      OBVIOUS
    <3>1. rank[x] \in Int /\ rank[y] \in Int
      BY <1>2
    <3>2. <<x, y>> \notin R /\ <<y, x>> \notin R
      <4> HIDE DEF rank
      <4> QED BY <1>4, <3>1
    <3> QED BY <3>2 DEF StrictOrder
  <2> QED BY <2>1, <2>2 DEF Injection, IsInjective
<1>6. IsFiniteSet(0..(n - 1)) /\ Cardinality(0..(n - 1)) = n
  BY <1>1, FS_Interval
<1>7. rank \in Surjection(S, 0..(n - 1))
  BY <1>5, <1>6, FS_Injection
<1>8. \A k \in 0..(n - 1) : \E x \in S : rank[x] = k
  BY <1>7 DEF Surjection
<1> QED BY <1>1, <1>2, <1>4, <1>8

\* InOrder lists a finite set of numbers, each of them once and in their order.
LEMMA InOrderFacts ==
  ASSUME NEW P \in SUBSET Int, IsFiniteSet(P)
  PROVE  /\ Cardinality(P) \in Nat
         /\ InOrder(P) \in [1..Cardinality(P) -> P]
         /\ \A m, n \in 1..Cardinality(P) : m < n <=> InOrder(P)[m] < InOrder(P)[n]
         /\ \A p \in P : \E n \in 1..Cardinality(P) : InOrder(P)[n] = p
<1> DEFINE R == {r \in P \X P : r[1] < r[2]}
           size == Cardinality(P)
           rank == [i \in P |-> Cardinality({j \in P : j < i})]
<1>1. \A x, y \in P : <<x, y>> \in R <=> x < y
  OBVIOUS
<1>2. \A i \in P : Below(P, R, i) = {j \in P : j < i}
  BY <1>1 DEF Below
<1> HIDE DEF R
<1>3. /\ size \in Nat
      /\ \A x \in P : Cardinality(Below(P, R, x)) \in 0..(size - 1)
      /\ \A x, y \in P :
           <<x, y>> \in R <=> Cardinality(Below(P, R, x)) < Cardinality(Below(P, R, y))
      /\ \A k \in 0..(size - 1) : \E x \in P : Cardinality(Below(P, R, x)) = k
  <2>1. StrictOrder(R, P)
    BY <1>1 DEF StrictOrder
  <2> QED BY <2>1, RankIsBijection
<1>4. /\ \A x \in P : rank[x] \in 0..(size - 1)
      /\ \A x, y \in P : x < y <=> rank[x] < rank[y]
      /\ \A k \in 0..(size - 1) : \E x \in P : rank[x] = k
  BY <1>1, <1>2, <1>3
<1>5. \A m \in 1..size : InOrder(P)[m] \in P /\ rank[InOrder(P)[m]] = m - 1
  <2> SUFFICES ASSUME NEW m \in 1..size PROVE InOrder(P)[m] \in P /\ rank[InOrder(P)[m]] = m - 1
    OBVIOUS
  <2>1. InOrder(P)[m] = CHOOSE i \in P : Cardinality({j \in P : j < i}) = m - 1
    BY DEF InOrder
  <2>2. m - 1 \in 0..(size - 1)
    BY <1>3
  <2>3. \E i \in P : Cardinality({j \in P : j < i}) = m - 1
    BY <1>4, <2>2
  <2> QED BY <2>1, <2>3
<1>6. InOrder(P) \in [1..size -> P]
  BY <1>5 DEF InOrder
<1> HIDE DEF rank, size
<1>7. \A m, n \in 1..size : m < n <=> InOrder(P)[m] < InOrder(P)[n]
  <2> SUFFICES ASSUME NEW m \in 1..size, NEW n \in 1..size
               PROVE  m < n <=> InOrder(P)[m] < InOrder(P)[n]
    OBVIOUS
  <2> DEFINE p == InOrder(P)[m]
             q == InOrder(P)[n]
  <2>1. p \in P /\ q \in P /\ rank[p] = m - 1 /\ rank[q] = n - 1
    BY <1>5
  <2> HIDE DEF p, q
  <2>2. p < q <=> m - 1 < n - 1
    BY <1>4, <2>1
  <2> QED BY <1>3, <2>2 DEF p, q
<1>8. \A p \in P : \E n \in 1..size : InOrder(P)[n] = p
  <2> SUFFICES ASSUME NEW p \in P PROVE \E n \in 1..size : InOrder(P)[n] = p
    OBVIOUS
  <2>1. rank[p] + 1 \in 1..size /\ rank[p] \in Int
    BY <1>3, <1>4
  <2>2. InOrder(P)[rank[p] + 1] \in P /\ rank[InOrder(P)[rank[p] + 1]] = rank[p]
    <3>1. (rank[p] + 1) - 1 = rank[p]
      BY <2>1
    <3> QED BY <1>5, <2>1, <3>1
  <2>3. InOrder(P)[rank[p] + 1] = p
    <3> DEFINE q == InOrder(P)[rank[p] + 1]
    <3>1. q \in P /\ rank[q] = rank[p]
      BY <2>2
    <3> HIDE DEF q
    <3>2. q \in Int /\ p \in Int /\ ~(q < p) /\ ~(p < q)
      BY <1>4, <2>1, <3>1
    <3> QED BY <3>2 DEF q
  <2> QED BY <2>1, <2>3
<1> QED BY <1>3, <1>6, <1>7, <1>8 DEF size

\* Among the numbers from 1 to n each is at its own place.
LEMMA AllInOrder ==
  ASSUME NEW n \in Nat
  PROVE  Cardinality(1..n) = n /\ \A m \in 1..n : InOrder(1..n)[m] = m
<1>1. \A i \in 1..n : Cardinality({j \in 1..n : j < i}) = i - 1
  <2> SUFFICES ASSUME NEW i \in 1..n PROVE Cardinality({j \in 1..n : j < i}) = i - 1
    OBVIOUS
  <2>1. {j \in 1..n : j < i} = 1..(i - 1)
    OBVIOUS
  <2>2. i - 1 \in Int /\ 1 \in Int /\ i - 1 >= 0
    OBVIOUS
  <2>3. Cardinality(1..(i - 1)) = IF 1 > i - 1 THEN 0 ELSE (i - 1) - 1 + 1
    BY <2>2, FS_Interval
  <2>4. Cardinality(1..(i - 1)) = i - 1
    BY <2>2, <2>3
  <2> QED BY Zenon, <2>1, <2>4
<1>2. Cardinality(1..n) = n
  <2>1. Cardinality(1..n) = IF 1 > n THEN 0 ELSE n - 1 + 1
    BY FS_Interval
  <2> QED BY <2>1
<1>3. ASSUME NEW m \in 1..n PROVE InOrder(1..n)[m] = m
  <2>1. InOrder(1..n)[m] = CHOOSE i \in 1..n : Cardinality({j \in 1..n : j < i}) = m - 1
    BY <1>2 DEF InOrder
  <2>2. \A i \in 1..n : Cardinality({j \in 1..n : j < i}) = m - 1 <=> i = m
    BY <1>1
  <2> QED BY <2>1, <2>2
<1> QED BY <1>2, <1>3

\* A function on the numbers from 1 to n is a sequence of length n.
LEMMA FunctionIsSeq ==
  ASSUME NEW T, NEW n \in Nat, NEW f \in [1..n -> T]
  PROVE  f \in Seq(T) /\ Len(f) = n /\ DOMAIN f = 1..n
OBVIOUS

\* What Keep keeps is what was at the positions, in its order.
LEMMA KeepFacts ==
  ASSUME NEW T, NEW list \in Seq(T), NEW P \in SUBSET DOMAIN list
  PROVE  /\ Keep(list, P) \in Seq(T)
         /\ Len(Keep(list, P)) = Cardinality(P)
         /\ InOrder(P) \in [1..Cardinality(P) -> P]
         /\ \A n \in 1..Cardinality(P) : Keep(list, P)[n] = list[InOrder(P)[n]]
<1>1. Len(list) \in Nat /\ DOMAIN list = 1..Len(list)
  BY LenProperties
<1>2. P \in SUBSET Int /\ IsFiniteSet(P)
  <2>1. IsFiniteSet(1..Len(list)) /\ P \in SUBSET (1..Len(list))
    BY <1>1, FS_Interval
  <2> QED BY <2>1, FS_Subset
<1>3. Cardinality(P) \in Nat /\ InOrder(P) \in [1..Cardinality(P) -> P]
  BY <1>2, InOrderFacts
<1>4. \A n \in 1..Cardinality(P) : list[InOrder(P)[n]] \in T
  BY <1>1, <1>3, ElementOfSeq
<1>5. Keep(list, P) = [n \in 1..Cardinality(P) |-> list[InOrder(P)[n]]]
  BY DEF Keep
<1>6. Keep(list, P) \in [1..Cardinality(P) -> T]
  BY <1>4, <1>5
<1>7. Keep(list, P) \in Seq(T) /\ Len(Keep(list, P)) = Cardinality(P)
  BY <1>3, <1>6, FunctionIsSeq
<1> QED BY <1>3, <1>5, <1>7

-----------------------------------------------------------------------------
(* Texts: extremes, slices and occurrences. *)

LEMMA MinFacts ==
  ASSUME NEW S \in SUBSET Nat, S # {}
  PROVE  Min(S) \in S /\ \A x \in S : Min(S) <= x
<1>1. PICK m \in S : \A x \in S : ~(<<x, m>> \in OpToRel(<, Nat))
  BY NatLessThanWellFounded, WFMin
<1>2. \A x \in S : m <= x
  <2>1. OpToRel(<, Nat) = {ss \in Nat \X Nat : ss[1] < ss[2]}
    BY DEF OpToRel
  <2>2. \A x \in S : x < m => <<x, m>> \in OpToRel(<, Nat)
    BY <2>1
  <2>3. \A x \in S : ~(x < m)
    BY Zenon, <1>1, <2>2
  <2> QED BY <2>3
<1> QED BY <1>2 DEF Min

LEMMA MaxFacts ==
  ASSUME NEW n \in Nat, NEW S \in SUBSET (0..n), S # {}
  PROVE  Max(S) \in S /\ \A x \in S : x <= Max(S)
<1> DEFINE under == {n - x : x \in S}
<1>1. under \in SUBSET Nat /\ under # {}
  <2>1. \A x \in S : n - x \in Nat
    OBVIOUS
  <2> QED BY <2>1
<1>2. PICK x \in S : n - x = Min(under)
  <2>1. Min(under) \in under
    BY <1>1, MinFacts
  <2> QED BY <2>1
<1>3. \A y \in S : n - x <= n - y
  <2>1. \A z \in under : Min(under) <= z
    BY <1>1, MinFacts
  <2> QED BY <1>2, <2>1
<1>4. \A y \in S : y <= x
  BY <1>3
<1> QED BY <1>4 DEF Max

LEMMA SliceFacts ==
  ASSUME NEW t \in Text, NEW from \in Nat, NEW to \in Nat, from <= to, to <= Len(t)
  PROVE  /\ Slice(t, from, to) \in Text
         /\ Len(Slice(t, from, to)) = to - from
         /\ \A k \in 1..(to - from) : Slice(t, from, to)[k] = t[from + k]
<1>1. Len(t) \in Nat
  BY LenProperties DEF Text
<1>2. Slice(t, from, to) = SubSeq(t, from + 1, to)
  BY <1>1 DEF Slice
<1>3. \A i \in (from + 1)..to : t[i] \in Alphabet
  BY <1>1, ElementOfSeq DEF Text
<1>4. /\ SubSeq(t, from + 1, to) \in Seq(Alphabet)
      /\ Len(SubSeq(t, from + 1, to)) = IF from + 1 <= to THEN to - (from + 1) + 1 ELSE 0
      /\ \A i \in 1..(to - (from + 1) + 1) : SubSeq(t, from + 1, to)[i] = t[(from + 1) + i - 1]
  BY <1>3, SubSeqProperties
<1>5. Len(Slice(t, from, to)) = to - from
  BY <1>2, <1>4
<1>6. \A k \in 1..(to - from) : Slice(t, from, to)[k] = t[from + k]
  <2> SUFFICES ASSUME NEW k \in 1..(to - from) PROVE Slice(t, from, to)[k] = t[from + k]
    OBVIOUS
  <2>1. k \in 1..(to - (from + 1) + 1) /\ (from + 1) + k - 1 = from + k
    OBVIOUS
  <2> QED BY <1>2, <1>4, <2>1
<1> QED BY <1>2, <1>4, <1>5, <1>6 DEF Text

\* A slice that asks for more than there is ends where the text does.
LEMMA SliceToEnd ==
  ASSUME NEW t \in Text, NEW from \in Nat, NEW to \in Nat, Len(t) <= to
  PROVE  Slice(t, from, to) = Slice(t, from, Len(t))
<1>1. Len(t) \in Nat
  BY LenProperties DEF Text
<1> QED BY <1>1 DEF Slice

\* OccursAt(s, t, i): s is in t from offset i on.
OccursAt(s, t, i) == \A k \in 1..Len(s) : s[k] = t[i + k]

LEMMA OccurrencesAre ==
  ASSUME NEW s \in Text, NEW t \in Text
  PROVE  /\ Occurrences(s, t) \in SUBSET (0..(Len(t) - Len(s)))
         /\ \A i \in 0..(Len(t) - Len(s)) : i \in Occurrences(s, t) <=> OccursAt(s, t, i)
<1>1. Len(s) \in Nat /\ Len(t) \in Nat
  BY LenProperties DEF Text
<1>2. ASSUME NEW i \in 0..(Len(t) - Len(s))
      PROVE  Slice(t, i, i + Len(s)) = s <=> OccursAt(s, t, i)
  <2>1. /\ i \in Nat /\ i + Len(s) \in Nat /\ i <= i + Len(s) /\ i + Len(s) <= Len(t)
        /\ (i + Len(s)) - i = Len(s)
    BY <1>1
  <2> DEFINE piece == Slice(t, i, i + Len(s))
  <2>2. /\ piece \in Text /\ Len(piece) = Len(s)
        /\ \A k \in 1..Len(s) : piece[k] = t[i + k]
    <3> HIDE DEF piece
    <3>1. /\ piece \in Text /\ Len(piece) = (i + Len(s)) - i
          /\ \A k \in 1..((i + Len(s)) - i) : piece[k] = t[i + k]
      BY <2>1, SliceFacts DEF piece
    <3> QED BY <2>1, <3>1
  <2> HIDE DEF piece
  <2>3. piece = s => OccursAt(s, t, i)
    BY <2>2 DEF OccursAt
  <2>4. OccursAt(s, t, i) => piece = s
    BY <2>2, SeqEqual DEF OccursAt, Text
  <2> QED BY <2>3, <2>4 DEF piece
<1> QED BY <1>2 DEF Occurrences

LEMMA InMeans ==
  ASSUME NEW s \in Text, NEW t \in Text
  PROVE  In(s, t) <=> \E i \in 0..(Len(t) - Len(s)) : OccursAt(s, t, i)
<1> QED BY OccurrencesAre DEF In

\* Containment is an order; two texts in each other are equal.
LEMMA InReflexive == ASSUME NEW s \in Text PROVE In(s, s)
<1>1. Len(s) \in Nat
  BY LenProperties DEF Text
<1>2. 0 \in 0..(Len(s) - Len(s)) /\ OccursAt(s, s, 0)
  BY <1>1 DEF OccursAt
<1> QED BY <1>2, InMeans

LEMMA InShorter ==
  ASSUME NEW s \in Text, NEW t \in Text, In(s, t)
  PROVE  Len(s) <= Len(t) /\ (Len(s) = Len(t) => s = t)
<1>1. Len(s) \in Nat /\ Len(t) \in Nat
  BY LenProperties DEF Text
<1>2. PICK i \in 0..(Len(t) - Len(s)) : OccursAt(s, t, i)
  BY InMeans
<1>3. Len(s) <= Len(t)
  BY <1>1
<1>4. ASSUME Len(s) = Len(t) PROVE s = t
  <2>1. i = 0
    BY <1>1, <1>4
  <2>2. \A k \in 1..Len(s) : s[k] = t[k]
    <3> SUFFICES ASSUME NEW k \in 1..Len(s) PROVE s[k] = t[k]
      OBVIOUS
    <3>1. s[k] = t[0 + k] /\ 0 + k = k
      BY <1>2, <2>1 DEF OccursAt
    <3> QED BY <3>1
  <2> QED BY <1>4, <2>2, SeqEqual DEF Text
<1> QED BY <1>3, <1>4

LEMMA InTransitive ==
  ASSUME NEW s \in Text, NEW t \in Text, NEW u \in Text, In(s, t), In(t, u)
  PROVE  In(s, u)
<1>1. Len(s) \in Nat /\ Len(t) \in Nat /\ Len(u) \in Nat
  BY LenProperties DEF Text
<1>2. PICK i \in 0..(Len(t) - Len(s)) : OccursAt(s, t, i)
  BY InMeans
<1>3. PICK j \in 0..(Len(u) - Len(t)) : OccursAt(t, u, j)
  BY InMeans
<1>4. j + i \in 0..(Len(u) - Len(s))
  BY <1>1
<1>5. ASSUME NEW k \in 1..Len(s) PROVE s[k] = u[(j + i) + k]
  <2>1. i + k \in 1..Len(t) /\ j + (i + k) = (j + i) + k
    BY <1>1
  <2>2. s[k] = t[i + k] /\ t[i + k] = u[j + (i + k)]
    BY <1>2, <1>3, <2>1 DEF OccursAt
  <2> QED BY <2>1, <2>2
<1> QED BY <1>4, <1>5, InMeans DEF OccursAt

\* What is found is where it was found, and before it is nothing.
LEMMA FindFacts ==
  ASSUME NEW s \in Text, NEW t \in Text
  PROVE  \/ In(s, t) /\ Find(s, t) \in 0..(Len(t) - Len(s)) /\ OccursAt(s, t, Find(s, t))
         \/ ~In(s, t) /\ Find(s, t) = -1
<1>1. CASE In(s, t)
  <2>1. Occurrences(s, t) # {} /\ Occurrences(s, t) \in SUBSET Nat
    BY <1>1, OccurrencesAre DEF In
  <2>2. Find(s, t) \in Occurrences(s, t)
    BY <1>1, <2>1, MinFacts DEF Find
  <2> QED BY <1>1, <2>2, OccurrencesAre
<1>2. CASE ~In(s, t)
  BY <1>2 DEF Find
<1> QED BY <1>1, <1>2

LEMMA LowerFacts ==
  ASSUME NEW t \in Text
  PROVE  /\ Lower(t) \in Text /\ Len(Lower(t)) = Len(t)
         /\ \A i \in 1..Len(t) :
              Lower(t)[i] = IF t[i] \in DOMAIN LowerOf THEN LowerOf[t[i]] ELSE t[i]
<1>1. Len(t) \in Nat /\ DOMAIN t = 1..Len(t) /\ \A i \in 1..Len(t) : t[i] \in Alphabet
  BY LenProperties, ElementOfSeq DEF Text
<1>2. Lower(t) \in [1..Len(t) -> Alphabet]
  BY <1>1, AggregatorAssumption DEF Lower
<1>3. Lower(t) \in Text /\ Len(Lower(t)) = Len(t)
  BY <1>1, <1>2, FunctionIsSeq DEF Text
<1> QED BY <1>1, <1>3 DEF Lower

\* Stripping cuts to the first and the last character that shows.
LEMMA StripCuts ==
  ASSUME NEW t \in Text, NEW m \in 1..Len(t), t[m] \notin White
  PROVE  \E a \in 1..m, b \in m..Len(t) :
           /\ t[a] \notin White /\ \A i \in 1..(a - 1) : t[i] \in White
           /\ t[b] \notin White
           /\ Strip(t) \in Text /\ Len(Strip(t)) = b - a + 1
           /\ \A k \in 1..(b - a + 1) : Strip(t)[k] = t[a + k - 1]
<1>1. Len(t) \in Nat /\ DOMAIN t = 1..Len(t) /\ \A i \in 1..Len(t) : t[i] \in Alphabet
  BY LenProperties, ElementOfSeq DEF Text
<1> DEFINE ink == {i \in DOMAIN t : t[i] \notin White}
           a == Min(ink)
           b == Max(ink)
<1>2. m \in ink /\ ink \in SUBSET Nat /\ ink \in SUBSET (0..Len(t))
  BY <1>1
<1>3. /\ a \in ink /\ \A i \in ink : a <= i
      /\ b \in ink /\ \A i \in ink : i <= b
  <2>1. ink # {}
    BY <1>2
  <2> HIDE DEF ink
  <2> QED BY <1>1, <1>2, <2>1, MinFacts, MaxFacts
<1>4. Strip(t) = SubSeq(t, a, b)
  BY <1>2 DEF Strip
<1> HIDE DEF a, b
<1>5. /\ a \in 1..m /\ b \in m..Len(t)
      /\ t[a] \notin White /\ t[b] \notin White
      /\ \A i \in 1..(a - 1) : t[i] \in White
  <2>1. a \in 1..Len(t) /\ b \in 1..Len(t) /\ a <= m /\ m <= b
    BY <1>1, <1>2, <1>3
  <2>2. \A i \in 1..(a - 1) : t[i] \in White
    <3> SUFFICES ASSUME NEW i \in 1..(a - 1), t[i] \notin White PROVE FALSE
      OBVIOUS
    <3>1. i \in ink
      BY <1>1, <2>1
    <3> QED BY <1>3, <2>1, <3>1
  <2> QED BY <1>3, <2>1, <2>2
<1>6. \A i \in a..b : t[i] \in Alphabet
  BY <1>1, <1>5
<1>7. /\ Strip(t) \in Text
      /\ Len(Strip(t)) = b - a + 1
      /\ \A k \in 1..(b - a + 1) : Strip(t)[k] = t[a + k - 1]
  <2>1. a \in Int /\ b \in Int /\ a <= b
    BY <1>5
  <2> QED BY <1>4, <1>6, <2>1, SubSeqProperties DEF Text
<1> QED BY <1>5, <1>7

\* A text that does not begin or end in white space.
Bare(t) == t # <<>> => t[1] \notin White /\ t[Len(t)] \notin White

LEMMA StripFacts ==
  ASSUME NEW t \in Text
  PROVE  /\ Strip(t) \in Text /\ Len(Strip(t)) <= Len(t) /\ Bare(Strip(t))
         /\ Bare(t) => Strip(t) = t
<1>1. Len(t) \in Nat /\ DOMAIN t = 1..Len(t)
  BY LenProperties DEF Text
<1>2. CASE \E m \in 1..Len(t) : t[m] \notin White
  <2>1. PICK m \in 1..Len(t) : t[m] \notin White
    BY <1>2
  <2>2. PICK a \in 1..m, b \in m..Len(t) :
          /\ t[a] \notin White /\ \A i \in 1..(a - 1) : t[i] \in White
          /\ t[b] \notin White
          /\ Strip(t) \in Text /\ Len(Strip(t)) = b - a + 1
          /\ \A k \in 1..(b - a + 1) : Strip(t)[k] = t[a + k - 1]
    BY <2>1, StripCuts
  <2>3. Len(Strip(t)) <= Len(t)
    BY <1>1, <2>1, <2>2
  <2>4. Strip(t)[1] = t[a] /\ Strip(t)[Len(Strip(t))] = t[b]
    <3>1. /\ 1 \in 1..(b - a + 1) /\ a + 1 - 1 = a
          /\ b - a + 1 \in 1..(b - a + 1) /\ a + (b - a + 1) - 1 = b
      BY <1>1, <2>1
    <3> QED BY <2>2, <3>1
  <2>5. ASSUME Bare(t) PROVE Strip(t) = t
    <3>1. t # <<>>
      BY <1>1, <2>1
    <3>2. t[1] \notin White /\ t[Len(t)] \notin White /\ Len(t) >= 1
      BY <1>1, <2>1, <2>5, <3>1 DEF Bare
    <3>3. PICK c \in 1..Len(t), d \in Len(t)..Len(t) :
            /\ t[c] \notin White /\ \A i \in 1..(c - 1) : t[i] \in White
            /\ Strip(t) \in Text /\ Len(Strip(t)) = d - c + 1
            /\ \A k \in 1..(d - c + 1) : Strip(t)[k] = t[c + k - 1]
      <4> DEFINE last == Len(t)
      <4>1. last \in 1..Len(t) /\ t[last] \notin White
        BY <1>1, <3>2
      <4> HIDE DEF last
      <4>2. \E c \in 1..last, d \in last..Len(t) :
              /\ t[c] \notin White /\ \A i \in 1..(c - 1) : t[i] \in White
              /\ t[d] \notin White
              /\ Strip(t) \in Text /\ Len(Strip(t)) = d - c + 1
              /\ \A k \in 1..(d - c + 1) : Strip(t)[k] = t[c + k - 1]
        BY <4>1, StripCuts
      <4> QED BY <4>1, <4>2 DEF last
    <3>4. c = 1 /\ d = Len(t)
      <4>1. ~(1 \in 1..(c - 1))
        BY <3>2, <3>3
      <4> QED BY <1>1, <3>2, <4>1
    <3>5. Len(Strip(t)) = Len(t) /\ \A k \in 1..Len(t) : Strip(t)[k] = t[k]
      <4>1. d - c + 1 = Len(t) /\ \A k \in 1..Len(t) : c + k - 1 = k
        BY <1>1, <3>4
      <4> QED BY <3>3, <4>1
    <3> QED BY <3>3, <3>5, SeqEqual DEF Text
  <2> QED BY <2>2, <2>3, <2>4, <2>5 DEF Bare
<1>3. CASE \A m \in 1..Len(t) : t[m] \in White
  <2>1. Strip(t) = <<>>
    BY <1>1, <1>3 DEF Strip
  <2>2. Bare(t) => t = <<>>
    <3> SUFFICES ASSUME t # <<>> PROVE t[1] \in White
      BY DEF Bare
    <3>1. 1 \in 1..Len(t)
      BY <1>1, EmptySeq DEF Text
    <3> QED BY <1>3, <3>1
  <2>3. <<>> \in Text /\ Len(<<>>) = 0
    BY EmptySeq DEF Text
  <2> QED BY <1>1, <2>1, <2>2, <2>3 DEF Bare
<1> QED BY <1>2, <1>3

LEMMA NormTyped == ASSUME NEW t \in Text PROVE Norm(t) \in Text
<1> DEFINE low == Lower(Strip(t))
           blanked == [i \in DOMAIN low |-> IF low[i] \in White THEN " " ELSE low[i]]
           kept == {i \in DOMAIN low : /\ low[i] \notin Stop
                                       /\ low[i] \in White => low[i - 1] \notin White}
<1>1. low \in Text
  BY StripFacts, LowerFacts
<1>2. Norm(t) = Keep(blanked, kept)
  BY DEF Norm
<1> HIDE DEF low
<1>3. Len(low) \in Nat /\ DOMAIN low = 1..Len(low) /\ \A i \in 1..Len(low) : low[i] \in Alphabet
  BY <1>1, LenProperties, ElementOfSeq DEF Text
<1>4. blanked \in [1..Len(low) -> Alphabet]
  <2>1. " " \in Alphabet
    BY AggregatorAssumption DEF White
  <2>2. \A i \in 1..Len(low) : (IF low[i] \in White THEN " " ELSE low[i]) \in Alphabet
    BY <1>3, <2>1
  <2> QED BY <1>3, <2>2
<1> HIDE DEF blanked
<1>5. blanked \in Seq(Alphabet) /\ DOMAIN blanked = 1..Len(low)
  BY <1>3, <1>4, FunctionIsSeq
<1>6. kept \in SUBSET DOMAIN blanked
  BY <1>3, <1>5
<1> HIDE DEF kept
<1> QED BY <1>2, <1>5, <1>6, KeepFacts DEF Text

-----------------------------------------------------------------------------
(* Deduplication. *)

\* Keeping every position keeps the list.
LEMMA KeepAll ==
  ASSUME NEW T, NEW list \in Seq(T)
  PROVE  Keep(list, DOMAIN list) = list
<1>1. Len(list) \in Nat /\ DOMAIN list = 1..Len(list)
  BY LenProperties
<1> DEFINE n == Len(list)
           all == Keep(list, DOMAIN list)
<1>2. Cardinality(DOMAIN list) = n /\ \A m \in 1..n : InOrder(DOMAIN list)[m] = m
  BY <1>1, AllInOrder
<1>3. /\ all \in Seq(T) /\ Len(all) = Cardinality(DOMAIN list)
      /\ \A m \in 1..Cardinality(DOMAIN list) : all[m] = list[InOrder(DOMAIN list)[m]]
  BY KeepFacts
<1> HIDE DEF all
<1>4. Len(all) = Len(list) /\ \A m \in 1..Len(all) : all[m] = list[m]
  BY <1>2, <1>3
<1> QED BY <1>3, <1>4, SeqEqual DEF all

\* Normals(list), Kept positions: the two names Deduplicate gives its parts.
Normals(list) == [i \in DOMAIN list |-> Norm(list[i])]
Survivors(list) ==
  LET norm == Normals(list)
  IN  {i \in DOMAIN list : /\ \A j \in 1..(i - 1) : norm[j] # norm[i]
                           /\ \A j \in DOMAIN list : ~Within(norm[i], norm[j])}

LEMMA DeduplicateKeeps ==
  ASSUME NEW list
  PROVE  Deduplicate(list) = Keep(list, Survivors(list))
BY DEF Deduplicate, Survivors, Normals

(***************************************************************************)
(* Whatever lies within a snippet that lies within another, the longest of *)
(* them survives: among those a snippet lies in, take one that no other is *)
(* longer than, and of its equals the first.                               *)
(***************************************************************************)
LEMMA SurvivorAround ==
  ASSUME NEW list \in Seq(Text), NEW i \in DOMAIN list
  PROVE  \E m \in Survivors(list) : In(Normals(list)[i], Normals(list)[m])
<1> DEFINE norm == Normals(list)
           n == Len(list)
           around == {j \in 1..n : In(norm[i], norm[j])}
           longer == [j \in around |-> {k \in around : Len(norm[k]) > Len(norm[j])}]
           counts == {Cardinality(longer[j]) : j \in around}
<1>1. n \in Nat /\ DOMAIN list = 1..n /\ \A j \in 1..n : norm[j] \in Text /\ Len(norm[j]) \in Nat
  <2>1. n \in Nat /\ DOMAIN list = 1..n /\ \A j \in 1..n : list[j] \in Text
    BY LenProperties, ElementOfSeq
  <2>2. \A j \in 1..n : norm[j] \in Text
    BY <2>1, NormTyped DEF Normals
  <2>3. \A j \in 1..n : Len(norm[j]) \in Nat
    BY <2>2, LenProperties DEF Text
  <2> QED BY <2>1, <2>2, <2>3
<1> HIDE DEF norm
<1>2. i \in around /\ IsFiniteSet(around)
  <2>1. In(norm[i], norm[i])
    BY <1>1, InReflexive
  <2>2. IsFiniteSet(1..n)
    BY <1>1, FS_Interval
  <2> QED BY <1>1, <2>1, <2>2, FS_Subset
<1>3. \A j \in around : j \in 1..n /\ In(norm[i], norm[j])
  OBVIOUS
<1>4. \A k \in 1..n : In(norm[i], norm[k]) => k \in around
  OBVIOUS
<1> HIDE DEF around
<1>5. \A j \in around : IsFiniteSet(longer[j]) /\ Cardinality(longer[j]) \in Nat
  <2>1. \A j \in around : longer[j] \in SUBSET around
    OBVIOUS
  <2> QED BY <1>2, <2>1, FS_Subset, FS_CardinalityType
<1>6. PICK j \in around : \A k \in around : Cardinality(longer[j]) <= Cardinality(longer[k])
  <2>1. counts \in SUBSET Nat /\ counts # {}
    <3> HIDE DEF longer
    <3> QED BY <1>2, <1>5
  <2>2. Min(counts) \in counts /\ \A c \in counts : Min(counts) <= c
    <3> HIDE DEF counts
    <3> QED BY <2>1, MinFacts
  <2>3. \A k \in around : Cardinality(longer[k]) \in counts
    OBVIOUS
  <2>4. PICK j \in around : Cardinality(longer[j]) = Min(counts)
    BY <2>2
  <2> HIDE DEF counts, longer
  <2> QED BY <2>2, <2>3, <2>4
<1>7. \A k \in around : ~(Len(norm[k]) > Len(norm[j]))
  <2> SUFFICES ASSUME NEW k \in around, Len(norm[k]) > Len(norm[j]) PROVE FALSE
    OBVIOUS
  <2>1. \A l \in around : l \in longer[k] => l \in longer[j]
    BY <1>1, <1>3
  <2>2. longer[k] \in SUBSET longer[j]
    BY <2>1
  <2>3. k \in longer[j] /\ k \notin longer[k]
    BY <1>1, <1>3
  <2> HIDE DEF longer
  <2>4. /\ Cardinality(longer[k]) <= Cardinality(longer[j])
        /\ Cardinality(longer[j]) = Cardinality(longer[k]) => longer[j] = longer[k]
    BY <1>5, <2>2, FS_Subset
  <2>5. Cardinality(longer[j]) = Cardinality(longer[k])
    BY <1>5, <1>6, <2>4
  <2> QED BY <2>3, <2>4, <2>5
<1> DEFINE equals == {k \in 1..n : norm[k] = norm[j]}
           m == Min(equals)
<1>8. m \in equals /\ \A k \in equals : m <= k
  <2>1. equals \in SUBSET Nat /\ j \in equals
    BY <1>3
  <2> HIDE DEF equals
  <2> QED BY <2>1, MinFacts
<1> HIDE DEF m
<1>9. m \in 1..n /\ norm[m] = norm[j]
  BY <1>8
<1>10. \A k \in 1..(m - 1) : norm[k] # norm[m]
  <2> SUFFICES ASSUME NEW k \in 1..(m - 1), norm[k] = norm[m] PROVE FALSE
    OBVIOUS
  <2>1. k \in equals
    BY <1>1, <1>9
  <2> HIDE DEF equals
  <2> QED BY <1>8, <1>9, <2>1
<1>11. \A k \in 1..n : ~Within(norm[m], norm[k])
  <2> SUFFICES ASSUME NEW k \in 1..n, Within(norm[m], norm[k]) PROVE FALSE
    OBVIOUS
  <2>1. Len(norm[j]) < Len(norm[k]) /\ In(norm[j], norm[k])
    BY <1>9 DEF Within
  <2>2. In(norm[i], norm[k])
    BY <1>1, <1>3, <2>1, InTransitive
  <2> QED BY <1>1, <1>3, <1>4, <1>7, <2>1, <2>2
<1>12. m \in Survivors(list)
  BY <1>1, <1>9, <1>10, <1>11 DEF Survivors, norm
<1> QED BY <1>3, <1>9, <1>12 DEF norm

\* Survivors do not lie in each other.
LEMMA SurvivorsApart ==
  ASSUME NEW list \in Seq(Text), NEW p \in Survivors(list), NEW q \in Survivors(list), p # q
  PROVE  ~In(Normals(list)[p], Normals(list)[q])
<1> DEFINE norm == Normals(list)
<1>1. DOMAIN list = 1..Len(list) /\ Len(list) \in Nat
  BY LenProperties
<1>2. /\ p \in 1..Len(list) /\ \A j \in 1..(p - 1) : norm[j] # norm[p]
      /\ q \in 1..Len(list) /\ \A j \in 1..(q - 1) : norm[j] # norm[q]
      /\ ~Within(norm[p], norm[q])
  BY <1>1 DEF Survivors
<1>3. norm[p] \in Text /\ norm[q] \in Text
  BY <1>1, <1>2, ElementOfSeq, NormTyped DEF Normals
<1> HIDE DEF norm
<1>4. Len(norm[p]) \in Nat /\ Len(norm[q]) \in Nat
  BY <1>3, LenProperties DEF Text
<1> SUFFICES ASSUME In(norm[p], norm[q]) PROVE FALSE
  BY DEF norm
<1>5. Len(norm[p]) = Len(norm[q])
  BY <1>2, <1>3, <1>4, InShorter DEF Within
<1>6. norm[p] = norm[q]
  BY <1>3, <1>5, InShorter
<1>7. p \in 1..(q - 1) \/ q \in 1..(p - 1)
  BY <1>2
<1> QED BY <1>2, <1>6, <1>7

\* What deduplicate promises, of any list of texts.
LEMMA Deduplicated ==
  ASSUME NEW list \in Seq(Text)
  PROVE  LET kept == Deduplicate(list)
         IN  /\ kept \in Seq(Text)
             /\ \A g \in ToSet(list) : \E k \in ToSet(kept) : In(Norm(g), Norm(k))
             /\ \A i, j \in DOMAIN kept : i # j => ~In(Norm(kept[i]), Norm(kept[j]))
             /\ Deduplicate(kept) = kept
             /\ ToSet(kept) \subseteq ToSet(list)
<1> DEFINE P == Survivors(list)
           kept == Deduplicate(list)
           size == Cardinality(P)
           order == InOrder(P)
<1>1. Len(list) \in Nat /\ DOMAIN list = 1..Len(list) /\ \A i \in DOMAIN list : list[i] \in Text
  BY LenProperties, ElementOfSeq
<1>2. P \in SUBSET DOMAIN list
  BY DEF Survivors
<1>3. /\ kept \in Seq(Text) /\ Len(kept) = size
      /\ order \in [1..size -> P]
      /\ \A n \in 1..size : kept[n] = list[order[n]]
  BY <1>2, KeepFacts, DeduplicateKeeps
<1>4. /\ size \in Nat
      /\ \A m, n \in 1..size : m < n <=> order[m] < order[n]
      /\ \A p \in P : \E n \in 1..size : order[n] = p
  <2>1. IsFiniteSet(P) /\ P \in SUBSET Int
    <3>1. IsFiniteSet(1..Len(list)) /\ P \in SUBSET (1..Len(list))
      BY <1>1, <1>2, FS_Interval
    <3>2. P \in SUBSET Int
      BY <1>1, <1>2
    <3> HIDE DEF P
    <3>3. IsFiniteSet(P)
      BY <3>1, FS_Subset
    <3> QED BY <3>2, <3>3
  <2> QED BY <2>1, InOrderFacts
<1>5. \A i \in DOMAIN list : Normals(list)[i] = Norm(list[i])
  BY DEF Normals
<1>6. DOMAIN kept = 1..size
  BY <1>3, LenProperties
<1> HIDE DEF kept, size, order
<1>7. ASSUME NEW g \in ToSet(list) PROVE \E k \in ToSet(kept) : In(Norm(g), Norm(k))
  <2>1. PICK i \in DOMAIN list : list[i] = g
    BY DEF ToSet
  <2>2. PICK m \in P : In(Normals(list)[i], Normals(list)[m])
    BY SurvivorAround
  <2>3. PICK n \in 1..size : order[n] = m
    BY <1>4
  <2>4. kept[n] \in ToSet(kept) /\ kept[n] = list[m]
    BY <1>3, <1>6, <2>3 DEF ToSet
  <2> HIDE DEF P
  <2> QED BY <1>2, <1>5, <2>1, <2>2, <2>4
<1>8. ASSUME NEW i \in 1..size, NEW j \in 1..size, i # j
      PROVE  ~In(Norm(kept[i]), Norm(kept[j]))
  <2>1. order[i] \in P /\ order[j] \in P /\ order[i] # order[j]
    <3>1. order[i] \in P /\ order[j] \in P
      BY <1>3
    <3>2. order[i] \in Int /\ order[j] \in Int
      BY <1>1, <1>2, <3>1
    <3> HIDE DEF P
    <3>3. i < j \/ j < i
      BY <1>8
    <3> QED BY <1>4, <3>1, <3>2, <3>3
  <2>2. ~In(Normals(list)[order[i]], Normals(list)[order[j]])
    BY <2>1, SurvivorsApart
  <2> HIDE DEF P
  <2> QED BY <1>2, <1>3, <1>5, <2>1, <2>2
<1>9. Deduplicate(kept) = kept
  <2>1. \A i \in 1..size : kept[i] \in Text
    BY <1>3, ElementOfSeq
  <2>2. \A i \in 1..size : Norm(kept[i]) \in Text
    BY <2>1, NormTyped
  <2>3. \A i, j \in 1..size : i # j => Norm(kept[j]) # Norm(kept[i])
    BY <1>8, <2>2, InReflexive
  <2>4. \A i, j \in 1..size : ~Within(Norm(kept[i]), Norm(kept[j]))
    <3> SUFFICES ASSUME NEW i \in 1..size, NEW j \in 1..size, Within(Norm(kept[i]), Norm(kept[j]))
                 PROVE  FALSE
      OBVIOUS
    <3>1. Len(Norm(kept[i])) < Len(Norm(kept[j])) /\ In(Norm(kept[i]), Norm(kept[j]))
      BY DEF Within
    <3>2. Len(Norm(kept[i])) \in Nat
      BY <2>2, LenProperties DEF Text
    <3>3. i # j
      BY <3>1, <3>2
    <3> QED BY <1>8, <3>1, <3>3
  <2>5. Survivors(kept) = DOMAIN kept
    <3>1. \A i \in 1..size : Normals(kept)[i] = Norm(kept[i])
      BY <1>6 DEF Normals
    <3>2. \A i \in 1..size : \A j \in 1..(i - 1) : j \in 1..size /\ i # j
      BY <1>4
    <3>3. \A i \in 1..size :
            /\ \A j \in 1..(i - 1) : Normals(kept)[j] # Normals(kept)[i]
            /\ \A j \in 1..size : ~Within(Normals(kept)[i], Normals(kept)[j])
      BY <2>3, <2>4, <3>1, <3>2
    <3>4. \A i \in DOMAIN kept : i \in Survivors(kept)
      BY <1>6, <3>3 DEF Survivors
    <3>5. Survivors(kept) \subseteq DOMAIN kept
      BY DEF Survivors
    <3> QED BY <3>4, <3>5
  <2> QED BY <1>3, <2>5, DeduplicateKeeps, KeepAll
<1>10. ToSet(kept) \subseteq ToSet(list)
  <2> SUFFICES ASSUME NEW n \in 1..size PROVE kept[n] \in ToSet(list)
    BY <1>6 DEF ToSet
  <2>1. order[n] \in DOMAIN list
    BY <1>2, <1>3
  <2> QED BY <1>3, <2>1 DEF ToSet
<1> QED BY <1>3, <1>6, <1>7, <1>8, <1>9, <1>10 DEF kept

-----------------------------------------------------------------------------
(* Lists one after the other. *)

\* The first n lists hold as many elements as the first n - 1 and the n-th.
LEMMA ExtentFacts ==
  ASSUME NEW T, NEW lists \in Seq(Seq(T))
  PROVE  /\ Extent(lists, 0) = 0
         /\ \A n \in 0..Len(lists) : Extent(lists, n) \in Nat
         /\ \A n \in 1..Len(lists) : Extent(lists, n) = Extent(lists, n - 1) + Len(lists[n])
<1> DEFINE N == Len(lists)
           Row(m) == {m} \X DOMAIN lists[m]
           Cells(n) == UNION {{m} \X DOMAIN lists[m] : m \in 1..n}
<1>1. N \in Nat /\ \A n \in 1..N : lists[n] \in Seq(T)
  BY LenProperties, ElementOfSeq
<1>2. ASSUME NEW m \in 1..N
      PROVE  Len(lists[m]) \in Nat /\ IsFiniteSet(Row(m)) /\ Cardinality(Row(m)) = Len(lists[m])
  <2>1. Len(lists[m]) \in Nat /\ DOMAIN lists[m] = 1..Len(lists[m])
    BY <1>1, LenProperties
  <2> DEFINE k == Len(lists[m])
  <2>2. IsFiniteSet(1..k) /\ Cardinality(1..k) = k
    BY <2>1, AllInOrder, FS_Interval
  <2>3. IsFiniteSet({m}) /\ Cardinality({m}) = 1
    BY FS_Singleton
  <2> HIDE DEF k
  <2>4. IsFiniteSet({m} \X (1..k)) /\ Cardinality({m} \X (1..k)) = 1 * k
    BY <2>2, <2>3, FS_Product
  <2>5. 1 * k = k
    BY <2>1 DEF k
  <2> QED BY <2>1, <2>4, <2>5 DEF k
<1>3. ASSUME NEW n \in 0..N PROVE IsFiniteSet(Cells(n))
  <2> DEFINE f == [m \in 1..n |-> {m} \X DOMAIN lists[m]]
             rows == {{m} \X DOMAIN lists[m] : m \in 1..n}
  <2>1. f \in Surjection(1..n, rows)
    BY DEF Surjection
  <2>2. IsFiniteSet(1..n)
    BY <1>1, FS_Interval
  <2>3. IsFiniteSet(rows)
    <3> HIDE DEF f, rows
    <3> QED BY <2>1, <2>2, FS_Surjection
  <2>4. \A row \in rows : IsFiniteSet(row)
    <3>1. \A m \in 1..n : m \in 1..N
      BY <1>1
    <3>2. \A m \in 1..n : IsFiniteSet(Row(m))
      BY <1>2, <3>1
    <3> QED BY <3>2
  <2> HIDE DEF rows
  <2>5. IsFiniteSet(UNION rows)
    BY <2>3, <2>4, FS_UNION
  <2> QED BY <2>5 DEF rows
<1>4. \A n \in 0..N : Extent(lists, n) = Cardinality(Cells(n))
  BY DEF Extent
<1>5. Extent(lists, 0) = 0
  <2>1. Cells(0) = {}
    OBVIOUS
  <2> QED BY <1>1, <1>4, <2>1, FS_EmptySet
<1>6. ASSUME NEW n \in 1..N
      PROVE  Extent(lists, n) = Extent(lists, n - 1) + Len(lists[n])
  <2>1. n - 1 \in 0..N /\ n \in 0..N /\ \A m \in 1..n : m \in 1..(n - 1) \/ m = n
    BY <1>1
  <2>2. Cells(n) = Cells(n - 1) \cup Row(n)
    <3>1. \A m \in 1..(n - 1) : m \in 1..n
      OBVIOUS
    <3> QED BY <2>1, <3>1
  <2>3. Cells(n - 1) \cap Row(n) = {}
    OBVIOUS
  <2> HIDE DEF Cells, Row
  <2>4. Cardinality(Cells(n - 1)) \in Nat /\ Cardinality({}) = 0
    BY <1>3, <2>1, FS_CardinalityType, FS_EmptySet
  <2>5. Cardinality(Cells(n)) = Cardinality(Cells(n - 1)) + Cardinality(Row(n)) - Cardinality({})
    BY <1>2, <1>3, <2>1, <2>2, <2>3, FS_Union
  <2>6. /\ Extent(lists, n) = Cardinality(Cells(n))
        /\ Extent(lists, n - 1) = Cardinality(Cells(n - 1))
    BY <1>4, <2>1 DEF Cells
  <2>7. Cardinality(Row(n)) = Len(lists[n]) /\ Len(lists[n]) \in Nat
    BY <1>2
  <2> QED BY <2>4, <2>5, <2>6, <2>7
<1>7. \A n \in 0..N : Extent(lists, n) \in Nat
  BY <1>3, <1>4, FS_CardinalityType
<1> QED BY <1>5, <1>6, <1>7

\* Each position of a concatenation is one of a list, and each of a list has its position.
LEMMA ConcatFacts ==
  ASSUME NEW T, NEW lists \in Seq(Seq(T))
  PROVE  /\ Concat(lists) \in Seq(T)
         /\ Len(Concat(lists)) = Extent(lists, Len(lists))
         /\ \A n \in 1..Len(lists) : \A k \in 1..Len(lists[n]) :
              /\ Extent(lists, n - 1) + k \in 1..Len(Concat(lists))
              /\ Concat(lists)[Extent(lists, n - 1) + k] = lists[n][k]
         /\ \A i \in 1..Len(Concat(lists)) : \E n \in 1..Len(lists) :
              \E k \in 1..Len(lists[n]) : i = Extent(lists, n - 1) + k
<1> DEFINE N == Len(lists)
           E == [n \in 0..N |-> Extent(lists, n)]
           all == Concat(lists)
           From(i) == CHOOSE n \in DOMAIN lists :
                        i \in (Extent(lists, n - 1) + 1)..Extent(lists, n)
<1>1. /\ N \in Nat /\ DOMAIN lists = 1..N
      /\ \A n \in 1..N : lists[n] \in Seq(T) /\ Len(lists[n]) \in Nat
      /\ \A n \in 1..N : \A k \in 1..Len(lists[n]) : lists[n][k] \in T
  <2>1. N \in Nat /\ DOMAIN lists = 1..N /\ \A n \in 1..N : lists[n] \in Seq(T)
    BY LenProperties, ElementOfSeq
  <2>2. \A n \in 1..N : \A k \in 1..Len(lists[n]) : lists[n][k] \in T
    BY <2>1, ElementOfSeq
  <2> QED BY <2>1, <2>2, LenProperties
<1>2. /\ E[0] = 0 /\ \A n \in 0..N : E[n] \in Nat
      /\ \A n \in 1..N : n - 1 \in 0..N /\ n \in 0..N /\ E[n] = E[n - 1] + Len(lists[n])
  <2>1. 0 \in 0..N /\ \A n \in 1..N : n - 1 \in 0..N /\ n \in 0..N
    BY <1>1
  <2> QED BY <2>1, ExtentFacts
<1>3. \A n \in 0..N : E[n] = Extent(lists, n)
  OBVIOUS
<1> HIDE DEF E
<1>4. \A m, n \in 0..N : m <= n => E[m] <= E[n]
  <2> SUFFICES ASSUME NEW m \in 0..N PROVE \A n \in 0..N : m <= n => E[m] <= E[n]
    OBVIOUS
  <2> DEFINE bad == {n \in 0..N : m <= n /\ ~(E[m] <= E[n])}
  <2>1. CASE bad = {}
    BY <2>1
  <2>2. CASE bad # {}
    <3>1. bad \in SUBSET Nat
      BY <1>1
    <3>2. PICK n \in bad : \A k \in bad : n <= k
      <4> HIDE DEF bad
      <4> QED BY <2>2, <3>1, MinFacts
    <3>3. n \in 0..N /\ m <= n /\ ~(E[m] <= E[n]) /\ n # m
      BY <1>2
    <3>4. n \in 1..N /\ n - 1 \in 0..N /\ m <= n - 1
      BY <1>1, <3>3
    <3>5. E[m] <= E[n - 1]
      <4>1. n - 1 \notin bad
        <5> HIDE DEF bad
        <5> QED BY <3>2, <3>4, <1>1
      <4> QED BY <3>4, <4>1
    <3>6. E[n - 1] <= E[n]
      BY <1>1, <1>2, <3>4
    <3>7. E[m] \in Nat /\ E[n - 1] \in Nat /\ E[n] \in Nat
      BY <1>2, <3>3, <3>4
    <3> HIDE DEF bad
    <3> QED BY <3>3, <3>5, <3>6, <3>7
  <2> QED BY <2>1, <2>2
<1>5. ASSUME NEW n \in 1..N, NEW k \in 1..Len(lists[n])
      PROVE  E[n - 1] + k \in 1..E[N] /\ From(E[n - 1] + k) = n
  <2> DEFINE i == E[n - 1] + k
  <2>1. i \in Nat /\ E[n - 1] + 1 <= i /\ i <= E[n] /\ E[n] <= E[N]
    <3>1. /\ E[n - 1] \in Nat /\ E[n] \in Nat /\ E[N] \in Nat
          /\ E[n] = E[n - 1] + Len(lists[n]) /\ Len(lists[n]) \in Nat
      BY <1>1, <1>2
    <3>2. E[n] <= E[N]
      <4>1. n \in 0..N /\ N \in 0..N /\ n <= N
        BY <1>1
      <4> QED BY <1>4, <4>1
    <3> QED BY <3>1, <3>2
  <2> HIDE DEF i
  <2>2. ASSUME NEW m \in 1..N, i \in (E[m - 1] + 1)..E[m] PROVE m = n
    <3>0. /\ m \in 0..N /\ m - 1 \in 0..N /\ n \in 0..N /\ n - 1 \in 0..N
          /\ m < n => m <= n - 1
          /\ n < m => n <= m - 1
      BY <1>1
    <3>1. m < n => E[m] <= E[n - 1]
      BY <1>4, <3>0
    <3>2. n < m => E[n] <= E[m - 1]
      BY <1>4, <3>0
    <3>3. E[m] \in Nat /\ E[m - 1] \in Nat /\ E[n] \in Nat /\ E[n - 1] \in Nat
      BY <1>2
    <3>4. E[m - 1] + 1 <= i /\ i <= E[m]
      BY <2>2, <3>3
    <3>5. ~(E[m] <= E[n - 1]) /\ ~(E[n] <= E[m - 1])
      <4> DEFINE a == E[m]
                 b == E[m - 1]
                 c == E[n]
                 d == E[n - 1]
      <4>1. /\ a \in Nat /\ b \in Nat /\ c \in Nat /\ d \in Nat /\ i \in Nat
            /\ b + 1 <= i /\ i <= a /\ d + 1 <= i /\ i <= c
        BY <2>1, <3>3, <3>4
      <4> HIDE DEF a, b, c, d
      <4>2. ~(a <= d) /\ ~(c <= b)
        BY <4>1
      <4> QED BY <4>2 DEF a, b, c, d
    <3> QED BY <3>1, <3>2, <3>5
  <2>3. i \in (E[n - 1] + 1)..E[n]
    BY <1>2, <2>1
  <2>4. \A m \in 1..N : i \in (Extent(lists, m - 1) + 1)..Extent(lists, m) <=> m = n
    BY <1>2, <1>3, <2>2, <2>3
  <2>5. From(i) = n
    BY <1>1, <2>4
  <2>6. E[n - 1] \in Nat /\ E[N] \in Nat
    BY <1>1, <1>2
  <2>7. i \in 1..E[N]
    BY <1>2, <2>1, <2>6
  <2> QED BY <2>5, <2>7 DEF i
<1>6. ASSUME NEW i \in 1..E[N]
      PROVE  \E n \in 1..N : \E k \in 1..Len(lists[n]) : i = E[n - 1] + k
  <2> DEFINE reach == {n \in 1..N : i <= E[n]}
  <2>1. N \in reach
    <3>1. N # 0
      BY <1>2
    <3> QED BY <1>1, <3>1
  <2>2. PICK n \in reach : \A m \in reach : n <= m
    <3>1. reach \in SUBSET Nat
      BY <1>1
    <3> HIDE DEF reach
    <3> QED BY <2>1, <3>1, MinFacts
  <2>3. n \in 1..N /\ i <= E[n]
    OBVIOUS
  <2>4. E[n - 1] < i
    <3>1. CASE n = 1
      BY <1>2, <3>1
    <3>2. CASE n # 1
      <4>1. n - 1 \in 1..N /\ n - 1 \notin reach
        <5> HIDE DEF reach
        <5> QED BY <1>1, <2>2, <2>3, <3>2
      <4>2. E[n - 1] \in Nat
        BY <1>2, <2>3
      <4> QED BY <4>1, <4>2
    <3> QED BY <3>1, <3>2
  <2>5. i - E[n - 1] \in 1..Len(lists[n]) /\ i = E[n - 1] + (i - E[n - 1])
    <3>1. /\ E[n - 1] \in Nat /\ E[n] = E[n - 1] + Len(lists[n]) /\ Len(lists[n]) \in Nat
      BY <1>1, <1>2, <2>3
    <3> HIDE DEF reach
    <3> QED BY <2>3, <2>4, <3>1
  <2> QED BY <2>3, <2>5
<1>7. all = [i \in 1..E[N] |-> lists[From(i)][i - Extent(lists, From(i) - 1)]]
  BY <1>1, <1>3 DEF Concat
<1> HIDE DEF From
<1>8. ASSUME NEW n \in 1..N, NEW k \in 1..Len(lists[n])
      PROVE  E[n - 1] + k \in 1..E[N] /\ all[E[n - 1] + k] = lists[n][k]
  <2> DEFINE i == E[n - 1] + k
  <2>1. i \in 1..E[N] /\ From(i) = n
    BY <1>5
  <2>2. Extent(lists, n - 1) = E[n - 1] /\ E[n - 1] \in Nat
    BY <1>2, <1>3
  <2>3. i - E[n - 1] = k
    BY <2>2
  <2> HIDE DEF i
  <2>4. all[i] = lists[n][k]
    BY <1>7, <2>1, <2>2, <2>3
  <2> QED BY <2>1, <2>4 DEF i
<1>9. all \in [1..E[N] -> T]
  <2>1. ASSUME NEW i \in 1..E[N] PROVE all[i] \in T
    <3>1. PICK n \in 1..N : \E k \in 1..Len(lists[n]) : i = E[n - 1] + k
      BY <1>6
    <3>2. PICK k \in 1..Len(lists[n]) : i = E[n - 1] + k
      BY <3>1
    <3> HIDE DEF all
    <3>3. all[i] = lists[n][k] /\ lists[n][k] \in T
      BY <1>1, <1>8, <3>2
    <3> QED BY <3>3
  <2> QED BY <1>7, <2>1
<1> HIDE DEF all
<1>10. all \in Seq(T) /\ Len(all) = E[N]
  <2>1. E[N] \in Nat
    BY <1>1, <1>2
  <2> QED BY <1>9, <2>1, FunctionIsSeq
<1>11. \A n \in 1..N : Extent(lists, n - 1) = E[n - 1]
  BY <1>2, <1>3
<1>12. Extent(lists, N) = E[N]
  BY <1>1, <1>3
<1>13. \A n \in 1..N : \A k \in 1..Len(lists[n]) :
         /\ Extent(lists, n - 1) + k \in 1..Len(all)
         /\ all[Extent(lists, n - 1) + k] = lists[n][k]
  BY <1>8, <1>10, <1>11
<1>14. \A i \in 1..Len(all) : \E n \in 1..N :
         \E k \in 1..Len(lists[n]) : i = Extent(lists, n - 1) + k
  <2> SUFFICES ASSUME NEW i \in 1..Len(all)
               PROVE  \E n \in 1..N : \E k \in 1..Len(lists[n]) : i = Extent(lists, n - 1) + k
    OBVIOUS
  <2>1. PICK n \in 1..N : \E k \in 1..Len(lists[n]) : i = E[n - 1] + k
    BY <1>6, <1>10
  <2> QED BY <1>11, <2>1
<1> QED BY <1>10, <1>12, <1>13, <1>14 DEF all

\* Pieces cuts a text into parts of it, none of them empty.
LEMMA PiecesFacts ==
  ASSUME NEW t \in Text, NEW cuts
  PROVE  /\ Pieces(t, cuts) \in Seq(Text)
         /\ \A n \in 1..Len(Pieces(t, cuts)) :
              Pieces(t, cuts)[n] # <<>> /\ In(Pieces(t, cuts)[n], t)
<1> DEFINE starts == {i \in DOMAIN t \ cuts : i = 1 \/ i - 1 \in cuts}
           End(i) == CHOOSE j \in DOMAIN t : j >= i /\ (i..j) \cap cuts = {}
                                             /\ (j = Len(t) \/ j + 1 \in cuts)
           order == InOrder(starts)
           size == Cardinality(starts)
<1>1. Len(t) \in Nat /\ DOMAIN t = 1..Len(t) /\ \A i \in 1..Len(t) : t[i] \in Alphabet
  BY LenProperties, ElementOfSeq DEF Text
<1>2. ASSUME NEW i \in starts PROVE End(i) \in 1..Len(t) /\ End(i) >= i
  <2> DEFINE ends == {j \in i..Len(t) : j = Len(t) \/ j + 1 \in cuts}
  <2>1. i \in 1..Len(t) /\ i \notin cuts
    BY <1>1
  <2>2. PICK j \in ends : \A k \in ends : j <= k
    <3>1. Len(t) \in ends /\ ends \in SUBSET Nat
      BY <1>1, <2>1
    <3> HIDE DEF ends
    <3> QED BY <3>1, MinFacts
  <2>3. j \in i..Len(t) /\ (j = Len(t) \/ j + 1 \in cuts)
    OBVIOUS
  <2> HIDE DEF ends, starts
  <2>4. Len(t) \in Nat /\ i \in Int /\ 1 <= i /\ i <= j /\ j \in Int /\ j <= Len(t)
    <3>1. Len(t) \in Nat
      BY <1>1
    <3>2. i \in 1..Len(t)
      BY <2>1
    <3>3. j \in i..Len(t)
      BY <2>3
    <3> QED BY <3>1, <3>2, <3>3
  <2>5. (i..j) \cap cuts = {}
    <3> SUFFICES ASSUME NEW x \in i..j, x \in cuts PROVE FALSE
      OBVIOUS
    <3>1. x # i /\ x \in Int /\ i <= x /\ x <= j
      BY <2>1, <2>4
    <3>2. x - 1 \in i..Len(t) /\ (x - 1) + 1 = x /\ x - 1 < j
      BY <2>4, <3>1
    <3>3. x - 1 \in ends
      BY <3>2 DEF ends
    <3> QED BY <2>2, <2>4, <3>1, <3>2, <3>3
  <2>6. j \in DOMAIN t /\ j >= i
    BY <1>1, <2>4
  <2> QED BY <1>1, <2>3, <2>5, <2>6
<1>3. starts \in SUBSET (1..Len(t))
  BY <1>1
<1>4. Pieces(t, cuts) = [n \in 1..size |-> SubSeq(t, order[n], End(order[n]))]
  BY DEF Pieces
<1> HIDE DEF starts, End
<1>5. size \in Nat /\ order \in [1..size -> starts]
  <2>1. IsFiniteSet(1..Len(t))
    BY <1>1, FS_Interval
  <2>2. IsFiniteSet(starts)
    BY <1>3, <2>1, FS_Subset
  <2>3. starts \in SUBSET Int
    BY <1>3
  <2> QED BY <2>2, <2>3, InOrderFacts
<1>6. ASSUME NEW n \in 1..size
      PROVE  LET piece == SubSeq(t, order[n], End(order[n]))
             IN  piece \in Text /\ piece # <<>> /\ In(piece, t)
  <2> DEFINE a == order[n]
             b == End(order[n])
             piece == SubSeq(t, a, b)
  <2>1. a \in 1..Len(t) /\ b \in 1..Len(t) /\ a <= b
    <3>1. a \in starts
      BY <1>5
    <3> QED BY <1>2, <1>3, <3>1
  <2> HIDE DEF a, b
  <2>2. a \in Int /\ b \in Int /\ \A i \in a..b : t[i] \in Alphabet
    BY <1>1, <2>1
  <2>3. /\ piece \in Seq(Alphabet) /\ Len(piece) = b - a + 1
        /\ \A k \in 1..(b - a + 1) : piece[k] = t[a + k - 1]
    BY <2>1, <2>2, SubSeqProperties
  <2> HIDE DEF piece
  <2>4. piece # <<>>
    BY <2>1, <2>3, EmptySeq
  <2>5. a - 1 \in 0..(Len(t) - Len(piece))
    BY <1>1, <2>1, <2>3
  <2>6. OccursAt(piece, t, a - 1)
    <3> SUFFICES ASSUME NEW k \in 1..Len(piece) PROVE piece[k] = t[(a - 1) + k]
      BY DEF OccursAt
    <3>1. k \in 1..(b - a + 1) /\ a + k - 1 = (a - 1) + k
      BY <2>1, <2>3
    <3> QED BY <2>3, <3>1
  <2> QED BY <2>3, <2>4, <2>5, <2>6, InMeans DEF piece, a, b, Text
<1> HIDE DEF order, size
<1>7. Pieces(t, cuts) \in [1..size -> Text]
  BY <1>4, <1>6
<1>8. Pieces(t, cuts) \in Seq(Text) /\ Len(Pieces(t, cuts)) = size
  BY <1>5, <1>7, FunctionIsSeq
<1> QED BY <1>4, <1>6, <1>8

\* A snippet is not empty and has no white space at its ends.
Snippet(t) == t \in Text /\ t # <<>> /\ Bare(t)

LEMMA PartsFacts ==
  ASSUME NEW t \in Text
  PROVE  Parts(t) \in Seq(Text) /\ \A n \in 1..Len(Parts(t)) : Snippet(Parts(t)[n])
<1> DEFINE newline(i) == i \in DOMAIN t /\ t[i] = "nl"
           cuts == {i \in DOMAIN t : newline(i) /\ (newline(i - 1) \/ newline(i + 1))}
           pieces == Pieces(t, cuts)
           parts == [n \in DOMAIN pieces |-> Strip(pieces[n])]
           full == {n \in DOMAIN parts : parts[n] # <<>>}
<1>1. Parts(t) = Keep(parts, full)
  BY DEF Parts
<1>2. pieces \in Seq(Text)
  <2> HIDE DEF cuts
  <2> QED BY PiecesFacts
<1> HIDE DEF pieces
<1>3. Len(pieces) \in Nat /\ DOMAIN pieces = 1..Len(pieces) /\ \A n \in 1..Len(pieces) : pieces[n] \in Text
  BY <1>2, LenProperties, ElementOfSeq
<1>4. \A n \in 1..Len(pieces) : parts[n] \in Text /\ Bare(parts[n])
  BY <1>3, StripFacts
<1>5. parts \in Seq(Text) /\ DOMAIN parts = 1..Len(pieces)
  <2>1. parts \in [1..Len(pieces) -> Text]
    BY <1>3, <1>4
  <2> HIDE DEF parts
  <2> QED BY <1>3, <2>1, FunctionIsSeq
<1> HIDE DEF parts
<1>6. full \in SUBSET DOMAIN parts /\ \A n \in full : Snippet(parts[n])
  BY <1>4, <1>5 DEF Snippet
<1> HIDE DEF full
<1>7. /\ Keep(parts, full) \in Seq(Text) /\ Len(Keep(parts, full)) = Cardinality(full)
      /\ InOrder(full) \in [1..Cardinality(full) -> full]
      /\ \A n \in 1..Cardinality(full) : Keep(parts, full)[n] = parts[InOrder(full)[n]]
  BY <1>5, <1>6, KeepFacts
<1>8. \A n \in 1..Cardinality(full) : Snippet(Keep(parts, full)[n])
  BY <1>6, <1>7
<1> QED BY <1>1, <1>7, <1>8

\* What the sources return is a list of snippets.
LEMMA FlattenFacts ==
  ASSUME NEW items \in Seq(Text)
  PROVE  Flatten(items) \in Seq(Text) /\ \A n \in 1..Len(Flatten(items)) : Snippet(Flatten(items)[n])
<1> DEFINE lists == [n \in DOMAIN items |-> Parts(items[n])]
           all == Flatten(items)
<1>1. Len(items) \in Nat /\ DOMAIN items = 1..Len(items) /\ \A n \in 1..Len(items) : items[n] \in Text
  BY LenProperties, ElementOfSeq
<1>2. \A n \in 1..Len(items) :
        lists[n] \in Seq(Text) /\ \A k \in 1..Len(lists[n]) : Snippet(lists[n][k])
  BY <1>1, PartsFacts
<1>3. lists \in Seq(Seq(Text)) /\ Len(lists) = Len(items)
  <2>1. lists \in [1..Len(items) -> Seq(Text)]
    BY <1>1, <1>2
  <2> HIDE DEF lists
  <2> QED BY <1>1, <2>1, FunctionIsSeq
<1>4. all = Concat(lists)
  BY DEF Flatten
<1> HIDE DEF lists, all
<1>5. /\ all \in Seq(Text)
      /\ \A n \in 1..Len(lists) : \A k \in 1..Len(lists[n]) :
           all[Extent(lists, n - 1) + k] = lists[n][k]
      /\ \A i \in 1..Len(all) : \E n \in 1..Len(lists) :
           \E k \in 1..Len(lists[n]) : i = Extent(lists, n - 1) + k
  BY <1>3, <1>4, ConcatFacts
<1>6. ASSUME NEW i \in 1..Len(all) PROVE Snippet(all[i])
  <2>1. PICK n \in 1..Len(lists) : \E k \in 1..Len(lists[n]) : i = Extent(lists, n - 1) + k
    BY <1>5
  <2>2. PICK k \in 1..Len(lists[n]) : i = Extent(lists, n - 1) + k
    BY <2>1
  <2>3. all[i] = lists[n][k]
    BY <1>5, <2>2
  <2> QED BY <1>2, <1>3, <2>3
<1> QED BY <1>5, <1>6 DEF all

-----------------------------------------------------------------------------
(***************************************************************************)
(* EvidenceKeptOnce, for any answers of the sources, in any alphabet and   *)
(* of any length.                                                          *)
(***************************************************************************)
THEOREM EvidenceKeptOnceCorrect == Spec => []EvidenceKeptOnce
<1>1. ScoredInv => EvidenceKeptOnce
  <2> SUFFICES ASSUME ScoredInv PROVE EvidenceKeptOnce
    OBVIOUS
  <2>1. case.items \in Seq(Text)
    BY JudgingAssumption DEF ScoredInv
  <2>2. Given \in Seq(Text)
    BY <2>1, FlattenFacts DEF Given
  <2> HIDE DEF Given
  <2> QED BY <2>2, Deduplicated DEF EvidenceKeptOnce, Kept
<1> QED BY <1>1, Scored, PTL

-----------------------------------------------------------------------------
(* Where claims are shown. *)

LEMMA PrefixMeans ==
  ASSUME NEW s \in Text, NEW t \in Text, Len(s) <= Len(t), \A k \in 1..Len(s) : s[k] = t[k]
  PROVE  IsPrefix(s, t)
<1>1. /\ Len(s) \in Nat /\ \A k \in 1..Len(s) : s[k] \in Alphabet
      /\ Len(t) \in Nat /\ \A k \in 1..Len(t) : t[k] \in Alphabet
  BY LenProperties, ElementOfSeq DEF Text
<1>2. SubSeq(s, 1, Len(s)) = s
  BY SubSeqFull DEF Text
<1> DEFINE n == Len(s)
           front == SubSeq(t, 1, n)
<1>3. /\ front \in Seq(Alphabet) /\ Len(front) = n
      /\ \A k \in 1..n : front[k] = t[k]
  <2>1. n \in Int /\ 1 \in Int /\ \A k \in 1..n : t[k] \in Alphabet
    BY <1>1
  <2>2. /\ front \in Seq(Alphabet) /\ Len(front) = (IF 1 <= n THEN n - 1 + 1 ELSE 0)
        /\ \A k \in 1..(n - 1 + 1) : front[k] = t[1 + k - 1]
    <3> HIDE DEF n
    <3> QED BY <2>1, SubSeqProperties
  <2>3. \A k \in 1..n : k \in 1..(n - 1 + 1) /\ 1 + k - 1 = k
    BY <1>1
  <2>4. Len(front) = n
    BY <1>1, <2>2
  <2> HIDE DEF front, n
  <2> QED BY <2>2, <2>3, <2>4
<1>4. front = s
  BY <1>3, SeqEqual DEF Text
<1> QED BY <1>2, <1>4 DEF IsPrefix

LEMMA FoundSlice ==
  ASSUME NEW s \in Text, NEW t \in Text, In(s, t)
  PROVE  Slice(t, Find(s, t), Find(s, t) + Len(s)) = s
<1>1. Occurrences(s, t) # {} /\ Occurrences(s, t) \in SUBSET Nat
  BY OccurrencesAre DEF In
<1>2. Find(s, t) \in Occurrences(s, t)
  BY <1>1, MinFacts DEF Find
<1> QED BY <1>2 DEF Occurrences

\* The opening of a claim lies in the claim, in lower case.
LEMMA OpeningFacts ==
  ASSUME NEW c \in Text, NEW n \in Nat
  PROVE  /\ Opening(c, n) \in Text /\ Len(Opening(c, n)) <= Len(c)
         /\ In(Opening(c, n), Lower(c))
         /\ Len(c) <= n => Len(Opening(c, n)) = Len(c)
<1> DEFINE low == Lower(c)
           to == IF n <= Len(c) THEN n ELSE Len(c)
           o == Opening(c, n)
<1>1. low \in Text /\ Len(low) = Len(c) /\ Len(c) \in Nat
  BY LowerFacts, LenProperties DEF Text
<1> HIDE DEF low
<1>2. o = Slice(low, 0, to)
  <2>1. o = Slice(low, 0, n)
    BY DEF Opening, low
  <2>2. CASE n <= Len(c)
    BY <2>1, <2>2
  <2>3. CASE ~(n <= Len(c))
    <3>1. Len(low) <= n
      BY <1>1, <2>3
    <3>2. Slice(low, 0, n) = Slice(low, 0, Len(low))
      BY <1>1, <3>1, SliceToEnd
    <3> QED BY <1>1, <2>1, <2>3, <3>2
  <2> QED BY <2>2, <2>3
<1>3. to \in Nat /\ to <= Len(low) /\ to - 0 = to /\ 0 <= to
  BY <1>1
<1> HIDE DEF to, o
<1>4. o \in Text /\ Len(o) = to /\ \A k \in 1..to : o[k] = low[0 + k]
  <2>1. /\ o \in Text /\ Len(o) = to - 0
        /\ \A k \in 1..(to - 0) : o[k] = low[0 + k]
    BY <1>1, <1>2, <1>3, SliceFacts
  <2> QED BY <1>3, <2>1
<1>5. 0 \in 0..(Len(low) - Len(o)) /\ OccursAt(o, low, 0)
  BY <1>1, <1>3, <1>4 DEF OccursAt
<1>6. In(o, low)
  BY <1>1, <1>4, <1>5, InMeans
<1>7. Len(c) <= n => to = Len(c)
  BY <1>1 DEF to
<1> QED BY <1>1, <1>3, <1>4, <1>6, <1>7 DEF o, low

\* The three things LocateClaim returns.
LEMMA LocateFacts ==
  ASSUME NEW c \in Text, NEW a \in Text
  PROVE  LET at == LocateClaim(c, a)
             o == Opening(c, DirectLen)
         IN  \/ /\ at.source # <<>>
                /\ 0 <= at.start /\ at.end <= Len(a)
                /\ Slice(a, at.start, at.end) = at.source
                /\ In(Opening(c, HeadLen), Lower(at.source))
             \/ /\ at.source = <<>> /\ at.start >= 0
                /\ at.start + Len(o) <= Len(a)
                /\ Lower(Slice(a, at.start, at.start + Len(o))) = o
                /\ at.end = at.start + Len(c)
                /\ Len(c) <= DirectLen => at.end <= Len(a)
             \/ /\ at.source = <<>> /\ at.start = -1
                /\ c # <<>> => ~In(Lower(c), Lower(a))
<1> DEFINE sentences == Sentences(a)
           hits == {n \in DOMAIN sentences : In(Opening(c, HeadLen), Lower(sentences[n]))}
           o == Opening(c, DirectLen)
           direct == Find(o, Lower(a))
           at == LocateClaim(c, a)
<1>1. HeadLen \in Nat /\ DirectLen \in Nat /\ Len(a) \in Nat /\ Len(c) \in Nat
  BY JudgingAssumption, LenProperties DEF Text
<1>2. CASE c = <<>>
  <2>1. at = [source |-> <<>>, start |-> -1, end |-> -1]
    BY <1>2 DEF LocateClaim
  <2> HIDE DEF at
  <2> QED BY <1>2, <2>1 DEF at
<1>3. CASE c # <<>> /\ hits # {}
  <2> DEFINE s == sentences[Min(hits)]
  <2>1. at = [source |-> s, start |-> Find(s, a),
              end |-> IF Find(s, a) < 0 THEN -1 ELSE Find(s, a) + Len(s)]
    BY <1>3 DEF LocateClaim
  <2>2. /\ sentences \in Seq(Text)
        /\ \A n \in 1..Len(sentences) : sentences[n] # <<>> /\ In(sentences[n], a)
    BY PiecesFacts DEF Sentences
  <2>3. Min(hits) \in hits
    <3>1. hits \in SUBSET Nat
      <4> HIDE DEF sentences
      <4>1. DOMAIN sentences = 1..Len(sentences) /\ Len(sentences) \in Nat
        BY <2>2, LenProperties
      <4> QED BY <4>1
    <3> HIDE DEF hits
    <3> QED BY <1>3, <3>1, MinFacts
  <2>4. s \in Text /\ s # <<>> /\ In(s, a) /\ In(Opening(c, HeadLen), Lower(s))
    <3> HIDE DEF sentences
    <3>1. DOMAIN sentences = 1..Len(sentences) /\ Len(sentences) \in Nat
      BY <2>2, LenProperties
    <3>2. Min(hits) \in 1..Len(sentences) /\ In(Opening(c, HeadLen), Lower(s))
      BY <2>3, <3>1
    <3> HIDE DEF hits
    <3> QED BY <2>2, <3>2, ElementOfSeq
  <2> HIDE DEF s, at
  <2>5. Find(s, a) \in 0..(Len(a) - Len(s)) /\ Len(s) \in Nat
    BY <2>4, FindFacts, LenProperties DEF Text
  <2>6. at.source = s /\ at.start = Find(s, a) /\ at.end = Find(s, a) + Len(s)
    BY <2>1, <2>5
  <2>7. Slice(a, at.start, at.end) = s
    BY <2>4, <2>6, FoundSlice
  <2>8. 0 <= at.start /\ at.end <= Len(a)
    BY <1>1, <2>5, <2>6
  <2> QED BY <2>4, <2>6, <2>7, <2>8 DEF at
<1>4. CASE c # <<>> /\ hits = {}
  <2>1. at = [source |-> <<>>, start |-> direct,
              end |-> IF direct < 0 THEN -1 ELSE direct + Len(c)]
    BY <1>4 DEF LocateClaim
  <2>2. /\ Lower(c) \in Text /\ Lower(a) \in Text /\ Len(Lower(a)) = Len(a)
        /\ o \in Text /\ Len(o) <= Len(c) /\ In(o, Lower(c)) /\ Len(o) \in Nat
    BY <1>1, LowerFacts, OpeningFacts, LenProperties DEF Text
  <2> HIDE DEF at, o
  <2>3. \/ In(o, Lower(a)) /\ direct \in 0..(Len(a) - Len(o)) /\ OccursAt(o, Lower(a), direct)
        \/ ~In(o, Lower(a)) /\ direct = -1
    BY <2>2, FindFacts
  <2> HIDE DEF direct
  <2>4. CASE ~In(o, Lower(a)) /\ direct = -1
    <3>1. ~In(Lower(c), Lower(a))
      BY <2>2, <2>4, InTransitive
    <3> QED BY <2>1, <2>4, <3>1 DEF at
  <2>5. CASE direct \in 0..(Len(a) - Len(o)) /\ OccursAt(o, Lower(a), direct)
    <3> DEFINE to == direct + Len(o)
               shown == Slice(a, direct, to)
    <3>1. at.source = <<>> /\ at.start = direct /\ at.end = direct + Len(c) /\ at.start >= 0
      BY <2>1, <2>5
    <3>2. /\ direct \in Nat /\ to \in Nat /\ direct <= to /\ to <= Len(a)
          /\ to - direct = Len(o)
      BY <1>1, <2>2, <2>5
    <3>3. Len(c) <= DirectLen => direct + Len(c) = to
      BY <1>1, OpeningFacts DEF o
    <3> HIDE DEF to
    <3>4. /\ shown \in Text /\ Len(shown) = Len(o)
          /\ \A k \in 1..Len(o) : shown[k] = a[direct + k]
      <4>1. /\ shown \in Text /\ Len(shown) = to - direct
            /\ \A k \in 1..(to - direct) : shown[k] = a[direct + k]
        BY <3>2, SliceFacts
      <4> HIDE DEF shown
      <4> QED BY <3>2, <4>1
    <3> HIDE DEF shown
    <3>5. Lower(shown) \in Text /\ Len(Lower(shown)) = Len(o)
      BY <3>4, LowerFacts
    <3>6. \A k \in 1..Len(o) : Lower(shown)[k] = o[k]
      <4> SUFFICES ASSUME NEW k \in 1..Len(o) PROVE o[k] = Lower(shown)[k]
        OBVIOUS
      <4>1. o[k] = Lower(a)[direct + k]
        BY <2>5 DEF OccursAt
      <4>2. direct + k \in 1..Len(a)
        BY <1>1, <2>2, <3>2
      <4>3. shown[k] = a[direct + k] /\ k \in 1..Len(shown)
        BY <3>4
      <4>4. Lower(a)[direct + k] =
              IF a[direct + k] \in DOMAIN LowerOf THEN LowerOf[a[direct + k]] ELSE a[direct + k]
        BY <4>2, LowerFacts
      <4>5. Lower(shown)[k] =
              IF shown[k] \in DOMAIN LowerOf THEN LowerOf[shown[k]] ELSE shown[k]
        BY <3>4, <4>3, LowerFacts
      <4> QED BY <4>1, <4>3, <4>4, <4>5
    <3>7. Lower(shown) = o
      BY <2>2, <3>5, <3>6, SeqEqual DEF Text
    <3>8. at.start + Len(o) = to /\ Slice(a, at.start, at.start + Len(o)) = shown
      BY <3>1 DEF to, shown
    <3> QED BY <3>1, <3>2, <3>3, <3>7, <3>8 DEF at, o
  <2> QED BY <2>3, <2>4, <2>5
<1> QED BY <1>2, <1>3, <1>4

\* The span of a claim is the one LocateClaim found for it in the answer.
SpanInv ==
  \A n \in DOMAIN claimResults :
    /\ claimResults[n].claim \in Text
    /\ claimResults[n].at = LocateClaim(claimResults[n].claim, case.answer)

LEMMA StepKeepsSpans == ScoredInv /\ SpanInv /\ [Next]_vars => SpanInv'
<1> SUFFICES ASSUME ScoredInv, SpanInv, [Next]_vars PROVE SpanInv'
  OBVIOUS
<1>1. CASE JudgePerClaim
  <2>1. case' = case
    BY <1>1 DEF JudgePerClaim
  <2>2. CASE case.claims = Unusable
    <3>1. claimResults' = <<>>
      BY <1>1, <2>2 DEF JudgePerClaim
    <3> QED BY <3>1 DEF SpanInv
  <2>3. CASE case.claims # Unusable
    <3>1. claimResults' = [n \in DOMAIN case.claims |-> ClaimResult(case.claims[n])]
      BY <1>1, <2>3 DEF JudgePerClaim
    <3>2. \A n \in DOMAIN case.claims : case.claims[n].claim \in Text
      BY <2>3, JudgingAssumption DEF ScoredInv
    <3>3. \A n \in DOMAIN case.claims :
            /\ claimResults'[n].claim = case.claims[n].claim
            /\ claimResults'[n].at = LocateClaim(case.claims[n].claim, case.answer)
      BY <3>1 DEF ClaimResult
    <3>4. DOMAIN claimResults' = DOMAIN case.claims
      BY <3>1
    <3> QED BY <2>1, <3>2, <3>3, <3>4 DEF SpanInv
  <2> QED BY <2>2, <2>3
<1>2. CASE UNCHANGED <<case, claimResults>>
  BY <1>2 DEF SpanInv
<1> QED BY <1>1, <1>2 DEF Next, AggregateEvidence, Mediate, Judge, Respond, vars

(***************************************************************************)
(* SpansShowTheirSource, for any answer, claims and prefix lengths: where  *)
(* a span begins the answer has what was looked for, and the only spans    *)
(* that can end beyond the answer are those of claims without a sentence   *)
(* that are longer than DirectLen.                                         *)
(***************************************************************************)
THEOREM SpansCorrect == Spec => []SpansShowTheirSource
<1>1. Init => SpanInv
  BY DEF Init, SpanInv
<1>2. ScoredInv /\ SpanInv => SpansShowTheirSource
  <2> SUFFICES ASSUME ScoredInv, SpanInv, NEW n \in DOMAIN claimResults
               PROVE  LET c == claimResults[n]
                          sought == Opening(c.claim, DirectLen)
                          shown(end) == Slice(case.answer, c.at.start, end)
                      IN  CASE c.at.source # <<>> ->
                                 /\ 0 <= c.at.start /\ c.at.end <= Len(case.answer)
                                 /\ shown(c.at.end) = c.at.source
                                 /\ In(Opening(c.claim, HeadLen), Lower(c.at.source))
                            [] c.at.source = <<>> /\ c.at.start >= 0 ->
                                 /\ c.at.start + Len(sought) <= Len(case.answer)
                                 /\ Lower(shown(c.at.start + Len(sought))) = sought
                                 /\ c.at.end = c.at.start + Len(c.claim)
                                 /\ Len(c.claim) <= DirectLen => c.at.end <= Len(case.answer)
                            [] OTHER -> c.claim # <<>> => ~In(Lower(c.claim), Lower(case.answer))
    BY DEF SpansShowTheirSource
  <2> DEFINE claim == claimResults[n].claim
             at == claimResults[n].at
             sought == Opening(claim, DirectLen)
  <2>1. case.answer \in Text
    BY JudgingAssumption DEF ScoredInv
  <2>2. claim \in Text /\ at = LocateClaim(claim, case.answer)
    BY DEF SpanInv
  <2>3. \/ /\ at.source # <<>>
           /\ 0 <= at.start /\ at.end <= Len(case.answer)
           /\ Slice(case.answer, at.start, at.end) = at.source
           /\ In(Opening(claim, HeadLen), Lower(at.source))
        \/ /\ at.source = <<>> /\ at.start >= 0
           /\ at.start + Len(sought) <= Len(case.answer)
           /\ Lower(Slice(case.answer, at.start, at.start + Len(sought))) = sought
           /\ at.end = at.start + Len(claim)
           /\ Len(claim) <= DirectLen => at.end <= Len(case.answer)
        \/ /\ at.source = <<>> /\ at.start = -1
           /\ claim # <<>> => ~In(Lower(claim), Lower(case.answer))
    <3> HIDE DEF claim, at
    <3> QED BY <2>1, <2>2, LocateFacts
  <2> QED BY <2>3
<1> QED BY <1>1, <1>2, StepKeepsSpans, Scored, PTL DEF Spec

-----------------------------------------------------------------------------
(* Ranking, joining and trimming. *)

LEMMA ScoreTyped == ASSUME NEW t \in Text PROVE Score(t) \in Int
<1> DEFINE said == Phrases \cap ToSet(Lower(t))
<1>1. Len(t) \in Nat
  BY LenProperties DEF Text
<1>2. Cardinality(said) \in Nat
  <2>1. IsFiniteSet(said)
    BY AggregatorAssumption, FS_Intersection
  <2> QED BY <2>1, FS_CardinalityType
<1> HIDE DEF said
<1> DEFINE length == CASE Len(t) < MinFocused -> 1
                       [] Len(t) \in MinFocused..MaxFocused -> 6
                       [] Len(t) \in (MaxFocused + 1)..MaxLong -> 4
                       [] OTHER -> 2
           number == IF Digits \cap ToSet(t) # {} THEN 1 ELSE 0
<1>3. length \in Int
  <2> DEFINE short == Len(t) < MinFocused
             focused == Len(t) \in MinFocused..MaxFocused
             long == Len(t) \in (MaxFocused + 1)..MaxLong
  <2>1. length = CASE short -> 1 [] focused -> 6 [] long -> 4 [] OTHER -> 2
    OBVIOUS
  <2> HIDE DEF short, focused, long
  <2> QED BY <2>1
<1>4. number \in Int
  OBVIOUS
<1>5. Score(t) = length - 2 * Cardinality(said) + number
  BY DEF Score, said
<1> HIDE DEF length, number
<1> QED BY <1>2, <1>3, <1>4, <1>5

\* The positions of the snippets with the best score, the first of them.
BestOf(list) ==
  {i \in DOMAIN list : \A j \in DOMAIN list :
     /\ Score(list[j]) <= Score(list[i])
     /\ Score(list[j]) = Score(list[i]) => i <= j}

\* Ranking is a permutation that puts the best first.
LEMMA RankFacts ==
  ASSUME NEW list \in Seq(Text)
  PROVE  /\ RankEvidence(list) \in Seq(Text)
         /\ Len(RankEvidence(list)) = Len(list)
         /\ \A n \in 1..Len(list) : \E i \in DOMAIN list : RankEvidence(list)[n] = list[i]
         /\ \A i \in BestOf(list) : RankEvidence(list)[1] = list[i]
<1> DEFINE D == DOMAIN list
           N == Len(list)
           mark == [i \in D |-> Score(list[i])]
           ahead(i, j) == mark[i] > mark[j] \/ (mark[i] = mark[j] /\ i < j)
           R == {r \in D \X D : ahead(r[1], r[2])}
           rank == [i \in D |-> Cardinality({j \in D : ahead(j, i)})]
           ranked == RankEvidence(list)
<1>1. N \in Nat /\ D = 1..N /\ \A i \in D : list[i] \in Text
  BY LenProperties, ElementOfSeq
<1>2. \A i \in D : mark[i] \in Int
  BY <1>1, ScoreTyped
<1>3. /\ ranked = [n \in D |-> ranked[n]]
      /\ \A n \in D : ranked[n] = list[CHOOSE i \in D : rank[i] = n - 1]
  <2> DEFINE before(i, j) == Score(list[i]) > Score(list[j]) \/ (Score(list[i]) = Score(list[j]) /\ i < j)
  <2>1. ranked = [n \in D |-> list[CHOOSE i \in D : Cardinality({j \in D : before(j, i)}) = n - 1]]
    BY DEF RankEvidence, Sorted
  <2>2. ASSUME NEW i \in D PROVE rank[i] = Cardinality({j \in D : before(j, i)})
    <3>1. {j \in D : ahead(j, i)} = {j \in D : before(j, i)}
      OBVIOUS
    <3>2. rank[i] = Cardinality({j \in D : ahead(j, i)})
      OBVIOUS
    <3> HIDE DEF rank, ahead, before
    <3> QED BY <3>1, <3>2
  <2> DEFINE count(i) == Cardinality({j \in D : before(j, i)})
  <2>3. ranked = [n \in D |-> list[CHOOSE i \in D : count(i) = n - 1]]
    BY <2>1
  <2>4. \A i \in D : rank[i] = count(i)
    BY <2>2
  <2> HIDE DEF rank, D, before, ranked, count
  <2>5. ASSUME NEW n \in D
        PROVE  (CHOOSE i \in D : count(i) = n - 1) = (CHOOSE i \in D : rank[i] = n - 1)
    BY <2>4
  <2>6. ranked = [n \in D |-> ranked[n]]
    BY <2>3, SMT
  <2>7. ASSUME NEW n \in D PROVE ranked[n] = list[CHOOSE i \in D : rank[i] = n - 1]
    <3>1. ranked[n] = list[CHOOSE i \in D : count(i) = n - 1]
      BY <2>3, SMT
    <3> QED BY <2>5, <3>1, Zenon
  <2> QED BY <2>6, <2>7
<1> HIDE DEF mark, ranked
<1>4. \A i, j \in D : <<i, j>> \in R <=> ahead(i, j)
  OBVIOUS
<1>5. \A i \in D : Below(D, R, i) = {j \in D : ahead(j, i)}
  BY <1>4 DEF Below
<1> HIDE DEF R
<1>6. StrictOrder(R, D)
  <2>1. \A i \in D : <<i, i>> \notin R
    BY <1>1, <1>2, <1>4
  <2>2. ASSUME NEW i \in D, NEW j \in D, NEW k \in D, <<i, j>> \in R, <<j, k>> \in R
        PROVE  <<i, k>> \in R
    <3>1. ahead(i, j) /\ ahead(j, k)
      BY <1>4, <2>2
    <3>2. mark[i] \in Int /\ mark[j] \in Int /\ mark[k] \in Int /\ i \in Int /\ j \in Int /\ k \in Int
      BY <1>1, <1>2
    <3>3. ahead(i, k)
      BY <3>1, <3>2
    <3> QED BY <1>4, <3>3
  <2>3. ASSUME NEW i \in D, NEW j \in D, i # j PROVE <<i, j>> \in R \/ <<j, i>> \in R
    <3>1. mark[i] \in Int /\ mark[j] \in Int /\ i \in Int /\ j \in Int
      BY <1>1, <1>2
    <3>2. ahead(i, j) \/ ahead(j, i)
      BY <2>3, <3>1
    <3> QED BY <1>4, <3>2
  <2> QED BY <2>1, <2>2, <2>3 DEF StrictOrder
<1>7. /\ \A i \in D : rank[i] \in 0..(N - 1)
      /\ \A i, j \in D : <<i, j>> \in R <=> rank[i] < rank[j]
      /\ \A k \in 0..(N - 1) : \E i \in D : rank[i] = k
  <2>1. IsFiniteSet(D) /\ Cardinality(D) = N
    BY <1>1, AllInOrder, FS_Interval
  <2>2. \A i \in D : rank[i] = Cardinality(Below(D, R, i))
    BY <1>5
  <2> HIDE DEF rank, D
  <2>3. /\ \A i \in D : Cardinality(Below(D, R, i)) \in 0..(Cardinality(D) - 1)
        /\ \A i, j \in D : <<i, j>> \in R <=>
             Cardinality(Below(D, R, i)) < Cardinality(Below(D, R, j))
        /\ \A k \in 0..(Cardinality(D) - 1) : \E i \in D : Cardinality(Below(D, R, i)) = k
    BY <1>6, <2>1, RankIsBijection
  <2> QED BY <2>1, <2>2, <2>3
<1>8. \A i \in BestOf(list) : i \in D /\ rank[i] = 0
  <2> SUFFICES ASSUME NEW i \in BestOf(list) PROVE i \in D /\ rank[i] = 0
    OBVIOUS
  <2>1. /\ i \in D
        /\ \A j \in D : mark[j] <= mark[i] /\ (mark[j] = mark[i] => i <= j)
    BY DEF BestOf, mark
  <2>2. \A j \in D : ~ahead(j, i)
    <3> SUFFICES ASSUME NEW j \in D PROVE ~ahead(j, i)
      OBVIOUS
    <3>1. mark[i] \in Int /\ mark[j] \in Int /\ i \in Int /\ j \in Int
      BY <1>1, <1>2, <2>1
    <3>2. mark[j] <= mark[i] /\ (mark[j] = mark[i] => i <= j)
      BY <2>1
    <3> QED BY <3>1, <3>2
  <2>3. {j \in D : ahead(j, i)} = {}
    BY <2>2
  <2> QED BY <2>1, <2>3, FS_EmptySet
<1> HIDE DEF rank
<1>9. ASSUME NEW i \in D, NEW j \in D, rank[i] = rank[j] PROVE i = j
  <2>1. <<i, j>> \notin R /\ <<j, i>> \notin R
    <3>1. rank[i] \in Int /\ rank[j] \in Int
      BY <1>7
    <3> QED BY <1>7, <1>9, <3>1
  <2> QED BY <1>6, <2>1 DEF StrictOrder
<1>10. ASSUME NEW n \in 1..N
       PROVE  \E i \in D : rank[i] = n - 1 /\ ranked[n] = list[i]
  <2>1. n - 1 \in 0..(N - 1) /\ n \in D
    BY <1>1
  <2>2. (CHOOSE i \in D : rank[i] = n - 1) \in D
        /\ rank[CHOOSE i \in D : rank[i] = n - 1] = n - 1
    BY <1>7, <2>1
  <2> QED BY <1>3, <2>1, <2>2
<1>11. ranked \in Seq(Text) /\ Len(ranked) = N
  <2>1. \A n \in 1..N : ranked[n] \in Text
    BY <1>1, <1>10
  <2>2. ranked \in [1..N -> Text]
    BY <1>1, <1>3, <2>1
  <2> QED BY <1>1, <2>2, FunctionIsSeq
<1>12. ASSUME NEW i \in BestOf(list) PROVE ranked[1] = list[i]
  <2>1. i \in D /\ rank[i] = 0
    BY <1>8
  <2>2. 1 \in 1..N /\ 1 - 1 = 0
    BY <1>1, <2>1
  <2>3. PICK j \in D : rank[j] = 1 - 1 /\ ranked[1] = list[j]
    BY <1>10, <2>2
  <2> QED BY <1>9, <2>1, <2>2, <2>3
<1> QED BY <1>10, <1>11, <1>12 DEF ranked

\* Joined snippets begin with the first, end with the last, and what follows the first is blank.
LEMMA JoinFacts ==
  ASSUME NEW texts \in Seq(Text), \A n \in 1..Len(texts) : Snippet(texts[n])
  PROVE  LET all == Join(BlankLine, texts)
         IN  /\ all \in Text /\ Bare(all)
             /\ Len(texts) >= 1 =>
                  /\ Len(texts[1]) <= Len(all)
                  /\ \A k \in 1..Len(texts[1]) : all[k] = texts[1][k]
                  /\ Len(texts[1]) < Len(all) => all[Len(texts[1]) + 1] = "nl"
<1> DEFINE N == Len(texts)
           lists == [n \in DOMAIN texts |-> IF n < Len(texts) THEN texts[n] \o BlankLine ELSE texts[n]]
           all == Join(BlankLine, texts)
<1>1. /\ N \in Nat /\ DOMAIN texts = 1..N
      /\ \A n \in 1..N : texts[n] \in Text /\ texts[n] # <<>> /\ Len(texts[n]) \in Nat /\ Len(texts[n]) >= 1
      /\ \A n \in 1..N : texts[n][1] \notin White /\ texts[n][Len(texts[n])] \notin White
  <2>1. N \in Nat /\ DOMAIN texts = 1..N
    BY LenProperties
  <2>2. \A n \in 1..N : texts[n] \in Text /\ texts[n] # <<>> /\ Bare(texts[n])
    BY DEF Snippet
  <2>3. \A n \in 1..N : Len(texts[n]) \in Nat \ {0}
    BY <2>2, EmptySeq DEF Text
  <2>4. \A n \in 1..N : texts[n][1] \notin White /\ texts[n][Len(texts[n])] \notin White
    BY <2>2 DEF Bare
  <2> QED BY <2>1, <2>2, <2>3, <2>4
<1>2. BlankLine \in Text /\ Len(BlankLine) = 2 /\ BlankLine[1] = "nl"
  <2>1. "nl" \in Alphabet
    BY AggregatorAssumption DEF White
  <2> QED BY <2>1 DEF BlankLine, Text
<1>3. ASSUME NEW n \in 1..N, n < N
      PROVE  /\ lists[n] \in Text /\ Len(lists[n]) = Len(texts[n]) + 2
             /\ \A k \in 1..Len(texts[n]) : lists[n][k] = texts[n][k]
             /\ lists[n][Len(texts[n]) + 1] = "nl"
  <2>1. lists[n] = texts[n] \o BlankLine
    BY <1>1, <1>3
  <2>2. /\ texts[n] \o BlankLine \in Seq(Alphabet)
        /\ Len(texts[n] \o BlankLine) = Len(texts[n]) + Len(BlankLine)
        /\ \A k \in 1..(Len(texts[n]) + Len(BlankLine)) : (texts[n] \o BlankLine)[k] =
             IF k <= Len(texts[n]) THEN texts[n][k] ELSE BlankLine[k - Len(texts[n])]
    <3>1. texts[n] \in Seq(Alphabet) /\ BlankLine \in Seq(Alphabet)
      BY <1>1, <1>2 DEF Text
    <3> QED BY <3>1, ConcatProperties, Zenon
  <2> HIDE DEF lists
  <2> DEFINE m == Len(texts[n])
  <2>3. m \in Nat
    BY <1>1
  <2>4. /\ lists[n] \in Text /\ Len(lists[n]) = m + 2
        /\ \A k \in 1..(m + 2) :
             lists[n][k] = IF k <= m THEN texts[n][k] ELSE BlankLine[k - m]
    BY <1>2, <2>1, <2>2 DEF Text
  <2> HIDE DEF m
  <2>5. \A k \in 1..m : lists[n][k] = texts[n][k]
    BY <2>3, <2>4
  <2>6. lists[n][m + 1] = "nl"
    <3>1. m + 1 \in 1..(m + 2) /\ ~(m + 1 <= m) /\ (m + 1) - m = 1
      BY <2>3
    <3> QED BY <1>2, <2>4, <3>1
  <2> QED BY <2>4, <2>5, <2>6 DEF m
<1>4. N \in 1..N => lists[N] = texts[N]
  BY <1>1
<1>5. lists \in Seq(Seq(Alphabet)) /\ Len(lists) = N
  <2>1. \A n \in 1..N : lists[n] \in Seq(Alphabet)
    <3> SUFFICES ASSUME NEW n \in 1..N PROVE lists[n] \in Seq(Alphabet)
      OBVIOUS
    <3>1. CASE n < N
      BY <1>3, <3>1 DEF Text
    <3>2. CASE ~(n < N)
      <4>1. n = N
        <5> HIDE DEF N
        <5> QED BY <1>1, <3>2
      <4> HIDE DEF lists
      <4> QED BY <1>1, <1>4, <4>1 DEF Text
    <3> QED BY <3>1, <3>2
  <2>2. lists \in [1..N -> Seq(Alphabet)]
    BY <1>1, <2>1
  <2> HIDE DEF lists
  <2> QED BY <1>1, <2>2, FunctionIsSeq
<1>6. all = Concat(lists)
  BY DEF Join
<1> HIDE DEF lists, all
<1>7. /\ all \in Seq(Alphabet) /\ Len(all) = Extent(lists, N)
      /\ \A n \in 1..N : \A k \in 1..Len(lists[n]) :
           /\ Extent(lists, n - 1) + k \in 1..Len(all)
           /\ all[Extent(lists, n - 1) + k] = lists[n][k]
  <2>1. lists \in Seq(Seq(Alphabet))
    BY <1>5
  <2>2. /\ Concat(lists) \in Seq(Alphabet) /\ Len(Concat(lists)) = Extent(lists, Len(lists))
        /\ \A n \in 1..Len(lists) : \A k \in 1..Len(lists[n]) :
             /\ Extent(lists, n - 1) + k \in 1..Len(Concat(lists))
             /\ Concat(lists)[Extent(lists, n - 1) + k] = lists[n][k]
    BY <2>1, ConcatFacts, Zenon
  <2> QED BY <1>5, <1>6, <2>2, Zenon
<1>8. /\ Extent(lists, 0) = 0
      /\ \A n \in 0..N : Extent(lists, n) \in Nat
      /\ \A n \in 1..N : Extent(lists, n) = Extent(lists, n - 1) + Len(lists[n])
  BY <1>5, ExtentFacts
<1>9. CASE N = 0
  <2>1. Len(all) = 0
    BY <1>7, <1>8, <1>9
  <2>2. all = <<>>
    BY <1>7, <2>1, EmptySeq
  <2> QED BY <1>7, <1>9, <2>2 DEF all, Bare, Text
<1>10. CASE N >= 1
  <2>1. 1 \in 1..N /\ N \in 1..N /\ 1 - 1 = 0 /\ N - 1 \in 0..N
    BY <1>1, <1>10
  <2> DEFINE first == texts[1]
             m == Len(first)
  <2>2. /\ m \in Nat /\ m >= 1 /\ first[1] \notin White
        /\ m <= Len(lists[1]) /\ Len(lists[1]) \in Nat
        /\ \A k \in 1..m : lists[1][k] = first[k]
        /\ N > 1 => Len(lists[1]) >= m + 1 /\ lists[1][m + 1] = "nl"
    <3>1. m \in Nat /\ m >= 1 /\ first[1] \notin White
      BY <1>1, <2>1
    <3>2. CASE N = 1
      BY <1>4, <2>1, <3>1, <3>2
    <3>3. CASE N > 1
      <4>1. 1 < N
        BY <3>3
      <4>2. /\ Len(lists[1]) = m + 2
            /\ \A k \in 1..m : lists[1][k] = first[k]
            /\ lists[1][m + 1] = "nl"
        BY <1>3, <2>1, <4>1
      <4> HIDE DEF m, first
      <4> QED BY <3>1, <4>2
    <3> QED BY <1>1, <1>10, <3>2, <3>3
  <2> HIDE DEF m, first
  <2>3. \A k \in 1..Len(lists[1]) : k \in 1..Len(all) /\ all[k] = lists[1][k]
    <3> SUFFICES ASSUME NEW k \in 1..Len(lists[1]) PROVE k \in 1..Len(all) /\ all[k] = lists[1][k]
      OBVIOUS
    <3>1. Extent(lists, 1 - 1) + k = k
      BY <1>8, <2>1
    <3> QED BY <1>7, <2>1, <3>1
  <2>4. Len(all) \in Nat
    BY <1>7, LenProperties
  <2>5. m <= Len(all) /\ \A k \in 1..m : all[k] = first[k]
    <3>1. m \in 1..Len(lists[1]) /\ \A k \in 1..m : k \in 1..Len(lists[1])
      BY <2>2
    <3> QED BY <2>2, <2>3, <2>4, <3>1
  <2>6. ASSUME m < Len(all) PROVE all[m + 1] = "nl"
    <3>1. CASE N > 1
      <4>1. m + 1 \in 1..Len(lists[1])
        BY <2>2, <3>1
      <4> QED BY <2>2, <2>3, <3>1, <4>1
    <3>2. CASE N = 1
      <4>1. Len(all) = Len(lists[1])
        BY <1>7, <1>8, <2>1, <2>2, <3>2
      <4>2. lists[1] = first
        BY <1>4, <2>1, <3>2 DEF first
      <4> QED BY <2>4, <2>6, <4>1, <4>2 DEF m
    <3> QED BY <1>1, <1>10, <3>1, <3>2
  <2>7. all[1] \notin White
    <3>1. 1 \in 1..m
      BY <2>2
    <3> QED BY <2>2, <2>5, <3>1
  <2>8. all[Len(all)] \notin White
    <3> DEFINE l == Len(texts[N])
    <3>1. l \in Nat /\ l >= 1 /\ texts[N][l] \notin White /\ lists[N] = texts[N]
      BY <1>1, <1>4, <2>1
    <3>2. Len(all) = Extent(lists, N - 1) + l
      BY <1>7, <1>8, <2>1, <3>1
    <3>3. l \in 1..Len(lists[N])
      BY <3>1
    <3> HIDE DEF l
    <3>4. all[Extent(lists, N - 1) + l] = lists[N][l]
      BY <1>7, <2>1, <3>3
    <3> QED BY <3>1, <3>2, <3>4
  <2>9. all \in Text /\ Bare(all)
    BY <1>7, <2>7, <2>8 DEF Bare, Text
  <2> QED BY <1>10, <2>5, <2>6, <2>9 DEF all, m, first
<1> QED BY <1>1, <1>9, <1>10
\* What begins and ends in ink stays, up to that end.
LEMMA StripKeepsStart ==
  ASSUME NEW t \in Text, NEW m \in 1..Len(t), t[1] \notin White, t[m] \notin White
  PROVE  m <= Len(Strip(t)) /\ \A k \in 1..m : Strip(t)[k] = t[k]
<1>1. Len(t) \in Nat
  BY LenProperties DEF Text
<1>2. PICK a \in 1..m, b \in m..Len(t) :
        /\ t[a] \notin White /\ \A i \in 1..(a - 1) : t[i] \in White
        /\ t[b] \notin White
        /\ Strip(t) \in Text /\ Len(Strip(t)) = b - a + 1
        /\ \A k \in 1..(b - a + 1) : Strip(t)[k] = t[a + k - 1]
  BY StripCuts, Zenon
<1>3. a = 1
  <2>1. CASE a > 1
    <3>1. 1 \in 1..(a - 1)
      BY <1>1, <2>1
    <3> QED BY <1>2, <3>1
  <2> QED BY <1>1, <2>1
<1>4. Len(Strip(t)) = b /\ b \in Nat /\ m <= b
  BY <1>1, <1>2, <1>3
<1>5. ASSUME NEW k \in 1..m PROVE Strip(t)[k] = t[k]
  <2>1. k \in 1..(b - a + 1) /\ a + k - 1 = k
    BY <1>1, <1>3, <1>4
  <2> QED BY <1>2, <2>1
<1> QED BY <1>4, <1>5

LEMMA MaxOfTwo ==
  ASSUME NEW x \in Int, NEW y \in Int
  PROVE  Max({x, y}) \in {x, y} /\ x <= Max({x, y}) /\ y <= Max({x, y})
<1>1. \E u \in {x, y} : \A v \in {x, y} : u >= v
  <2>1. x >= y \/ y >= x
    OBVIOUS
  <2>2. x >= x /\ y >= y
    OBVIOUS
  <2> QED BY <2>1, <2>2
<1> DEFINE u == Max({x, y})
<1>2. u \in {x, y} /\ \A v \in {x, y} : u >= v
  BY <1>1 DEF Max
<1> HIDE DEF u
<1>3. u \in Int /\ u >= x /\ u >= y
  BY <1>2
<1> QED BY <1>2, <1>3 DEF u

\* The last place where a character stands, or -1.
LEMMA RFindFacts ==
  ASSUME NEW c \in Alphabet, NEW t \in Text
  PROVE  /\ RFind(<<c>>, t) \in -1..(Len(t) - 1)
         /\ \A i \in 0..(Len(t) - 1) : t[i + 1] = c => i <= RFind(<<c>>, t)
<1> DEFINE s == <<c>>
           at == Occurrences(s, t)
<1>1. s \in Text /\ Len(s) = 1 /\ s[1] = c
  BY DEF Text
<1>2. Len(t) \in Nat
  BY LenProperties DEF Text
<1>3. at \in SUBSET (0..(Len(t) - 1))
  BY <1>1, OccurrencesAre
<1>4. \A i \in 0..(Len(t) - 1) : t[i + 1] = c => i \in at
  <2> SUFFICES ASSUME NEW i \in 0..(Len(t) - 1), t[i + 1] = c PROVE i \in at
    OBVIOUS
  <2>1. OccursAt(s, t, i)
    BY <1>1 DEF OccursAt
  <2> QED BY <1>1, <2>1, OccurrencesAre
<1>5. RFind(s, t) = IF at # {} THEN Max(at) ELSE -1
  BY DEF RFind, In
<1> HIDE DEF at, s
<1>6. CASE at = {}
  <2>1. RFind(s, t) = -1 /\ \A i \in 0..(Len(t) - 1) : t[i + 1] # c
    BY <1>4, <1>5, <1>6
  <2> QED BY <1>2, <2>1 DEF s
<1>7. CASE at # {}
  <2>1. RFind(s, t) = Max(at)
    BY <1>5, <1>7
  <2> DEFINE n == Len(t)
  <2>2. n - 1 \in Nat
    <3>1. n \in Nat /\ \E i \in at : i \in 0..(n - 1)
      BY <1>2, <1>3, <1>7
    <3> HIDE DEF n
    <3> QED BY <3>1
  <2>3. Max(at) \in at /\ \A i \in at : i <= Max(at)
    BY <1>3, <1>7, <2>2, MaxFacts
  <2>4. Max(at) \in -1..(n - 1)
    <3>1. Max(at) \in 0..(n - 1)
      BY <1>3, <2>3
    <3> HIDE DEF n
    <3> QED BY <2>2, <3>1
  <2> QED BY <1>4, <2>1, <2>3, <2>4 DEF s
<1> QED BY <1>6, <1>7

LEMMA BudgetOf ==
  ASSUME NEW n \in Nat
  PROVE  /\ Limit \in Nat /\ Limit >= 4
         /\ n <= Limit => n \div 4 <= MaxTokens
         /\ n \div 4 > MaxTokens => Limit < n
BY AggregatorAssumption DEF Limit

\* Starts(t, m): the first m characters of t begin and end in ink, and a new line follows them.
Starts(t, m) ==
  /\ m \in 1..Len(t) /\ t[1] \notin White /\ t[m] \notin White
  /\ m < Len(t) => t[m + 1] = "nl"

\* A text that is too long is cut inside the limit, and behind a start that ends before it.
LEMMA CutFacts ==
  ASSUME NEW t \in Text, Limit < Len(t)
  PROVE  LET trimmed == Slice(t, 0, Limit)
             cut == Max({RFind(<<".">>, trimmed), RFind(<<"nl">>, trimmed)})
         IN  /\ trimmed \in Text /\ Len(trimmed) = Limit
             /\ \A k \in 1..Limit : trimmed[k] = t[k]
             /\ cut \in -1..(Limit - 1)
             /\ \A m \in 1..(Limit - 1) : Starts(t, m) => m <= cut
<1> DEFINE trimmed == Slice(t, 0, Limit)
           line == RFind(<<"nl">>, trimmed)
           stop == RFind(<<".">>, trimmed)
           cut == Max({stop, line})
<1>1. Limit \in Nat /\ Limit >= 4 /\ Len(t) \in Nat
  BY LenProperties, BudgetOf DEF Text
<1>2. /\ trimmed \in Text /\ Len(trimmed) = Limit
      /\ \A k \in 1..Limit : trimmed[k] = t[k]
  <2>1. /\ trimmed \in Text /\ Len(trimmed) = Limit - 0
        /\ \A k \in 1..(Limit - 0) : trimmed[k] = t[0 + k]
    <3>1. 0 \in Nat /\ 0 <= Limit /\ Limit <= Len(t)
      BY <1>1
    <3> QED BY <1>1, <3>1, SliceFacts
  <2>2. Limit - 0 = Limit /\ \A k \in 1..Limit : 0 + k = k
    BY <1>1
  <2> HIDE DEF trimmed
  <2> QED BY <2>1, <2>2
<1> HIDE DEF trimmed
<1>3. "nl" \in Alphabet /\ "." \in Alphabet
  BY AggregatorAssumption DEF White, Stop
<1>4. /\ stop \in -1..(Limit - 1) /\ line \in -1..(Limit - 1)
      /\ \A i \in 0..(Limit - 1) : trimmed[i + 1] = "nl" => i <= line
  BY <1>2, <1>3, RFindFacts
<1> HIDE DEF line, stop
<1>5. cut \in {stop, line} /\ line <= cut
  <2>1. stop \in Int /\ line \in Int
    BY <1>1, <1>4
  <2> QED BY <2>1, MaxOfTwo
<1> HIDE DEF cut
<1>6. cut \in -1..(Limit - 1)
  BY <1>4, <1>5
<1>7. ASSUME NEW m \in 1..(Limit - 1), Starts(t, m) PROVE m <= cut
  <2>1. m < Len(t) /\ m + 1 \in 1..Limit /\ m \in 0..(Limit - 1)
    BY <1>1
  <2>2. trimmed[m + 1] = "nl"
    BY <1>2, <1>7, <2>1 DEF Starts
  <2>3. m <= line
    BY <1>4, <2>1, <2>2
  <2> QED BY <1>1, <1>4, <1>5, <1>6, <2>3
<1> QED BY <1>2, <1>6, <1>7 DEF trimmed, cut, line, stop

\* Trimmed text is within the budget, without white space at its ends, and keeps a start below the limit.
LEMMA TrimFacts ==
  ASSUME NEW t \in Text, Bare(t)
  PROVE  LET out == TrimToBudget(t)
         IN  /\ Tokens(out) <= MaxTokens
             /\ Strip(out) = out
             /\ out \in Text
             /\ \A m \in 1..(Limit - 1) :
                  Starts(t, m) => m <= Len(out) /\ \A k \in 1..m : out[k] = t[k]
<1> DEFINE trimmed == Slice(t, 0, Limit)
           cut == Max({RFind(<<".">>, trimmed), RFind(<<"nl">>, trimmed)})
           out == TrimToBudget(t)
<1>1. Limit \in Nat /\ Limit >= 4 /\ Len(t) \in Nat /\ MaxTokens \in Nat
  BY LenProperties, BudgetOf, AggregatorAssumption DEF Text
<1>2. Tokens(t) \in Int
  BY <1>1 DEF Tokens
<1>3. CASE Tokens(t) <= MaxTokens
  <2>1. out = t
    BY <1>1, <1>2, <1>3 DEF TrimToBudget
  <2>2. Strip(t) = t
    BY StripFacts
  <2>3. \A m \in 1..(Limit - 1) : Starts(t, m) => m <= Len(t)
    BY <1>1 DEF Starts
  <2> HIDE DEF out
  <2> QED BY <1>3, <2>1, <2>2, <2>3 DEF out
<1>4. CASE ~(Tokens(t) <= MaxTokens)
  <2>1. Tokens(t) > MaxTokens /\ Limit < Len(t)
    BY <1>1, <1>2, <1>4, BudgetOf DEF Tokens
  <2>2. /\ trimmed \in Text /\ Len(trimmed) = Limit
        /\ \A k \in 1..Limit : trimmed[k] = t[k]
        /\ cut \in -1..(Limit - 1)
        /\ \A m \in 1..(Limit - 1) : Starts(t, m) => m <= cut
    BY <2>1, CutFacts
  <2>3. PICK to \in 0..Limit :
          /\ out = Strip(Slice(trimmed, 0, to))
          /\ \A m \in 1..(Limit - 1) : Starts(t, m) => m <= to
    <3>1. CASE 2 * cut > Limit
      <4>1. out = Strip(Slice(trimmed, 0, cut + 1))
        BY <1>1, <1>4, <2>1, <3>1 DEF TrimToBudget
      <4> HIDE DEF cut, out, trimmed
      <4>2. cut + 1 \in 0..Limit /\ cut \in Int /\ \A m \in 1..(Limit - 1) : Starts(t, m) => m <= cut + 1
        BY <1>1, <2>2
      <4> QED BY <4>1, <4>2
    <3>2. CASE ~(2 * cut > Limit)
      <4>1. out = Strip(trimmed)
        BY <1>4, <2>1, <3>2 DEF TrimToBudget
      <4>2. Slice(trimmed, 0, Limit) = trimmed
        <5> HIDE DEF trimmed
        <5>1. /\ Slice(trimmed, 0, Limit) \in Text /\ Len(Slice(trimmed, 0, Limit)) = Limit - 0
              /\ \A k \in 1..(Limit - 0) : Slice(trimmed, 0, Limit)[k] = trimmed[0 + k]
          <6>1. 0 \in Nat /\ 0 <= Limit /\ Limit <= Len(trimmed)
            BY <1>1, <2>2
          <6> QED BY <1>1, <2>2, <6>1, SliceFacts
        <5>2. Limit - 0 = Limit /\ \A k \in 1..Limit : 0 + k = k
          BY <1>1
        <5>3. /\ Len(Slice(trimmed, 0, Limit)) = Len(trimmed)
              /\ \A k \in 1..Len(trimmed) : Slice(trimmed, 0, Limit)[k] = trimmed[k]
          BY <2>2, <5>1, <5>2
        <5> QED BY <2>2, <5>1, <5>3, SeqEqual DEF Text
      <4> HIDE DEF out, trimmed, cut
      <4> QED BY <1>1, <4>1, <4>2
    <3> QED BY <3>1, <3>2
  <2> DEFINE part == Slice(trimmed, 0, to)
  <2> HIDE DEF trimmed, out
  <2>4. part \in Text /\ Len(part) = to /\ \A k \in 1..to : part[k] = t[k]
    <3>1. /\ part \in Text /\ Len(part) = to - 0
          /\ \A k \in 1..(to - 0) : part[k] = trimmed[0 + k]
      <4>1. 0 \in Nat /\ to \in Nat /\ 0 <= to /\ to <= Len(trimmed)
        BY <1>1, <2>2
      <4> QED BY <2>2, <4>1, SliceFacts
    <3>2. to - 0 = to /\ \A k \in 1..to : 0 + k = k /\ k \in 1..Limit
      BY <1>1
    <3> HIDE DEF part
    <3> QED BY <2>2, <3>1, <3>2
  <2> HIDE DEF part
  <2>5. out = Strip(part) /\ out \in Text /\ Len(out) <= to /\ Bare(out)
    BY <2>3, <2>4, StripFacts DEF part
  <2>6. Strip(out) = out
    BY <2>5, StripFacts
  <2>7. Tokens(out) <= MaxTokens
    <3>1. Len(out) \in Nat
      BY <2>5, LenProperties DEF Text
    <3>2. Len(out) <= Limit
      BY <1>1, <2>5, <3>1
    <3> QED BY <3>1, <3>2, BudgetOf DEF Tokens
  <2>8. ASSUME NEW m \in 1..(Limit - 1), Starts(t, m)
        PROVE  m <= Len(out) /\ \A k \in 1..m : out[k] = t[k]
    <3>1. m \in 1..to /\ 1 \in 1..to /\ \A k \in 1..m : k \in 1..to
      <4>1. m <= to
        BY <2>3, <2>8
      <4> QED BY <1>1, <4>1
    <3>2. part[1] \notin White /\ part[m] \notin White
      BY <2>4, <2>8, <3>1 DEF Starts
    <3>3. m <= Len(out) /\ \A k \in 1..m : out[k] = part[k]
      BY <2>4, <2>5, <3>1, <3>2, StripKeepsStart
    <3> QED BY <2>4, <3>1, <3>3
  <2> QED BY <2>5, <2>6, <2>7, <2>8 DEF out
<1> QED BY <1>3, <1>4

-----------------------------------------------------------------------------
\* The judge is reached without the mediator only with what Aggregate made of one item.
EvidenceInv ==
  /\ stage = "mediate" => Len(case.items) > 1
  /\ stage = "judge" /\ Len(case.items) = 1 => evidence = Aggregate(case.items)

LEMMA StepKeepsEvidence == EvidenceInv /\ [Next]_vars => EvidenceInv'
<1> SUFFICES ASSUME EvidenceInv, [Next]_vars PROVE EvidenceInv'
  OBVIOUS
<1>1. CASE AggregateEvidence
  <2> HIDE DEF Aggregate
  <2> QED BY <1>1 DEF AggregateEvidence, Goto, EvidenceInv
<1>2. CASE Mediate
  <2>1. Len(case.items) > 1
    BY <1>2 DEF Mediate, Goto, EvidenceInv
  <2>2. Len(case.items) # 1
    <3>1. ~(1 > 1)
      OBVIOUS
    <3> QED BY <2>1, <3>1, Zenon
  <2> QED BY <1>2, <2>2 DEF Mediate, Goto, EvidenceInv
<1>3. CASE Judge \/ JudgePerClaim \/ Respond
  <2>1. stage' \notin {"mediate", "judge"}
    BY <1>3 DEF Judge, JudgePerClaim, Respond, Goto
  <2> QED BY <2>1 DEF EvidenceInv
<1>4. CASE UNCHANGED vars
  BY <1>4 DEF vars, EvidenceInv
<1> QED BY <1>1, <1>2, <1>3, <1>4 DEF Next

\* What becomes of the kept snippets of any items.
LEMMA AggregateFacts ==
  ASSUME NEW items \in Seq(Text)
  PROVE  LET kept == Deduplicate(Flatten(items))
             out == Aggregate(items)
         IN  /\ Tokens(out) <= MaxTokens
             /\ Strip(out) = out
             /\ \A i \in BestOf(kept) : Len(kept[i]) < Limit => IsPrefix(kept[i], out)
<1> DEFINE given == Flatten(items)
           kept == Deduplicate(given)
           ranked == RankEvidence(kept)
           all == Join(BlankLine, ranked)
           out == TrimToBudget(all)
<1>1. given \in Seq(Text) /\ \A n \in 1..Len(given) : Snippet(given[n])
  BY FlattenFacts
<1> HIDE DEF given
<1>2. kept \in Seq(Text) /\ ToSet(kept) \subseteq ToSet(given)
  BY <1>1, Deduplicated
<1> HIDE DEF kept
<1>3. \A i \in DOMAIN kept : Snippet(kept[i])
  <2> SUFFICES ASSUME NEW i \in DOMAIN kept PROVE Snippet(kept[i])
    OBVIOUS
  <2>1. kept[i] \in ToSet(given)
    BY <1>2 DEF ToSet
  <2>2. DOMAIN given = 1..Len(given)
    BY <1>1, LenProperties
  <2> QED BY <1>1, <2>1, <2>2 DEF ToSet
<1>4. /\ ranked \in Seq(Text) /\ Len(ranked) = Len(kept)
      /\ \A n \in 1..Len(kept) : \E i \in DOMAIN kept : ranked[n] = kept[i]
      /\ \A i \in BestOf(kept) : ranked[1] = kept[i]
  BY <1>2, RankFacts
<1> HIDE DEF ranked
<1>5. \A n \in 1..Len(ranked) : Snippet(ranked[n])
  BY <1>3, <1>4
<1>6. /\ all \in Text /\ Bare(all)
      /\ Len(ranked) >= 1 =>
           /\ Len(ranked[1]) <= Len(all)
           /\ \A k \in 1..Len(ranked[1]) : all[k] = ranked[1][k]
           /\ Len(ranked[1]) < Len(all) => all[Len(ranked[1]) + 1] = "nl"
  BY <1>4, <1>5, JoinFacts
<1> HIDE DEF all
<1>7. /\ Tokens(out) <= MaxTokens /\ Strip(out) = out /\ out \in Text
      /\ \A m \in 1..(Limit - 1) :
           Starts(all, m) => m <= Len(out) /\ \A k \in 1..m : out[k] = all[k]
  BY <1>6, TrimFacts
<1> HIDE DEF out
<1>8. ASSUME NEW i \in BestOf(kept), Len(kept[i]) < Limit PROVE IsPrefix(kept[i], out)
  <2> DEFINE first == kept[i]
             m == Len(first)
  <2>1. i \in DOMAIN kept /\ DOMAIN kept = 1..Len(kept) /\ Len(kept) \in Nat
    BY <1>2, LenProperties DEF BestOf
  <2>2. first \in Text /\ first # <<>> /\ Bare(first)
    BY <1>3, <2>1 DEF Snippet
  <2>3. m \in Nat /\ m >= 1 /\ first[1] \notin White /\ first[m] \notin White
    <3>1. m \in Nat \ {0}
      BY <2>2, EmptySeq DEF Text
    <3>2. first[1] \notin White /\ first[m] \notin White
      BY <2>2 DEF Bare
    <3> HIDE DEF m, first
    <3> QED BY <3>1, <3>2
  <2>4. ranked[1] = first /\ Len(ranked) >= 1
    <3>1. Len(kept) >= 1
      BY <2>1
    <3> QED BY <1>4, <3>1
  <2> HIDE DEF first
  <2>5. /\ m <= Len(all) /\ \A k \in 1..m : all[k] = first[k]
        /\ m < Len(all) => all[m + 1] = "nl"
    BY <1>6, <2>4
  <2>6. Len(all) \in Nat /\ m < Limit /\ Limit \in Nat
    BY <1>6, <1>8, LenProperties, BudgetOf DEF Text, first
  <2> HIDE DEF m
  <2>7. Starts(all, m) /\ m \in 1..(Limit - 1)
    <3>1. 1 \in 1..m /\ m \in 1..m /\ m \in 1..Len(all) /\ m \in 1..(Limit - 1)
      BY <2>3, <2>5, <2>6
    <3> QED BY <2>3, <2>5, <3>1 DEF Starts
  <2>8. m <= Len(out) /\ \A k \in 1..m : first[k] = out[k]
    BY <1>7, <2>5, <2>7
  <2> QED BY <1>7, <2>2, <2>8, PrefixMeans DEF m, first
<1> QED BY <1>7, <1>8 DEF Aggregate, given, kept, ranked, all, out

(***************************************************************************)
(* BudgetKeepsTheBest, for any budget and any thresholds of the score.     *)
(***************************************************************************)
THEOREM BudgetCorrect == Spec => []BudgetKeepsTheBest
<1>1. Init => EvidenceInv
  BY DEF Init, EvidenceInv
<1>2. ScoredInv /\ EvidenceInv => BudgetKeepsTheBest
  <2> SUFFICES ASSUME ScoredInv, EvidenceInv, stage = "judge", Len(case.items) = 1
               PROVE  /\ Tokens(evidence) <= MaxTokens
                      /\ Strip(evidence) = evidence
                      /\ \A i \in BestOf(Kept) : Len(Kept[i]) < Limit => IsPrefix(Kept[i], evidence)
    BY DEF BudgetKeepsTheBest, BestOf
  <2>1. case.items \in Seq(Text)
    BY JudgingAssumption DEF ScoredInv
  <2>2. evidence = Aggregate(case.items)
    BY DEF EvidenceInv
  <2> QED BY <2>1, <2>2, AggregateFacts DEF Kept, Given
<1> QED BY <1>1, <1>2, StepKeepsEvidence, Scored, PTL DEF Spec
=============================================================================
