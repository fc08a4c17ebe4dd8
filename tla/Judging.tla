------------------------------- MODULE Judging -------------------------------
(***************************************************************************)
(* The second half of a run of the pipeline (verify.py, layers 3 to 5):    *)
(* the evidence of the sources is aggregated, the mediator looks at it     *)
(* when there are several, the LLM judges the answer and then each claim,  *)
(* and the response is built.  It is the step VerifyService takes as one   *)
(* call of the judge.                                                      *)
(*                                                                         *)
(* What the sources return and what the models reply is a case of the      *)
(* environment, chosen at the start.  A reply is Unusable when there is no *)
(* client, when the call fails, when the text holds no JSON or when a      *)
(* field does not convert; all of these end in the same place.             *)
(***************************************************************************)
EXTENDS EvidenceAggregator

CONSTANTS
  Cases,          \* [items, insight, answer, reply, claims]
  Header,         \* "--- source ---" and a newline, before a source's text
  HeadLen,        \* a claim is looked for in a sentence by its first 30 characters
  DirectLen,      \* and in the whole answer by its first 50
  Unusable,       \* a reply that does not parse, or none
  NoScore,        \* a record without a score
  None

JudgeVerdicts == {"verified", "likely_hallucination", "unverifiable"}
UserVerdicts == {"accurate", "uncertain", "hallucination"}

ASSUME JudgingAssumption ==
  /\ {HeadLen, DirectLen} \subseteq Nat /\ HeadLen <= DirectLen
  /\ NoScore \notin Int
  /\ \A case \in Cases :
       /\ case.items \in Seq(Text) /\ case.answer \in Text
       /\ case.reply \in {Unusable} \cup [score : Int \cup {NoScore}, verdict : STRING]
       /\ \/ case.claims = Unusable
          \/ \A n \in DOMAIN case.claims :
               case.claims[n].score \in Int \cup {NoScore} /\ case.claims[n].claim \in Text

VARIABLES
  stage,          \* the layer that comes next
  case,           \* the case of the environment
  evidence,       \* aggregated_evidence
  judged,         \* judge_response
  claimResults,   \* claim_results
  response        \* what is returned, or None

vars == <<stage, case, evidence, judged, claimResults, response>>

Scores == 0..100

\* Every variable has its type, whatever the models reply.
TypeOK ==
  /\ stage \in {"aggregate", "mediate", "judge", "claims", "respond", "done"}
  /\ judged = None \/ judged \in [score : Scores, verdict : JudgeVerdicts, flag : BOOLEAN]
  /\ \A n \in DOMAIN claimResults :
       claimResults[n].score \in Scores /\ claimResults[n].verdict \in UserVerdicts
  /\ response = None \/ response \in [score : Scores, verdict : UserVerdicts, flag : BOOLEAN]

Init ==
  /\ stage = "aggregate"
  /\ case \in Cases
  /\ evidence = <<>>
  /\ judged = None
  /\ claimResults = <<>>
  /\ response = None

Goto(from, to) == stage = from /\ stage' = to

-----------------------------------------------------------------------------
(* Layers 3 and 3b. *)

AggregateEvidence ==
  /\ Goto("aggregate", IF Len(case.items) > 1 THEN "mediate" ELSE "judge")
  /\ evidence' = Aggregate(case.items)
  /\ UNCHANGED <<case, judged, claimResults, response>>

\* The sources' texts under their headers.
SourcesText == Join(BlankLine, [n \in DOMAIN case.items |-> Header \o case.items[n]])

\* check_consensus: its insight comes first; without a client or a reply there is none.
Mediate ==
  /\ Goto("mediate", "judge")
  /\ evidence' = case.insight \o SourcesText
  /\ UNCHANGED <<case, judged, claimResults, response>>

-----------------------------------------------------------------------------
(* Layer 4. *)

\* Mutant: the score is taken as it comes.
Unclamped(score) == IF score = NoScore THEN 50 ELSE score

\* int(data.get("score", 50)), clamped.
Clamped(score) ==
  CASE score = NoScore -> 50
    [] score \in Int -> IF score < 0 THEN 0 ELSE IF score > 100 THEN 100 ELSE score

InferredVerdict(score) ==
  CASE score >= 70 -> "verified"
    [] score \in 40..69 -> "unverifiable"
    [] score < 40 -> "likely_hallucination"

\* _heuristic_judge
Neutral == [score |-> 50, verdict |-> "unverifiable", flag |-> FALSE]

\* _parse_judge_response
Parsed(reply) ==
  LET score == Clamped(reply.score)
  IN  [score   |-> score,
       verdict |-> IF reply.verdict \in JudgeVerdicts THEN reply.verdict ELSE InferredVerdict(score),
       flag    |-> score < 60]

Judge ==
  /\ Goto("judge", "claims")
  /\ judged' = IF case.reply = Unusable THEN Neutral ELSE Parsed(case.reply)
  /\ UNCHANGED <<case, evidence, claimResults, response>>

-----------------------------------------------------------------------------
(* Layer 4b. *)

\* Mutant: the thresholds the docstring of VerifyResponse names.
VerdictOfDocstring(score) ==
  CASE score >= 75 -> "accurate"
    [] score \in 40..74 -> "uncertain"
    [] score < 40 -> "hallucination"

ClaimVerdict(score) ==
  CASE score >= 70 -> "accurate"
    [] score \in 40..69 -> "uncertain"
    [] score < 40 -> "hallucination"

\* re.split after a full stop; the answer has no white space at its ends.
Sentences(answer) ==
  Pieces(answer, {i \in DOMAIN answer :
                    /\ answer[i] \in White
                    /\ \E j \in 1..(i - 1) : answer[j] \in Stop /\ \A k \in (j + 1)..i : answer[k] \in White})

Opening(claim, n) == Slice(Lower(claim), 0, n)

\* Mutant: offsets in the sentence and not in the answer.
LocateInSentence(claim, answer) ==
  LET sentences == Sentences(answer)
      hits == {n \in DOMAIN sentences : In(Opening(claim, HeadLen), Lower(sentences[n]))}
  IN  IF claim = <<>> \/ hits = {} THEN [source |-> <<>>, start |-> -1, end |-> -1]
      ELSE LET s == sentences[Min(hits)]
               start == Find(Opening(claim, HeadLen), Lower(s))
           IN  [source |-> s, start |-> start, end |-> start + Len(s)]

\* The first sentence that has the head of the claim, or else the place in the answer that has.
LocateClaim(claim, answer) ==
  LET sentences == Sentences(answer)
      hits == {n \in DOMAIN sentences : In(Opening(claim, HeadLen), Lower(sentences[n]))}
      direct == Find(Opening(claim, DirectLen), Lower(answer))
      span(source, start, length) ==
        [source |-> source, start |-> start, end |-> IF start < 0 THEN -1 ELSE start + length]
  IN  CASE claim = <<>> -> span(<<>>, -1, 0)
        [] claim # <<>> /\ hits # {} ->
             LET s == sentences[Min(hits)] IN span(s, Find(s, answer), Len(s))
        [] claim # <<>> /\ hits = {} -> span(<<>>, direct, Len(claim))

ClaimResult(item) ==
  LET score == Clamped(item.score)
  IN  [claim   |-> item.claim,
       score   |-> score,
       verdict |-> ClaimVerdict(score),
       at      |-> LocateClaim(item.claim, case.answer)]

\* judge_per_claim: one item that does not convert loses them all.
JudgePerClaim ==
  /\ Goto("claims", "respond")
  /\ claimResults' = IF case.claims = Unusable THEN <<>>
                     ELSE [n \in DOMAIN case.claims |-> ClaimResult(case.claims[n])]
  /\ UNCHANGED <<case, evidence, judged, response>>

-----------------------------------------------------------------------------
(* Layer 5. *)

\* from_judge_response: the judge's own verdict is not used.
UserVerdict(score) ==
  CASE score >= 70 -> "accurate"
    [] score \in 40..69 -> "uncertain"
    [] score < 40 -> "hallucination"

Respond ==
  /\ Goto("respond", "done")
  /\ response' = [score |-> judged.score, verdict |-> UserVerdict(judged.score), flag |-> judged.flag]
  /\ UNCHANGED <<case, evidence, judged, claimResults>>

Next == AggregateEvidence \/ Mediate \/ Judge \/ JudgePerClaim \/ Respond

Spec == Init /\ [][Next]_vars

\* The bucket of the dashboards' score distribution.
ScoreBucket(score) ==
  CASE score < 20 -> "0-19"
    [] score \in 20..39 -> "20-39"
    [] score \in 40..59 -> "40-59"
    [] score \in 60..79 -> "60-79"
    [] score >= 80 -> "80-100"

\* The class of the score in the chat panel (showResultInPanel), ...
PanelClass(score) ==
  CASE score >= 75 -> "verified"
    [] score \in 40..74 -> "uncertain"
    [] score < 40 -> "hallucination"

\* ... and what its "Score Interpretation" says of it.
PanelReliability(score) ==
  CASE score >= 75 -> "high"
    [] score \in 50..74 -> "mixed"
    [] score < 50 -> "low"

-----------------------------------------------------------------------------
Given == Flatten(case.items)
Kept == Deduplicate(Given)

(***************************************************************************)
(* Deduplication loses nothing and leaves nothing double (deduplicate:     *)
(* "Exact duplicates", "Substring containment"): what is dropped lies in   *)
(* what is kept, however long the chain of snippets within snippets, no    *)
(* two kept ones lie in each other, and a second pass changes nothing.     *)
(***************************************************************************)
EvidenceKeptOnce ==
  stage = "aggregate" =>
    /\ \A g \in ToSet(Given) : \E k \in ToSet(Kept) : In(Norm(g), Norm(k))
    /\ \A i, j \in DOMAIN Kept : i # j => ~In(Norm(Kept[i]), Norm(Kept[j]))
    /\ Deduplicate(Kept) = Kept

(***************************************************************************)
(* Trimming keeps the budget, never ends in white space, and costs the     *)
(* best-ranked snippet nothing as long as that snippet is shorter than the *)
(* limit, although the cut looks only for stops and newlines               *)
(* (trim_to_budget after rank_evidence).                                   *)
(***************************************************************************)
BudgetKeepsTheBest ==
  LET best == {i \in DOMAIN Kept : \A j \in DOMAIN Kept :
                 /\ Score(Kept[j]) <= Score(Kept[i])
                 /\ Score(Kept[j]) = Score(Kept[i]) => i <= j}
  IN  (stage = "judge" /\ Len(case.items) = 1) =>
        /\ Tokens(evidence) <= MaxTokens
        /\ Strip(evidence) = evidence
        /\ \A i \in best : Len(Kept[i]) < Limit => IsPrefix(Kept[i], evidence)

(***************************************************************************)
(* What is highlighted is what was judged (response.py:37-44 "Original     *)
(* sentence from the answer", "offset in the original answer").  The span  *)
(* of a claim with a source sentence lies in the answer, is that sentence  *)
(* and has the head of the claim.  A span without a sentence begins where  *)
(* the answer has the claim, as far as that is looked for, and is as long  *)
(* as the claim: it is the claim, and lies in the answer, if the whole     *)
(* claim was looked for, and can end beyond the answer if it was not.  A   *)
(* claim is unmapped only if the answer has it nowhere.                    *)
(***************************************************************************)
SpansShowTheirSource ==
  \A n \in DOMAIN claimResults :
    LET c == claimResults[n]
        sought == Opening(c.claim, DirectLen)
        shown(end) == Slice(case.answer, c.at.start, end)
    IN  CASE c.at.source # <<>> ->
               /\ 0 <= c.at.start /\ c.at.end <= Len(case.answer)
               /\ shown(c.at.end) = c.at.source
               /\ In(Opening(c.claim, HeadLen), Lower(c.at.source))
          [] c.at.source = <<>> /\ c.at.start >= 0 ->
               /\ c.at.start + Len(sought) <= Len(case.answer)
               /\ Lower(shown(c.at.start + Len(sought))) = sought
               /\ c.at.end = c.at.start + Len(c.claim)
               /\ Len(c.claim) <= DirectLen => c.at.end <= Len(case.answer)
          [] OTHER -> c.claim # <<>> => ~In(Lower(c.claim), Lower(case.answer))

(***************************************************************************)
(* One score never means opposite things to two readers, however many      *)
(* thresholds there are: the response's, the claims', the flag's, the      *)
(* dashboards' buckets and the chat panel's two.  Nothing accurate is      *)
(* flagged, called a hallucination or of low reliability anywhere; every   *)
(* hallucination is flagged and is one everywhere; a claim with the score  *)
(* of the answer has its verdict.  What is left of disagreement has known  *)
(* places: 70 to 74, where the panel says less than "accurate"; 40 to 49,  *)
(* where its legend says "low"; and the flag of the heuristic's neutral    *)
(* 50, which response.py:75 "True if score < 60" does not describe.        *)
(***************************************************************************)
VerdictsNeverClash ==
  response # None =>
    LET s == response.score
        accurate == response.verdict = "accurate"
        hallucination == response.verdict = "hallucination"
    IN  /\ accurate =>
             /\ ~response.flag
             /\ ScoreBucket(s) \in {"60-79", "80-100"}
             /\ PanelClass(s) # "hallucination" /\ PanelReliability(s) # "low"
        /\ hallucination => response.flag
        /\ hallucination <=> ScoreBucket(s) \in {"0-19", "20-39"}
        /\ hallucination <=> PanelClass(s) = "hallucination"
        /\ s \notin 40..49 => (hallucination <=> PanelReliability(s) = "low")
        /\ s \notin 70..74 =>
             /\ accurate <=> PanelClass(s) = "verified"
             /\ accurate <=> PanelReliability(s) = "high"
        /\ case.reply = Unusable => s = 50 /\ ~response.flag
        /\ case.reply # Unusable => (response.flag <=> s < 60)
        /\ \A n \in DOMAIN claimResults :
             claimResults[n].score = s => claimResults[n].verdict = response.verdict

(***************************************************************************)
(* evidence_aggregator.py:20 "Trimming - fit within token budget": the     *)
(* evidence the judge is given is within it.                               *)
(***************************************************************************)
JudgeEvidenceWithinBudget == stage = "judge" => Tokens(evidence) <= MaxTokens
=============================================================================
