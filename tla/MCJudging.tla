------------------------------ MODULE MCJudging ------------------------------
(***************************************************************************)
(* Three families of cases: texts of one or two sources, replies of the    *)
(* judge with a claim, and claims in answers.  What a family does not vary *)
(* is the same in all its cases.                                           *)
(***************************************************************************)
EXTENDS Judging, TLC

Characters == {"a", "b", "A", "B", "ad", "1", "-"} \cup White \cup Stop
Lowercase == ("A" :> "a") @@ ("B" :> "b")
SourceHeader == <<"-">>

Texts(alphabet, lengths) == UNION {[1..n -> alphabet] : n \in lengths}

\* Snippets of every score, of one sentence or several, at and beyond the limit.
Snippets == Texts({"a", "A", ".", "1"}, 1..2) \cup
  {<<"a", "b", "a">>, <<"a", " ", "b">>, <<"a", "nl", "b">>, <<"ad", "a">>, <<"a", ".", "b">>,
   <<"A", ".", "b", "1">>, <<"a", "b", ".", "b", "a">>, <<"b", "b", "b", "b", "b", "b", "a", "b">>}
Chains == {<<"a">>, <<"b", "a">>, <<"b", "A", ".">>, <<"ad", "b", "a">>, <<"a", "b", ".", "b", "a">>}

Joined(snippets) == Join(BlankLine, snippets)
OneSource ==
  {<<Joined(s)>> : s \in SeqOf(Snippets, 2) \cup TupleOf(Chains, 3)}
    \cup {<<t>> : t \in Texts({"a", ".", "nl"}, 1..5)}
TwoSources == {<<Joined(s), Joined(t)>> : s, t \in TupleOf(Chains, 2)}

Silent == [items |-> <<>>, insight |-> <<>>, answer |-> <<"a">>, reply |-> Unusable, claims |-> Unusable]

EvidenceCases ==
  {[Silent EXCEPT !.items = i] : i \in OneSource \ {<<Joined(<<>>)>>}} \cup
  {[Silent EXCEPT !.items = i, !.insight = n] : i \in TwoSources, n \in {<<>>, <<"b", "nl", "nl">>}}

ScoresOfModels == {-5, 0, 19, 20, 39, 40, 49, 59, 60, 69, 70, 74, 75, 79, 80, 100, 150, NoScore}
Verdicts == {"verified", "likely_hallucination", "unverifiable", "certain"}
Replies == {Unusable} \cup [score : ScoresOfModels, verdict : Verdicts]
ReplyCases ==
  {[Silent EXCEPT !.reply = r, !.claims = c] :
     r \in Replies,
     c \in {Unusable} \cup {<<[score |-> s, claim |-> <<"a">>]>> : s \in ScoresOfModels}}

Answers == {a \in Texts({"a", "B", ".", " "}, {1, 4}) : Strip(a) = a}
Claims == Texts({"A", "b", ".", " "}, {0, 1, 2, 4})
ClaimCases ==
  {[Silent EXCEPT !.answer = a, !.claims = <<[score |-> 70, claim |-> c]>>] : a \in Answers, c \in Claims}

AllCases == EvidenceCases \cup ReplyCases \cup ClaimCases
=============================================================================
