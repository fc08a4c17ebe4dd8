--------------------------- MODULE MCVerifyService ---------------------------
(* Instances of VerifyService.  Lifetimes are ranks: 60 s, 30 min, 1 h, 24 h *)
(* and 7 days become 1, 2, 3, 4 and 5 ticks, in the runs that need them all. *)
EXTENDS VerifyClaims, VerifyInvariant, TLC

Pair(q, a) == [question |-> q, answer |-> a]

\* One question about an opinion, one about a stable fact, the same answer.
TwoTypes == {Pair(<<"should">>, <<"yes">>), Pair(<<"is">>, <<"yes">>)}
TwoTypesClassify == (<<"should">> :> "opinion_subjective") @@ (<<"is">> :> "encyclopedic")

\* One question, the cheapest instance that still has hits and evictions.
OneFact == {Pair(<<"who">>, <<"einstein">>)}
OneFactClassify == <<"who">> :> "encyclopedic"

Symmetry == Permutations(Requests) \cup Permutations(Users)
=============================================================================
