-------------------------- MODULE MCVerifyProgress --------------------------
(* Progress and refinement, checked on one question asked by two requests. *)
EXTENDS VerifyRefinement, TLC

OneFact == {[question |-> <<"who">>, answer |-> <<"einstein">>]}
OneFactClassify == <<"who">> :> "encyclopedic"
=============================================================================
