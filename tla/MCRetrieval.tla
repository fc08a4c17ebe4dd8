----------------------------- MODULE MCRetrieval -----------------------------
(* A request routed to Wikipedia and SerpAPI, one with two claims routed   *)
(* to SerpAPI, a claim they share, and two connections for all searches.   *)
EXTENDS Retrieval, TLC

TwoRequests == ("r1" :> <<"a">>) @@ ("r2" :> <<"b", "a">>)
Routes == ("r1" :> {"wikipedia", "serpapi"}) @@ ("r2" :> {"serpapi"})
TwoSources == {"wikipedia", "serpapi"}
TwoTerms == [s \in TwoSources |-> 2]

\* Wikipedia has results for its broader term only, SerpAPI no text on b.
Knowledge(serpB) ==
  (<<"wikipedia", "a">> :> <<"none", "text">>) @@ (<<"wikipedia", "b">> :> <<"none", "none">>) @@
  (<<"serpapi", "a">> :> <<"none", "text">>) @@ (<<"serpapi", "b">> :> serpB)
TwoWorlds == {Knowledge(<<"bare", "text">>), Knowledge(<<"text", "none">>)}
=============================================================================
