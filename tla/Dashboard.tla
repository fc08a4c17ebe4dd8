------------------------------ MODULE Dashboard ------------------------------
(***************************************************************************)
(* The two pages that watch the analytics, dashboard/app.js and            *)
(* analytics-dashboard/app.js, over the store of Analytics.  Each asks for *)
(* GET /api/analytics/stats when a timer fires or a button is pressed,     *)
(* without a token, and draws what comes back.  Requests overlap, and      *)
(* their answers arrive in any order.                                      *)
(*                                                                         *)
(* dashboard/ rewrites the content of a container.  analytics-dashboard/   *)
(* hands a canvas to Chart.js, and replaces the content of the canvas's    *)
(* parent, the canvas with it, by "No data yet" when there is none.        *)
(***************************************************************************)
EXTENDS Analytics

CONSTANTS
  Fetches,        \* fetches of the statistics that can be under way at a time
  HasSources,     \* HasSources[r]: the event of r names a source
  None

ASSUME DashboardAssumption == HasSources \in [Requests -> BOOLEAN]

VARIABLES
  kind,           \* which of the two pages is open
  fetch,          \* fetch[f]: a fetch of the statistics
  cards,          \* the total on the stat card, or None
  canvases,       \* the charts whose canvas is in the document
  drawn,          \* drawn[c]: the statistics chart c shows, or None
  restarted       \* the process has been restarted, which happens once

pageVars == <<kind, fetch, cards, canvases, drawn, restarted>>
vars == <<storeVars, pageVars>>

ChartOrder == <<"verdict", "score", "sources", "trend">>
Charts == ToSet(ChartOrder)
At(c) == CHOOSE i \in DOMAIN ChartOrder : ChartOrder[i] = c

Trends == {list \in SUBSET Requests : IsFiniteSet(list) /\ Cardinality(list) <= TrendLen}

Statistics == [total : 0..MaxEvents, sourced : BOOLEAN, trend : Trends]

\* Every variable has its type.
TypeOK ==
  /\ stage \in [Requests -> {"new", "event", "done"}]
  /\ {answered, inserted} \subseteq Seq(Requests)
  /\ IsInjective(answered)
  /\ {events, gone} \subseteq SUBSET Requests
  /\ {db, mongo, restarted} \subseteq BOOLEAN
  /\ kind \in {"dashboard", "analytics"}
  /\ DOMAIN fetch = Fetches
  /\ \A f \in Fetches :
       \/ fetch[f] \in [state : {"idle", "asked"}]
       \/ fetch[f] \in [state : {"answer"}, stats : Statistics]
  /\ cards \in 0..MaxEvents \cup {None}
  /\ canvases \subseteq Charts
  /\ DOMAIN drawn = Charts
  /\ \A c \in Charts : drawn[c] = None \/ drawn[c] \in Statistics

Idle == [state |-> "idle"]

Init ==
  /\ StoreInit
  /\ kind \in {"dashboard", "analytics"}
  /\ fetch = [f \in Fetches |-> Idle]
  /\ cards = None
  /\ canvases = Charts
  /\ drawn = [c \in Charts |-> None]
  /\ restarted = FALSE

-----------------------------------------------------------------------------
(* The statistics and their delivery. *)

\* get_stats_async, as far as the two pages differ on it; nothing without a handle.
Stats(who) ==
  IF ~db THEN [total |-> 0, sourced |-> FALSE, trend |-> {}]
  ELSE [total   |-> Cardinality(EventsFor(who)),
        sourced |-> \E r \in EventsFor(who) : HasSources[r],
        trend   |-> Trend(who)]

\* The timer of 15 or 20 s, the refresh button, the page's start.
Ask(f) ==
  /\ fetch[f] = Idle
  /\ fetch' = [fetch EXCEPT ![f] = [state |-> "asked"]]
  /\ UNCHANGED <<storeVars, kind, cards, canvases, drawn, restarted>>

\* The route; MongoDB's failure becomes a 500, which the page ignores.
Serve(f) ==
  /\ fetch[f].state = "asked"
  /\ fetch' = [fetch EXCEPT ![f] =
                 IF db /\ ~mongo THEN Idle ELSE [state |-> "answer", stats |-> Stats(Nobody)]]
  /\ UNCHANGED <<storeVars, kind, cards, canvases, drawn, restarted>>

\* A chart has nothing to draw.
Empty(c, stats) ==
  CASE c \in {"verdict", "trend"} -> stats.total = 0
    [] c = "sources" -> ~stats.sourced
    [] c = "score" -> FALSE

(***************************************************************************)
(* renderStats of dashboard/app.js: every container is rewritten.          *)
(***************************************************************************)
RewriteContainers(stats) ==
  /\ drawn' = [c \in Charts |-> IF Empty(c, stats) THEN None ELSE stats]
  /\ UNCHANGED canvases

(***************************************************************************)
(* renderOverview of analytics-dashboard/app.js draws in order.  Where the *)
(* canvas is missing an empty chart throws, for it has no parentElement,   *)
(* and Chart.js, given null, logs an error or throws.  What throws ends    *)
(* the rendering: the charts after it keep what they show.                 *)
(***************************************************************************)
DrawOnCanvases(stats) ==
  LET missing(c) == c \notin canvases
      stops == {i \in DOMAIN ChartOrder : missing(ChartOrder[i]) /\ Empty(ChartOrder[i], stats)}
      mayStop == {i \in DOMAIN ChartOrder : missing(ChartOrder[i])}
      end == Len(ChartOrder) + 1
  IN  \E stop \in mayStop \cup {end} :
        /\ \A i \in stops : stop <= i
        /\ canvases' = {c \in canvases : At(c) < stop => ~Empty(c, stats)}
        /\ drawn' = [c \in Charts |->
                       CASE At(c) > stop -> drawn[c]
                         [] At(c) <= stop /\ (missing(c) \/ Empty(c, stats)) -> None
                         [] OTHER -> stats]

\* Mutant: without data renderStats returns before it touches the page.
SkipsEmpty(f) ==
  /\ fetch[f].state = "answer"
  /\ fetch' = [fetch EXCEPT ![f] = Idle]
  /\ LET stats == fetch[f].stats
     IN  IF stats.total = 0 THEN UNCHANGED <<cards, drawn, canvases>>
         ELSE /\ cards' = stats.total
              /\ RewriteContainers(stats)
  /\ UNCHANGED <<storeVars, kind, restarted>>

Deliver(f) ==
  /\ fetch[f].state = "answer"
  /\ fetch' = [fetch EXCEPT ![f] = Idle]
  /\ LET stats == fetch[f].stats
     IN  /\ cards' = stats.total
         /\ \/ kind = "dashboard" /\ RewriteContainers(stats)
            \/ kind = "analytics" /\ DrawOnCanvases(stats)
  /\ UNCHANGED <<storeVars, kind, restarted>>

\* A crash fails the fetches that are with the server.
RestartServer ==
  /\ ~restarted
  /\ restarted' = TRUE
  /\ Restart
  /\ fetch' = [f \in Fetches |-> IF fetch[f].state = "asked" THEN Idle ELSE fetch[f]]
  /\ UNCHANGED <<kind, cards, canvases, drawn>>

Next ==
  \/ StoreStep /\ UNCHANGED pageVars
  \/ \E f \in Fetches : Ask(f) \/ Serve(f) \/ Deliver(f)
  \/ RestartServer

(***************************************************************************)
(* The page's timer keeps firing, the server answers or fails what it is   *)
(* asked, and the browser delivers it.  Nothing is assumed of users, of    *)
(* the background tasks or of MongoDB.                                     *)
(***************************************************************************)
Spec ==
  /\ Init
  /\ [][Next]_vars
  /\ \A f \in Fetches : WF_vars(Ask(f)) /\ WF_vars(Serve(f)) /\ WF_vars(Deliver(f))

-----------------------------------------------------------------------------
Shows(c) == drawn[c] = IF Empty(c, Stats(Nobody)) THEN None ELSE Stats(Nobody)

Reachable == db /\ mongo

(***************************************************************************)
(* Statistics that were overtaken, by a clear, by new events or by an      *)
(* older answer that came late, do not stay: while the store can be read,  *)
(* the cards of both pages, and the charts of dashboard/, come to show it  *)
(* as it is and keep showing it.                                           *)
(***************************************************************************)
DashboardCatchesUp ==
  <>[]Reachable =>
    <>[](/\ cards = Stats(Nobody).total
         /\ kind = "dashboard" => \A c \in Charts : Shows(c))

(***************************************************************************)
(* analytics-dashboard/app.js:34 "Real-time pipeline analytics": the same  *)
(* of the charts of analytics-dashboard/.                                  *)
(***************************************************************************)
ChartsCatchUp ==
  <>[]Reachable => <>[](kind = "analytics" => \A c \in Charts : Shows(c))
=============================================================================
