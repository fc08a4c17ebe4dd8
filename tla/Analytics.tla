------------------------------ MODULE Analytics ------------------------------
(***************************************************************************)
(* The events of app/services/analytics/tracker.py: one for every run of   *)
(* the pipeline, written by a background task after the response, read by  *)
(* the statistics and cleared by DELETE /api/analytics/clear.              *)
(*                                                                         *)
(* Only runs are requests here; an answer from the cache leaves no event.  *)
(* A timestamp is taken when a run ends and kept as the order it was taken *)
(* in, which need not be the order in which the inserts arrive.  A list of *)
(* events that a read returns is the set of them: its order is that of the *)
(* read's sort.                                                            *)
(***************************************************************************)
EXTENDS Naturals, FiniteSets, SequencesExt

CONSTANTS
  Requests,
  Earlier,        \* the runs whose events an earlier process left in MongoDB
  Users,
  OwnerOf,        \* OwnerOf[r]: the user whose token request r carried
  Nobody,         \* get_optional_user without a token, or with an expired one
  MaxEvents,      \* what to_list returns at most, 10000
  TrendLen        \* the recent trend, 10 events

ASSUME AnalyticsAssumption ==
  /\ OwnerOf \in [Requests -> Users]
  /\ Earlier \in Seq(Requests) /\ IsInjective(Earlier)
  /\ Nobody \notin Users
  /\ {MaxEvents, TrendLen} \subseteq Nat \ {0}
  /\ TrendLen <= MaxEvents

VARIABLES
  stage,          \* stage[r]: "new", "event" while its task is queued, "done"
  answered,       \* runs, in the order of their events' timestamps
  inserted,       \* runs whose event was inserted, in the order of insertion
  events,         \* the runs with a document in the events collection
  db,             \* app.state.db is a handle and not None
  mongo,          \* MongoDB can be reached
  gone            \* observer: runs a clear that spoke for them came after

storeVars == <<stage, answered, inserted, events, db, mongo, gone>>

\* The callers of the analytics endpoints; Nobody speaks for everyone.
Callers == Users \cup {Nobody}

SpeaksFor(who, r) == who = Nobody \/ OwnerOf[r] = who

\* The handle is decided at startup.
StoreInit ==
  /\ stage = [r \in Requests |-> IF r \in ToSet(Earlier) THEN "done" ELSE "new"]
  /\ answered = Earlier /\ inserted = Earlier
  /\ events = ToSet(Earlier)
  /\ db \in BOOLEAN
  /\ mongo = db
  /\ gone = {}

Goto(r, from, to) ==
  /\ stage[r] = from
  /\ stage' = [stage EXCEPT ![r] = to]

-----------------------------------------------------------------------------
(* The verify route and its background task. *)

\* The end of a run: the event gets its timestamp, and is queued if there is a handle.
Answer(r) ==
  /\ IF db THEN Goto(r, "new", "event") /\ answered' = Append(answered, r)
           ELSE Goto(r, "new", "done") /\ UNCHANGED answered
  /\ UNCHANGED <<inserted, events, db, mongo, gone>>

\* record_async: an insert that fails is logged and forgotten.
RecordEvent(r) ==
  /\ Goto(r, "event", "done")
  /\ \/ /\ mongo
        /\ events' = events \cup {r}
        /\ inserted' = Append(inserted, r)
     \/ UNCHANGED <<events, inserted>>
  /\ UNCHANGED <<answered, db, mongo, gone>>

-----------------------------------------------------------------------------
(* Clearing and reading events. *)

\* Mutant: the query stays empty for a user as well.
ForgetsTheFilter(who, r) == TRUE

\* The query of tracker.py, empty when there is no user.
Matches(who, r) == who \in Users => OwnerOf[r] = who

\* clear_async: delete_many, for a user or for everyone.
Clear(who) ==
  /\ db /\ mongo
  /\ events' = {r \in events : ~Matches(who, r)}
  /\ gone' = gone \cup {r \in Requests : SpeaksFor(who, r) /\ stage[r] = "done"}
  /\ UNCHANGED <<stage, answered, inserted, db, mongo>>

Matching(who) == {r \in events : Matches(who, r)}

Place(list, r) == CHOOSE i \in DOMAIN list : list[i] = r

\* Mutant: the cursor is not sorted and returns the order of insertion.
Unsorted(r) == Place(inserted, r)

\* What find(query).sort("timestamp", ...) sorts by.
SortKey(r) == Place(answered, r)

\* The first n of list, by the sort, and the last n.
FirstOf(n, list) == {r \in list : Cardinality({q \in list : SortKey(q) < SortKey(r)}) < n}
LastOf(n, list) == {r \in list : Cardinality({q \in list : SortKey(q) > SortKey(r)}) < n}

\* Mutant: no limit for to_list.
Unlimited(who) == Matching(who)

\* get_events_from_db, ascending and without a limit, as the statistics call it.
EventsFor(who) == FirstOf(MaxEvents, Matching(who))

\* get_events_async: descending, so that the limit leaves the newest.
Newest(who, limit) == LastOf(limit, Matching(who))

\* get_stats_async: the recent trend is the end of the list.
Trend(who) == LastOf(TrendLen, EventsFor(who))

-----------------------------------------------------------------------------
(* MongoDB and the process. *)

MongoToggles ==
  /\ mongo' = ~mongo
  /\ UNCHANGED <<stage, answered, inserted, events, db, gone>>

\* A crash and the next startup: queued tasks are lost, the handle is decided anew.
Restart ==
  /\ stage' = [r \in Requests |-> IF stage[r] = "new" THEN "new" ELSE "done"]
  /\ db' = mongo
  /\ UNCHANGED <<answered, inserted, events, mongo, gone>>

StoreStep ==
  \/ \E r \in Requests : Answer(r) \/ RecordEvent(r)
  \/ \E who \in Callers : Clear(who)
  \/ MongoToggles

-----------------------------------------------------------------------------
\* The timestamp of r's event is before that of q's.
Before(r, q) == \E i, j \in DOMAIN answered : i < j /\ answered[i] = r /\ answered[j] = q

(***************************************************************************)
(* tracker.py:164 "Recent trend - last 10 events": in whatever order the   *)
(* inserts arrived the trend holds the newest events, as many as there are *)
(* up to its length, and the history tab, which sorts the other way and    *)
(* cuts at the other end, shows the same ones - as long as all events fit  *)
(* in one read.                                                            *)
(***************************************************************************)
TrendIsNewestWithinLimit ==
  \A who \in Callers :
    Cardinality(Matching(who)) <= MaxEvents =>
      /\ \A q \in Trend(who), r \in Matching(who) \ Trend(who) : Before(r, q)
      /\ Cardinality(Trend(who)) = TrendLen \/ Trend(who) = Matching(who)
      /\ Trend(who) = Newest(who, TrendLen)

(***************************************************************************)
(* Clearing is exact (tracker.py:288 "optionally for a specific user"): an *)
(* event is stored just when its insert succeeded and no clear that spoke  *)
(* for its owner came after the insert.  None is taken by another user's   *)
(* clear, none survives its owner's, one that was in flight stays, and no  *)
(* run is counted twice.                                                   *)
(***************************************************************************)
ClearsAreExact ==
  /\ events = ToSet(inserted) \ gone
  /\ IsInjective(inserted)
=============================================================================
