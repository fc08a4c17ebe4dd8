--------------------------- MODULE VerifyContract ---------------------------
(***************************************************************************)
(* What POST /api/verify promises, with no cache tiers, clocks, outages or *)
(* processes in it: a request is opened, may mint one verdict on its text, *)
(* and is answered once, with its own verdict or one minted on the same    *)
(* text; it may fail instead, or be abandoned.  Only afterwards, at most   *)
(* once, and in that order, may its run be counted and the user's audit    *)
(* trail name it.                                                          *)
(***************************************************************************)
CONSTANTS
  Requests, Users,
  Texts,          \* question + answer, what the verdict is about
  Verdicts,       \* what a pipeline run can conclude
  None

VARIABLES
  stage,          \* where each request stands
  owner, text,    \* who asked, and about what
  minted,         \* the verdict of the request's own pipeline run
  shown,          \* the request whose verdict this one was answered with
  audited,        \* audit trail: <<request, user, request that minted>>
  counted         \* requests whose pipeline run the analytics know of

vars == <<stage, owner, text, minted, shown, audited, counted>>

Stages == {"idle", "open", "answered", "failed", "abandoned"}

Init ==
  /\ stage = [r \in Requests |-> "idle"]
  /\ owner = [r \in Requests |-> None]
  /\ text = [r \in Requests |-> None]
  /\ minted = [r \in Requests |-> None]
  /\ shown = [r \in Requests |-> None]
  /\ audited = {}
  /\ counted = {}

Open(r, u, t) ==
  /\ stage[r] = "idle"
  /\ stage' = [stage EXCEPT ![r] = "open"]
  /\ owner' = [owner EXCEPT ![r] = u]
  /\ text' = [text EXCEPT ![r] = t]
  /\ UNCHANGED <<minted, shown, audited, counted>>

Mint(r, v) ==
  /\ stage[r] = "open"
  /\ minted[r] = None
  /\ minted' = [minted EXCEPT ![r] = v]
  /\ UNCHANGED <<stage, owner, text, shown, audited, counted>>

\* A request that ran the pipeline is answered with what its own run said.
Reply(r, origin) ==
  /\ stage[r] = "open"
  /\ minted[origin] # None
  /\ text[origin] = text[r]
  /\ minted[r] # None => origin = r
  /\ stage' = [stage EXCEPT ![r] = "answered"]
  /\ shown' = [shown EXCEPT ![r] = origin]
  /\ UNCHANGED <<owner, text, minted, audited, counted>>

Fail(r) ==
  /\ stage[r] = "open"
  /\ minted[r] = None
  /\ stage' = [stage EXCEPT ![r] = "failed"]
  /\ UNCHANGED <<owner, text, minted, shown, audited, counted>>

Abandon ==
  /\ stage' = [r \in Requests |->
                 IF stage[r] = "open" THEN "abandoned" ELSE stage[r]]
  /\ UNCHANGED <<owner, text, minted, shown, audited, counted>>

Entry(r) == <<r, owner[r], shown[r]>>

Count(r) ==
  /\ stage[r] = "answered"
  /\ shown[r] = r
  /\ r \notin counted
  /\ Entry(r) \notin audited
  /\ counted' = counted \cup {r}
  /\ UNCHANGED <<stage, owner, text, minted, shown, audited>>

Audit(r) ==
  /\ stage[r] = "answered"
  /\ Entry(r) \notin audited
  /\ audited' = audited \cup {Entry(r)}
  /\ UNCHANGED <<stage, owner, text, minted, shown, counted>>

Next ==
  \/ \E r \in Requests, u \in Users, t \in Texts : Open(r, u, t)
  \/ \E r \in Requests, v \in Verdicts : Mint(r, v)
  \/ \E r, origin \in Requests : Reply(r, origin)
  \/ \E r \in Requests : Fail(r)
  \/ Abandon
  \/ \E r \in Requests : Count(r)
  \/ \E r \in Requests : Audit(r)

Spec == Init /\ [][Next]_vars

=============================================================================
