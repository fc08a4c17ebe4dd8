--------------------------- MODULE VerifyInvariant ---------------------------
(***************************************************************************)
(* The inductive invariant behind VerifyService's safety properties.  The  *)
(* properties speak of responses, records and entries; what makes them     *)
(* inductive is how these hang together with the position of each          *)
(* coroutine, and that a final_response, once built, never changes.        *)
(***************************************************************************)
EXTENDS VerifyService

\* Where a coroutine stands determines which of its locals are set.
Unserved == {"lookup", "preprocess", "retrieve", "mediate", "judge"}

Control(r) ==
  /\ pc[r] = "idle" => /\ body[r] = None
                       /\ final[r] = None
                       /\ status[r] = 0
                       /\ ~low[r]
  /\ pc[r] # "idle" => body[r] \in Bodies /\ user[r] \in Users
  /\ pc[r] \in Unserved => final[r] = None
  /\ pc[r] \in {"score", "store", "restore", "respond", "analytics", "history"} =>
       final[r] # None
  /\ pc[r] \in {"score", "store", "restore", "analytics"} => ~final[r].hit
  /\ pc[r] \in InFlight \ {"analytics", "history"} => status[r] = 0
  /\ pc[r] \in {"analytics", "history"} => status[r] = 200
  /\ pc[r] = "done" => status[r] # 0
  /\ status[r] = 200 => final[r] # None
  /\ status[r] = 500 => final[r] = None /\ pc[r] = "done"
  \* Only a claim type that is routed to sources reaches the mediator.
  /\ pc[r] = "mediate" \/ low[r] => RoutingRules[TypeOf(body[r])] # {}

\* Every response carries a verdict minted on the same text.
Origin(r) ==
  final[r] # None =>
    LET o == final[r].verdict.by IN
    /\ MintedBy(o, final[r].verdict)
    /\ body[o] \in Bodies
    /\ Key(body[o]) = Key(body[r])
    /\ final[r].hit <=> o # r
    /\ final[r].verdict.low => RoutingRules[TypeOf(body[o])] # {}

\* Every cached verdict was minted under its key, and has time left.
Filed(k, e) ==
  /\ MintedBy(e.value.by, e.value)
  /\ Key(body[e.value.by]) = k
  /\ e.age < e.ttl

Tiers(k) ==
  /\ redis[k] # None =>
       /\ Filed(k, redis[k])
       /\ redis[k].ttl = CacheTTL(redis[k].value, TypeOf(body[redis[k].value.by]))
  /\ fallback[k] # None =>
       /\ Filed(k, fallback[k])
       /\ fallback[k].ttl = FallbackTTL

\* A background task writes after the response, and only its own row.
Logs ==
  /\ \A h \in history : pc[h.id] = "done" /\ status[h.id] = 200 /\ h = Row(h.id)
  /\ \A e \in events : /\ pc[e.id] \in {"history", "done", "lost"}
                       /\ status[e.id] = 200
                       /\ e = Row(e.id)
                       /\ ~e.hit

IInv ==
  /\ TypeOK
  /\ \A r \in Requests : Control(r)
  /\ \A r \in Requests : Origin(r)
  /\ \A k \in CacheKeys : Tiers(k)
  /\ Logs
=============================================================================
