-------------------------- MODULE VerifyRefinement --------------------------
(***************************************************************************)
(* VerifyService implements VerifyContract.  The verdict a request minted  *)
(* is its own final_response; what it was shown is decided when the 200 is *)
(* sent; the collections are projected onto the ids they name.             *)
(***************************************************************************)
EXTENDS VerifyService

Stage(r) ==
  CASE status[r] = 200 -> "answered"
    [] status[r] = 500 -> "failed"
    [] status[r] = 0 /\ pc[r] \in InFlight -> "open"
    [] status[r] = 0 /\ pc[r] = "lost" -> "abandoned"
    [] OTHER -> "idle"

Text(r) == IF body[r] = None THEN None ELSE Key(body[r])

Minted(r) ==
  IF final[r] # None /\ ~final[r].hit THEN final[r].verdict ELSE None

Shown(r) == IF status[r] = 200 THEN final[r].verdict.by ELSE None

StageMap == [r \in Requests |-> Stage(r)]
TextMap == [r \in Requests |-> Text(r)]
MintedMap == [r \in Requests |-> Minted(r)]
ShownMap == [r \in Requests |-> Shown(r)]
Trail == {<<h.id, h.user, h.verdict.by>> : h \in history}
Counted == {e.id : e \in events}

Contract == INSTANCE VerifyContract WITH
  Texts <- CacheKeys,
  Verdicts <- Verdict,
  stage <- StageMap,
  owner <- user,
  text <- TextMap,
  minted <- MintedMap,
  shown <- ShownMap,
  audited <- Trail,
  counted <- Counted

(***************************************************************************)
(* Every behaviour of the service, whatever the tiers of the cache, the    *)
(* outages and the restarts do, is one the contract allows (verify.py:113- *)
(* 435 against what its callers rely on: one verdict on the text, answered *)
(* once, recorded at most once and only afterwards).                       *)
(***************************************************************************)
ImplementsContract == Contract!Spec
=============================================================================
