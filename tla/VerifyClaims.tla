---------------------------- MODULE VerifyClaims ----------------------------
(***************************************************************************)
(* A statement the repository makes about POST /api/verify that its code   *)
(* does not keep.  A run finds it violated.                                *)
(***************************************************************************)
EXTENDS VerifyService

(***************************************************************************)
(* verify.py:343: "Error fallbacks -> 60s (self-evict quickly so next call *)
(* retries)".  LLMJudge.judge catches every failure itself, so the route   *)
(* never sees one and stores the 50 with the lifetime of a real verdict.   *)
(***************************************************************************)
ErrorFallbacksSelfEvict ==
  \A k \in CacheKeys :
    (redis[k] # None /\ redis[k].value.grade # "judged") => redis[k].age < ErrorTTL
=============================================================================
