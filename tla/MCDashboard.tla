----------------------------- MODULE MCDashboard -----------------------------
(* Three runs of two users, one of an earlier process; one names no source. *)
EXTENDS Dashboard, TLC

Owners == ("r1" :> "ann") @@ ("r2" :> "ann") @@ ("r3" :> "bob")
Sourced == ("r1" :> TRUE) @@ ("r2" :> FALSE) @@ ("r3" :> TRUE)
OneStored == <<"r1">>
=============================================================================
