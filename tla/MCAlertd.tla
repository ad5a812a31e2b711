------------------------------ MODULE MCAlertd ------------------------------
(***************************************************************************)
(* Alertd on three rules: one with two targets, of which one cannot be     *)
(* posted to, one without a target, and one that does not unmarshal.       *)
(***************************************************************************)
EXTENDS Alertd, TLC

CONSTANTS r1, r2, r3, t1, t2

Rules == {r1, r2, r3}
Ids == r1 :> 1 @@ r2 :> 2 @@ r3 :> 3
TwoTargets == r1 :> <<t1, t2>> @@ r2 :> <<>> @@ r3 :> <<>>
Cooldowns == r1 :> 1 @@ r2 :> 2 @@ r3 :> 0

OneRule == {r1}
OneId == r1 :> 1
OneTargets == r1 :> <<t1>>
OneCooldown == r1 :> 2
=============================================================================
