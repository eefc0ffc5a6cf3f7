--------------------------- MODULE MCAlertEngine ---------------------------
(***************************************************************************)
(* The seeded rules of admin_alerts.py and an abstention_rate rule to be   *)
(* created; the breaker rule is global, so it watches both tenants.        *)
(***************************************************************************)
EXTENDS AlertEngine, TLC
CONSTANTS budget, errors, drift, breaker, c1, c2

MCRules   == {budget, errors, drift, breaker}
MCKind    == budget :> "budget" @@ errors :> "error_rate"
             @@ drift :> "abstention_rate" @@ breaker :> "circuit_breaker"
MCSeeds   == <<budget, errors, breaker>>
MCWatches == [r \in MCRules |-> IF r = breaker THEN {c1, c2} ELSE {}]
=============================================================================
