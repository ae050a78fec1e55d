------------------------------ MODULE MCRouter ------------------------------
(***************************************************************************)
(* Two models behind the route "default", which requests that name no      *)
(* model get; the second is also asked for by its own alias, so that its   *)
(* verdicts come from requests at both places of a plan.  A failure may    *)
(* ask for a wait of 0, less than, or more than the breaker's own cooldown *)
(* of 2.                                                                   *)
(***************************************************************************)
EXTENDS Router, TLC

MCCfg ==
    [models |-> "a" :> "upstream a" @@ "b" :> "upstream b",
     routes |-> "default" :> <<"a", "b">>,
     threshold |-> 2,
     cooldown |-> 2]
MCNames == {"", "b"}
MCRetryAfters == {0, 1, 3}
=============================================================================
