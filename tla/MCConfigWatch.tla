--------------------------- MODULE MCConfigWatch ---------------------------
(***************************************************************************)
(* Three documents: one that is usable; one with an address, a limit, a    *)
(* cache and keys of its own, usable where the environment sets the        *)
(* address; and one whose route names a model that does not exist.  They   *)
(* leave other fields to the defaults and write a provider's kind in their *)
(* own way.  The process is started in an empty environment or in one that *)
(* sets the address, a limit and the keys.  Up to three saves, on a clock  *)
(* of two: with the zero time of a file that was missing that makes a      *)
(* later, an equal and an earlier time, and two saves that are fresh.      *)
(***************************************************************************)
EXTENDS ConfigWatch

MCProvider == [kind |-> [word |-> "nvidia", form |-> " NVIDIA"], url |-> "absolute",
               keyEnv |-> "", keys |-> <<"k", "">>]
MCModel == [provider |-> "p", upstream |-> "u", timeout |-> 0, knob |-> "none"]

MCOne == [requestTimeout |-> 10, providers |-> "p" :> MCProvider, models |-> "a" :> MCModel,
          routes |-> "auto" :> <<"a">>]
MCElsewhere == [MCOne EXCEPT !.requestTimeout = 20, !.providers["p"].keyEnv = "KEYS"]
                @@ [listen |-> "elsewhere", cache |-> [enabled |-> TRUE, ttl |-> 60]]
MCBroken == [MCOne EXCEPT !.routes["auto"] = <<"a", "d">>]
MCDocs == {MCOne, MCElsewhere, MCBroken}

MCEnvs ==
    {[listen |-> "", bodyLimit |-> 0, requestTimeout |-> 0, vars |-> "KEYS" :> <<>>],
     [listen |-> "here", bodyLimit |-> 1, requestTimeout |-> 0, vars |-> "KEYS" :> <<"x", "", "y">>]}
=============================================================================
