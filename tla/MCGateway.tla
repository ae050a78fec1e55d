----------------------------- MODULE MCGateway -----------------------------
(***************************************************************************)
(* Two requests ask for the route "auto".  Its two models have the same    *)
(* upstream name at the same provider and differ in a default only, so an  *)
(* answer of one could be taken for the other's; the attempts of the first *)
(* have a time limit of their own, those of the second would outlast the   *)
(* request's.  The provider has two keys, to have a key after the first    *)
(* and none after the second.  A reload may bring a configuration in which *)
(* the first model's defaults turn tool calling on and the second is gone, *)
(* or one whose route names a model that does not exist.  The cache has    *)
(* room for one answer, for one unit of time.                              *)
(*                                                                         *)
(* MCPatient, with a budget of three units and no limit of the model's,    *)
(* serves the two runs about that budget, with a single request.           *)
(***************************************************************************)
EXTENDS Gateway, TLC

MCModels ==
    "a" :> [provider |-> "p", upstream |-> "u", timeout |-> 1, knob |-> "none"] @@
    "b" :> [provider |-> "p", upstream |-> "u", timeout |-> 5, knob |-> "think"]

MCFirst ==
    [listen |-> "here", bodyLimit |-> 1, requestTimeout |-> 1, threshold |-> 1, cooldown |-> 1,
     cache |-> [enabled |-> TRUE, ttl |-> 1, maxEntries |-> 1, maxBodyBytes |-> 1,
                maxBytes |-> 1, kinds |-> {"nvidia"}],
     providers |-> "p" :> [kind |-> "nvidia", url |-> "absolute", apiKeys |-> 2, usableKeys |-> 2],
     models |-> MCModels,
     routes |-> "auto" :> <<"a", "b">>]

MCSecond == [MCFirst EXCEPT !.models["a"].knob = "tools", !.routes = "auto" :> <<"a">>]
MCBroken == [MCFirst EXCEPT !.routes = "auto" :> <<"a", "d">>]

MCPatient ==
    [MCFirst EXCEPT !.requestTimeout = 3, !.models["a"].timeout = 0, !.routes = "auto" :> <<"a">>]

MCConfigs == {MCFirst, MCSecond, MCBroken}

Plain(name) ==
    [name |-> name, stream |-> FALSE, chat |-> TRUE, body |-> "hi", knob |-> "none", decodes |-> TRUE]
MCPatientConfigs == {MCPatient}
MCStreams == {[Plain("auto") EXCEPT !.stream = TRUE]}
MCInputs == {Plain("auto")}

Reply(status, ra, size) ==
    [status |-> status, contextLength |-> FALSE, retryAfter |-> ra, size |-> size]
MCServerError == {Reply(500, 0, 0)}
MCReplies ==
    {Reply(200, 0, 1), Reply(401, 0, 0), Reply(429, 1, 0),
     Reply(503, 0, 0)}

\* Requests are alike; the counters do not matter to the other properties.
Symmetry == Permutations(Requests)
Routing == <<runtimes, req, gone>>
=============================================================================
