--------------------------- MODULE MCGatewayEnds ---------------------------
(***************************************************************************)
(* One of the two requests has a client that may leave, and either may be  *)
(* a stream, or have a body that does not decode. The provider is not      *)
(* NVIDIA's, which makes 404 final; it has two API keys, one of them empty *)
(* and so dropped. The answers are those the other run leaves out, a final *)
(* rejection, a server error, a prompt too long for the model, an answer   *)
(* too large for the cache, and one that fits it and is used again. The    *)
(* time spent is counted to 2 only, past the budget of 1, so that          *)
(* behaviours in which a stream goes on for ever are among those checked.  *)
(***************************************************************************)
EXTENDS Gateway, TLC

CONSTANTS r1, r2

MCConfig ==
    [listen |-> "here", bodyLimit |-> 1, requestTimeout |-> 1, threshold |-> 2, cooldown |-> 1,
     cache |-> [enabled |-> TRUE, ttl |-> 1, maxEntries |-> 1, maxBodyBytes |-> 1,
                maxBytes |-> 1, kinds |-> {"openai"}],
     providers |-> "p" :> [kind |-> "openai", url |-> "absolute", apiKeys |-> 2, usableKeys |-> 1],
     models |-> "a" :> [provider |-> "p", upstream |-> "u", timeout |-> 1, knob |-> "none"] @@
                "b" :> [provider |-> "p", upstream |-> "v", timeout |-> 0, knob |-> "tools"],
     routes |-> "auto" :> <<"a", "b">>]
MCConfigs == {MCConfig}

Ask(stream, decodes) ==
    [name |-> "auto", stream |-> stream, chat |-> TRUE, body |-> "hi", knob |-> "none",
     decodes |-> decodes]
MCInputs == {Ask(FALSE, TRUE), Ask(TRUE, TRUE), Ask(FALSE, FALSE)}

Reply(status, size) ==
    [status |-> status, contextLength |-> FALSE, retryAfter |-> 0, size |-> size]
MCReplies ==
    {Reply(200, 1), Reply(200, 2), Reply(404, 0), Reply(500, 0), [Reply(400, 0) EXCEPT !.contextLength = TRUE]}
=============================================================================
