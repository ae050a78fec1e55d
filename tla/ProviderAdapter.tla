-------------------------- MODULE ProviderAdapter --------------------------
(***************************************************************************)
(* How a provider's adapter classifies a rejected request                  *)
(* (internal/provider/adapter.go).  A reply is [status, contextLength,     *)
(* retryAfter]: whether the body speaks of the context length, and the     *)
(* time the Retry-After header asks to wait for, 0 when it is missing,     *)
(* unreadable or past.                                                     *)
(***************************************************************************)
EXTENDS Integers

Decision(action, retryAfter, cooldownCredential) ==
    [action |-> action, retryAfter |-> retryAfter,
     cooldownCredential |-> cooldownCredential]

\* Statuses that say nothing of the key: the provider has no capacity now.
CapacityStatuses == {502, 503, 529}

\* Mutant of Classify: a provider without capacity is taken for a rate limit.
ClassifyCapacityAsRateLimit(kind, reply) ==
    IF reply.status = 401 THEN Decision("disable-key", reply.retryAfter, FALSE)
    ELSE IF reply.status \in {429} \cup CapacityStatuses
    THEN Decision("fallback-model", reply.retryAfter, TRUE)
    ELSE IF reply.status = 400 /\ reply.contextLength THEN Decision("skip-model", 0, FALSE)
    ELSE IF reply.status >= 500 THEN Decision("retry-key", reply.retryAfter, FALSE)
    ELSE Decision("terminal", 0, FALSE)

Classify(kind, reply) ==
    LET ra == reply.retryAfter
        nvidia == kind = "nvidia"
    IN  CASE reply.status = 401 -> Decision("disable-key", ra, FALSE)
          [] reply.status = 403 ->
                Decision(IF nvidia THEN "fallback-model" ELSE "terminal", ra, FALSE)
          [] reply.status = 429 -> Decision("fallback-model", ra, TRUE)
          [] reply.status \in CapacityStatuses -> Decision("fallback-model", ra, FALSE)
          [] reply.status = 400 ->
                Decision(IF reply.contextLength THEN "skip-model" ELSE "terminal", 0, FALSE)
          [] reply.status = 404 ->
                Decision(IF nvidia THEN "fallback-model" ELSE "terminal", 0, FALSE)
          [] reply.status >= 500 /\ reply.status \notin CapacityStatuses ->
                Decision("retry-key", ra, FALSE)
          [] OTHER -> Decision("terminal", 0, FALSE)
=============================================================================
