-------------------------- MODULE MCResponseCache --------------------------
(***************************************************************************)
(* Four keys for three places, and bodies of 1, 2, 4 and 5 bytes for four  *)
(* bytes: one is too large, one needs the cache for itself, and the entry  *)
(* limit and the byte limit bite on their own and together.                *)
(***************************************************************************)
EXTENDS ResponseCache, TLC

CONSTANTS k1, k2, k3, k4, small, middle, full, huge

MCSize == small :> 1 @@ middle :> 2 @@ full :> 4 @@ huge :> 5
MCCaps == [maxEntries |-> 3, maxBytes |-> 4]
MCTTLs == {1, 2}
=============================================================================
