-------------------------- MODULE MCCredentialPool --------------------------
(***************************************************************************)
(* Three keys: two neighbours of a key can be usable or not independently. *)
(* Cooldowns of 1 and 3 units let a long and a short one overlap.          *)
(***************************************************************************)
EXTENDS CredentialPool

MCCooldowns == {1, 3}

=============================================================================
