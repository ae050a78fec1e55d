----------------------------- MODULE HotReload -----------------------------
(***************************************************************************)
(* What "transactional hot reload" promises (README.md:15, README.md:46):  *)
(* the process uses one configuration that was offered to it whole; it     *)
(* changes to another only in one step, and never to one that listens      *)
(* elsewhere.                                                              *)
(***************************************************************************)
CONSTANT Configs      \* the valid configurations

VARIABLES
    offered,   \* those that have been offered so far
    inUse      \* the one in use: a set of one, or of none before the start

Init == offered \in SUBSET Configs /\ inUse = {}

Offer ==
    /\ \E c \in Configs : offered' = offered \cup {c}
    /\ UNCHANGED inUse

Start ==
    /\ inUse = {}
    /\ \E c \in offered : inUse' = {c}
    /\ UNCHANGED offered

Switch ==
    /\ \E old \in inUse, c \in offered : c.listen = old.listen /\ inUse' = {c}
    /\ UNCHANGED offered

Next == Offer \/ Start \/ Switch

Spec == Init /\ [][Next]_<<offered, inUse>>
=============================================================================
