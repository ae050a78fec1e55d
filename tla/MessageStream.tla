--------------------------- MODULE MessageStream ---------------------------
(***************************************************************************)
(* A streamed message as its client may rely on it: content blocks are     *)
(* started once each, written to only while they are open, and each closed *)
(* once before the stop reason is sent, after which the message stops.     *)
(* Blocks may be open at the same time, and a number may be left out.     *)
(* One message follows the other.                                          *)
(***************************************************************************)
EXTENDS Naturals, Sequences

CONSTANTS Pieces, Reasons

VARIABLES
    phase,     \* of the message: "none", "open", "stopping" or "stopped"
    blocks,    \* the blocks started so far, by their index
    reason     \* why it stops

vars == <<phase, blocks, reason>>

Init == phase = "none" /\ blocks = [i \in {} |-> <<>>] /\ reason = ""

Start == phase = "none" /\ phase' = "open" /\ UNCHANGED <<blocks, reason>>

OpenBlock ==
    /\ phase = "open"
    /\ \E i \in Nat \cap (DOMAIN blocks' \ DOMAIN blocks) :
        /\ blocks'[i].open /\ blocks'[i].body = <<>>
        /\ blocks'[i].type = "tool_use" => blocks'[i].id # ""
        /\ blocks' = [j \in DOMAIN blocks \cup {i} |->
                        IF j = i THEN blocks'[i] ELSE blocks[j]]
    /\ UNCHANGED <<phase, reason>>

Write ==
    /\ phase = "open"
    /\ \E i \in DOMAIN blocks, piece \in Pieces :
        /\ blocks[i].open
        /\ blocks' = [blocks EXCEPT ![i].body = Append(@, piece)]
    /\ UNCHANGED <<phase, reason>>

CloseBlock ==
    /\ phase = "open"
    /\ \E i \in DOMAIN blocks :
        /\ blocks[i].open
        /\ blocks' = [blocks EXCEPT ![i].open = FALSE]
    /\ UNCHANGED <<phase, reason>>

GiveReason ==
    /\ phase = "open"
    /\ \A i \in DOMAIN blocks : ~blocks[i].open
    /\ phase' = "stopping" /\ reason' \in Reasons
    /\ UNCHANGED blocks

Stop == phase = "stopping" /\ phase' = "stopped" /\ UNCHANGED <<blocks, reason>>

\* Another message.
Again ==
    /\ phase = "stopped" /\ phase' = "none"
    /\ blocks' = [i \in {} |-> <<>>] /\ reason' = ""

Next == Again \/ Start \/ OpenBlock \/ Write \/ CloseBlock \/ GiveReason \/ Stop

Spec == Init /\ [][Next]_vars
=============================================================================
