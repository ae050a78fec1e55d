----------------------------- MODULE LossyCache -----------------------------
(***************************************************************************)
(* What a response cache promises its users, whatever its policy: a hit is *)
(* the value stored last under the key, not older than the time it was     *)
(* stored for.  It may forget any value at any time and refuse to store    *)
(* one; a store that is refused may cost it the older value.               *)
(***************************************************************************)
EXTENDS Integers

CONSTANTS
    Keys, Values,
    TTLs,     \* the lengths of time values are stored for
    Miss      \* the reply when there is no value to give

VARIABLES
    content,  \* what the cache remembers: a value and the time it has left
    reply     \* the reply of the last lookup

vars == <<content, reply>>

Absent == [value |-> Miss, left |-> 0]

Init ==
    /\ content = [k \in Keys |-> Absent]
    /\ reply = Miss

\* What may become of the other keys in the course of an operation.
MayForget(ks) == \A k \in ks : content'[k] \in {content[k], Absent}

Lookup(k) ==
    /\ reply' \in {Miss, content[k].value}
    /\ content' \in [Keys -> {content[j] : j \in Keys} \cup {Absent}]
    /\ MayForget(Keys)

Put(k, v, ttl) ==
    /\ content' \in [Keys -> {content[j] : j \in Keys}
                               \cup {Absent, [value |-> v, left |-> ttl]}]
    /\ content'[k] \in {content[k], Absent, [value |-> v, left |-> ttl]}
    /\ MayForget(Keys \ {k})
    /\ UNCHANGED reply

\* Time passes; a value whose time is up is forgotten.
Tick ==
    /\ content' = [k \in Keys |->
            IF content[k].left <= 1 THEN Absent
            ELSE [content[k] EXCEPT !.left = @ - 1]]
    /\ UNCHANGED reply

Next ==
    \/ \E k \in Keys : Lookup(k) \/ \E v \in Values, t \in TTLs : Put(k, v, t)
    \/ Tick

Spec == Init /\ [][Next]_vars
=============================================================================
