-------------------------- MODULE OrderedFallback --------------------------
(***************************************************************************)
(* What "ordered model routes" promise of each request (README.md:11,      *)
(* README.md:73), whatever becomes of keys, circuits, caches and           *)
(* configurations meanwhile: the models of a route have their turn in its  *)
(* order, without going back; none has its turn when the time is up, nor   *)
(* for a request that cannot be sent; one attempt is made at a time, and   *)
(* for each model no more than its provider has keys; a model that was     *)
(* given up is not attempted again.  What a request ends with comes from   *)
(* the model whose turn it is, and it ends without an answer only if no    *)
(* model is left or may have its turn, or its client has gone.             *)
(***************************************************************************)
EXTENDS Integers, Sequences

CONSTANTS
    Requests,
    Plans,       \* the sequences of models that routes give
    KeyCounts    \* how many keys providers have

VARIABLES
    course,      \* how far each request has come
    gone         \* the requests whose client has left

New == [stage |-> "new"]
Reading == [stage |-> "reading"]
Ended(answer) == [stage |-> "ended", answer |-> answer]

\* A request that has a plan: at the model at `place` it may make `left` more
\* attempts; it is barred from any turn when the time is up, and from the
\* beginning when it cannot be sent to any model.
Routed(stage, plan, place, left, barred) ==
    [stage |-> stage, plan |-> plan, place |-> place, left |-> left, barred |-> barred]

NoAnswer == [kind |-> "error"]
Rejection == [kind |-> "rejection"]
AnswerOf(c, fresh) == [kind |-> "success", alias |-> c.plan[c.place], fresh |-> fresh]

-----------------------------------------------------------------------------
(* How a request can go on, from c to d.                                   *)

\* As c, but for these.
Onward(c, stage, place, left) == Routed(stage, c.plan, place, left, c.barred)

Come(c, d) == c.stage = "new" /\ d = Reading

\* It cannot be read, or nothing can be asked for it.
Refuse(c, d) == c.stage = "reading" /\ d = Ended(NoAnswer)

Choose(c, d) ==
    /\ c.stage = "reading"
    /\ \E plan \in Plans \ {<<>>}, barred \in BOOLEAN : d = Routed("next", plan, 1, 0, barred)

\* A model may have its turn.
HasTurn(c) == c.stage = "next" /\ ~c.barred /\ c.place <= Len(c.plan)

TakeTurn(c, d) ==
    HasTurn(c) /\ \E n \in KeyCounts : d = Onward(c, "at", c.place, n)

\* An answer it gave before is used again.
Reuse(c, d) == HasTurn(c) /\ d = Ended(AnswerOf(c, FALSE))

Attempt(c, d) ==
    c.stage = "at" /\ c.left > 0 /\ d = Onward(c, "asking", c.place, c.left - 1)

\* The attempt fails, and perhaps with it the model.
Fail(c, d) ==
    c.stage = "asking" /\ \E n \in {0, c.left} : d = Onward(c, "at", c.place, n)

\* The attempt succeeds; its answer may be kept for others before it is delivered.
Succeed(c, d) ==
    c.stage = "asking" /\ d = Onward(c, "answered", c.place, 0)

Deliver(c, d) == c.stage \in {"asking", "answered"} /\ d = Ended(AnswerOf(c, TRUE))

\* The upstream's refusal is final.
Deny(c, d) == c.stage = "asking" /\ d = Ended(Rejection)

\* On to the next model.
Move(c, d) ==
    /\ c.stage \in {"at", "asking"}
    /\ d = Onward(c, "next", c.place + 1, 0)

GiveUp(c, d, hasLeft) ==
    /\ \/ c.stage = "next" /\ (c.barred \/ c.place > Len(c.plan))
       \/ c.stage = "asking" /\ hasLeft
    /\ d = Ended(NoAnswer)

\* One of these; `hasLeft` is whether the request's client has gone.
GoesOn(c, d, hasLeft) ==
    \/ Come(c, d) \/ Refuse(c, d) \/ Choose(c, d) \/ TakeTurn(c, d) \/ Reuse(c, d)
    \/ Attempt(c, d) \/ Fail(c, d) \/ Succeed(c, d) \/ Deliver(c, d) \/ Deny(c, d)
    \/ Move(c, d) \/ GiveUp(c, d, hasLeft)

\* When it has a plan, its time may be up at any moment.
MayBeBarred(c, d) ==
    \/ d = c
    \/ /\ c.stage \in {"next", "at", "asking", "answered"}
       /\ d = Routed(c.stage, c.plan, c.place, c.left, TRUE)

-----------------------------------------------------------------------------
Init == course = [r \in Requests |-> New] /\ gone = {}

Advance(r) ==
    /\ GoesOn(course[r], course'[r], r \in gone)
    /\ course' = [course EXCEPT ![r] = course'[r]]
    /\ UNCHANGED gone

TimePasses ==
    /\ DOMAIN course' = Requests
    /\ \A r \in Requests : MayBeBarred(course[r], course'[r])
    /\ UNCHANGED gone

ClientLeaves(r) == gone' = gone \cup {r} /\ UNCHANGED course

Next ==
    \/ \E r \in Requests : Advance(r) \/ ClientLeaves(r)
    \/ TimePasses

Spec == Init /\ [][Next]_<<course, gone>>
=============================================================================
