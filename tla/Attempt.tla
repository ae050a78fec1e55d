------------------------------ MODULE Attempt ------------------------------
(***************************************************************************)
(* One upstream attempt (doAttempt and cancelReadCloser in                 *)
(* internal/gateway/server.go, and what routeRequest makes of its error),  *)
(* step by step: the goroutine of the request, the goroutine that          *)
(* time.AfterFunc starts for a streaming request, the client and the       *)
(* upstream.  A plain request has the context's own timeout instead, which *)
(* also covers the reading of the body.                                    *)
(*                                                                         *)
(* pc        the request goroutine: building the request, doing (inside    *)
(*           client.Do), stopping (Do has returned), loading (the timer    *)
(*           has been told to stop), judging (doAttempt has returned an    *)
(*           error), reading (it has returned a response), over            *)
(* timer     armed, stopped, fired (its goroutine has started), stored     *)
(*           (it has set headerTimedOut), spent                            *)
(* ctx       how the attempt's context ended: live, canceled, deadline     *)
(* answer    what the upstream has sent: nothing, headers, failure         *)
(* outcome   what client.Do returned; result: what doAttempt returned      *)
(* read      how the reading of the body ended                             *)
(* verdict   the reason routeRequest records for an error                  *)
(***************************************************************************)
EXTENDS Naturals

VARIABLES stream, pc, timer, timedOut, ctx, gone, answer, outcome, result,
          bodyOpen, read, verdict

vars == <<stream, pc, timer, timedOut, ctx, gone, answer, outcome, result,
          bodyOpen, read, verdict>>

Init ==
    /\ stream \in BOOLEAN
    /\ pc = "building"
    /\ timer = "armed"
    /\ ctx = "live"
    /\ answer = "nothing"
    /\ outcome = "none" /\ result = "none" /\ read = "none" /\ verdict = "none"
    /\ timedOut = FALSE /\ gone = FALSE /\ bodyOpen = FALSE

\* Ending a context that has ended already changes nothing.
Ended(how) == IF ctx = "live" THEN how ELSE ctx

-----------------------------------------------------------------------------
(* The goroutine of the request.                                           *)

\* http.NewRequestWithContext fails.
Refuse ==
    /\ pc = "building"
    /\ timer' = IF timer = "armed" THEN "stopped" ELSE timer
    /\ ctx' = Ended("canceled")
    /\ outcome' = "failure"
    /\ result' = "failure"
    /\ pc' = "judging"
    /\ UNCHANGED <<stream, timedOut, gone, answer, bodyOpen, read, verdict>>

Send ==
    /\ pc = "building"
    /\ pc' = "doing"
    /\ UNCHANGED <<stream, timer, timedOut, ctx, gone, answer, outcome, result,
                   bodyOpen, read, verdict>>

\* client.Do returns.  If the headers are there and the context has ended, it
\* may see either first.
DoReturns ==
    /\ pc = "doing"
    /\ \/ answer = "headers" /\ outcome' = "response" /\ bodyOpen' = TRUE
       \/ answer = "failure" /\ outcome' = "failure" /\ UNCHANGED bodyOpen
       \/ ctx # "live" /\ outcome' = ctx /\ UNCHANGED bodyOpen
    /\ pc' = "stopping"
    /\ UNCHANGED <<stream, timer, timedOut, ctx, gone, answer, result, read, verdict>>

\* headerTimer.Stop(): too late for a timer that has fired.
StopTimer ==
    /\ pc = "stopping"
    /\ timer' = IF stream /\ timer = "armed" THEN "stopped" ELSE timer
    /\ pc' = "loading"
    /\ UNCHANGED <<stream, timedOut, ctx, gone, answer, outcome, result,
                   bodyOpen, read, verdict>>

\* Mutant of ReturnError: the body of a response that came too late is not
\* closed.
ReturnErrorLeavingBody ==
    /\ pc = "loading"
    /\ outcome # "response" \/ timedOut
    /\ ctx' = Ended("canceled")
    /\ result' = IF timedOut /\ (outcome = "response" \/ ~gone)
                 THEN "deadline" ELSE outcome
    /\ pc' = "judging"
    /\ UNCHANGED <<stream, timer, timedOut, gone, answer, outcome, bodyOpen, read, verdict>>

\* doAttempt returns an error: the one of Do, or that the headers came too late.
ReturnError ==
    /\ pc = "loading"
    /\ outcome # "response" \/ timedOut
    /\ ctx' = Ended("canceled")
    /\ bodyOpen' = FALSE
    /\ result' = IF timedOut /\ (outcome = "response" \/ ~gone)
                 THEN "deadline" ELSE outcome
    /\ pc' = "judging"
    /\ UNCHANGED <<stream, timer, timedOut, gone, answer, outcome, read, verdict>>

\* doAttempt returns the response; closing its body will end the context.
ReturnResponse ==
    /\ pc = "loading"
    /\ outcome = "response" /\ ~timedOut
    /\ result' = "response"
    /\ pc' = "reading"
    /\ UNCHANGED <<stream, timer, timedOut, ctx, gone, answer, outcome,
                   bodyOpen, read, verdict>>

\* The body is read to its end, or to an error, and closed.
FinishReading(how) ==
    /\ pc = "reading"
    /\ read' = how
    /\ bodyOpen' = FALSE
    /\ ctx' = Ended("canceled")
    /\ pc' = "over"
    /\ UNCHANGED <<stream, timer, timedOut, gone, answer, outcome, result, verdict>>

\* The end of the context cuts the body off.
ReadIsCut == ctx # "live" /\ FinishReading("cut")

\* routeRequest asks in this order who is to blame for the error.
Judge ==
    /\ pc = "judging"
    /\ verdict' = IF gone THEN "client_canceled"
                  ELSE IF result = "deadline" THEN "attempt_timeout"
                  ELSE "upstream_error"
    /\ pc' = "over"
    /\ UNCHANGED <<stream, timer, timedOut, ctx, gone, answer, outcome, result,
                   bodyOpen, read>>

-----------------------------------------------------------------------------
(* The timer.                                                              *)

\* Mutants of TimeIsUp: the context of every attempt has a deadline, or only a
\* stream has a time limit.
TimeIsUpForAll ==
    /\ timer = "armed"
    /\ timer' = "spent" /\ ctx' = Ended("deadline")
    /\ UNCHANGED <<stream, pc, timedOut, gone, answer, outcome, result,
                   bodyOpen, read, verdict>>
TimeIsUpForStream ==
    /\ timer = "armed" /\ stream
    /\ timer' = "fired"
    /\ UNCHANGED <<stream, pc, timedOut, ctx, gone, answer, outcome, result,
                   bodyOpen, read, verdict>>

\* The time is up: the context ends, or, for a stream, a goroutine starts.
TimeIsUp ==
    /\ timer = "armed"
    /\ IF stream
       THEN timer' = "fired" /\ UNCHANGED ctx
       ELSE timer' = "spent" /\ ctx' = Ended("deadline")
    /\ UNCHANGED <<stream, pc, timedOut, gone, answer, outcome, result,
                   bodyOpen, read, verdict>>

\* Mutant of TimerStores: the context is canceled before the flag is set.
TimerCancelsFirst ==
    /\ timer = "fired"
    /\ ctx' = Ended("canceled")
    /\ timer' = "stored"
    /\ UNCHANGED <<stream, pc, timedOut, gone, answer, outcome, result,
                   bodyOpen, read, verdict>>

\* Its first step: headerTimedOut.Store(true).
TimerStores ==
    /\ timer = "fired"
    /\ timedOut' = TRUE
    /\ timer' = "stored"
    /\ UNCHANGED <<stream, pc, ctx, gone, answer, outcome, result,
                   bodyOpen, read, verdict>>

\* Its second step: cancel().
TimerCancels ==
    /\ timer = "stored"
    /\ ctx' = Ended("canceled")
    /\ timer' = "spent"
    /\ UNCHANGED <<stream, pc, timedOut, gone, answer, outcome, result,
                   bodyOpen, read, verdict>>

-----------------------------------------------------------------------------
(* The environment: no fairness is assumed of it.                          *)

ClientLeaves ==
    /\ ~gone
    /\ pc # "over"
    /\ gone' = TRUE
    /\ ctx' = Ended("canceled")
    /\ UNCHANGED <<stream, pc, timer, timedOut, answer, outcome, result,
                   bodyOpen, read, verdict>>

UpstreamAnswers ==
    /\ pc = "doing" /\ answer = "nothing"
    /\ answer' \in {"headers", "failure"}
    /\ UNCHANGED <<stream, pc, timer, timedOut, ctx, gone, outcome, result,
                   bodyOpen, read, verdict>>

\* The upstream sends the rest of the body, or breaks off.
UpstreamEnds == \E how \in {"complete", "broken"} : FinishReading(how)

-----------------------------------------------------------------------------
RequestStep ==
    Refuse \/ Send \/ DoReturns \/ StopTimer \/ ReturnError \/ ReturnResponse
    \/ ReadIsCut \/ Judge
TimerStep == TimeIsUp \/ TimerStores \/ TimerCancels

Next == RequestStep \/ TimerStep \/ ClientLeaves \/ UpstreamAnswers \/ UpstreamEnds

\* Runnable goroutines are run and timers go off; the client and the upstream
\* owe nothing.
Fairness == WF_vars(RequestStep) /\ WF_vars(TimerStep)

Spec == Init /\ [][Next]_vars /\ Fairness

-----------------------------------------------------------------------------
\* Each kind of request has its own way to run out of time: the context of a
\* stream has no deadline that would go on to limit its body, and the goroutine
\* that flags late headers is no plain request's.
RunsOutItsOwnWay ==
    /\ ctx = "deadline" \/ outcome = "deadline" => ~stream
    /\ timedOut \/ timer \in {"fired", "stored"} => stream

\* The state has its type, in which a stream has no deadline and a plain request
\* no header timer (server.go, doAttempt).
TypeOK ==
    /\ RunsOutItsOwnWay
    /\ stream \in BOOLEAN /\ timedOut \in BOOLEAN /\ gone \in BOOLEAN
    /\ bodyOpen \in BOOLEAN
    /\ pc \in {"building", "doing", "stopping", "loading", "judging", "reading", "over"}
    /\ timer \in {"armed", "stopped", "fired", "stored", "spent"}
    /\ ctx \in {"live", "canceled", "deadline"}
    /\ answer \in {"nothing", "headers", "failure"}
    /\ outcome \in {"none", "response", "failure", "canceled", "deadline"}
    /\ result \in {"none", "response", "failure", "canceled", "deadline"}
    /\ read \in {"none", "complete", "broken", "cut"}
    /\ verdict \in {"none", "client_canceled", "attempt_timeout", "upstream_error"}

\* Who is blamed is to blame, whatever the order in which the timer, the
\* client and the upstream act: a key is cooled down for an upstream error only
\* when the attempt really failed, and a model is charged with a timeout only
\* when its time was up (doAttempt stores the flag before it cancels).
HonestVerdict ==
    /\ verdict = "upstream_error" => outcome = "failure"
    /\ verdict = "attempt_timeout" => timer \in {"stored", "spent"}
    /\ verdict = "client_canceled" => gone

\* An attempt that is over holds nothing: its context has ended, which frees
\* its timer, and its body is closed, on every one of its returns.
NothingHeld ==
    pc \in {"judging", "over"} => ctx # "live" /\ ~bodyOpen

\* Every attempt comes to its end without any help of the client or the
\* upstream, except a stream that has started.
AttemptEnds ==
    (pc = "building") ~> (pc = "over" \/ (pc = "reading" /\ stream))

\* README.md:73: "For streaming, the attempt timeout bounds the wait for
\* upstream response headers and does not cap an already-started stream."
StartedStreamIsNotCapped == (stream /\ read = "cut") => gone
=============================================================================
