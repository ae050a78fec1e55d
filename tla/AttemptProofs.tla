--------------------------- MODULE AttemptProofs ---------------------------
(***************************************************************************)
(* Theorems about one upstream attempt: they need no assumption on how the *)
(* goroutines, the timer, the client and the upstream are interleaved.     *)
(***************************************************************************)
EXTENDS Attempt, TLAPS

\* What is in the variables, each by itself.
Typed ==
    /\ stream \in BOOLEAN /\ timedOut \in BOOLEAN /\ gone \in BOOLEAN
    /\ bodyOpen \in BOOLEAN
    /\ pc \in {"building", "doing", "stopping", "loading", "judging", "reading", "over"}
    /\ timer \in {"armed", "stopped", "fired", "stored", "spent"}
    /\ ctx \in {"live", "canceled", "deadline"}
    /\ answer \in {"nothing", "headers", "failure"}
    /\ outcome \in {"none", "response", "failure", "canceled", "deadline"}
    /\ result \in {"none", "response", "failure", "canceled", "deadline"}
    /\ read \in {"none", "complete", "broken", "cut"}
    /\ verdict \in {"none", "client_canceled", "attempt_timeout", "upstream_error"}

\* Every state of an attempt has its type, and neither kind of request runs out
\* of time in the other's way (server.go, doAttempt).
THEOREM AttemptTypeCorrect == Spec => []TypeOK
<1>1. Init => TypeOK
    BY DEF Init, TypeOK, RunsOutItsOwnWay
<1>2. TypeOK /\ [Next]_vars => TypeOK'
    <2> SUFFICES ASSUME TypeOK, [Next]_vars PROVE TypeOK'
        OBVIOUS
    <2>1. Typed'
        BY ZenonT(30) DEF TypeOK, Typed, Next, vars, RequestStep, TimerStep, Refuse, Send,
               DoReturns, StopTimer, ReturnError, ReturnResponse, ReadIsCut, Judge, TimeIsUp,
               TimerStores, TimerCancels, ClientLeaves, UpstreamAnswers,
               UpstreamEnds, FinishReading, Ended
    <2>2. RunsOutItsOwnWay'
        <3> RunsOutItsOwnWay
            BY DEF TypeOK
        <3> USE DEF RunsOutItsOwnWay
        <3>1. CASE Refuse \/ ReturnError
            BY <3>1 DEF Refuse, ReturnError, Ended
        <3>2. CASE DoReturns
            BY <3>2 DEF DoReturns
        <3>3. CASE ReadIsCut \/ Judge \/ UpstreamEnds
            BY <3>3 DEF ReadIsCut, UpstreamEnds, FinishReading, Judge, Ended
        <3>4. CASE TimerStep
            BY <3>4 DEF TimerStep, TimeIsUp, TimerStores, TimerCancels, Ended
        <3>5. CASE ClientLeaves \/ UpstreamAnswers \/ UNCHANGED vars
            BY <3>5 DEF ClientLeaves, UpstreamAnswers, vars, Ended
        <3>6. CASE Send \/ StopTimer \/ ReturnResponse
            BY <3>6 DEF Send, StopTimer, ReturnResponse
        <3> QED BY <3>1, <3>2, <3>3, <3>4, <3>5, <3>6 DEF Next, RequestStep
    <2> QED BY <2>1, <2>2 DEF Typed, TypeOK
<1> QED BY <1>1, <1>2, PTL DEF Spec

-----------------------------------------------------------------------------
(* Why the verdict is honest: each trace an end of the context leaves in   *)
(* the state can be led back to the one who ended it.                      *)

\* doAttempt has not decided yet.
Undecided == {"building", "doing", "stopping", "loading"}

\* The flag and the context's own deadline are only set by a timer that went
\* off, and the timer of a stream sets the flag before it cancels.
TimerTraces ==
    /\ timedOut => timer \in {"stored", "spent"}
    /\ timer = "stored" => timedOut
    /\ "deadline" \in {ctx, outcome} => timer = "spent"
    /\ result = "deadline" => timer \in {"stored", "spent"}

\* A cancellation comes from the client or from the timer.
CancelTraces ==
    /\ pc \in Undecided /\ ctx = "canceled" => gone \/ timedOut
    /\ outcome = "canceled" => gone \/ timedOut

\* An error that is about to be judged was the upstream's own, or its cause
\* is there to be seen.
ErrorTraces ==
    /\ pc \in {"building", "doing"} => outcome = "none"
    /\ pc \in {"stopping", "loading"} => outcome # "none"
    /\ pc = "judging" => outcome = "failure" \/ result = "deadline" \/ gone
    /\ verdict # "none" => pc = "over"

Traced == TypeOK /\ TimerTraces /\ CancelTraces /\ ErrorTraces /\ HonestVerdict

\* No order of the timer, the client, the upstream and the request puts the
\* blame on a party that did nothing.
THEOREM VerdictsAreHonest == Spec => []HonestVerdict
<1>1. Init => Traced
    BY DEF Init, Traced, TypeOK, RunsOutItsOwnWay, TimerTraces, CancelTraces, ErrorTraces,
           HonestVerdict, Undecided
<1>2. TypeOK' /\ Traced /\ [Next]_vars => Traced'
    <2> SUFFICES ASSUME TypeOK', Traced, [Next]_vars PROVE Traced'
        OBVIOUS
    <2> USE DEF Traced, TypeOK, TimerTraces, CancelTraces, ErrorTraces,
                HonestVerdict, Undecided, Ended
    <2>1. CASE Refuse
        BY <2>1 DEF Refuse
    <2>2. CASE Send
        BY <2>2 DEF Send
    <2>3. CASE DoReturns
        BY <2>3 DEF DoReturns
    <2>4. CASE StopTimer
        BY <2>4 DEF StopTimer
    <2>5. CASE ReturnError
        BY <2>5 DEF ReturnError
    <2>6. CASE ReturnResponse
        BY <2>6 DEF ReturnResponse
    <2>7. ASSUME NEW how \in {"complete", "broken", "cut"}, FinishReading(how)
          PROVE  Traced'
        BY <2>7 DEF FinishReading
    <2>8. CASE Judge
        BY <2>8 DEF Judge
    <2>9. CASE TimeIsUp
        BY <2>9 DEF TimeIsUp
    <2>10. CASE TimerStores
        BY <2>10 DEF TimerStores
    <2>11. CASE TimerCancels
        BY <2>11 DEF TimerCancels
    <2>12. CASE ClientLeaves
        BY <2>12 DEF ClientLeaves
    <2>13. CASE UpstreamAnswers
        BY <2>13 DEF UpstreamAnswers
    <2>14. CASE UNCHANGED vars
        BY <2>14 DEF vars
    <2>15. ReadIsCut \/ UpstreamEnds =>
                \E how \in {"complete", "broken", "cut"} : FinishReading(how)
        BY DEF ReadIsCut, UpstreamEnds
    <2> HIDE DEF Traced
    <2> QED BY <2>1, <2>2, <2>3, <2>4, <2>5, <2>6, <2>7, <2>8, <2>9, <2>10,
               <2>11, <2>12, <2>13, <2>14, <2>15
            DEF Next, RequestStep, TimerStep
<1>3. Traced => HonestVerdict
    BY DEF Traced
<1>4. Spec => []TypeOK
    BY AttemptTypeCorrect
<1> QED BY <1>1, <1>2, <1>3, <1>4, PTL DEF Spec

-----------------------------------------------------------------------------
\* A body can only be open after Do has returned it.
NothingHeldOrTaken ==
    /\ TypeOK
    /\ NothingHeld
    /\ pc = "building" => ~bodyOpen

\* Whatever way an attempt ends, it leaves neither a live context (and with it
\* a timer) nor an open body behind.
THEOREM AttemptsHoldNothing == Spec => []NothingHeld
<1>1. Init => NothingHeldOrTaken
    BY DEF Init, NothingHeldOrTaken, TypeOK, RunsOutItsOwnWay, NothingHeld
<1>2. TypeOK' /\ NothingHeldOrTaken /\ [Next]_vars => NothingHeldOrTaken'
    <2> SUFFICES ASSUME TypeOK', NothingHeldOrTaken, [Next]_vars
                 PROVE  NothingHeldOrTaken'
        OBVIOUS
    <2> USE DEF NothingHeldOrTaken, TypeOK, NothingHeld, Ended
    <2>1. CASE RequestStep
        BY <2>1 DEF RequestStep, Refuse, Send, DoReturns, StopTimer, ReturnError,
                    ReturnResponse, ReadIsCut, FinishReading, Judge
    <2>2. CASE TimerStep
        BY <2>2 DEF TimerStep, TimeIsUp, TimerStores, TimerCancels
    <2>3. CASE ClientLeaves \/ UpstreamAnswers \/ UpstreamEnds
        BY <2>3 DEF ClientLeaves, UpstreamAnswers, UpstreamEnds, FinishReading
    <2>4. CASE UNCHANGED vars
        BY <2>4 DEF vars
    <2> QED BY <2>1, <2>2, <2>3, <2>4 DEF Next
<1>3. NothingHeldOrTaken => NothingHeld
    BY DEF NothingHeldOrTaken
<1>4. Spec => []TypeOK
    BY AttemptTypeCorrect
<1> QED BY <1>1, <1>2, <1>3, <1>4, PTL DEF Spec
=============================================================================
