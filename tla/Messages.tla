------------------------------ MODULE Messages ------------------------------
(***************************************************************************)
(* A conversation over POST /v1/messages (internal/gateway/                *)
(* anthropic_types.go, anthropicMessages).  A client sends its history,    *)
(* which the gateway translates for the upstream; it translates the answer *)
(* back, streamed or whole; the client puts the answer at the end of its   *)
(* history, calls the tools it names and sends what they gave, until it    *)
(* has asked often enough.  The routing in between is the module Gateway.  *)
(***************************************************************************)
EXTENDS AnthropicStream

CONSTANTS
    Answers,      \* what an upstream may say at once: [text, calls]
    Finishes,     \* its finish reasons
    Prompt,       \* what a client says
    Outcome,      \* what a tool gives
    Guess,        \* what a client makes of arguments that are no JSON value
    MaxTurns      \* bound: how often the client asks

ASSUME TurnsAssumption == MaxTurns \in Nat
ASSUME GuessAssumption == Guess \in Values
ASSUME AnswersAssumption ==
    \A m \in Answers :
        /\ m.text \in Seq(STRING)
        /\ m.calls \in Seq([id : STRING, name : STRING, args : Seq(STRING)])

VARIABLES
    step,       \* of the handler: "idle", "routing" or "streaming"
    history,    \* the client's messages
    sent,       \* the messages sent to the upstream for them
    heard,      \* history: what the upstream has said: [text, calls, regular]
    asked       \* how often the client has asked

conversation == <<step, history, sent, heard, asked>>
vars == <<step, history, sent, heard, asked,
          at, chunk, pos, tools, nextBlock, textBlock, finish, upstream, reads, said, view>>

Init ==
    /\ StreamInit
    /\ step = "idle" /\ history = <<>> /\ sent = <<>> /\ heard = <<>> /\ asked = 0

-----------------------------------------------------------------------------
(* The client.                                                             *)

Assistant(content) == [role |-> "assistant", content |-> content]

\* The input of a call that is streamed: {}, as its block begins, if no arguments
\* follow; the value they make, of which this client loses nothing.
Taken(args) ==
    IF args \in Values THEN args ELSE IF args = <<>> THEN EmptyObject ELSE Guess

\* What a client makes of a streamed message: its blocks by their index.
Assembled ==
    LET indices == InOrder(DOMAIN view.blocks)
        Block(b) == IF b.type = "text" THEN TextBlock(b.body)
                    ELSE ToolUse(b.id, b.name, Taken(b.body))
    IN  [content |-> [n \in DOMAIN indices |-> Block(view.blocks[indices[n]])],
         stop |-> view.reason]

\* What a client says next: what its tools gave, in the order of the calls, with
\* or without a prompt before it or after it; or the prompt alone.
Replies(content) ==
    LET uses == OfType(content, "tool_use")
        results == [i \in DOMAIN uses |-> ToolResult(uses[i].id, Outcome)]
        prompt == <<TextBlock(Prompt)>>
    IN  IF uses = <<>> THEN {prompt} ELSE {results, prompt \o results, results \o prompt}

\* The histories a client may send next: after an answer one message more, after
\* an error the same again.
NextHistories ==
    IF history = <<>> \/ Last(history).role = "assistant"
    THEN {Append(history, [role |-> "user", content |-> r]) :
            r \in Replies(IF history = <<>> THEN <<>> ELSE Last(history).content)}
    ELSE {history}

-----------------------------------------------------------------------------
(* anthropicMessages.                                                      *)

Translates(messages) == \A k \in DOMAIN messages : Decodes(messages[k])

\* A request that is read but cannot be translated: an error is sent.
Refuse ==
    /\ step = "idle" /\ asked < MaxTurns
    /\ history' \in NextHistories
    /\ ~Translates(history')
    /\ asked' = asked + 1
    /\ UNCHANGED <<step, sent, heard, stream>>

\* A request that is read and translated.
Ask ==
    /\ step = "idle" /\ asked < MaxTurns
    /\ history' \in NextHistories
    /\ Translates(history')
    /\ sent' = TranslateRequest(<<>>, history')
    /\ asked' = asked + 1
    /\ step' = "routing"
    /\ UNCHANGED <<heard, stream>>

\* There is no upstream, or it rejects the request, or its answer cannot be read
\* or parsed: an error is sent, of whatever status.
Fail ==
    /\ step = "routing"
    /\ step' = "idle"
    /\ UNCHANGED <<history, sent, heard, asked, stream>>

\* A whole answer.
AnswerWhole ==
    /\ step = "routing"
    /\ \E m \in Answers, f \in Finishes :
        /\ history' = Append(history, Assistant(TranslateResponse(m, f).content))
        /\ heard' = Append(heard, [text |-> m.text, calls |-> ToSet(m.calls), regular |-> TRUE])
    /\ step' = "idle"
    /\ UNCHANGED <<sent, asked, stream>>

\* A stream begins.
AnswerStream ==
    /\ step = "routing" /\ at = "begin"
    /\ step' = "streaming"
    /\ UNCHANGED <<history, sent, heard, asked, stream>>

Streaming ==
    /\ step = "streaming" /\ at # "done"
    /\ StreamNext
    /\ UNCHANGED conversation

\* The calls the upstream made, once its message is put together.
CallsSaid ==
    {[id |-> said.calls[i].id, name |-> said.calls[i].name, args |-> said.calls[i].args] :
        i \in DOMAIN said.calls}

AllRegular == \A i \in DOMAIN said.calls : said.calls[i].regular

\* The handler returns when the stream is over, and the translator's variables
\* are those of the next one.
StreamOver ==
    /\ step = "streaming" /\ at = "done"
    /\ history' = Append(history, Assistant(Assembled.content))
    /\ heard' = Append(heard, [text |-> said.text, calls |-> CallsSaid, regular |-> AllRegular])
    /\ step' = "idle"
    /\ at' = "begin" /\ chunk' = NoChunk /\ pos' = 1
    /\ tools' = NoTools
    /\ nextBlock' = 0 /\ textBlock' = -1 /\ finish' = ""
    /\ upstream' = "live"
    /\ said' = SilentSoFar
    /\ view' = NoView
    /\ UNCHANGED <<sent, asked, reads>>

Next == Refuse \/ Ask \/ Fail \/ AnswerWhole \/ AnswerStream \/ Streaming \/ StreamOver

\* The translator goes on as long as it has something to read or to write; an
\* upstream owes nothing.
Fairness == WF_vars(step = "streaming" /\ Translate /\ UNCHANGED conversation)

Spec == Init /\ [][Next]_vars /\ Fairness

-----------------------------------------------------------------------------
\* Histories and requests alternate as the protocols want them to, and what is
\* kept of answers is in step with them (anthropic_types.go, anthropicMessages).
TypeOK ==
    /\ StreamTypeOK
    /\ step \in {"idle", "routing", "streaming"} /\ asked \in 0 .. MaxTurns
    /\ \A k \in DOMAIN history :
        history[k].role = IF k % 2 = 1 THEN "user" ELSE "assistant"
    /\ Len(heard) = Len(history) \div 2
    /\ at # "begin" => step = "streaming"

\* The calls that a client gets streamed, with their arguments as they come.
CallsStreamed ==
    LET blocks == {view.blocks[i] : i \in DOMAIN view.blocks}
    IN  {[id |-> b.id, name |-> b.name, args |-> b.body] : b \in {x \in blocks : x.type = "tool_use"}}

\* The calls that it gets whole.
UsesOf(content) ==
    {[id |-> b.id, name |-> b.name, args |-> b.input] :
        b \in {x \in ToSet(content) : x.type = "tool_use"}}

\* A message says the same to its client, streamed or whole: the text is one
\* block with all its pieces in order, and the stop reason is the same; a call has
\* its id, its name and its own arguments, streamed exactly as the upstream gave
\* them, and whole as they decode, which is less: numbers are rounded, and what is
\* no JSON value is {} (translateOpenAIStream, translateOpenAIResponse).  (A call
\* whose id or name comes late is not covered, see the README.)
SameAsUnstreamed ==
    view.phase = "stopped" =>
        LET calls == SetToSeq(CallsSaid)
            whole == TranslateResponse([text |-> said.text, calls |-> calls], said.finish)
        IN  /\ Assembled.stop = whole.stop
            /\ TextsOf(Assembled.content) = TextsOf(whole.content)
            /\ AllRegular =>
                /\ CallsStreamed = CallsSaid
                /\ UsesOf(whole.content) = {[c EXCEPT !.args = Parsed(@)] : c \in CallsStreamed}

OfRole(messages, role) == Select(messages, {k \in DOMAIN messages : messages[k].role = role})

\* d is the call c as it comes back.
SameCall(d, c) ==
    /\ d.id = c.id /\ d.name = c.name
    /\ c.args \in Values \cup {<<>>} => d.args = Parsed(c.args)

\* The upstream gets back what it said: each of its messages, in order, with its
\* text and its calls, whether the client got them streamed or whole.  The
\* arguments of a call come back as the gateway decodes them, and so exactly if
\* they have no number that a float64 rounds; and whatever they were, they come
\* back as JSON (translateAnthropicMessage after translateOpenAIStream or
\* translateOpenAIResponse).
HistoryIsFaithful ==
    step = "routing" =>
        LET mine == OfRole(sent, "assistant") IN
        /\ Len(mine) = Len(heard)
        /\ \A n \in DOMAIN mine :
            /\ mine[n].text = heard[n].text
            /\ \A d \in ToSet(mine[n].calls) : d.args \in Values \ Oversized
            /\ heard[n].regular =>
                /\ \A d \in ToSet(mine[n].calls) : \E c \in heard[n].calls : SameCall(d, c)
                /\ \A c \in heard[n].calls : \E d \in ToSet(mine[n].calls) : SameCall(d, c)

\* j is the place of the last message of the assistant before k.
LastSaid(j, k) ==
    /\ j < k /\ sent[j].role = "assistant"
    /\ \A n \in j + 1 .. k - 1 : sent[n].role # "assistant"

\* The results of tools that are sent and the calls before them answer each
\* other: each result comes after the message with its call and before the
\* next, and each call of a message that was replied to has its result
\* (README.md:13, translateAnthropicMessage).
ResultsAnswerCalls ==
    /\ \A k \in DOMAIN sent : sent[k].role = "tool" =>
        \E j \in DOMAIN sent :
            LastSaid(j, k) /\ \E c \in ToSet(sent[j].calls) : c.id = sent[k].answers
    /\ \A j \in DOMAIN sent : \A c \in ToSet(sent[j].calls) :
        \E k \in DOMAIN sent : LastSaid(j, k) /\ sent[k].answers = c.id

\* A stream ends for its client once its upstream has ended, in whichever way.
StreamEnds ==
    (step = "streaming" /\ upstream # "live") ~> (view.phase = "stopped")
=============================================================================
