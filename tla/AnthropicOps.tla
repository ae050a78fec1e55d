---------------------------- MODULE AnthropicOps ----------------------------
(***************************************************************************)
(* The translation between the Messages protocol of the clients and the    *)
(* chat completions of the upstreams (internal/gateway/anthropic_*.go).    *)
(*                                                                         *)
(* A text is the sequence of the pieces it was sent in, <<>> if it is      *)
(* empty; an id or a name is a string, "" if it is missing.  The arguments *)
(* of a call are pieces of JSON, which may or may not make a value.  The   *)
(* gateway decodes values into Go's `any` and encodes them again, which    *)
(* keeps neither their spacing nor the order of their keys, and of their   *)
(* numbers what a float64 holds: an integer above 2^53 may come out as     *)
(* another, and one that is out of range does not decode.                  *)
(***************************************************************************)
EXTENDS DataOps, SequencesExt

CONSTANTS
    Values,       \* the sequences of pieces that make a JSON value
    Oversized,    \* those with a number that no float64 holds
    Recoded,      \* what each becomes when it is decoded and encoded again
    EmptyObject,  \* the one that is {}
    NewLine       \* the piece put between texts that are joined

\* What is encoded decodes again, into the same.
ASSUME ValuesAssumption ==
    /\ <<>> \notin Values
    /\ Recoded \in [Values -> Values \ Oversized]
    /\ \A v \in Values : Recoded[Recoded[v]] = Recoded[v]
    /\ EmptyObject \in Values /\ Recoded[EmptyObject] = EmptyObject

TextBlock(text) == [type |-> "text", text |-> text]
ToolUse(id, name, input) == [type |-> "tool_use", id |-> id, name |-> name, input |-> input]
ToolResult(id, text) == [type |-> "tool_result", id |-> id, text |-> text]

\* A message of the upstream's protocol, other than the result of a tool.
Said(role, text, calls) == [role |-> role, text |-> text, calls |-> calls, answers |-> ""]

Joined(texts) ==
    FlattenSeq([i \in DOMAIN texts |-> IF i = 1 THEN texts[i] ELSE <<NewLine>> \o texts[i]])

OfType(blocks, type) == Select(blocks, {i \in DOMAIN blocks : blocks[i].type = type})

\* The blocks of a message can be decoded.
Decodes(m) == \A b \in ToSet(m.content) : b.type = "tool_use" => b.input \notin Oversized

\* The first part of translateAnthropicMessage: what one pass over the blocks
\* collects.
TextsOf(blocks) == LET t == OfType(blocks, "text") IN [i \in DOMAIN t |-> t[i].text]
CallsOf(blocks) ==
    LET u == OfType(blocks, "tool_use")
    IN  [i \in DOMAIN u |-> [id |-> u[i].id, name |-> u[i].name, args |-> Recoded[u[i].input]]]
ResultsOf(blocks) ==
    LET r == OfType(blocks, "tool_result")
    IN  [i \in DOMAIN r |-> [role |-> "tool", text |-> r[i].text, calls |-> <<>>,
                             answers |-> r[i].id]]

\* Mutant of TranslateMessage: calls without a text are not passed on.
TranslateMessageWithText(m) ==
    IF TextsOf(m.content) # <<>>
    THEN <<Said(m.role, Joined(TextsOf(m.content)), CallsOf(m.content))>> \o ResultsOf(m.content)
    ELSE IF ResultsOf(m.content) # <<>> THEN ResultsOf(m.content)
    ELSE <<Said(m.role, <<>>, <<>>)>>

\* Mutant of TranslateMessage: results lose the id of their call.
TranslateMessageWithoutIds(m) ==
    LET texts == TextsOf(m.content)
        calls == CallsOf(m.content)
        results == [i \in DOMAIN ResultsOf(m.content) |->
                        [ResultsOf(m.content)[i] EXCEPT !.answers = ""]]
    IN  IF texts # <<>> \/ calls # <<>> \/ results = <<>>
        THEN <<Said(m.role, Joined(texts), calls)>> \o results
        ELSE results

\* translateAnthropicMessage.  A content that is plain text counts as one block
\* of it.  Texts and calls make one message, before the results.
TranslateMessage(m) ==
    LET texts == TextsOf(m.content)
        calls == CallsOf(m.content)
        results == ResultsOf(m.content)
    IN  IF texts # <<>> \/ calls # <<>> \/ results = <<>>
        THEN <<Said(m.role, Joined(texts), calls)>> \o results
        ELSE results

\* translateAnthropicRequest, of the messages.
TranslateRequest(system, messages) ==
    (IF system = <<>> THEN <<>> ELSE <<Said("system", system, <<>>)>>)
        \o FlattenSeq([i \in DOMAIN messages |-> TranslateMessage(messages[i])])

\* Arguments that are no JSON value are taken for {}.  Any value is passed on as
\* it decodes, also one that is no object; an error is ignored, and leaves null
\* (or, of a number by itself, {}).
Parsed(args) == IF args \in Values THEN Recoded[args] ELSE EmptyObject

StopReason(finish) ==
    CASE finish = "length" -> "max_tokens"
      [] finish = "tool_calls" -> "tool_use"
      [] OTHER -> "end_turn"

\* translateOpenAIResponse.
TranslateResponse(m, finish) ==
    [content |->
        (IF m.text = <<>> THEN <<>> ELSE <<TextBlock(m.text)>>)
            \o [i \in DOMAIN m.calls |->
                    ToolUse(m.calls[i].id, m.calls[i].name, Parsed(m.calls[i].args))],
     stop |-> StopReason(finish)]
=============================================================================
