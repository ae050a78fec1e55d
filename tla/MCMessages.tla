----------------------------- MODULE MCMessages -----------------------------
(***************************************************************************)
(* Two turns, up to three chunks.  Chunks bring text, calls of two         *)
(* indices with all they need, several in one chunk, calls whose id, name  *)
(* or arguments come one by one, a delta that says nothing, and finish     *)
(* reasons.  Arguments take two pieces to make an object, whose number     *)
(* (9, for one above 2^53) is rounded when it is decoded (to 8); others    *)
(* hold a number that does not decode (1e999), are no object (null), or    *)
(* make no value at all.                                                   *)
(***************************************************************************)
EXTENDS Messages

MCCallId(i) == IF i = 0 THEN "call_0" ELSE "call_1"
MCValues ==
    {<<"{}">>, <<"{", "9}">>, <<"{8}">>, <<"{1e999}">>, <<"{null}">>, <<"null">>}
MCOversized == {<<"{1e999}">>}
MCRecoded ==
    [v \in MCValues |-> CASE v = <<"{", "9}">> -> <<"{8}">>
                         [] v = <<"{1e999}">> -> <<"{null}">>
                         [] OTHER -> v]
MCEmptyObject == <<"{}">>
MCGuess == <<"null">>

Call(i, id, name, args) == [index |-> i, id |-> id, name |-> name, args |-> args]
Text(t) == [NoChunk EXCEPT !.text = t]
Calls(seq) == [NoChunk EXCEPT !.calls = seq]
MCChunks ==
    {Text("t"),
     [Calls(<<Call(0, "x", "f", "{")>>) EXCEPT !.text = "t"],
     Calls(<<Call(1, "y", "f", "")>>),
     Calls(<<Call(0, "x", "f", "{"), Call(1, "y", "g", "{1e999}")>>),
     Calls(<<Call(0, "", "", "9}")>>),
     Calls(<<Call(1, "", "", "{"), Call(0, "", "", "{")>>),
     Calls(<<Call(1, "", "", "")>>),
     Calls(<<Call(0, "x", "", "")>>),
     [NoChunk EXCEPT !.finish = "tool_calls"],
     [NoChunk EXCEPT !.finish = "length"]}

MCAnswers ==
    {[text |-> <<"t">>, calls |-> <<>>],
     [text |-> <<>>, calls |-> <<[id |-> "x", name |-> "f", args |-> <<"{">>]>>],
     [text |-> <<"t">>, calls |-> <<[id |-> "y", name |-> "g", args |-> <<"{", "9}">>],
                                    [id |-> "x", name |-> "f", args |-> <<"null">>]>>],
     [text |-> <<>>, calls |-> <<[id |-> "x", name |-> "f", args |-> <<"{1e999}">>]>>]}
MCPrompt == <<"hi">>
MCOutcome == <<"ok">>
=============================================================================
