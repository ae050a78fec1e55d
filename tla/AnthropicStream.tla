-------------------------- MODULE AnthropicStream --------------------------
(***************************************************************************)
(* translateOpenAIStream (internal/gateway/anthropic_stream.go): chunks of *)
(* text and of tool calls come from the upstream, events for content       *)
(* blocks go to the client, one action per event.  What the client makes   *)
(* of the events is kept in place of the events.                           *)
(*                                                                         *)
(* A chunk that cannot be parsed or has no choices is skipped; lines that  *)
(* are not data are no chunks.                                             *)
(***************************************************************************)
EXTENDS AnthropicOps, FiniteSets

CONSTANTS
    Chunks,     \* what may come: [text, calls, finish]
    MaxChunks,  \* bound: how many come
    Indices,    \* the indices of calls
    CallId(_)   \* the id made for the call of an index

Deltas == [index : Indices, id : STRING, name : STRING, args : STRING]

ASSUME ChunksAssumption ==
    /\ \A c \in Chunks : c \in [text : STRING, calls : Seq(Deltas), finish : STRING]
    /\ \A i \in Indices : CallId(i) \in STRING \ {""}

VARIABLES
    at,         \* the next thing the translator does
    chunk,      \* the chunk it works on
    pos,        \* the position in the chunk's calls
    tools,      \* its tools: the toolState of each index seen
    nextBlock,  \* its nextBlockIndex
    textBlock,  \* its textBlockIndex
    finish,     \* its finishReason
    upstream,   \* "live", or how the upstream ended: "done" or "gone"
    reads,      \* how many chunks have come
    said,       \* history: what they said, put together
    view        \* what the client has made of the events: [phase, blocks, reason]

lookup == <<tools, nextBlock, textBlock, finish>>
source == <<upstream, reads, said>>
stream == <<at, chunk, pos, tools, nextBlock, textBlock, finish, upstream, reads, said, view>>

NoTools == [i \in {} |-> <<>>]
SilentSoFar == [text |-> <<>>, calls |-> NoTools, finish |-> ""]
NoView == [phase |-> "none", blocks |-> [i \in {} |-> <<>>], reason |-> ""]
NoChunk == [text |-> "", calls |-> <<>>, finish |-> "null"]

StreamInit ==
    /\ at = "begin" /\ chunk = NoChunk /\ pos = 1
    /\ tools = NoTools
    /\ nextBlock = 0 /\ textBlock = -1 /\ finish = ""
    /\ upstream = "live" /\ reads = 0
    /\ said = SilentSoFar
    /\ view = NoView

-----------------------------------------------------------------------------
(* What the upstream says, put together by the rules of its own protocol.  *)

\* One delta of a call.  A call is regular if its first delta has its id and
\* name and no other changes them.
HearDelta(calls, d) ==
    LET known == d.index \in DOMAIN calls
        call == IF known THEN calls[d.index]
                ELSE [id |-> "", name |-> "", args |-> <<>>, regular |-> d.id # "" /\ d.name # ""]
        next == [id |-> IF d.id = "" THEN call.id ELSE d.id,
                 name |-> IF d.name = "" THEN call.name ELSE d.name,
                 args |-> IF d.args = "" THEN call.args ELSE Append(call.args, d.args),
                 regular |-> call.regular /\ d.id \in {"", call.id} /\ d.name \in {"", call.name}]
    IN  [i \in DOMAIN calls \cup {d.index} |->
            IF i # d.index THEN calls[i]
            ELSE IF known THEN next ELSE [next EXCEPT !.regular = call.regular]]

Hear(c) ==
    LET calls[n \in 0 .. Len(c.calls)] ==
            IF n = 0 THEN said.calls ELSE HearDelta(calls[n - 1], c.calls[n])
    IN  [text |-> IF c.text = "" THEN said.text ELSE Append(said.text, c.text),
         calls |-> calls[Len(c.calls)],
         finish |-> IF c.finish = "null" THEN said.finish ELSE c.finish]

-----------------------------------------------------------------------------
(* The events, and what the client makes of them.                          *)

Opened(i, block) ==
    [view EXCEPT !.blocks = [j \in DOMAIN @ \cup {i} |-> IF j = i THEN block ELSE @[j]]]
Written(i, piece) == [view EXCEPT !.blocks[i].body = Append(@, piece)]
Closed(i) == [view EXCEPT !.blocks[i].open = FALSE]

OpenText == [type |-> "text", id |-> "", name |-> "", body |-> <<>>, open |-> TRUE]
OpenTool(id, name) == [type |-> "tool_use", id |-> id, name |-> name, body |-> <<>>, open |-> TRUE]

-----------------------------------------------------------------------------
(* The translator.                                                         *)

MessageStart ==
    /\ at = "begin"
    /\ view' = [view EXCEPT !.phase = "open"]
    /\ at' = "scan"
    /\ UNCHANGED <<chunk, pos, lookup, source>>

\* A chunk is read, as the upstream sends it.
Scan(c) ==
    /\ at = "scan" /\ upstream = "live" /\ reads < MaxChunks
    /\ reads' = reads + 1
    /\ said' = Hear(c)
    /\ chunk' = c /\ pos' = 1
    /\ at' = IF c.text = "" THEN "calls" ELSE "text"
    /\ UNCHANGED <<lookup, upstream, view>>

\* Mutant of StartText: the index is given out again.
StartTextKeepingIndex ==
    /\ at = "text" /\ textBlock < 0
    /\ textBlock' = nextBlock
    /\ view' = Opened(nextBlock, OpenText)
    /\ UNCHANGED <<at, chunk, pos, tools, nextBlock, finish, source>>

\* The first text opens the block of all text.
StartText ==
    /\ at = "text" /\ textBlock < 0
    /\ textBlock' = nextBlock /\ nextBlock' = nextBlock + 1
    /\ view' = Opened(nextBlock, OpenText)
    /\ UNCHANGED <<at, chunk, pos, tools, finish, source>>

WriteText ==
    /\ at = "text" /\ textBlock >= 0
    /\ view' = Written(textBlock, chunk.text)
    /\ at' = "calls"
    /\ UNCHANGED <<chunk, pos, lookup, source>>

\* Mutant of Slot: calls are told apart by their place in the chunk.
SlotByPlace(d) == pos - 1

\* Under what a call's state is kept.
Slot(d) == d.index

Delta == chunk.calls[pos]

\* The state of the delta's call, a new one if there is none, with the id and the
\* name the delta brings.
Noted ==
    LET ts == IF Slot(Delta) \in DOMAIN tools THEN tools[Slot(Delta)]
              ELSE [block |-> nextBlock, started |-> FALSE, id |-> "", name |-> ""]
    IN  [ts EXCEPT !.id = IF Delta.id = "" THEN @ ELSE Delta.id,
                   !.name = IF Delta.name = "" THEN @ ELSE Delta.name]

Kept(ts) == [i \in DOMAIN tools \cup {Slot(Delta)} |-> IF i = Slot(Delta) THEN ts ELSE tools[i]]

FirstNonEmpty(id, fallback) == IF id = "" THEN fallback ELSE id

\* A delta of a call.  Its block is opened as soon as there is an id or a name.
NoteCall ==
    /\ at = "calls" /\ pos <= Len(chunk.calls)
    /\ LET start == ~Noted.started /\ (Noted.id # "" \/ Noted.name # "")
       IN  /\ tools' = Kept([Noted EXCEPT !.started = @ \/ start])
           /\ view' = IF start
                      THEN Opened(Noted.block,
                                  OpenTool(FirstNonEmpty(Noted.id, CallId(Delta.index)), Noted.name))
                      ELSE view
    /\ nextBlock' = IF Slot(Delta) \in DOMAIN tools THEN nextBlock ELSE nextBlock + 1
    /\ IF Delta.args = "" THEN at' = "calls" /\ pos' = pos + 1
                          ELSE at' = "args" /\ UNCHANGED pos
    /\ UNCHANGED <<chunk, textBlock, finish, source>>

\* Arguments open the block of a call without an id or a name.
StartForArgs ==
    /\ at = "args" /\ ~tools[Slot(Delta)].started
    /\ tools' = [tools EXCEPT ![Slot(Delta)].started = TRUE]
    /\ view' = Opened(tools[Slot(Delta)].block, OpenTool(CallId(Delta.index), tools[Slot(Delta)].name))
    /\ UNCHANGED <<at, chunk, pos, nextBlock, textBlock, finish, source>>

WriteArgs ==
    /\ at = "args" /\ tools[Slot(Delta)].started
    /\ view' = Written(tools[Slot(Delta)].block, Delta.args)
    /\ at' = "calls" /\ pos' = pos + 1
    /\ UNCHANGED <<chunk, lookup, source>>

EndChunk ==
    /\ at = "calls" /\ pos > Len(chunk.calls)
    /\ finish' = IF chunk.finish = "null" THEN finish ELSE chunk.finish
    /\ at' = "scan" /\ chunk' = NoChunk /\ pos' = 1
    /\ UNCHANGED <<tools, nextBlock, textBlock, source, view>>

\* Mutant of EndOfBody: only [DONE] ends the loop.
EndOfBodyWhenDone ==
    /\ at = "scan" /\ upstream = "done"
    /\ at' = "closing"
    /\ UNCHANGED <<chunk, pos, lookup, source, view>>

\* The loop ends at [DONE], or when there is nothing more to scan.
EndOfBody ==
    /\ at = "scan" /\ upstream # "live"
    /\ at' = "closing"
    /\ UNCHANGED <<chunk, pos, lookup, source, view>>

CloseText ==
    /\ at = "closing"
    /\ view' = IF textBlock >= 0 THEN Closed(textBlock) ELSE view
    /\ at' = "closing calls"
    /\ UNCHANGED <<chunk, pos, lookup, source>>

ToClose == {i \in DOMAIN tools : tools[i].started /\ view.blocks[tools[i].block].open}

\* The blocks of calls are closed in any order.
CloseCall ==
    /\ at = "closing calls"
    /\ \E i \in ToClose : view' = Closed(tools[i].block)
    /\ UNCHANGED <<at, chunk, pos, lookup, source>>

\* Mutant of MessageDelta: the blocks of calls stay open.
MessageDeltaEarly ==
    /\ at = "closing calls"
    /\ view' = [view EXCEPT !.phase = "stopping", !.reason = StopReason(finish)]
    /\ at' = "stop"
    /\ UNCHANGED <<chunk, pos, lookup, source>>

MessageDelta ==
    /\ at = "closing calls" /\ ToClose = {}
    /\ view' = [view EXCEPT !.phase = "stopping", !.reason = StopReason(finish)]
    /\ at' = "stop"
    /\ UNCHANGED <<chunk, pos, lookup, source>>

MessageStop ==
    /\ at = "stop"
    /\ view' = [view EXCEPT !.phase = "stopped"]
    /\ at' = "done"
    /\ UNCHANGED <<chunk, pos, lookup, source>>

\* The upstream says [DONE], or its body ends or breaks off without it.
UpstreamEnds(how) ==
    /\ at # "done" /\ upstream = "live"
    /\ upstream' = how
    /\ UNCHANGED <<at, chunk, pos, lookup, reads, said, view>>

Translate ==
    \/ MessageStart \/ StartText \/ WriteText \/ NoteCall \/ StartForArgs \/ WriteArgs
    \/ EndChunk \/ EndOfBody \/ CloseText \/ CloseCall \/ MessageDelta \/ MessageStop

StreamNext ==
    \/ Translate
    \/ \E c \in Chunks : Scan(c)
    \/ \E how \in {"done", "gone"} : UpstreamEnds(how)

StreamSpec == StreamInit /\ [][StreamNext]_stream

-----------------------------------------------------------------------------
\* The states of the translator's loop, of its tools and of the client's blocks,
\* and how they hang together: each started call has a block of its own, and
\* blocks have the indices given out so far (anthropic_stream.go, toolState).
StreamTypeOK ==
    /\ at \in {"begin", "scan", "text", "calls", "args", "closing", "closing calls", "stop", "done"}
    /\ chunk \in Chunks \cup {NoChunk} /\ pos \in Nat \ {0}
    /\ nextBlock \in Nat /\ textBlock \in -1 .. nextBlock - 1
    /\ \A i \in DOMAIN tools :
        /\ tools[i].block \in 0 .. nextBlock - 1 /\ tools[i].block # textBlock
        /\ tools[i].started <=> tools[i].block \in DOMAIN view.blocks
        /\ \A j \in DOMAIN tools \ {i} : tools[i].block # tools[j].block
    /\ DOMAIN view.blocks =
        {tools[i].block : i \in {j \in DOMAIN tools : tools[j].started}} \cup ({textBlock} \ {-1})

\* The pieces of text and of arguments that may come.
TextPieces == {c.text : c \in Chunks}
ArgsPieces == UNION {{c.calls[k].args : k \in DOMAIN c.calls} : c \in Chunks}

\* What the client makes of the events is a message as MessageStream promises
\* it, however text and calls interleave and wherever the upstream breaks off
\* (anthropic_stream.go, README.md:127).
Client == INSTANCE MessageStream WITH
    Pieces <- TextPieces \cup ArgsPieces,
    Reasons <- {"max_tokens", "tool_use", "end_turn"},
    phase <- view.phase, blocks <- view.blocks, reason <- view.reason
RefinesMessageStream == Client!Spec
=============================================================================
