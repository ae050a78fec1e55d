------------------------ MODULE AnthropicStreamProofs ------------------------
(***************************************************************************)
(* The translator of streams implements MessageStream, for any chunks, by  *)
(* itself and within a conversation of any length, and what the client     *)
(* puts together is what the upstream said.  In such a conversation the    *)
(* client and the assistant take turns, the upstream gets its messages     *)
(* back, and calls and results answer each other.                          *)
(***************************************************************************)
EXTENDS Messages, OperatorTheorems

Pieces == TextPieces \cup ArgsPieces

\* The strings, with the empty one named for the provers.
Words == STRING \cup {""}

Block == [type : {"text", "tool_use"}, id : Words, name : Words, body : Seq(Pieces), open : BOOLEAN]

Tool == [block : Nat, started : BOOLEAN, id : Words, name : Words]

Reasons == {"max_tokens", "tool_use", "end_turn"}

ViewOK(v) ==
    /\ v = [phase |-> v.phase, blocks |-> v.blocks, reason |-> v.reason]
    /\ v.phase \in {"none", "open", "stopping", "stopped"} /\ v.reason \in Reasons \cup {""}
    /\ v.blocks = [i \in DOMAIN v.blocks |-> v.blocks[i]]
    /\ \A i \in DOMAIN v.blocks : v.blocks[i] \in Block

\* The shape of the state.
Shape ==
    /\ at \in {"begin", "scan", "text", "calls", "args", "closing", "closing calls", "stop", "done"}
    /\ chunk \in Chunks \cup {NoChunk} /\ pos \in Nat \ {0}
    /\ nextBlock \in Nat /\ textBlock \in -1 .. nextBlock - 1
    /\ DOMAIN tools \subseteq Indices /\ tools \in [DOMAIN tools -> Tool]
    /\ ViewOK(view)

\* Each block belongs to the text or to one call that has started.
Owned ==
    /\ \A i \in DOMAIN tools :
        /\ tools[i].block < nextBlock /\ tools[i].block # textBlock
        /\ tools[i].started <=> tools[i].block \in DOMAIN view.blocks
    /\ \A i, j \in DOMAIN tools : tools[i].block = tools[j].block => i = j
    /\ \A b \in DOMAIN view.blocks :
        \/ b = textBlock /\ b \in Nat
        \/ \E i \in DOMAIN tools : tools[i].started /\ tools[i].block = b
    /\ textBlock >= 0 => textBlock \in DOMAIN view.blocks

\* What the translator is about to do is possible.
InPlace ==
    /\ at = "text" => chunk \in Chunks
    /\ at = "args" => chunk \in Chunks /\ pos \in DOMAIN chunk.calls /\ Slot(Delta) \in DOMAIN tools

\* Every block is open until the loop ends; then the text's is closed first.
OpenUntilTheEnd ==
    /\ at \in {"scan", "text", "calls", "args", "closing"} =>
        \A i \in DOMAIN view.blocks : view.blocks[i].open
    /\ at = "closing calls" /\ textBlock >= 0 => ~view.blocks[textBlock].open

Phases ==
    /\ at = "begin" => view = NoView /\ tools = NoTools /\ textBlock = -1
    /\ at \notin {"begin", "stop", "done"} => view.phase = "open"
    /\ at = "stop" => view.phase = "stopping"
    /\ at = "done" => view.phase = "stopped"

IInv == Shape /\ Owned /\ InPlace /\ OpenUntilTheEnd /\ Phases

LEMMA ChunkShape ==
    ASSUME NEW c \in Chunks
    PROVE  /\ c.text \in STRING /\ c.text \in Pieces
           /\ c.calls \in Seq(Deltas)
           /\ \A k \in DOMAIN c.calls : c.calls[k] \in Deltas /\ c.calls[k].args \in Pieces
<1>1. c \in [text : STRING, calls : Seq(Deltas), finish : STRING]
    BY ChunksAssumption
<1>2. \A k \in DOMAIN c.calls : c.calls[k] \in Deltas
    BY <1>1
<1>3. c.text \in TextPieces
    BY DEF TextPieces
<1>4. \A k \in DOMAIN c.calls : c.calls[k].args \in ArgsPieces
    BY DEF ArgsPieces
<1> QED BY <1>1, <1>2, <1>3, <1>4 DEF Pieces

\* A view with other blocks is a view.
LEMMA WithBlocks ==
    ASSUME NEW v, ViewOK(v), NEW blocks, blocks = [i \in DOMAIN blocks |-> blocks[i]],
           \A i \in DOMAIN blocks : blocks[i] \in Block
    PROVE  LET w == [v EXCEPT !.blocks = blocks]
           IN  ViewOK(w) /\ w.blocks = blocks /\ w.phase = v.phase /\ w.reason = v.reason
<1> DEFINE w == [phase |-> v.phase, blocks |-> blocks, reason |-> v.reason]
<1>1. v = [phase |-> v.phase, blocks |-> v.blocks, reason |-> v.reason]
    BY DEF ViewOK
<1>2. [v EXCEPT !.blocks = blocks] = w
    BY <1>1
<1>3. w.blocks = blocks /\ w.phase = v.phase /\ w.reason = v.reason
    OBVIOUS
<1>4. w = [phase |-> w.phase, blocks |-> w.blocks, reason |-> w.reason]
    OBVIOUS
<1> HIDE DEF w
<1>5. ViewOK(w)
    BY <1>3, <1>4 DEF ViewOK
<1> QED BY <1>2, <1>3, <1>5

LEMMA NewBlock == OpenText \in Block /\ \A id, name \in Words : OpenTool(id, name) \in Block
<1> DEFINE Made(type, id, name, body) ==
            [type |-> type, id |-> id, name |-> name, body |-> body, open |-> TRUE]
<1>1. \A id, name \in Words, body \in Seq(Pieces) :
        Made("text", id, name, body) \in Block /\ Made("tool_use", id, name, body) \in Block
    BY DEF Block
<1>2. <<>> \in Seq(Pieces)
    OBVIOUS
<1>3. \A id, name \in Words :
        Made("text", id, name, <<>>) \in Block /\ Made("tool_use", id, name, <<>>) \in Block
    <2> HIDE DEF Made
    <2> QED BY <1>1, <1>2, Zenon
<1>4. OpenText = Made("text", "", "", <<>>)
    BY DEF OpenText
<1>5. \A id, name \in Words : OpenTool(id, name) = Made("tool_use", id, name, <<>>)
    BY DEF OpenTool
<1>6. "" \in Words
    BY DEF Words
<1> HIDE DEF Made
<1>7. OpenText \in Block
    BY <1>3, <1>4, <1>6, Zenon
<1> QED BY <1>3, <1>5, <1>7, Zenon

LEMMA WrittenBlock ==
    ASSUME NEW b \in Block, NEW piece \in Pieces
    PROVE  LET c == [b EXCEPT !.body = Append(@, piece)] IN c \in Block /\ c.open = b.open
BY DEF Block

LEMMA ClosedBlock ==
    ASSUME NEW b \in Block
    PROVE  LET c == [b EXCEPT !.open = FALSE] IN c \in Block /\ ~c.open
BY DEF Block

\* One block is put in the place of another, or added.
LEMMA OneBlock ==
    ASSUME ViewOK(view), NEW i, NEW block \in Block
    PROVE  LET blocks == [j \in DOMAIN view.blocks \cup {i} |->
                            IF j = i THEN block ELSE view.blocks[j]]
               v == [view EXCEPT !.blocks = blocks]
           IN  /\ ViewOK(v) /\ v.phase = view.phase /\ v.reason = view.reason
               /\ v.blocks = blocks
<1> DEFINE blocks == [j \in DOMAIN view.blocks \cup {i} |->
                        IF j = i THEN block ELSE view.blocks[j]]
<1>1. \A j \in DOMAIN view.blocks : view.blocks[j] \in Block
    BY DEF ViewOK
<1>2. DOMAIN blocks = DOMAIN view.blocks \cup {i}
    OBVIOUS
<1>3. \A j \in DOMAIN blocks : blocks[j] \in Block
    BY <1>1
<1>4. blocks = [j \in DOMAIN blocks |-> blocks[j]]
    OBVIOUS
<1> HIDE DEF blocks
<1>5. LET v == [view EXCEPT !.blocks = blocks]
      IN  ViewOK(v) /\ v.blocks = blocks /\ v.phase = view.phase /\ v.reason = view.reason
    BY <1>3, <1>4, WithBlocks
<1> QED BY <1>5 DEF blocks

\* What an event does to what the client has made of them.
LEMMA Opening ==
    ASSUME ViewOK(view), NEW i, NEW block \in Block
    PROVE  LET v == Opened(i, block)
           IN  /\ ViewOK(v) /\ v.phase = view.phase /\ v.reason = view.reason
               /\ v.blocks = [j \in DOMAIN view.blocks \cup {i} |->
                                IF j = i THEN block ELSE view.blocks[j]]
BY OneBlock DEF Opened

LEMMA Writing ==
    ASSUME ViewOK(view), NEW i \in DOMAIN view.blocks, NEW piece \in Pieces
    PROVE  LET v == Written(i, piece)
           IN  /\ ViewOK(v) /\ v.phase = view.phase /\ v.reason = view.reason
               /\ v.blocks = [view.blocks EXCEPT ![i].body = Append(@, piece)]
               /\ DOMAIN v.blocks = DOMAIN view.blocks
               /\ \A j \in DOMAIN v.blocks : v.blocks[j].open = view.blocks[j].open
<1> DEFINE b == [view.blocks[i] EXCEPT !.body = Append(@, piece)]
           blocks == [view.blocks EXCEPT ![i] = b]
<1>1. /\ view.blocks[i] \in Block /\ view.blocks = [j \in DOMAIN view.blocks |-> view.blocks[j]]
      /\ \A j \in DOMAIN view.blocks : view.blocks[j] \in Block
    BY DEF ViewOK
<1>2. b \in Block /\ b.open = view.blocks[i].open
    BY <1>1, WrittenBlock
<1>3. /\ Written(i, piece) = [view EXCEPT !.blocks = blocks]
      /\ blocks = [view.blocks EXCEPT ![i].body = Append(@, piece)]
    BY DEF Written
<1> HIDE DEF b
<1>4. /\ DOMAIN blocks = DOMAIN view.blocks
      /\ \A j \in DOMAIN blocks : blocks[j] = (IF j = i THEN b ELSE view.blocks[j])
      /\ blocks = [j \in DOMAIN blocks |-> blocks[j]]
    BY <1>1
<1> HIDE DEF blocks
<1>5. \A j \in DOMAIN blocks : blocks[j] \in Block /\ blocks[j].open = view.blocks[j].open
    BY <1>1, <1>2, <1>4
<1>6. LET v == [view EXCEPT !.blocks = blocks]
      IN  ViewOK(v) /\ v.blocks = blocks /\ v.phase = view.phase /\ v.reason = view.reason
    BY <1>4, <1>5, WithBlocks
<1> QED BY <1>3, <1>4, <1>5, <1>6

LEMMA Closing ==
    ASSUME ViewOK(view), NEW i \in DOMAIN view.blocks
    PROVE  LET v == Closed(i)
           IN  /\ ViewOK(v) /\ v.phase = view.phase /\ v.reason = view.reason
               /\ v.blocks = [view.blocks EXCEPT ![i].open = FALSE]
               /\ DOMAIN v.blocks = DOMAIN view.blocks
               /\ ~v.blocks[i].open
               /\ \A j \in DOMAIN v.blocks \ {i} : v.blocks[j].open = view.blocks[j].open
<1> DEFINE b == [view.blocks[i] EXCEPT !.open = FALSE]
           blocks == [view.blocks EXCEPT ![i] = b]
<1>1. /\ view.blocks[i] \in Block /\ view.blocks = [j \in DOMAIN view.blocks |-> view.blocks[j]]
      /\ \A j \in DOMAIN view.blocks : view.blocks[j] \in Block
    BY DEF ViewOK
<1>2. b \in Block /\ ~b.open
    BY <1>1, ClosedBlock
<1>3. /\ Closed(i) = [view EXCEPT !.blocks = blocks]
      /\ blocks = [view.blocks EXCEPT ![i].open = FALSE]
    BY DEF Closed
<1> HIDE DEF b
<1>4. /\ DOMAIN blocks = DOMAIN view.blocks
      /\ \A j \in DOMAIN blocks : blocks[j] = (IF j = i THEN b ELSE view.blocks[j])
      /\ blocks = [j \in DOMAIN blocks |-> blocks[j]]
    BY <1>1
<1> HIDE DEF blocks
<1>5. \A j \in DOMAIN blocks :
        /\ blocks[j] \in Block
        /\ j = i => ~blocks[j].open
        /\ j # i => blocks[j].open = view.blocks[j].open
    BY <1>1, <1>2, <1>4
<1>6. LET v == [view EXCEPT !.blocks = blocks]
      IN  ViewOK(v) /\ v.blocks = blocks /\ v.phase = view.phase /\ v.reason = view.reason
    BY <1>4, <1>5, WithBlocks
<1> QED BY <1>3, <1>4, <1>5, <1>6

LEMMA InitInvariant == StreamInit => IInv
<1> SUFFICES ASSUME StreamInit PROVE IInv
    OBVIOUS
<1>1. ViewOK(view)
    BY DEF ViewOK, StreamInit, NoView
<1>2. DOMAIN tools = {} /\ DOMAIN view.blocks = {} /\ tools \in [{} -> Tool]
    BY DEF StreamInit, NoView, NoTools
<1>3. /\ at = "begin" /\ chunk = NoChunk /\ pos = 1 /\ tools = NoTools /\ nextBlock = 0
      /\ textBlock = -1 /\ view = NoView
    BY DEF StreamInit
<1>4. Shape
    BY <1>1, <1>2, <1>3 DEF Shape
<1>5. Owned
    BY <1>2, <1>3 DEF Owned
<1>6. InPlace /\ OpenUntilTheEnd /\ Phases
    BY <1>3 DEF InPlace, OpenUntilTheEnd, Phases
<1> QED BY <1>4, <1>5, <1>6 DEF IInv

LEMMA NoteCallShape ==
    ASSUME IInv, NoteCall
    PROVE  /\ chunk \in Chunks /\ pos \in DOMAIN chunk.calls
           /\ Delta \in Deltas /\ Delta.args \in Pieces /\ Slot(Delta) \in Indices
           /\ Noted \in Tool
<1>0. /\ pos \in Nat \ {0} /\ pos <= Len(chunk.calls) /\ chunk \in Chunks \cup {NoChunk}
      /\ DOMAIN tools \subseteq Indices /\ tools \in [DOMAIN tools -> Tool] /\ nextBlock \in Nat
    BY DEF IInv, Shape, NoteCall
<1>1. chunk \in Chunks
    <2>1. NoChunk.calls = <<>>
        BY DEF NoChunk
    <2>2. Len(<<>>) = 0
        OBVIOUS
    <2>3. chunk # NoChunk
        BY <1>0, <2>1, <2>2
    <2> QED BY <1>0, <2>3
<1>2. chunk.calls \in Seq(Deltas)
    BY <1>1, ChunkShape
<1>3. pos \in DOMAIN chunk.calls
    <2>1. Len(chunk.calls) \in Nat /\ DOMAIN chunk.calls = 1 .. Len(chunk.calls)
        BY <1>2
    <2> QED BY <1>0, <2>1
<1>4. Delta \in Deltas /\ Delta.args \in Pieces
    BY <1>1, <1>3, ChunkShape DEF Delta
<1>5. Slot(Delta) \in Indices /\ Delta.id \in STRING /\ Delta.name \in STRING
    BY <1>4 DEF Slot, Deltas
<1>6. Noted \in Tool
    <2>1. CASE Slot(Delta) \in DOMAIN tools
        BY <2>1, <1>0, <1>5 DEF Noted, Tool, Words
    <2>2. CASE Slot(Delta) \notin DOMAIN tools
        BY <2>2, <1>0, <1>5 DEF Noted, Tool, Words
    <2> QED BY <2>1, <2>2
<1> QED BY <1>1, <1>3, <1>4, <1>5, <1>6

\* A view with another phase or reason is a view.
LEMMA WithPhase ==
    ASSUME NEW v, ViewOK(v), NEW p \in {"none", "open", "stopping", "stopped"}
    PROVE  LET w == [v EXCEPT !.phase = p]
           IN  ViewOK(w) /\ w.blocks = v.blocks /\ w.phase = p /\ w.reason = v.reason
<1> DEFINE w == [phase |-> p, blocks |-> v.blocks, reason |-> v.reason]
<1>1. v = [phase |-> v.phase, blocks |-> v.blocks, reason |-> v.reason]
    BY DEF ViewOK
<1>2. [v EXCEPT !.phase = p] = w
    BY <1>1
<1>3. w.blocks = v.blocks /\ w.phase = p /\ w.reason = v.reason
    OBVIOUS
<1>4. w = [phase |-> w.phase, blocks |-> w.blocks, reason |-> w.reason]
    OBVIOUS
<1> HIDE DEF w
<1>5. ViewOK(w)
    BY <1>3, <1>4 DEF ViewOK
<1> QED BY <1>2, <1>3, <1>5

LEMMA WithReason ==
    ASSUME NEW v, ViewOK(v), NEW r \in Reasons
    PROVE  LET w == [v EXCEPT !.reason = r]
           IN  ViewOK(w) /\ w.blocks = v.blocks /\ w.phase = v.phase /\ w.reason = r
<1> DEFINE w == [phase |-> v.phase, blocks |-> v.blocks, reason |-> r]
<1>1. v = [phase |-> v.phase, blocks |-> v.blocks, reason |-> v.reason]
    BY DEF ViewOK
<1>2. [v EXCEPT !.reason = r] = w
    BY <1>1
<1>3. w.blocks = v.blocks /\ w.phase = v.phase /\ w.reason = r
    OBVIOUS
<1>4. w = [phase |-> w.phase, blocks |-> w.blocks, reason |-> w.reason]
    OBVIOUS
<1> HIDE DEF w
<1>5. ViewOK(w)
    BY <1>3, <1>4 DEF ViewOK
<1> QED BY <1>2, <1>3, <1>5

LEMMA StopReasonType == \A f : StopReason(f) \in Reasons
BY DEF StopReason, Reasons

\* The index that is given out next is that of no block.
LEMMA NextIsNew ==
    ASSUME Shape, Owned
    PROVE  nextBlock \notin DOMAIN view.blocks
<1>1. nextBlock \in Nat /\ textBlock \in -1 .. nextBlock - 1
    BY DEF Shape
<1>2. \A i \in DOMAIN tools : tools[i].block < nextBlock /\ tools[i].block \in Nat
    BY DEF Shape, Owned, Tool
<1>3. nextBlock # textBlock /\ \A i \in DOMAIN tools : tools[i].block # nextBlock
    BY <1>1, <1>2
<1> QED BY <1>3 DEF Owned

\* Steps that give out no index and open no block.
LEMMA OwnedStays ==
    ASSUME Owned, UNCHANGED <<tools, nextBlock, textBlock>>, DOMAIN view'.blocks = DOMAIN view.blocks
    PROVE  Owned'
BY DEF Owned

\* Both halves of what each action of the translator does: the invariant is kept
\* and the client sees a step of MessageStream, or none.
KeptAndMapped == IInv' /\ (Client!Next \/ UNCHANGED Client!vars)

LEMMA MessageStartKeeps == ASSUME IInv, MessageStart PROVE KeptAndMapped
<1>1. at = "begin" /\ at' = "scan" /\ UNCHANGED <<chunk, pos, tools, nextBlock, textBlock>>
    BY DEF MessageStart, lookup
<1>2. view = NoView /\ ViewOK(view)
    BY <1>1 DEF IInv, Phases, Shape
<1>3. ViewOK(view') /\ view'.phase = "open" /\ view'.blocks = view.blocks /\ view'.reason = view.reason
    <2>1. view' = [view EXCEPT !.phase = "open"]
        BY DEF MessageStart
    <2>3. ViewOK(view) /\ "open" \in {"none", "open", "stopping", "stopped"}
        BY <1>2
    <2>2. LET w == [view EXCEPT !.phase = "open"]
          IN  ViewOK(w) /\ w.blocks = view.blocks /\ w.phase = "open" /\ w.reason = view.reason
        BY ONLY <2>3, WithPhase, ZenonT(30)
    <2> QED BY ONLY <2>1, <2>2
<1>4. Shape'
    BY <1>1, <1>3 DEF IInv, Shape
<1>5. Owned'
    BY <1>1, <1>3, OwnedStays DEF IInv
<1>6. DOMAIN view.blocks = {} /\ view.phase = "none"
    BY <1>2 DEF NoView
<1>7. InPlace' /\ OpenUntilTheEnd' /\ Phases'
    BY <1>1, <1>3, <1>6 DEF InPlace, OpenUntilTheEnd, Phases
<1>8. Client!Start
    BY <1>3, <1>6 DEF Client!Start
<1> QED BY <1>4, <1>5, <1>7, <1>8 DEF IInv, KeptAndMapped, Client!Next

LEMMA ScanKeeps == ASSUME IInv, NEW c \in Chunks, Scan(c) PROVE KeptAndMapped
<1>1. /\ at = "scan" /\ at' \in {"calls", "text"} /\ chunk' = c /\ pos' = 1
      /\ UNCHANGED <<tools, nextBlock, textBlock, view>>
    BY DEF Scan, lookup
<1>2. Shape'
    <2>1. /\ nextBlock \in Nat /\ textBlock \in -1 .. nextBlock - 1
          /\ DOMAIN tools \subseteq Indices /\ tools \in [DOMAIN tools -> Tool]
          /\ ViewOK(view)
        BY DEF IInv, Shape
    <2>2. chunk' \in Chunks \cup {NoChunk} /\ pos' \in Nat \ {0} /\ ViewOK(view')
        BY <1>1, <2>1
    <2> QED BY <1>1, <2>1, <2>2 DEF Shape
<1>3. Owned'
    BY <1>1, OwnedStays DEF IInv
<1>4. InPlace' /\ OpenUntilTheEnd' /\ Phases'
    BY <1>1 DEF IInv, InPlace, OpenUntilTheEnd, Phases
<1> QED BY <1>1, <1>2, <1>3, <1>4 DEF IInv, KeptAndMapped, Client!vars

\* A block that has just been opened.
Fresh(block) == block.open /\ block.body = <<>> /\ (block.type = "tool_use" => block.id # "")

\* A block is opened where there is none.
LEMMA OpeningMaps ==
    ASSUME ViewOK(view), view.phase = "open", NEW b, b \in Nat, b \notin DOMAIN view.blocks,
           NEW block \in Block, Fresh(block), view' = Opened(b, block)
    PROVE  /\ ViewOK(view') /\ view'.phase = view.phase
           /\ DOMAIN view'.blocks = DOMAIN view.blocks \cup {b}
           /\ view'.blocks[b].open
           /\ \A j \in DOMAIN view.blocks : view'.blocks[j] = view.blocks[j]
           /\ Client!OpenBlock
<1>1. /\ ViewOK(view') /\ view'.phase = view.phase /\ view'.reason = view.reason
      /\ view'.blocks = [j \in DOMAIN view.blocks \cup {b} |-> IF j = b THEN block ELSE view.blocks[j]]
    BY Opening
<1>2. /\ DOMAIN view'.blocks = DOMAIN view.blocks \cup {b}
      /\ view'.blocks[b] = block
      /\ \A j \in DOMAIN view.blocks : view'.blocks[j] = view.blocks[j]
    BY <1>1
<1>3. b \in Nat \cap (DOMAIN view'.blocks \ DOMAIN view.blocks)
    BY <1>2
<1>4. view'.blocks = [j \in DOMAIN view.blocks \cup {b} |->
                        IF j = b THEN view'.blocks[b] ELSE view.blocks[j]]
    BY <1>1, <1>2
<1>5. /\ view'.blocks[b].open /\ view'.blocks[b].body = <<>>
      /\ (view'.blocks[b].type = "tool_use" => view'.blocks[b].id # "")
    BY <1>2, Zenon DEF Fresh
<1>6. Client!OpenBlock
    BY <1>1, <1>3, <1>4, <1>5, Zenon DEF Client!OpenBlock
<1> QED BY <1>1, <1>2, <1>5, <1>6

LEMMA StartTextKeeps == ASSUME IInv, StartText PROVE KeptAndMapped
<1>1. /\ at = "text" /\ textBlock < 0 /\ textBlock' = nextBlock /\ nextBlock' = nextBlock + 1
      /\ view' = Opened(nextBlock, OpenText) /\ UNCHANGED <<at, chunk, pos, tools>>
    BY DEF StartText
<1>2. ViewOK(view) /\ view.phase = "open" /\ nextBlock \in Nat
    BY <1>1 DEF IInv, Shape, Phases
<1>3. nextBlock \notin DOMAIN view.blocks
    BY NextIsNew DEF IInv
<1>4. OpenText \in Block
    BY NewBlock
<1>10. Fresh(OpenText)
    BY DEF OpenText, Fresh
<1>5. /\ ViewOK(view') /\ view'.phase = view.phase
      /\ DOMAIN view'.blocks = DOMAIN view.blocks \cup {nextBlock}
      /\ view'.blocks[nextBlock].open
      /\ \A j \in DOMAIN view.blocks : view'.blocks[j] = view.blocks[j]
      /\ Client!OpenBlock
    BY <1>1, <1>2, <1>3, <1>4, <1>10, OpeningMaps
<1>6. Shape'
    BY <1>1, <1>5 DEF IInv, Shape
<1>7. \A i \in DOMAIN tools : tools[i].block \in Nat
    BY DEF IInv, Shape, Tool
<1>8. Owned'
    BY <1>1, <1>2, <1>3, <1>5, <1>7 DEF IInv, Owned
<1>9. InPlace' /\ OpenUntilTheEnd' /\ Phases'
    BY <1>1, <1>2, <1>5 DEF IInv, InPlace, OpenUntilTheEnd, Phases
<1> QED BY <1>5, <1>6, <1>8, <1>9 DEF IInv, KeptAndMapped, Client!Next

LEMMA WriteTextKeeps == ASSUME IInv, WriteText PROVE KeptAndMapped
<1>1. /\ at = "text" /\ textBlock >= 0 /\ view' = Written(textBlock, chunk.text) /\ at' = "calls"
      /\ UNCHANGED <<chunk, pos, tools, nextBlock, textBlock>>
    BY DEF WriteText, lookup
<1>2. /\ ViewOK(view) /\ textBlock \in DOMAIN view.blocks /\ chunk.text \in Pieces
      /\ view.phase = "open" /\ \A i \in DOMAIN view.blocks : view.blocks[i].open
    BY <1>1, ChunkShape DEF IInv, Shape, Owned, InPlace, OpenUntilTheEnd, Phases
<1>3. /\ ViewOK(view') /\ view'.phase = view.phase /\ view'.reason = view.reason
      /\ view'.blocks = [view.blocks EXCEPT ![textBlock].body = Append(@, chunk.text)]
      /\ DOMAIN view'.blocks = DOMAIN view.blocks
      /\ \A j \in DOMAIN view'.blocks : view'.blocks[j].open = view.blocks[j].open
    BY <1>1, <1>2, Writing
<1>4. Shape'
    BY <1>1, <1>3 DEF IInv, Shape
<1>5. Owned'
    BY <1>1, <1>3, OwnedStays DEF IInv
<1>6. InPlace' /\ OpenUntilTheEnd' /\ Phases'
    BY <1>1, <1>2, <1>3 DEF InPlace, OpenUntilTheEnd, Phases
<1>7. Client!Write
    BY <1>2, <1>3 DEF Client!Write, Pieces
<1> QED BY <1>4, <1>5, <1>6, <1>7 DEF IInv, KeptAndMapped, Client!Next

LEMMA WriteArgsKeeps == ASSUME IInv, WriteArgs PROVE KeptAndMapped
<1> DEFINE b == tools[Slot(Delta)].block
<1>1. /\ at = "args" /\ tools[Slot(Delta)].started /\ view' = Written(b, Delta.args)
      /\ at' = "calls" /\ pos' = pos + 1 /\ UNCHANGED <<chunk, tools, nextBlock, textBlock>>
    BY DEF WriteArgs, lookup
<1>2. Slot(Delta) \in DOMAIN tools /\ b \in DOMAIN view.blocks /\ Delta.args \in Pieces
    BY <1>1, ChunkShape DEF IInv, Owned, InPlace, Delta
<1>3. /\ ViewOK(view) /\ view.phase = "open" /\ \A i \in DOMAIN view.blocks : view.blocks[i].open
    BY <1>1 DEF IInv, Shape, OpenUntilTheEnd, Phases
<1> HIDE DEF b
<1>4. /\ ViewOK(view') /\ view'.phase = view.phase /\ view'.reason = view.reason
      /\ view'.blocks = [view.blocks EXCEPT ![b].body = Append(@, Delta.args)]
      /\ DOMAIN view'.blocks = DOMAIN view.blocks
      /\ \A j \in DOMAIN view'.blocks : view'.blocks[j].open = view.blocks[j].open
    BY <1>1, <1>2, <1>3, Writing
<1>5. Shape'
    BY <1>1, <1>4 DEF IInv, Shape
<1>6. Owned'
    BY <1>1, <1>4, OwnedStays DEF IInv
<1>7. InPlace' /\ OpenUntilTheEnd' /\ Phases'
    BY <1>1, <1>3, <1>4 DEF InPlace, OpenUntilTheEnd, Phases
<1>8. Client!Write
    BY <1>2, <1>3, <1>4 DEF Client!Write, Pieces
<1> QED BY <1>5, <1>6, <1>7, <1>8 DEF IInv, KeptAndMapped, Client!Next

LEMMA EndChunkKeeps == ASSUME IInv, EndChunk PROVE KeptAndMapped
<1>1. /\ at = "calls" /\ at' = "scan" /\ chunk' = NoChunk /\ pos' = 1
      /\ UNCHANGED <<tools, nextBlock, textBlock, view>>
    BY DEF EndChunk
<1>2. /\ nextBlock \in Nat /\ textBlock \in -1 .. nextBlock - 1
      /\ DOMAIN tools \subseteq Indices /\ tools \in [DOMAIN tools -> Tool]
      /\ ViewOK(view)
    BY DEF IInv, Shape
<1>3. chunk' \in Chunks \cup {NoChunk} /\ pos' \in Nat \ {0} /\ ViewOK(view')
    BY <1>1, <1>2
<1>4. Shape'
    BY <1>1, <1>2, <1>3 DEF Shape
<1>5. Owned'
    BY <1>1, OwnedStays DEF IInv
<1>6. InPlace' /\ OpenUntilTheEnd' /\ Phases'
    BY <1>1 DEF IInv, InPlace, OpenUntilTheEnd, Phases
<1> QED BY <1>1, <1>4, <1>5, <1>6 DEF IInv, KeptAndMapped, Client!vars

\* Steps of which the client sees nothing.
LEMMA QuietKeeps ==
    ASSUME IInv, EndOfBody \/ \E how \in {"done", "gone"} : UpstreamEnds(how)
    PROVE  KeptAndMapped
<1>1. at' = at \/ (at = "scan" /\ at' = "closing")
    <2>1. CASE EndOfBody
        BY <2>1 DEF EndOfBody
    <2>2. ASSUME NEW how \in {"done", "gone"}, UpstreamEnds(how)
          PROVE  at' = at
        BY <2>2 DEF UpstreamEnds
    <2> QED BY <2>1, <2>2
<1>2. UNCHANGED <<chunk, pos, tools, nextBlock, textBlock, view>>
    <2>1. CASE EndOfBody
        BY <2>1 DEF EndOfBody, lookup
    <2>2. ASSUME NEW how \in {"done", "gone"}, UpstreamEnds(how)
          PROVE  UNCHANGED <<chunk, pos, tools, nextBlock, textBlock, view>>
        BY <2>2 DEF UpstreamEnds, lookup
    <2> QED BY <2>1, <2>2
<1>3. Shape'
    <2>1. /\ nextBlock \in Nat /\ textBlock \in -1 .. nextBlock - 1
          /\ DOMAIN tools \subseteq Indices /\ tools \in [DOMAIN tools -> Tool]
          /\ chunk \in Chunks \cup {NoChunk} /\ pos \in Nat \ {0} /\ ViewOK(view)
          /\ at \in {"begin", "scan", "text", "calls", "args", "closing", "closing calls", "stop", "done"}
        BY DEF IInv, Shape
    <2>2. ViewOK(view')
        BY <1>2, <2>1
    <2> QED BY <1>1, <1>2, <2>1, <2>2 DEF Shape
<1>4. Owned'
    BY <1>2, OwnedStays DEF IInv
<1>5. InPlace' /\ OpenUntilTheEnd' /\ Phases'
    BY <1>1, <1>2 DEF IInv, InPlace, OpenUntilTheEnd, Phases, Slot, Delta
<1> QED BY <1>2, <1>3, <1>4, <1>5 DEF IInv, KeptAndMapped, Client!vars

LEMMA MessageStopKeeps == ASSUME IInv, MessageStop PROVE KeptAndMapped
<1>1. at = "stop" /\ at' = "done" /\ UNCHANGED <<chunk, pos, tools, nextBlock, textBlock>>
    BY DEF MessageStop, lookup
<1>2. ViewOK(view) /\ view.phase = "stopping"
    BY <1>1 DEF IInv, Phases, Shape
<1>3. ViewOK(view') /\ view'.phase = "stopped" /\ view'.blocks = view.blocks /\ view'.reason = view.reason
    <2>1. view' = [view EXCEPT !.phase = "stopped"]
        BY DEF MessageStop
    <2>2. LET w == [view EXCEPT !.phase = "stopped"]
          IN  ViewOK(w) /\ w.blocks = view.blocks /\ w.phase = "stopped" /\ w.reason = view.reason
        BY <1>2, WithPhase
    <2> QED BY ONLY <2>1, <2>2
<1>4. Shape'
    BY <1>1, <1>3 DEF IInv, Shape
<1>5. Owned'
    BY <1>1, <1>3, OwnedStays DEF IInv
<1>6. InPlace' /\ OpenUntilTheEnd' /\ Phases'
    BY <1>1, <1>3 DEF InPlace, OpenUntilTheEnd, Phases
<1>7. Client!Stop
    BY <1>2, <1>3 DEF Client!Stop
<1> QED BY <1>4, <1>5, <1>6, <1>7 DEF IInv, KeptAndMapped, Client!Next

LEMMA MessageDeltaKeeps == ASSUME IInv, MessageDelta PROVE KeptAndMapped
<1>1. /\ at = "closing calls" /\ ToClose = {} /\ at' = "stop"
      /\ UNCHANGED <<chunk, pos, tools, nextBlock, textBlock>>
    BY DEF MessageDelta, lookup
<1>2. ViewOK(view) /\ view.phase = "open"
    BY <1>1 DEF IInv, Phases, Shape
<1> DEFINE v == [view EXCEPT !.phase = "stopping"]
<1>3. view' = [v EXCEPT !.reason = StopReason(finish)]
    BY <1>2 DEF MessageDelta, ViewOK
<1>4. ViewOK(v) /\ v.phase = "stopping" /\ v.blocks = view.blocks /\ v.reason = view.reason
    BY <1>2, WithPhase
<1> HIDE DEF v
<1>5. /\ ViewOK(view') /\ view'.phase = "stopping" /\ view'.blocks = view.blocks
      /\ view'.reason \in Reasons
    BY <1>3, <1>4, WithReason, StopReasonType
<1>6. Shape'
    BY <1>1, <1>5 DEF IInv, Shape
<1>7. Owned'
    BY <1>1, <1>5, OwnedStays DEF IInv
<1>8. InPlace' /\ OpenUntilTheEnd' /\ Phases'
    BY <1>1, <1>5 DEF InPlace, OpenUntilTheEnd, Phases
<1>9. \A b \in DOMAIN view.blocks : ~view.blocks[b].open
    <2>1. \A i \in DOMAIN tools : tools[i].started => ~view.blocks[tools[i].block].open
        BY <1>1 DEF ToClose
    <2>2. textBlock >= 0 => ~view.blocks[textBlock].open
        BY <1>1 DEF IInv, OpenUntilTheEnd
    <2>3. \A b \in DOMAIN view.blocks :
            \/ b = textBlock /\ b \in Nat
            \/ \E i \in DOMAIN tools : tools[i].started /\ tools[i].block = b
        BY DEF IInv, Owned
    <2> QED BY <2>1, <2>2, <2>3
<1>10. Client!GiveReason
    BY <1>2, <1>5, <1>9 DEF Client!GiveReason, Reasons
<1> QED BY <1>6, <1>7, <1>8, <1>10 DEF IInv, KeptAndMapped, Client!Next

LEMMA CloseTextKeeps == ASSUME IInv, CloseText PROVE KeptAndMapped
<1>1. /\ at = "closing" /\ at' = "closing calls"
      /\ UNCHANGED <<chunk, pos, tools, nextBlock, textBlock>>
      /\ view' = IF textBlock >= 0 THEN Closed(textBlock) ELSE view
    BY DEF CloseText, lookup
<1>2. /\ ViewOK(view) /\ view.phase = "open"
      /\ \A i \in DOMAIN view.blocks : view.blocks[i].open
      /\ textBlock >= 0 => textBlock \in DOMAIN view.blocks
    BY <1>1 DEF IInv, Shape, Owned, OpenUntilTheEnd, Phases
<1>3. /\ ViewOK(view') /\ view'.phase = view.phase /\ view'.reason = view.reason
      /\ DOMAIN view'.blocks = DOMAIN view.blocks
      /\ textBlock >= 0 => /\ ~view'.blocks[textBlock].open
                           /\ view'.blocks = [view.blocks EXCEPT ![textBlock].open = FALSE]
    <2>1. CASE textBlock >= 0
        <3>1. view' = Closed(textBlock) /\ textBlock \in DOMAIN view.blocks
            BY <1>1, <1>2, <2>1
        <3> QED BY <1>2, <3>1, Closing
    <2>2. CASE ~(textBlock >= 0)
        BY <1>1, <1>2, <2>2
    <2> QED BY <2>1, <2>2
<1>4. Shape'
    BY <1>1, <1>3 DEF IInv, Shape
<1>5. Owned'
    BY <1>1, <1>3, OwnedStays DEF IInv
<1>6. InPlace' /\ OpenUntilTheEnd' /\ Phases'
    BY <1>1, <1>2, <1>3 DEF InPlace, OpenUntilTheEnd, Phases
<1>7. CASE textBlock >= 0
    <2>1. Client!CloseBlock
        BY <1>2, <1>3, <1>7 DEF Client!CloseBlock
    <2> QED BY <1>4, <1>5, <1>6, <2>1 DEF IInv, KeptAndMapped, Client!Next
<1>8. CASE ~(textBlock >= 0)
    <2>1. view' = view
        BY <1>1, <1>8
    <2> QED BY <1>4, <1>5, <1>6, <2>1 DEF IInv, KeptAndMapped, Client!vars
<1> QED BY <1>7, <1>8

LEMMA CloseCallKeeps == ASSUME IInv, CloseCall PROVE KeptAndMapped
<1>1. at = "closing calls" /\ UNCHANGED <<at, chunk, pos, tools, nextBlock, textBlock>>
    BY DEF CloseCall, lookup
<1>2. PICK i \in ToClose : view' = Closed(tools[i].block)
    BY DEF CloseCall
<1> DEFINE b == tools[i].block
<1>3. /\ ViewOK(view) /\ view.phase = "open" /\ textBlock # b
      /\ b \in DOMAIN view.blocks /\ view.blocks[b].open
      /\ textBlock >= 0 => textBlock \in DOMAIN view.blocks /\ ~view.blocks[textBlock].open
    BY <1>1, <1>2 DEF IInv, Shape, Owned, OpenUntilTheEnd, Phases, ToClose
<1>4. view' = Closed(b)
    BY <1>2
<1> HIDE DEF b
<1>5. /\ ViewOK(view') /\ view'.phase = view.phase /\ view'.reason = view.reason
      /\ view'.blocks = [view.blocks EXCEPT ![b].open = FALSE]
      /\ DOMAIN view'.blocks = DOMAIN view.blocks
      /\ \A j \in DOMAIN view'.blocks \ {b} : view'.blocks[j].open = view.blocks[j].open
    BY <1>3, <1>4, Closing
<1>6. Shape'
    BY <1>1, <1>5 DEF IInv, Shape
<1>7. Owned'
    BY <1>1, <1>5, OwnedStays DEF IInv
<1>8. InPlace' /\ OpenUntilTheEnd' /\ Phases'
    BY <1>1, <1>3, <1>5 DEF InPlace, OpenUntilTheEnd, Phases
<1>9. Client!CloseBlock
    BY <1>3, <1>5 DEF Client!CloseBlock
<1> QED BY <1>6, <1>7, <1>8, <1>9 DEF IInv, KeptAndMapped, Client!Next

\* The same for the block of a call.
LEMMA OpeningTool ==
    ASSUME ViewOK(view), view.phase = "open", NEW b, b \in Nat, b \notin DOMAIN view.blocks,
           NEW id \in Words \ {""}, NEW name \in Words, view' = Opened(b, OpenTool(id, name))
    PROVE  /\ ViewOK(view') /\ view'.phase = view.phase
           /\ DOMAIN view'.blocks = DOMAIN view.blocks \cup {b}
           /\ view'.blocks[b].open
           /\ \A j \in DOMAIN view.blocks : view'.blocks[j] = view.blocks[j]
           /\ Client!OpenBlock
<1>1. OpenTool(id, name) \in Block
    BY NewBlock
<1>2. Fresh(OpenTool(id, name))
    BY DEF OpenTool, Fresh
<1> QED BY <1>1, <1>2, OpeningMaps

\* One call's state is noted, and its block, which is no other's, is opened or not.
LEMMA OwnedGrows ==
    ASSUME Shape, Owned, NEW s, NEW b \in Nat, NEW started \in BOOLEAN,
           textBlock' = textBlock, nextBlock' \in Nat, nextBlock <= nextBlock',
           b < nextBlock', b # textBlock,
           \A i \in DOMAIN tools \ {s} : tools[i].block # b,
           s \in DOMAIN tools => tools[s].block = b,
           DOMAIN tools' = DOMAIN tools \cup {s},
           tools'[s].block = b, tools'[s].started = started,
           \A i \in DOMAIN tools \ {s} : tools'[i] = tools[i],
           started <=> b \in DOMAIN view'.blocks,
           DOMAIN view.blocks \subseteq DOMAIN view'.blocks,
           DOMAIN view'.blocks \subseteq DOMAIN view.blocks \cup {b}
    PROVE  Owned'
<1>1. \A i \in DOMAIN tools : tools[i].block \in Nat /\ nextBlock \in Nat
    BY DEF Shape, Tool
<1>2. \A i \in DOMAIN tools' :
        /\ tools'[i].block < nextBlock' /\ tools'[i].block # textBlock'
        /\ tools'[i].started <=> tools'[i].block \in DOMAIN view'.blocks
    <2> SUFFICES ASSUME NEW i \in DOMAIN tools'
                 PROVE  /\ tools'[i].block < nextBlock' /\ tools'[i].block # textBlock'
                        /\ tools'[i].started <=> tools'[i].block \in DOMAIN view'.blocks
        OBVIOUS
    <2>1. CASE i = s
        BY <2>1
    <2>2. CASE i # s
        <3>1. i \in DOMAIN tools /\ tools'[i] = tools[i] /\ tools[i].block # b
            BY <2>2
        <3>2. tools[i].block \in DOMAIN view'.blocks <=> tools[i].block \in DOMAIN view.blocks
            BY <3>1
        <3> QED BY <1>1, <3>1, <3>2 DEF Owned
    <2> QED BY <2>1, <2>2
<1>3. \A i, j \in DOMAIN tools' : tools'[i].block = tools'[j].block => i = j
    <2> SUFFICES ASSUME NEW i \in DOMAIN tools', NEW j \in DOMAIN tools', i # j
                 PROVE  tools'[i].block # tools'[j].block
        OBVIOUS
    <2>1. CASE i = s
        BY <2>1
    <2>2. CASE j = s
        BY <2>2
    <2>3. CASE i # s /\ j # s
        BY <2>3 DEF Owned
    <2> QED BY <2>1, <2>2, <2>3
<1>4. \A c \in DOMAIN view'.blocks :
        \/ c = textBlock' /\ c \in Nat
        \/ \E i \in DOMAIN tools' : tools'[i].started /\ tools'[i].block = c
    <2> SUFFICES ASSUME NEW c \in DOMAIN view'.blocks
                 PROVE  \/ c = textBlock' /\ c \in Nat
                        \/ \E i \in DOMAIN tools' : tools'[i].started /\ tools'[i].block = c
        OBVIOUS
    <2>1. CASE c = b
        BY <2>1
    <2>2. CASE c # b
        <3>1. c \in DOMAIN view.blocks
            BY <2>2
        <3>2. CASE c = textBlock /\ c \in Nat
            BY <3>2
        <3>3. ASSUME NEW i \in DOMAIN tools, tools[i].started, tools[i].block = c
              PROVE  tools'[i].started /\ tools'[i].block = c /\ i \in DOMAIN tools'
            BY <2>2, <3>3
        <3> QED BY <3>1, <3>2, <3>3 DEF Owned
    <2> QED BY <2>1, <2>2
<1>5. textBlock' >= 0 => textBlock' \in DOMAIN view'.blocks
    BY DEF Owned
<1> QED BY <1>2, <1>3, <1>4, <1>5 DEF Owned

LEMMA NoteCallKeeps == ASSUME IInv, NoteCall PROVE KeptAndMapped
<1> DEFINE s == Slot(Delta)
           n == Noted
           start == ~n.started /\ (n.id # "" \/ n.name # "")
           t == [n EXCEPT !.started = @ \/ start]
           id == FirstNonEmpty(n.id, CallId(Delta.index))
<1>1. /\ at = "calls" /\ UNCHANGED <<chunk, textBlock>>
      /\ tools' = [i \in DOMAIN tools \cup {s} |-> IF i = s THEN t ELSE tools[i]]
      /\ view' = (IF start THEN Opened(n.block, OpenTool(id, n.name)) ELSE view)
      /\ nextBlock' = (IF s \in DOMAIN tools THEN nextBlock ELSE nextBlock + 1)
    BY DEF NoteCall, Kept
<1>2. \/ at' = "calls" /\ pos' = pos + 1
      \/ at' = "args" /\ pos' = pos
    BY DEF NoteCall
<1>3. /\ chunk \in Chunks /\ pos \in DOMAIN chunk.calls /\ Delta \in Deltas
      /\ s \in Indices /\ n \in Tool
    BY NoteCallShape
<1>4. /\ nextBlock \in Nat /\ textBlock \in -1 .. nextBlock - 1 /\ pos \in Nat \ {0}
      /\ DOMAIN tools \subseteq Indices /\ tools \in [DOMAIN tools -> Tool]
      /\ ViewOK(view) /\ view.phase = "open"
      /\ \A i \in DOMAIN view.blocks : view.blocks[i].open
    BY <1>1 DEF IInv, Shape, Phases, OpenUntilTheEnd
<1>5. nextBlock \notin DOMAIN view.blocks
    BY NextIsNew DEF IInv
<1>6. \/ s \in DOMAIN tools /\ n.block = tools[s].block /\ n.started = tools[s].started
      \/ s \notin DOMAIN tools /\ n.block = nextBlock /\ n.started = FALSE
    <2>1. CASE s \in DOMAIN tools
        <3>1. tools[s] \in Tool
            BY <1>4, <2>1
        <3> QED BY <2>1, <3>1 DEF Noted, Tool
    <2>2. CASE s \notin DOMAIN tools
        BY <2>2 DEF Noted
    <2> QED BY <2>1, <2>2
<1>7. t \in Tool /\ t.block = n.block /\ t.started = (n.started \/ start)
    <2>1. n.started \in BOOLEAN
        BY <1>3 DEF Tool
    <2>2. (n.started \/ start) \in BOOLEAN
        BY <2>1
    <2>3. \A v \in BOOLEAN : /\ [n EXCEPT !.started = v] \in Tool
                            /\ [n EXCEPT !.started = v].block = n.block
                            /\ [n EXCEPT !.started = v].started = v
        BY <1>3 DEF Tool
    <2> HIDE DEF n, start
    <2> QED BY <2>2, <2>3
<1>8. start => id \in Words \ {""} /\ n.name \in Words
    <2>1. Delta.index \in Indices
        BY <1>3 DEF Deltas
    <2>2. CallId(Delta.index) \in STRING \ {""}
        BY <2>1, ChunksAssumption
    <2>3. n.id \in Words /\ n.name \in Words
        BY <1>3 DEF Tool
    <2> HIDE DEF n
    <2> QED BY <2>2, <2>3 DEF FirstNonEmpty, Words
<1> DEFINE b == n.block
<1>9. /\ b \in Nat /\ nextBlock' \in Nat /\ nextBlock <= nextBlock'
      /\ b < nextBlock' /\ b # textBlock
      /\ \A i \in DOMAIN tools \ {s} : tools[i].block # b
      /\ n.started <=> b \in DOMAIN view.blocks
    <2>1. \A i \in DOMAIN tools : tools[i].block \in Nat /\ tools[i].block < nextBlock
        BY <1>4 DEF IInv, Owned, Tool
    <2>2. CASE s \in DOMAIN tools
        <3>1. n.block = tools[s].block /\ n.started = tools[s].started /\ nextBlock' = nextBlock
            BY <1>1, <1>6, <2>2
        <3> HIDE DEF n, s
        <3> QED BY <1>4, <2>1, <2>2, <3>1 DEF IInv, Owned
    <2>3. CASE s \notin DOMAIN tools
        <3>1. n.block = nextBlock /\ n.started = FALSE /\ nextBlock' = nextBlock + 1
            BY <1>1, <1>6, <2>3
        <3> HIDE DEF n, s
        <3> QED BY <1>4, <1>5, <2>1, <2>3, <3>1
    <2> QED BY <2>2, <2>3
<1> HIDE DEF n
<1>10. start => b \notin DOMAIN view.blocks
    BY <1>9
<1>11. /\ ViewOK(view') /\ view'.phase = "open"
       /\ DOMAIN view.blocks \subseteq DOMAIN view'.blocks
       /\ DOMAIN view'.blocks \subseteq DOMAIN view.blocks \cup {b}
       /\ (n.started \/ start) <=> b \in DOMAIN view'.blocks
       /\ \A j \in DOMAIN view'.blocks : view'.blocks[j].open
       /\ Client!OpenBlock \/ view' = view
    <2>1. CASE start
        <3>1. view' = Opened(b, OpenTool(id, n.name))
            BY <1>1, <2>1
        <3> HIDE DEF start, id, b
        <3>2. /\ ViewOK(view') /\ view'.phase = view.phase
              /\ DOMAIN view'.blocks = DOMAIN view.blocks \cup {b}
              /\ view'.blocks[b].open
              /\ \A j \in DOMAIN view.blocks : view'.blocks[j] = view.blocks[j]
              /\ Client!OpenBlock
            BY <1>4, <1>8, <1>9, <1>10, <2>1, <3>1, OpeningTool
        <3> QED BY <1>4, <2>1, <3>2
    <2>2. CASE ~start
        <3>1. view' = view
            BY <1>1, <2>2
        <3> HIDE DEF start, b
        <3> QED BY <1>4, <1>9, <2>2, <3>1
    <2> QED BY <2>1, <2>2
<1> HIDE DEF s, start, t, b
<1>12. /\ DOMAIN tools' = DOMAIN tools \cup {s} /\ tools'[s] = t
       /\ \A i \in DOMAIN tools \ {s} : tools'[i] = tools[i]
    BY <1>1
<1>13. tools' \in [DOMAIN tools' -> Tool] /\ DOMAIN tools' \subseteq Indices
    BY <1>1, <1>3, <1>4, <1>7
<1>14. Shape'
    <2>1. chunk' \in Chunks \cup {NoChunk} /\ pos' \in Nat \ {0}
        BY <1>1, <1>2, <1>3, <1>4
    <2>2. nextBlock' \in Nat /\ textBlock' \in -1 .. nextBlock' - 1
        BY <1>1, <1>4, <1>9
    <2> QED BY <1>2, <1>11, <1>13, <2>1, <2>2 DEF Shape
<1>15. Owned'
    <2>1. t.block = b /\ s \in DOMAIN tools => tools[s].block = b
        BY <1>6, <1>7 DEF b
    <2> DEFINE started == n.started \/ start
    <2>2. started \in BOOLEAN
        BY <1>3, <1>7 DEF Tool, start
    <2>3. tools'[s].block = b /\ tools'[s].started = started
        BY <1>7, <1>12 DEF b
    <2>4. s \in DOMAIN tools => tools[s].block = b
        BY <1>6 DEF b
    <2>5. started <=> b \in DOMAIN view'.blocks
        BY <1>11
    <2>6. Shape /\ Owned
        BY DEF IInv
    <2> HIDE DEF started
    <2> QED BY <1>1, <1>9, <1>11, <1>12, <2>2, <2>3, <2>4, <2>5, <2>6, OwnedGrows, ZenonT(30)
<1>16. InPlace'
    <2>1. CASE at' = "calls"
        BY <2>1 DEF InPlace
    <2>2. CASE at' = "args" /\ pos' = pos
        <3>1. Slot(Delta)' = s
            BY <1>1, <2>2 DEF s, Slot, Delta
        <3> QED BY <1>1, <1>3, <1>12, <2>2, <3>1 DEF InPlace
    <2> QED BY <1>2, <2>1, <2>2
<1>17. OpenUntilTheEnd' /\ Phases'
    BY <1>2, <1>11 DEF OpenUntilTheEnd, Phases
<1> QED BY <1>11, <1>14, <1>15, <1>16, <1>17 DEF IInv, KeptAndMapped, Client!Next, Client!vars

LEMMA StartForArgsKeeps == ASSUME IInv, StartForArgs PROVE KeptAndMapped
<1> DEFINE s == Slot(Delta)
           b == tools[s].block
<1>1. /\ at = "args" /\ ~tools[s].started /\ UNCHANGED <<at, chunk, pos, nextBlock, textBlock>>
      /\ tools' = [tools EXCEPT ![s].started = TRUE]
      /\ view' = Opened(b, OpenTool(CallId(Delta.index), tools[s].name))
    BY DEF StartForArgs
<1>2. /\ chunk \in Chunks /\ pos \in DOMAIN chunk.calls /\ s \in DOMAIN tools
      /\ nextBlock \in Nat /\ textBlock \in -1 .. nextBlock - 1 /\ pos \in Nat \ {0}
      /\ DOMAIN tools \subseteq Indices /\ tools \in [DOMAIN tools -> Tool]
      /\ ViewOK(view) /\ view.phase = "open"
      /\ \A i \in DOMAIN view.blocks : view.blocks[i].open
    BY <1>1 DEF IInv, Shape, InPlace, Phases, OpenUntilTheEnd
<1>3. CallId(Delta.index) \in Words \ {""}
    <2>1. Delta \in Deltas
        BY <1>2, ChunkShape DEF Delta
    <2>2. Delta.index \in Indices
        BY <2>1 DEF Deltas
    <2> QED BY <2>2, ChunksAssumption DEF Words
<1>4. Slot(Delta)' = s
    BY <1>1 DEF Slot, Delta
<1>5. tools[s] \in Tool
    BY <1>2
<1>6. b \in Nat /\ tools[s].name \in Words
    BY <1>5 DEF Tool
<1> HIDE DEF s
<1>7. b \notin DOMAIN view.blocks /\ b < nextBlock /\ b # textBlock
    BY <1>1, <1>2 DEF IInv, Owned
<1>8. \A i \in DOMAIN tools \ {s} : tools[i].block # b
    BY <1>2 DEF IInv, Owned
<1>9. /\ DOMAIN tools' = DOMAIN tools /\ tools'[s] = [tools[s] EXCEPT !.started = TRUE]
      /\ \A i \in DOMAIN tools \ {s} : tools'[i] = tools[i]
    BY <1>1, <1>2
<1>10. /\ [tools[s] EXCEPT !.started = TRUE] \in Tool
       /\ [tools[s] EXCEPT !.started = TRUE].block = b
       /\ [tools[s] EXCEPT !.started = TRUE].started = TRUE
    BY <1>5 DEF Tool
<1>11. tools' \in [DOMAIN tools' -> Tool]
    BY <1>1, <1>2, <1>9, <1>10
<1> HIDE DEF b
<1>12. /\ ViewOK(view') /\ view'.phase = view.phase
       /\ DOMAIN view'.blocks = DOMAIN view.blocks \cup {b}
       /\ view'.blocks[b].open
       /\ \A j \in DOMAIN view.blocks : view'.blocks[j] = view.blocks[j]
       /\ Client!OpenBlock
    BY <1>1, <1>2, <1>3, <1>6, <1>7, OpeningTool
<1>13. Shape'
    BY <1>1, <1>9, <1>11, <1>12 DEF IInv, Shape
<1>14. Owned'
    <2>1. Shape /\ Owned /\ TRUE \in BOOLEAN
        BY DEF IInv
    <2>2. tools'[s].block = b /\ tools'[s].started = TRUE /\ DOMAIN tools' = DOMAIN tools \cup {s}
        BY <1>2, <1>9, <1>10
    <2>3. tools[s].block = b /\ nextBlock' = nextBlock /\ textBlock' = textBlock
        BY <1>1 DEF b
    <2>4. nextBlock' \in Nat /\ nextBlock <= nextBlock'
        BY <1>2, <2>3
    <2>5. TRUE <=> b \in DOMAIN view'.blocks
        BY <1>12
    <2> QED BY <1>6, <1>7, <1>8, <1>9, <1>12, <2>1, <2>2, <2>3, <2>4, <2>5, OwnedGrows
<1>15. InPlace' /\ OpenUntilTheEnd' /\ Phases'
    BY <1>1, <1>2, <1>4, <1>9, <1>12 DEF InPlace, OpenUntilTheEnd, Phases
<1> QED BY <1>12, <1>13, <1>14, <1>15 DEF IInv, KeptAndMapped, Client!Next

LEMMA StepKeeps == ASSUME IInv, StreamNext PROVE KeptAndMapped
<1>1. CASE Translate
    BY <1>1, MessageStartKeeps, StartTextKeeps, WriteTextKeeps, NoteCallKeeps, StartForArgsKeeps,
       WriteArgsKeeps, EndChunkKeeps, QuietKeeps, CloseTextKeeps, CloseCallKeeps,
       MessageDeltaKeeps, MessageStopKeeps
    DEF Translate
<1>2. CASE \E c \in Chunks : Scan(c)
    BY <1>2, ScanKeeps
<1>3. CASE \E how \in {"done", "gone"} : UpstreamEnds(how)
    BY <1>3, QuietKeeps
<1> QED BY <1>1, <1>2, <1>3 DEF StreamNext

LEMMA StutterKeeps == ASSUME IInv, UNCHANGED stream PROVE KeptAndMapped
<1>1. UNCHANGED <<at, chunk, pos, tools, nextBlock, textBlock, view>>
    BY DEF stream
<1>2. Shape'
    <2>1. ViewOK(view')
        BY <1>1 DEF IInv, Shape
    <2>2. chunk' \in Chunks \cup {NoChunk} /\ pos' \in Nat \ {0}
        BY <1>1 DEF IInv, Shape
    <2>3. nextBlock' \in Nat /\ textBlock' \in -1 .. nextBlock' - 1
        BY <1>1 DEF IInv, Shape
    <2>4. DOMAIN tools' \subseteq Indices /\ tools' \in [DOMAIN tools' -> Tool]
        BY <1>1 DEF IInv, Shape
    <2>5. at' \in {"begin", "scan", "text", "calls", "args", "closing", "closing calls", "stop", "done"}
        BY <1>1 DEF IInv, Shape
    <2> QED BY <2>1, <2>2, <2>3, <2>4, <2>5 DEF Shape
<1>3. Owned'
    BY <1>1, OwnedStays DEF IInv
<1>4. InPlace' /\ OpenUntilTheEnd' /\ Phases'
    BY <1>1 DEF IInv, InPlace, OpenUntilTheEnd, Phases, Slot, Delta
<1> QED BY <1>1, <1>2, <1>3, <1>4 DEF IInv, KeptAndMapped, Client!vars

LEMMA IInvTypes == IInv => StreamTypeOK
<1> SUFFICES ASSUME IInv PROVE StreamTypeOK
    OBVIOUS
<1>1. /\ at \in {"begin", "scan", "text", "calls", "args", "closing", "closing calls", "stop", "done"}
      /\ chunk \in Chunks \cup {NoChunk} /\ pos \in Nat \ {0}
      /\ nextBlock \in Nat /\ textBlock \in -1 .. nextBlock - 1
    BY DEF IInv, Shape
<1>2. \A i \in DOMAIN tools : tools[i].block \in 0 .. nextBlock - 1
    <2>1. \A i \in DOMAIN tools : tools[i].block \in Nat
        BY DEF IInv, Shape, Tool
    <2>2. \A i \in DOMAIN tools : tools[i].block < nextBlock
        BY DEF IInv, Owned
    <2> SUFFICES ASSUME NEW i \in DOMAIN tools PROVE tools[i].block \in 0 .. nextBlock - 1
        OBVIOUS
    <2>3. tools[i].block \in Nat /\ tools[i].block < nextBlock
        BY <2>1, <2>2
    <2>4. nextBlock \in Nat
        BY <1>1
    <2> QED BY <2>3, <2>4
<1>3. \A i \in DOMAIN tools :
        /\ tools[i].block # textBlock
        /\ tools[i].started <=> tools[i].block \in DOMAIN view.blocks
        /\ \A j \in DOMAIN tools \ {i} : tools[i].block # tools[j].block
    BY DEF IInv, Owned
<1>4. \A b : b \in DOMAIN view.blocks <=>
            \/ \E i \in DOMAIN tools : tools[i].started /\ b = tools[i].block
            \/ b = textBlock /\ b # -1
    <2> SUFFICES ASSUME NEW b
                 PROVE  b \in DOMAIN view.blocks <=>
                            \/ \E i \in DOMAIN tools : tools[i].started /\ b = tools[i].block
                            \/ b = textBlock /\ b # -1
        OBVIOUS
    <2>1. ASSUME b \in DOMAIN view.blocks
          PROVE  \/ \E i \in DOMAIN tools : tools[i].started /\ b = tools[i].block
                 \/ b = textBlock /\ b \in Nat
        BY <2>1 DEF IInv, Owned
    <2>2. textBlock # -1 => textBlock \in DOMAIN view.blocks
        <3>1. nextBlock \in Nat /\ textBlock \in -1 .. nextBlock - 1
            BY <1>1
        <3>2. textBlock # -1 => textBlock >= 0
            BY <3>1
        <3> QED BY <3>2 DEF IInv, Owned
    <2>3. textBlock \in Nat => textBlock # -1
        OBVIOUS
    <2>4. ASSUME NEW i \in DOMAIN tools, tools[i].started, b = tools[i].block
          PROVE  b \in DOMAIN view.blocks
        BY <1>3, <2>4
    <2> QED BY <2>1, <2>2, <2>3, <2>4
<1>5. DOMAIN view.blocks =
        {tools[i].block : i \in {j \in DOMAIN tools : tools[j].started}} \cup ({textBlock} \ {-1})
    BY <1>4
<1> QED BY <1>1, <1>2, <1>3, <1>5 DEF StreamTypeOK

LEMMA InitMaps == StreamInit => Client!Init
<1> SUFFICES ASSUME StreamInit PROVE Client!Init
    OBVIOUS
<1>1. view = NoView
    BY DEF StreamInit
<1>2. view.phase = "none" /\ view.reason = ""
    BY <1>1 DEF NoView
<1>3. view.blocks = [i \in {} |-> <<>>]
    BY <1>1, Zenon DEF NoView
<1> QED BY <1>2, <1>3, Zenon DEF Client!Init

\* The translator keeps track of its blocks, for any chunks (toolState).
THEOREM StreamTypeCorrect == StreamSpec => []StreamTypeOK
<1>1. IInv /\ [StreamNext]_stream => IInv'
    BY StepKeeps, StutterKeeps DEF KeptAndMapped
<1> QED BY InitInvariant, IInvTypes, <1>1, PTL DEF StreamSpec

\* The translator implements MessageStream, for any chunks in any order and
\* wherever the upstream breaks off (translateOpenAIStream).
THEOREM StreamRefines == StreamSpec => RefinesMessageStream
<1>1. IInv /\ [StreamNext]_stream => IInv' /\ [Client!Next]_(Client!vars)
    BY StepKeeps, StutterKeeps DEF KeptAndMapped
<1> QED BY InitInvariant, InitMaps, <1>1, PTL DEF StreamSpec, RefinesMessageStream, Client!Spec

\* The next message begins with everything anew.
LEMMA StreamOverKeeps == ASSUME IInv, StreamOver PROVE KeptAndMapped
<1>1. at = "done" /\ view.phase = "stopped"
    BY DEF StreamOver, IInv, Phases
<1>3. /\ at' = "begin" /\ chunk' = NoChunk /\ pos' = 1 /\ tools' = NoTools
      /\ nextBlock' = 0 /\ textBlock' = -1 /\ view' = NoView
    BY DEF StreamOver
<1>4. ViewOK(view')
    BY <1>3 DEF ViewOK, NoView
<1>5. DOMAIN tools' = {} /\ DOMAIN view'.blocks = {} /\ tools' \in [{} -> Tool]
    BY <1>3 DEF NoView, NoTools
<1>6. Shape'
    BY <1>3, <1>4, <1>5 DEF Shape
<1>7. Owned'
    BY <1>3, <1>5 DEF Owned
<1>8. InPlace' /\ OpenUntilTheEnd' /\ Phases'
    BY <1>3 DEF InPlace, OpenUntilTheEnd, Phases
<1>9. view'.phase = "none" /\ view'.reason = ""
    BY <1>3 DEF NoView
<1>10. view'.blocks = [i \in {} |-> <<>>]
    BY <1>3, Zenon DEF NoView
<1>11. Client!Again
    BY <1>1, <1>9, <1>10, Zenon DEF Client!Again
<1> QED BY <1>6, <1>7, <1>8, <1>11 DEF IInv, KeptAndMapped, Client!Next

LEMMA MessagesKeep == ASSUME IInv, [Next]_vars PROVE KeptAndMapped
<1>1. CASE Refuse \/ Ask \/ Fail \/ AnswerWhole \/ AnswerStream
    <2>1. UNCHANGED stream
        BY <1>1 DEF Refuse, Ask, Fail, AnswerWhole, AnswerStream
    <2> QED BY <2>1, StutterKeeps
<1>2. CASE Streaming
    BY <1>2, StepKeeps DEF Streaming
<1>3. CASE StreamOver
    BY <1>3, StreamOverKeeps
<1>4. CASE UNCHANGED vars
    <2>1. UNCHANGED stream
        BY <1>4 DEF vars, stream
    <2> QED BY <2>1, StutterKeeps
<1> QED BY <1>1, <1>2, <1>3, <1>4 DEF Next

\* Through a whole conversation, every streamed message is one as MessageStream
\* promises it, whatever the upstream, the client and the failures in between
\* (anthropicMessages, translateOpenAIStream).
THEOREM MessagesRefine == Spec => RefinesMessageStream /\ []StreamTypeOK
<1>1. Init => IInv /\ Client!Init
    BY InitInvariant, InitMaps DEF Init
<1>2. IInv /\ [Next]_vars => IInv' /\ [Client!Next]_(Client!vars)
    BY MessagesKeep DEF KeptAndMapped
<1> QED BY <1>1, <1>2, IInvTypes, PTL DEF Spec, RefinesMessageStream, Client!Spec

-----------------------------------------------------------------------------
(* The client's history.                                                   *)

LEMMA HalfOfOdd ==
    ASSUME NEW n \in Nat, n % 2 = 1
    PROVE  (n + 1) % 2 # 1 /\ (n + 1) \div 2 = (n \div 2) + 1
OBVIOUS

LEMMA HalfOfEven ==
    ASSUME NEW n \in Nat, n % 2 # 1
    PROVE  (n + 1) % 2 = 1 /\ (n + 1) \div 2 = n \div 2
OBVIOUS

\* The client and the assistant take turns, the client first.
RoleAt(k) == IF k % 2 = 1 THEN "user" ELSE "assistant"
TakesTurns(messages) ==
    /\ \E S : messages \in Seq(S)
    /\ \A k \in DOMAIN messages : messages[k].role = RoleAt(k)

\* The client has asked last whenever the handler works; there is an answer kept
\* for each that is in the history.
Alternates ==
    /\ TakesTurns(history)
    /\ (\E S : heard \in Seq(S)) /\ Len(heard) = Len(history) \div 2
    /\ step \in {"idle", "routing", "streaming"} /\ asked \in 0 .. MaxTurns
    /\ step # "idle" => Len(history) % 2 = 1
    /\ at # "begin" => step = "streaming"

LEMMA Appended ==
    ASSUME NEW s, \E S : s \in Seq(S), NEW x
    PROVE  LET t == Append(s, x)
           IN  /\ \E S : t \in Seq(S)
               /\ Len(t) = Len(s) + 1 /\ Len(s) \in Nat
               /\ DOMAIN t = 1 .. Len(s) + 1 /\ DOMAIN s = 1 .. Len(s)
               /\ t[Len(s) + 1] = x /\ \A k \in DOMAIN s : t[k] = s[k]
<1>1. PICK S : s \in Seq(S)
    OBVIOUS
<1>2. s \in Seq(S \cup {x}) /\ x \in S \cup {x}
    BY <1>1
<1>3. Append(s, x) \in Seq(S \cup {x})
    BY <1>2
<1> QED BY <1>2, <1>3

LEMMA NextTurn ==
    ASSUME NEW messages, TakesTurns(messages), NEW m, m.role = RoleAt(Len(messages) + 1)
    PROVE  TakesTurns(Append(messages, m))
<1>1. \E S : messages \in Seq(S)
    BY DEF TakesTurns
<1> DEFINE t == Append(messages, m)
<1>2. /\ \E S : t \in Seq(S)
      /\ DOMAIN t = 1 .. Len(messages) + 1 /\ DOMAIN messages = 1 .. Len(messages)
      /\ Len(messages) \in Nat
      /\ t[Len(messages) + 1] = m /\ \A k \in DOMAIN messages : t[k] = messages[k]
    BY <1>1, Appended, ZenonT(30)
<1> HIDE DEF t
<1>3. \A k \in DOMAIN t : k \in DOMAIN messages \/ k = Len(messages) + 1
    BY <1>2
<1>4. \A k \in DOMAIN t : t[k].role = RoleAt(k)
    BY <1>2, <1>3 DEF TakesTurns
<1> QED BY <1>2, <1>4 DEF TakesTurns, t

LEMMA AlternatesAtFirst == Init => Alternates
<1> SUFFICES ASSUME Init PROVE Alternates
    OBVIOUS
<1>1. history = <<>> /\ heard = <<>> /\ step = "idle" /\ asked = 0 /\ at = "begin"
    BY DEF Init, StreamInit
<1>2. history \in Seq({}) /\ heard \in Seq({}) /\ DOMAIN history = {}
    BY <1>1
<1>3. Len(heard) = Len(history) \div 2
    BY <1>1
<1>4. asked \in 0 .. MaxTurns
    BY <1>1, TurnsAssumption
<1> QED BY <1>1, <1>2, <1>3, <1>4 DEF Alternates, TakesTurns

\* The history is that before, after an error, or one message of the client longer.
LEMMA AskAlternates ==
    ASSUME Alternates, Ask \/ Refuse PROVE Alternates' /\ Len(history') % 2 = 1
<1>1. /\ step = "idle" /\ asked < MaxTurns /\ history' \in NextHistories
      /\ asked' = asked + 1 /\ step' \in {"routing", "idle"} /\ UNCHANGED <<heard, at>>
    BY DEF Ask, Refuse, stream
<1>2. asked' \in 0 .. MaxTurns
    BY <1>1, TurnsAssumption DEF Alternates
<1>3. Len(history) \in Nat /\ DOMAIN history = 1 .. Len(history)
    BY DEF Alternates, TakesTurns
<1>4. CASE history = <<>> \/ Last(history).role = "assistant"
    <2>1. PICK r : history' = Append(history, [role |-> "user", content |-> r])
        BY <1>1, <1>4 DEF NextHistories
    <2>2. Len(history) % 2 # 1
        <3>1. CASE history = <<>>
            BY <3>1
        <3>2. CASE history # <<>>
            <4>1. Len(history) \in DOMAIN history
                BY <1>3, <3>2 DEF Alternates, TakesTurns
            <4>2. Last(history) = history[Len(history)]
                BY DEF Last
            <4> QED BY <1>4, <3>2, <4>1, <4>2 DEF Alternates, TakesTurns, RoleAt
        <3> QED BY <3>1, <3>2
    <2>3. (Len(history) + 1) % 2 = 1 /\ (Len(history) + 1) \div 2 = Len(history) \div 2
        BY <1>3, <2>2, HalfOfEven
    <2>4. Len(history') = Len(history) + 1
        BY <2>1, Appended DEF Alternates, TakesTurns
    <2>5. TakesTurns(history')
        BY <2>1, <2>3, NextTurn DEF Alternates, RoleAt
    <2> QED BY <1>1, <1>2, <2>3, <2>4, <2>5 DEF Alternates, TakesTurns
<1>5. CASE ~(history = <<>> \/ Last(history).role = "assistant")
    <2>1. history' = history
        BY <1>1, <1>5 DEF NextHistories
    <2>2. Len(history) \in DOMAIN history
        BY <1>3, <1>5 DEF Alternates, TakesTurns
    <2>3. Len(history) % 2 = 1
        BY <1>5, <2>2 DEF Alternates, TakesTurns, RoleAt, Last
    <2> QED BY <1>1, <1>2, <2>1, <2>3 DEF Alternates, TakesTurns
<1> QED BY <1>4, <1>5

\* An answer, streamed or whole, is kept with what was heard.
LEMMA AnswerAlternates ==
    ASSUME Alternates, step # "idle", step' = "idle", at' = "begin", asked' = asked,
           NEW content, history' = Append(history, Assistant(content)),
           NEW what, heard' = Append(heard, what)
    PROVE  Alternates'
<1>0. (\E S : history \in Seq(S)) /\ Len(history) % 2 = 1
    BY DEF Alternates, TakesTurns
<1>1. Len(history) \in Nat /\ Len(history) % 2 = 1
    BY ONLY <1>0
<1>2. (Len(history) + 1) % 2 # 1 /\ (Len(history) + 1) \div 2 = (Len(history) \div 2) + 1
    BY <1>1, HalfOfOdd
<1>3. Len(history') = Len(history) + 1
    BY Appended DEF Alternates, TakesTurns
<1>4. Len(heard') = Len(heard) + 1 /\ \E S : heard' \in Seq(S)
    BY Appended DEF Alternates
<1>5. TakesTurns(history')
    BY <1>2, NextTurn DEF Alternates, RoleAt, Assistant
<1> QED BY <1>2, <1>3, <1>4, <1>5 DEF Alternates, TakesTurns

LEMMA StepAlternates == ASSUME Alternates, [Next]_vars PROVE Alternates'
<1>1. CASE Ask \/ Refuse
    BY <1>1, AskAlternates
<1>2. CASE Fail
    <2>1. UNCHANGED <<history, heard, asked, at>> /\ step = "routing" /\ step' = "idle"
        BY <1>2 DEF Fail, stream
    <2> QED BY <2>1 DEF Alternates, TakesTurns
<1>3. CASE AnswerWhole
    <2>1. step = "routing" /\ step' = "idle" /\ asked' = asked /\ at' = at
        BY <1>3 DEF AnswerWhole, stream
    <2>2. at' = "begin"
        BY <2>1 DEF Alternates
    <2> QED BY <1>3, <2>1, <2>2, AnswerAlternates DEF AnswerWhole
<1>4. CASE AnswerStream
    <2>1. /\ UNCHANGED <<history, heard, asked, at>>
          /\ step = "routing" /\ step' = "streaming"
        BY <1>4 DEF AnswerStream, stream
    <2> QED BY <2>1 DEF Alternates, TakesTurns
<1>5. CASE Streaming
    <2>1. UNCHANGED <<step, history, heard, asked>> /\ step = "streaming"
        BY <1>5 DEF Streaming, conversation
    <2> QED BY <2>1 DEF Alternates, TakesTurns
<1>6. CASE StreamOver
    <2>1. step = "streaming" /\ step' = "idle" /\ asked' = asked /\ at' = "begin"
        BY <1>6 DEF StreamOver
    <2> QED BY <1>6, <2>1, AnswerAlternates DEF StreamOver
<1>7. CASE UNCHANGED vars
    <2>1. UNCHANGED <<step, history, heard, asked, at>>
        BY <1>7 DEF vars
    <2> QED BY <2>1 DEF Alternates, TakesTurns
<1> QED BY <1>1, <1>2, <1>3, <1>4, <1>5, <1>6, <1>7 DEF Next

\* However often requests fail and answers break off, the client's turns and
\* the assistant's alternate in the history, and each answer is kept once
\* (anthropicMessages).
THEOREM ConversationsAlternate == Spec => []TypeOK
<1>1. Alternates /\ StreamTypeOK => TypeOK
    BY DEF Alternates, TakesTurns, RoleAt, TypeOK
<1> QED BY <1>1, AlternatesAtFirst, StepAlternates, MessagesRefine, PTL DEF Spec

-----------------------------------------------------------------------------
(* What the upstream has said, and what the client has been told of it.    *)

\* h has what was said of calls before the first of some deltas and after each.
Hears(h, before, deltas, n) ==
    h = [k \in 0 .. n |-> IF k = 0 THEN before ELSE HearDelta(h[k - 1], deltas[k])]

InChunk == at \in {"text", "calls", "args"}

\* The arguments the client has been told.
Told(ts, blocks) == IF ts.started THEN blocks[ts.block].body ELSE <<>>

\* A call is known by its latest id and name; if it is regular its block has them.
TellsCall(call, ts, blocks, args) ==
    /\ call.id = ts.id /\ call.name = ts.name /\ call.args = args
    /\ ts.started => blocks[ts.block].type = "tool_use"
    /\ call.regular =>
        /\ call.id # "" /\ call.name # "" /\ ts.started
        /\ blocks[ts.block].id = call.id /\ blocks[ts.block].name = call.name

\* The client has been told of all calls, but for a piece of arguments of one.
Tells(calls, ts, blocks, pending, piece) ==
    /\ DOMAIN calls = DOMAIN ts
    /\ \A i \in DOMAIN ts :
        TellsCall(calls[i], ts[i], blocks,
                  IF i \in pending THEN Append(Told(ts[i], blocks), piece) ELSE Told(ts[i], blocks))

\* Of the calls the client has been told what was said up to the delta that is
\* worked on.
FollowsCalls ==
    /\ IsFiniteSet(DOMAIN tools)
    /\ InChunk =>
        /\ chunk \in Chunks /\ pos \in 1 .. Len(chunk.calls) + 1
        /\ \E h, before :
            /\ Hears(h, before, chunk.calls, Len(chunk.calls))
            /\ h[Len(chunk.calls)] = said.calls
            /\ at # "args" => Tells(h[pos - 1], tools, view.blocks, {}, "")
            /\ at = "args" => Tells(h[pos], tools, view.blocks, {Slot(Delta)}, Delta.args)
    /\ ~InChunk => Tells(said.calls, tools, view.blocks, {}, "")

\* Of the text, all but the piece that is about to be written.
FollowsText ==
    /\ textBlock < 0 => said.text = IF at = "text" THEN Append(<<>>, chunk.text) ELSE <<>>
    /\ textBlock >= 0 =>
        /\ view.blocks[textBlock].type = "text"
        /\ at = "text" => said.text = Append(view.blocks[textBlock].body, chunk.text)
        /\ at # "text" => said.text = view.blocks[textBlock].body /\ said.text # <<>>

\* Of the finish reasons, all but that of the chunk.
FollowsFinish ==
    /\ InChunk => said.finish = IF chunk.finish = "null" THEN finish ELSE chunk.finish
    /\ ~InChunk => said.finish = finish
    /\ at \in {"stop", "done"} => view.reason = StopReason(said.finish)

\* The client has been told all that was said, but for what the translator works on.
Follows == FollowsCalls /\ FollowsText /\ FollowsFinish

\* Deltas can be heard one after the other: the recursion of Hear has a solution.
LEMMA HearingExists ==
    ASSUME NEW before, NEW deltas, NEW n \in Nat PROVE \E h : Hears(h, before, deltas, n)
<1> DEFINE I == {m \in Nat : \E h : Hears(h, before, deltas, m)}
<1>1. 0 \in I
    <2> DEFINE g == [k \in 0 .. 0 |-> before]
    <2>1. \A k \in 0 .. 0 : k = 0
        OBVIOUS
    <2>2. g = [k \in 0 .. 0 |-> IF k = 0 THEN before ELSE HearDelta(g[k - 1], deltas[k])]
        BY <2>1, Zenon
    <2>3. Hears(g, before, deltas, 0)
        <3> HIDE DEF g
        <3> QED BY <2>2, Zenon DEF Hears
    <2> QED BY <2>3
<1>2. ASSUME NEW m \in Nat, m \in I PROVE m + 1 \in I
    <2>1. PICK h : Hears(h, before, deltas, m)
        BY <1>2
    <2> DEFINE next(k) == IF k = 0 THEN before ELSE HearDelta(h[k - 1], deltas[k])
               g == [k \in 0 .. m + 1 |-> next(k)]
    <2>2. \A k \in 0 .. m : h[k] = next(k)
        BY <2>1, Zenon DEF Hears
    <2>3. \A k \in 0 .. m : g[k] = h[k]
        <3>1. \A k \in 0 .. m : k \in 0 .. m + 1
            OBVIOUS
        <3> QED BY <2>2, <3>1, Zenon
    <2>4. ASSUME NEW k \in 0 .. m + 1, k # 0 PROVE g[k - 1] = h[k - 1]
        <3>1. k - 1 \in 0 .. m
            BY <2>4
        <3> HIDE DEF g
        <3> QED BY <2>3, <3>1
    <2>5. g = [k \in 0 .. m + 1 |-> IF k = 0 THEN before ELSE HearDelta(g[k - 1], deltas[k])]
        <3>1. \A k \in 0 .. m + 1 : next(k) = IF k = 0 THEN before ELSE HearDelta(g[k - 1], deltas[k])
            <4> HIDE DEF g
            <4> QED BY <2>4, Zenon
        <3>2. g = [k \in 0 .. m + 1 |-> g[k]] /\ \A k \in 0 .. m + 1 : g[k] = next(k)
            OBVIOUS
        <3> HIDE DEF g, next
        <3> QED BY <3>1, <3>2, Zenon
    <2> HIDE DEF g
    <2>6. Hears(g, before, deltas, m + 1)
        BY <2>5, Zenon DEF Hears
    <2>7. m + 1 \in Nat
        OBVIOUS
    <2> QED BY <2>6, <2>7
<1> HIDE DEF I
<1>3. n \in I
    BY <1>1, <1>2, NumberInduction
<1> QED BY <1>3 DEF I

\* What that solution has at each place.
LEMMA HearsAll ==
    ASSUME NEW h, NEW before, NEW deltas, NEW n \in Nat, Hears(h, before, deltas, n)
    PROVE  /\ h[0] = before
           /\ \A k \in 1 .. n : h[k] = HearDelta(h[k - 1], deltas[k])
<1>1. \A k \in 0 .. n : h[k] = IF k = 0 THEN before ELSE HearDelta(h[k - 1], deltas[k])
    BY Zenon DEF Hears
<1>2. 0 \in 0 .. n /\ \A k \in 1 .. n : k \in 0 .. n /\ k # 0
    OBVIOUS
<1> QED BY <1>1, <1>2, Zenon

\* What is heard of a chunk.
LEMMA ChunkIsHeard ==
    ASSUME NEW c \in Chunks
    PROVE  /\ \E h : /\ Hears(h, said.calls, c.calls, Len(c.calls))
                     /\ Hear(c).calls = h[Len(c.calls)]
           /\ Hear(c).text = IF c.text = "" THEN said.text ELSE Append(said.text, c.text)
           /\ Hear(c).finish = IF c.finish = "null" THEN said.finish ELSE c.finish
<1> DEFINE h == CHOOSE g : Hears(g, said.calls, c.calls, Len(c.calls))
<1>1. Len(c.calls) \in Nat
    <2>1. c.calls \in Seq(Deltas)
        BY ChunkShape
    <2> QED BY <2>1
<1>2. Hears(h, said.calls, c.calls, Len(c.calls))
    BY <1>1, HearingExists
<1>3. Hear(c).calls = h[Len(c.calls)]
    BY DEF Hear, Hears
<1>4. /\ Hear(c).text = IF c.text = "" THEN said.text ELSE Append(said.text, c.text)
      /\ Hear(c).finish = IF c.finish = "null" THEN said.finish ELSE c.finish
    BY DEF Hear
<1> HIDE DEF h
<1> QED BY <1>2, <1>3, <1>4

\* A delta changes one call,
LEMMA DeltaTouchesOne ==
    ASSUME NEW calls, NEW d, NEW s, s = d.index
    PROVE  /\ DOMAIN HearDelta(calls, d) = DOMAIN calls \cup {s}
           /\ \A i \in DOMAIN calls \ {s} : HearDelta(calls, d)[i] = calls[i]
BY DEF HearDelta

\* and in it what HearDelta says.
LEMMA DeltaIsHeard ==
    ASSUME NEW calls, NEW d, NEW s, s = d.index
    PROVE  LET next == HearDelta(calls, d)
           IN  /\ s \in DOMAIN calls =>
                    LET old == calls[s]
                    IN  /\ next[s].id = IF d.id = "" THEN old.id ELSE d.id
                        /\ next[s].name = IF d.name = "" THEN old.name ELSE d.name
                        /\ next[s].args = IF d.args = "" THEN old.args ELSE Append(old.args, d.args)
                        /\ next[s].regular =>
                            old.regular /\ d.id \in {"", old.id} /\ d.name \in {"", old.name}
               /\ s \notin DOMAIN calls =>
                    /\ next[s].id = d.id /\ next[s].name = d.name
                    /\ next[s].args = IF d.args = "" THEN <<>> ELSE Append(<<>>, d.args)
                    /\ next[s].regular => d.id # "" /\ d.name # ""
<1> DEFINE next == HearDelta(calls, d)
           call(c) == [id |-> IF d.id = "" THEN c.id ELSE d.id,
                       name |-> IF d.name = "" THEN c.name ELSE d.name,
                       args |-> IF d.args = "" THEN c.args ELSE Append(c.args, d.args),
                       regular |-> c.regular /\ d.id \in {"", c.id} /\ d.name \in {"", c.name}]
           fresh == [id |-> "", name |-> "", args |-> <<>>, regular |-> d.id # "" /\ d.name # ""]
<1>2. ASSUME s \in DOMAIN calls PROVE next[s] = call(calls[s])
    BY <1>2 DEF HearDelta
<1> DEFINE first == [call(fresh) EXCEPT !.regular = fresh.regular]
<1>3. ASSUME s \notin DOMAIN calls PROVE next[s] = first
    BY <1>3 DEF HearDelta
<1>4. /\ first.id = d.id /\ first.name = d.name
      /\ first.args = IF d.args = "" THEN <<>> ELSE Append(<<>>, d.args)
      /\ first.regular => d.id # "" /\ d.name # ""
    OBVIOUS
<1>5. \A c : /\ call(c).id = IF d.id = "" THEN c.id ELSE d.id
             /\ call(c).name = IF d.name = "" THEN c.name ELSE d.name
             /\ call(c).args = IF d.args = "" THEN c.args ELSE Append(c.args, d.args)
             /\ call(c).regular => c.regular /\ d.id \in {"", c.id} /\ d.name \in {"", c.name}
    OBVIOUS
<1> HIDE DEF next, call, fresh, first
<1>6. ASSUME s \in DOMAIN calls
      PROVE  LET old == calls[s]
             IN  /\ next[s].id = IF d.id = "" THEN old.id ELSE d.id
                 /\ next[s].name = IF d.name = "" THEN old.name ELSE d.name
                 /\ next[s].args = IF d.args = "" THEN old.args ELSE Append(old.args, d.args)
                 /\ next[s].regular =>
                        old.regular /\ d.id \in {"", old.id} /\ d.name \in {"", old.name}
    <2> DEFINE c == call(calls[s])
    <2>1. next[s] = c
        BY <1>2, <1>6
    <2>2. /\ c.id = IF d.id = "" THEN calls[s].id ELSE d.id
          /\ c.name = IF d.name = "" THEN calls[s].name ELSE d.name
          /\ c.args = IF d.args = "" THEN calls[s].args ELSE Append(calls[s].args, d.args)
          /\ c.regular => calls[s].regular /\ d.id \in {"", calls[s].id} /\ d.name \in {"", calls[s].name}
        BY <1>5, Zenon
    <2> HIDE DEF c
    <2> QED BY <2>1, <2>2, Zenon
<1>7. ASSUME s \notin DOMAIN calls
      PROVE  /\ next[s].id = d.id /\ next[s].name = d.name
             /\ next[s].args = IF d.args = "" THEN <<>> ELSE Append(<<>>, d.args)
             /\ next[s].regular => d.id # "" /\ d.name # ""
    <2>1. next[s] = first
        BY <1>3, <1>7
    <2> QED BY <1>4, <2>1, Zenon
<1> QED BY <1>6, <1>7, Zenon DEF next

-----------------------------------------------------------------------------
(* Step by step.                                                           *)

\* Two blocks that differ at most in being open.
SameContent(b, c) == c.type = b.type /\ c.id = b.id /\ c.name = b.name /\ c.body = b.body

\* An event that closes a block leaves what the blocks say.
LEMMA ClosingKeepsContent ==
    ASSUME ViewOK(view), NEW i \in DOMAIN view.blocks
    PROVE  \A j \in DOMAIN view.blocks : SameContent(view.blocks[j], Closed(i).blocks[j])
<1>1. Closed(i).blocks = [view.blocks EXCEPT ![i].open = FALSE]
    BY Closing, Zenon
<1>2. /\ view.blocks = [j \in DOMAIN view.blocks |-> view.blocks[j]]
      /\ \A j \in DOMAIN view.blocks : view.blocks[j] \in Block
    BY DEF ViewOK
<1>3. \A j \in DOMAIN view.blocks :
        Closed(i).blocks[j] = IF j = i THEN [view.blocks[i] EXCEPT !.open = FALSE] ELSE view.blocks[j]
    BY <1>1, <1>2
<1>4. \A b \in Block : SameContent(b, [b EXCEPT !.open = FALSE]) /\ SameContent(b, b)
    BY DEF SameContent, Block
<1> QED BY <1>2, <1>3, <1>4

\* One that writes adds its piece to one block.
LEMMA WritingAddsContent ==
    ASSUME ViewOK(view), NEW i \in DOMAIN view.blocks, NEW piece \in Pieces
    PROVE  LET new == Written(i, piece).blocks
               b == view.blocks[i]
           IN  /\ \A j \in DOMAIN view.blocks \ {i} : new[j] = view.blocks[j]
               /\ new[i].type = b.type /\ new[i].id = b.id /\ new[i].name = b.name
               /\ new[i].body = Append(b.body, piece)
<1> DEFINE c == [view.blocks[i] EXCEPT !.body = Append(@, piece)]
<1>1. Written(i, piece).blocks = [view.blocks EXCEPT ![i].body = Append(@, piece)]
    BY Writing, Zenon
<1>2. /\ view.blocks = [j \in DOMAIN view.blocks |-> view.blocks[j]] /\ view.blocks[i] \in Block
    BY DEF ViewOK
<1>3. /\ Written(i, piece).blocks[i] = c
      /\ \A j \in DOMAIN view.blocks \ {i} : Written(i, piece).blocks[j] = view.blocks[j]
    BY <1>1, <1>2
<1>4. /\ c.type = view.blocks[i].type /\ c.id = view.blocks[i].id /\ c.name = view.blocks[i].name
      /\ c.body = Append(view.blocks[i].body, piece)
    BY <1>2 DEF Block
<1> HIDE DEF c
<1> QED BY <1>3, <1>4

\* What was told of calls stays told as long as their blocks do not change.
LEMMA TellsStays ==
    ASSUME NEW calls, NEW pending, NEW piece, NEW blocks,
           Tells(calls, tools, view.blocks, pending, piece),
           \A i \in DOMAIN tools : tools[i].started =>
                SameContent(view.blocks[tools[i].block], blocks[tools[i].block])
    PROVE  Tells(calls, tools, blocks, pending, piece)
<1>1. DOMAIN calls = DOMAIN tools
    BY DEF Tells
<1>2. ASSUME NEW i \in DOMAIN tools
      PROVE  TellsCall(calls[i], tools[i], blocks,
                IF i \in pending THEN Append(Told(tools[i], blocks), piece) ELSE Told(tools[i], blocks))
    <2>1. Told(tools[i], blocks) = Told(tools[i], view.blocks)
        BY DEF Told, SameContent
    <2>2. TellsCall(calls[i], tools[i], view.blocks,
                IF i \in pending THEN Append(Told(tools[i], blocks), piece) ELSE Told(tools[i], blocks))
        BY <2>1 DEF Tells
    <2> QED BY <2>2 DEF TellsCall, SameContent
<1> QED BY <1>1, <1>2 DEF Tells

LEMMA TextStays ==
    ASSUME Owned, FollowsText, UNCHANGED <<chunk, textBlock>>, said'.text = said.text,
           at' = "text" <=> at = "text",
           textBlock >= 0 => SameContent(view.blocks[textBlock], view'.blocks[textBlock])
    PROVE  FollowsText'
BY DEF FollowsText, SameContent

\* Steps that neither hear nor tell anything.
LEMMA QuietFollows ==
    ASSUME IInv, Follows, UNCHANGED <<chunk, pos, tools, textBlock, finish, said>>,
           at' = at \/ (~InChunk /\ ~InChunk'),
           \A j \in DOMAIN view.blocks : SameContent(view.blocks[j], view'.blocks[j]),
           at' \in {"stop", "done"} =>
                IF at \in {"stop", "done"} THEN view'.reason = view.reason
                                           ELSE view'.reason = StopReason(finish)
    PROVE  Follows'
<1>1. InChunk' <=> InChunk
    BY DEF InChunk
<1>2. \A i \in DOMAIN tools : tools[i].started =>
            SameContent(view.blocks[tools[i].block], view'.blocks[tools[i].block])
    BY DEF IInv, Owned
<1>3. textBlock >= 0 => SameContent(view.blocks[textBlock], view'.blocks[textBlock])
    BY DEF IInv, Owned
<1>4. FollowsText'
    <2>1. at' = "text" <=> at = "text"
        BY <1>1 DEF InChunk
    <2> QED BY <1>3, <2>1, TextStays DEF IInv, Follows
<1>5. FollowsFinish'
    BY <1>1 DEF Follows, FollowsFinish, InChunk
<1>6. FollowsCalls'
    <2>1. ASSUME InChunk
          PROVE  \E h, before :
                    /\ Hears(h, before, chunk.calls, Len(chunk.calls))
                    /\ h[Len(chunk.calls)] = said.calls
                    /\ at # "args" => Tells(h[pos - 1], tools, view'.blocks, {}, "")
                    /\ at = "args" => Tells(h[pos], tools, view'.blocks, {Slot(Delta)}, Delta.args)
        <3>1. PICK h, before :
                    /\ Hears(h, before, chunk.calls, Len(chunk.calls))
                    /\ h[Len(chunk.calls)] = said.calls
                    /\ at # "args" => Tells(h[pos - 1], tools, view.blocks, {}, "")
                    /\ at = "args" => Tells(h[pos], tools, view.blocks, {Slot(Delta)}, Delta.args)
            BY <2>1 DEF Follows, FollowsCalls
        <3>2. at # "args" => Tells(h[pos - 1], tools, view'.blocks, {}, "")
            BY <1>2, <3>1, TellsStays
        <3>3. at = "args" => Tells(h[pos], tools, view'.blocks, {Slot(Delta)}, Delta.args)
            BY <1>2, <3>1, TellsStays
        <3> QED BY <3>1, <3>2, <3>3
    <2>2. ASSUME ~InChunk PROVE Tells(said.calls, tools, view'.blocks, {}, "")
        BY <1>2, <2>2, TellsStays DEF Follows, FollowsCalls
    <2>3. InChunk => at' = at
        BY <1>1
    <2>4. Slot(Delta)' = Slot(Delta) /\ Delta.args' = Delta.args
        BY DEF Slot, Delta
    <2>5. InChunk => chunk \in Chunks /\ pos \in 1 .. Len(chunk.calls) + 1
        BY DEF Follows, FollowsCalls
    <2>6. IsFiniteSet(DOMAIN tools)
        BY DEF Follows, FollowsCalls
    <2>7. ASSUME InChunk
          PROVE  \E h, before :
                    /\ Hears(h, before, chunk'.calls, Len(chunk'.calls))
                    /\ h[Len(chunk'.calls)] = said'.calls
                    /\ at' # "args" => Tells(h[pos' - 1], tools', view'.blocks, {}, "")
                    /\ at' = "args" => Tells(h[pos'], tools', view'.blocks, {Slot(Delta)'}, Delta.args')
        BY <2>1, <2>3, <2>4, <2>7, Zenon
    <2> QED BY <1>1, <2>2, <2>5, <2>6, <2>7, Zenon DEF FollowsCalls
<1> QED BY <1>4, <1>5, <1>6 DEF Follows

\* A translator that has heard nothing.
Silent == at = "begin" /\ said = SilentSoFar /\ tools = NoTools /\ textBlock = -1 /\ said.finish = finish

\* Before anything is said, nothing is told.
LEMMA FollowsAtFirst == Silent => Follows
<1> SUFFICES ASSUME Silent PROVE Follows
    OBVIOUS
<1>0. at = "begin" /\ said = SilentSoFar /\ tools = NoTools /\ textBlock = -1 /\ said.finish = finish
    BY DEF Silent
<1>1. said.text = <<>> /\ said.calls = NoTools
    BY <1>0 DEF SilentSoFar
<1>2. DOMAIN NoTools = {} /\ IsFiniteSet({})
    BY FS_EmptySet DEF NoTools
<1>3. Tells(said.calls, tools, view.blocks, {}, "")
    BY <1>0, <1>1, <1>2 DEF Tells
<1>4. FollowsCalls
    BY <1>0, <1>2, <1>3 DEF FollowsCalls, InChunk
<1>5. FollowsText
    <2>1. ~(textBlock >= 0)
        BY <1>0
    <2>2. at # "text"
        BY <1>0
    <2> QED BY <1>0, <1>1, <2>1, <2>2, Zenon DEF FollowsText
<1>6. FollowsFinish
    BY <1>0, <1>1 DEF FollowsFinish, InChunk
<1> QED BY <1>4, <1>5, <1>6 DEF Follows

\* A chunk that is read is heard at once and told step by step.
LEMMA ScanFollows == ASSUME IInv, Follows, NEW c \in Chunks, Scan(c) PROVE Follows'
<1>1. /\ at = "scan" /\ chunk' = c /\ pos' = 1 /\ said' = Hear(c)
      /\ at' = (IF c.text = "" THEN "calls" ELSE "text")
      /\ UNCHANGED <<tools, textBlock, finish, view>>
    BY DEF Scan, lookup
<1>2. ~InChunk /\ InChunk' /\ at # "text" /\ at' # "args" /\ at' \notin {"stop", "done"}
    BY <1>1 DEF InChunk
<1>3. said'.text = IF c.text = "" THEN said.text ELSE Append(said.text, c.text)
    BY <1>1, ChunkIsHeard
<1>4. said'.finish = IF c.finish = "null" THEN said.finish ELSE c.finish
    BY <1>1, ChunkIsHeard
<1>5. PICK h : /\ Hears(h, said.calls, c.calls, Len(c.calls))
               /\ said'.calls = h[Len(c.calls)]
    BY <1>1, ChunkIsHeard
<1>6. c.calls \in Seq(Deltas)
    BY ChunkShape
<1>7. Len(c.calls) \in Nat
    BY ONLY <1>6
<1>8. h[0] = said.calls
    BY <1>5, <1>7, HearsAll
<1>9. pos' - 1 = 0 /\ pos' \in 1 .. Len(c.calls) + 1
    <2>1. pos' = 1
        BY <1>1
    <2> QED BY <1>7, <2>1
<1>10. Tells(said.calls, tools, view.blocks, {}, "") /\ IsFiniteSet(DOMAIN tools)
    BY <1>2 DEF Follows, FollowsCalls
<1>11. Tells(h[pos' - 1], tools', view'.blocks, {}, "")
    BY <1>1, <1>8, <1>9, <1>10
<1>12. FollowsCalls'
    BY <1>1, <1>2, <1>5, <1>9, <1>10, <1>11, Zenon DEF FollowsCalls
<1>13. FollowsText'
    <2>1. /\ textBlock < 0 => said.text = <<>>
          /\ textBlock >= 0 => /\ view.blocks[textBlock].type = "text"
                               /\ said.text = view.blocks[textBlock].body /\ said.text # <<>>
        BY <1>2 DEF Follows, FollowsText
    <2>2. CASE c.text = ""
        <3>1. at' # "text" /\ said'.text = said.text
            BY <1>1, <1>3, <2>2
        <3> QED BY <1>1, <2>1, <3>1, Zenon DEF FollowsText
    <2>3. CASE c.text # ""
        <3>1. at' = "text" /\ said'.text = Append(said.text, c.text)
            BY <1>1, <1>3, <2>3
        <3> QED BY <1>1, <2>1, <3>1, Zenon DEF FollowsText
    <2> QED BY <2>2, <2>3
<1>14. FollowsFinish'
    <2>1. said.finish = finish
        BY <1>2 DEF Follows, FollowsFinish
    <2> QED BY <1>1, <1>2, <1>4, <2>1, Zenon DEF FollowsFinish
<1> QED BY <1>12, <1>13, <1>14 DEF Follows

\* The calls that were told are not touched by a step on another block.
LEMMA CallsStay ==
    ASSUME Follows, UNCHANGED <<chunk, pos, tools, said>>, at \in {"text", "calls"}, at' \in {"text", "calls"},
           \A i \in DOMAIN tools : tools[i].started =>
                SameContent(view.blocks[tools[i].block], view'.blocks[tools[i].block])
    PROVE  FollowsCalls'
<1>1. InChunk /\ InChunk' /\ at # "args" /\ at' # "args"
    BY DEF InChunk
<1>2. PICK h, before :
        /\ Hears(h, before, chunk.calls, Len(chunk.calls))
        /\ h[Len(chunk.calls)] = said.calls
        /\ Tells(h[pos - 1], tools, view.blocks, {}, "")
    BY <1>1, Zenon DEF Follows, FollowsCalls
<1>3. Tells(h[pos - 1], tools, view'.blocks, {}, "")
    BY <1>2, TellsStays
<1>4. IsFiniteSet(DOMAIN tools) /\ chunk \in Chunks /\ pos \in 1 .. Len(chunk.calls) + 1
    BY <1>1, Zenon DEF Follows, FollowsCalls
<1> QED BY <1>1, <1>2, <1>3, <1>4, Zenon DEF FollowsCalls

LEMMA StartTextFollows == ASSUME IInv, Follows, StartText PROVE Follows'
<1>1. /\ at = "text" /\ textBlock < 0 /\ textBlock' = nextBlock /\ view' = Opened(nextBlock, OpenText)
      /\ UNCHANGED <<at, chunk, pos, tools, finish, said>>
    BY DEF StartText, source
<1>2. ViewOK(view) /\ nextBlock \in Nat
    BY DEF IInv, Shape
<1>3. nextBlock \notin DOMAIN view.blocks
    BY NextIsNew DEF IInv
<1>4. view'.blocks = [j \in DOMAIN view.blocks \cup {nextBlock} |->
                        IF j = nextBlock THEN OpenText ELSE view.blocks[j]]
    BY <1>1, <1>2, NewBlock, Opening
<1>5. view'.blocks[nextBlock] = OpenText /\ \A j \in DOMAIN view.blocks : view'.blocks[j] = view.blocks[j]
    BY <1>3, <1>4
<1>6. OpenText.type = "text" /\ OpenText.body = <<>>
    BY DEF OpenText
<1>7. FollowsCalls'
    <2>1. \A i \in DOMAIN tools : tools[i].started => tools[i].block \in DOMAIN view.blocks
        BY DEF IInv, Owned
    <2>2. \A i \in DOMAIN tools : tools[i].started =>
                SameContent(view.blocks[tools[i].block], view'.blocks[tools[i].block])
        BY <1>5, <2>1 DEF SameContent
    <2> QED BY <1>1, <2>2, CallsStay
<1>8. FollowsText'
    <2>1. said.text = Append(<<>>, chunk.text)
        BY <1>1 DEF Follows, FollowsText
    <2>2. ~(textBlock' < 0) /\ textBlock' = nextBlock /\ at' = "text"
        BY <1>1, <1>2
    <2>3. view'.blocks[textBlock'].type = "text" /\ view'.blocks[textBlock'].body = <<>>
        BY <1>1, <1>5, <1>6
    <2> QED BY <1>1, <2>1, <2>2, <2>3, Zenon DEF FollowsText
<1>9. FollowsFinish'
    BY <1>1 DEF Follows, FollowsFinish, InChunk
<1> QED BY <1>7, <1>8, <1>9 DEF Follows

LEMMA WriteTextFollows == ASSUME IInv, Follows, WriteText PROVE Follows'
<1>1. /\ at = "text" /\ textBlock >= 0 /\ view' = Written(textBlock, chunk.text) /\ at' = "calls"
      /\ UNCHANGED <<chunk, pos, tools, textBlock, finish, said>>
    BY DEF WriteText, lookup, source
<1>2. ViewOK(view) /\ textBlock \in DOMAIN view.blocks /\ chunk.text \in Pieces
    BY <1>1, ChunkShape DEF IInv, Shape, Owned, InPlace
<1>3. /\ \A j \in DOMAIN view.blocks \ {textBlock} : view'.blocks[j] = view.blocks[j]
      /\ view'.blocks[textBlock].type = view.blocks[textBlock].type
      /\ view'.blocks[textBlock].body = Append(view.blocks[textBlock].body, chunk.text)
    BY <1>1, <1>2, WritingAddsContent
<1>4. FollowsCalls'
    <2>1. \A i \in DOMAIN tools : tools[i].started =>
            tools[i].block \in DOMAIN view.blocks /\ tools[i].block # textBlock
        BY DEF IInv, Owned
    <2>2. \A i \in DOMAIN tools : tools[i].started =>
                SameContent(view.blocks[tools[i].block], view'.blocks[tools[i].block])
        BY <1>3, <2>1 DEF SameContent
    <2> QED BY <1>1, <2>2, CallsStay
<1>5. FollowsText'
    <2>1. /\ view.blocks[textBlock].type = "text"
          /\ said.text = Append(view.blocks[textBlock].body, chunk.text)
        BY <1>1 DEF Follows, FollowsText
    <2>2. view.blocks[textBlock].body \in Seq(Pieces)
        BY <1>2 DEF ViewOK, Block
    <2>3. said.text # <<>>
        BY <1>2, <2>1, <2>2
    <2>4. ~(textBlock' < 0) /\ at' # "text"
        <3>1. nextBlock \in Nat /\ textBlock \in -1 .. nextBlock - 1
            BY DEF IInv, Shape
        <3> QED BY <1>1, <3>1
    <2> QED BY <1>1, <1>3, <2>1, <2>3, <2>4 DEF FollowsText
<1>6. FollowsFinish'
    BY <1>1 DEF Follows, FollowsFinish, InChunk
<1> QED BY <1>4, <1>5, <1>6 DEF Follows

LEMMA EndChunkFollows == ASSUME IInv, Follows, EndChunk PROVE Follows'
<1>1. /\ at = "calls" /\ pos > Len(chunk.calls) /\ at' = "scan"
      /\ finish' = (IF chunk.finish = "null" THEN finish ELSE chunk.finish)
      /\ UNCHANGED <<tools, textBlock, said, view>>
    BY DEF EndChunk, source
<1>2. InChunk /\ ~InChunk' /\ at # "args" /\ at # "text" /\ at' # "text" /\ at' \notin {"stop", "done"}
    BY <1>1 DEF InChunk
<1>3. FollowsCalls'
    <2>1. chunk \in Chunks /\ pos \in 1 .. Len(chunk.calls) + 1 /\ IsFiniteSet(DOMAIN tools)
        BY <1>2, Zenon DEF Follows, FollowsCalls
    <2>2. chunk.calls \in Seq(Deltas)
        BY <2>1, ChunkShape
    <2>3. Len(chunk.calls) \in Nat
        BY ONLY <2>2
    <2>4. pos - 1 = Len(chunk.calls)
        BY <1>1, <2>1, <2>3
    <2>5. PICK h, before :
            /\ h[Len(chunk.calls)] = said.calls
            /\ Tells(h[pos - 1], tools, view.blocks, {}, "")
        BY <1>2, Zenon DEF Follows, FollowsCalls
    <2>6. Tells(said.calls, tools, view.blocks, {}, "")
        BY <2>4, <2>5
    <2> QED BY <1>1, <1>2, <2>1, <2>6, Zenon DEF FollowsCalls
<1>4. FollowsText'
    <2>1. /\ textBlock < 0 => said.text = <<>>
          /\ textBlock >= 0 => /\ view.blocks[textBlock].type = "text"
                               /\ said.text = view.blocks[textBlock].body /\ said.text # <<>>
        BY <1>2 DEF Follows, FollowsText
    <2> QED BY <1>1, <1>2, <2>1, Zenon DEF FollowsText
<1>5. FollowsFinish'
    BY <1>1, <1>2, Zenon DEF Follows, FollowsFinish
<1> QED BY <1>3, <1>4, <1>5 DEF Follows

\* What NoteCall does, part by part.
Starts == ~Noted.started /\ (Noted.id # "" \/ Noted.name # "")

\* What NoteCall does to the tools, part by part,
LEMMA NoteCallParts ==
    ASSUME IInv, NoteCall, NEW s, s = Slot(Delta)
    PROVE  /\ DOMAIN tools' = DOMAIN tools \cup {s}
           /\ \A i \in DOMAIN tools \ {s} : tools'[i] = tools[i]
           /\ tools'[s].id = Noted.id /\ tools'[s].name = Noted.name
           /\ tools'[s].block = Noted.block /\ (tools'[s].started <=> (Noted.started \/ Starts))
           /\ s \in DOMAIN tools =>
                /\ Noted.block = tools[s].block /\ Noted.started = tools[s].started
                /\ Noted.id = (IF Delta.id = "" THEN tools[s].id ELSE Delta.id)
                /\ Noted.name = (IF Delta.name = "" THEN tools[s].name ELSE Delta.name)
           /\ s \notin DOMAIN tools =>
                /\ Noted.block = nextBlock /\ ~Noted.started
                /\ Noted.id = Delta.id /\ Noted.name = Delta.name
<1> DEFINE n == Noted
           t == [n EXCEPT !.started = @ \/ (~n.started /\ (n.id # "" \/ n.name # ""))]
<1>1. tools' = [i \in DOMAIN tools \cup {s} |-> IF i = s THEN t ELSE tools[i]]
    BY DEF NoteCall, Kept
<1>2. n \in Tool
    BY NoteCallShape
<1>3. tools \in [DOMAIN tools -> Tool]
    BY DEF IInv, Shape
<1>4. s \in DOMAIN tools =>
        /\ n.block = tools[s].block /\ n.started = tools[s].started
        /\ n.id = (IF Delta.id = "" THEN tools[s].id ELSE Delta.id)
        /\ n.name = (IF Delta.name = "" THEN tools[s].name ELSE Delta.name)
    <2> SUFFICES ASSUME s \in DOMAIN tools
                 PROVE  /\ n.block = tools[s].block /\ n.started = tools[s].started
                        /\ n.id = (IF Delta.id = "" THEN tools[s].id ELSE Delta.id)
                        /\ n.name = (IF Delta.name = "" THEN tools[s].name ELSE Delta.name)
        OBVIOUS
    <2>1. tools[s] \in Tool
        BY <1>3
    <2> QED BY <2>1 DEF Noted, Tool
<1>5. s \notin DOMAIN tools =>
        /\ n.block = nextBlock /\ ~n.started /\ n.id = Delta.id /\ n.name = Delta.name
    BY DEF Noted
<1>6. t.id = n.id /\ t.name = n.name /\ t.block = n.block /\ (t.started <=> (n.started \/ Starts))
    <2>1. n.started \in BOOLEAN
        BY <1>2 DEF Tool
    <2>2. \A v \in BOOLEAN :
            /\ [n EXCEPT !.started = v].id = n.id /\ [n EXCEPT !.started = v].name = n.name
            /\ [n EXCEPT !.started = v].block = n.block /\ [n EXCEPT !.started = v].started = v
        BY <1>2 DEF Tool
    <2> DEFINE v == n.started \/ (~n.started /\ (n.id # "" \/ n.name # ""))
    <2>3. v \in BOOLEAN /\ t = [n EXCEPT !.started = v] /\ (v <=> (n.started \/ Starts))
        BY <2>1 DEF Starts
    <2> HIDE DEF n, v, t
    <2> QED BY <2>2, <2>3
<1> HIDE DEF t
<1>7. /\ DOMAIN tools' = DOMAIN tools \cup {s} /\ tools'[s] = t
      /\ \A i \in DOMAIN tools \ {s} : tools'[i] = tools[i]
    BY <1>1
<1> QED BY <1>4, <1>5, <1>6, <1>7

\* and to the blocks.
LEMMA NoteCallView ==
    ASSUME IInv, NoteCall
    PROVE  /\ ~Starts => view' = view
           /\ Starts =>
                /\ view'.blocks[Noted.block] =
                        OpenTool(FirstNonEmpty(Noted.id, CallId(Delta.index)), Noted.name)
                /\ \A j \in DOMAIN view.blocks : view'.blocks[j] = view.blocks[j]
<1> DEFINE id == FirstNonEmpty(Noted.id, CallId(Delta.index))
           new == OpenTool(id, Noted.name)
           b == Noted.block
           s == Slot(Delta)
<1>1. view' = IF Starts THEN Opened(b, new) ELSE view
    BY DEF NoteCall, Starts
<1>2. b \notin DOMAIN view.blocks \/ Noted.started
    <2>1. CASE s \in DOMAIN tools
        <3>1. b = tools[s].block /\ Noted.started = tools[s].started
            BY <2>1, NoteCallParts
        <3> QED BY <2>1, <3>1 DEF IInv, Owned
    <2>2. CASE s \notin DOMAIN tools
        <3>1. b = nextBlock
            BY <2>2, NoteCallParts
        <3> QED BY <3>1, NextIsNew DEF IInv
    <2> QED BY <2>1, <2>2
<1>3. new \in Block
    <2>1. Noted \in Tool /\ Delta \in Deltas
        BY NoteCallShape
    <2>2. Noted.id \in Words /\ Noted.name \in Words /\ Delta.index \in Indices
        BY <2>1 DEF Tool, Deltas
    <2>3. CallId(Delta.index) \in Words
        BY <2>2, ChunksAssumption DEF Words
    <2>4. id \in Words
        BY <2>2, <2>3 DEF FirstNonEmpty
    <2> QED BY <2>2, <2>4, NewBlock
<1>4. ViewOK(view)
    BY DEF IInv, Shape
<1>5. ASSUME Starts
      PROVE  view'.blocks[b] = new /\ \A j \in DOMAIN view.blocks : view'.blocks[j] = view.blocks[j]
    <2>1. b \notin DOMAIN view.blocks
        BY <1>2, <1>5 DEF Starts
    <2> HIDE DEF b, new
    <2>2. view'.blocks = [j \in DOMAIN view.blocks \cup {b} |-> IF j = b THEN new ELSE view.blocks[j]]
        BY <1>1, <1>3, <1>4, <1>5, Opening
    <2> QED BY <2>1, <2>2
<1> QED BY <1>1, <1>5

\* The call of the delta is known by what it was and what the delta brings.
LEMMA NotedIsTold ==
    ASSUME IInv, NoteCall, NEW s, s = Slot(Delta), NEW calls, Tells(calls, tools, view.blocks, {}, "")
    PROVE  TellsCall(HearDelta(calls, Delta)[s], tools'[s], view'.blocks,
                     IF Delta.args = "" THEN Told(tools'[s], view'.blocks)
                     ELSE Append(Told(tools'[s], view'.blocks), Delta.args))
<1> DEFINE n == Noted
           t == tools'[s]
           new == HearDelta(calls, Delta)[s]
           b == n.block
           made == OpenTool(FirstNonEmpty(n.id, CallId(Delta.index)), n.name)
<1>0. Delta.index = s /\ DOMAIN calls = DOMAIN tools
    BY DEF Slot, Tells
<1>1. t.id = n.id /\ t.name = n.name /\ t.block = b /\ (t.started <=> (n.started \/ Starts))
    BY NoteCallParts
<1>2. /\ ~Starts => view' = view
      /\ Starts => /\ view'.blocks[b] = made
                   /\ \A j \in DOMAIN view.blocks : view'.blocks[j] = view.blocks[j]
    BY NoteCallView
<1>3. Starts <=> ~n.started /\ (n.id # "" \/ n.name # "")
    BY DEF Starts
<1>4. /\ made.type = "tool_use" /\ made.body = <<>> /\ made.name = n.name
      /\ n.id # "" => made.id = n.id
    BY DEF OpenTool, FirstNonEmpty
<1>5. CASE s \in DOMAIN tools
    <2>1. /\ b = tools[s].block /\ n.started = tools[s].started
          /\ n.id = (IF Delta.id = "" THEN tools[s].id ELSE Delta.id)
          /\ n.name = (IF Delta.name = "" THEN tools[s].name ELSE Delta.name)
        BY <1>5, NoteCallParts
    <2>2. LET old == calls[s]
          IN  /\ new.id = IF Delta.id = "" THEN old.id ELSE Delta.id
              /\ new.name = IF Delta.name = "" THEN old.name ELSE Delta.name
              /\ new.args = IF Delta.args = "" THEN old.args ELSE Append(old.args, Delta.args)
              /\ new.regular => old.regular /\ Delta.id \in {"", old.id} /\ Delta.name \in {"", old.name}
        BY <1>0, <1>5, DeltaIsHeard, Zenon
    <2>3. TellsCall(calls[s], tools[s], view.blocks, Told(tools[s], view.blocks))
        BY <1>5 DEF Tells
    <2>4. tools[s].started => b \in DOMAIN view.blocks
        BY <1>5, <2>1 DEF IInv, Owned
    <2> HIDE DEF n, t, new, b, made
    <2>5. new.id = t.id /\ new.name = t.name
        BY <1>1, <2>1, <2>2, <2>3, Zenon DEF TellsCall
    <2>6. tools[s].started => t.started /\ view'.blocks[t.block] = view.blocks[tools[s].block]
        BY <1>1, <1>2, <1>3, <2>1
    <2>7. ~tools[s].started /\ t.started => view'.blocks[t.block] = made
        BY <1>1, <1>2, <2>1
    <2>8. Told(t, view'.blocks) = Told(tools[s], view.blocks)
        <3>1. CASE tools[s].started
            BY <2>6, <3>1 DEF Told
        <3>2. CASE ~tools[s].started
            BY <1>4, <2>7, <3>2 DEF Told
        <3> QED BY <3>1, <3>2
    <2>9. new.args = (IF Delta.args = "" THEN Told(t, view'.blocks)
                      ELSE Append(Told(t, view'.blocks), Delta.args))
        BY <2>2, <2>3, <2>8, Zenon DEF TellsCall
    <2>10. t.started => view'.blocks[t.block].type = "tool_use"
        BY <1>4, <2>3, <2>6, <2>7, Zenon DEF TellsCall
    <2>11. new.regular => /\ new.id # "" /\ new.name # "" /\ t.started
                          /\ view'.blocks[t.block].id = new.id /\ view'.blocks[t.block].name = new.name
        <3> SUFFICES ASSUME new.regular
                     PROVE  /\ new.id # "" /\ new.name # "" /\ t.started
                            /\ view'.blocks[t.block].id = new.id /\ view'.blocks[t.block].name = new.name
            OBVIOUS
        <3>1. calls[s].regular /\ Delta.id \in {"", calls[s].id} /\ Delta.name \in {"", calls[s].name}
            BY <2>2, Zenon
        <3>2. /\ calls[s].id # "" /\ calls[s].name # "" /\ tools[s].started
              /\ view.blocks[tools[s].block].id = calls[s].id
              /\ view.blocks[tools[s].block].name = calls[s].name
            BY <2>3, <3>1, Zenon DEF TellsCall
        <3>3. new.id = calls[s].id /\ new.name = calls[s].name
            BY <2>2, <3>1, Zenon
        <3> QED BY <2>6, <3>2, <3>3, Zenon
    <2> QED BY <2>5, <2>9, <2>10, <2>11, Zenon DEF TellsCall, t, new
<1>6. CASE s \notin DOMAIN tools
    <2>1. ~n.started /\ n.id = Delta.id /\ n.name = Delta.name
        BY <1>6, NoteCallParts
    <2>2. /\ new.id = Delta.id /\ new.name = Delta.name
          /\ new.args = IF Delta.args = "" THEN <<>> ELSE Append(<<>>, Delta.args)
          /\ new.regular => Delta.id # "" /\ Delta.name # ""
        BY <1>0, <1>6, DeltaIsHeard, Zenon
    <2> HIDE DEF n, t, new, b, made
    <2>3. t.started => view'.blocks[t.block] = made
        BY <1>1, <1>2, <2>1
    <2>4. Told(t, view'.blocks) = <<>>
        BY <1>4, <2>3 DEF Told
    <2>5. new.id = t.id /\ new.name = t.name
        BY <1>1, <2>1, <2>2
    <2>6. new.args = (IF Delta.args = "" THEN Told(t, view'.blocks)
                      ELSE Append(Told(t, view'.blocks), Delta.args))
        BY <2>2, <2>4, Zenon
    <2>7. t.started => view'.blocks[t.block].type = "tool_use"
        BY <1>4, <2>3
    <2>8. new.regular => /\ new.id # "" /\ new.name # "" /\ t.started
                         /\ view'.blocks[t.block].id = new.id /\ view'.blocks[t.block].name = new.name
        BY <1>1, <1>3, <1>4, <2>1, <2>2, <2>3, Zenon
    <2> QED BY <2>5, <2>6, <2>7, <2>8, Zenon DEF TellsCall, t, new
<1> QED BY <1>5, <1>6

\* A noted delta is told but for its arguments.
LEMMA NoteCallTells ==
    ASSUME IInv, NoteCall, NEW s, s = Slot(Delta), NEW calls, Tells(calls, tools, view.blocks, {}, "")
    PROVE  Tells(HearDelta(calls, Delta), tools', view'.blocks,
                 IF Delta.args = "" THEN {} ELSE {s}, Delta.args)
<1> DEFINE next == HearDelta(calls, Delta)
           pending == IF Delta.args = "" THEN {} ELSE {s}
<1>0. Delta.index = s /\ DOMAIN calls = DOMAIN tools
    BY DEF Slot, Tells
<1>1. /\ DOMAIN next = DOMAIN calls \cup {s}
      /\ \A i \in DOMAIN calls \ {s} : next[i] = calls[i]
    BY <1>0, DeltaTouchesOne, Zenon
<1>2. /\ DOMAIN tools' = DOMAIN tools \cup {s}
      /\ \A i \in DOMAIN tools \ {s} : tools'[i] = tools[i]
    BY NoteCallParts
<1>3. \A j \in DOMAIN view.blocks : view'.blocks[j] = view.blocks[j]
    BY NoteCallView
<1>4. ASSUME NEW i \in DOMAIN tools'
      PROVE  TellsCall(next[i], tools'[i], view'.blocks,
                IF i \in pending THEN Append(Told(tools'[i], view'.blocks), Delta.args)
                ELSE Told(tools'[i], view'.blocks))
    <2>1. CASE i = s
        <3>1. TellsCall(next[s], tools'[s], view'.blocks,
                        IF Delta.args = "" THEN Told(tools'[s], view'.blocks)
                        ELSE Append(Told(tools'[s], view'.blocks), Delta.args))
            BY NotedIsTold
        <3>2. s \in pending <=> Delta.args # ""
            OBVIOUS
        <3>3. (IF Delta.args = "" THEN Told(tools'[s], view'.blocks)
               ELSE Append(Told(tools'[s], view'.blocks), Delta.args))
              = (IF s \in pending THEN Append(Told(tools'[s], view'.blocks), Delta.args)
                ELSE Told(tools'[s], view'.blocks))
            BY <3>2, Zenon
        <3> HIDE DEF next, pending
        <3> QED BY <2>1, <3>1, <3>3
    <2>2. CASE i # s
        <3>1. i \in DOMAIN tools /\ tools'[i] = tools[i] /\ next[i] = calls[i] /\ i \notin pending
            BY <1>0, <1>1, <1>2, <2>2
        <3>2. TellsCall(calls[i], tools[i], view.blocks, Told(tools[i], view.blocks))
            BY <3>1 DEF Tells
        <3>3. tools[i].started => view'.blocks[tools[i].block] = view.blocks[tools[i].block]
            BY <1>3, <3>1 DEF IInv, Owned
        <3>4. Told(tools[i], view'.blocks) = Told(tools[i], view.blocks)
            BY <3>3 DEF Told
        <3>5. TellsCall(calls[i], tools[i], view'.blocks, Told(tools[i], view'.blocks))
            BY <3>2, <3>3, <3>4, Zenon DEF TellsCall
        <3> HIDE DEF next, pending
        <3> QED BY <3>1, <3>5
    <2> QED BY <2>1, <2>2
<1>5. DOMAIN next = DOMAIN tools'
    BY <1>0, <1>1, <1>2
<1> HIDE DEF next, pending
<1>6. Tells(next, tools', view'.blocks, pending, Delta.args)
    BY <1>4, <1>5 DEF Tells
<1> QED BY <1>6 DEF next, pending

\* What is heard up to the delta that is worked on, and after it.
LEMMA HeardSoFar ==
    ASSUME Follows, InChunk, pos \in DOMAIN chunk.calls
    PROVE  \E h, before :
            /\ Hears(h, before, chunk.calls, Len(chunk.calls))
            /\ h[Len(chunk.calls)] = said.calls
            /\ h[pos] = HearDelta(h[pos - 1], Delta)
            /\ at # "args" => Tells(h[pos - 1], tools, view.blocks, {}, "")
            /\ at = "args" => Tells(h[pos], tools, view.blocks, {Slot(Delta)}, Delta.args)
<1>1. PICK h, before :
        /\ Hears(h, before, chunk.calls, Len(chunk.calls))
        /\ h[Len(chunk.calls)] = said.calls
        /\ at # "args" => Tells(h[pos - 1], tools, view.blocks, {}, "")
        /\ at = "args" => Tells(h[pos], tools, view.blocks, {Slot(Delta)}, Delta.args)
    BY DEF Follows, FollowsCalls
<1>2. chunk \in Chunks
    BY DEF Follows, FollowsCalls
<1>3. chunk.calls \in Seq(Deltas)
    BY <1>2, ChunkShape
<1>4. Len(chunk.calls) \in Nat /\ DOMAIN chunk.calls = 1 .. Len(chunk.calls)
    BY ONLY <1>3
<1>5. pos \in 1 .. Len(chunk.calls)
    BY <1>4
<1>6. h[pos] = HearDelta(h[pos - 1], chunk.calls[pos])
    <2>1. Hears(h, before, chunk.calls, Len(chunk.calls)) /\ Len(chunk.calls) \in Nat
        BY <1>1, <1>4
    <2>2. \A k \in 1 .. Len(chunk.calls) : h[k] = HearDelta(h[k - 1], chunk.calls[k])
        BY <2>1, HearsAll
    <2> QED BY <1>5, <2>2, Zenon
<1> QED BY <1>1, <1>6, Zenon DEF Delta

\* What there is of the chunk while it is worked on.
LEMMA InTheChunk ==
    ASSUME Follows, InChunk, pos \in DOMAIN chunk.calls
    PROVE  /\ chunk \in Chunks /\ Delta \in Deltas /\ Delta.args \in Pieces
           /\ pos \in 1 .. Len(chunk.calls) + 1 /\ pos + 1 \in 1 .. Len(chunk.calls) + 1
           /\ (pos + 1) - 1 = pos
<1>1. chunk \in Chunks
    BY DEF Follows, FollowsCalls
<1>2. chunk.calls \in Seq(Deltas) /\ Delta \in Deltas /\ Delta.args \in Pieces
    BY <1>1, ChunkShape DEF Delta
<1>3. Len(chunk.calls) \in Nat /\ DOMAIN chunk.calls = 1 .. Len(chunk.calls)
    BY ONLY <1>2
<1> QED BY <1>1, <1>2, <1>3

\* The block of the text is not one of a call.
LEMMA OtherTextStays ==
    ASSUME IInv, Follows, UNCHANGED <<chunk, textBlock, finish, said>>, at # "text", at' # "text",
           InChunk, InChunk', NEW b, b # textBlock,
           \A j \in DOMAIN view.blocks \ {b} : view'.blocks[j] = view.blocks[j]
    PROVE  FollowsText' /\ FollowsFinish'
<1>1. textBlock >= 0 => textBlock \in DOMAIN view.blocks
    BY DEF IInv, Owned
<1>2. textBlock >= 0 => SameContent(view.blocks[textBlock], view'.blocks[textBlock])
    BY <1>1 DEF SameContent
<1>3. FollowsText'
    BY <1>2, TextStays DEF Follows, IInv
<1>4. at \notin {"stop", "done"} /\ at' \notin {"stop", "done"}
    BY DEF InChunk
<1>5. FollowsFinish'
    BY <1>4, Zenon DEF Follows, FollowsFinish
<1> QED BY <1>3, <1>5

LEMMA NoteCallFollows == ASSUME IInv, Follows, NoteCall PROVE Follows'
<1> DEFINE s == Slot(Delta)
<1>1. at = "calls" /\ UNCHANGED <<chunk, textBlock, finish, said>>
    BY DEF NoteCall, source
<1>2. /\ Delta.args = "" => at' = "calls" /\ pos' = pos + 1
      /\ Delta.args # "" => at' = "args" /\ pos' = pos
    BY DEF NoteCall
<1>3. InChunk /\ InChunk' /\ at # "args" /\ at # "text" /\ at' # "text"
    BY <1>1, <1>2 DEF InChunk
<1>4. pos \in DOMAIN chunk.calls
    BY NoteCallShape
<1>5. PICK h, before :
        /\ Hears(h, before, chunk.calls, Len(chunk.calls))
        /\ h[Len(chunk.calls)] = said.calls
        /\ h[pos] = HearDelta(h[pos - 1], Delta)
        /\ Tells(h[pos - 1], tools, view.blocks, {}, "")
    BY <1>3, <1>4, HeardSoFar, Zenon
<1>6. Tells(h[pos], tools', view'.blocks, IF Delta.args = "" THEN {} ELSE {s}, Delta.args)
    BY <1>5, NoteCallTells, Zenon
<1>7. /\ chunk \in Chunks /\ pos \in 1 .. Len(chunk.calls) + 1
      /\ pos + 1 \in 1 .. Len(chunk.calls) + 1 /\ (pos + 1) - 1 = pos
    BY <1>3, <1>4, InTheChunk
<1>8. IsFiniteSet(DOMAIN tools')
    <2>1. DOMAIN tools' = DOMAIN tools \cup {s}
        BY NoteCallParts
    <2>2. IsFiniteSet(DOMAIN tools)
        BY DEF Follows, FollowsCalls
    <2> QED BY <2>1, <2>2, FS_AddElement
<1>9. FollowsCalls'
    <2>1. CASE Delta.args = ""
        <3>1. at' # "args" /\ pos' \in 1 .. Len(chunk.calls) + 1 /\ pos' - 1 = pos
            BY <1>2, <1>7, <2>1
        <3>2. Tells(h[pos' - 1], tools', view'.blocks, {}, "")
            BY <1>6, <2>1, <3>1, Zenon
        <3> QED BY <1>1, <1>3, <1>5, <1>7, <1>8, <3>1, <3>2, Zenon DEF FollowsCalls
    <2>2. CASE Delta.args # ""
        <3>1. at' = "args" /\ pos' = pos
            BY <1>2, <2>2
        <3>2. Delta' = Delta /\ Slot(Delta)' = s
            BY <1>1, <3>1 DEF Delta, Slot
        <3>3. Tells(h[pos'], tools', view'.blocks, {Slot(Delta)'}, Delta'.args)
            BY <1>6, <2>2, <3>1, <3>2, Zenon
        <3> QED BY <1>1, <1>3, <1>5, <1>7, <1>8, <3>1, <3>3, Zenon DEF FollowsCalls
    <2> QED BY <2>1, <2>2
<1>10. Noted.block # textBlock
    <2>1. CASE s \in DOMAIN tools
        <3>1. Noted.block = tools[s].block
            BY <2>1, NoteCallParts
        <3> QED BY <2>1, <3>1 DEF IInv, Owned
    <2>2. CASE s \notin DOMAIN tools
        <3>1. Noted.block = nextBlock
            BY <2>2, NoteCallParts
        <3>2. nextBlock \in Nat /\ textBlock \in -1 .. nextBlock - 1
            BY DEF IInv, Shape
        <3> QED BY <3>1, <3>2
    <2> QED BY <2>1, <2>2
<1>11. \A j \in DOMAIN view.blocks : view'.blocks[j] = view.blocks[j]
    BY NoteCallView
<1>12. FollowsText' /\ FollowsFinish'
    BY <1>1, <1>3, <1>10, <1>11, OtherTextStays
<1> QED BY <1>9, <1>12 DEF Follows

LEMMA StartForArgsFollows == ASSUME IInv, Follows, StartForArgs PROVE Follows'
<1> DEFINE s == Slot(Delta)
           b == tools[s].block
           new == OpenTool(CallId(Delta.index), tools[s].name)
<1>1. /\ at = "args" /\ ~tools[s].started /\ UNCHANGED <<at, chunk, pos, textBlock, finish, said>>
      /\ tools' = [tools EXCEPT ![s].started = TRUE] /\ view' = Opened(b, new)
    BY DEF StartForArgs, source
<1>2. InChunk /\ InChunk' /\ at # "text" /\ at' # "text" /\ at' = "args"
    BY <1>1 DEF InChunk
<1>3. /\ pos \in DOMAIN chunk.calls /\ s \in DOMAIN tools /\ ViewOK(view)
      /\ tools \in [DOMAIN tools -> Tool]
    BY <1>1 DEF IInv, Shape, InPlace
<1>4. PICK h, before :
        /\ Hears(h, before, chunk.calls, Len(chunk.calls))
        /\ h[Len(chunk.calls)] = said.calls
        /\ Tells(h[pos], tools, view.blocks, {s}, Delta.args)
    BY <1>1, <1>2, <1>3, HeardSoFar, Zenon
<1>5. chunk \in Chunks /\ Delta \in Deltas /\ pos \in 1 .. Len(chunk.calls) + 1
    BY <1>2, <1>3, InTheChunk
<1>6. new \in Block
    <2>1. Delta.index \in Indices
        BY <1>5 DEF Deltas
    <2>2. CallId(Delta.index) \in Words
        BY <2>1, ChunksAssumption DEF Words
    <2>3. tools[s] \in Tool
        BY <1>3
    <2>4. tools[s].name \in Words
        BY <2>3 DEF Tool
    <2> QED BY <2>2, <2>4, NewBlock
<1>7. new.type = "tool_use" /\ new.body = <<>>
    BY DEF OpenTool
<1>8. b \notin DOMAIN view.blocks /\ b # textBlock
    BY <1>1, <1>3 DEF IInv, Owned
<1> HIDE DEF new
<1>9. view'.blocks[b] = new /\ \A j \in DOMAIN view.blocks : view'.blocks[j] = view.blocks[j]
    <2> HIDE DEF b
    <2>1. view'.blocks = [j \in DOMAIN view.blocks \cup {b} |-> IF j = b THEN new ELSE view.blocks[j]]
        BY <1>1, <1>3, <1>6, Opening
    <2> QED BY <1>8, <2>1
<1>10. /\ DOMAIN tools' = DOMAIN tools /\ \A i \in DOMAIN tools \ {s} : tools'[i] = tools[i]
       /\ tools'[s].started /\ tools'[s].block = b
       /\ tools'[s].id = tools[s].id /\ tools'[s].name = tools[s].name
    <2>1. tools[s] \in Tool
        BY <1>3
    <2>2. /\ DOMAIN tools' = DOMAIN tools /\ \A i \in DOMAIN tools \ {s} : tools'[i] = tools[i]
          /\ tools'[s] = [tools[s] EXCEPT !.started = TRUE]
        BY <1>1, <1>3
    <2> QED BY <2>1, <2>2 DEF Tool
<1>11. Tells(h[pos], tools', view'.blocks, {s}, Delta.args)
    <2> HIDE DEF s, b
    <2>1. ASSUME NEW i \in DOMAIN tools'
          PROVE  TellsCall(h[pos][i], tools'[i], view'.blocks,
                    IF i \in {s} THEN Append(Told(tools'[i], view'.blocks), Delta.args)
                    ELSE Told(tools'[i], view'.blocks))
        <3>1. i \in DOMAIN tools
            BY <1>10
        <3>2. TellsCall(h[pos][i], tools[i], view.blocks,
                    IF i \in {s} THEN Append(Told(tools[i], view.blocks), Delta.args)
                    ELSE Told(tools[i], view.blocks))
            BY <1>4, <3>1 DEF Tells
        <3>3. CASE i = s
            <4>1. Told(tools[i], view.blocks) = <<>> /\ Told(tools'[i], view'.blocks) = <<>>
                BY <1>1, <1>7, <1>9, <1>10, <3>3 DEF Told
            <4>2. TellsCall(h[pos][i], tools[i], view.blocks, Append(<<>>, Delta.args))
                BY <3>2, <3>3, <4>1
            <4>3. ~tools[i].started /\ tools'[i].id = tools[i].id /\ tools'[i].name = tools[i].name
                BY <1>1, <1>10, <3>3
            <4>4. view'.blocks[tools'[i].block].type = "tool_use"
                BY <1>7, <1>9, <1>10, <3>3
            <4>5. TellsCall(h[pos][i], tools'[i], view'.blocks, Append(<<>>, Delta.args))
                BY <4>2, <4>3, <4>4, Zenon DEF TellsCall
            <4> QED BY <3>3, <4>1, <4>5
        <3>4. CASE i # s
            <4>1. tools'[i] = tools[i]
                BY <1>10, <3>1, <3>4
            <4>2. tools[i].started => view'.blocks[tools[i].block] = view.blocks[tools[i].block]
                BY <1>9, <3>1 DEF IInv, Owned
            <4>3. Told(tools[i], view'.blocks) = Told(tools[i], view.blocks)
                BY <4>2 DEF Told
            <4> QED BY <3>2, <4>1, <4>2, <4>3, Zenon DEF TellsCall
        <3> QED BY <3>3, <3>4
    <2>2. DOMAIN h[pos] = DOMAIN tools'
        BY <1>4, <1>10 DEF Tells
    <2> QED BY <2>1, <2>2 DEF Tells
<1>12. FollowsCalls'
    <2>1. Delta' = Delta /\ Slot(Delta)' = s /\ pos' = pos /\ said' = said /\ chunk' = chunk
        BY <1>1 DEF Delta, Slot
    <2>2. IsFiniteSet(DOMAIN tools')
        BY <1>10 DEF Follows, FollowsCalls
    <2>3. Tells(h[pos'], tools', view'.blocks, {Slot(Delta)'}, Delta'.args)
        BY <1>11, <2>1, Zenon
    <2> QED BY <1>2, <1>4, <1>5, <2>1, <2>2, <2>3, Zenon DEF FollowsCalls
<1>13. FollowsText' /\ FollowsFinish'
    BY <1>1, <1>2, <1>8, <1>9, OtherTextStays
<1> QED BY <1>12, <1>13 DEF Follows

LEMMA WriteArgsFollows == ASSUME IInv, Follows, WriteArgs PROVE Follows'
<1> DEFINE s == Slot(Delta)
           b == tools[s].block
<1>1. /\ at = "args" /\ tools[s].started /\ UNCHANGED <<chunk, tools, textBlock, finish, said>>
      /\ at' = "calls" /\ pos' = pos + 1 /\ view' = Written(b, Delta.args)
    BY DEF WriteArgs, source, lookup
<1>2. InChunk /\ InChunk' /\ at # "text" /\ at' # "text" /\ at' # "args"
    BY <1>1 DEF InChunk
<1>3. pos \in DOMAIN chunk.calls /\ s \in DOMAIN tools /\ ViewOK(view)
    BY <1>1 DEF IInv, Shape, InPlace
<1>4. PICK h, before :
        /\ Hears(h, before, chunk.calls, Len(chunk.calls))
        /\ h[Len(chunk.calls)] = said.calls
        /\ Tells(h[pos], tools, view.blocks, {s}, Delta.args)
    BY <1>1, <1>2, <1>3, HeardSoFar, Zenon
<1>5. /\ chunk \in Chunks /\ Delta.args \in Pieces /\ pos + 1 \in 1 .. Len(chunk.calls) + 1
      /\ (pos + 1) - 1 = pos
    BY <1>2, <1>3, InTheChunk
<1>6. b \in DOMAIN view.blocks /\ b # textBlock
    BY <1>1, <1>3 DEF IInv, Owned
<1>7. /\ \A j \in DOMAIN view.blocks \ {b} : view'.blocks[j] = view.blocks[j]
      /\ view'.blocks[b].type = view.blocks[b].type
      /\ view'.blocks[b].id = view.blocks[b].id /\ view'.blocks[b].name = view.blocks[b].name
      /\ view'.blocks[b].body = Append(view.blocks[b].body, Delta.args)
    BY <1>1, <1>3, <1>5, <1>6, WritingAddsContent
<1>8. Tells(h[pos], tools, view'.blocks, {}, "")
    <2>1. ASSUME NEW i \in DOMAIN tools
          PROVE  TellsCall(h[pos][i], tools[i], view'.blocks, Told(tools[i], view'.blocks))
        <3>1. TellsCall(h[pos][i], tools[i], view.blocks,
                    IF i \in {s} THEN Append(Told(tools[i], view.blocks), Delta.args)
                    ELSE Told(tools[i], view.blocks))
            BY <1>4 DEF Tells
        <3>2. CASE i = s
            <4>1. TellsCall(h[pos][i], tools[i], view.blocks, Append(Told(tools[i], view.blocks), Delta.args))
                BY <3>1, <3>2
            <4>2. tools[i].started /\ tools[i].block = b
                BY <1>1, <3>2
            <4>3. Append(Told(tools[i], view.blocks), Delta.args) = Told(tools[i], view'.blocks)
                BY <1>7, <4>2 DEF Told
            <4> HIDE DEF s, b
            <4> QED BY <1>7, <4>1, <4>2, <4>3, Zenon DEF TellsCall
        <3>3. CASE i # s
            <4>1. TellsCall(h[pos][i], tools[i], view.blocks, Told(tools[i], view.blocks))
                BY <3>1, <3>3
            <4>2. tools[i].started => view'.blocks[tools[i].block] = view.blocks[tools[i].block]
                BY <1>3, <1>7, <3>3 DEF IInv, Owned
            <4>3. Told(tools[i], view'.blocks) = Told(tools[i], view.blocks)
                BY <4>2 DEF Told
            <4> HIDE DEF s, b
            <4> QED BY <4>1, <4>2, <4>3, Zenon DEF TellsCall
        <3> QED BY <3>2, <3>3
    <2>2. DOMAIN h[pos] = DOMAIN tools
        BY <1>4 DEF Tells
    <2>3. \A i \in DOMAIN tools : i \notin {}
        OBVIOUS
    <2> QED BY <2>1, <2>2, <2>3, Zenon DEF Tells
<1>9. FollowsCalls'
    <2>1. pos' - 1 = pos /\ pos' \in 1 .. Len(chunk.calls) + 1
        BY <1>1, <1>5
    <2>2. IsFiniteSet(DOMAIN tools)
        BY DEF Follows, FollowsCalls
    <2>3. Tells(h[pos' - 1], tools', view'.blocks, {}, "")
        BY <1>1, <1>8, <2>1, Zenon
    <2> QED BY <1>1, <1>2, <1>4, <1>5, <2>1, <2>2, <2>3, Zenon DEF FollowsCalls
<1>10. FollowsText' /\ FollowsFinish'
    BY <1>1, <1>2, <1>6, <1>7, OtherTextStays
<1> QED BY <1>9, <1>10 DEF Follows

\* Steps at the ends of the stream and between chunks.
LEMMA EndsFollow ==
    ASSUME IInv, Follows,
           \/ MessageStart \/ EndOfBody \/ CloseText \/ CloseCall \/ MessageDelta \/ MessageStop
           \/ \E how \in {"done", "gone"} : UpstreamEnds(how)
    PROVE  Follows'
<1> DEFINE SameBlocks == \A j \in DOMAIN view.blocks : SameContent(view.blocks[j], view'.blocks[j])
<1>0. ViewOK(view) /\ \A b : SameContent(b, b)
    BY DEF IInv, Shape, SameContent
<1>1. CASE MessageStart
    <2>1. at = "begin" /\ at' = "scan" /\ view' = [view EXCEPT !.phase = "open"]
          /\ UNCHANGED <<chunk, pos, tools, textBlock, finish, said>>
        BY <1>1 DEF MessageStart, lookup, source
    <2>2. view'.blocks = view.blocks
        BY <1>0, <2>1, WithPhase
    <2> QED BY <1>0, <2>1, <2>2, QuietFollows DEF InChunk
<1>2. CASE EndOfBody
    <2>1. at = "scan" /\ at' = "closing" /\ UNCHANGED <<chunk, pos, tools, textBlock, finish, said, view>>
        BY <1>2 DEF EndOfBody, lookup, source
    <2> QED BY <1>0, <2>1, QuietFollows DEF InChunk
<1>3. CASE CloseText
    <2>1. /\ at = "closing" /\ at' = "closing calls"
          /\ view' = (IF textBlock >= 0 THEN Closed(textBlock) ELSE view)
          /\ UNCHANGED <<chunk, pos, tools, textBlock, finish, said>>
        BY <1>3 DEF CloseText, lookup, source
    <2>2. SameBlocks
        <3>1. CASE textBlock >= 0
            <4>1. textBlock \in DOMAIN view.blocks
                BY <3>1 DEF IInv, Owned
            <4> QED BY <1>0, <2>1, <3>1, <4>1, ClosingKeepsContent
        <3>2. CASE ~(textBlock >= 0)
            BY <1>0, <2>1, <3>2
        <3> QED BY <3>1, <3>2
    <2> QED BY <2>1, <2>2, QuietFollows DEF InChunk
<1>4. CASE CloseCall
    <2>1. PICK i \in ToClose : view' = Closed(tools[i].block)
        BY <1>4 DEF CloseCall
    <2>2. at = "closing calls" /\ at' = at /\ UNCHANGED <<chunk, pos, tools, textBlock, finish, said>>
        BY <1>4 DEF CloseCall, lookup, source
    <2>3. tools[i].block \in DOMAIN view.blocks
        BY DEF ToClose, IInv, Owned
    <2>4. SameBlocks
        BY <1>0, <2>1, <2>3, ClosingKeepsContent
    <2> QED BY <2>2, <2>4, QuietFollows
<1>5. CASE MessageDelta
    <2> DEFINE v == [view EXCEPT !.phase = "stopping"]
    <2>1. /\ at = "closing calls" /\ at' = "stop"
          /\ view' = [view EXCEPT !.phase = "stopping", !.reason = StopReason(finish)]
          /\ UNCHANGED <<chunk, pos, tools, textBlock, finish, said>>
        BY <1>5 DEF MessageDelta, lookup, source
    <2>2. ViewOK(v) /\ v.blocks = view.blocks
        BY <1>0, WithPhase
    <2>3. view' = [v EXCEPT !.reason = StopReason(finish)]
        BY <2>1
    <2> HIDE DEF v
    <2>4. view'.blocks = view.blocks /\ view'.reason = StopReason(finish)
        BY <2>2, <2>3, StopReasonType, WithReason
    <2> QED BY <1>0, <2>1, <2>4, QuietFollows DEF InChunk
<1>6. CASE MessageStop
    <2>1. at = "stop" /\ at' = "done" /\ view' = [view EXCEPT !.phase = "stopped"]
          /\ UNCHANGED <<chunk, pos, tools, textBlock, finish, said>>
        BY <1>6 DEF MessageStop, lookup, source
    <2>2. view'.blocks = view.blocks /\ view'.reason = view.reason
        BY <1>0, <2>1, WithPhase
    <2> QED BY <1>0, <2>1, <2>2, QuietFollows DEF InChunk
<1>7. CASE \E how \in {"done", "gone"} : UpstreamEnds(how)
    <2>1. UNCHANGED <<at, chunk, pos, tools, textBlock, finish, said, view>>
        BY <1>7 DEF UpstreamEnds, lookup
    <2> QED BY <1>0, <2>1, QuietFollows
<1> QED BY <1>1, <1>2, <1>3, <1>4, <1>5, <1>6, <1>7

\* Every step of a stream keeps what was told in line with what was said,
LEMMA StreamFollows == ASSUME IInv, Follows, StreamNext PROVE Follows'
<1>1. CASE Translate
    BY <1>1, EndsFollow, StartTextFollows, WriteTextFollows, NoteCallFollows, StartForArgsFollows,
       WriteArgsFollows, EndChunkFollows
    DEF Translate
<1>2. CASE \E c \in Chunks : Scan(c)
    BY <1>2, ScanFollows
<1>3. CASE \E how \in {"done", "gone"} : UpstreamEnds(how)
    BY <1>3, EndsFollow
<1> QED BY <1>1, <1>2, <1>3 DEF StreamNext

\* as does a step that leaves the stream alone,
LEMMA StreamStaysFollowed == ASSUME IInv, Follows, UNCHANGED stream PROVE Follows'
<1>1. UNCHANGED <<at, chunk, pos, tools, textBlock, finish, said, view>>
    BY DEF stream
<1>2. \A b : SameContent(b, b)
    BY DEF SameContent
<1> QED BY <1>1, <1>2, QuietFollows

\* and so does every step of a conversation.
LEMMA MessagesFollow == ASSUME IInv, Follows, [Next]_vars PROVE Follows'
<1>1. CASE Refuse \/ Ask \/ Fail \/ AnswerWhole \/ AnswerStream
    <2>1. UNCHANGED stream
        BY <1>1 DEF Refuse, Ask, Fail, AnswerWhole, AnswerStream
    <2> QED BY <2>1, StreamStaysFollowed
<1>2. CASE Streaming
    BY <1>2, StreamFollows DEF Streaming
<1>3. CASE StreamOver
    <2>1. /\ at' = "begin" /\ said' = SilentSoFar /\ tools' = NoTools /\ textBlock' = -1 /\ finish' = ""
        BY <1>3 DEF StreamOver
    <2>2. said'.finish = finish'
        BY <2>1, Zenon DEF SilentSoFar
    <2>3. Silent'
        BY <2>1, <2>2 DEF Silent
    <2>4. Silent' => Follows'
        BY FollowsAtFirst, PTL
    <2> QED BY <2>3, <2>4
<1>4. CASE UNCHANGED vars
    <2>1. UNCHANGED stream
        BY <1>4 DEF vars, stream
    <2> QED BY <2>1, StreamStaysFollowed
<1> QED BY <1>1, <1>2, <1>3, <1>4 DEF Next

LEMMA StreamInitFollows == StreamInit => Follows
<1> SUFFICES ASSUME StreamInit PROVE Follows
    OBVIOUS
<1>1. at = "begin" /\ said = SilentSoFar /\ tools = NoTools /\ textBlock = -1 /\ finish = ""
    BY DEF StreamInit
<1>2. said.finish = finish
    BY <1>1, Zenon DEF SilentSoFar
<1> QED BY <1>1, <1>2, FollowsAtFirst DEF Silent

-----------------------------------------------------------------------------
(* What a content says.                                                    *)

\* The blocks of a type, in their order.
LEMMA TypedBlocks ==
    ASSUME NEW blocks, IsSeq(blocks), NEW type
    PROVE  /\ IsSeq(OfType(blocks, type))
           /\ Members(OfType(blocks, type)) = {b \in Members(blocks) : b.type = type}
           /\ IsSelection(blocks, {i \in DOMAIN blocks : blocks[i].type = type}, Len(blocks), OfType(blocks, type))
<1> DEFINE places == {i \in DOMAIN blocks : blocks[i].type = type}
           r == OfType(blocks, type)
<1>1. /\ IsSeq(r) /\ IsSelection(blocks, places, Len(blocks), r)
      /\ Members(r) = {blocks[i] : i \in places \cap DOMAIN blocks}
    BY SelectedFrom DEF OfType
<1>2. {blocks[i] : i \in places \cap DOMAIN blocks} = {b \in Members(blocks) : b.type = type}
    BY DEF Members
<1> HIDE DEF places
<1>3. /\ IsSeq(r) /\ IsSelection(blocks, places, Len(blocks), r)
      /\ Members(r) = {b \in Members(blocks) : b.type = type}
    BY <1>1, <1>2
<1> QED BY <1>3 DEF places

LEMMA NoneOfType ==
    ASSUME NEW blocks, IsSeq(blocks), NEW type, \A b \in Members(blocks) : b.type # type
    PROVE  OfType(blocks, type) = <<>>
<1>1. /\ IsSeq(OfType(blocks, type))
      /\ Members(OfType(blocks, type)) = {b \in Members(blocks) : b.type = type}
    BY TypedBlocks, Zenon
<1>2. {b \in Members(blocks) : b.type = type} = {}
    OBVIOUS
<1> QED BY <1>1, <1>2, PlacesIn

LEMMA OneOfType ==
    ASSUME NEW blocks, IsSeq(blocks), NEW type,
           NEW k \in 1 .. Len(blocks), blocks[k].type = type,
           \A i \in 1 .. Len(blocks) : blocks[i].type = type => i = k
    PROVE  OfType(blocks, type) = <<blocks[k]>>
<1> DEFINE places == {i \in DOMAIN blocks : blocks[i].type = type}
           r == <<blocks[k]>>
           p == [j \in 1 .. 1 |-> k]
<1>1. Len(blocks) \in Nat /\ DOMAIN blocks = 1 .. Len(blocks)
    BY PlacesIn
<1>2. IsSeq(r) /\ Len(r) = 1 /\ r[1] = blocks[k]
    BY OneIsSeq
<1> HIDE DEF r
<1>3. /\ p \in [1 .. Len(r) -> 1 .. Len(blocks)]
      /\ \A j \in 1 .. Len(r) : p[j] \in places /\ r[j] = blocks[p[j]]
      /\ \A i, j \in 1 .. Len(r) : i < j => p[i] < p[j]
      /\ \A i \in 1 .. Len(blocks) : i \in places => \E j \in 1 .. Len(r) : p[j] = i
    <2>1. \A j \in 1 .. Len(r) : j = 1 /\ p[j] = k
        BY <1>2
    <2>2. p \in [1 .. Len(r) -> 1 .. Len(blocks)]
        BY <1>2
    <2>3. 1 \in 1 .. Len(r) /\ k \in places
        BY <1>1, <1>2
    <2> HIDE DEF p
    <2> QED BY <1>1, <1>2, <2>1, <2>2, <2>3
<1> HIDE DEF p
<1>4. IsSelection(blocks, places, Len(blocks), r)
    BY <1>3 DEF IsSelection
<1>5. IsSeq(OfType(blocks, type)) /\ IsSelection(blocks, places, Len(blocks), OfType(blocks, type))
    BY TypedBlocks
<1> HIDE DEF places
<1>6. OfType(blocks, type) = r
    BY <1>1, <1>2, <1>4, <1>5, SelectionIsUnique
<1> QED BY <1>6 DEF r

\* The text of a content with one block of it, and of one with none.
LEMMA NoTexts ==
    ASSUME NEW content, OfType(content, "text") = <<>>
    PROVE  TextsOf(content) = <<>>
<1>1. TextsOf(content) = [i \in DOMAIN <<>> |-> <<>>[i].text]
    BY DEF TextsOf
<1>2. DOMAIN <<>> = {}
    OBVIOUS
<1>3. [i \in {} |-> <<>>[i].text] = <<>>
    OBVIOUS
<1> QED BY <1>1, <1>2, <1>3

LEMMA OneText ==
    ASSUME NEW content, NEW b, OfType(content, "text") = <<b>>
    PROVE  TextsOf(content) = <<b.text>>
<1> DEFINE t == <<b>>
<1>1. TextsOf(content) = [i \in DOMAIN t |-> t[i].text]
    BY DEF TextsOf
<1>2. DOMAIN t = 1 .. 1 /\ t[1] = b
    OBVIOUS
<1> HIDE DEF t
<1>3. [i \in DOMAIN t |-> t[i].text] = [i \in 1 .. 1 |-> b.text]
    <2>1. \A i \in 1 .. 1 : i = 1
        OBVIOUS
    <2>2. \A i \in 1 .. 1 : t[i].text = b.text
        BY <1>2, <2>1
    <2> QED BY <1>2, <2>2
<1>4. [i \in 1 .. 1 |-> b.text] = <<b.text>>
    OBVIOUS
<1> QED BY <1>1, <1>3, <1>4

\* Texts that are joined, if there are none and if there is one.
LEMMA NothingJoined == Joined(<<>>) = <<>>
<1> DEFINE s == [i \in DOMAIN <<>> |-> IF i = 1 THEN <<>>[i] ELSE <<NewLine>> \o <<>>[i]]
<1>1. s = <<>>
    <2>1. DOMAIN <<>> = {}
        OBVIOUS
    <2>2. [i \in {} |-> IF i = 1 THEN <<>>[i] ELSE <<NewLine>> \o <<>>[i]] = <<>>
        OBVIOUS
    <2> QED BY <2>1, <2>2
<1>2. Joined(<<>>) = FlattenSeq(s)
    BY DEF Joined
<1> HIDE DEF s
<1>3. FlattenSeq(<<>>) = <<>>
    BY DEF FlattenSeq
<1> QED BY <1>1, <1>2, <1>3

LEMMA OneJoined == ASSUME NEW text PROVE Joined(<<text>>) = text
<1> DEFINE one == <<text>>
           s == [i \in DOMAIN one |-> IF i = 1 THEN one[i] ELSE <<NewLine>> \o one[i]]
           f == CHOOSE g : Flattens(one, Len(one), g)
<1>1. DOMAIN one = 1 .. 1 /\ one[1] = text /\ Len(one) = 1 /\ one = [i \in 1 .. 1 |-> text]
    OBVIOUS
<1>2. Joined(one) = FlattenSeq(s)
    BY DEF Joined
<1> HIDE DEF one
<1>3. s = [i \in 1 .. 1 |-> text]
    <2>1. \A i \in 1 .. 1 : i = 1
        OBVIOUS
    <2> QED BY <1>1, <2>1
<1>4. s = one
    BY <1>1, <1>3
<1>5. FlattenSeq(one) = f[1]
    <2>1. Len(one) # 0
        BY <1>1
    <2>2. FlattenSeq(one) = f[Len(one)]
        BY <2>1, FlatteningIsSolved, Zenon
    <2> HIDE DEF f
    <2> QED BY <1>1, <2>2
<1>6. Flattens(one, 1, f)
    <2>1. 1 \in Nat
        OBVIOUS
    <2>2. \E g : Flattens(one, Len(one), g)
        BY <1>1, <2>1, FlatteningExists, Zenon
    <2> QED BY <1>1, <2>2, Zenon
<1> HIDE DEF f, s
<1>7. f[1] = text
    <2>1. \A i \in 1 .. 1 : f[i] = IF i = 1 THEN one[i] ELSE f[i - 1] \o one[i]
        BY <1>6, Zenon DEF Flattens
    <2> QED BY <1>1, <2>1
<1> QED BY <1>2, <1>4, <1>5, <1>7 DEF one

-----------------------------------------------------------------------------
(* What an answer says is in its content, streamed or whole.               *)

\* The blocks an answer has for its calls, whole or streamed.
WholeUses(calls) == {ToolUse(c.id, c.name, Parsed(c.args)) : c \in calls}
StreamedUses(calls) == {ToolUse(c.id, c.name, Taken(c.args)) : c \in calls}

\* Those it has for a text and for calls.
BlocksFor(text, uses) == (IF text = <<>> THEN {} ELSE {TextBlock(text)}) \cup uses

IsBlock(b) == b.type \in {"text", "tool_use"} /\ (b.type = "tool_use" => b.input \in Values)

\* A content with a text, if it is not empty, and, if they are regular, the calls.
Conveys(content, text, uses, regular) ==
    /\ IsSeq(content) /\ \A b \in Members(content) : IsBlock(b)
    /\ TextsOf(content) = IF text = <<>> THEN <<>> ELSE <<text>>
    /\ regular => Members(content) = BlocksFor(text, uses)

\* What a client has of an answer with these calls.
Means(content, text, calls, regular) ==
    \/ Conveys(content, text, WholeUses(calls), regular)
    \/ Conveys(content, text, StreamedUses(calls), regular)

\* Inputs are values, and come back as they decode.
LEMMA ParsedOnce ==
    ASSUME NEW args
    PROVE  /\ Parsed(args) \in Values /\ Recoded[Parsed(args)] = Parsed(args)
           /\ Taken(args) \in Values
           /\ args \in Values \cup {<<>>} => Recoded[Taken(args)] = Parsed(args)
BY ValuesAssumption, GuessAssumption DEF Parsed, Taken

LEMMA TypesOfBlocks ==
    /\ \A text : TextBlock(text).type = "text" /\ TextBlock(text).text = text
    /\ \A id, name, input : /\ ToolUse(id, name, input).type = "tool_use"
                            /\ ToolUse(id, name, input).id = id
                            /\ ToolUse(id, name, input).name = name
                            /\ ToolUse(id, name, input).input = input
BY DEF TextBlock, ToolUse

\* The blocks a whole answer has for its calls.
LEMMA UsesInOrder ==
    ASSUME NEW calls, IsSeq(calls)
    PROVE  LET uses == [i \in DOMAIN calls |-> ToolUse(calls[i].id, calls[i].name, Parsed(calls[i].args))]
           IN  /\ IsSeq(uses) /\ \A b \in Members(uses) : b.type = "tool_use" /\ IsBlock(b)
               /\ Members(uses) = WholeUses(Members(calls))
<1> DEFINE Use(c) == ToolUse(c.id, c.name, Parsed(c.args))
           uses == [i \in DOMAIN calls |-> Use(calls[i])]
<1>1. Len(calls) \in Nat /\ DOMAIN calls = 1 .. Len(calls)
    BY PlacesIn
<1>2. \A c : Use(c).type = "tool_use" /\ IsBlock(Use(c))
    BY TypesOfBlocks, ParsedOnce DEF IsBlock
<1> HIDE DEF Use
<1>3. /\ DOMAIN uses = DOMAIN calls /\ \A i \in DOMAIN calls : uses[i] = Use(calls[i])
      /\ uses = [i \in 1 .. Len(calls) |-> uses[i]]
    BY <1>1
<1> HIDE DEF uses
<1>4. IsSeq(uses)
    BY <1>1, <1>3, SeqByPlaces
<1>5. Members(uses) = {Use(c) : c \in Members(calls)}
    BY <1>3 DEF Members
<1>6. \A b \in Members(uses) : b.type = "tool_use" /\ IsBlock(b)
    BY <1>2, <1>5
<1> QED BY <1>4, <1>5, <1>6 DEF uses, Use, WholeUses

\* A whole answer says what the upstream said (translateOpenAIResponse).
LEMMA WholeMeans ==
    ASSUME NEW m, IsSeq(m.calls), NEW f
    PROVE  Conveys(TranslateResponse(m, f).content, m.text, WholeUses(Members(m.calls)), TRUE)
<1> DEFINE uses == [i \in DOMAIN m.calls |->
                        ToolUse(m.calls[i].id, m.calls[i].name, Parsed(m.calls[i].args))]
           Uses == WholeUses(Members(m.calls))
           text == TextBlock(m.text)
           content == (IF m.text = <<>> THEN <<>> ELSE <<text>>) \o uses
<1>1. TranslateResponse(m, f).content = content
    BY DEF TranslateResponse
<1>2. /\ IsSeq(uses) /\ \A b \in Members(uses) : b.type = "tool_use" /\ IsBlock(b)
      /\ Members(uses) = Uses
    BY UsesInOrder
<1>3. text.type = "text" /\ text.text = m.text /\ IsBlock(text)
    BY TypesOfBlocks DEF IsBlock
<1>4. BlocksFor(m.text, Uses) = (IF m.text = <<>> THEN {} ELSE {text}) \cup Uses
    BY DEF BlocksFor
<1> HIDE DEF uses, Uses, text
<1>5. CASE m.text = <<>>
    <2>1. content = uses
        BY <1>2, <1>5, Concat, EmptyIsSeq
    <2> HIDE DEF content
    <2>2. TextsOf(content) = <<>>
        BY <1>2, <2>1, NoneOfType, NoTexts
    <2>3. Members(content) = BlocksFor(m.text, Uses)
        BY <1>2, <1>4, <1>5, <2>1
    <2>4. IsSeq(content) /\ \A b \in Members(content) : IsBlock(b)
        BY <1>2, <2>1
    <2>5. TextsOf(content) = IF m.text = <<>> THEN <<>> ELSE <<m.text>>
        BY <1>5, <2>2, Zenon
    <2>6. Conveys(content, m.text, Uses, TRUE)
        BY <2>3, <2>4, <2>5, Zenon DEF Conveys
    <2> QED BY <1>1, <2>6 DEF Uses
<1>6. CASE m.text # <<>>
    <2>1. content = <<text>> \o uses
        BY <1>6
    <2> HIDE DEF content
    <2>2. IsSeq(<<text>>) /\ Members(<<text>>) = {text} /\ Len(<<text>>) = 1 /\ <<text>>[1] = text
        BY OneIsSeq
    <2>3. /\ IsSeq(content) /\ Len(content) = Len(<<text>>) + Len(uses)
          /\ \A i \in 1 .. Len(<<text>>) : content[i] = <<text>>[i]
          /\ \A i \in 1 .. Len(uses) : content[Len(<<text>>) + i] = uses[i]
          /\ Members(content) = Members(<<text>>) \cup Members(uses)
        <3> DEFINE one == <<text>>
        <3>1. IsSeq(one)
            BY <2>2
        <3> HIDE DEF one
        <3>2. /\ IsSeq(one \o uses) /\ Len(one \o uses) = Len(one) + Len(uses)
              /\ \A i \in 1 .. Len(one) : (one \o uses)[i] = one[i]
              /\ \A i \in 1 .. Len(uses) : (one \o uses)[Len(one) + i] = uses[i]
              /\ Members(one \o uses) = Members(one) \cup Members(uses)
            BY <1>2, <3>1, Concat
        <3>3. content = one \o uses
            BY <2>1 DEF one
        <3>4. /\ IsSeq(content) /\ Len(content) = Len(one) + Len(uses)
              /\ \A i \in 1 .. Len(one) : content[i] = one[i]
              /\ \A i \in 1 .. Len(uses) : content[Len(one) + i] = uses[i]
              /\ Members(content) = Members(one) \cup Members(uses)
            BY <3>2, <3>3, Zenon
        <3> QED BY <3>4 DEF one
    <2>4. Len(uses) \in Nat /\ \A i \in 1 .. Len(uses) : uses[i] \in Members(uses)
        BY <1>2, PlacesIn
    <2>5. 1 \in 1 .. Len(content) /\ content[1] = text
        BY <2>2, <2>3, <2>4
    <2>6. \A i \in 1 .. Len(content) : content[i].type = "text" => i = 1
        <3> SUFFICES ASSUME NEW i \in 1 .. Len(content), i # 1 PROVE content[i].type # "text"
            OBVIOUS
        <3>1. i - 1 \in 1 .. Len(uses) /\ 1 + (i - 1) = i
            BY <2>2, <2>3, <2>4
        <3>2. content[i] = uses[i - 1]
            BY <2>2, <2>3, <3>1
        <3>3. content[i].type = "tool_use"
            BY <1>2, <2>4, <3>1, <3>2
        <3> QED BY <3>3
    <2>7. TextsOf(content) = <<m.text>>
        <3>1. OfType(content, "text") = <<text>>
            BY <1>3, <2>3, <2>5, <2>6, OneOfType
        <3> QED BY <1>3, <3>1, OneText
    <2>8. \A b \in Members(content) : IsBlock(b)
        BY <1>2, <1>3, <2>2, <2>3
    <2>9. Members(content) = BlocksFor(m.text, Uses)
        BY <1>2, <1>4, <1>6, <2>2, <2>3
    <2>10. Conveys(content, m.text, Uses, TRUE)
        BY <1>6, <2>3, <2>7, <2>8, <2>9 DEF Conveys
    <2> QED BY <1>1, <2>10 DEF Uses
<1> QED BY <1>5, <1>6

-----------------------------------------------------------------------------
(* What a streamed message says is in what its client has put together.    *)

\* The blocks of the started calls have what was said of them.
AllTold(calls, ts, blocks) ==
    /\ DOMAIN calls = DOMAIN ts
    /\ \A i \in DOMAIN ts :
        /\ ts[i].started => /\ blocks[ts[i].block].type = "tool_use"
                            /\ calls[i].args = blocks[ts[i].block].body
        /\ calls[i].regular => /\ ts[i].started
                               /\ blocks[ts[i].block].id = calls[i].id
                               /\ blocks[ts[i].block].name = calls[i].name

\* At the end of a chunk no arguments are due.
LEMMA AllIsTold ==
    ASSUME NEW calls, NEW ts, NEW blocks, NEW piece, Tells(calls, ts, blocks, {}, piece)
    PROVE  AllTold(calls, ts, blocks)
<1>1. DOMAIN calls = DOMAIN ts
    BY DEF Tells
<1>2. \A i \in DOMAIN ts : TellsCall(calls[i], ts[i], blocks, Told(ts[i], blocks))
    BY Zenon DEF Tells
<1>3. ASSUME NEW i \in DOMAIN ts
      PROVE  /\ ts[i].started => /\ blocks[ts[i].block].type = "tool_use"
                                 /\ calls[i].args = blocks[ts[i].block].body
             /\ calls[i].regular => /\ ts[i].started
                                    /\ blocks[ts[i].block].id = calls[i].id
                                    /\ blocks[ts[i].block].name = calls[i].name
    <2>1. TellsCall(calls[i], ts[i], blocks, Told(ts[i], blocks))
        BY <1>2
    <2> QED BY <2>1, Zenon DEF TellsCall, Told
<1> QED BY <1>1, <1>3, Zenon DEF AllTold

\* The blocks at the end: that of the text, and one of each started call.
LEMMA BlocksAtTheEnd ==
    ASSUME IInv, Follows, at = "done"
    PROVE  /\ DOMAIN view.blocks \subseteq Nat /\ IsFiniteSet(DOMAIN view.blocks)
           /\ DOMAIN said.calls = DOMAIN tools /\ IsFiniteSet(DOMAIN tools)
           /\ \A b \in DOMAIN view.blocks :
                /\ b = textBlock => view.blocks[b].type = "text"
                /\ b # textBlock => view.blocks[b].type = "tool_use"
           /\ \A b \in DOMAIN view.blocks :
                b = textBlock \/ \E i \in DOMAIN tools : tools[i].started /\ tools[i].block = b
           /\ \A i \in DOMAIN tools :
                /\ tools[i].started => /\ tools[i].block \in DOMAIN view.blocks \ {textBlock}
                                       /\ said.calls[i].args = view.blocks[tools[i].block].body
                /\ said.calls[i].regular =>
                    /\ tools[i].started
                    /\ view.blocks[tools[i].block].id = said.calls[i].id
                    /\ view.blocks[tools[i].block].name = said.calls[i].name
           /\ textBlock < 0 => textBlock \notin DOMAIN view.blocks /\ said.text = <<>>
           /\ textBlock >= 0 => /\ textBlock \in DOMAIN view.blocks
                                /\ view.blocks[textBlock].body = said.text /\ said.text # <<>>
           /\ textBlock \in Int
           /\ view.reason = StopReason(said.finish)
<1>1. at = "done" /\ ~InChunk
    BY DEF InChunk
<1>2. Tells(said.calls, tools, view.blocks, {}, "") /\ IsFiniteSet(DOMAIN tools)
    BY <1>1, Zenon DEF Follows, FollowsCalls
<1>3. AllTold(said.calls, tools, view.blocks)
    BY <1>2, AllIsTold, Zenon
<1>4. view.reason = StopReason(said.finish)
    BY <1>1, Zenon DEF Follows, FollowsFinish
<1>5. /\ textBlock < 0 => said.text = <<>>
      /\ textBlock >= 0 => /\ view.blocks[textBlock].type = "text"
                           /\ view.blocks[textBlock].body = said.text /\ said.text # <<>>
    <2>1. at # "text"
        BY <1>1
    <2> QED BY <2>1, Zenon DEF Follows, FollowsText
<1>6. nextBlock \in Nat /\ textBlock \in -1 .. nextBlock - 1 /\ tools \in [DOMAIN tools -> Tool]
    BY DEF IInv, Shape
<1>7. /\ \A i \in DOMAIN tools :
            /\ tools[i].block < nextBlock /\ tools[i].block # textBlock
            /\ tools[i].started <=> tools[i].block \in DOMAIN view.blocks
      /\ \A b \in DOMAIN view.blocks :
            \/ b = textBlock /\ b \in Nat
            \/ \E i \in DOMAIN tools : tools[i].started /\ tools[i].block = b
      /\ textBlock >= 0 => textBlock \in DOMAIN view.blocks
    BY DEF IInv, Owned
<1>8. \A i \in DOMAIN tools : tools[i].block \in Nat
    BY <1>6 DEF Tool
<1>9. DOMAIN view.blocks \subseteq 0 .. nextBlock - 1
    BY <1>6, <1>7, <1>8
<1>10. DOMAIN view.blocks \subseteq Nat /\ IsFiniteSet(DOMAIN view.blocks)
    <2>1. IsFiniteSet(0 .. nextBlock - 1)
        BY <1>6, FS_Interval
    <2>2. IsFiniteSet(DOMAIN view.blocks)
        BY <1>9, <2>1, FS_Subset, Zenon
    <2>3. 0 .. nextBlock - 1 \subseteq Nat
        BY <1>6
    <2> QED BY <1>9, <2>2, <2>3
<1>11. ASSUME NEW b \in DOMAIN view.blocks
       PROVE  /\ b = textBlock => view.blocks[b].type = "text"
              /\ b # textBlock => view.blocks[b].type = "tool_use"
    <2>1. b = textBlock => textBlock >= 0
        BY <1>10
    <2> QED BY <1>3, <1>5, <1>7, <2>1 DEF AllTold
<1>12. textBlock < 0 => textBlock \notin DOMAIN view.blocks
    BY <1>9
<1>13. textBlock \in Int
    BY <1>6
<1> QED BY <1>2, <1>3, <1>4, <1>5, <1>7, <1>10, <1>11, <1>12, <1>13, ZenonT(30) DEF AllTold

\* A streamed answer, once put together, says what the upstream said
\* (translateOpenAIStream).
LEMMA AssembledMeans ==
    ASSUME IInv, Follows, at = "done"
    PROVE  /\ Conveys(Assembled.content, said.text, StreamedUses(CallsSaid), AllRegular)
           /\ Assembled.stop = StopReason(said.finish)
           /\ IsFiniteSet(CallsSaid)
<1> DEFINE D == DOMAIN view.blocks
           indices == InOrder(D)
           Shown(b) == IF b.type = "text" THEN TextBlock(b.body) ELSE ToolUse(b.id, b.name, Taken(b.body))
           content == [n \in DOMAIN indices |-> Shown(view.blocks[indices[n]])]
           Call(i) == [id |-> said.calls[i].id, name |-> said.calls[i].name, args |-> said.calls[i].args]
<1>1. Assembled.content = content /\ Assembled.stop = view.reason
    BY DEF Assembled
<1>2. /\ D \subseteq Nat /\ IsFiniteSet(D)
      /\ DOMAIN said.calls = DOMAIN tools /\ IsFiniteSet(DOMAIN tools)
      /\ \A b \in D : /\ b = textBlock => view.blocks[b].type = "text"
                      /\ b # textBlock => view.blocks[b].type = "tool_use"
      /\ \A b \in D : b = textBlock \/ \E i \in DOMAIN tools : tools[i].started /\ tools[i].block = b
      /\ textBlock < 0 => textBlock \notin D /\ said.text = <<>>
      /\ textBlock >= 0 => /\ textBlock \in D
                           /\ view.blocks[textBlock].body = said.text /\ said.text # <<>>
      /\ textBlock \in Int
      /\ view.reason = StopReason(said.finish)
    BY BlocksAtTheEnd, Zenon
<1>3. \A i \in DOMAIN tools :
        /\ tools[i].started => /\ tools[i].block \in D \ {textBlock}
                               /\ said.calls[i].args = view.blocks[tools[i].block].body
        /\ said.calls[i].regular => /\ tools[i].started
                                    /\ view.blocks[tools[i].block].id = said.calls[i].id
                                    /\ view.blocks[tools[i].block].name = said.calls[i].name
    BY BlocksAtTheEnd, Zenon
<1>4. IsSeq(indices) /\ Distinct(indices) /\ Members(indices) = D
    BY <1>2, MembersInOrder
<1>5. /\ Len(indices) \in Nat /\ DOMAIN indices = 1 .. Len(indices)
      /\ D = {indices[n] : n \in 1 .. Len(indices)}
      /\ \A j, k \in 1 .. Len(indices) : indices[j] = indices[k] => j = k
    <2>1. Len(indices) \in Nat /\ DOMAIN indices = 1 .. Len(indices)
        BY <1>4, PlacesIn
    <2> QED BY <1>4, <2>1 DEF Members, Distinct
<1> HIDE DEF indices
<1>6. /\ IsSeq(content) /\ Len(content) = Len(indices) /\ DOMAIN content = 1 .. Len(indices)
      /\ \A n \in 1 .. Len(indices) : content[n] = Shown(view.blocks[indices[n]])
    <2>1. content = [n \in 1 .. Len(indices) |-> content[n]]
        BY <1>5
    <2> QED BY <1>5, <2>1, SeqByPlaces
<1> HIDE DEF content
<1>7. Members(content) = {Shown(view.blocks[b]) : b \in D}
    <2> HIDE DEF D, Shown
    <2> QED BY <1>5, <1>6 DEF Members
<1>8. \A b \in D : /\ b = textBlock => Shown(view.blocks[b]) = TextBlock(view.blocks[b].body)
                   /\ b # textBlock => Shown(view.blocks[b]) =
                        ToolUse(view.blocks[b].id, view.blocks[b].name, Taken(view.blocks[b].body))
    BY <1>2
<1> HIDE DEF D, Shown
<1>9. \A b \in D : /\ b = textBlock => Shown(view.blocks[b]).type = "text"
                   /\ b # textBlock => /\ Shown(view.blocks[b]).type = "tool_use"
                                       /\ Shown(view.blocks[b]).input \in Values
    <2>1. \A b \in D : Taken(view.blocks[b].body) \in Values
        BY ParsedOnce
    <2> QED BY <1>8, <2>1, TypesOfBlocks
<1>10. \A b \in Members(content) : IsBlock(b)
    BY <1>7, <1>9 DEF IsBlock
<1>11. TextsOf(content) = IF said.text = <<>> THEN <<>> ELSE <<said.text>>
    <2>1. CASE textBlock < 0
        <3>1. \A b \in Members(content) : b.type # "text"
            BY <1>2, <1>7, <1>9, <2>1
        <3>2. TextsOf(content) = <<>>
            BY <1>6, <3>1, NoneOfType, NoTexts
        <3> QED BY <1>2, <2>1, <3>2
    <2>2. CASE textBlock >= 0
        <3>1. PICK k \in 1 .. Len(indices) : indices[k] = textBlock
            BY <1>2, <1>5, <2>2
        <3>2. content[k] = TextBlock(said.text)
            BY <1>2, <1>6, <1>8, <2>2, <3>1
        <3>3. content[k].type = "text" /\ content[k].text = said.text
            BY <3>2, TypesOfBlocks
        <3>4. \A n \in 1 .. Len(content) : content[n].type = "text" => n = k
            <4> SUFFICES ASSUME NEW n \in 1 .. Len(content), n # k PROVE content[n].type # "text"
                OBVIOUS
            <4>1. n \in 1 .. Len(indices) /\ indices[n] # textBlock /\ indices[n] \in D
                BY <1>5, <1>6, <3>1
            <4>2. content[n].type = "tool_use"
                BY <1>6, <1>9, <4>1
            <4> QED BY <4>2
        <3>5. OfType(content, "text") = <<content[k]>>
            BY <1>6, <3>3, <3>4, OneOfType
        <3>6. TextsOf(content) = <<said.text>>
            BY <3>3, <3>5, OneText
        <3> QED BY <1>2, <2>2, <3>6
    <2> QED BY <1>2, <2>1, <2>2
<1>12. IsFiniteSet(CallsSaid) /\ CallsSaid = {Call(i) : i \in DOMAIN tools}
    <2>1. CallsSaid = {Call(i) : i \in DOMAIN tools}
        BY <1>2 DEF CallsSaid
    <2> DEFINE f == [i \in DOMAIN tools |-> Call(i)]
    <2>2. {f[i] : i \in DOMAIN tools} = {Call(i) : i \in DOMAIN tools}
        OBVIOUS
    <2> HIDE DEF f
    <2>3. IsFiniteSet({f[i] : i \in DOMAIN tools})
        BY <1>2, ImageIsFinite
    <2> QED BY <2>1, <2>2, <2>3
<1>13. ASSUME AllRegular PROVE Members(content) = BlocksFor(said.text, StreamedUses(CallsSaid))
    <2> DEFINE Use(c) == ToolUse(c.id, c.name, Taken(c.args))
               Texts == IF said.text = <<>> THEN {} ELSE {TextBlock(said.text)}
    <2>1. ASSUME NEW i \in DOMAIN tools
          PROVE  /\ tools[i].started /\ tools[i].block \in D \ {textBlock}
                 /\ Shown(view.blocks[tools[i].block]) = Use(said.calls[i])
        <3>1. said.calls[i].regular
            BY <1>2, <1>13 DEF AllRegular
        <3>2. /\ tools[i].started /\ tools[i].block \in D \ {textBlock}
              /\ said.calls[i].args = view.blocks[tools[i].block].body
              /\ view.blocks[tools[i].block].id = said.calls[i].id
              /\ view.blocks[tools[i].block].name = said.calls[i].name
            BY <1>3, <3>1
        <3>3. Shown(view.blocks[tools[i].block]) =
                ToolUse(said.calls[i].id, said.calls[i].name, Taken(said.calls[i].args))
            BY <1>8, <3>2
        <3> QED BY <3>2, <3>3
    <2>2. \A i \in DOMAIN tools : Use(Call(i)) = Use(said.calls[i])
        OBVIOUS
    <2>3. \A b \in D : b = textBlock \/ \E i \in DOMAIN tools : tools[i].block = b
        BY <1>2
    <2>4. \A b \in D : b = textBlock => Texts = {Shown(view.blocks[b])}
        <3>1. \A b \in D : b = textBlock => textBlock >= 0
            BY <1>2
        <3> QED BY <1>2, <1>8, <3>1
    <2>5. textBlock \notin D => Texts = {}
        BY <1>2
    <2> HIDE DEF Texts, Use, Call
    <2>6. {Shown(view.blocks[b]) : b \in D} = Texts \cup {Use(said.calls[i]) : i \in DOMAIN tools}
        BY <2>1, <2>3, <2>4, <2>5
    <2>7. {Use(c) : c \in CallsSaid} = {Use(said.calls[i]) : i \in DOMAIN tools}
        BY <1>12, <2>2
    <2>8. BlocksFor(said.text, StreamedUses(CallsSaid)) = Texts \cup {Use(c) : c \in CallsSaid}
        BY DEF BlocksFor, StreamedUses, Texts, Use
    <2> QED BY <1>7, <2>6, <2>7, <2>8
<1>14. Conveys(content, said.text, StreamedUses(CallsSaid), AllRegular)
    BY <1>6, <1>10, <1>11, <1>13, Zenon DEF Conveys
<1> QED BY <1>1, <1>2, <1>12, <1>14, Zenon

\* Regular calls are streamed as they were made.
LEMMA CallsAreStreamed ==
    ASSUME IInv, Follows, at = "done", AllRegular PROVE CallsStreamed = CallsSaid
<1> DEFINE D == DOMAIN view.blocks
           In(b) == [id |-> b.id, name |-> b.name, args |-> b.body]
           Call(i) == [id |-> said.calls[i].id, name |-> said.calls[i].name, args |-> said.calls[i].args]
<1>1. /\ DOMAIN said.calls = DOMAIN tools
      /\ \A b \in D : /\ b = textBlock => view.blocks[b].type = "text"
                      /\ b # textBlock => view.blocks[b].type = "tool_use"
      /\ \A b \in D : b = textBlock \/ \E i \in DOMAIN tools : tools[i].started /\ tools[i].block = b
    BY BlocksAtTheEnd, Zenon
<1>2. \A i \in DOMAIN tools :
        /\ tools[i].started => /\ tools[i].block \in D \ {textBlock}
                               /\ said.calls[i].args = view.blocks[tools[i].block].body
        /\ said.calls[i].regular => /\ tools[i].started
                                    /\ view.blocks[tools[i].block].id = said.calls[i].id
                                    /\ view.blocks[tools[i].block].name = said.calls[i].name
    BY BlocksAtTheEnd, Zenon
<1>3. ASSUME NEW i \in DOMAIN tools
      PROVE  tools[i].block \in D \ {textBlock} /\ In(view.blocks[tools[i].block]) = Call(i)
    <2>1. said.calls[i].regular
        BY <1>1 DEF AllRegular
    <2> QED BY <1>2, <2>1
<1>4. CallsStreamed = {In(view.blocks[b]) : b \in {x \in D : view.blocks[x].type = "tool_use"}}
    BY DEF CallsStreamed
<1>5. {x \in D : view.blocks[x].type = "tool_use"} = {tools[i].block : i \in DOMAIN tools}
    <2> HIDE DEF In, Call
    <2>1. ASSUME NEW x \in D, view.blocks[x].type = "tool_use"
          PROVE  \E i \in DOMAIN tools : x = tools[i].block
        BY <1>1, <2>1
    <2>2. ASSUME NEW i \in DOMAIN tools
          PROVE  tools[i].block \in D /\ view.blocks[tools[i].block].type = "tool_use"
        BY <1>1, <1>3
    <2> HIDE DEF D
    <2> QED BY <2>1, <2>2
<1>6. CallsSaid = {Call(i) : i \in DOMAIN tools}
    BY <1>1 DEF CallsSaid
<1> HIDE DEF D, In, Call
<1> QED BY <1>3, <1>4, <1>5, <1>6

\* The calls of a whole answer have the arguments that their own make.
LEMMA WholeHasUses ==
    ASSUME NEW content, NEW text, NEW calls, Conveys(content, text, WholeUses(calls), TRUE),
           \A c \in calls : c = [id |-> c.id, name |-> c.name, args |-> c.args]
    PROVE  UsesOf(content) = {[c EXCEPT !.args = Parsed(@)] : c \in calls}
<1> DEFINE Use(c) == ToolUse(c.id, c.name, Parsed(c.args))
           Back(c) == [c EXCEPT !.args = Parsed(@)]
           In(b) == [id |-> b.id, name |-> b.name, args |-> b.input]
           Texts == IF text = <<>> THEN {} ELSE {TextBlock(text)}
<1>1. Members(content) = Texts \cup {Use(c) : c \in calls}
    BY DEF Conveys, BlocksFor, WholeUses
<1>2. \A b \in Texts : b.type # "tool_use"
    BY TypesOfBlocks
<1>3. \A c \in calls : Use(c).type = "tool_use"
    BY TypesOfBlocks
<1>4. ASSUME NEW c \in calls PROVE In(Use(c)) = Back(c)
    <2>1. In(Use(c)) = [id |-> c.id, name |-> c.name, args |-> Parsed(c.args)]
        BY TypesOfBlocks
    <2> DEFINE r == [id |-> c.id, name |-> c.name, args |-> c.args]
    <2>2. Back(r) = [id |-> c.id, name |-> c.name, args |-> Parsed(c.args)]
        OBVIOUS
    <2>3. Back(r) = Back(c)
        <3>1. c = r
            OBVIOUS
        <3> HIDE DEF r
        <3> QED BY <3>1
    <2> QED BY <2>1, <2>2, <2>3
<1>5. UsesOf(content) = {In(b) : b \in {x \in Members(content) : x.type = "tool_use"}}
    BY DEF UsesOf, ToSet, Members
<1> HIDE DEF Use, Back, Texts, In
<1>6. {x \in Members(content) : x.type = "tool_use"} = {Use(c) : c \in calls}
    BY <1>1, <1>2, <1>3
<1>7. {In(b) : b \in {Use(c) : c \in calls}} = {Back(c) : c \in calls}
    BY <1>4
<1> QED BY <1>5, <1>6, <1>7 DEF Back

\* A message says the same to its client, streamed or whole.
LEMMA AsUnstreamed == ASSUME IInv, Follows PROVE SameAsUnstreamed
<1> SUFFICES ASSUME view.phase = "stopped" PROVE SameAsUnstreamed
    BY DEF SameAsUnstreamed
<1> DEFINE calls == SetToSeq(CallsSaid)
           m == [text |-> said.text, calls |-> calls]
           whole == TranslateResponse(m, said.finish)
<1>1. at = "done"
    <2>1. NoView.phase = "none"
        BY DEF NoView
    <2>2. at \in {"begin", "scan", "text", "calls", "args", "closing", "closing calls", "stop", "done"}
        BY DEF IInv, Shape
    <2> QED BY <2>1, <2>2 DEF IInv, Phases
<1>2. /\ Conveys(Assembled.content, said.text, StreamedUses(CallsSaid), AllRegular)
      /\ Assembled.stop = StopReason(said.finish)
      /\ IsFiniteSet(CallsSaid)
    BY <1>1, AssembledMeans
<1>3. IsSeq(calls) /\ Members(calls) = CallsSaid
    BY <1>2, InSomeOrder
<1>4. m.text = said.text /\ m.calls = calls
    OBVIOUS
<1>5. whole.stop = StopReason(said.finish)
    BY DEF TranslateResponse
<1> HIDE DEF calls, m
<1>6. Conveys(whole.content, said.text, WholeUses(CallsSaid), TRUE)
    BY <1>3, <1>4, WholeMeans
<1> HIDE DEF whole
<1>7. TextsOf(Assembled.content) = TextsOf(whole.content)
    BY <1>2, <1>6 DEF Conveys
<1>8. \A c \in CallsSaid : c = [id |-> c.id, name |-> c.name, args |-> c.args]
    BY DEF CallsSaid
<1>9. UsesOf(whole.content) = {[c EXCEPT !.args = Parsed(@)] : c \in CallsSaid}
    BY <1>6, <1>8, WholeHasUses
<1>10. AllRegular => CallsStreamed = CallsSaid
    BY <1>1, CallsAreStreamed
<1> QED BY <1>2, <1>5, <1>7, <1>9, <1>10 DEF SameAsUnstreamed, whole, m, calls

-----------------------------------------------------------------------------
(* What a message of the history becomes for the upstream.                 *)

\* The call of a block.
CallIn(b) == [id |-> b.id, name |-> b.name, args |-> Recoded[b.input]]

\* The calls of a content are those of its blocks,
LEMMA CallsIn ==
    ASSUME NEW content, IsSeq(content)
    PROVE  /\ IsSeq(CallsOf(content))
           /\ Members(CallsOf(content)) = {CallIn(b) : b \in {x \in Members(content) : x.type = "tool_use"}}
<1> DEFINE u == OfType(content, "tool_use")
           calls == CallsOf(content)
<1>1. IsSeq(u) /\ Members(u) = {x \in Members(content) : x.type = "tool_use"}
    BY TypedBlocks
<1>2. calls = [i \in DOMAIN u |-> CallIn(u[i])]
    BY DEF CallsOf, CallIn
<1> HIDE DEF calls, u
<1>3. calls = [i \in DOMAIN u |-> calls[i]] /\ \A i \in DOMAIN u : calls[i] = CallIn(u[i])
    BY <1>2
<1>4. IsSeq(calls) /\ Members(calls) = {calls[i] : i \in DOMAIN u}
    BY <1>1, <1>3, Mapped
<1>5. Members(calls) = {CallIn(b) : b \in Members(u)}
    BY <1>3, <1>4 DEF Members
<1> QED BY <1>1, <1>4, <1>5 DEF calls

\* The result of a tool, as it is sent.
ResultIn(b) == [role |-> "tool", text |-> b.text, calls |-> <<>>, answers |-> b.id]

\* and its results are too.
LEMMA ResultsIn ==
    ASSUME NEW content, IsSeq(content)
    PROVE  /\ IsSeq(ResultsOf(content))
           /\ Members(ResultsOf(content)) =
                {ResultIn(b) : b \in {x \in Members(content) : x.type = "tool_result"}}
<1> DEFINE u == OfType(content, "tool_result")
           results == ResultsOf(content)
<1>1. IsSeq(u) /\ Members(u) = {x \in Members(content) : x.type = "tool_result"}
    BY TypedBlocks
<1>2. results = [i \in DOMAIN u |-> ResultIn(u[i])]
    BY DEF ResultsOf, ResultIn
<1> HIDE DEF results, u
<1>3. results = [i \in DOMAIN u |-> results[i]] /\ \A i \in DOMAIN u : results[i] = ResultIn(u[i])
    BY <1>2
<1>4. IsSeq(results) /\ Members(results) = {results[i] : i \in DOMAIN u}
    BY <1>1, <1>3, Mapped
<1>5. Members(results) = {ResultIn(b) : b \in Members(u)}
    BY <1>3, <1>4 DEF Members
<1> QED BY <1>1, <1>4, <1>5 DEF results

\* An answer becomes one message, with all its text and its calls.
LEMMA AnswerTranslates ==
    ASSUME NEW m, m.role = "assistant", NEW text, NEW calls, NEW regular,
           Means(m.content, text, calls, regular)
    PROVE  TranslateMessage(m) = <<Said("assistant", text, CallsOf(m.content))>>
<1>1. /\ IsSeq(m.content) /\ \A b \in Members(m.content) : b.type \in {"text", "tool_use"}
      /\ TextsOf(m.content) = IF text = <<>> THEN <<>> ELSE <<text>>
    BY DEF Means, Conveys, IsBlock
<1>2. ResultsOf(m.content) = <<>>
    <2>1. IsSeq(ResultsOf(m.content)) /\ Members(ResultsOf(m.content)) = {}
        BY <1>1, ResultsIn
    <2> QED BY <2>1, PlacesIn
<1>3. Joined(TextsOf(m.content)) = text
    <2>1. CASE text = <<>>
        BY <1>1, <2>1, NothingJoined
    <2>2. CASE text # <<>>
        BY <1>1, <2>2, OneJoined
    <2> QED BY <2>1, <2>2
<1> DEFINE x == Said("assistant", text, CallsOf(m.content))
<1>4. TranslateMessage(m) = <<x>> \o <<>>
    BY <1>2, <1>3 DEF TranslateMessage
<1> HIDE DEF x
<1>5. <<x>> \o <<>> = <<x>>
    OBVIOUS
<1> QED BY <1>4, <1>5 DEF x

\* All calls of an answer come back with JSON for arguments.
LEMMA ArgumentsAreValues ==
    ASSUME NEW content, NEW text, NEW calls, NEW regular, Means(content, text, calls, regular)
    PROVE  \A d \in Members(CallsOf(content)) : d.args \in Values \ Oversized
<1> SUFFICES ASSUME NEW d \in Members(CallsOf(content)) PROVE d.args \in Values \ Oversized
    OBVIOUS
<1>1. IsSeq(content) /\ \A b \in Members(content) : IsBlock(b)
    BY DEF Means, Conveys
<1>2. PICK b \in Members(content) : b.type = "tool_use" /\ d = CallIn(b)
    BY <1>1, CallsIn
<1>3. b.input \in Values
    BY <1>1, <1>2 DEF IsBlock
<1> QED BY <1>2, <1>3, ValuesAssumption DEF CallIn

\* The blocks of calls come back,
LEMMA UsesComeBack ==
    ASSUME NEW content, NEW text, NEW uses, Conveys(content, text, uses, TRUE),
           \A u \in uses : u.type = "tool_use"
    PROVE  Members(CallsOf(content)) = {CallIn(u) : u \in uses}
<1> DEFINE Texts == IF text = <<>> THEN {} ELSE {TextBlock(text)}
<1>1. IsSeq(content) /\ Members(content) = Texts \cup uses
    BY DEF Conveys, BlocksFor
<1>2. \A b \in Texts : b.type # "tool_use"
    BY TypesOfBlocks
<1>3. Members(CallsOf(content)) = {CallIn(b) : b \in {x \in Members(content) : x.type = "tool_use"}}
    BY <1>1, CallsIn
<1> HIDE DEF Texts
<1>4. {x \in Members(content) : x.type = "tool_use"} = uses
    BY <1>1, <1>2
<1> QED BY <1>3, <1>4

\* and so regular calls do, as their arguments decode.
LEMMA CallsComeBack ==
    ASSUME NEW content, NEW text, NEW calls, Means(content, text, calls, TRUE)
    PROVE  /\ \A d \in Members(CallsOf(content)) : \E c \in calls : SameCall(d, c)
           /\ \A c \in calls : \E d \in Members(CallsOf(content)) : SameCall(d, c)
<1> DEFINE Whole(c) == ToolUse(c.id, c.name, Parsed(c.args))
           Streamed(c) == ToolUse(c.id, c.name, Taken(c.args))
<1>1. \A c : /\ Whole(c).type = "tool_use" /\ SameCall(CallIn(Whole(c)), c)
             /\ Streamed(c).type = "tool_use" /\ SameCall(CallIn(Streamed(c)), c)
    <2> SUFFICES ASSUME NEW c
                 PROVE  /\ Whole(c).type = "tool_use" /\ SameCall(CallIn(Whole(c)), c)
                        /\ Streamed(c).type = "tool_use" /\ SameCall(CallIn(Streamed(c)), c)
        OBVIOUS
    <2>1. /\ CallIn(Whole(c)).id = c.id /\ CallIn(Whole(c)).name = c.name
          /\ CallIn(Whole(c)).args = Recoded[Parsed(c.args)] /\ Whole(c).type = "tool_use"
        BY TypesOfBlocks DEF CallIn
    <2>2. /\ CallIn(Streamed(c)).id = c.id /\ CallIn(Streamed(c)).name = c.name
          /\ CallIn(Streamed(c)).args = Recoded[Taken(c.args)] /\ Streamed(c).type = "tool_use"
        BY TypesOfBlocks DEF CallIn
    <2>3. /\ Recoded[Parsed(c.args)] = Parsed(c.args)
          /\ c.args \in Values \cup {<<>>} => Recoded[Taken(c.args)] = Parsed(c.args)
        BY ParsedOnce
    <2> HIDE DEF Whole, Streamed
    <2> QED BY <2>1, <2>2, <2>3 DEF SameCall
<1>2. WholeUses(calls) = {Whole(c) : c \in calls} /\ StreamedUses(calls) = {Streamed(c) : c \in calls}
    BY DEF WholeUses, StreamedUses
<1> HIDE DEF Whole, Streamed
<1>3. CASE Conveys(content, text, WholeUses(calls), TRUE)
    <2>1. \A u \in WholeUses(calls) : u.type = "tool_use"
        BY <1>1, <1>2
    <2>2. Members(CallsOf(content)) = {CallIn(u) : u \in WholeUses(calls)}
        BY <1>3, <2>1, UsesComeBack
    <2> QED BY <1>1, <1>2, <2>2
<1>4. CASE Conveys(content, text, StreamedUses(calls), TRUE)
    <2>1. \A u \in StreamedUses(calls) : u.type = "tool_use"
        BY <1>1, <1>2
    <2>2. Members(CallsOf(content)) = {CallIn(u) : u \in StreamedUses(calls)}
        BY <1>4, <2>1, UsesComeBack
    <2> QED BY <1>1, <1>2, <2>2
<1> QED BY <1>3, <1>4 DEF Means

\* What a client may reply has the result of each tool called.
LEMMA RepliesContain ==
    ASSUME NEW before, IsSeq(before), NEW r \in Replies(before)
    PROVE  LET Results == {ToolResult(b.id, Outcome) : b \in {x \in Members(before) : x.type = "tool_use"}}
           IN  IsSeq(r) /\ Results \subseteq Members(r) /\ Members(r) \subseteq Results \cup {TextBlock(Prompt)}
<1> DEFINE uses == OfType(before, "tool_use")
           results == [i \in DOMAIN uses |-> ToolResult(uses[i].id, Outcome)]
           prompt == <<TextBlock(Prompt)>>
           Results == {ToolResult(b.id, Outcome) : b \in {x \in Members(before) : x.type = "tool_use"}}
<1>1. IsSeq(uses) /\ Members(uses) = {x \in Members(before) : x.type = "tool_use"}
    BY TypedBlocks
<1>2. IF uses = <<>> THEN r = prompt ELSE r = results \/ r = prompt \o results \/ r = results \o prompt
    BY DEF Replies
<1> HIDE DEF uses
<1>3. IsSeq(results) /\ Members(results) = Results
    <2> DEFINE Result(b) == ToolResult(b.id, Outcome)
    <2>1. results = [i \in DOMAIN uses |-> results[i]] /\ \A i \in DOMAIN uses : results[i] = Result(uses[i])
        OBVIOUS
    <2>2. Results = {Result(b) : b \in Members(uses)}
        BY <1>1
    <2> HIDE DEF results, Results, Result
    <2>3. IsSeq(results) /\ Members(results) = {results[i] : i \in DOMAIN uses}
        BY <1>1, <2>1, Mapped
    <2>4. Members(results) = {Result(b) : b \in Members(uses)}
        BY <2>1, <2>3 DEF Members
    <2> QED BY <2>2, <2>3, <2>4
<1>4. IsSeq(prompt) /\ Members(prompt) = {TextBlock(Prompt)}
    BY OneIsSeq
<1>5. uses = <<>> => Results = {}
    BY <1>1, PlacesIn
<1> HIDE DEF results, prompt, Results
<1>6. /\ IsSeq(prompt \o results) /\ Members(prompt \o results) = Members(prompt) \cup Members(results)
      /\ IsSeq(results \o prompt) /\ Members(results \o prompt) = Members(results) \cup Members(prompt)
    BY <1>3, <1>4, Concat
<1>7. IsSeq(r) /\ Results \subseteq Members(r) /\ Members(r) \subseteq Results \cup {TextBlock(Prompt)}
    BY <1>2, <1>3, <1>4, <1>5, <1>6
<1> QED BY <1>7 DEF Results

\* A reply becomes messages with the results of all tools called, and of no others.
LEMMA ReplyTranslates ==
    ASSUME NEW before, IsSeq(before), NEW m, m.role = "user", m.content \in Replies(before)
    PROVE  LET ms == TranslateMessage(m)
               uses == {x \in Members(before) : x.type = "tool_use"}
           IN  /\ IsSeq(ms)
               /\ \A x \in Members(ms) :
                    /\ x.role \in {"user", "tool"} /\ x.calls = <<>>
                    /\ x.role = "tool" => \E b \in uses : x.answers = b.id
               /\ \A b \in uses : \E x \in Members(ms) : x.answers = b.id
<1> DEFINE content == m.content
           uses == {x \in Members(before) : x.type = "tool_use"}
           Results == {ToolResult(b.id, Outcome) : b \in uses}
           results == ResultsOf(content)
           x == Said("user", Joined(TextsOf(content)), <<>>)
           ms == TranslateMessage(m)
<1>1. IsSeq(content) /\ Results \subseteq Members(content) /\ Members(content) \subseteq Results \cup {TextBlock(Prompt)}
    BY RepliesContain
<1>2. /\ TextBlock(Prompt).type = "text"
      /\ \A b : ToolResult(b.id, Outcome).type = "tool_result" /\ ToolResult(b.id, Outcome).id = b.id
    BY DEF TextBlock, ToolResult
<1>3. CallsOf(content) = <<>>
    <2>1. \A b \in Members(content) : b.type # "tool_use"
        BY <1>1, <1>2
    <2>2. IsSeq(CallsOf(content)) /\ Members(CallsOf(content)) = {}
        BY <1>1, <2>1, CallsIn
    <2> QED BY <2>2, PlacesIn
<1>4. {b \in Members(content) : b.type = "tool_result"} = Results
    BY <1>1, <1>2
<1>5. IsSeq(results) /\ Members(results) = {ResultIn(b) : b \in Results}
    BY <1>1, <1>4, ResultsIn
<1>6. ms = <<x>> \o results \/ ms = results
    BY <1>3 DEF TranslateMessage
<1>7. x.role = "user" /\ x.calls = <<>>
    BY DEF Said
<1>8. \A b : ResultIn(b).role = "tool" /\ ResultIn(b).calls = <<>> /\ ResultIn(b).answers = b.id
    BY DEF ResultIn
<1> HIDE DEF ms, x, results, content
<1>9. IsSeq(<<x>>) /\ Members(<<x>>) = {x}
    BY OneIsSeq
<1>10. IsSeq(<<x>> \o results) /\ Members(<<x>> \o results) = Members(<<x>>) \cup Members(results)
    BY <1>5, <1>9, Concat
<1>11. IsSeq(ms) /\ Members(results) \subseteq Members(ms) /\ Members(ms) \subseteq Members(results) \cup {x}
    BY <1>5, <1>6, <1>9, <1>10
<1>12. \A y \in Members(results) : /\ y.role = "tool" /\ y.calls = <<>>
                                   /\ \E b \in uses : y.answers = b.id
    <2> SUFFICES ASSUME NEW y \in Members(results)
                 PROVE  y.role = "tool" /\ y.calls = <<>> /\ \E b \in uses : y.answers = b.id
        OBVIOUS
    <2>1. PICK b \in uses : y = ResultIn(ToolResult(b.id, Outcome))
        BY <1>5
    <2>2. y.role = "tool" /\ y.calls = <<>> /\ y.answers = b.id
        BY <1>2, <1>8, <2>1
    <2> QED BY <2>2
<1>13. \A b \in uses : \E y \in Members(results) : y.answers = b.id
    <2> SUFFICES ASSUME NEW b \in uses PROVE \E y \in Members(results) : y.answers = b.id
        OBVIOUS
    <2>1. ToolResult(b.id, Outcome) \in Results
        OBVIOUS
    <2>2. ResultIn(ToolResult(b.id, Outcome)) \in Members(results)
        BY <1>5, <2>1
    <2> QED BY <1>2, <1>8, <2>2
<1> HIDE DEF uses
<1>14. /\ \A y \in Members(ms) : /\ y.role \in {"user", "tool"} /\ y.calls = <<>>
                                 /\ y.role = "tool" => \E b \in uses : y.answers = b.id
       /\ \A b \in uses : \E y \in Members(ms) : y.answers = b.id
    BY <1>7, <1>11, <1>12, <1>13
<1> QED BY <1>11, <1>14 DEF ms, uses

-----------------------------------------------------------------------------
(* What becomes of a whole history.                                        *)

\* An answer of the history says what was heard.
AnswerKept(content, h) ==
    /\ Means(content, h.text, h.calls, h.regular)
    /\ \A c \in h.calls : c = [id |-> c.id, name |-> c.name, args |-> c.args]

\* What the client replies to at k.
Before(messages, k) == IF k = 1 THEN <<>> ELSE messages[k - 1].content

\* The client's messages reply to the assistant's, and those say what was heard.
Converses(messages, answers) ==
    /\ TakesTurns(messages)
    /\ (\E S : answers \in Seq(S)) /\ Len(answers) = Len(messages) \div 2
    /\ \A k \in DOMAIN messages :
        /\ k % 2 = 1 => messages[k].content \in Replies(Before(messages, k))
        /\ k % 2 # 1 => AnswerKept(messages[k].content, answers[k \div 2])

\* A conversation goes on with a reply,
LEMMA AskConverses ==
    ASSUME NEW messages, NEW answers, Converses(messages, answers), Len(messages) % 2 # 1,
           NEW r, r \in Replies(IF messages = <<>> THEN <<>> ELSE Last(messages).content)
    PROVE  Converses(Append(messages, [role |-> "user", content |-> r]), answers)
<1> DEFINE m == [role |-> "user", content |-> r]
           t == Append(messages, m)
           n == Len(messages)
<1>0. \E S : messages \in Seq(S)
    BY DEF Converses, TakesTurns
<1>1. TakesTurns(messages)
    BY DEF Converses
<1>2. m.content = r /\ m.role = "user"
    OBVIOUS
<1> HIDE DEF m
<1>3. /\ Len(t) = n + 1 /\ n \in Nat /\ DOMAIN t = 1 .. n + 1 /\ DOMAIN messages = 1 .. n
      /\ t[n + 1] = m /\ \A k \in DOMAIN messages : t[k] = messages[k]
    BY <1>0, Appended, ZenonT(30)
<1>4. (n + 1) % 2 = 1 /\ (n + 1) \div 2 = n \div 2
    BY <1>3, HalfOfEven
<1>5. TakesTurns(t)
    <2>1. m.role = RoleAt(n + 1)
        BY <1>2, <1>4 DEF RoleAt
    <2> QED BY <1>1, <2>1, NextTurn
<1>6. Before(t, n + 1) = IF messages = <<>> THEN <<>> ELSE Last(messages).content
    <2>1. CASE messages = <<>>
        <3>1. n = 0
            BY <2>1
        <3> QED BY <2>1, <3>1 DEF Before
    <2>2. CASE messages # <<>>
        <3>1. n # 0
            BY <1>0, <2>2
        <3>2. n \in DOMAIN messages /\ n + 1 # 1 /\ (n + 1) - 1 = n
            BY <1>3, <3>1
        <3> HIDE DEF t
        <3> QED BY <1>3, <2>2, <3>2 DEF Before, Last
    <2> QED BY <2>1, <2>2
<1> HIDE DEF t
<1>7. ASSUME NEW k \in 1 .. n PROVE Before(t, k) = Before(messages, k)
    <2>1. k # 1 => k - 1 \in DOMAIN messages
        BY <1>3
    <2> QED BY <1>3, <2>1 DEF Before
<1>8. ASSUME NEW k \in DOMAIN t
      PROVE  /\ k % 2 = 1 => t[k].content \in Replies(Before(t, k))
             /\ k % 2 # 1 => AnswerKept(t[k].content, answers[k \div 2])
    <2>1. CASE k = n + 1
        BY <1>2, <1>3, <1>4, <1>6, <2>1
    <2>2. CASE k \in 1 .. n
        BY <1>3, <1>7, <2>2 DEF Converses
    <2> QED BY <1>3, <2>1, <2>2
<1> QED BY <1>3, <1>4, <1>5, <1>8 DEF Converses, t, m

\* and with an answer.
LEMMA AnswerConverses ==
    ASSUME NEW messages, NEW answers, Converses(messages, answers), Len(messages) % 2 = 1,
           NEW content, NEW h, AnswerKept(content, h)
    PROVE  Converses(Append(messages, Assistant(content)), Append(answers, h))
<1> DEFINE m == Assistant(content)
           t == Append(messages, m)
           a == Append(answers, h)
           n == Len(messages)
<1>1. /\ (\E S : messages \in Seq(S)) /\ TakesTurns(messages)
      /\ (\E S : answers \in Seq(S)) /\ Len(answers) = n \div 2
    BY DEF Converses, TakesTurns
<1>2. /\ Len(t) = n + 1 /\ n \in Nat /\ DOMAIN t = 1 .. n + 1 /\ DOMAIN messages = 1 .. n
      /\ t[n + 1] = m /\ \A k \in DOMAIN messages : t[k] = messages[k]
    BY <1>1, Appended, ZenonT(30)
<1>3. /\ \E S : a \in Seq(S)
      /\ Len(a) = Len(answers) + 1 /\ DOMAIN answers = 1 .. Len(answers)
      /\ a[Len(answers) + 1] = h /\ \A k \in DOMAIN answers : a[k] = answers[k]
    BY <1>1, Appended, ZenonT(30)
<1>4. (n + 1) % 2 # 1 /\ (n + 1) \div 2 = (n \div 2) + 1
    BY <1>2, HalfOfOdd
<1>5. m.role = "assistant" /\ m.content = content
    BY DEF Assistant
<1> HIDE DEF m
<1>6. TakesTurns(t)
    <2>1. m.role = RoleAt(n + 1)
        BY <1>4, <1>5 DEF RoleAt
    <2> QED BY <1>1, <2>1, NextTurn
<1> HIDE DEF t, a
<1>7. ASSUME NEW k \in 1 .. n PROVE Before(t, k) = Before(messages, k)
    <2>1. k # 1 => k - 1 \in DOMAIN messages
        BY <1>2
    <2> QED BY <1>2, <2>1 DEF Before
<1>8. ASSUME NEW k \in DOMAIN t
      PROVE  /\ k % 2 = 1 => t[k].content \in Replies(Before(t, k))
             /\ k % 2 # 1 => AnswerKept(t[k].content, a[k \div 2])
    <2>1. CASE k = n + 1
        <3>1. k \div 2 = Len(answers) + 1 /\ k % 2 # 1
            BY <1>1, <1>4, <2>1
        <3> QED BY <1>2, <1>3, <1>5, <2>1, <3>1
    <2>2. CASE k \in 1 .. n
        <3>1. k % 2 # 1 => k \div 2 \in 1 .. n \div 2
            BY <1>2, <2>2
        <3>2. k % 2 # 1 => a[k \div 2] = answers[k \div 2]
            BY <1>1, <1>3, <3>1
        <3> QED BY <1>2, <1>7, <2>2, <3>2 DEF Converses
    <2> QED BY <1>2, <2>1, <2>2
<1>9. Len(a) = Len(t) \div 2
    BY <1>1, <1>2, <1>3, <1>4
<1> QED BY <1>3, <1>6, <1>8, <1>9 DEF Converses, t, a, m

\* How the messages sent, s, come from those of the history: which of them make
\* what is sent where.
Sends(messages, ss, off, s) ==
    /\ IsSeq(ss) /\ Len(ss) = Len(messages) /\ \A i \in 1 .. Len(ss) : IsSeq(ss[i])
    /\ \A i \in 1 .. Len(ss) : ss[i] = TranslateMessage(messages[i])
    /\ Offsets(ss, off) /\ IsSeq(s) /\ Flat(ss, off, Len(ss), s)

\* A message of the assistant is sent as one, with its text and calls.
AnswerSent(content, h, ms) ==
    /\ ms = <<Said("assistant", h.text, CallsOf(content))>>
    /\ AnswerKept(content, h)

\* What the client replies is sent as results of the calls it answers, and its own text.
ReplySent(before, ms) ==
    LET uses == {x \in Members(before) : x.type = "tool_use"}
    IN  /\ \A x \in Members(ms) :
            /\ x.role \in {"user", "tool"} /\ x.calls = <<>>
            /\ x.role = "tool" => \E b \in uses : x.answers = b.id
        /\ \A b \in uses : \E x \in Members(ms) : x.answers = b.id

\* The messages of a conversation, each by what it becomes.
LEMMA MessagesTranslate ==
    ASSUME NEW messages, NEW answers, Converses(messages, answers), NEW k \in DOMAIN messages
    PROVE  /\ IsSeq(TranslateMessage(messages[k]))
           /\ k % 2 = 1 => ReplySent(Before(messages, k), TranslateMessage(messages[k]))
           /\ k % 2 # 1 => AnswerSent(messages[k].content, answers[k \div 2], TranslateMessage(messages[k]))
<1>1. /\ DOMAIN messages = 1 .. Len(messages) /\ Len(messages) \in Nat
      /\ \A i \in DOMAIN messages : messages[i].role = RoleAt(i)
    BY DEF Converses, TakesTurns
<1>2. ASSUME NEW i \in DOMAIN messages, i % 2 # 1
      PROVE  /\ AnswerKept(messages[i].content, answers[i \div 2])
             /\ messages[i].role = "assistant" /\ IsSeq(messages[i].content)
    <2>1. AnswerKept(messages[i].content, answers[i \div 2]) /\ messages[i].role = "assistant"
        BY <1>1, <1>2 DEF Converses, RoleAt
    <2> QED BY <2>1 DEF AnswerKept, Means, Conveys
<1>3. CASE k % 2 # 1
    <2> DEFINE h == answers[k \div 2]
    <2>1. AnswerKept(messages[k].content, h) /\ messages[k].role = "assistant"
        BY <1>2, <1>3
    <2> HIDE DEF h
    <2>2. TranslateMessage(messages[k]) = <<Said("assistant", h.text, CallsOf(messages[k].content))>>
        BY <2>1, AnswerTranslates DEF AnswerKept
    <2>3. IsSeq(TranslateMessage(messages[k]))
        BY <2>2, OneIsSeq
    <2>4. AnswerSent(messages[k].content, h, TranslateMessage(messages[k]))
        BY <2>1, <2>2, Zenon DEF AnswerSent
    <2> QED BY <1>3, <2>3, <2>4 DEF h
<1>4. CASE k % 2 = 1
    <2>1. messages[k].role = "user" /\ messages[k].content \in Replies(Before(messages, k))
        BY <1>1, <1>4 DEF Converses, RoleAt
    <2>2. IsSeq(Before(messages, k))
        <3>1. CASE k = 1
            BY <3>1, EmptyIsSeq DEF Before
        <3>2. CASE k # 1
            <4>1. k - 1 \in DOMAIN messages /\ (k - 1) % 2 # 1
                BY <1>1, <1>4, <3>2
            <4> QED BY <1>2, <3>2, <4>1 DEF Before
        <3> QED BY <3>1, <3>2
    <2>3. IsSeq(TranslateMessage(messages[k])) /\ ReplySent(Before(messages, k), TranslateMessage(messages[k]))
        BY <2>1, <2>2, ReplyTranslates DEF ReplySent
    <2> QED BY <1>4, <2>3
<1> QED BY <1>3, <1>4

-----------------------------------------------------------------------------
(* What is sent of such a history.                                         *)

\* The client has asked, and what is sent is its history.
Asked ==
    /\ Converses(history, heard) /\ Len(history) % 2 = 1
    /\ sent = TranslateRequest(<<>>, history)

\* What is sent is made of one part for each message of the history.
LEMMA PartsExist ==
    ASSUME Asked
    PROVE  \E ss, off : Sends(history, ss, off, sent)
<1> DEFINE ss == [i \in DOMAIN history |-> TranslateMessage(history[i])]
<1>1. DOMAIN history = 1 .. Len(history) /\ Len(history) \in Nat
    BY DEF Asked, Converses, TakesTurns
<1>2. /\ ss = [i \in 1 .. Len(history) |-> ss[i]]
      /\ \A i \in 1 .. Len(history) : ss[i] = TranslateMessage(history[i])
    BY <1>1
<1>3. \A i \in 1 .. Len(history) : IsSeq(TranslateMessage(history[i]))
    BY <1>1, MessagesTranslate DEF Asked
<1>4. sent = <<>> \o FlattenSeq(ss)
    BY DEF Asked, TranslateRequest
<1> HIDE DEF ss
<1>5. IsSeq(ss) /\ Len(ss) = Len(history)
    BY <1>1, <1>2, SeqByPlaces
<1>6. \A i \in 1 .. Len(ss) : IsSeq(ss[i])
    BY <1>2, <1>3, <1>5
<1>7. IsSeq(FlattenSeq(ss)) /\ \E off : Offsets(ss, off) /\ Flat(ss, off, Len(ss), FlattenSeq(ss))
    BY <1>5, <1>6, Flattened
<1>8. sent = FlattenSeq(ss)
    BY <1>4, <1>7, EmptyIsSeq, Concat
<1>9. PICK off : Offsets(ss, off) /\ Flat(ss, off, Len(ss), FlattenSeq(ss))
    BY <1>7
<1>10. Sends(history, ss, off, sent)
    BY <1>2, <1>5, <1>6, <1>7, <1>8, <1>9 DEF Sends
<1> QED BY <1>10

LEMMA SaidParts ==
    ASSUME NEW role, NEW text, NEW calls
    PROVE  /\ Said(role, text, calls).role = role /\ Said(role, text, calls).text = text
           /\ Said(role, text, calls).calls = calls
BY DEF Said

\* Where the parts are.
PartsPlaced(ss, off) ==
    /\ Len(ss) = Len(history) /\ Len(ss) \in Nat /\ DOMAIN sent = 1 .. off[Len(ss)]
    /\ \A i \in 0 .. Len(ss) : off[i] \in Nat
    /\ \A i \in 1 .. Len(ss) : \A n \in 1 .. Len(ss[i]) :
         off[i - 1] + n \in DOMAIN sent /\ sent[off[i - 1] + n] = ss[i][n]
    /\ \A k \in DOMAIN sent : \E i \in 1 .. Len(ss) : \E n \in 1 .. Len(ss[i]) : k = off[i - 1] + n
    /\ \A i \in 1 .. Len(ss) : off[i] = off[i - 1] + Len(ss[i])
    /\ \A i \in 1 .. Len(ss) : Len(ss[i]) \in Nat

LEMMA PlacesOfParts ==
    ASSUME Asked, NEW ss, NEW off, Sends(history, ss, off, sent)
    PROVE  PartsPlaced(ss, off)
<1>1. /\ IsSeq(ss) /\ Len(ss) = Len(history) /\ \A i \in 1 .. Len(ss) : IsSeq(ss[i])
      /\ Offsets(ss, off) /\ IsSeq(sent) /\ Flat(ss, off, Len(ss), sent)
    BY DEF Sends
<1>2. Len(ss) \in Nat /\ DOMAIN sent = 1 .. Len(sent)
    BY <1>1, PlacesIn
<1>3. \A i \in 1 .. Len(ss) : Len(ss[i]) \in Nat
    BY <1>1, PlacesIn
<1>4. /\ Len(sent) = off[Len(ss)]
      /\ \A i \in 1 .. Len(ss) : \A n \in 1 .. Len(ss[i]) :
            off[i - 1] + n \in 1 .. off[Len(ss)] /\ sent[off[i - 1] + n] = ss[i][n]
      /\ \A k \in 1 .. off[Len(ss)] :
            \E i \in 1 .. Len(ss) : \E n \in 1 .. Len(ss[i]) : k = off[i - 1] + n
    BY <1>1, Zenon DEF Flat
<1>5. /\ \A i \in 0 .. Len(ss) : off[i] \in Nat
      /\ \A i \in 1 .. Len(ss) : off[i] = off[i - 1] + Len(ss[i])
    BY <1>1 DEF Offsets
<1>6. DOMAIN sent = 1 .. off[Len(ss)]
    BY <1>2, <1>4, Zenon
<1> QED BY <1>1, <1>2, <1>3, <1>4, <1>5, <1>6 DEF PartsPlaced

\* A message of the assistant is where its part ends.
AnswerPlaced(ss, off, i) ==
    /\ Len(ss[i]) = 1 /\ off[i] = off[i - 1] + 1 /\ off[i] \in DOMAIN sent
    /\ sent[off[i]] = Said("assistant", heard[i \div 2].text, CallsOf(history[i].content))
    /\ AnswerKept(history[i].content, heard[i \div 2])

LEMMA AnswerPlaces ==
    ASSUME Asked, NEW ss, NEW off, Sends(history, ss, off, sent),
           NEW i \in 1 .. Len(ss), i % 2 # 1
    PROVE  AnswerPlaced(ss, off, i)
<1> DEFINE x == Said("assistant", heard[i \div 2].text, CallsOf(history[i].content))
<1>1. i \in DOMAIN history /\ ss[i] = TranslateMessage(history[i])
    <2>1. DOMAIN history = 1 .. Len(history)
        BY DEF Asked, Converses, TakesTurns
    <2> QED BY <2>1 DEF Sends
<1>2. AnswerSent(history[i].content, heard[i \div 2], ss[i])
    BY <1>1, MessagesTranslate DEF Asked
<1>3. ss[i] = <<x>> /\ AnswerKept(history[i].content, heard[i \div 2])
    BY <1>2 DEF AnswerSent
<1> HIDE DEF x
<1>4. Len(ss[i]) = 1 /\ ss[i][1] = x
    BY <1>3, OneIsSeq
<1>5. /\ off[i - 1] + 1 \in DOMAIN sent /\ sent[off[i - 1] + 1] = ss[i][1]
      /\ off[i] = off[i - 1] + Len(ss[i])
    <2>1. /\ \A n \in 1 .. Len(ss[i]) : off[i - 1] + n \in DOMAIN sent /\ sent[off[i - 1] + n] = ss[i][n]
          /\ off[i] = off[i - 1] + Len(ss[i])
        <3>1. PartsPlaced(ss, off)
            BY PlacesOfParts
        <3> QED BY <3>1 DEF PartsPlaced
    <2>2. 1 \in 1 .. Len(ss[i])
        BY <1>4
    <2> QED BY <2>1, <2>2
<1>6. off[i] = off[i - 1] + 1
    BY <1>4, <1>5
<1> QED BY <1>3, <1>4, <1>5, <1>6 DEF x, AnswerPlaced

\* What the client replies is not the assistant's.
ReplyPlaced(ss, off, i) ==
    LET uses == {x \in Members(Before(history, i)) : x.type = "tool_use"}
    IN  /\ \A n \in 1 .. Len(ss[i]) :
            LET x == sent[off[i - 1] + n]
            IN  /\ x.role \in {"user", "tool"} /\ x.calls = <<>>
                /\ x.role = "tool" => \E b \in uses : x.answers = b.id
        /\ \A b \in uses : \E n \in 1 .. Len(ss[i]) : sent[off[i - 1] + n].answers = b.id

LEMMA ReplyPlaces ==
    ASSUME Asked, NEW ss, NEW off, Sends(history, ss, off, sent),
           NEW i \in 1 .. Len(ss), i % 2 = 1
    PROVE  ReplyPlaced(ss, off, i)
<1> DEFINE uses == {x \in Members(Before(history, i)) : x.type = "tool_use"}
<1>1. i \in DOMAIN history /\ ss[i] = TranslateMessage(history[i]) /\ IsSeq(ss[i])
    <2>1. DOMAIN history = 1 .. Len(history)
        BY DEF Asked, Converses, TakesTurns
    <2> QED BY <2>1 DEF Sends
<1>2. ReplySent(Before(history, i), ss[i])
    BY <1>1, MessagesTranslate DEF Asked
<1>3. /\ \A x \in Members(ss[i]) :
            /\ x.role \in {"user", "tool"} /\ x.calls = <<>>
            /\ x.role = "tool" => \E b \in uses : x.answers = b.id
      /\ \A b \in uses : \E x \in Members(ss[i]) : x.answers = b.id
    BY <1>2 DEF ReplySent
<1> HIDE DEF uses
<1>4. Members(ss[i]) = {ss[i][n] : n \in 1 .. Len(ss[i])}
    BY <1>1, PlacesIn
<1>5. \A n \in 1 .. Len(ss[i]) : sent[off[i - 1] + n] = ss[i][n]
    <2>1. PartsPlaced(ss, off)
        BY PlacesOfParts
    <2> QED BY <2>1 DEF PartsPlaced
<1>6. ASSUME NEW n \in 1 .. Len(ss[i])
      PROVE  LET x == sent[off[i - 1] + n]
             IN  /\ x.role \in {"user", "tool"} /\ x.calls = <<>>
                 /\ x.role = "tool" => \E b \in uses : x.answers = b.id
    <2>1. ss[i][n] \in Members(ss[i]) /\ sent[off[i - 1] + n] = ss[i][n]
        BY <1>4, <1>5
    <2> QED BY <1>3, <2>1
<1>7. ASSUME NEW b \in uses PROVE \E n \in 1 .. Len(ss[i]) : sent[off[i - 1] + n].answers = b.id
    <2>1. PICK x \in Members(ss[i]) : x.answers = b.id
        BY <1>3
    <2>2. PICK n \in 1 .. Len(ss[i]) : x = ss[i][n]
        BY <1>4
    <2>3. sent[off[i - 1] + n].answers = b.id
        BY <1>5, <2>1, <2>2
    <2> QED BY <2>3
<1> QED BY <1>6, <1>7 DEF uses, ReplyPlaced

\* What the client replies comes right after the assistant's message.
LEMMA RepliesFollow ==
    ASSUME Asked, NEW ss, NEW off, Sends(history, ss, off, sent),
           NEW i \in 1 .. Len(ss), i % 2 # 1, NEW n \in 1 .. Len(ss[i + 1]), i + 1 <= Len(ss)
    PROVE  LastSaid(off[i], off[i] + n) /\ off[i] \in DOMAIN sent /\ off[i] + n \in DOMAIN sent
<1>0. PartsPlaced(ss, off) /\ AnswerPlaced(ss, off, i)
    BY PlacesOfParts, AnswerPlaces
<1>1. Len(ss) \in Nat
    BY <1>0 DEF PartsPlaced
<1>2. i + 1 \in 1 .. Len(ss) /\ (i + 1) - 1 = i /\ (i + 1) % 2 = 1
    BY <1>1
<1>3. Len(ss[i + 1]) \in Nat /\ off[i] \in Nat
    <2>1. i \in 0 .. Len(ss)
        BY <1>1
    <2> QED BY <1>0, <1>2, <2>1 DEF PartsPlaced
<1>4. off[i] \in DOMAIN sent /\ sent[off[i]].role = "assistant"
    BY <1>0, SaidParts DEF AnswerPlaced
<1>5. \A p \in 1 .. Len(ss[i + 1]) : off[i] + p \in DOMAIN sent /\ sent[off[i] + p].role # "assistant"
    <2> DEFINE h == i + 1
    <2>1. h \in 1 .. Len(ss) /\ h % 2 = 1 /\ h - 1 = i
        BY <1>2
    <2> HIDE DEF h
    <2>2. ReplyPlaced(ss, off, h)
        BY <2>1, ReplyPlaces
    <2>3. \A p \in 1 .. Len(ss[h]) : sent[off[i] + p].role \in {"user", "tool"}
        BY <2>1, <2>2 DEF ReplyPlaced
    <2>4. \A p \in 1 .. Len(ss[h]) : off[i] + p \in DOMAIN sent
        BY <1>0, <2>1 DEF PartsPlaced
    <2> QED BY <2>3, <2>4 DEF h
<1>6. ASSUME NEW x \in off[i] + 1 .. (off[i] + n) - 1 PROVE sent[x].role # "assistant"
    <2> DEFINE o == off[i]
               l == Len(ss[i + 1])
    <2>1. o \in Nat /\ l \in Nat /\ n \in 1 .. l /\ x \in o + 1 .. (o + n) - 1
        BY <1>3
    <2>2. \A p \in 1 .. l : sent[o + p].role # "assistant"
        BY <1>5
    <2> HIDE DEF o, l
    <2>3. x - o \in 1 .. l /\ o + (x - o) = x
        BY <2>1
    <2> QED BY <2>2, <2>3
<1>7. off[i] < off[i] + n
    BY <1>3
<1>8. LastSaid(off[i], off[i] + n)
    BY <1>4, <1>6, <1>7, Zenon DEF LastSaid
<1> QED BY <1>4, <1>5, <1>8

-----------------------------------------------------------------------------
(* Calls, results and answers in it.                                       *)

\* Each result that is sent is of a call of the message before it.
LEMMA ResultsHaveCalls ==
    ASSUME Asked, NEW ss, NEW off, Sends(history, ss, off, sent),
           NEW k \in DOMAIN sent, sent[k].role = "tool"
    PROVE  \E j \in DOMAIN sent : LastSaid(j, k) /\ \E c \in ToSet(sent[j].calls) : c.id = sent[k].answers
<1>0. PartsPlaced(ss, off)
    BY PlacesOfParts
<1>1. PICK i \in 1 .. Len(ss) : \E n \in 1 .. Len(ss[i]) : k = off[i - 1] + n
    BY <1>0 DEF PartsPlaced
<1>2. PICK n \in 1 .. Len(ss[i]) : k = off[i - 1] + n
    BY <1>1
<1>3. Len(ss) \in Nat
    BY <1>0 DEF PartsPlaced
<1>4. i % 2 = 1
    <2> SUFFICES ASSUME i % 2 # 1 PROVE FALSE
        OBVIOUS
    <2>1. Len(ss[i]) = 1 /\ off[i] = off[i - 1] + 1 /\ sent[off[i]].role = "assistant"
        <3>1. AnswerPlaced(ss, off, i)
            BY AnswerPlaces
        <3> QED BY <3>1, SaidParts DEF AnswerPlaced
    <2>2. n = 1
        BY <2>1
    <2>3. k = off[i]
        BY <1>2, <2>1, <2>2
    <2> QED BY <2>1, <2>3
<1>5. PICK b \in {x \in Members(Before(history, i)) : x.type = "tool_use"} : sent[k].answers = b.id
    <2>1. ReplyPlaced(ss, off, i)
        BY <1>4, ReplyPlaces
    <2> QED BY <1>2, <2>1 DEF ReplyPlaced
<1>6. i # 1
    <2> SUFFICES ASSUME i = 1 PROVE FALSE
        OBVIOUS
    <2>1. Before(history, i) = <<>>
        BY DEF Before
    <2> QED BY <1>5, <2>1, EmptyIsSeq
<1>7. PICK h \in 1 .. Len(ss) : i = h + 1 /\ h % 2 # 1 /\ h = i - 1
    <2>1. i \in Nat /\ i - 1 \in 1 .. Len(ss) /\ i = (i - 1) + 1
        BY <1>3, <1>6
    <2>2. (i - 1) % 2 # 1
        BY <1>4, <2>1
    <2> QED BY <2>1, <2>2
<1>8. Before(history, i) = history[h].content
    BY <1>6, <1>7 DEF Before
<1>9. /\ sent[off[h]] = Said("assistant", heard[h \div 2].text, CallsOf(history[h].content))
      /\ AnswerKept(history[h].content, heard[h \div 2])
    <2>1. AnswerPlaced(ss, off, h)
        BY <1>7, AnswerPlaces
    <2> QED BY <2>1 DEF AnswerPlaced
<1>10. sent[off[h]].calls = CallsOf(history[h].content) /\ IsSeq(history[h].content)
    BY <1>9, SaidParts DEF AnswerKept, Means, Conveys
<1>11. CallIn(b) \in ToSet(sent[off[h]].calls) /\ CallIn(b).id = sent[k].answers
    <2>1. b \in {x \in Members(history[h].content) : x.type = "tool_use"}
        BY <1>5, <1>8
    <2>2. CallIn(b) \in Members(CallsOf(history[h].content))
        BY <1>10, <2>1, CallsIn
    <2>3. CallIn(b).id = b.id
        BY DEF CallIn
    <2> QED BY <1>5, <1>10, <2>2, <2>3 DEF ToSet, Members
<1>12. LastSaid(off[h], k) /\ off[h] \in DOMAIN sent
    <2>1. h + 1 <= Len(ss) /\ n \in 1 .. Len(ss[h + 1]) /\ k = off[h] + n
        BY <1>2, <1>3, <1>7
    <2> QED BY <1>7, <2>1, RepliesFollow
<1> QED BY <1>11, <1>12

\* Each call that is sent has its result before the next message of the assistant.
LEMMA CallsHaveResults ==
    ASSUME Asked, NEW ss, NEW off, Sends(history, ss, off, sent),
           NEW j \in DOMAIN sent, NEW c \in ToSet(sent[j].calls)
    PROVE  \E k \in DOMAIN sent : LastSaid(j, k) /\ sent[k].answers = c.id
<1>0. PartsPlaced(ss, off)
    BY PlacesOfParts
<1>1. PICK i \in 1 .. Len(ss) : \E n \in 1 .. Len(ss[i]) : j = off[i - 1] + n
    BY <1>0 DEF PartsPlaced
<1>2. PICK n \in 1 .. Len(ss[i]) : j = off[i - 1] + n
    BY <1>1
<1>3. Len(ss) \in Nat /\ Len(ss) % 2 = 1
    <2>1. Len(ss) = Len(history) /\ Len(ss) \in Nat
        BY <1>0 DEF PartsPlaced
    <2>2. Len(history) % 2 = 1
        BY DEF Asked
    <2> QED BY <2>1, <2>2
<1>4. i % 2 # 1
    <2> SUFFICES ASSUME i % 2 = 1 PROVE FALSE
        OBVIOUS
    <2>1. sent[j].calls = <<>>
        <3>1. ReplyPlaced(ss, off, i)
            BY ReplyPlaces
        <3> QED BY <1>2, <3>1 DEF ReplyPlaced
    <2> QED BY <2>1 DEF ToSet
<1>5. /\ Len(ss[i]) = 1 /\ off[i] = off[i - 1] + 1
      /\ sent[off[i]] = Said("assistant", heard[i \div 2].text, CallsOf(history[i].content))
      /\ AnswerKept(history[i].content, heard[i \div 2])
    <2>1. AnswerPlaced(ss, off, i)
        BY <1>4, AnswerPlaces
    <2> QED BY <2>1 DEF AnswerPlaced
<1>6. j = off[i]
    <2>1. n = 1
        BY <1>5
    <2> QED BY <1>2, <1>5, <2>1
<1>7. sent[j].calls = CallsOf(history[i].content) /\ IsSeq(history[i].content)
    BY <1>5, <1>6, SaidParts DEF AnswerKept, Means, Conveys
<1>8. c \in Members(CallsOf(history[i].content))
    BY <1>7 DEF ToSet, Members
<1>9. PICK b \in {x \in Members(history[i].content) : x.type = "tool_use"} : c = CallIn(b)
    BY <1>7, <1>8, CallsIn
<1>10. c.id = b.id
    BY <1>9 DEF CallIn
<1>11. i + 1 \in 1 .. Len(ss) /\ (i + 1) - 1 = i /\ (i + 1) % 2 = 1
    BY <1>3, <1>4
<1>12. Before(history, i + 1) = history[i].content
    BY <1>11 DEF Before
<1>13. PICK p \in 1 .. Len(ss[i + 1]) : sent[off[i] + p].answers = b.id
    <2> DEFINE h == i + 1
    <2>1. h \in 1 .. Len(ss) /\ h % 2 = 1 /\ h - 1 = i /\ Before(history, h) = history[i].content
        BY <1>11, <1>12
    <2> HIDE DEF h
    <2>2. ReplyPlaced(ss, off, h)
        BY <2>1, ReplyPlaces
    <2>3. \E p \in 1 .. Len(ss[h]) : sent[off[i] + p].answers = b.id
        BY <1>9, <2>1, <2>2 DEF ReplyPlaced
    <2> QED BY <2>3 DEF h
<1>14. LastSaid(off[i], off[i] + p) /\ off[i] + p \in DOMAIN sent
    BY <1>4, <1>11, RepliesFollow
<1> QED BY <1>6, <1>10, <1>13, <1>14

\* So results and calls answer each other in what is sent.
LEMMA AskedAnswers == Asked => ResultsAnswerCalls
<1> SUFFICES ASSUME Asked PROVE ResultsAnswerCalls
    OBVIOUS
<1>1. PICK ss, off : Sends(history, ss, off, sent)
    BY PartsExist
<1> QED BY <1>1, ResultsHaveCalls, CallsHaveResults DEF ResultsAnswerCalls

\* The messages of the assistant that are sent are those of the history.
LEMMA AskedIsFaithful == Asked => HistoryIsFaithful
<1> SUFFICES ASSUME Asked PROVE HistoryIsFaithful
    OBVIOUS
<1>1. PICK ss, off : Sends(history, ss, off, sent)
    BY PartsExist
<1> DEFINE N == Len(heard)
           P == {k \in DOMAIN sent : sent[k].role = "assistant"}
           r == [n \in 1 .. N |-> sent[off[2 * n]]]
           p == [n \in 1 .. N |-> off[2 * n]]
           mine == OfRole(sent, "assistant")
<1>2. /\ Len(ss) = Len(history) /\ Len(ss) \in Nat /\ DOMAIN sent = 1 .. off[Len(ss)]
      /\ \A i \in 0 .. Len(ss) : off[i] \in Nat
      /\ \A k \in DOMAIN sent : \E i \in 1 .. Len(ss) : \E n \in 1 .. Len(ss[i]) : k = off[i - 1] + n
    <2>1. PartsPlaced(ss, off)
        BY <1>1, PlacesOfParts
    <2> QED BY <2>1 DEF PartsPlaced
<1>3. N \in Nat /\ Len(ss) = 2 * N + 1
    <2>1. Len(ss) % 2 = 1 /\ N = Len(ss) \div 2
        BY <1>2 DEF Asked, Converses
    <2> QED BY <1>2, <2>1
<1>4. \A n \in 1 .. N : 2 * n \in 1 .. Len(ss) /\ (2 * n) % 2 # 1 /\ (2 * n) \div 2 = n
    BY <1>3
<1>5. ASSUME NEW n \in 1 .. N
      PROVE  /\ off[2 * n] \in DOMAIN sent
             /\ sent[off[2 * n]] = Said("assistant", heard[n].text, CallsOf(history[2 * n].content))
             /\ AnswerKept(history[2 * n].content, heard[n])
             /\ off[2 * n] = off[2 * n - 1] + 1
    <2> DEFINE i == 2 * n
    <2>1. i \in 1 .. Len(ss) /\ i % 2 # 1 /\ i \div 2 = n
        BY <1>4
    <2> HIDE DEF i
    <2>2. /\ off[i] \in DOMAIN sent
          /\ sent[off[i]] = Said("assistant", heard[i \div 2].text, CallsOf(history[i].content))
          /\ AnswerKept(history[i].content, heard[i \div 2])
          /\ off[i] = off[i - 1] + 1
        <3>1. AnswerPlaced(ss, off, i)
            BY <1>1, <2>1, AnswerPlaces
        <3> QED BY <3>1 DEF AnswerPlaced
    <2> QED BY <2>1, <2>2 DEF i
<1>6. IsSeq(sent) /\ IsSeq(mine) /\ IsSelection(sent, P, Len(sent), mine)
    <2>1. IsSeq(sent)
        BY <1>1 DEF Sends
    <2> QED BY <2>1, SelectedFrom DEF OfRole
<1>7. IsSeq(r) /\ Len(r) = N /\ \A n \in 1 .. N : r[n] = sent[off[2 * n]]
    <2>1. r = [n \in 1 .. N |-> r[n]] /\ \A n \in 1 .. N : r[n] = sent[off[2 * n]]
        OBVIOUS
    <2> HIDE DEF r
    <2> QED BY <1>3, <2>1, SeqByPlaces
<1>8. IsSelection(sent, P, Len(sent), r)
    <2>1. p \in [1 .. N -> 1 .. Len(sent)] /\ \A n \in 1 .. N : p[n] = off[2 * n]
        <3>1. DOMAIN sent = 1 .. Len(sent)
            BY <1>6, PlacesIn
        <3> QED BY <1>5, <3>1
    <2>2. \A n \in 1 .. N : p[n] \in P /\ r[n] = sent[p[n]]
        <3>1. ASSUME NEW n \in 1 .. N PROVE sent[off[2 * n]].role = "assistant"
            BY <1>5, SaidParts
        <3> HIDE DEF p
        <3> QED BY <1>5, <1>7, <2>1, <3>1
    <2>3. ASSUME NEW n \in 1 .. N, NEW m \in 1 .. N, n < m PROVE p[n] < p[m]
        <3>1. 2 * n \in 0 .. Len(ss) /\ 2 * m - 1 \in 0 .. Len(ss) /\ 2 * n <= 2 * m - 1
            BY <1>3, <2>3
        <3>2. off[2 * n] <= off[2 * m - 1]
            BY <1>1, <3>1, OffsetsGrow DEF Sends
        <3>3. off[2 * n] \in Nat /\ off[2 * m - 1] \in Nat
            BY <1>2, <3>1
        <3>4. off[2 * m] = off[2 * m - 1] + 1
            BY <1>5
        <3> HIDE DEF p
        <3> QED BY <2>1, <3>2, <3>3, <3>4
    <2>4. ASSUME NEW k \in 1 .. Len(sent), k \in P PROVE \E n \in 1 .. N : p[n] = k
        <3>1. k \in DOMAIN sent /\ sent[k].role = "assistant"
            BY <2>4
        <3>2. PICK i \in 1 .. Len(ss) : \E n \in 1 .. Len(ss[i]) : k = off[i - 1] + n
            BY <1>2, <3>1
        <3>3. PICK x \in 1 .. Len(ss[i]) : k = off[i - 1] + x
            BY <3>2
        <3>4. i % 2 # 1
            <4> SUFFICES ASSUME i % 2 = 1 PROVE FALSE
                OBVIOUS
            <4>1. sent[k].role \in {"user", "tool"}
                <5>1. ReplyPlaced(ss, off, i)
                    BY <1>1, ReplyPlaces
                <5> QED BY <3>3, <5>1 DEF ReplyPlaced
            <4> QED BY <3>1, <4>1
        <3>5. Len(ss[i]) = 1 /\ off[i] = off[i - 1] + 1
            <4>1. AnswerPlaced(ss, off, i)
                BY <1>1, <3>4, AnswerPlaces
            <4> QED BY <4>1 DEF AnswerPlaced
        <3>6. k = off[i]
            <4>1. x = 1
                BY <3>5
            <4> QED BY <3>3, <3>5, <4>1
        <3>7. i \div 2 \in 1 .. N /\ 2 * (i \div 2) = i
            BY <1>3, <3>4
        <3> HIDE DEF p
        <3> QED BY <2>1, <3>6, <3>7
    <2> HIDE DEF p, r, P
    <2> QED BY <1>7, <2>1, <2>2, <2>3, <2>4 DEF IsSelection
<1>9. Len(sent) \in Nat
    BY <1>6, PlacesIn
<1> HIDE DEF p, r, P, mine
<1>10. mine = r
    BY <1>6, <1>7, <1>8, <1>9, SelectionIsUnique
<1>11. Len(mine) = N /\ DOMAIN mine = 1 .. N
    BY <1>6, <1>7, <1>10, PlacesIn
<1>12. ASSUME NEW n \in DOMAIN mine
       PROVE  /\ mine[n].text = heard[n].text
              /\ \A d \in ToSet(mine[n].calls) : d.args \in Values \ Oversized
              /\ heard[n].regular =>
                /\ \A d \in ToSet(mine[n].calls) : \E c \in heard[n].calls : SameCall(d, c)
                /\ \A c \in heard[n].calls : \E d \in ToSet(mine[n].calls) : SameCall(d, c)
    <2> DEFINE content == history[2 * n].content
    <2>1. n \in 1 .. N
        BY <1>11
    <2>2. mine[n] = Said("assistant", heard[n].text, CallsOf(content)) /\ AnswerKept(content, heard[n])
        BY <1>5, <1>7, <1>10, <2>1
    <2> HIDE DEF content
    <2>3. mine[n].text = heard[n].text /\ mine[n].calls = CallsOf(content)
        BY <2>2, SaidParts
    <2>4. \A d \in Members(CallsOf(content)) : d.args \in Values \ Oversized
        BY <2>2, ArgumentsAreValues DEF AnswerKept
    <2>6. ASSUME heard[n].regular
          PROVE  /\ \A d \in Members(CallsOf(content)) : \E c \in heard[n].calls : SameCall(d, c)
                 /\ \A c \in heard[n].calls : \E d \in Members(CallsOf(content)) : SameCall(d, c)
        <3>1. Means(content, heard[n].text, heard[n].calls, TRUE)
            BY <2>2, <2>6 DEF AnswerKept, Means, Conveys
        <3> QED BY <3>1, CallsComeBack
    <2>5. ToSet(mine[n].calls) = Members(CallsOf(content))
        BY <2>3 DEF ToSet, Members
    <2> QED BY <2>3, <2>4, <2>5, <2>6
<1> QED BY <1>11, <1>12 DEF HistoryIsFaithful, mine

-----------------------------------------------------------------------------
(* The conversation.                                                       *)

\* What is kept of a conversation from one step to the next.
ConversationKept == Converses(history, heard) /\ ResultsAnswerCalls /\ HistoryIsFaithful

\* Nothing is sent at first.
LEMMA KeptAtFirst == Init => ConversationKept
<1> SUFFICES ASSUME Init PROVE ConversationKept
    OBVIOUS
<1>1. history = <<>> /\ heard = <<>> /\ sent = <<>> /\ step = "idle"
    BY DEF Init
<1>2. DOMAIN history = {} /\ DOMAIN sent = {} /\ Len(heard) = Len(history) \div 2
    BY <1>1
<1>3. TakesTurns(history) /\ \E S : heard \in Seq(S)
    BY AlternatesAtFirst DEF Alternates
<1>4. Converses(history, heard)
    BY <1>2, <1>3 DEF Converses
<1>5. ResultsAnswerCalls
    BY <1>2 DEF ResultsAnswerCalls
<1>6. HistoryIsFaithful
    BY <1>1 DEF HistoryIsFaithful
<1> QED BY <1>4, <1>5, <1>6 DEF ConversationKept

\* After any request the history is one of a conversation,
LEMMA RequestConverses ==
    ASSUME Alternates, Converses(history, heard), Ask \/ Refuse
    PROVE  Converses(history', heard) /\ Len(history') % 2 = 1
<1>1. history' \in NextHistories
    BY DEF Ask, Refuse
<1>2. Len(history') % 2 = 1
    BY AskAlternates
<1>3. CASE history = <<>> \/ Last(history).role = "assistant"
    <2>1. PICK r \in Replies(IF history = <<>> THEN <<>> ELSE Last(history).content) :
            history' = Append(history, [role |-> "user", content |-> r])
        BY <1>1, <1>3 DEF NextHistories
    <2>2. Len(history) \in Nat /\ Len(history') = Len(history) + 1
        BY <2>1, Appended DEF Converses, TakesTurns
    <2>3. Len(history) % 2 # 1
        BY <1>2, <2>2
    <2>4. Converses(history', heard)
        BY <2>1, <2>3, AskConverses
    <2> QED BY <1>2, <2>4
<1>4. CASE ~(history = <<>> \/ Last(history).role = "assistant")
    <2>1. history' = history
        BY <1>1, <1>4 DEF NextHistories
    <2> QED BY <1>2, <2>1
<1> QED BY <1>3, <1>4

\* and if it can be translated, it is what is sent.
LEMMA AskAsks == ASSUME Alternates, Converses(history, heard), Ask PROVE Asked'
<1>1. heard' = heard /\ sent' = TranslateRequest(<<>>, history')
    BY DEF Ask
<1>2. Converses(history', heard) /\ Len(history') % 2 = 1
    BY RequestConverses
<1> QED BY <1>1, <1>2 DEF Asked

\* A request is sent with results that answer its calls, and with the answers heard.
LEMMA AskKeeps == ASSUME Alternates, ConversationKept, Ask PROVE ConversationKept'
<1>1. Asked'
    BY AskAsks DEF ConversationKept
<1>2. Asked' => ResultsAnswerCalls' /\ HistoryIsFaithful'
    BY AskedAnswers, AskedIsFaithful, PTL
<1>3. Converses(history', heard')
    BY <1>1 DEF Asked
<1> QED BY <1>1, <1>2, <1>3 DEF ConversationKept

\* What is sent stays until the client asks again.
LEMMA SentStays ==
    ASSUME ConversationKept, UNCHANGED sent, step' # "routing", Converses(history, heard)'
    PROVE  ConversationKept'
<1>1. ResultsAnswerCalls'
    BY DEF ConversationKept, ResultsAnswerCalls, LastSaid
<1>2. HistoryIsFaithful'
    BY DEF HistoryIsFaithful
<1> QED BY <1>1, <1>2 DEF ConversationKept

\* An answer is kept as it was heard, whole or streamed.
LEMMA AnswerKeeps ==
    ASSUME Alternates, ConversationKept, UNCHANGED sent, step # "idle", step' = "idle",
           NEW content, NEW h, AnswerKept(content, h),
           history' = Append(history, Assistant(content)), heard' = Append(heard, h)
    PROVE  ConversationKept'
<1>1. Len(history) % 2 = 1
    BY DEF Alternates
<1>2. Converses(history', heard')
    BY <1>1, AnswerConverses DEF ConversationKept
<1> QED BY <1>2, SentStays

\* A whole answer is kept as it was heard,
LEMMA WholeKeeps == ASSUME Alternates, ConversationKept, AnswerWhole PROVE ConversationKept'
<1>1. PICK m \in Answers, f \in Finishes :
        /\ history' = Append(history, Assistant(TranslateResponse(m, f).content))
        /\ heard' = Append(heard, [text |-> m.text, calls |-> ToSet(m.calls), regular |-> TRUE])
    BY DEF AnswerWhole
<1>2. step = "routing" /\ step' = "idle" /\ UNCHANGED sent
    BY DEF AnswerWhole
<1> DEFINE h == [text |-> m.text, calls |-> ToSet(m.calls), regular |-> TRUE]
           content == TranslateResponse(m, f).content
<1>3. m.calls \in Seq([id : STRING, name : STRING, args : Seq(STRING)])
    BY AnswersAssumption
<1>4. IsSeq(m.calls)
    BY <1>3, AnySeq
<1>5. \A c \in Members(m.calls) : c = [id |-> c.id, name |-> c.name, args |-> c.args]
    <2>1. \A i \in DOMAIN m.calls : m.calls[i] \in [id : STRING, name : STRING, args : Seq(STRING)]
        BY <1>3, ElementType
    <2> QED BY <2>1 DEF Members
<1>6. Means(content, m.text, Members(m.calls), TRUE)
    BY <1>4, WholeMeans DEF Means
<1>7. h.text = m.text /\ h.calls = Members(m.calls) /\ h.regular = TRUE
    BY DEF ToSet, Members
<1> HIDE DEF h, content
<1>8. AnswerKept(content, h)
    BY <1>5, <1>6, <1>7 DEF AnswerKept
<1>9. history' = Append(history, Assistant(content)) /\ heard' = Append(heard, h)
    BY <1>1 DEF h, content
<1> QED BY <1>2, <1>8, <1>9, AnswerKeeps

\* and so is one put together from a stream.
LEMMA StreamedKeeps ==
    ASSUME IInv, Follows, Alternates, ConversationKept, StreamOver PROVE ConversationKept'
<1> DEFINE h == [text |-> said.text, calls |-> CallsSaid, regular |-> AllRegular]
           content == Assembled.content
<1>1. /\ step = "streaming" /\ at = "done" /\ step' = "idle" /\ UNCHANGED sent
      /\ history' = Append(history, Assistant(content)) /\ heard' = Append(heard, h)
    BY DEF StreamOver
<1>2. h.text = said.text /\ h.calls = CallsSaid /\ h.regular = AllRegular
    OBVIOUS
<1>3. \A c \in CallsSaid : c = [id |-> c.id, name |-> c.name, args |-> c.args]
    BY DEF CallsSaid
<1>4. Means(content, said.text, CallsSaid, AllRegular)
    BY <1>1, AssembledMeans DEF Means
<1> HIDE DEF h, content
<1>5. AnswerKept(content, h)
    BY <1>2, <1>3, <1>4 DEF AnswerKept
<1> QED BY <1>1, <1>5, AnswerKeeps

LEMMA StepKeepsConversation ==
    ASSUME IInv, Follows, Alternates, ConversationKept, [Next]_vars PROVE ConversationKept'
<1>1. CASE Ask
    BY <1>1, AskKeeps
<1>2. CASE Fail \/ AnswerStream \/ Streaming
    <2>1. UNCHANGED <<history, heard, sent>> /\ step' # "routing"
        BY <1>2 DEF Fail, AnswerStream, Streaming, conversation
    <2>2. Converses(history, heard)'
        BY <2>1 DEF ConversationKept
    <2> QED BY <2>1, <2>2, SentStays
<1>3. CASE AnswerWhole
    BY <1>3, WholeKeeps
<1>4. CASE StreamOver
    BY <1>4, StreamedKeeps
<1>5. CASE Refuse
    <2>1. UNCHANGED <<heard, sent>> /\ step' # "routing"
        BY <1>5 DEF Refuse
    <2>2. Converses(history', heard)
        BY <1>5, RequestConverses DEF ConversationKept
    <2>3. Converses(history, heard)'
        BY <2>1, <2>2
    <2> QED BY <2>1, <2>3, SentStays
<1>6. CASE UNCHANGED vars
    <2>1. UNCHANGED <<history, heard, sent, step>>
        BY <1>6 DEF vars
    <2> QED BY <2>1 DEF ConversationKept, ResultsAnswerCalls, HistoryIsFaithful, SameCall, LastSaid, OfRole
<1> QED BY <1>1, <1>2, <1>3, <1>4, <1>5, <1>6 DEF Next

\* At every moment of every conversation.
LEMMA Conversations == Spec => [](IInv /\ Follows /\ Alternates /\ ConversationKept)
<1>1. Init => IInv /\ Follows
    BY InitInvariant, StreamInitFollows DEF Init
<1>2. IInv /\ Follows /\ Alternates /\ ConversationKept /\ [Next]_vars
        => (IInv /\ Follows /\ Alternates /\ ConversationKept)'
    BY MessagesKeep, MessagesFollow, StepAlternates, StepKeepsConversation DEF KeptAndMapped
<1> QED BY <1>1, <1>2, AlternatesAtFirst, KeptAtFirst, PTL DEF Spec

\* The message a client puts together from a stream is that which it would have
\* got whole, for any chunks in any order: the same text and stop reason, and the
\* same calls, whose arguments a stream passes on exactly and a whole answer as
\* they decode (translateOpenAIStream, translateOpenAIResponse).
THEOREM StreamsSayTheSame == Spec => []SameAsUnstreamed
<1>1. IInv /\ Follows => SameAsUnstreamed
    BY AsUnstreamed
<1> QED BY <1>1, Conversations, PTL

\* The upstream gets its own messages back, in order, with their text and their
\* calls, however long the conversation is: arguments that are JSON come back as
\* they decode, and all of them come back as JSON, whatever they were and whichever
\* way the client got them (translateAnthropicMessage).
THEOREM HistoriesAreFaithful == Spec => []HistoryIsFaithful
<1>1. ConversationKept => HistoryIsFaithful
    BY DEF ConversationKept
<1> QED BY <1>1, Conversations, PTL

\* Results of tools and the calls before them answer each other in every request
\* (translateAnthropicMessage).
THEOREM ResultsAnswerTheirCalls == Spec => []ResultsAnswerCalls
<1>1. ConversationKept => ResultsAnswerCalls
    BY DEF ConversationKept
<1> QED BY <1>1, Conversations, PTL
=============================================================================
