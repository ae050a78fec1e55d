CONSTANTS
    Values <- MCValues
    Oversized <- MCOversized
    Recoded <- MCRecoded
    EmptyObject <- MCEmptyObject
    NewLine = "newline"
    Chunks <- MCChunks
    MaxChunks = 3
    Indices = {0, 1}
    CallId <- MCCallId
    Answers <- MCAnswers
    Finishes = {"stop", "tool_calls"}
    Prompt <- MCPrompt
    Outcome <- MCOutcome
    Guess <- MCGuess
    MaxTurns = 2
SPECIFICATION Spec
INVARIANTS
    TypeOK
    SameAsUnstreamed
    HistoryIsFaithful
    ResultsAnswerCalls
PROPERTIES
    RefinesMessageStream
    StreamEnds
CHECK_DEADLOCK FALSE
