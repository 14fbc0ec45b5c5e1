SPECIFICATION Spec
CONSTANTS
    ConnectTime = 2
    PromptTime = 3
    Parts = 2
INVARIANTS
    AnswerIsComplete
    CompleteAnswerKept
    EndsInTime
PROPERTY
    RequestEnds
