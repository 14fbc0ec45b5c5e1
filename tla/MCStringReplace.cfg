SPECIFICATION Spec
CONSTANTS
    MaxText = 6
    MaxWord = 3
    Char <- MCChar
    Nul = 0
    Text <- MCText
    Word <- MCWord
    SizeMod = 64
INVARIANTS
    ReadsTheArgument
    StaysInBuffer
    ReplacesOccurrences
PROPERTY
    ReplaceEnds
