SPECIFICATION Spec
CONSTANTS
    Texts <- SenderTexts
    Alphabet <- NoAlphabet
    MaxPieces = 0
    Uncut <- Anywhere
    Rest <- After
    Parser <- Library
INVARIANTS Answered
CHECK_DEADLOCK FALSE
