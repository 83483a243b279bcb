SPECIFICATION Spec
CONSTANTS
    Texts <- ShortTexts
    Alphabet <- NoAlphabet
    MaxPieces = 0
    Uncut <- Anywhere
    Rest <- EndOfMail
    Parser <- Library
INVARIANTS Answered
CHECK_DEADLOCK FALSE
