SPECIFICATION Spec
CONSTANTS
    Texts <- BlankTexts
    Alphabet <- NoAlphabet
    MaxPieces = 0
    Uncut <- Anywhere
    Rest <- After
    Parser <- Library
INVARIANTS Meant
CHECK_DEADLOCK FALSE
