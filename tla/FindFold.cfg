SPECIFICATION Spec
CONSTANTS
    Texts <- FoldTexts
    Alphabet <- NoAlphabet
    MaxPieces = 0
    Uncut <- Anywhere
    Rest <- After
    Parser <- Library
INVARIANTS Meant
CHECK_DEADLOCK FALSE
