SPECIFICATION Spec
CONSTANTS
    Texts <- CfwsTexts
    Alphabet <- NoAlphabet
    MaxPieces = 0
    Uncut <- Careful
    Rest <- After
    Parser <- Library
INVARIANTS Meant
CHECK_DEADLOCK FALSE
