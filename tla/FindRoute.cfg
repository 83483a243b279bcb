SPECIFICATION Spec
CONSTANTS
    Texts <- RouteTexts
    Alphabet <- NoAlphabet
    MaxPieces = 0
    Uncut <- InsidePath
    Rest <- After
    Parser <- Library
INVARIANTS Meant
CHECK_DEADLOCK FALSE
