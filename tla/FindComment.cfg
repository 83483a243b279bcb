SPECIFICATION Spec
CONSTANTS
    Texts <- CommentTexts
    Alphabet <- NoAlphabet
    MaxPieces = 0
    Uncut <- Anywhere
    Rest <- After
    Parser <- Library
INVARIANTS Returns
CHECK_DEADLOCK FALSE
