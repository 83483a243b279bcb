\* Every legal line and every text of five pieces, cut everywhere but where
\* the code is known to err.
SPECIFICATION Spec
CONSTANTS
    Texts <- AllTexts
    Alphabet <- AllPieces
    MaxPieces = 5
    Uncut <- Careful
    Rest <- After
    Parser <- Library
INVARIANTS Final Meant Answered Returns AsInGrammar
CHECK_DEADLOCK FALSE
