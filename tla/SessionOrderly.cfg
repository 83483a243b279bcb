\* Every command and every kind of reply, as long as the dialogue is orderly;
\* HELO and VRFY are switched off by the rules' variables.
CONSTANTS
    Commands <- Verbs
    Codes <- AllCodes
    Verdicts = {"forward", "alert", "deny", "drop", "error"}
    Disabled = {"HELO", "VRFY"}
    Segmentation = FALSE
    MaxAsked = 1
    CliCap = 3
    SvrCap = 6
SPECIFICATION Spec
INVARIANTS TypeOK Agreement Attribution InStep DisabledRefused
PROPERTY NoSpuriousClose
CONSTRAINT OrderlySoFar
CHECK_DEADLOCK FALSE
