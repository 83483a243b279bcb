\* HELO switched off.
CONSTANTS
    Commands = {"HELO", "MAIL"}
    Codes = {220, 250, 550}
    Verdicts = {"forward"}
    Disabled = {"HELO"}
    Segmentation = FALSE
    MaxAsked = 1
    CliCap = 2
    SvrCap = 2
SPECIFICATION Spec
INVARIANTS HeloNotPassed
CHECK_DEADLOCK FALSE
