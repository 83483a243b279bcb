\* A verdict of alert, and nothing else.
CONSTANTS
    Commands = {"HELO", "MAIL"}
    Codes = {220, 250, 550}
    Verdicts = {"forward", "alert"}
    Disabled = {}
    Segmentation = FALSE
    MaxAsked = 1
    CliCap = 2
    SvrCap = 2
SPECIFICATION Spec
INVARIANTS AlertOnlyWarns
CHECK_DEADLOCK FALSE
