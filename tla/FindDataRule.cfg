\* A client that pipelines, a server that grants everything.
CONSTANTS
    Commands = {"HELO", "MAIL", "RCPT", "DATA"}
    Codes = {220, 250, 354}
    Verdicts = {"forward"}
    Disabled = {}
    Segmentation = TRUE
    MaxAsked = 3
    CliCap = 3
    SvrCap = 2
SPECIFICATION Spec
INVARIANTS RcptSeenBeforeData
CHECK_DEADLOCK FALSE
