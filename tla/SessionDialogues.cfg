\* Any dialogue: denials at every event, commands and replies cut by segments,
\* two commands outstanding, answers that come together, AUTH, an extension.
CONSTANTS
    Commands = {"HELO", "MAIL", "RCPT", "DATA", "AUTH", "VRFY"}
    Codes = {220, 250, 334, 354}
    Verdicts = {"forward", "deny"}
    Disabled = {}
    Segmentation = TRUE
    MaxAsked = 2
    CliCap = 2
    SvrCap = 2
SPECIFICATION Spec
INVARIANT DeniedOnlyInGaps
PROPERTY DeniedNeverAdvances
CHECK_DEADLOCK FALSE
