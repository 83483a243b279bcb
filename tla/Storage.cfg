\* A memory of sixteen blocks that refuses at any time, and when it is full.
\* A session may end in undefined behaviour, which has no next step.
CONSTANTS
    Blocks <- SomeBlocks
    PoolLen = 1
    ReallocLen = 2
    Commands = {"HELO", "EHLO", "USER", "PASS", "MAIL", "RCPT"}
    MaxMailboxes = 2
    MaxHeld = 2
SPECIFICATION Spec
INVARIANTS TypeOK PoolsSound ListInOrder FreedOnce
PROPERTY LostOnly
CHECK_DEADLOCK FALSE
