SPECIFICATION Spec
CONSTANTS
    MaxStarts = 2
    Messages = 1
    Room = 2
    MaxReads = 1
    MaxOps = 0
    MaxInbox = 1
INVARIANTS SentAsPacked
PROPERTIES StartedClientHeard UpdatesEnd
CHECK_DEADLOCK FALSE
