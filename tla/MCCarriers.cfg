CONSTANTS
    None = None
    MaxCalls = 2
    MaxAttempts = 2
    Scenes = {{"publish"}, {"listen"}}
    Window = 2
    DeadAfter = 2
    Ids = {1, 2}
    RoomTurns = 1
    MaxLinks = 2
    Applies = {"apply"}
    MailruSessions = 2
    MailruRoutines = 2
    MailruAttempts = 1
    MailruApplies = 0
    MaxSessions = 2
    MaxApplies = 1
    Named = TRUE
    MaxOps = 2
    MaxTurns = 2
    MaxAsides = 2
    AckRoom = 1
    Packets = 3
    NumWriters = 2
    BatchSize = 2
    MaxQueued = 2
    MaxUnread = 1
    Page = 2
    MaxTries = 2
SPECIFICATION Spec
INVARIANTS   Accounted
PROPERTIES Recovers Answered 
CHECK_DEADLOCK FALSE
