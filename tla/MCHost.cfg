CONSTANTS
    c1 = c1
    c2 = c2
    c3 = c3
    c4 = c4
    c5 = c5
    c6 = c6
    Cores = {c1, c2, c3, c4, c5, c6}
    Faults = TRUE
    UnlinkFaults = FALSE
    None = None
    Ways <- RelayScenes
    Callers = {1, 2}
    MostSent = 1
    Seats = 1
    Talks = {1, 2}
    Plugs = 3
    Hostnames = {"x", "y", "z"}
    Addresses = 3
    Tracks = {1, 2}
    Parcels = {1, 2}
    MostUnanswered = 2
    MostOutages = 1
    Lives = {"carry", "life"}
    ScriptActs <- ScriptScenes
    ScriptPackets = 2
    ScriptRoom = 1
    ScriptDials = {1, 2}
    ScriptRuns = {1, 2, 3}
    ScriptSlots = 2
    ScriptApplies = 2
SPECIFICATION HostSpec
INVARIANTS Journaled Guarded HostKept
PROPERTIES CleanStart ForeignKept 
CHECK_DEADLOCK FALSE
