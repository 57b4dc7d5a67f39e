CONSTANTS
    Size = 3
    MaxSeq = 8
    FrameSizes <- ThreeFrames
    SeqSpace = 2
    PerTick = 1
    MaxQueued = 4
    MaxWrites = 2
    FrameSlots = 2
    Patience = 1
    Lag = 1
    Ring = 2
    MaxResent = 1
    p1 = p1
    p2 = p2
    First = 1
    MaxLanes = 2
    MaxRuns = 2
    Nobody = Nobody
SPECIFICATION DataSpec
CHECK_DEADLOCK FALSE
INVARIANTS RingExact 
PROPERTIES RefinesReplaySet
