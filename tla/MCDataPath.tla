------------------------------ MODULE MCDataPath ------------------------------
\* What packets pass between two ends, each part by itself: the replay
\* window of a session, the fragments of the Telemost carrier, and its
\* group of lanes.  part says which of them runs; the others rest.
EXTENDS ReplayWindow, Sequences, TLC

CONSTANTS
    FrameSizes, SeqSpace, PerTick, MaxQueued, MaxWrites, FrameSlots, Patience, Lag, Ring, MaxResent,
    p1, p2, First, MaxLanes, MaxRuns, Nobody

\* Two peers, the first in a group of its own or in one with the second.
Arrivals == <<p1, p2>>
Starts == {p1 :> 0 @@ p2 :> 2, p1 :> 2 @@ p2 :> 2}

\* Frames of more than one fragment around one of more than a tick takes.
ThreeFrames == <<2, 3, 2>>

VARIABLES
    part,
    tSent, tWrites, tQueue, tRtp, tNet, tMissed, tResent, tNow, tSlots,
    tHeard, tOut,
    gStart, gRoom, gLanes, gParts, gSilent, gGrowing, gTarget, gPc, gPlan,
    gCalm

trainVars ==
    <<tSent, tWrites, tQueue, tRtp, tNet, tMissed, tResent, tNow, tSlots,
    tHeard, tOut>>
groupVars ==
    <<gStart, gRoom, gLanes, gParts, gSilent, gGrowing, gTarget, gPc, gPlan,
    gCalm>>
dataVars == <<part, vars, trainVars, groupVars>>

Train == INSTANCE FragmentTrain WITH
    sent <- tSent, writes <- tWrites, queue <- tQueue, rtp <- tRtp,
    net <- tNet, missed <- tMissed, resent <- tResent, now <- tNow,
    slots <- tSlots, heard <- tHeard, out <- tOut, Sizes <- FrameSizes,
    Slots <- FrameSlots
Group == INSTANCE LaneGroup WITH
    start <- gStart, room <- gRoom, lanes <- gLanes, parts <- gParts,
    silent <- gSilent, growing <- gGrowing, target <- gTarget, pc <- gPc,
    plan <- gPlan, calm <- gCalm, Order <- Arrivals, Rooms <- Starts

DataInit ==
    /\ part \in {"window", "train", "group"}
    /\ Init /\ Train!Init /\ Group!Init
    /\ part # "group" => gStart = CHOOSE s \in Starts : TRUE

OthersRest ==
    /\ UNCHANGED part
    /\ IF part = "window" THEN TRUE ELSE UNCHANGED vars
    /\ IF part = "train" THEN TRUE ELSE UNCHANGED trainVars
    /\ IF part = "group" THEN TRUE ELSE UNCHANGED groupVars

DataNext ==
    /\ \/ part = "window" /\ Next
       \/ part = "train" /\ Train!Next
       \/ part = "group" /\ Group!Next
    /\ OthersRest

DataSpec == DataInit /\ [][DataNext]_dataVars

-----------------------------------------------------------------------------
\* What a Telemost call makes of frames and lanes.  Frames are fragmented,
\* sent by the tick of a clock, asked for again and put together at the
\* other end: a stalled clock piles up no latency (telemost.go:2700), no
\* frame is put together of two (fragment.go:63), and the order of the
\* fragments does not matter (fragment.go:131).  A settled group has its
\* lanes on the peers they belong to (telemost_stripe.go:251).
PiecesInPlace ==
    /\ part = "train" =>
         Train!TypeOK /\ Train!QueueBounded /\ Train!NoSplice /\ Train!OrderFree
    /\ part = "group" => Group!TypeOK /\ Group!InPlace
=============================================================================
