----------------------------- MODULE LaneGroup -----------------------------
\* The lanes of one node in a Telemost room
\* (Core/transport/yandex/telemost_stripe.go): every lane is a participant
\* that watches one lane of the peer. What a lane hears of the room makes
\* it recompute the assignment, and so does a clock; recompute runs in
\* several goroutines at once and holds no lock from its first look at the
\* room to the last target it sets.
\*
\* The peers are the participants the other nodes ever had in the room,
\* with the start of the group their tag names (0: no tag). A ghost left
\* without a word and is still listed.
EXTENDS Naturals, Sequences, FiniteSets, SequencesExt

CONSTANTS
    Order,      \* the peers, by id or by the index in the tag
    Rooms,      \* peer -> start of its group, 0 without a tag: the cases
    First,      \* lanes at the beginning
    MaxLanes,   \* maxStripeLanes
    MaxRuns,    \* runs of recompute at once (a bound)
    Nobody

Peers == {Order[i] : i \in 1..Len(Order)}
Lanes == 1..MaxLanes
Clock == 0
Runners == {Clock} \cup Lanes

VARIABLES
    start,      \* one of them
    room,       \* what the SFU has of every peer
    lanes,      \* number of lanes
    parts,      \* lane -> peer -> what the lane heard
    silent,     \* peers put aside
    growing,
    target,     \* lane -> the peer it watches
    pc,         \* runner -> where its recompute is
    plan,       \* runner -> what it found
    calm        \* history: the last look was undisturbed so far

roomVars == <<start, room>>
heardVars == <<lanes, parts>>
runVars == <<pc, plan, calm>>
groupVars == <<roomVars, heardVars, silent, growing, target, runVars>>

NoPlan == [peers |-> <<>>, quiet |-> {}, tagged |-> FALSE, settled |-> 0, lanes |-> 0, targets |-> <<>>, next |-> 0]

Init ==
    /\ start \in Rooms
    /\ room = [p \in Peers |-> "away"]
    /\ lanes = First
    /\ parts = [l \in Lanes |-> [p \in Peers |-> "unknown"]]
       /\ silent = {}
    /\ growing = FALSE
    /\ target = [l \in Lanes |-> Nobody]
    /\ pc = [r \in Runners |-> "idle"]
    /\ plan = [r \in Runners |-> NoPlan]
    /\ calm = FALSE

-----------------------------------------------------------------------------
\* The room

Turn(p, from, to) ==
    /\ room[p] \in from
    /\ room' = [room EXCEPT ![p] = to]
    /\ UNCHANGED <<start, heardVars, silent, growing, target, runVars>>

Join(p) == Turn(p, {"away"}, "live")
Vanish(p) == Turn(p, {"live"}, "ghost")
Leave(p) == Turn(p, {"live", "ghost"}, "left")

\* silentFor is over: a minute and a half, in which a run of recompute ends.
Forget(p) ==
    /\ p \in silent
    /\ \A r \in Runners : pc[r] = "idle"
    /\ silent' = silent \ {p}
    /\ UNCHANGED <<roomVars, heardVars, growing, target, runVars>>

-----------------------------------------------------------------------------
\* recompute

Starts(r) ==
    /\ pc[r] = "idle"
    /\ Cardinality({q \in Runners : pc[q] # "idle"}) < MaxRuns
    /\ pc' = [pc EXCEPT ![r] = "look"]
    /\ calm' = FALSE

Listed(p) == IF room[p] \in {"live", "ghost"} THEN "streaming" ELSE "gone"

\* The lane's read loop runs recompute itself before it reads on.
onDescriptions(l, p) ==
    /\ l <= lanes
    /\ room[p] # "away"
    /\ parts[l][p] # Listed(p)
    /\ parts' = [parts EXCEPT ![l][p] = Listed(p)]
    /\ Starts(l)
    /\ UNCHANGED <<roomVars, lanes, silent, growing, target, plan>>

TickClock ==
    /\ Starts(Clock)
    /\ UNCHANGED <<roomVars, heardVars, silent, growing, target, plan>>

\* Streaming to one lane, and gone to none.
Seen ==
    {p \in Peers : /\ \E l \in 1..lanes : parts[l][p] = "streaming"
                   /\ \A l \in 1..lanes : parts[l][p] # "gone"}

\* The newest group of the other role, when the peers tag their lanes.
NewestGroup(ps) == {p \in ps : start[p] > 0 /\ \A q \in ps : start[q] <= start[p]}

Candidates(ps) == IF NewestGroup(ps) = {} THEN ps ELSE NewestGroup(ps)

\* Without tags only peers that have streamed for peerSettle count.
Settled(ps, tagged) == IF tagged THEN {Cardinality(ps)} ELSE 0..Cardinality(ps)

Look(r) ==
    LET tagged == NewestGroup(Seen) # {}
        loud == IF tagged THEN Candidates(Seen) ELSE Seen \ silent
        quiet == Candidates(Seen) \ loud
        InOrder(S) == SelectSeq(Order, LAMBDA p : p \in S)
    IN
    /\ pc[r] = "look"
    /\ pc' = [pc EXCEPT ![r] = "assign"]
    /\ calm' = \A q \in Runners \ {r} : pc[q] = "idle"
    /\ \E settled \in Settled(loud, tagged) :
         plan' = [plan EXCEPT ![r] =
           [NoPlan EXCEPT !.peers = InOrder(loud) \o InOrder(quiet), !.quiet = quiet, !.tagged = tagged,
                          !.settled = settled, !.lanes = lanes]]
    /\ UNCHANGED <<roomVars, heardVars, silent, growing, target>>

\* mutant: whoever else has it
KeepsTwice(f) == {l \in 1..f.lanes : target[l] \in ToSet(f.peers) \ f.quiet}
\* A lane keeps its peer while that peer is alive and no lane before it has it.
Keeps(f) ==
    {l \in 1..f.lanes :
        /\ target[l] \in ToSet(f.peers) \ f.quiet
        /\ \A k \in 1..(l - 1) : target[k] # target[l]}

Assigned(f) ==
    LET free == SelectSeq(f.peers, LAMBDA p : \A l \in Keeps(f) : target[l] # p)
        place(l) == Cardinality({k \in 1..l : k \notin Keeps(f)})
    IN  [l \in 1..f.lanes |->
            IF l \in Keeps(f) THEN target[l]
            ELSE IF place(l) <= Len(free) THEN free[place(l)] ELSE Nobody]

Asks(f) == f.settled > f.lanes /\ ~growing

\* grow, and the choice of targets
Assign(r) ==
    /\ pc[r] = "assign"
    /\ growing' = (growing \/ Asks(plan[r]))
    /\ plan' = [plan EXCEPT ![r] = [NoPlan EXCEPT !.tagged = plan[r].tagged, !.lanes = plan[r].lanes,
                                                 !.targets = Assigned(plan[r]), !.next = 1]]
    /\ pc' = [pc EXCEPT ![r] = "set"]
    /\ UNCHANGED <<roomVars, heardVars, silent, target, calm>>

setStripeTarget(r) ==
    LET l == plan[r].next IN
    /\ pc[r] = "set"
    /\ target' = [target EXCEPT ![l] = plan[r].targets[l]]
    /\ plan' = [plan EXCEPT ![r].next = l + 1, ![r].targets[l] = Nobody]
    /\ pc' = [pc EXCEPT ![r] = IF l = plan[r].lanes THEN "listen" ELSE "set"]
    /\ UNCHANGED <<roomVars, heardVars, silent, growing, calm>>

receiving(l) == target[l] # Nobody /\ room[target[l]] = "live"

\* Peers watched for silentAfter that sent nothing; some of them not for so long.
Unheard(r) ==
    IF plan[r].tagged THEN {} ELSE {target[l] : l \in {k \in 1..plan[r].lanes : target[k] # Nobody /\ ~receiving(k)}}

Listen(r) ==
    /\ pc[r] = "listen"
    /\ \E aside \in SUBSET Unheard(r) :
         /\ silent' = silent \cup aside
         /\ pc' = [pc EXCEPT ![r] = IF aside \subseteq silent THEN "idle" ELSE "look"]
    /\ plan' = [plan EXCEPT ![r] = NoPlan]
    /\ UNCHANGED <<roomVars, heardVars, growing, target, calm>>

\* The stripe adds the lane it was asked for, or one of its own accord.
NewLane ==
    /\ lanes < MaxLanes
    /\ lanes' = lanes + 1
    /\ growing' = FALSE
    /\ calm' = FALSE
    /\ UNCHANGED <<roomVars, parts, silent, target, pc, plan>>

-----------------------------------------------------------------------------
recompute(r) == Look(r) \/ Assign(r) \/ setStripeTarget(r) \/ Listen(r)

Next ==
    \/ \E p \in Peers : Join(p) \/ Vanish(p) \/ Leave(p) \/ Forget(p)
    \/ \E l \in Lanes, p \in Peers : onDescriptions(l, p)
    \/ TickClock
    \/ \E r \in Runners : recompute(r)
    \/ NewLane

Spec == Init /\ [][Next]_groupVars

-----------------------------------------------------------------------------
TypeOK ==
    /\ start \in Rooms
    /\ room \in [Peers -> {"away", "live", "ghost", "left"}]
    /\ lanes \in First..MaxLanes
    /\ parts \in [Lanes -> [Peers -> {"unknown", "streaming", "gone"}]]
    /\ silent \subseteq Peers
    /\ growing \in BOOLEAN
    /\ target \in [Lanes -> Peers \cup {Nobody}]
    /\ pc \in [Runners -> {"idle", "look", "assign", "set", "listen"}]
    /\ \A r \in Runners : pc[r] = "set" => plan[r].next \in 1..plan[r].lanes

\* However the runs of recompute overlapped before, one that nothing
\* disturbs leaves the lanes on distinct peers of the newest group that is
\* listed, and no such peer unwatched while a lane is free, unless it was
\* put aside for its silence; a lane the newest group calls for is there
\* or asked for (telemost_stripe.go:251, :311, :317).
Watched == {target[l] : l \in 1..lanes} \ {Nobody}
Distinct == \A k, l \in 1..lanes : k # l /\ target[k] = target[l] => target[k] = Nobody

InPlace ==
    calm /\ (\A r \in Runners : pc[r] = "idle") =>
        /\ Distinct
        /\ Watched \subseteq Candidates(Seen)
        /\ Candidates(Seen) \ silent \subseteq Watched \/ Cardinality(Watched) = lanes
        /\ Cardinality(NewestGroup(Seen)) > lanes => growing
=============================================================================
