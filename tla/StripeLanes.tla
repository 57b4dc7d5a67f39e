---------------------------- MODULE StripeLanes ----------------------------
\* The lanes of a striped link (transport/striped.go, striped_lane.go):
\* how they are made, started, added while the link runs and stopped, and
\* which of them the sender gives a piece to.  The link below, with its
\* numbers and acks, is StripedLink; here a piece is only where it is.
\*
\* The server in the middle may forward a lane or not, and the far side
\* watches what it likes.  A lane that sends and gets nothing through is
\* dead: it is given only probes, if another lane is alive.
EXTENDS Naturals, FiniteSets

CONSTANTS
    Lanes,      \* 1..maxLanes
    Pieces,     \* 1..n
    Unanswered, \* pieces without an answer that make a lane dead (20)
    Outages,    \* changes of what is up, watched and forwarded (a bound)
    Scenes      \* what may happen: a subset of carry, life

VARIABLES
    scene,
    list,       \* how many lanes there are
    lane,       \* none, made, up, down, failed or stopped
    starting,   \* the next lane Start starts; 0 before, all + 1 after
    warm,       \* past laneWarmup
    heard,      \* the far side said lately what it watches
    watched,    \* and what it said
    forwards,   \* lanes the server forwards
    outages,
    piece,      \* new, flight, queued, acked or given up
    tx,         \* its last lane, and whether that was less than 2 rto ago
    dup,        \* a copy of it went out
    unanswered, delivered, due, \* laneState; due: a probe is
    probing, ceiling,           \* the autoscaler
    allDead,    \* allDeadSince is set
    stop, snap, \* Stop: no, stopping or done; the lanes it stops
    tired,      \* the link stopped itself
    late        \* lanes added or started after that

lifeVars == <<list, lane, starting, stop, snap, tired, late, allDead>>
envVars == <<warm, heard, watched, forwards, outages>>
pieceVars == <<piece, tx, dup>>
laneVars == <<unanswered, delivered, due>>
scaleVars == <<probing, ceiling>>
stripeVars == <<scene, lifeVars, envVars, pieceVars, laneVars, scaleVars>>

Present == 1..list
MaxLanes == Cardinality(Lanes)
\* The lanes the link is made with.
FirstLanes == IF scene = "life" THEN MaxLanes - 1 ELSE MaxLanes

Init ==
    /\ scene \in Scenes
    /\ list = FirstLanes
    /\ starting = IF scene = "life" THEN 0 ELSE FirstLanes + 1
    /\ lane = [l \in Lanes |-> IF l > FirstLanes THEN "none"
                               ELSE IF scene = "life" THEN "made" ELSE "up"]
    /\ warm = IF scene = "life" THEN {} ELSE Lanes
    /\ heard = FALSE /\ watched = {} /\ forwards = Lanes /\ outages = 0
    /\ piece = [p \in Pieces |-> "new"]
    /\ tx = [p \in Pieces |-> [lane |-> 1, recent |-> FALSE]]
    /\ dup = [p \in Pieces |-> FALSE]
    /\ unanswered = [l \in Lanes |-> 0]
    /\ delivered = [l \in Lanes |-> "never"] /\ due = Lanes
    /\ probing = "no" /\ ceiling = FALSE
    /\ allDead = FALSE /\ stop = "no" /\ snap = {} /\ tired = FALSE
    /\ late = {}

-----------------------------------------------------------------------------
\* Which lane may carry

Eligible(l) ==
    /\ l \in Present /\ lane[l] = "up"
    /\ IF heard THEN l \in watched ELSE l \in warm

Dead(l) == unanswered[l] >= Unanswered /\ delivered[l] # "now"

OthersAlive(l) ==
    \E m \in Lanes \ {l} : delivered[m] # "never" /\ ~Dead(m)

\* mutant
OnlyProbed(l) == Dead(l)
\* It gets nothing but copies and probes.
HeldBack(l) == Dead(l) /\ OthersAlive(l)

\* mutant
LeftToOthers(p, l) == OthersAlive(l) /\ tx[p].lane = l
\* "Resend on another lane than the one that lost it ... but not for long"
Mine(p, l) == OthersAlive(l) /\ tx[p].lane = l /\ tx[p].recent

More(l) == unanswered' = [unanswered EXCEPT
                            ![l] = IF @ = Unanswered THEN @ ELSE @ + 1]
Stamp(p, l) == tx' = [tx EXCEPT ![p] = [lane |-> l, recent |-> TRUE]]

Forget(p) ==
    /\ tx' = [tx EXCEPT ![p] = [lane |-> 1, recent |-> FALSE]]
    /\ dup' = [dup EXCEPT ![p] = FALSE]

PullResend(l) ==
    /\ Eligible(l) /\ ~HeldBack(l)
    /\ \E p \in Pieces :
        /\ piece[p] = "queued" /\ ~Mine(p, l)
        /\ piece' = [piece EXCEPT ![p] = "flight"]
        /\ dup' = [dup EXCEPT ![p] = FALSE]
        /\ Stamp(p, l) /\ More(l)
    /\ UNCHANGED <<scene, lifeVars, envVars, delivered, due, scaleVars>>

NextNew(p) == piece[p] = "new" /\ \A q \in 1..p - 1 : piece[q] # "new"

\* A new piece; for a lane held back it is the probe.
PullNew(l) ==
    /\ Eligible(l)
    /\ IF HeldBack(l) THEN l \in due /\ due' = due \ {l} ELSE UNCHANGED due
    /\ \E p \in Pieces :
        /\ NextNew(p)
        /\ piece' = [piece EXCEPT ![p] = "flight"]
        /\ Stamp(p, l) /\ More(l)
    /\ UNCHANGED <<scene, lifeVars, envVars, dup, delivered, scaleVars>>

\* copies of a lane held back that delivered less than deadKeepWarm ago, and
\* duplicates of one with spare room: the second copy of a piece in flight.
PullCopy(l) ==
    /\ Eligible(l)
    /\ HeldBack(l) => delivered[l] = "lately"
    /\ \E p \in Pieces :
        /\ piece[p] = "flight" /\ tx[p].lane # l /\ ~dup[p]
        /\ dup' = [dup EXCEPT ![p] = TRUE]
    /\ IF HeldBack(l) THEN UNCHANGED unanswered ELSE More(l)
    /\ UNCHANGED <<scene, lifeVars, envVars, piece, tx, delivered, due,
                   scaleVars>>

\* An ack.  With a copy about it may be that no lane is credited.
Acked(p) ==
    LET l == tx[p].lane
        got(m) == /\ delivered' = [delivered EXCEPT ![m] = "now"]
                  /\ unanswered' = [unanswered EXCEPT ![m] = 0]
    IN  /\ piece[p] \in {"flight", "queued"} /\ l \in forwards
        /\ lane[l] = "up"
        /\ piece' = [piece EXCEPT ![p] = "acked"] /\ Forget(p)
        /\ \/ got(l)
           \/ dup[p] /\ UNCHANGED <<delivered, unanswered>>
        /\ UNCHANGED <<scene, lifeVars, envVars, due, scaleVars>>

\* detectLoss: an ack passed it, or the timeout.
Overdue(p) ==
    /\ piece[p] = "flight"
    /\ piece' = [piece EXCEPT ![p] = "queued"]
    /\ UNCHANGED <<scene, lifeVars, envVars, tx, dup, laneVars, scaleVars>>

\* giveUpAfter
GiveUp(p) ==
    /\ piece[p] \in {"flight", "queued"}
    /\ piece' = [piece EXCEPT ![p] = "given up"] /\ Forget(p)
    /\ UNCHANGED <<scene, lifeVars, envVars, laneVars, scaleVars>>

\* Time passes: 2 rto, deadAfter and deadKeepWarm, 100 ms, laneWarmup.
Aged(p) ==
    /\ tx[p].recent
    /\ tx' = [tx EXCEPT ![p].recent = FALSE]
    /\ UNCHANGED <<scene, lifeVars, envVars, piece, dup, laneVars, scaleVars>>

Older(l) ==
    /\ delivered[l] \in {"now", "lately"}
    /\ delivered' = [delivered EXCEPT ![l] = IF @ = "now" THEN "lately" ELSE "once"]
    /\ UNCHANGED <<scene, lifeVars, envVars, pieceVars, unanswered, due,
                   scaleVars>>

ProbeDue(l) ==
    /\ l \notin due
    /\ due' = due \union {l}
    /\ UNCHANGED <<scene, lifeVars, envVars, pieceVars, unanswered,
                   delivered, scaleVars>>

Warms(l) ==
    /\ l \in Present \ warm /\ starting > 0
    /\ warm' = warm \union {l}
    /\ UNCHANGED <<scene, lifeVars, heard, watched, forwards, outages, pieceVars,
                   laneVars, scaleVars>>

\* The far side and the server between, within a bound.
Turns ==
    /\ outages < Outages /\ outages' = outages + 1
    /\ \/ /\ heard' \in BOOLEAN
          /\ watched' \in IF heard' THEN SUBSET Present ELSE {{}}
          /\ UNCHANGED <<forwards, lane>>
       \/ \E l \in Lanes :
            /\ scene = "carry"
            /\ forwards' = IF l \in forwards THEN forwards \ {l}
                           ELSE forwards \union {l}
            /\ UNCHANGED <<heard, watched, lane>>
       \/ \E l \in Present :
            /\ lane[l] \in {"up", "down"}
            /\ lane' = [lane EXCEPT ![l] = IF @ = "up" THEN "down" ELSE "up"]
            /\ UNCHANGED <<heard, watched, forwards>>
    /\ UNCHANGED <<scene, list, starting, stop, snap, tired, late, allDead, warm,
                   pieceVars, laneVars, scaleVars>>

-----------------------------------------------------------------------------
\* Start, addLane and Stop

\* Start: the lanes one after another, after all are attached.
StartLane ==
    /\ scene = "life" /\ starting <= FirstLanes
    /\ starting' = IF starting = 0 THEN 1 ELSE starting + 1
    /\ IF starting = 0 THEN UNCHANGED <<lane, late>>
       ELSE \/ /\ lane' = [lane EXCEPT ![starting] = "up"]
               /\ late' = IF stop = "no" THEN late ELSE late \union {starting}
            \/ /\ lane' = [lane EXCEPT ![starting] = "failed"]
               /\ UNCHANGED late
    /\ UNCHANGED <<scene, list, stop, snap, tired, allDead, envVars, pieceVars,
                   laneVars, scaleVars>>

\* mutant
RoomAlways == list < MaxLanes + 1
LaneRoom == list < MaxLanes

Append ==
    /\ LaneRoom
    /\ list' = list + 1
    /\ lane' = [lane EXCEPT ![list + 1] = "made"]
    /\ late' = IF stop = "no" THEN late ELSE late \union {list + 1}

\* The source's grow hook: a lane of the peer appeared.
Grows ==
    /\ scene = "life" /\ starting > 1 /\ Append
    /\ UNCHANGED <<scene, starting, stop, snap, tired, allDead, envVars,
                   pieceVars, laneVars, scaleVars>>

\* addLane starts what it appended, without the lock.
AddedStarts(l) ==
    /\ l > FirstLanes /\ lane[l] \in {"made", "stopped"} /\ l \in Present
    /\ l \notin late \/ lane[l] = "made"
    /\ \E s \in {"up", "failed"} :
        /\ lane[l] = "made" \/ s = "up"
        /\ lane' = [lane EXCEPT ![l] = s]
        /\ late' = IF stop = "no" \/ s = "failed" THEN late ELSE late \union {l}
    /\ UNCHANGED <<scene, list, starting, stop, snap, tired, allDead, envVars,
                   pieceVars, laneVars, scaleVars>>

AllCarry == \A l \in Present : Eligible(l) /\ ~Dead(l)

\* The autoscaler: the link was saturated for busySecs ...
ScaleUp ==
    /\ scene = "life" /\ starting > FirstLanes /\ stop = "no"
    /\ probing = "no" /\ ~ceiling /\ AllCarry /\ Append
    /\ probing' = "joining"
    /\ UNCHANGED <<scene, starting, stop, snap, tired, allDead, envVars,
                   pieceVars, laneVars, ceiling>>

\* ... the far side takes the newest lane up, or does not for joinWait ...
ScaleJoins ==
    /\ probing = "joining" /\ stop = "no"
    /\ probing' = IF Eligible(list) THEN "settling" ELSE "no"
    /\ UNCHANGED <<scene, lifeVars, envVars, pieceVars, laneVars, ceiling>>

\* ... it paid off or it did not ...
ScaleSettles ==
    /\ probing = "settling" /\ stop = "no"
    /\ probing' = "no" /\ ceiling' \in BOOLEAN
    /\ UNCHANGED <<scene, lifeVars, envVars, pieceVars, laneVars>>

\* ... which counts for reprobeAge.
ScaleForgets ==
    /\ ceiling
    /\ ceiling' = FALSE
    /\ UNCHANGED <<scene, lifeVars, envVars, pieceVars, laneVars, probing>>

Stop ==
    /\ scene = "life" /\ starting > FirstLanes /\ stop = "no"
    /\ stop' = "stopping" /\ snap' = Present
    /\ UNCHANGED <<scene, list, lane, starting, tired, late, allDead, envVars,
                   pieceVars, laneVars, scaleVars>>

\* mutant
StopsUp(l) == l \in snap /\ lane[l] = "up"
Stops(l) == l \in snap

\* A lane that was not started yet has nothing to stop.
StopLane(l) ==
    /\ stop = "stopping" /\ Stops(l)
    /\ snap' = snap \ {l}
    /\ lane' = [lane EXCEPT ![l] = "stopped"]
    /\ UNCHANGED <<scene, list, starting, stop, tired, late, allDead, envVars,
                   pieceVars, laneVars, scaleVars>>

StopReturns ==
    /\ stop = "stopping" /\ \A l \in snap : ~Stops(l)
    /\ stop' = "done"
    /\ UNCHANGED <<scene, list, lane, starting, snap, tired, late, allDead,
                   envVars, pieceVars, laneVars, scaleVars>>

AllDown == \A l \in Present : lane[l] # "up"

\* statsLoop, every 5 s; healthDeadline may be over at any later tick.
StatsTick ==
    /\ scene = "life" /\ starting > FirstLanes /\ stop = "no"
    /\ \/ allDead' = AllDown /\ UNCHANGED <<stop, snap, tired>>
       \/ /\ AllDown /\ allDead
          /\ stop' = "stopping" /\ snap' = Present /\ tired' = TRUE
          /\ UNCHANGED allDead
    /\ UNCHANGED <<scene, list, lane, starting, late, envVars, pieceVars,
                   laneVars, scaleVars>>

-----------------------------------------------------------------------------
Carry(l) == scene = "carry" /\ (PullResend(l) \/ PullNew(l))
Copy(l) == scene = "carry" /\ PullCopy(l)
Timers ==
    \/ \E p \in Pieces : Aged(p)
    \/ \E l \in Lanes : Older(l) \/ ProbeDue(l) \/ Warms(l)
Scale == ScaleUp \/ ScaleJoins \/ ScaleSettles \/ ScaleForgets

Next ==
    \/ \E l \in Lanes : Carry(l) \/ Copy(l) \/ AddedStarts(l) \/ StopLane(l)
    \/ \E p \in Pieces : Acked(p) \/ Overdue(p) \/ GiveUp(p)
    \/ Timers \/ Turns \/ StartLane \/ Grows \/ Scale
    \/ Stop \/ StopReturns \/ StatsTick

\* The pumps run, timers fire; what is sent again and again on a lane that is
\* forwarded gets through.  Nothing has to be given up.
Scheduled ==
    /\ \A l \in Lanes :
        /\ SF_stripeVars(Carry(l)) /\ WF_stripeVars(StopLane(l))
        /\ WF_stripeVars(Older(l)) /\ WF_stripeVars(ProbeDue(l))
        /\ WF_stripeVars(Warms(l))
    /\ \A p \in Pieces :
        /\ WF_stripeVars(Aged(p)) /\ WF_stripeVars(Overdue(p))
        /\ SF_stripeVars(piece[p] = "flight" /\ Acked(p))
    /\ WF_stripeVars(StopReturns) /\ WF_stripeVars(ScaleJoins)
    /\ WF_stripeVars(ScaleSettles)

Spec == Init /\ [][Next]_stripeVars /\ Scheduled

-----------------------------------------------------------------------------
Stages == {"none", "made", "up", "down", "failed", "stopped"}
TypeOK ==
    /\ list \in 0..MaxLanes
    /\ lane \in [Lanes -> Stages]
    /\ piece \in [Pieces -> {"new", "flight", "queued", "acked", "given up"}]
    /\ unanswered \in [Lanes -> 0..Unanswered]
    /\ delivered \in [Lanes -> {"never", "once", "lately", "now"}]

\* Once Stop has returned no lane is left running that was there and
\* started when Stop was called, whoever called it (striped.go:440).  A
\* lane the hook adds or that starts later is never stopped: late.
LanesStopped ==
    stop = "done" => \A l \in Present \ late : lane[l] \in {"stopped", "failed"}

\* A piece gets through while one lane carries, however many others are
\* dead: the sender does not leave it to a lane that will not send it
\* (striped.go:1029), and does not hold back the last lane there is
\* (striped.go:1007).  One case is left out: a lane that is held back for
\* another that is alive and may not send, disconnected or not watched, is
\* given no more than probes, which need new pieces.
Held(l) ==
    /\ Dead(l) /\ OthersAlive(l)
    /\ \A m \in Lanes \ {l} : Dead(m) \/ ~Eligible(m)
Waits ==
    /\ scene = "carry"
    /\ \E p \in Pieces : piece[p] \in {"new", "flight", "queued"}
    /\ \E l \in forwards : Eligible(l) /\ ~Held(l)
Carried == []<>~Waits
=============================================================================
