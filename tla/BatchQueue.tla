---------------------------- MODULE BatchQueue ----------------------------
\* BatchedTransport (Core/transport/batched.go): callers of Send put
\* packets into a bounded queue, flushLoop packs them into batches and
\* hands each batch to the carrier below until that takes it.
\*
\* A call of Send is a packet of its own; Send takes a step where it loads
\* `running`, one in its select, one where it loads `running` again. The
\* select of a closed stopCh and a queue with room is a free choice, as it
\* is in Go. Sizes are counted in packets: MaxCount stands for both
\* maxBatchCount and maxBatchBytes.
EXTENDS Naturals, Sequences

CONSTANTS
    Packets,    \* one per call of Send
    Depth,      \* batchQueueDepth
    MaxCount    \* maxBatchCount

VARIABLES
    call,       \* Packets -> where the call of Send is
    queue,      \* the channel
    batch,      \* what flushLoop holds
    wire,       \* what the carrier below took, in that order
    accepted,   \* what went into the channel, in that order
    running,    \* running
    stopped,    \* stopCh is closed
    loop        \* where flushLoop is

batchVars == <<call, queue, batch, wire, accepted, running, stopped, loop>>
flushVars == <<queue, batch, wire, loop>>

Init ==
    /\ call = [p \in Packets |-> "idle"]
    /\ queue = <<>>
    /\ batch = <<>>
    /\ wire = <<>>
    /\ accepted = <<>>
    /\ running = FALSE
    /\ stopped = FALSE
    /\ loop = "none"

\* The carrier below came up; a failed Start leaves everything as it was.
Start ==
    /\ ~stopped
    /\ ~running
    /\ running' = TRUE
    /\ loop' = "top"
    /\ UNCHANGED <<call, queue, batch, wire, accepted, stopped>>

Stop ==
    /\ ~stopped
    /\ running' = FALSE
    /\ stopped' = TRUE
    /\ UNCHANGED <<call, queue, batch, wire, accepted, loop>>

-----------------------------------------------------------------------------
Moves(p, from, to) ==
    /\ call[p] = from
    /\ call' = [call EXCEPT ![p] = to]

Send(p) ==
    /\ Moves(p, "idle", IF running THEN "checked" ELSE "refused")
    /\ UNCHANGED <<flushVars, accepted, running, stopped>>

\* mutant
AlwaysRoom == TRUE
HasRoom == Len(queue) < Depth

Enqueue(p) ==
    /\ HasRoom
    /\ \/ Moves(p, "checked", "queued")
       \/ Moves(p, "waiting", "queued")
    /\ queue' = Append(queue, p)
    /\ accepted' = Append(accepted, p)
    /\ UNCHANGED <<batch, wire, loop, running, stopped>>

\* The queue is full: the caller is held back.
Wait(p) ==
    /\ ~HasRoom
    /\ ~stopped
    /\ Moves(p, "checked", "waiting")
    /\ UNCHANGED <<flushVars, accepted, running, stopped>>

Abandon(p) ==
    /\ stopped
    /\ \/ Moves(p, "checked", "refused")
       \/ Moves(p, "waiting", "refused")
    /\ UNCHANGED <<flushVars, accepted, running, stopped>>

Return(p) ==
    /\ Moves(p, "queued", IF running THEN "sent" ELSE "refused")
    /\ UNCHANGED <<flushVars, accepted, running, stopped>>

-----------------------------------------------------------------------------
Goes(from, to) ==
    /\ loop = from
    /\ loop' = to

Absorb ==
    /\ queue # <<>>
    /\ batch' = Append(batch, Head(queue))
    /\ queue' = Tail(queue)

LoopTop ==
    /\ Goes("top", IF running THEN "idle" ELSE "exit")
    /\ UNCHANGED <<queue, batch, wire, call, accepted, running, stopped>>

TakeFirst ==
    /\ Goes("idle", "drain")
    /\ Absorb
    /\ UNCHANGED <<wire, call, accepted, running, stopped>>

\* Phase 1: what is queued already.
Drain ==
    /\ \/ /\ Len(batch) < MaxCount
          /\ Absorb
          /\ Goes("drain", "drain")
       \/ /\ Len(batch) >= MaxCount \/ queue = <<>>
          /\ Goes("drain", IF Len(batch) < MaxCount THEN "linger" ELSE "offer")
          /\ UNCHANGED <<queue, batch>>
    /\ UNCHANGED <<wire, call, accepted, running, stopped>>

\* Phase 2: stragglers, until the timer fires or the batch is full.
Linger ==
    /\ \/ /\ Len(batch) < MaxCount
          /\ Absorb
          /\ Goes("linger", "linger")
       \/ /\ Goes("linger", "offer")
          /\ UNCHANGED <<queue, batch>>
    /\ UNCHANGED <<wire, call, accepted, running, stopped>>

\* Every select of flushLoop also waits for stopCh; the batch in hand is lost.
LoopStop ==
    /\ stopped
    /\ loop \in {"idle", "linger", "pause"}
    /\ loop' = "exit"
    /\ UNCHANGED <<queue, batch, wire, call, accepted, running, stopped>>

Offer ==
    /\ Goes("offer", IF running THEN "sending" ELSE "top")
    /\ UNCHANGED <<queue, batch, wire, call, accepted, running, stopped>>

CarrierTakes ==
    /\ Goes("sending", "top")
    /\ wire' = wire \o batch
    /\ batch' = <<>>
    /\ UNCHANGED <<queue, call, accepted, running, stopped>>

\* mutant: the next packets go first
GivesUpBatch ==
    /\ Goes("sending", "top")
    /\ batch' = <<>>
    /\ UNCHANGED <<queue, wire, call, accepted, running, stopped>>
CarrierRefuses ==
    /\ Goes("sending", "pause")
    /\ UNCHANGED <<queue, batch, wire, call, accepted, running, stopped>>

Retry ==
    /\ Goes("pause", "offer")
    /\ UNCHANGED <<queue, batch, wire, call, accepted, running, stopped>>

-----------------------------------------------------------------------------
Flush ==
    \/ LoopTop
    \/ TakeFirst
    \/ Drain
    \/ Linger
    \/ LoopStop
    \/ Offer
    \/ CarrierTakes
    \/ CarrierRefuses
    \/ Retry

Next ==
    \/ Start
    \/ Stop
    \/ Flush
    \/ \E p \in Packets : Send(p) \/ Enqueue(p) \/ Wait(p) \/ Abandon(p) \/ Return(p)

Spec == Init /\ [][Next]_batchVars

\* flushLoop runs, its timers fire, a caller that can go on does (weak),
\* and a carrier that refuses takes a batch in the end (strong). Nobody is
\* made to Start or Stop.
Fairness ==
    /\ WF_batchVars(LoopTop \/ TakeFirst \/ Drain \/ Linger \/ LoopStop \/ Offer \/ Retry)
    /\ WF_batchVars(Linger)
    /\ WF_batchVars(LoopStop)
    /\ SF_batchVars(CarrierTakes)
    /\ \A p \in Packets : WF_batchVars(Enqueue(p) \/ Abandon(p) \/ Return(p) \/ Wait(p))

FairSpec == Spec /\ Fairness

-----------------------------------------------------------------------------
Calls == {"idle", "checked", "waiting", "queued", "sent", "refused"}

TypeOK ==
    /\ call \in [Packets -> Calls]
    /\ queue \in Seq(Packets) /\ Len(queue) <= Depth
    /\ batch \in Seq(Packets) /\ Len(batch) <= MaxCount
    /\ wire \in Seq(Packets)
    /\ accepted \in Seq(Packets)
    /\ running \in BOOLEAN
    /\ stopped \in BOOLEAN
    /\ loop \in {"none", "top", "idle", "drain", "linger", "offer", "sending", "pause", "exit"}

\* Nothing is lost, doubled or overtaken between the callers and the
\* carrier, however often the carrier refuses: what was let in is what
\* went out, then the batch in hand, then the queue (batched.go:280).
NothingLost == accepted = wire \o batch \o queue

\* A Send that returned nil without a Stop has its packet on the way or
\* delivered, and one that was refused while nobody stopped the layer
\* never entered the queue (batched.go:134-166).
Honest ==
    \A p \in Packets :
        /\ call[p] = "sent" => \E i \in 1..Len(accepted) : accepted[i] = p
        /\ call[p] = "refused" /\ ~stopped => \A i \in 1..Len(accepted) : accepted[i] # p

\* Why that is so: a packet is in the channel's history from the select of
\* its Send on, nobody is let in before Start, and flushLoop is empty-
\* handed wherever it takes a first packet.
LetIn(p) == \E i \in 1..Len(accepted) : accepted[i] = p

IInv ==
    /\ TypeOK /\ NothingLost
    /\ running => ~stopped
    /\ ~running /\ ~stopped => loop = "none" /\ \A p \in Packets : call[p] \in {"idle", "refused"}
    /\ loop \in {"none", "idle"} \/ (loop = "top" /\ ~stopped) => batch = <<>>
    /\ \A p \in Packets :
        /\ call[p] \in {"idle", "checked", "waiting"} => ~LetIn(p)
        /\ call[p] \in {"queued", "sent"} => LetIn(p)
        /\ call[p] = "refused" /\ ~stopped => ~LetIn(p)

\* Every accepted packet goes out unless the layer is stopped, although
\* the carrier may refuse any number of times (batched.go:284-299), and
\* backpressure ends: a caller held back by a full queue returns, when
\* there is room or when the layer is stopped (batched.go:148-159).
Held(p) ==
    \/ call[p] = "waiting"
    \/ call[p] = "sent" /\ ~stopped /\ \A i \in 1..Len(wire) : wire[i] # p
GoesOut == []<>(\A p \in Packets : ~Held(p))

\* The layer is the pipe its users see.
Pipe == INSTANCE PacketPipe WITH in <- accepted, out <- Len(wire)
ImplementsPipe == Pipe!Spec
============================================================================
