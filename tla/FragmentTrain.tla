--------------------------- MODULE FragmentTrain ---------------------------
\* Tunnel data in a Telemost video track (Core/transport/yandex/
\* fragment.go and telemost.go): a frame is cut into fragments, which wait
\* in a queue for the publish clock, travel as RTP packets that get lost,
\* late, out of order or are asked for again, and are put together by the
\* receiver, which follows a few frames at a time and not for long.
\*
\* Frames are numbered in the order writeQueue took them; a fragment is its frame and
\* its index. Time counts ticks of the publish clock.
EXTENDS Naturals, Sequences, FiniteSets, SequencesExt

CONSTANTS
    Sizes,      \* number of fragments of every frame sent
    SeqSpace,   \* frameSeq is a byte: 256
    PerTick,    \* maxFramesPerTick
    MaxQueued,  \* maxQueuedFrames
    MaxWrites,  \* capacity of writeQueue
    Slots,      \* reassemblySlots
    Patience,   \* reassembleTimeout, in ticks
    Lag,        \* ticks a packet spends on the way at most (a bound)
    Ring,       \* rtxRingSize
    MaxResent   \* packets asked for again (a bound)

VARIABLES
    sent,       \* frames writeQueue took so far
    writes,     \* writeQueue
    queue,      \* frameQueue
    rtp,        \* RTP packets written so far, with their fragment
    net,        \* packets on the way
    missed,     \* RTP numbers the network lost and may ask for
    resent,     \* how often it did
    now,
    slots,      \* the receiver's active slots, oldest first
    heard,      \* every fragment that arrived, with its tick
    out         \* what the receiver put together

senderVars == <<sent, writes, queue>>
wireVars == <<rtp, net, missed, resent>>
receiverVars == <<slots, heard, out>>
trainVars == <<senderVars, wireVars, now, receiverVars>>

Frames == DOMAIN Sizes
Fragments(f) == [i \in 1..Sizes[f] |-> [frame |-> f, index |-> i]]

\* mutant: one number for all
SameSeq(f) == 0
\* FragmentFrame takes the next number of one counter.
FrameSeq(f) == f % SeqSpace

Init ==
    /\ sent = 0 /\ writes = <<>> /\ queue = <<>>
    /\ rtp = <<>> /\ net = {} /\ missed = {} /\ resent = 0
    /\ now = 0
    /\ slots = <<>> /\ heard = {} /\ out = {}

-----------------------------------------------------------------------------
\* The sender

\* A full writeQueue refuses a frame, which then has no number.
Send ==
    /\ sent < Len(Sizes)
    /\ Len(writes) < MaxWrites
    /\ sent' = sent + 1
    /\ writes' = Append(writes, sent + 1)
    /\ UNCHANGED <<queue, wireVars, now, receiverVars>>

\* mutant: nothing is dropped
AllOf(q) == q
\* The oldest go until there is room for one; the new ones all come in.
Trimmed(q) == IF Len(q) >= MaxQueued THEN SubSeq(q, Len(q) - MaxQueued + 2, Len(q)) ELSE q

WriterLoop ==
    /\ writes # <<>>
    /\ writes' = Tail(writes)
    /\ queue' = Trimmed(queue) \o Fragments(Head(writes))
    /\ UNCHANGED <<sent, wireVars, now, receiverVars>>

AtMost(n, q) == IF Len(q) < n THEN Len(q) ELSE n

\* A tick of the publish clock; some packets do not make it.
Tick ==
    LET n == AtMost(PerTick, queue)
        numbers == {Len(rtp) + i : i \in 1..n}
        aged == {p \in net : now + 1 - p.at <= Lag}
    IN
    /\ \E lost \in SUBSET numbers :
         /\ missed' = missed \cup lost
         /\ net' = aged \cup {[seq |-> s, at |-> now + 1] : s \in numbers \ lost}
    /\ rtp' = rtp \o SubSeq(queue, 1, n)
    /\ queue' = SubSeq(queue, n + 1, Len(queue))
    /\ now' = now + 1
    /\ UNCHANGED <<sent, writes, resent, receiverVars>>

\* A NACK is answered from the ring, with the same number.
AnswerNACK(s) ==
    /\ s \in missed
    /\ resent < MaxResent
    /\ resent' = resent + 1
    /\ missed' = missed \ {s}
    /\ net' = IF s + Ring > Len(rtp) THEN net \cup {[seq |-> s, at |-> now]} ELSE net
    /\ UNCHANGED <<senderVars, rtp, now, receiverVars>>

-----------------------------------------------------------------------------
\* The receiver

\* mutant: a frame is waited for without end
NeverExpired(s) == FALSE
Expired(s) == now > s.deadline

Live == SelectSeq(slots, LAMBDA s : ~Expired(s))

\* mutant: a new frame takes the place of any other
OnlyOne == <<>>
\* claimSlot: with every slot taken the one closest to its deadline goes.
Room == IF Len(Live) < Slots THEN Live ELSE Tail(Live)

Fresh(g) == [seq |-> FrameSeq(g.frame), count |-> Sizes[g.frame], deadline |-> now + Patience,
             parts |-> [i \in 1..Sizes[g.frame] |-> 0]]

Assembling(seq) == {i \in DOMAIN Live : Live[i].seq = seq}

With(s, g) == [s EXCEPT !.parts[g.index] = IF @ = 0 THEN g.frame ELSE @]
Complete(s) == \A i \in DOMAIN s.parts : s.parts[i] # 0

Push(g) ==
    LET tracked == IF Assembling(FrameSeq(g.frame)) = {} THEN Append(Room, Fresh(g)) ELSE Live
        k == CHOOSE i \in DOMAIN tracked : tracked[i].seq = FrameSeq(g.frame)
        slot == With(tracked[k], g)
    IN  IF Complete(slot)
        THEN /\ slots' = RemoveAt(tracked, k)
             /\ out' = out \cup {slot.parts}
        ELSE /\ slots' = [tracked EXCEPT ![k] = slot]
             /\ UNCHANGED out

\* An index beyond the slot's fragments is out of range: the program ends.
Crash == <<>>
Fits(g) ==
    \A i \in Assembling(FrameSeq(g.frame)) : g.index <= Live[i].count

Arrive(p) ==
    LET g == rtp[p.seq] IN
    /\ p \in net
    /\ net' = net \ {p}
    /\ heard' = heard \cup {[frame |-> g.frame, index |-> g.index, at |-> now]}
    /\ IF Fits(g) THEN Push(g) ELSE out' = out \cup {Crash} /\ UNCHANGED slots
    /\ UNCHANGED <<senderVars, rtp, missed, resent, now>>

-----------------------------------------------------------------------------
\* Something is under way: without it nothing more can happen.
Active == queue # <<>> \/ net # {} \/ Live # <<>>

Next ==
    \/ Send
    \/ WriterLoop
    \/ Active /\ Tick
    \/ \E s \in missed : AnswerNACK(s)
    \/ \E p \in net : Arrive(p)

Spec == Init /\ [][Next]_trainVars

-----------------------------------------------------------------------------
TypeOK ==
    /\ sent \in 0..Len(Sizes)
    /\ writes \in Seq(Frames) /\ Len(writes) <= MaxWrites
    /\ \A q \in {queue, rtp} : \A i \in DOMAIN q : q[i].index \in 1..Sizes[q[i].frame]
    /\ {p.seq : p \in net} \cup missed \subseteq DOMAIN rtp
    /\ resent \in 0..MaxResent
    /\ Len(slots) <= Slots
    /\ \A i, j \in DOMAIN slots : i < j => slots[i].deadline <= slots[j].deadline

\* A stalled clock does not pile up latency: however fast Send is called,
\* the queue holds at most one frame more than its limit, and it holds
\* them in order (telemost.go:2700).
QueueBounded ==
    /\ \A n \in {Len(queue)} : n > MaxQueued => \E f \in Frames : n < MaxQueued + Sizes[f]
    /\ \A i, j \in DOMAIN queue : i < j =>
         \/ queue[i].frame < queue[j].frame
         \/ queue[i].frame = queue[j].frame /\ queue[i].index < queue[j].index

\* What the receiver hands on is a frame as it was sent: the byte that
\* tells frames apart wraps, and "wrapping at 256 leaves a wide margin"
\* (fragment.go:63).
NoSplice == \A parts \in out : \E f \in Frames : parts = [i \in 1..Sizes[f] |-> f]

\* Order does not matter: a frame all of whose fragments arrive within the
\* timeout is delivered, whatever arrives between them, unless more frames
\* were under way than there are slots (fragment.go:131-149).
Interleaved(f, from, to) ==
    {g \in Frames : \E h \in heard : h.frame = g /\ h.at \in (IF from < Patience THEN 0 ELSE from - Patience)..to}

OrderFree ==
    \A f \in Frames : \A from \in {h.at : h \in {k \in heard : k.frame = f}} :
        LET mine == {h \in heard : h.frame = f}
            last == from + Patience
        IN  /\ {h.index : h \in mine} = 1..Sizes[f]
            /\ \A h \in mine : h.at \in from..last
            /\ Cardinality(Interleaved(f, from, last)) <= Slots
            => [i \in 1..Sizes[f] |-> f] \in out
=============================================================================
