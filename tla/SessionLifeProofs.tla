------------------------- MODULE SessionLifeProofs -------------------------
\* What a session, its carriers and the queue above one of them never do,
\* for any number of clients, exits, carriers, builds, requests and
\* packets, any window and any loss, replay, reordering and restarts.
EXTENDS MCSessionLife, SequenceTheorems, FiniteSetTheorems, TLAPS

-----------------------------------------------------------------------------
\* The queue of a carrier.

\* One select of flushLoop moves one packet from the queue to the batch.
LEMMA AbsorbMoves ==
  ASSUME Queue!TypeOK, Queue!Absorb
  PROVE  /\ qQueue' \in Seq(Packets) /\ Len(qQueue') = Len(qQueue) - 1
         /\ qBatch' \in Seq(Packets) /\ Len(qBatch') = Len(qBatch) + 1
         /\ qBatch' \o qQueue' = qBatch \o qQueue
<1>1. qQueue # <<>> /\ qQueue \in Seq(Packets) /\ qBatch \in Seq(Packets)
  BY DEF Queue!TypeOK, Queue!Absorb
<1>2. /\ qQueue' = Tail(qQueue) /\ qBatch' = Append(qBatch, Head(qQueue))
  BY DEF Queue!Absorb
<1>3. Head(qQueue) \in Packets /\ Tail(qQueue) \in Seq(Packets) /\ Len(Tail(qQueue)) = Len(qQueue) - 1
  BY <1>1
<1>4. qBatch' \o qQueue' = qBatch \o qQueue
  BY <1>1, <1>2, <1>3
<1> QED BY <1>1, <1>2, <1>3, <1>4

LEMMA Regroup ==
  ASSUME NEW s \in Seq(Packets), NEW t \in Seq(Packets), NEW u \in Seq(Packets)
  PROVE  (s \o t) \o u = s \o (t \o u)
BY ConcatAssociative

\* Appending a packet lets in that packet and no other.
LEMMA AppendLetsIn ==
  ASSUME NEW s \in Seq(Packets), NEW p \in Packets
  PROVE  /\ Append(s, p) \in Seq(Packets)
         /\ \A r \in Packets : (\E i \in 1..Len(Append(s, p)) : Append(s, p)[i] = r)
                <=> r = p \/ \E i \in 1..Len(s) : s[i] = r
<1>1. Append(s, p) \in Seq(Packets) /\ Len(Append(s, p)) = Len(s) + 1
  OBVIOUS
<1>2. Append(s, p)[Len(s) + 1] = p /\ \A i \in 1..Len(s) : Append(s, p)[i] = s[i]
  OBVIOUS
<1>3. Len(s) \in Nat
  OBVIOUS
<1>4. ASSUME NEW r \in Packets, NEW i \in 1..Len(Append(s, p)), Append(s, p)[i] = r
      PROVE  r = p \/ \E j \in 1..Len(s) : s[j] = r
  <2>1. i = Len(s) + 1 \/ i \in 1..Len(s)
    BY <1>1, <1>3
  <2> QED BY <2>1, <1>2, <1>4
<1>5. ASSUME NEW r \in Packets, r = p \/ \E j \in 1..Len(s) : s[j] = r
      PROVE  \E i \in 1..Len(Append(s, p)) : Append(s, p)[i] = r
  <2>1. CASE r = p
    BY <2>1, <1>1, <1>2, <1>3
  <2>2. ASSUME NEW j \in 1..Len(s), s[j] = r PROVE \E i \in 1..Len(Append(s, p)) : Append(s, p)[i] = r
    BY <2>2, <1>1, <1>2, <1>3
  <2> QED BY <2>1, <2>2, <1>5
<1> QED BY <1>1, <1>4, <1>5

LEMMA QueueInit == Queue!Init => Queue!IInv
<1> SUFFICES ASSUME Queue!Init PROVE Queue!IInv
  OBVIOUS
<1>0. <<>> \in Seq(Packets) /\ Len(<<>>) = 0
  BY EmptySeq
<1>1. Queue!TypeOK
  <2>1. qCall \in [Packets -> Queue!Calls]
    BY DEF Queue!Init, Queue!Calls
  <2>2. Len(qQueue) <= Depth /\ Len(qBatch) <= MaxCount
    BY <1>0, QueueAssumption DEF Queue!Init, QueueAssumption
  <2> QED BY <1>0, <2>1, <2>2 DEF Queue!Init, Queue!TypeOK
<1>2. Queue!NothingLost
  BY DEF Queue!Init, Queue!NothingLost
<1> QED BY <1>1, <1>2 DEF Queue!Init, Queue!IInv, Queue!LetIn

LEMMA QueueStep == Queue!IInv /\ [Queue!Next]_queueVars => Queue!IInv'
<1> SUFFICES ASSUME Queue!IInv, [Queue!Next]_queueVars PROVE Queue!IInv'
  OBVIOUS
<1> USE QueueAssumption DEF QueueAssumption, Queue!Calls
<1>typed. Queue!TypeOK /\ Queue!NothingLost
  BY DEF Queue!IInv
<1>1. CASE Queue!Start \/ Queue!Stop
  <2>1. UNCHANGED <<qCall, qQueue, qBatch, qWire, qAccepted>>
    BY <1>1 DEF Queue!Start, Queue!Stop
  <2>2. \A r \in Packets : Queue!LetIn(r)' <=> Queue!LetIn(r)
    BY <2>1 DEF Queue!LetIn
  <2>3. CASE Queue!Start
    <3>1. ~qStopped /\ ~qRunning /\ qRunning' /\ qLoop' = "top" /\ qStopped' = qStopped
      BY <2>3, <1>typed DEF Queue!Start, Queue!TypeOK
    <3>2. qBatch = <<>>
      BY <3>1 DEF Queue!IInv
    <3>3. Queue!TypeOK' /\ Queue!NothingLost'
      BY <1>typed, <2>1, <3>1, <2>3 DEF Queue!TypeOK, Queue!NothingLost, Queue!Start
    <3> QED BY <2>1, <2>2, <3>1, <3>2, <3>3 DEF Queue!IInv
  <2>4. CASE Queue!Stop
    <3>1. ~qStopped /\ ~qRunning' /\ qStopped' /\ qLoop' = qLoop
      BY <2>4 DEF Queue!Stop
    <3>2. Queue!TypeOK' /\ Queue!NothingLost'
      BY <1>typed, <2>1, <2>4 DEF Queue!TypeOK, Queue!NothingLost, Queue!Stop
    <3> QED BY <2>1, <2>2, <3>1, <3>2 DEF Queue!IInv
  <2> QED BY <1>1, <2>3, <2>4
<1>2. ASSUME NEW p \in Packets, Queue!Send(p) \/ Queue!Wait(p) \/ Queue!Abandon(p) \/ Queue!Return(p)
      PROVE  Queue!IInv'
  <2>1. UNCHANGED <<qQueue, qBatch, qWire, qLoop, qAccepted, qRunning, qStopped>>
    BY <1>2 DEF Queue!Send, Queue!Wait, Queue!Abandon, Queue!Return, Queue!flushVars
  <2>2. Queue!TypeOK'
    BY <1>2, <1>typed, <2>1 DEF Queue!Send, Queue!Wait, Queue!Abandon, Queue!Return, Queue!Moves, Queue!TypeOK
  <2>3. Queue!NothingLost'
    BY <1>typed, <2>1 DEF Queue!NothingLost
  <2>4. \A r \in Packets : Queue!LetIn(r)' <=> Queue!LetIn(r)
    BY <2>1 DEF Queue!LetIn
  <2>5. \A r \in Packets : r # p => qCall'[r] = qCall[r]
    BY <1>2, <1>typed DEF Queue!Send, Queue!Wait, Queue!Abandon, Queue!Return, Queue!Moves, Queue!TypeOK
  <2>6. \/ qCall[p] = "idle" /\ qRunning /\ qCall'[p] = "checked"
        \/ qCall[p] = "idle" /\ ~qRunning /\ qCall'[p] = "refused"
        \/ qCall[p] = "checked" /\ ~qStopped /\ qCall'[p] = "waiting"
        \/ qCall[p] \in {"checked", "waiting"} /\ qStopped /\ qCall'[p] = "refused"
        \/ qCall[p] = "queued" /\ qRunning /\ qCall'[p] = "sent"
        \/ qCall[p] = "queued" /\ ~qRunning /\ qCall'[p] = "refused"
    BY <1>2, <1>typed DEF Queue!Send, Queue!Wait, Queue!Abandon, Queue!Return, Queue!Moves, Queue!TypeOK
  <2> QED BY <2>1, <2>2, <2>3, <2>4, <2>5, <2>6 DEF Queue!IInv
<1>3. ASSUME NEW p \in Packets, Queue!Enqueue(p) PROVE Queue!IInv'
  <2>1. /\ qCall[p] \in {"checked", "waiting"} /\ qCall' = [qCall EXCEPT ![p] = "queued"]
        /\ qQueue' = Append(qQueue, p) /\ qAccepted' = Append(qAccepted, p)
        /\ UNCHANGED <<qBatch, qWire, qLoop, qRunning, qStopped>> /\ Len(qQueue) < Depth
    BY <1>3 DEF Queue!Enqueue, Queue!Moves, Queue!HasRoom
  <2>2. Queue!TypeOK'
    BY <2>1, <1>typed, AppendLetsIn DEF Queue!TypeOK
  <2>3. Queue!NothingLost'
    <3>1. qWire \o qBatch \in Seq(Packets) /\ qQueue \in Seq(Packets)
      BY <1>typed DEF Queue!TypeOK
    <3>2. Append((qWire \o qBatch) \o qQueue, p) = (qWire \o qBatch) \o Append(qQueue, p)
      <4>1. (qWire \o qBatch) \o qQueue \in Seq(Packets) /\ <<p>> \in Seq(Packets)
        BY <3>1, ConcatProperties
      <4>2. Append((qWire \o qBatch) \o qQueue, p) = ((qWire \o qBatch) \o qQueue) \o <<p>>
        BY <4>1, AppendIsConcat
      <4>3. Append(qQueue, p) = qQueue \o <<p>>
        BY <3>1, AppendIsConcat
      <4> QED BY <3>1, <4>1, <4>2, <4>3, ConcatAssociative
    <3> QED BY <3>2, <2>1, <1>typed DEF Queue!NothingLost
  <2>4. \A r \in Packets : Queue!LetIn(r)' <=> r = p \/ Queue!LetIn(r)
    <3>1. qAccepted \in Seq(Packets)
      BY <1>typed DEF Queue!TypeOK
    <3>2. \A r \in Packets : (\E i \in 1..Len(Append(qAccepted, p)) : Append(qAccepted, p)[i] = r)
                <=> r = p \/ \E i \in 1..Len(qAccepted) : qAccepted[i] = r
      BY <3>1, AppendLetsIn
    <3> QED BY <3>2, <2>1 DEF Queue!LetIn
  <2>5. \A r \in Packets : qCall'[r] = IF r = p THEN "queued" ELSE qCall[r]
    BY <2>1, <1>typed DEF Queue!TypeOK
  <2>6. qRunning \/ qStopped
    BY <2>1 DEF Queue!IInv
  <2> QED BY <2>1, <2>2, <2>3, <2>4, <2>5, <2>6 DEF Queue!IInv
<1>4. CASE Queue!Flush
  <2>1. UNCHANGED <<qCall, qAccepted, qRunning, qStopped>>
    BY <1>4 DEF Queue!Flush, Queue!LoopTop, Queue!TakeFirst, Queue!Drain, Queue!Linger, Queue!LoopStop, Queue!Offer,
      Queue!CarrierTakes, Queue!CarrierRefuses, Queue!Retry
  <2>2. \A r \in Packets : Queue!LetIn(r)' <=> Queue!LetIn(r)
    BY <2>1 DEF Queue!LetIn
  <2>3. CASE Queue!LoopTop \/ Queue!LoopStop \/ Queue!Offer \/ Queue!CarrierRefuses \/ Queue!Retry
    BY <2>1, <2>2, <2>3, <1>typed DEF Queue!LoopTop, Queue!LoopStop, Queue!Offer, Queue!CarrierRefuses, Queue!Retry, Queue!Goes,
      Queue!IInv, Queue!TypeOK, Queue!NothingLost
  <2>4. CASE Queue!CarrierTakes
    <3>1. qWire' = qWire \o qBatch /\ qBatch' = <<>> /\ qQueue' = qQueue /\ qLoop' = "top" /\ qLoop = "sending"
      BY <2>4 DEF Queue!CarrierTakes, Queue!Goes
    <3>2. qWire' \in Seq(Packets) /\ (qWire \o qBatch) \o <<>> \o qQueue = qWire \o qBatch \o qQueue
      BY <3>1, <1>typed DEF Queue!TypeOK
    <3>3. Queue!TypeOK'
      BY <3>1, <3>2, <2>1, <1>typed DEF Queue!TypeOK
    <3>4. Queue!NothingLost'
      BY <3>1, <3>2, <2>1, <1>typed DEF Queue!NothingLost
    <3> QED BY <2>1, <2>2, <3>1, <3>3, <3>4 DEF Queue!IInv
  <2>5. ASSUME Queue!Absorb, qWire' = qWire, Len(qBatch) < MaxCount,
               qLoop \in {"idle", "drain", "linger"}, qLoop' \in {"drain", "linger"}
        PROVE  Queue!IInv'
    <3>1. /\ qQueue' \in Seq(Packets) /\ Len(qQueue') = Len(qQueue) - 1
          /\ qBatch' \in Seq(Packets) /\ Len(qBatch') = Len(qBatch) + 1
          /\ qBatch' \o qQueue' = qBatch \o qQueue
      BY <1>typed, <2>5, AbsorbMoves
    <3>2. Queue!TypeOK'
      BY <3>1, <2>1, <2>5, <1>typed DEF Queue!TypeOK
    <3>3. /\ (qWire \o qBatch) \o qQueue = qWire \o (qBatch \o qQueue)
          /\ (qWire \o qBatch') \o qQueue' = qWire \o (qBatch' \o qQueue')
      <4>1. qWire \in Seq(Packets) /\ qBatch \in Seq(Packets) /\ qQueue \in Seq(Packets)
        BY <1>typed DEF Queue!TypeOK
      <4>2. \A b, q \in Seq(Packets) : (qWire \o b) \o q = qWire \o (b \o q)
        BY <4>1, Regroup, Zenon
      <4>3. qBatch' \in Seq(Packets) /\ qQueue' \in Seq(Packets)
        BY <3>1
      <4> QED BY <4>1, <4>2, <4>3, Zenon
    <3>4. Queue!NothingLost'
      BY <3>1, <3>3, <2>1, <2>5, <1>typed DEF Queue!NothingLost
    <3> QED BY <2>1, <2>2, <2>5, <3>2, <3>4 DEF Queue!IInv
  <2>6. CASE Queue!TakeFirst
    <3>1. qLoop = "idle" /\ qLoop' = "drain" /\ Queue!Absorb /\ qWire' = qWire
      BY <2>6 DEF Queue!TakeFirst, Queue!Goes
    <3>2. Len(qBatch) < MaxCount
      BY <3>1 DEF Queue!IInv
    <3> QED BY <3>1, <3>2, <2>5
  <2>7. CASE Queue!Drain \/ Queue!Linger
    <3>1. CASE Queue!Absorb
      <4>1. Len(qBatch) < MaxCount
        <5>1. qQueue' # qQueue
          BY <3>1, <1>typed, AbsorbMoves DEF Queue!TypeOK
        <5> QED BY <5>1, <2>7 DEF Queue!Drain, Queue!Linger
      <4>2. qBatch' # qBatch
        BY <3>1, <1>typed, AbsorbMoves DEF Queue!TypeOK
      <4> QED BY <2>5, <2>7, <3>1, <4>1, <4>2 DEF Queue!Drain, Queue!Linger, Queue!Goes
    <3>2. CASE ~Queue!Absorb
      BY <2>1, <2>2, <2>7, <3>2, <1>typed DEF Queue!Drain, Queue!Linger, Queue!Goes, Queue!IInv, Queue!TypeOK, Queue!NothingLost
    <3> QED BY <3>1, <3>2
  <2> QED BY <1>4, <2>3, <2>4, <2>6, <2>7 DEF Queue!Flush
<1>5. CASE UNCHANGED queueVars
  BY <1>5 DEF queueVars, Queue!IInv, Queue!TypeOK, Queue!NothingLost, Queue!LetIn
<1> QED BY <1>1, <1>2, <1>3, <1>4, <1>5 DEF Queue!Next

\* The batching layer loses, doubles and reorders nothing, and a caller of
\* Send is told the truth: whatever the order of Start, Stop, the callers,
\* flushLoop and a carrier that refuses (batched.go:134-166, 280).
THEOREM QueueLosesNothing == LifeSpec => []NothingLost
<1>1. LifeInit => Queue!IInv
  BY QueueInit DEF LifeInit
<1>2. Queue!IInv /\ [LifeNext]_lifeVars => Queue!IInv'
  <2>1. [LifeNext]_lifeVars => [Queue!Next]_queueVars
    BY DEF LifeNext, OthersRest, Handshakes, lifeVars
  <2> QED BY <2>1, QueueStep
<1>3. Queue!IInv => NothingLost
  <2> SUFFICES ASSUME Queue!IInv PROVE NothingLost
    OBVIOUS
  <2>1. ASSUME NEW p \in Packets
        PROVE  /\ qCall[p] = "sent" => Queue!LetIn(p)
               /\ qCall[p] = "refused" /\ ~qStopped => ~Queue!LetIn(p)
    BY DEF Queue!IInv
  <2>2. Queue!Honest
    BY <2>1 DEF Queue!Honest, Queue!LetIn
  <2> QED BY <2>2 DEF Queue!IInv, NothingLost
<1> QED BY <1>1, <1>2, <1>3, PTL DEF LifeSpec

\* The batching layer is a pipe: packets leave in the order in which they
\* were let in, each at most once (batched.go:169-300).
THEOREM QueueIsPipe == LifeSpec => Queue!Pipe!Spec
<1>1. LifeInit => Queue!IInv /\ Queue!Pipe!Init
  BY QueueInit DEF LifeInit, Queue!Init, Queue!Pipe!Init
<1>2. Queue!IInv /\ [LifeNext]_lifeVars => Queue!IInv'
  <2>1. [LifeNext]_lifeVars => [Queue!Next]_queueVars
    BY DEF LifeNext, OthersRest, Handshakes, lifeVars
  <2> QED BY <2>1, QueueStep
<1>3. Queue!IInv /\ [LifeNext]_lifeVars => [Queue!Pipe!Next]_<<qAccepted, Len(qWire)>>
  <2> SUFFICES ASSUME Queue!IInv, [Queue!Next]_queueVars
               PROVE  [Queue!Pipe!Next]_<<qAccepted, Len(qWire)>>
    BY DEF LifeNext, OthersRest, Handshakes, lifeVars
  <2>1. CASE qAccepted' = qAccepted /\ qWire' = qWire
    BY <2>1
  <2>2. ASSUME NEW p \in Packets, Queue!Enqueue(p)
        PROVE  Queue!Pipe!Next
    BY <2>2 DEF Queue!Enqueue, Queue!Pipe!Next, Queue!Pipe!Accept
  <2>3. CASE Queue!CarrierTakes
    <3>1. /\ qWire \in Seq(Packets) /\ qBatch \in Seq(Packets) /\ qQueue \in Seq(Packets)
          /\ qAccepted = (qWire \o qBatch) \o qQueue
      BY DEF Queue!IInv, Queue!TypeOK, Queue!NothingLost
    <3>2. qWire' = qWire \o qBatch /\ qAccepted' = qAccepted
      BY <2>3 DEF Queue!CarrierTakes
    <3>3. /\ Len(qWire \o qBatch) = Len(qWire) + Len(qBatch)
          /\ Len(qAccepted) = Len(qWire) + Len(qBatch) + Len(qQueue)
          /\ Len(qWire) \in Nat /\ Len(qBatch) \in Nat /\ Len(qQueue) \in Nat
      BY <3>1, ConcatProperties, LenProperties
    <3>4. CASE Len(qBatch) = 0
      BY <3>2, <3>3, <3>4
    <3>5. CASE Len(qBatch) # 0
      <4>1. Len(qBatch) \in 1..Len(qAccepted)
        BY <3>3, <3>5
      <4>2. Queue!Pipe!Leave(Len(qBatch))
        BY <3>2, <3>3 DEF Queue!Pipe!Leave
      <4> QED BY <4>1, <4>2 DEF Queue!Pipe!Next
    <3> QED BY <3>4, <3>5
  <2>4. ASSUME Queue!Next, ~(qAccepted' = qAccepted /\ qWire' = qWire)
        PROVE  Queue!CarrierTakes \/ \E p \in Packets : Queue!Enqueue(p)
    BY <2>4 DEF Queue!Next, Queue!Start, Queue!Stop, Queue!Send, Queue!Wait, Queue!Abandon, Queue!Return, Queue!Flush,
      Queue!LoopTop, Queue!TakeFirst, Queue!Drain, Queue!Linger, Queue!LoopStop, Queue!Offer, Queue!CarrierRefuses, Queue!Retry,
      Queue!flushVars
  <2> QED BY <2>1, <2>2, <2>3, <2>4 DEF queueVars
<1> QED BY <1>1, <1>2, <1>3, PTL DEF LifeSpec, Queue!Pipe!Spec

-----------------------------------------------------------------------------
\* The carriers of a session.  A step is about one name: it leaves what is
\* known of every other name alone.

About(t, n) == tTask[t].at # "idle" => tTask[t].name = n

Only(n) ==
  /\ \A m \in Names : m # n => tLinks'[m] = tLinks[m] /\ tEntries'[m] = tEntries[m]
  /\ \A b \in Builds : tNameOf[b] # None => tNameOf'[b] = tNameOf[b]
  /\ \A b \in Builds : tNameOf'[b] # n =>
       /\ tNameOf'[b] = tNameOf[b] /\ tRaw'[b] = tRaw[b]
       /\ tPipe'[b] = tPipe[b] /\ tSup'[b] = tSup[b]
       /\ b \in tBoot' <=> b \in tBoot
       /\ b \in tStop'.links <=> b \in tStop.links
  /\ \A t \in Tasks : tTask'[t] = tTask[t] \/ (About(t, n) /\ About(t, n)')
  /\ tStarted' = tStarted /\ tStopped' = tStopped /\ tStop'.at = tStop.at
  /\ tLate \subseteq tLate'

\* What stays true of another name when a step is about n.
LEMMA OthersKept ==
  ASSUME Table!IInv, NEW n \in Names, Only(n), NEW m \in Names, m # n
  PROVE  Table!Kept(m)'
<1>0. /\ m # None /\ None \notin Builds
      /\ Table!Kept(m) /\ Table!TasksTyped /\ Table!TypeOK
  BY TableAssumption DEF TableAssumption, Table!IInv
<1>1. \A b \in Builds : tNameOf'[b] = m <=> tNameOf[b] = m
  BY <1>0 DEF Only
<1>2. /\ tLinks'[m] = tLinks[m] /\ tEntries'[m] = tEntries[m]
      /\ \A b \in Builds : tNameOf[b] = m =>
           /\ tRaw'[b] = tRaw[b] /\ tPipe'[b] = tPipe[b] /\ tSup'[b] = tSup[b]
           /\ b \in tBoot' <=> b \in tBoot
           /\ b \in tStop'.links <=> b \in tStop.links
      /\ tStarted' = tStarted /\ tStopped' = tStopped /\ tStop'.at = tStop.at
      /\ tLate \subseteq tLate'
  BY <1>1 DEF Only
<1>3. \A t \in Tasks :
        /\ tTask'[t].at # "idle" /\ tTask'[t].name = m => tTask'[t] = tTask[t]
        /\ tTask[t].at # "idle" /\ tTask[t].name = m => tTask'[t] = tTask[t]
  BY DEF Only, About
<1>4. /\ tLinks[m] # None => tLinks[m] \in Builds /\ tNameOf[tLinks[m]] = m
      /\ tEntries[m] # None => tEntries[m] \in Builds /\ tNameOf[tEntries[m]] = m
      /\ \A b \in Builds : tNameOf[b] = m => tRaw[b] \in Builds /\ tNameOf[tRaw[b]] = m
  BY <1>0 DEF Table!Kept, Table!Named, Table!TypeOK
<1>5. Table!Named(m)'
  BY <1>0, <1>1, <1>2, <1>4 DEF Table!Kept, Table!Named
<1>6. ~Table!Busy(m)' => tLinks'[m] = Table!Wanted(m)'
  <2>1. ~Table!Busy(m)' => ~Table!Busy(m)
    BY <1>3 DEF Table!Busy
  <2>2. Table!Wanted(m)' = Table!Wanted(m)
    BY <1>2, <1>4 DEF Table!Wanted
  <2> QED BY <1>0, <1>2, <2>1, <2>2 DEF Table!Kept
<1>7. ASSUME NEW t \in Tasks, tTask'[t].at # "idle", tTask'[t].name = m
      PROVE  Table!Staged(t)'
  <2>1. tTask'[t] = tTask[t] /\ Table!Staged(t)
    BY <1>0, <1>3, <1>7 DEF Table!Kept
  <2>2. /\ tTask[t].at \in Table!Bringing => tTask[t].new \in Builds /\ tNameOf[tTask[t].new] = m
        /\ tTask[t].at \in Table!Serving => tTask[t].entry \in Builds /\ tNameOf[tTask[t].entry] = m
        /\ tTask[t].old \in Builds \cup {None}
    BY <1>0, <1>7, <2>1 DEF Table!TasksTyped, Table!Task
  <2>3. Table!Wanted(m)' = Table!Wanted(m)
    BY <1>2, <1>4 DEF Table!Wanted
  <2>4. tTask[t].at = "retire" /\ tTask[t].old # None => tNameOf[tTask[t].old] = m /\ tTask[t].old \in Builds
    BY <1>7, <2>1, <2>2 DEF Table!Staged
  <2> DEFINE new == tTask[t].new
             old == tTask[t].old
             kept == tTask[t].entry
  <2>5. /\ tTask[t].at \in Table!Bringing =>
             /\ tRaw'[new] = tRaw[new]
             /\ Table!Asleep(new)' <=> Table!Asleep(new)
        /\ tTask[t].at \in Table!Serving => tRaw'[kept] = tRaw[kept]
        /\ tTask[t].at = "retire" /\ old # None => /\ Table!Asleep(old)' <=> Table!Asleep(old)
                                                  /\ tNameOf'[old] = m
    BY <1>1, <1>2, <2>1, <2>2, <2>4 DEF Table!Asleep
  <2> QED BY <1>2, <1>7, <2>1, <2>3, <2>4, <2>5 DEF Table!Staged, Table!Bringing, Table!Serving
<1>8. ASSUME NEW b \in Builds, tNameOf'[b] = m
      PROVE  Table!MayRun(b)'
  <2>1. tNameOf[b] = m /\ Table!MayRun(b)
    BY <1>0, <1>1, <1>8 DEF Table!Kept
  <2>2. Table!Held(b) => Table!Held(b)'
    <3>1. ASSUME NEW k \in Names, tLinks[k] = b PROVE Table!Held(b)'
      <4>1. k = m
        BY <1>0, <2>1, <3>1 DEF Table!IInv, Table!Kept, Table!Named
      <4> QED BY <1>2, <3>1, <4>1 DEF Table!Held
    <3>2. ASSUME NEW t \in Tasks, \/ tTask[t].at = "retire" /\ tTask[t].old = b
                                  \/ tTask[t].at = "insert" /\ tTask[t].new = b
          PROVE  Table!Held(b)'
      <4>1. tTask[t].name = m
        <5>1. tTask[t].name \in Names /\ Table!Staged(t)
          BY <3>2 DEF Table!IInv, Table!Kept, Table!TasksTyped
        <5>2. tTask[t].at = "retire" => tNameOf[b] = tTask[t].name
          BY <3>2, <5>1, <1>0 DEF Table!Staged
        <5>3. tTask[t].at = "insert" => tNameOf[b] = tTask[t].name
          BY <3>2, <1>0 DEF Table!TasksTyped, Table!Bringing
        <5> QED BY <2>1, <3>2, <5>2, <5>3
      <4>2. tTask'[t] = tTask[t]
        BY <1>3, <3>2, <4>1
      <4> QED BY <3>2, <4>2 DEF Table!Held
    <3> QED BY <3>1, <3>2 DEF Table!Held
  <2> QED BY <1>2, <2>1, <2>2 DEF Table!MayRun, Table!Asleep
<1>9. Table!Stopping(m)'
  BY <1>0, <1>2, <1>4 DEF Table!Kept, Table!Stopping
<1> QED BY <1>5, <1>6, <1>7, <1>8, <1>9 DEF Table!Kept

\* So a step about n has only to be followed there.
LEMMA NameKept ==
  ASSUME Table!IInv, NEW n \in Names, Only(n), Table!Kept(n)',
         Table!TypeOK', Table!TasksTyped', Table!StopTyped', Table!OneEach',
         Table!Ordered', Table!AddIsSafe'
  PROVE  Table!IInv'
<1>1. Table!Unbuilt'
  <2>1. n # None /\ Table!Unbuilt
    BY TableAssumption DEF TableAssumption, Table!IInv
  <2> QED BY <2>1 DEF Table!Unbuilt, Only
<1>2. \A m \in Names : Table!Kept(m)'
  BY OthersKept
<1> QED BY <1>1, <1>2 DEF Table!IInv

\* Who holds a build of name n while the request of t is about n, and what
\* is known of n then.
HeldHere(t, n, b) ==
  \/ tLinks[n] = b
  \/ tTask[t].at = "retire" /\ tTask[t].old = b
  \/ tTask[t].at = "insert" /\ tTask[t].new = b

RunsHere(t, n, b) ==
  /\ tPipe[b] = "up" => HeldHere(t, n, b)
  /\ b \in tBoot \/ tSup[b] # "none" => HeldHere(t, n, b) \/ tPipe[b] = "down"
  /\ ~tStarted => Table!Asleep(b)

Stands(t, n) ==
  /\ Table!Named(n) /\ Table!Stopping(n)
  /\ IF tTask[t].at = "idle" THEN tLinks[n] = Table!Wanted(n) ELSE Table!Staged(t)
  /\ \A b \in Builds : tNameOf[b] = n => RunsHere(t, n, b)

LEMMA Here ==
  ASSUME Table!IInv, NEW t \in Tasks, tTask[t].at # "idle", NEW n, n = tTask[t].name
  PROVE  /\ n \in Names /\ n # None /\ None \notin Builds
         /\ Stands(t, n) /\ Table!Staged(t)
         /\ \A u \in Tasks : u # t /\ tTask[u].at # "idle" => tTask[u].name # n
<1>1. n \in Names /\ n # None /\ None \notin Builds
  BY TableAssumption DEF TableAssumption, Table!IInv, Table!TasksTyped
<1>2. Table!Kept(n) /\ Table!Staged(t) /\ \A b \in Builds : tNameOf[b] = n => Table!MayRun(b)
  BY <1>1 DEF Table!IInv, Table!Kept
<1>3. \A u \in Tasks : u # t /\ tTask[u].at # "idle" => tTask[u].name # n
  BY DEF Table!IInv, Table!OneEach
<1>4. ASSUME NEW b \in Builds, tNameOf[b] = n, Table!Held(b)
      PROVE  HeldHere(t, n, b)
  <2>1. ASSUME NEW m \in Names, tLinks[m] = b PROVE tLinks[n] = b
    <3>1. tNameOf[b] = m
      BY <1>1, <2>1 DEF Table!IInv, Table!Kept, Table!Named
    <3> QED BY <1>4, <2>1, <3>1
  <2>2. ASSUME NEW u \in Tasks, \/ tTask[u].at = "retire" /\ tTask[u].old = b
                                \/ tTask[u].at = "insert" /\ tTask[u].new = b
        PROVE  u = t
    <3>1. tTask[u].name \in Names /\ Table!Staged(u) /\ tTask[u].at # "idle"
      BY <2>2 DEF Table!IInv, Table!Kept, Table!TasksTyped
    <3>2. tTask[u].at = "retire" => tNameOf[b] = tTask[u].name
      BY <1>1, <2>2, <3>1 DEF Table!Staged
    <3>3. tTask[u].at = "insert" => tNameOf[b] = tTask[u].name
      BY <2>2 DEF Table!IInv, Table!TasksTyped, Table!Bringing
    <3> QED BY <1>3, <1>4, <2>2, <3>1, <3>2, <3>3
  <2> QED BY <1>4, <2>1, <2>2 DEF Table!Held, HeldHere
<1> QED BY <1>1, <1>2, <1>3, <1>4 DEF Stands, RunsHere, Table!Kept, Table!MayRun

\* One goroutine moves on; the others stay where they are.
LEMMA Continues ==
  ASSUME Table!IInv, NEW t \in Tasks, NEW step \in Table!Stages, Table!Continue(t, step)
  PROVE  /\ tTask' \in [Tasks -> Table!Task]
         /\ \A u \in Tasks : u # t => tTask'[u] = tTask[u]
         /\ tTask'[t] = [tTask[t] EXCEPT !.at = step]
         /\ /\ tTask'[t].at = step /\ tTask'[t].name = tTask[t].name
            /\ tTask'[t].new = tTask[t].new /\ tTask'[t].old = tTask[t].old
            /\ tTask'[t].entry = tTask[t].entry /\ tTask'[t].prev = tTask[t].prev
            /\ tTask'[t].run = tTask[t].run
<1>1. tTask \in [Tasks -> Table!Task] /\ tTask[t] \in Table!Task
  BY DEF Table!IInv, Table!TasksTyped
<1>2. tTask' = [tTask EXCEPT ![t].at = step]
  BY DEF Table!Continue
<1>3. [tTask[t] EXCEPT !.at = step] \in Table!Task
  BY <1>1 DEF Table!Task
<1> QED BY <1>1, <1>2, <1>3 DEF Table!Task

LEMMA Finishes ==
  ASSUME Table!IInv, NEW t \in Tasks, Table!Finish(t)
  PROVE  /\ tTask' \in [Tasks -> Table!Task]
         /\ \A u \in Tasks : u # t => tTask'[u] = tTask[u]
         /\ tTask'[t] = Table!Idle /\ tTask'[t].at = "idle"
<1>1. tTask \in [Tasks -> Table!Task]
  BY DEF Table!IInv, Table!TasksTyped
<1>2. Table!Idle \in Table!Task /\ Table!Idle.at = "idle"
  BY DEF Table!Idle, Table!Task, Table!Stages
<1> QED BY <1>1, <1>2 DEF Table!Finish

\* A step of the request of t, and what is to be shown of it.
LEMMA Follow ==
  ASSUME Table!IInv, NEW t \in Tasks, tTask[t].at # "idle", NEW n, n = tTask[t].name,
         tTask' \in [Tasks -> Table!Task],
         \A u \in Tasks : u # t => tTask'[u] = tTask[u],
         tTask'[t].at # "idle" => tTask'[t].name = n,
         tTask'[t].at \in Table!Bringing =>
            tTask'[t].new \in Builds /\ tNameOf[tTask'[t].new] = n,
         tTask'[t].at \in Table!Serving =>
            tTask'[t].entry \in Builds /\ tTask'[t].prev \in Builds /\ tNameOf[tTask'[t].entry] = n,
         UNCHANGED <<tNameOf, tBoot, tStarted, tStopped, tStop>>,
         \A m \in Names : m # n => tLinks'[m] = tLinks[m] /\ tEntries'[m] = tEntries[m],
         \A b \in Builds : tNameOf[b] # n =>
            tRaw'[b] = tRaw[b] /\ tPipe'[b] = tPipe[b] /\ tSup'[b] = tSup[b],
         tLate \subseteq tLate',
         Table!TypeOK', Table!Ordered', Table!AddIsSafe', Stands(t, n)'
  PROVE  Table!IInv'
<1>1. /\ n \in Names
      /\ \A u \in Tasks : u # t /\ tTask[u].at # "idle" => tTask[u].name # n
  BY Here
<1>2. Table!TasksTyped'
  <2>1. \A u \in Tasks :
          /\ tTask[u].at # "idle" => tTask[u].name \in Names
          /\ tTask[u].at \in Table!Bringing => tTask[u].new \in Builds /\ tNameOf[tTask[u].new] = tTask[u].name
          /\ tTask[u].at \in Table!Serving => /\ tTask[u].entry \in Builds /\ tTask[u].prev \in Builds
                                              /\ tNameOf[tTask[u].entry] = tTask[u].name
    BY DEF Table!IInv, Table!TasksTyped
  <2>2. tTask'[t].at \in Table!Bringing \cup Table!Serving => tTask'[t].at # "idle"
    BY DEF Table!Bringing, Table!Serving
  <2>3. /\ tTask'[t].at # "idle" => tTask'[t].name \in Names
        /\ tTask'[t].at \in Table!Bringing =>
              tTask'[t].new \in Builds /\ tNameOf[tTask'[t].new] = tTask'[t].name
        /\ tTask'[t].at \in Table!Serving =>
              /\ tTask'[t].entry \in Builds /\ tTask'[t].prev \in Builds
              /\ tNameOf[tTask'[t].entry] = tTask'[t].name
    BY <1>1, <2>2
  <2> QED BY <2>1, <2>3 DEF Table!TasksTyped
<1>3. Table!OneEach'
  BY <1>1 DEF Table!IInv, Table!OneEach
<1>4. Table!StopTyped'
  BY DEF Table!IInv, Table!StopTyped
<1>5. Only(n)
  BY DEF Only, About
<1>6. Table!Kept(n)'
  <2>1. ~Table!Busy(n)' => tTask'[t].at = "idle"
    BY DEF Table!Busy
  <2>2. \A u \in Tasks : tTask'[u].at # "idle" /\ tTask'[u].name = n => u = t
    BY <1>1
  <2>3. ASSUME NEW b \in Builds, tNameOf'[b] = n PROVE Table!MayRun(b)'
    <3>1. HeldHere(t, n, b)' => Table!Held(b)'
      BY <1>1 DEF HeldHere, Table!Held
    <3> QED BY <2>3, <3>1 DEF Stands, RunsHere, Table!MayRun
  <2> QED BY <2>1, <2>2, <2>3 DEF Stands, Table!Kept
<1> QED BY <1>1, <1>2, <1>3, <1>4, <1>5, <1>6, NameKept

\* Taking one place out of a sequence.
LEMMA Joined ==
  ASSUME NEW S, NEW a \in Seq(S), NEW z \in Seq(S)
  PROVE  /\ a \o z \in Seq(S) /\ Len(a \o z) = Len(a) + Len(z)
         /\ \A i \in 1..Len(a) : (a \o z)[i] = a[i]
         /\ \A i \in 1..Len(z) : (a \o z)[Len(a) + i] = z[i]
BY ConcatProperties, LenProperties

LEMMA CutOut ==
  ASSUME NEW S, NEW s \in Seq(S), NEW k \in 1..Len(s)
  PROVE  LET d == SubSeq(s, 1, k - 1) \o SubSeq(s, k + 1, Len(s)) IN
         /\ d \in Seq(S) /\ Len(d) = Len(s) - 1
         /\ \A i \in 1..Len(d) : d[i] = IF i < k THEN s[i] ELSE s[i + 1]
<1> DEFINE a == SubSeq(s, 1, k - 1)
           z == SubSeq(s, k + 1, Len(s))
           d == a \o z
<1>1. Len(s) \in Nat /\ \A i \in 1..Len(s) : s[i] \in S
  BY ElementOfSeq, LenProperties
<1>2. a \in Seq(S) /\ Len(a) = k - 1 /\ \A i \in 1..(k - 1) : a[i] = s[i]
  BY <1>1
<1>3. z \in Seq(S) /\ Len(z) = Len(s) - k /\ \A i \in 1..(Len(s) - k) : z[i] = s[k + i]
  BY <1>1
<1> HIDE DEF a, z
<1>4. /\ d \in Seq(S) /\ Len(d) = Len(a) + Len(z)
      /\ \A i \in 1..Len(a) : d[i] = a[i]
      /\ \A i \in 1..Len(z) : d[Len(a) + i] = z[i]
  <2>1. a \in Seq(S)
    BY <1>2
  <2>2. z \in Seq(S)
    BY <1>3
  <2> QED BY <2>1, <2>2, Joined
<1> HIDE DEF d
<1>5. ASSUME NEW i \in 1..(Len(s) - 1) PROVE d[i] = IF i < k THEN s[i] ELSE s[i + 1]
  <2>1. CASE i < k
    <3>1. i \in 1..(k - 1)
      BY <2>1, <1>1
    <3> QED BY <2>1, <3>1, <1>2, <1>4
  <2>2. CASE i >= k
    <3>1. /\ i - (k - 1) \in 1..(Len(s) - k) /\ k + (i - (k - 1)) = i + 1
          /\ (k - 1) + (i - (k - 1)) = i
      BY <2>2, <1>1
    <3>2. d[i] = z[i - (k - 1)]
      BY <3>1, <1>2, <1>3, <1>4
    <3> QED BY <3>1, <3>2, <2>2, <1>1, <1>3
  <2> QED BY <2>1, <2>2, <1>1
<1>6. Len(d) = Len(s) - 1
  BY <1>1, <1>2, <1>3, <1>4
<1>7. d \in Seq(S) /\ Len(d) = Len(s) - 1 /\ \A i \in 1..Len(d) : d[i] = IF i < k THEN s[i] ELSE s[i + 1]
  BY <1>4, <1>5, <1>6
<1> QED BY <1>7, Zenon DEF d, a, z

\* The order without a name still lists the others once each.
LEMMA DropsOne ==
  ASSUME tOrder \in Seq(Names), Table!Ordered, NEW n \in Names
  PROVE  /\ Table!Drop(n) \in Seq(Names)
         /\ \A i, j \in DOMAIN Table!Drop(n) : Table!Drop(n)[i] = Table!Drop(n)[j] => i = j
         /\ \A m \in Names : (\E i \in DOMAIN Table!Drop(n) : Table!Drop(n)[i] = m) <=> m # n /\ tLinks[m] # None
<1>1. CASE ~ \E i \in DOMAIN tOrder : tOrder[i] = n
  BY <1>1 DEF Table!Ordered, Table!Drop
<1>2. ASSUME NEW k \in DOMAIN tOrder, tOrder[k] = n
      PROVE  /\ Table!Drop(n) \in Seq(Names)
             /\ \A i, j \in DOMAIN Table!Drop(n) : Table!Drop(n)[i] = Table!Drop(n)[j] => i = j
             /\ \A m \in Names : (\E i \in DOMAIN Table!Drop(n) : Table!Drop(n)[i] = m) <=> m # n /\ tLinks[m] # None
  <2> DEFINE d == SubSeq(tOrder, 1, k - 1) \o SubSeq(tOrder, k + 1, Len(tOrder))
  <2>1. DOMAIN tOrder = 1..Len(tOrder) /\ Len(tOrder) \in Nat
    BY LenProperties
  <2>2. \A i, j \in DOMAIN tOrder : tOrder[i] = tOrder[j] => i = j
    BY DEF Table!Ordered
  <2>3. \A j \in 1..(k - 1) : tOrder[j] # n
    BY <1>2, <2>1, <2>2
  <2>4. Table!Drop(n) = d
    <3>1. \A i \in DOMAIN tOrder : tOrder[i] = n => i = k
      BY <1>2, <2>2
    <3>2. (CHOOSE i \in DOMAIN tOrder : tOrder[i] = n /\ \A j \in 1..(i - 1) : tOrder[j] # n) = k
      BY <1>2, <2>3, <3>1
    <3> QED BY <1>2, <3>2 DEF Table!Drop
  <2>5. /\ d \in Seq(Names) /\ Len(d) = Len(tOrder) - 1
        /\ \A i \in 1..Len(d) : d[i] = IF i < k THEN tOrder[i] ELSE tOrder[i + 1]
    <3>1. k \in 1..Len(tOrder)
      BY <2>1
    <3> QED BY <3>1, CutOut, Zenon
  <2>6. DOMAIN d = 1..(Len(tOrder) - 1)
    BY <2>5, LenProperties, Zenon
  <2> HIDE DEF d
  <2> DEFINE from(i) == IF i < k THEN i ELSE i + 1
  <2>7. \A i \in DOMAIN d : from(i) \in DOMAIN tOrder /\ from(i) # k /\ d[i] = tOrder[from(i)]
    BY <2>1, <2>5, <2>6
  <2>8. \A i, j \in DOMAIN d : d[i] = d[j] => i = j
    <3>1. \A i, j \in DOMAIN d : from(i) = from(j) => i = j
      BY <2>1, <2>6
    <3> QED BY <2>2, <2>7, <3>1
  <2>9. ASSUME NEW m \in Names
        PROVE  (\E i \in DOMAIN d : d[i] = m) <=> m # n /\ \E j \in DOMAIN tOrder : tOrder[j] = m
    <3>1. ASSUME NEW i \in DOMAIN d, d[i] = m PROVE m # n /\ \E j \in DOMAIN tOrder : tOrder[j] = m
      BY <1>2, <2>2, <2>7, <3>1
    <3>2. ASSUME m # n, NEW j \in DOMAIN tOrder, tOrder[j] = m PROVE \E i \in DOMAIN d : d[i] = m
      <4>1. CASE j < k
        <5>1. j \in DOMAIN d /\ from(j) = j
          BY <2>1, <2>6, <4>1
        <5> QED BY <2>7, <3>2, <5>1
      <4>2. CASE j > k
        <5>1. (j - 1) \in DOMAIN d /\ from(j - 1) = j
          BY <2>1, <2>6, <4>2
        <5> QED BY <2>7, <3>2, <5>1
      <4>3. j # k
        BY <1>2, <3>2
      <4> QED BY <2>1, <4>1, <4>2, <4>3
    <3> QED BY <3>1, <3>2
  <2> QED BY <2>4, <2>5, <2>8, <2>9 DEF Table!Ordered
<1> QED BY <1>1, <1>2

\* A name that was not listed is listed once, at the end.
LEMMA AddsOne ==
  ASSUME NEW s \in Seq(Names), \A i, j \in DOMAIN s : s[i] = s[j] => i = j,
         NEW n \in Names, \A i \in DOMAIN s : s[i] # n
  PROVE  /\ Append(s, n) \in Seq(Names)
         /\ \A i, j \in DOMAIN Append(s, n) : Append(s, n)[i] = Append(s, n)[j] => i = j
         /\ \A m \in Names : (\E i \in DOMAIN Append(s, n) : Append(s, n)[i] = m) <=>
                                m = n \/ \E i \in DOMAIN s : s[i] = m
<1>1. /\ Append(s, n) \in Seq(Names) /\ DOMAIN Append(s, n) = 1..(Len(s) + 1)
      /\ Append(s, n)[Len(s) + 1] = n /\ \A i \in 1..Len(s) : Append(s, n)[i] = s[i]
  OBVIOUS
<1>2. DOMAIN s = 1..Len(s) /\ Len(s) \in Nat
  BY LenProperties
<1>3. \A i \in 1..(Len(s) + 1) : i \in 1..Len(s) \/ i = Len(s) + 1
  BY <1>2
<1>4. 1..Len(s) \subseteq 1..(Len(s) + 1) /\ Len(s) + 1 \in 1..(Len(s) + 1)
  BY <1>2
<1>5. ASSUME NEW i \in DOMAIN Append(s, n), NEW j \in DOMAIN Append(s, n), Append(s, n)[i] = Append(s, n)[j]
      PROVE  i = j
  BY <1>1, <1>2, <1>3, <1>5
<1>6. ASSUME NEW m \in Names
      PROVE  (\E i \in DOMAIN Append(s, n) : Append(s, n)[i] = m) <=> m = n \/ \E i \in DOMAIN s : s[i] = m
  BY <1>1, <1>2, <1>3, <1>4
<1> QED BY <1>1, <1>5, <1>6

-----------------------------------------------------------------------------
\* The steps of an addition.

LEMMA AddCheckKeeps ==
  ASSUME Table!IInv, NEW t \in Tasks, Table!AddCheck(t),
         NEW n, n = tTask[t].name, NEW b, b = tTask[t].new
  PROVE  Table!IInv'
<1>1. /\ tTask[t].at = "check" /\ n \in Names /\ None \notin Builds
      /\ Stands(t, n) /\ Table!Staged(t)
  BY Here DEF Table!AddCheck, Table!At
<1>2. Table!TypeOK /\ b \in Builds /\ tNameOf[b] = n
  BY <1>1 DEF Table!IInv, Table!TasksTyped, Table!Bringing
<1>3. UNCHANGED <<tLinks, tOrder, tEntries, tRaw, tPipe, tCut, tNameOf, tSup, tBoot,
                  tStarted, tStopped, tStop, tLate, tPanicked>>
  BY DEF Table!AddCheck, Table!tables, Table!builds, Table!session, Table!history
<1>4. Table!TypeOK' /\ Table!Ordered' /\ Table!AddIsSafe'
  BY <1>2, <1>3 DEF Table!IInv, Table!TypeOK, Table!Ordered, Table!AddIsSafe
<1>5. CASE Table!Continue(t, "raise") /\ ~tStopped /\ ~Table!Taken(n)
  <2>1. tLinks[n] = None /\ tEntries[n] = None
    BY <1>1, <1>2, <1>5 DEF Table!Taken, Table!Staged, Table!Wanted, Table!TypeOK
  <2>2. /\ tTask' \in [Tasks -> Table!Task] /\ \A u \in Tasks : u # t => tTask'[u] = tTask[u]
        /\ tTask'[t].at = "raise" /\ tTask'[t].name = n /\ tTask'[t].new = b
    BY <1>5, Continues DEF Table!Stages
  <2>3. Stands(t, n)'
    BY <1>1, <1>2, <1>3, <1>5, <2>1, <2>2 DEF Stands, RunsHere, HeldHere, Table!Named, Table!Stopping, Table!Staged,
      Table!Asleep
  <2> QED BY <1>1, <1>2, <1>3, <1>4, <2>2, <2>3, Follow DEF Table!Bringing, Table!Serving
<1>6. CASE Table!Finish(t)
  <2>1. /\ tTask' \in [Tasks -> Table!Task] /\ \A u \in Tasks : u # t => tTask'[u] = tTask[u]
        /\ tTask'[t].at = "idle"
    BY <1>6, Finishes
  <2>2. Stands(t, n)'
    BY <1>1, <1>2, <1>3, <2>1 DEF Stands, RunsHere, HeldHere, Table!Named, Table!Stopping, Table!Staged, Table!Wanted,
      Table!Asleep
  <2> QED BY <1>1, <1>2, <1>3, <1>4, <2>1, <2>2, Follow DEF Table!Bringing, Table!Serving
<1> QED BY <1>5, <1>6 DEF Table!AddCheck

LEMMA AddRaiseKeeps ==
  ASSUME Table!IInv, NEW t \in Tasks, Table!AddRaise(t),
         NEW n, n = tTask[t].name, NEW b, b = tTask[t].new
  PROVE  Table!IInv'
<1>1. /\ tTask[t].at = "raise" /\ n \in Names /\ None \notin Builds
      /\ Stands(t, n) /\ Table!Staged(t)
  BY Here DEF Table!AddRaise, Table!At
<1>2. Table!TypeOK /\ b \in Builds /\ tNameOf[b] = n
  BY <1>1 DEF Table!IInv, Table!TasksTyped, Table!Bringing
<1>3. UNCHANGED <<tLinks, tOrder, tEntries, tRaw, tCut, tNameOf, tSup, tBoot,
                  tStarted, tStopped, tStop, tLate, tPanicked>>
  BY DEF Table!AddRaise, Table!tables, Table!session, Table!history
<1>4. /\ tLinks[n] = None /\ tEntries[n] = None /\ tRaw[b] = b /\ tStarted /\ Table!Asleep(b)
      /\ tStopped => b \in tLate
  BY <1>1 DEF Table!Staged
<1>5. Table!Ordered' /\ Table!AddIsSafe'
  BY <1>3 DEF Table!IInv, Table!Ordered, Table!AddIsSafe
<1>6. CASE Table!Raise(b) /\ Table!Continue(t, "insert")
  <2>1. /\ tTask' \in [Tasks -> Table!Task] /\ \A u \in Tasks : u # t => tTask'[u] = tTask[u]
        /\ tTask'[t].at = "insert" /\ tTask'[t].name = n /\ tTask'[t].new = b
    BY <1>6, Continues DEF Table!Stages
  <2>2. tPipe' = [tPipe EXCEPT ![b] = "up"] /\ tPipe \in [Builds -> {"unused", "built", "up", "down"}]
    BY <1>2, <1>6 DEF Table!Raise, Table!TypeOK
  <2>3. /\ tPipe' \in [Builds -> {"unused", "built", "up", "down"}] /\ tPipe'[b] = "up"
        /\ \A c \in Builds : c # b => tPipe'[c] = tPipe[c]
    BY <1>2, <2>2
  <2>4. Table!TypeOK'
    BY <1>2, <1>3, <2>3 DEF Table!TypeOK
  <2>5. Stands(t, n)'
    BY <1>1, <1>2, <1>3, <1>4, <2>1, <2>3 DEF Stands, RunsHere, HeldHere, Table!Named, Table!Stopping, Table!Staged,
      Table!Asleep
  <2> QED BY <1>1, <1>2, <1>3, <1>5, <2>1, <2>3, <2>4, <2>5, Follow DEF Table!Bringing, Table!Serving
<1>7. CASE Table!Finish(t) /\ UNCHANGED tPipe
  <2>1. /\ tTask' \in [Tasks -> Table!Task] /\ \A u \in Tasks : u # t => tTask'[u] = tTask[u]
        /\ tTask'[t].at = "idle"
    BY <1>7, Finishes
  <2>2. Table!TypeOK'
    BY <1>2, <1>3, <1>7 DEF Table!TypeOK
  <2>3. Stands(t, n)'
    BY <1>1, <1>2, <1>3, <1>4, <1>7, <2>1 DEF Stands, RunsHere, HeldHere, Table!Named, Table!Stopping, Table!Wanted,
      Table!Asleep
  <2> QED BY <1>1, <1>2, <1>3, <1>5, <1>7, <2>1, <2>2, <2>3, Follow DEF Table!Bringing, Table!Serving
<1> QED BY <1>6, <1>7 DEF Table!AddRaise

LEMMA AddInsertKeeps ==
  ASSUME Table!IInv, NEW t \in Tasks, Table!AddInsert(t),
         NEW n, n = tTask[t].name, NEW b, b = tTask[t].new
  PROVE  Table!IInv'
<1>1. /\ tTask[t].at = "insert" /\ n \in Names /\ None \notin Builds
      /\ Stands(t, n) /\ Table!Staged(t)
  BY Here DEF Table!AddInsert, Table!At
<1>2. Table!TypeOK /\ b \in Builds /\ tNameOf[b] = n
  BY <1>1 DEF Table!IInv, Table!TasksTyped, Table!Bringing
<1>3. /\ UNCHANGED <<tEntries, tRaw, tPipe, tCut, tNameOf, tSup, tBoot, tStarted, tStopped, tStop>>
      /\ tLinks' = [tLinks EXCEPT ![n] = b] /\ tOrder' = Append(tOrder, n)
      /\ tPanicked' = Table!Dangling(tOrder, n)
      /\ tLate' = IF tStopped THEN tLate \cup {b} ELSE tLate
      /\ Table!Continue(t, "attach")
  BY DEF Table!AddInsert, Table!builds, Table!session
<1>4. /\ tLinks[n] = None /\ tEntries[n] = None /\ tRaw[b] = b /\ tStarted
  BY <1>1 DEF Table!Staged
<1>5. tTask' \in [Tasks -> Table!Task] /\ (\A u \in Tasks : u # t => tTask'[u] = tTask[u])
      /\ tTask'[t].at = "attach" /\ tTask'[t].name = n /\ tTask'[t].new = b
  BY <1>3, Continues DEF Table!Stages
<1>6. /\ tLinks' \in [Names -> Builds \cup {None}] /\ tLinks'[n] = b
      /\ \A m \in Names : m # n => tLinks'[m] = tLinks[m]
  BY <1>1, <1>2, <1>3 DEF Table!TypeOK
<1>7. tOrder' \in Seq(Names) /\ Table!Ordered'
  <2>1. /\ tOrder \in Seq(Names) /\ \A i, j \in DOMAIN tOrder : tOrder[i] = tOrder[j] => i = j
        /\ \A m \in Names : tLinks[m] # None <=> \E i \in DOMAIN tOrder : tOrder[i] = m
    BY <1>2 DEF Table!IInv, Table!Ordered, Table!TypeOK
  <2>2. \A i \in DOMAIN tOrder : tOrder[i] # n
    BY <1>1, <1>4, <2>1
  <2>3. /\ Append(tOrder, n) \in Seq(Names)
        /\ \A i, j \in DOMAIN Append(tOrder, n) : Append(tOrder, n)[i] = Append(tOrder, n)[j] => i = j
        /\ \A m \in Names : (\E i \in DOMAIN Append(tOrder, n) : Append(tOrder, n)[i] = m) <=>
                              m = n \/ \E i \in DOMAIN tOrder : tOrder[i] = m
    <3>1. n \in Names /\ tOrder \in Seq(Names)
      BY <1>1, <2>1
    <3>2. \A i, j \in DOMAIN tOrder : tOrder[i] = tOrder[j] => i = j
      BY <2>1
    <3> QED BY <2>2, <3>1, <3>2, AddsOne
  <2>4. \A m \in Names : tLinks'[m] # None <=> m = n \/ tLinks[m] # None
    BY <1>1, <1>2, <1>6
  <2> QED BY <1>3, <2>1, <2>3, <2>4, Zenon DEF Table!Ordered
<1>8. tPanicked' = FALSE
  <2>1. \A i \in DOMAIN tOrder : tOrder[i] \in Names
    BY <1>2, ElementOfSeq, LenProperties DEF Table!TypeOK
  <2>2. ~Table!Dangling(tOrder, n)
    BY <2>1 DEF Table!IInv, Table!Ordered, Table!Dangling
  <2>3. tPanicked' = Table!Dangling(tOrder, n)
    BY <1>3
  <2> QED BY <2>2, <2>3 DEF Table!Dangling
<1>9. Table!TypeOK'
  BY <1>2, <1>3, <1>6, <1>7, <1>8 DEF Table!TypeOK
<1>10. Stands(t, n)'
  BY <1>1, <1>2, <1>3, <1>4, <1>5, <1>6 DEF Stands, RunsHere, HeldHere, Table!Named, Table!Stopping, Table!Staged, Table!Asleep
<1> QED BY <1>1, <1>2, <1>3, <1>5, <1>6, <1>7, <1>8, <1>9, <1>10, Follow DEF Table!Bringing, Table!Serving, Table!AddIsSafe

LEMMA AddAttachKeeps ==
  ASSUME Table!IInv, NEW t \in Tasks, Table!AddAttach(t),
         NEW n, n = tTask[t].name, NEW b, b = tTask[t].new
  PROVE  Table!IInv'
<1>1. /\ tTask[t].at = "attach" /\ n \in Names /\ None \notin Builds
      /\ Stands(t, n) /\ Table!Staged(t)
  BY Here DEF Table!AddAttach, Table!At
<1>2. Table!TypeOK /\ b \in Builds /\ tNameOf[b] = n
  BY <1>1 DEF Table!IInv, Table!TasksTyped, Table!Bringing
<1>3. tLinks[n] = b /\ tEntries[n] = None /\ tRaw[b] = b
  BY <1>1 DEF Table!Staged
<1>4. /\ UNCHANGED <<tLinks, tOrder, tRaw, tPipe, tCut, tNameOf, tSup, tBoot,
                     tStarted, tStopped, tStop, tLate, tPanicked>>
      /\ tEntries' = [tEntries EXCEPT ![n] = b] /\ Table!Finish(t)
  BY <1>3 DEF Table!AddAttach, Table!builds, Table!session, Table!history
<1>5. tTask' \in [Tasks -> Table!Task] /\ (\A u \in Tasks : u # t => tTask'[u] = tTask[u])
      /\ tTask'[t].at = "idle"
  BY <1>4, Finishes
<1>6. /\ tEntries' \in [Names -> Builds \cup {None}] /\ tEntries'[n] = b
      /\ \A m \in Names : m # n => tEntries'[m] = tEntries[m]
  BY <1>1, <1>2, <1>4 DEF Table!TypeOK
<1>7. Table!TypeOK' /\ Table!Ordered' /\ Table!AddIsSafe'
  BY <1>2, <1>4, <1>6 DEF Table!IInv, Table!TypeOK, Table!Ordered, Table!AddIsSafe
<1>8. Stands(t, n)'
  BY <1>1, <1>2, <1>3, <1>4, <1>5, <1>6 DEF Stands, RunsHere, HeldHere, Table!Named, Table!Stopping, Table!Wanted, Table!Asleep
<1> QED BY <1>1, <1>2, <1>4, <1>5, <1>6, <1>7, <1>8, Follow DEF Table!Bringing, Table!Serving

-----------------------------------------------------------------------------
\* The steps of a removal.

LEMMA UnlinkKeeps ==
  ASSUME Table!IInv, NEW t \in Tasks, Table!Unlink(t),
         NEW n, n = tTask[t].name, NEW b, b = tTask[t].new,
         NEW e, e = tTask[t].entry, NEW prev, prev = tTask[t].prev
  PROVE  Table!IInv'
<1>1. /\ tTask[t].at = "unlink" /\ n \in Names /\ None \notin Builds
      /\ Stands(t, n) /\ Table!Staged(t)
  BY Here DEF Table!Unlink, Table!At, Table!Task, Table!Stages, Table!IInv, Table!TasksTyped
<1>2. Table!TypeOK /\ e \in Builds /\ prev \in Builds /\ tNameOf[e] = n
  BY <1>1 DEF Table!IInv, Table!TasksTyped, Table!Serving
<1>3. /\ UNCHANGED <<tEntries, tRaw, tCut, tNameOf, tSup, tBoot, tStarted, tStopped, tStop, tLate, tPanicked>>
      /\ Table!RemoveLink(n) /\ Table!Continue(t, "silence")
  BY <1>1 DEF Table!Unlink, Table!session, Table!history
<1>4. tEntries[n] = None /\ tStarted
  BY <1>1 DEF Table!Staged
<1>5. /\ tTask' \in [Tasks -> Table!Task] /\ \A u \in Tasks : u # t => tTask'[u] = tTask[u]
      /\ tTask'[t].at = "silence" /\ tTask'[t].name = n /\ tTask'[t].new = tTask[t].new
      /\ tTask'[t].entry = tTask[t].entry /\ tTask'[t].prev = tTask[t].prev
  BY <1>3, Continues DEF Table!Stages
<1>6. CASE tLinks[n] = None
  <2>1. UNCHANGED <<tLinks, tOrder, tPipe>>
    BY <1>3, <1>6 DEF Table!RemoveLink
  <2>2. Table!TypeOK' /\ Table!Ordered' /\ Table!AddIsSafe'
    BY <1>2, <1>3, <2>1 DEF Table!IInv, Table!TypeOK, Table!Ordered, Table!AddIsSafe
  <2>3. Stands(t, n)'
    BY <1>1, <1>2, <1>3, <1>4, <1>5, <1>6, <2>1 DEF Stands, RunsHere, HeldHere, Table!Named, Table!Stopping, Table!Staged,
      Table!Wanted, Table!Asleep
  <2> QED BY <1>1, <1>2, <1>3, <1>5, <2>1, <2>2, <2>3, Follow DEF Table!Bringing, Table!Serving
<1>7. ASSUME NEW gone, gone = tLinks[n], gone # None PROVE Table!IInv'
  <2>1. /\ tPipe' = [tPipe EXCEPT ![gone] = "down"] /\ tLinks' = [tLinks EXCEPT ![n] = None]
        /\ tOrder' = Table!Drop(n)
    BY <1>3, <1>7 DEF Table!RemoveLink, Table!Halted
  <2>2. gone \in Builds /\ tNameOf[gone] = n
    BY <1>1, <1>2, <1>7 DEF Table!TypeOK, Stands, Table!Named
  <2>3. /\ tPipe' \in [Builds -> {"unused", "built", "up", "down"}] /\ tPipe'[gone] = "down"
        /\ \A c \in Builds : c # gone => tPipe'[c] = tPipe[c]
        /\ tLinks' \in [Names -> Builds \cup {None}] /\ tLinks'[n] = None
        /\ \A m \in Names : m # n => tLinks'[m] = tLinks[m]
    BY <1>1, <1>2, <2>1, <2>2 DEF Table!TypeOK
  <2>4. tOrder' \in Seq(Names) /\ Table!Ordered'
    <3>1. n \in Names /\ tOrder \in Seq(Names) /\ Table!Ordered
      BY <1>1, <1>2 DEF Table!TypeOK, Table!IInv
    <3>2. /\ Table!Drop(n) \in Seq(Names)
          /\ \A i, j \in DOMAIN Table!Drop(n) : Table!Drop(n)[i] = Table!Drop(n)[j] => i = j
          /\ \A m \in Names : (\E i \in DOMAIN Table!Drop(n) : Table!Drop(n)[i] = m) <=> m # n /\ tLinks[m] # None
      BY <3>1, DropsOne
    <3>3. \A m \in Names : tLinks'[m] # None <=> m # n /\ tLinks[m] # None
      BY <2>3
    <3>4. tOrder' = Table!Drop(n)
      BY <2>1
    <3> QED BY <3>2, <3>3, <3>4, Zenon DEF Table!Ordered
  <2>5. Table!TypeOK' /\ Table!AddIsSafe'
    BY <1>2, <1>3, <2>3, <2>4 DEF Table!IInv, Table!TypeOK, Table!AddIsSafe
  <2>6. Stands(t, n)'
    BY <1>1, <1>2, <1>3, <1>4, <1>5, <1>7, <2>2, <2>3 DEF Stands, RunsHere, HeldHere, Table!Named, Table!Stopping, Table!Staged,
      Table!Wanted, Table!Asleep
  <2> QED BY <1>1, <1>2, <1>3, <1>5, <2>2, <2>3, <2>4, <2>5, <2>6, Follow DEF Table!Bringing, Table!Serving
<1> QED BY <1>6, <1>7

LEMMA SilenceKeeps ==
  ASSUME Table!IInv, NEW t \in Tasks, Table!Silence(t),
         NEW n, n = tTask[t].name, NEW b, b = tTask[t].new,
         NEW e, e = tTask[t].entry, NEW prev, prev = tTask[t].prev
  PROVE  Table!IInv'
<1>1. /\ tTask[t].at = "silence" /\ n \in Names /\ None \notin Builds
      /\ Stands(t, n) /\ Table!Staged(t)
  BY Here DEF Table!Silence, Table!At
<1>2. Table!TypeOK /\ e \in Builds /\ prev \in Builds /\ tNameOf[e] = n
  BY <1>1 DEF Table!IInv, Table!TasksTyped, Table!Serving
<1>3. /\ UNCHANGED <<tLinks, tOrder, tEntries, tRaw, tPipe, tNameOf, tSup, tBoot,
                     tStarted, tStopped, tStop, tLate, tPanicked>>
      /\ tCut' = tCut \cup {tRaw[e]} /\ Table!Finish(t)
  BY DEF Table!Silence, Table!tables, Table!session, Table!history
<1>4. /\ tTask' \in [Tasks -> Table!Task] /\ \A u \in Tasks : u # t => tTask'[u] = tTask[u]
      /\ tTask'[t].at = "idle"
  BY <1>3, Finishes
<1>5. Table!TypeOK' /\ Table!Ordered' /\ Table!AddIsSafe'
  BY <1>2, <1>3 DEF Table!IInv, Table!TypeOK, Table!Ordered, Table!AddIsSafe
<1>6. Stands(t, n)'
  BY <1>1, <1>2, <1>3, <1>4 DEF Stands, RunsHere, HeldHere, Table!Named, Table!Stopping, Table!Staged, Table!Wanted,
    Table!Asleep
<1> QED BY <1>1, <1>2, <1>3, <1>4, <1>5, <1>6, Follow DEF Table!Bringing, Table!Serving

-----------------------------------------------------------------------------
\* The steps of a hot swap.

LEMMA SwapKeeps ==
  ASSUME Table!IInv, NEW t \in Tasks, Table!Swap(t),
         NEW n, n = tTask[t].name, NEW b, b = tTask[t].new,
         NEW e, e = tTask[t].entry, NEW prev, prev = tTask[t].prev
  PROVE  Table!IInv'
<1>1. /\ tTask[t].at = "swap" /\ n \in Names /\ None \notin Builds
      /\ Stands(t, n) /\ Table!Staged(t)
  BY Here DEF Table!Swap, Table!At
<1>2. /\ Table!TypeOK /\ b \in Builds /\ tNameOf[b] = n
      /\ e \in Builds /\ prev \in Builds /\ tNameOf[e] = n
  BY <1>1 DEF Table!IInv, Table!TasksTyped, Table!Bringing, Table!Serving
<1>3. UNCHANGED <<tEntries, tRaw, tNameOf, tSup, tBoot, tStarted, tStopped, tStop, tLate>>
  BY DEF Table!Swap, Table!session
<1>4. /\ tEntries[n] = e /\ tLinks[n] = tRaw[e] /\ tLinks[n] \in Builds
      /\ tLinks[n] # b /\ Table!Asleep(b) /\ tNameOf[tLinks[n]] = n
  BY <1>1, <1>2 DEF Table!Staged, Table!Wanted, Table!TypeOK, Stands, Table!Named
<1>5. CASE tStopped
  <2>1. /\ tPipe' = [tPipe EXCEPT ![b] = "down"] /\ tCut' = tCut \cup {b} /\ Table!Finish(t)
        /\ UNCHANGED <<tLinks, tOrder, tPanicked>>
    BY <1>5 DEF Table!Swap, Table!Halted
  <2>2. /\ tPipe' \in [Builds -> {"unused", "built", "up", "down"}] /\ tPipe'[b] = "down"
        /\ \A c \in Builds : c # b => tPipe'[c] = tPipe[c]
    BY <1>2, <2>1 DEF Table!TypeOK
  <2>3. /\ tTask' \in [Tasks -> Table!Task] /\ \A u \in Tasks : u # t => tTask'[u] = tTask[u]
        /\ tTask'[t].at = "idle"
    BY <2>1, Finishes
  <2>4. Table!TypeOK' /\ Table!Ordered' /\ Table!AddIsSafe'
    BY <1>2, <1>3, <2>1, <2>2 DEF Table!IInv, Table!TypeOK, Table!Ordered, Table!AddIsSafe
  <2>5. Stands(t, n)'
    BY <1>1, <1>2, <1>3, <1>4, <2>1, <2>2, <2>3 DEF Stands, RunsHere, HeldHere, Table!Named, Table!Stopping, Table!Staged,
      Table!Wanted, Table!Asleep
  <2> QED BY <1>1, <1>2, <1>3, <2>1, <2>2, <2>3, <2>4, <2>5, Follow DEF Table!Bringing, Table!Serving
<1>6. CASE ~tStopped
  <2>0. UNCHANGED tPipe
    BY <1>6 DEF Table!Swap
  <2>1. /\ tLinks' = [tLinks EXCEPT ![n] = b] /\ tOrder' = Append(Table!Drop(n), n)
        /\ tPanicked' = Table!Dangling(Table!Drop(n), n)
        /\ tTask' = [tTask EXCEPT ![t].at = "retire", ![t].old = tLinks[n], ![t].run = tStarted]
        /\ UNCHANGED tCut
    BY <1>6 DEF Table!Swap
  <2>2. /\ tLinks' \in [Names -> Builds \cup {None}] /\ tLinks'[n] = b
        /\ \A m \in Names : m # n => tLinks'[m] = tLinks[m]
    BY <1>1, <1>2, <2>1 DEF Table!TypeOK
  <2>3. /\ tTask' \in [Tasks -> Table!Task] /\ \A u \in Tasks : u # t => tTask'[u] = tTask[u]
        /\ tTask'[t].at = "retire" /\ tTask'[t].name = n /\ tTask'[t].new = b
        /\ tTask'[t].old = tLinks[n] /\ tTask'[t].run = tStarted
        /\ tTask'[t].entry = e /\ tTask'[t].prev = prev
    <3>1. tTask \in [Tasks -> Table!Task] /\ tTask[t] \in Table!Task
      BY DEF Table!IInv, Table!TasksTyped
    <3>2. [tTask[t] EXCEPT !.at = "retire", !.old = tLinks[n], !.run = tStarted] \in Table!Task
      BY <1>2, <1>4, <3>1 DEF Table!Task, Table!Stages, Table!TypeOK
    <3>3. tTask' = [tTask EXCEPT ![t] = [tTask[t] EXCEPT !.at = "retire", !.old = tLinks[n], !.run = tStarted]]
      BY <2>1
    <3> QED BY <3>1, <3>2, <3>3 DEF Table!Task
  <2>4. /\ Table!Drop(n) \in Seq(Names)
        /\ \A i, j \in DOMAIN Table!Drop(n) : Table!Drop(n)[i] = Table!Drop(n)[j] => i = j
        /\ \A m \in Names : (\E i \in DOMAIN Table!Drop(n) : Table!Drop(n)[i] = m) <=> m # n /\ tLinks[m] # None
    <3>1. n \in Names /\ tOrder \in Seq(Names) /\ Table!Ordered
      BY <1>1, <1>2 DEF Table!TypeOK, Table!IInv
    <3> QED BY <3>1, DropsOne
  <2>5. tOrder' \in Seq(Names) /\ Table!Ordered'
    <3> DEFINE d == Table!Drop(n)
    <3>1. n \in Names /\ d \in Seq(Names) /\ tOrder' = Append(d, n)
      BY <1>1, <2>1, <2>4
    <3>2. \A i, j \in DOMAIN d : d[i] = d[j] => i = j
      BY <2>4
    <3>3. \A m \in Names : (\E i \in DOMAIN d : d[i] = m) <=> m # n /\ tLinks[m] # None
      BY <2>4
    <3>4. \A i \in DOMAIN d : d[i] # n
      BY <3>1, <3>3
    <3> HIDE DEF d
    <3>5. /\ Append(d, n) \in Seq(Names)
          /\ \A i, j \in DOMAIN Append(d, n) : Append(d, n)[i] = Append(d, n)[j] => i = j
          /\ \A m \in Names : (\E i \in DOMAIN Append(d, n) : Append(d, n)[i] = m) <=>
                               m = n \/ \E i \in DOMAIN d : d[i] = m
      BY <3>1, <3>2, <3>4, AddsOne
    <3>6. \A m \in Names : tLinks'[m] # None <=> m = n \/ (m # n /\ tLinks[m] # None)
      BY <1>1, <1>2, <2>2
    <3> QED BY <3>1, <3>3, <3>5, <3>6, Zenon DEF Table!Ordered
  <2>6. tPanicked' = FALSE
    <3>1. \A i \in DOMAIN Table!Drop(n) : Table!Drop(n)[i] \in Names
      BY <2>4, ElementOfSeq, LenProperties
    <3>2. ~Table!Dangling(Table!Drop(n), n)
      BY <2>4, <3>1 DEF Table!Dangling
    <3>3. tPanicked' = Table!Dangling(Table!Drop(n), n)
      BY <2>1
    <3> QED BY <3>2, <3>3 DEF Table!Dangling
  <2>7. Table!TypeOK' /\ Table!AddIsSafe'
    BY <1>2, <1>3, <2>0, <2>1, <2>2, <2>5, <2>6 DEF Table!TypeOK, Table!AddIsSafe
  <2>8. Stands(t, n)'
    BY <1>1, <1>2, <1>3, <1>4, <1>6, <2>0, <2>2, <2>3 DEF Stands, RunsHere, HeldHere, Table!Named, Table!Stopping, Table!Staged,
      Table!Wanted, Table!Asleep
  <2> QED BY <1>1, <1>2, <1>3, <2>0, <2>2, <2>3, <2>5, <2>7, <2>8, Follow DEF Table!Bringing, Table!Serving
<1> QED BY <1>5, <1>6

LEMMA RetireKeeps ==
  ASSUME Table!IInv, NEW t \in Tasks, Table!Retire(t),
         NEW n, n = tTask[t].name, NEW b, b = tTask[t].new,
         NEW e, e = tTask[t].entry, NEW prev, prev = tTask[t].prev,
         NEW old, old = tTask[t].old
  PROVE  Table!IInv'
<1>1. /\ tTask[t].at = "retire" /\ n \in Names /\ None \notin Builds
      /\ Stands(t, n) /\ Table!Staged(t)
  BY Here DEF Table!Retire, Table!At
<1>2. /\ Table!TypeOK /\ b \in Builds /\ tNameOf[b] = n
      /\ e \in Builds /\ prev \in Builds /\ tNameOf[e] = n
  BY <1>1 DEF Table!IInv, Table!TasksTyped, Table!Bringing, Table!Serving
<1>3. /\ UNCHANGED <<tLinks, tOrder, tEntries, tRaw, tCut, tNameOf, tSup, tBoot,
                     tStarted, tStopped, tStop, tLate, tPanicked>>
      /\ tPipe' = IF old = None THEN tPipe ELSE [tPipe EXCEPT ![old] = "down"]
      /\ Table!Continue(t, IF tTask[t].run THEN "launch" ELSE "adopt")
  BY DEF Table!Retire, Table!tables, Table!session, Table!history, Table!Halted
<1>4. /\ tLinks[n] = b /\ tEntries[n] = e /\ old # b
      /\ old # None => tNameOf[old] = n
      /\ IF tTask[t].run THEN tStarted /\ Table!Asleep(b) ELSE old # None => Table!Asleep(old)
      /\ old \in Builds \cup {None} /\ tTask[t].run \in BOOLEAN
  BY <1>1 DEF Table!Staged, Table!IInv, Table!TasksTyped, Table!Task
<1>5. /\ tPipe' \in [Builds -> {"unused", "built", "up", "down"}]
      /\ old # None => tPipe'[old] = "down"
      /\ \A c \in Builds : c # old => tPipe'[c] = tPipe[c]
  BY <1>2, <1>3, <1>4 DEF Table!TypeOK
<1>6. /\ tTask' \in [Tasks -> Table!Task] /\ \A u \in Tasks : u # t => tTask'[u] = tTask[u]
      /\ tTask'[t].at = (IF tTask[t].run THEN "launch" ELSE "adopt") /\ tTask'[t].name = n /\ tTask'[t].new = tTask[t].new
      /\ tTask'[t].entry = tTask[t].entry /\ tTask'[t].prev = tTask[t].prev
  BY <1>3, Continues DEF Table!Stages
<1>7. Table!TypeOK' /\ Table!Ordered' /\ Table!AddIsSafe'
  BY <1>2, <1>3, <1>5 DEF Table!IInv, Table!TypeOK, Table!Ordered, Table!AddIsSafe
<1>8. Stands(t, n)'
  <2>1. CASE tTask[t].run
    BY <2>1, <1>1, <1>2, <1>3, <1>4, <1>5, <1>6 DEF Stands, RunsHere, HeldHere, Table!Named, Table!Stopping, Table!Staged,
      Table!Wanted, Table!Asleep
  <2>2. CASE ~tTask[t].run
    BY <2>2, <1>1, <1>2, <1>3, <1>4, <1>5, <1>6 DEF Stands, RunsHere, HeldHere, Table!Named, Table!Stopping, Table!Staged,
      Table!Wanted, Table!Asleep
  <2> QED BY <2>1, <2>2
<1> QED BY <1>1, <1>2, <1>3, <1>4, <1>5, <1>6, <1>7, <1>8, Follow DEF Table!Bringing, Table!Serving

LEMMA LaunchKeeps ==
  ASSUME Table!IInv, NEW t \in Tasks, Table!Launch(t),
         NEW n, n = tTask[t].name, NEW b, b = tTask[t].new,
         NEW e, e = tTask[t].entry, NEW prev, prev = tTask[t].prev
  PROVE  Table!IInv'
<1>1. /\ tTask[t].at = "launch" /\ n \in Names /\ None \notin Builds
      /\ Stands(t, n) /\ Table!Staged(t)
  BY Here DEF Table!Launch, Table!At
<1>2. /\ Table!TypeOK /\ b \in Builds /\ tNameOf[b] = n
      /\ e \in Builds /\ prev \in Builds /\ tNameOf[e] = n
  BY <1>1 DEF Table!IInv, Table!TasksTyped, Table!Bringing, Table!Serving
<1>3. UNCHANGED <<tLinks, tOrder, tEntries, tRaw, tCut, tNameOf, tBoot,
                  tStarted, tStopped, tStop, tLate, tPanicked>>
  BY DEF Table!Launch, Table!tables, Table!session, Table!history
<1>4. tLinks[n] = b /\ tEntries[n] = e /\ Table!Asleep(b) /\ tStarted
  BY <1>1 DEF Table!Staged
<1>5. CASE Table!MayStart(b) /\ Table!Raise(b) /\ Table!Continue(t, "confirm") /\ UNCHANGED tSup
  <2>1. /\ tPipe' \in [Builds -> {"unused", "built", "up", "down"}] /\ tPipe'[b] = "up" /\ tPipe[b] # "down"
        /\ \A c \in Builds : c # b => tPipe'[c] = tPipe[c]
    BY <1>2, <1>5 DEF Table!TypeOK, Table!Raise, Table!MayStart
  <2>2. /\ tTask' \in [Tasks -> Table!Task] /\ \A u \in Tasks : u # t => tTask'[u] = tTask[u]
        /\ tTask'[t].at = "confirm" /\ tTask'[t].name = n /\ tTask'[t].new = tTask[t].new
        /\ tTask'[t].entry = tTask[t].entry /\ tTask'[t].prev = tTask[t].prev
    BY <1>5, Continues DEF Table!Stages
  <2>3. Table!TypeOK' /\ Table!Ordered' /\ Table!AddIsSafe'
    BY <1>2, <1>3, <1>5, <2>1 DEF Table!IInv, Table!TypeOK, Table!Ordered, Table!AddIsSafe
  <2>4. Stands(t, n)'
    BY <1>1, <1>2, <1>3, <1>4, <1>5, <2>1, <2>2 DEF Stands, RunsHere, HeldHere, Table!Named, Table!Stopping, Table!Staged,
      Table!Wanted, Table!Asleep
  <2> QED BY <1>1, <1>2, <1>3, <1>5, <2>1, <2>2, <2>3, <2>4, Follow DEF Table!Bringing, Table!Serving
<1>6. CASE tSup' = [tSup EXCEPT ![b] = "wait"] /\ Table!Continue(t, "adopt") /\ UNCHANGED tPipe
  <2>1. /\ tSup' \in [Builds -> {"none", "boot", "wait", "try", "confirm"}]
        /\ \A c \in Builds : c # b => tSup'[c] = tSup[c]
    BY <1>2, <1>6 DEF Table!TypeOK
  <2>2. /\ tTask' \in [Tasks -> Table!Task] /\ \A u \in Tasks : u # t => tTask'[u] = tTask[u]
        /\ tTask'[t].at = "adopt" /\ tTask'[t].name = n /\ tTask'[t].new = tTask[t].new
        /\ tTask'[t].entry = tTask[t].entry /\ tTask'[t].prev = tTask[t].prev
    BY <1>6, Continues DEF Table!Stages
  <2>3. Table!TypeOK' /\ Table!Ordered' /\ Table!AddIsSafe'
    BY <1>2, <1>3, <1>6, <2>1 DEF Table!IInv, Table!TypeOK, Table!Ordered, Table!AddIsSafe
  <2>4. Stands(t, n)'
    BY <1>1, <1>2, <1>3, <1>4, <1>6, <2>1, <2>2 DEF Stands, RunsHere, HeldHere, Table!Named, Table!Stopping, Table!Staged,
      Table!Wanted, Table!Asleep
  <2> QED BY <1>1, <1>2, <1>3, <1>6, <2>1, <2>2, <2>3, <2>4, Follow DEF Table!Bringing, Table!Serving
<1> QED BY <1>5, <1>6 DEF Table!Launch

LEMMA ConfirmKeeps ==
  ASSUME Table!IInv, NEW t \in Tasks, Table!Confirm(t),
         NEW n, n = tTask[t].name, NEW b, b = tTask[t].new,
         NEW e, e = tTask[t].entry, NEW prev, prev = tTask[t].prev
  PROVE  Table!IInv'
<1>1. /\ tTask[t].at = "confirm" /\ n \in Names /\ None \notin Builds
      /\ Stands(t, n) /\ Table!Staged(t)
  BY Here DEF Table!Confirm, Table!At
<1>2. /\ Table!TypeOK /\ b \in Builds /\ tNameOf[b] = n
      /\ e \in Builds /\ prev \in Builds /\ tNameOf[e] = n
  BY <1>1 DEF Table!IInv, Table!TasksTyped, Table!Bringing, Table!Serving
<1>3. /\ UNCHANGED <<tLinks, tOrder, tEntries, tRaw, tCut, tNameOf, tBoot,
                     tStarted, tStopped, tStop, tLate, tPanicked>>
      /\ tPipe' = IF tStopped THEN [tPipe EXCEPT ![b] = "down"] ELSE tPipe
      /\ tSup' = IF tStopped THEN [tSup EXCEPT ![b] = "wait"] ELSE tSup
      /\ Table!Continue(t, "adopt")
  BY DEF Table!Confirm, Table!Confirmed, Table!Halted, Table!tables, Table!session, Table!history
<1>4. tLinks[n] = b /\ tEntries[n] = e /\ tStarted
  BY <1>1 DEF Table!Staged
<1>5. /\ tPipe' \in [Builds -> {"unused", "built", "up", "down"}]
      /\ tSup' \in [Builds -> {"none", "boot", "wait", "try", "confirm"}]
      /\ tStopped => tPipe'[b] = "down"
      /\ ~tStopped => tPipe' = tPipe
      /\ \A c \in Builds : c # b => tPipe'[c] = tPipe[c] /\ tSup'[c] = tSup[c]
      /\ tPipe'[b] \in {tPipe[b], "down"}
  BY <1>2, <1>3 DEF Table!TypeOK
<1>6. /\ tTask' \in [Tasks -> Table!Task] /\ \A u \in Tasks : u # t => tTask'[u] = tTask[u]
      /\ tTask'[t].at = "adopt" /\ tTask'[t].name = n /\ tTask'[t].new = tTask[t].new
      /\ tTask'[t].entry = tTask[t].entry /\ tTask'[t].prev = tTask[t].prev
  BY <1>3, Continues DEF Table!Stages
<1>7. Table!TypeOK' /\ Table!Ordered' /\ Table!AddIsSafe'
  BY <1>2, <1>3, <1>5 DEF Table!IInv, Table!TypeOK, Table!Ordered, Table!AddIsSafe
<1>8. Stands(t, n)'
  BY <1>1, <1>2, <1>3, <1>4, <1>5, <1>6 DEF Stands, RunsHere, HeldHere, Table!Named, Table!Stopping, Table!Staged, Table!Wanted,
    Table!Asleep
<1> QED BY <1>1, <1>2, <1>3, <1>5, <1>6, <1>7, <1>8, Follow DEF Table!Bringing, Table!Serving

LEMMA AdoptKeeps ==
  ASSUME Table!IInv, NEW t \in Tasks, Table!Adopt(t),
         NEW n, n = tTask[t].name, NEW b, b = tTask[t].new,
         NEW e, e = tTask[t].entry, NEW prev, prev = tTask[t].prev
  PROVE  Table!IInv'
<1>1. /\ tTask[t].at = "adopt" /\ n \in Names /\ None \notin Builds
      /\ Stands(t, n) /\ Table!Staged(t)
  BY Here DEF Table!Adopt, Table!At
<1>2. /\ Table!TypeOK /\ b \in Builds /\ tNameOf[b] = n
      /\ e \in Builds /\ prev \in Builds /\ tNameOf[e] = n
  BY <1>1 DEF Table!IInv, Table!TasksTyped, Table!Bringing, Table!Serving
<1>3. /\ UNCHANGED <<tLinks, tOrder, tEntries, tPipe, tCut, tNameOf, tSup, tBoot,
                     tStarted, tStopped, tStop, tLate, tPanicked>>
      /\ tRaw' = [tRaw EXCEPT ![e] = b] /\ Table!Continue(t, "discard")
  BY DEF Table!Adopt, Table!builds, Table!session, Table!history
<1>4. tLinks[n] = b /\ tEntries[n] = e
  BY <1>1 DEF Table!Staged
<1>5. /\ tRaw' \in [Builds -> Builds] /\ tRaw'[e] = b
      /\ \A c \in Builds : c # e => tRaw'[c] = tRaw[c]
  BY <1>2, <1>3 DEF Table!TypeOK
<1>6. /\ tTask' \in [Tasks -> Table!Task] /\ \A u \in Tasks : u # t => tTask'[u] = tTask[u]
      /\ tTask'[t].at = "discard" /\ tTask'[t].name = n /\ tTask'[t].new = tTask[t].new
      /\ tTask'[t].entry = tTask[t].entry /\ tTask'[t].prev = tTask[t].prev
  BY <1>3, Continues DEF Table!Stages
<1>7. Table!TypeOK' /\ Table!Ordered' /\ Table!AddIsSafe'
  BY <1>2, <1>3, <1>5 DEF Table!IInv, Table!TypeOK, Table!Ordered, Table!AddIsSafe
<1>8. Stands(t, n)'
  BY <1>1, <1>2, <1>3, <1>4, <1>5, <1>6 DEF Stands, RunsHere, HeldHere, Table!Named, Table!Stopping, Table!Staged, Table!Wanted,
    Table!Asleep
<1> QED BY <1>1, <1>2, <1>3, <1>5, <1>6, <1>7, <1>8, Follow DEF Table!Bringing, Table!Serving

LEMMA DiscardKeeps ==
  ASSUME Table!IInv, NEW t \in Tasks, Table!Discard(t),
         NEW n, n = tTask[t].name, NEW b, b = tTask[t].new,
         NEW e, e = tTask[t].entry, NEW prev, prev = tTask[t].prev
  PROVE  Table!IInv'
<1>1. /\ tTask[t].at = "discard" /\ n \in Names /\ None \notin Builds
      /\ Stands(t, n) /\ Table!Staged(t)
  BY Here DEF Table!Discard, Table!At
<1>2. /\ Table!TypeOK /\ b \in Builds /\ tNameOf[b] = n
      /\ e \in Builds /\ prev \in Builds /\ tNameOf[e] = n
  BY <1>1 DEF Table!IInv, Table!TasksTyped, Table!Bringing, Table!Serving
<1>3. /\ UNCHANGED <<tLinks, tOrder, tEntries, tRaw, tPipe, tNameOf, tSup, tBoot,
                     tStarted, tStopped, tStop, tLate, tPanicked>>
      /\ tCut' = tCut \cup {prev} /\ Table!Finish(t)
  BY DEF Table!Discard, Table!tables, Table!session, Table!history
<1>4. /\ tTask' \in [Tasks -> Table!Task] /\ \A u \in Tasks : u # t => tTask'[u] = tTask[u]
      /\ tTask'[t].at = "idle"
  BY <1>3, Finishes
<1>5. Table!TypeOK' /\ Table!Ordered' /\ Table!AddIsSafe'
  BY <1>2, <1>3 DEF Table!IInv, Table!TypeOK, Table!Ordered, Table!AddIsSafe
<1>6. Stands(t, n)'
  BY <1>1, <1>2, <1>3, <1>4 DEF Stands, RunsHere, HeldHere, Table!Named, Table!Stopping, Table!Staged, Table!Wanted,
    Table!Asleep
<1> QED BY <1>1, <1>2, <1>3, <1>4, <1>5, <1>6, Follow DEF Table!Bringing, Table!Serving

-----------------------------------------------------------------------------
\* Session.Start, the supervisors and Stop work on the builds they hold.

\* A step about build b, and what is to be shown of it.
LEMMA BuildFollow ==
  ASSUME Table!IInv, NEW b \in Builds, tNameOf[b] # None,
         UNCHANGED <<tLinks, tOrder, tEntries, tRaw, tCut, tNameOf, tTask, tStarted, tStopped, tLate, tPanicked>>,
         NEW rest \in SUBSET Builds, tStop' = [tStop EXCEPT !.links = rest],
         tBoot' \subseteq tBoot,
         tPipe' \in [Builds -> {"unused", "built", "up", "down"}],
         tSup' \in [Builds -> {"none", "boot", "wait", "try", "confirm"}],
         \A c \in Builds : c # b =>
            /\ tPipe'[c] = tPipe[c] /\ tSup'[c] = tSup[c]
            /\ c \in tBoot' <=> c \in tBoot
            /\ c \in rest <=> c \in tStop.links,
         tPipe'[b] # "unused",
         Table!Asleep(b) => Table!Asleep(b)',
         Table!MayRun(b)',
         tStopped /\ tPipe[b] = "down" => tPipe'[b] = "down",
         b \in tStop.links => b \in rest \/ tPipe'[b] = "down"
  PROVE  Table!IInv'
<1>1. /\ Table!TypeOK /\ Table!TasksTyped /\ Table!StopTyped /\ Table!OneEach /\ Table!Unbuilt
      /\ Table!Ordered /\ Table!AddIsSafe /\ None \notin Names \cup Builds
  BY TableAssumption DEF Table!IInv, TableAssumption
<1>2. Table!TypeOK'
  BY <1>1 DEF Table!TypeOK
<1>3. tStop'.at = tStop.at /\ tStop'.entries = tStop.entries /\ tStop'.links = rest
  BY <1>1 DEF Table!StopTyped
<1>4. Table!TasksTyped' /\ Table!OneEach' /\ Table!Ordered' /\ Table!AddIsSafe'
  BY <1>1 DEF Table!TasksTyped, Table!OneEach, Table!Ordered, Table!AddIsSafe
<1>5. Table!StopTyped'
  BY <1>3, <1>1 DEF Table!StopTyped
<1>6. Table!Unbuilt'
  BY <1>3, <1>1 DEF Table!Unbuilt
<1>7. ASSUME NEW m \in Names PROVE Table!Kept(m)'
  <2>1. Table!Kept(m)
    BY DEF Table!IInv
  <2>2. Table!Named(m)'
    BY <2>1 DEF Table!Kept, Table!Named
  <2>3. ~Table!Busy(m)' => tLinks'[m] = Table!Wanted(m)'
    BY <2>1 DEF Table!Kept, Table!Busy, Table!Wanted
  <2>4. \A c \in Builds : Table!Asleep(c) => Table!Asleep(c)'
    BY DEF Table!Asleep
  <2>5. ASSUME NEW t \in Tasks, tTask'[t].at # "idle", tTask'[t].name = m PROVE Table!Staged(t)'
    <3>1. Table!Staged(t) /\ tTask[t] \in Table!Task
      BY <1>1, <2>1, <2>5 DEF Table!Kept, Table!TasksTyped
    <3>2. /\ tTask[t].at \in Table!Bringing => tTask[t].new \in Builds
          /\ tTask[t].old \in Builds \cup {None}
      BY <1>1, <3>1 DEF Table!TasksTyped, Table!Task
    <3>3. /\ tTask[t].at \in Table!Bringing => (Table!Asleep(tTask[t].new) => Table!Asleep(tTask[t].new)')
          /\ tTask[t].old # None => (Table!Asleep(tTask[t].old) => Table!Asleep(tTask[t].old)')
      BY <2>4, <3>2
    <3> QED BY <3>1, <3>3 DEF Table!Staged, Table!Wanted, Table!Bringing
  <2>6. ASSUME NEW c \in Builds, tNameOf'[c] = m PROVE Table!MayRun(c)'
    <3>1. Table!MayRun(c) /\ (Table!Held(c) <=> Table!Held(c)')
      BY <2>1, <2>6 DEF Table!Kept, Table!Held
    <3> QED BY <3>1 DEF Table!MayRun, Table!Asleep
  <2>7. Table!Stopping(m)'
    BY <1>3, <1>1, <2>1 DEF Table!Kept, Table!Stopping, Table!TypeOK
  <2> QED BY <2>2, <2>3, <2>5, <2>6, <2>7 DEF Table!Kept
<1> QED BY <1>2, <1>4, <1>5, <1>6, <1>7 DEF Table!IInv

LEMMA BuildStepKeeps ==
  ASSUME Table!IInv, NEW b \in Builds, Table!BuildStep(b)
  PROVE  Table!IInv'
<1>1. /\ Table!TypeOK /\ Table!StopTyped /\ Table!Unbuilt /\ None \notin Names \cup Builds
  BY TableAssumption DEF Table!IInv, TableAssumption
<1>2. UNCHANGED <<tLinks, tOrder, tEntries, tRaw, tCut, tNameOf, tTask, tStarted, tStopped, tLate, tPanicked>>
  BY DEF Table!BuildStep, Table!BootRaise, Table!BootFails, Table!SupervisorEnds, Table!SupervisorWakes, Table!SupervisorRaises,
    Table!SupervisorFails, Table!LinkConfirms, Table!StopLink, Table!tables, Table!builds, Table!session, Table!history
<1>3. Table!Held(b)' <=> Table!Held(b)
  BY <1>2 DEF Table!Held
<1>4. tStop.links \in SUBSET Builds /\ tStop = [tStop EXCEPT !.links = tStop.links]
  BY <1>1 DEF Table!StopTyped
<1>5. tNameOf[b] # None => /\ Table!MayRun(b) /\ tPipe[b] # "unused"
  BY <1>1 DEF Table!IInv, Table!Kept, Table!Named, Table!TypeOK
<1>6. CASE Table!BootRaise(b)
  <2>1. b \in tBoot /\ tPipe[b] # "down" /\ tNameOf[b] # None
    BY <1>1, <1>6 DEF Table!BootRaise, Table!MayStart, Table!Unbuilt
  <2>2. /\ tPipe' = [tPipe EXCEPT ![b] = "up"] /\ tSup' = [tSup EXCEPT ![b] = "boot"]
        /\ tBoot' = tBoot \ {b} /\ tStop' = tStop
    BY <1>6 DEF Table!BootRaise, Table!Raise
  <2>3. /\ tPipe' \in [Builds -> {"unused", "built", "up", "down"}] /\ tPipe'[b] = "up"
        /\ tSup' \in [Builds -> {"none", "boot", "wait", "try", "confirm"}] /\ tSup'[b] = "boot"
        /\ \A c \in Builds : c # b => tPipe'[c] = tPipe[c] /\ tSup'[c] = tSup[c]
    BY <1>1, <2>2 DEF Table!TypeOK
  <2>4. Table!MayRun(b)' /\ ~Table!Asleep(b)
    BY <1>2, <1>3, <1>5, <2>1, <2>2, <2>3 DEF Table!MayRun, Table!Asleep
  <2> QED BY <1>4, <1>2, <2>1, <2>2, <2>3, <2>4, BuildFollow
<1>7. CASE Table!BootFails(b)
  <2>1. b \in tBoot /\ tNameOf[b] # None
    BY <1>1, <1>7 DEF Table!BootFails, Table!Unbuilt
  <2>2. tPipe' = tPipe /\ tSup' = [tSup EXCEPT ![b] = "wait"] /\ tBoot' = tBoot \ {b} /\ tStop' = tStop
    BY <1>7 DEF Table!BootFails, Table!builds
  <2>3. /\ tPipe' \in [Builds -> {"unused", "built", "up", "down"}]
        /\ tSup' \in [Builds -> {"none", "boot", "wait", "try", "confirm"}] /\ tSup'[b] = "wait"
        /\ \A c \in Builds : c # b => tPipe'[c] = tPipe[c] /\ tSup'[c] = tSup[c]
    BY <1>1, <2>2 DEF Table!TypeOK
  <2>4. Table!MayRun(b)' /\ ~Table!Asleep(b)
    BY <1>2, <1>3, <1>5, <2>1, <2>2, <2>3 DEF Table!MayRun, Table!Asleep
  <2> QED BY <1>4, <1>2, <1>5, <2>1, <2>2, <2>3, <2>4, BuildFollow
<1>8. CASE Table!SupervisorEnds(b) \/ Table!SupervisorWakes(b) \/ Table!SupervisorFails(b)
  <2>1. tSup[b] # "none" /\ tNameOf[b] # None
    BY <1>1, <1>8 DEF Table!SupervisorEnds, Table!SupervisorWakes, Table!SupervisorFails, Table!Unbuilt
  <2>2. PICK s \in {"none", "wait", "try"} :
          tPipe' = tPipe /\ tSup' = [tSup EXCEPT ![b] = s] /\ tBoot' = tBoot /\ tStop' = tStop
    BY <1>8 DEF Table!SupervisorEnds, Table!SupervisorWakes, Table!SupervisorFails, Table!builds, Table!session
  <2>3. /\ tPipe' \in [Builds -> {"unused", "built", "up", "down"}]
        /\ tSup' \in [Builds -> {"none", "boot", "wait", "try", "confirm"}]
        /\ \A c \in Builds : c # b => tPipe'[c] = tPipe[c] /\ tSup'[c] = tSup[c]
    BY <1>1, <2>2 DEF Table!TypeOK
  <2>4. Table!MayRun(b)' /\ ~Table!Asleep(b)
    BY <1>2, <1>3, <1>5, <2>1, <2>2, <2>3 DEF Table!MayRun, Table!Asleep
  <2> QED BY <1>4, <1>2, <1>5, <2>1, <2>2, <2>3, <2>4, BuildFollow
<1>9. CASE Table!SupervisorRaises(b)
  <2>1. tSup[b] = "try" /\ tPipe[b] # "down" /\ tNameOf[b] # None
    BY <1>1, <1>9 DEF Table!SupervisorRaises, Table!MayStart, Table!Unbuilt
  <2>2. /\ tPipe' = [tPipe EXCEPT ![b] = "up"] /\ tSup' = [tSup EXCEPT ![b] = "confirm"]
        /\ tBoot' = tBoot /\ tStop' = tStop
    BY <1>9 DEF Table!SupervisorRaises, Table!Raise, Table!session
  <2>3. /\ tPipe' \in [Builds -> {"unused", "built", "up", "down"}] /\ tPipe'[b] = "up"
        /\ tSup' \in [Builds -> {"none", "boot", "wait", "try", "confirm"}]
        /\ \A c \in Builds : c # b => tPipe'[c] = tPipe[c] /\ tSup'[c] = tSup[c]
    BY <1>1, <2>2 DEF Table!TypeOK
  <2>4. Table!MayRun(b)' /\ ~Table!Asleep(b)
    BY <1>2, <1>3, <1>5, <2>1, <2>2, <2>3 DEF Table!MayRun, Table!Asleep
  <2> QED BY <1>4, <1>2, <2>1, <2>2, <2>3, <2>4, BuildFollow
<1>10. CASE Table!LinkConfirms(b)
  <2>1. tSup[b] # "none" /\ tNameOf[b] # None
    BY <1>1, <1>10 DEF Table!LinkConfirms, Table!Unbuilt
  <2>2. /\ tPipe' = IF tStopped THEN [tPipe EXCEPT ![b] = "down"] ELSE tPipe
        /\ tSup' = [tSup EXCEPT ![b] = IF tStopped THEN "wait" ELSE "none"]
        /\ tBoot' = tBoot /\ tStop' = tStop
    BY <1>10 DEF Table!LinkConfirms, Table!Confirmed, Table!Halted, Table!session
  <2>3. /\ tPipe' \in [Builds -> {"unused", "built", "up", "down"}]
        /\ tPipe'[b] \in {tPipe[b], "down"}
        /\ tStopped => tPipe'[b] = "down"
        /\ tSup' \in [Builds -> {"none", "boot", "wait", "try", "confirm"}]
        /\ \A c \in Builds : c # b => tPipe'[c] = tPipe[c] /\ tSup'[c] = tSup[c]
    BY <1>1, <2>2 DEF Table!TypeOK
  <2>4. Table!MayRun(b)' /\ ~Table!Asleep(b)
    BY <1>2, <1>3, <1>5, <2>1, <2>2, <2>3 DEF Table!MayRun, Table!Asleep
  <2> QED BY <1>4, <1>2, <1>5, <2>1, <2>2, <2>3, <2>4, BuildFollow
<1>11. CASE Table!StopLink(b)
  <2>1. b \in tStop.links /\ tNameOf[b] # None
    BY <1>1, <1>11 DEF Table!StopLink, Table!Unbuilt
  <2>2. /\ tPipe' = [tPipe EXCEPT ![b] = "down"] /\ tSup' = tSup /\ tBoot' = tBoot
        /\ tStop' = [tStop EXCEPT !.links = tStop.links \ {b}]
    BY <1>11 DEF Table!StopLink, Table!Halted
  <2>3. /\ tPipe' \in [Builds -> {"unused", "built", "up", "down"}] /\ tPipe'[b] = "down"
        /\ tSup' \in [Builds -> {"none", "boot", "wait", "try", "confirm"}]
        /\ \A c \in Builds : c # b => tPipe'[c] = tPipe[c] /\ tSup'[c] = tSup[c]
    BY <1>1, <2>2 DEF Table!TypeOK
  <2>4. tStop.links \ {b} \in SUBSET Builds
    BY <1>1 DEF Table!StopTyped
  <2>5. Table!MayRun(b)' /\ (Table!Asleep(b) => Table!Asleep(b)')
    BY <1>2, <1>3, <1>5, <2>1, <2>2, <2>3 DEF Table!MayRun, Table!Asleep
  <2> QED BY <1>2, <2>1, <2>2, <2>3, <2>4, <2>5, BuildFollow
<1> QED BY <1>6, <1>7, <1>8, <1>9, <1>10, <1>11 DEF Table!BuildStep

LEMMA SessionStartKeeps == Table!IInv /\ Table!SessionStart => Table!IInv'
<1> SUFFICES ASSUME Table!IInv, Table!SessionStart PROVE Table!IInv'
  OBVIOUS
<1>1. /\ Table!TypeOK /\ Table!TasksTyped /\ Table!StopTyped /\ Table!OneEach /\ Table!Unbuilt
      /\ Table!Ordered /\ Table!AddIsSafe /\ None \notin Names \cup Builds
      /\ \A m \in Names : Table!Kept(m)
  BY TableAssumption DEF Table!IInv, TableAssumption
<1>2. /\ ~tStarted /\ ~tStopped /\ tStarted' = TRUE
      /\ tBoot' = {tLinks[m] : m \in Names} \ {None}
      /\ UNCHANGED <<tLinks, tOrder, tEntries, tRaw, tPipe, tCut, tNameOf, tSup,
                     tStopped, tStop, tTask, tLate, tPanicked>>
  BY DEF Table!SessionStart, Table!tables, Table!builds, Table!history
<1>3. ASSUME NEW m \in Names
      PROVE  /\ tLinks[m] # None => tLinks[m] \in Builds /\ tNameOf[tLinks[m]] = m
             /\ \A b \in Builds : tNameOf[b] = m => (b \in tBoot' <=> tLinks[m] = b)
  <2>1. \A k \in Names : tLinks[k] # None => tLinks[k] \in Builds /\ tNameOf[tLinks[k]] = k
    BY <1>1 DEF Table!Kept, Table!Named, Table!TypeOK
  <2> QED BY <1>1, <1>2, <2>1
<1>4. Table!TypeOK'
  BY <1>1, <1>2, <1>3 DEF Table!TypeOK
<1>5. Table!TasksTyped' /\ Table!StopTyped' /\ Table!OneEach' /\ Table!Ordered' /\ Table!AddIsSafe'
  BY <1>1, <1>2 DEF Table!TasksTyped, Table!StopTyped, Table!OneEach, Table!Ordered, Table!AddIsSafe
<1>6. Table!Unbuilt'
  BY <1>1, <1>2, <1>3 DEF Table!Unbuilt
<1>7. ASSUME NEW m \in Names PROVE Table!Kept(m)'
  <2>1. Table!Kept(m)
    BY <1>1
  <2>2. Table!Named(m)' /\ Table!Stopping(m)' /\ (~Table!Busy(m)' => tLinks'[m] = Table!Wanted(m)')
    BY <1>2, <2>1 DEF Table!Kept, Table!Named, Table!Stopping, Table!Busy, Table!Wanted
  <2>3. ASSUME NEW b \in Builds, tNameOf[b] = m, tLinks[m] # b, Table!Asleep(b) PROVE Table!Asleep(b)'
    BY <1>2, <1>3, <2>3 DEF Table!Asleep
  <2>4. ASSUME NEW t \in Tasks, tTask'[t].at # "idle", tTask'[t].name = m PROVE Table!Staged(t)'
    <3>1. tTask' = tTask /\ Table!Staged(t) /\ tTask[t] \in Table!Task /\ tTask[t].name = m
      BY <1>1, <1>2, <2>1, <2>4 DEF Table!Kept, Table!TasksTyped
    <3>2. /\ tTask[t].at \in Table!Bringing => tTask[t].new \in Builds /\ tNameOf[tTask[t].new] = m
          /\ tTask[t].old \in Builds \cup {None}
      BY <1>1, <3>1 DEF Table!TasksTyped, Table!Task
    <3>3. ~ tTask[t].at \in {"check", "raise", "insert", "attach", "unlink", "silence", "launch", "confirm"}
      BY <1>2, <3>1 DEF Table!Staged
    <3>4. tTask[t].at = "swap" => Table!Asleep(tTask[t].new)'
      BY <1>2, <2>3, <3>1, <3>2 DEF Table!Staged, Table!Bringing
    <3>5. tTask[t].at = "retire" =>
            ~tTask[t].run /\ (tTask[t].old # None => Table!Asleep(tTask[t].old)')
      BY <1>2, <2>3, <3>1, <3>2 DEF Table!Staged, Table!Bringing
    <3>6. Table!Wanted(m)' = Table!Wanted(m)
      BY <1>2 DEF Table!Wanted
    <3> QED BY <1>2, <3>1, <3>3, <3>4, <3>5, <3>6 DEF Table!Staged
  <2>5. ASSUME NEW b \in Builds, tNameOf'[b] = m PROVE Table!MayRun(b)'
    <3>1. Table!MayRun(b) /\ (Table!Held(b) <=> Table!Held(b)') /\ (b \in tBoot' => Table!Held(b))
      BY <1>2, <1>3, <2>1, <2>5 DEF Table!Kept, Table!Held
    <3> QED BY <1>2, <3>1 DEF Table!MayRun, Table!Asleep
  <2> QED BY <2>2, <2>4, <2>5 DEF Table!Kept
<1> QED BY <1>4, <1>5, <1>6, <1>7 DEF Table!IInv

\* Manager.Stop changes nothing but who is to be stopped, and when.
LEMMA StopKeeps ==
  Table!IInv /\ (Table!StopList \/ Table!StopSession \/ Table!StopWaits \/ Table!StopRaw) => Table!IInv'
<1> SUFFICES ASSUME Table!IInv, Table!StopList \/ Table!StopSession \/ Table!StopWaits \/ Table!StopRaw
             PROVE  Table!IInv'
  OBVIOUS
<1>1. /\ Table!TypeOK /\ Table!TasksTyped /\ Table!StopTyped /\ Table!OneEach /\ Table!Unbuilt
      /\ Table!Ordered /\ Table!AddIsSafe /\ None \notin Names \cup Builds
      /\ \A m \in Names : Table!Kept(m)
  BY TableAssumption DEF Table!IInv, TableAssumption
<1>2. UNCHANGED <<tLinks, tOrder, tEntries, tRaw, tPipe, tNameOf, tSup, tBoot, tStarted, tTask, tPanicked>>
  BY DEF Table!StopList, Table!StopSession, Table!StopWaits, Table!StopRaw, Table!tables, Table!builds, Table!history
<1>3. /\ \A m \in Names : tLinks[m] # None => tLinks[m] \in Builds /\ tNameOf[tLinks[m]] = m
      /\ \A m \in Names : tEntries[m] # None => tEntries[m] \in Builds
  BY <1>1 DEF Table!Kept, Table!Named, Table!TypeOK
<1>4. /\ tStop.at \in {"no", "close", "links", "raw", "done"}
      /\ tStop.links \subseteq Builds /\ tStop.entries \subseteq Builds
      /\ tStopped <=> tStop.at \in {"links", "raw", "done"}
  BY <1>1 DEF Table!StopTyped
<1>5. /\ Table!StopTyped' /\ tCut' \subseteq Builds /\ tStopped' \in BOOLEAN
      /\ tLate \subseteq tLate' /\ tLate' \subseteq Builds
      /\ \A b \in tStop'.links : b \in tStop.links \/ \E m \in Names : b = tLinks[m] /\ b # None
  <2>1. CASE Table!StopList
    <3>1. /\ tStop.at = "no" /\ UNCHANGED <<tCut, tStopped, tLate>>
          /\ tStop' = [tStop EXCEPT !.at = "close", !.entries = {tEntries[m] : m \in Names} \ {None}]
      BY <2>1 DEF Table!StopList, Table!builds, Table!history
    <3>2. {tEntries[m] : m \in Names} \ {None} \subseteq Builds
      BY <1>3
    <3> QED BY <1>1, <1>4, <3>1, <3>2 DEF Table!StopTyped, Table!TypeOK
  <2>2. CASE Table!StopSession
    <3>1. /\ tStop.at = "close" /\ tStopped' = TRUE /\ UNCHANGED tCut
          /\ tStop' = [tStop EXCEPT !.at = "links", !.links = {tLinks[m] : m \in Names} \ {None}]
          /\ tLate' = tLate \cup {tTask[t].new : t \in {u \in Tasks : tTask[u].at \in {"raise", "insert"}}}
      BY <2>2 DEF Table!StopSession, Table!builds
    <3>2. {tLinks[m] : m \in Names} \ {None} \subseteq Builds
      BY <1>3
    <3>3. \A t \in Tasks : tTask[t].at \in {"raise", "insert"} => tTask[t].new \in Builds
      BY <1>1 DEF Table!TasksTyped, Table!Bringing
    <3>4. tLate' \subseteq Builds
      BY <1>1, <3>1, <3>3 DEF Table!TypeOK
    <3> DEFINE lists == {tLinks[m] : m \in Names} \ {None}
    <3>5. lists \in SUBSET Builds /\ \A b \in lists : \E m \in Names : b = tLinks[m] /\ b # None
      BY <3>2
    <3> HIDE DEF lists
    <3>6. tStop' = [tStop EXCEPT !.at = "links", !.links = lists]
      BY <3>1 DEF lists
    <3>7. tStop'.links = lists /\ Table!StopTyped'
      BY <1>1, <3>1, <3>5, <3>6 DEF Table!StopTyped
    <3> QED BY <1>1, <3>1, <3>4, <3>5, <3>7 DEF Table!TypeOK
  <2>3. CASE Table!StopWaits
    <3>1. tStop.at = "links" /\ tStop' = [tStop EXCEPT !.at = "raw"] /\ UNCHANGED <<tCut, tStopped, tLate>>
      BY <2>3 DEF Table!StopWaits, Table!builds, Table!history
    <3> QED BY <1>1, <1>4, <3>1 DEF Table!StopTyped, Table!TypeOK
  <2>4. CASE Table!StopRaw
    <3>1. /\ tStop.at = "raw" /\ tStop' = [tStop EXCEPT !.at = "done"] /\ UNCHANGED <<tStopped, tLate>>
          /\ tCut' = tCut \cup {tRaw[e] : e \in tStop.entries}
      BY <2>4 DEF Table!StopRaw, Table!history
    <3>2. tCut' \subseteq Builds
      BY <1>1, <1>4, <3>1 DEF Table!TypeOK
    <3> QED BY <1>1, <1>4, <3>1, <3>2 DEF Table!StopTyped, Table!TypeOK
  <2> QED BY <2>1, <2>2, <2>3, <2>4
<1>6. ASSUME NEW t \in Tasks, tStopped', tTask[t].at \in {"raise", "insert"}, Table!Staged(t)
      PROVE  tTask[t].new \in tLate'
  <2>1. CASE tStopped
    BY <1>5, <1>6, <2>1 DEF Table!Staged
  <2>2. CASE ~tStopped
    <3>1. tLate' = tLate \cup {tTask[u].new : u \in {v \in Tasks : tTask[v].at \in {"raise", "insert"}}}
      BY <1>6, <2>2 DEF Table!StopList, Table!StopSession, Table!StopWaits, Table!StopRaw
    <3> QED BY <1>6, <3>1
  <2> QED BY <2>1, <2>2
<1>7. Table!TypeOK'
  BY <1>1, <1>2, <1>5 DEF Table!TypeOK
<1>8. Table!TasksTyped' /\ Table!OneEach' /\ Table!Ordered' /\ Table!AddIsSafe'
  BY <1>1, <1>2 DEF Table!TasksTyped, Table!OneEach, Table!Ordered, Table!AddIsSafe
<1>9. Table!Unbuilt'
  <2>1. ASSUME NEW b \in Builds, tNameOf[b] = None PROVE b \notin tStop'.links
    BY <1>1, <1>3, <1>5, <2>1 DEF Table!Unbuilt
  <2> QED BY <1>1, <1>2, <2>1 DEF Table!Unbuilt
<1>10. ASSUME NEW m \in Names PROVE Table!Stopping(m)'
  <2>1. Table!Stopping(m)
    BY <1>1 DEF Table!Kept
  <2>2. CASE Table!StopList
    BY <1>2, <1>4, <2>1, <2>2 DEF Table!StopList, Table!Stopping
  <2>3. CASE Table!StopSession
    <3>1. tStop' = [tStop EXCEPT !.at = "links", !.links = {tLinks[k] : k \in Names} \ {None}]
      BY <2>3 DEF Table!StopSession
    <3>2. tStop'.at = "links" /\ tStop'.links = {tLinks[k] : k \in Names} \ {None}
      BY <1>1, <3>1 DEF Table!StopTyped
    <3> QED BY <1>2, <3>2 DEF Table!Stopping
  <2>4. CASE Table!StopWaits \/ Table!StopRaw
    <3>1. tStopped' = tStopped /\ tLate' = tLate /\ ~ (tStop.at = "links" /\ tLinks[m] \in tStop.links)
      BY <1>4, <2>4 DEF Table!StopWaits, Table!StopRaw, Table!history
    <3> QED BY <1>2, <2>1, <3>1 DEF Table!Stopping
  <2> QED BY <2>2, <2>3, <2>4
<1>11. ASSUME NEW m \in Names PROVE Table!Kept(m)'
  <2>1. Table!Kept(m)
    BY <1>1
  <2>2. Table!Named(m)' /\ (~Table!Busy(m)' => tLinks'[m] = Table!Wanted(m)')
    BY <1>2, <2>1 DEF Table!Kept, Table!Named, Table!Busy, Table!Wanted
  <2>3. ASSUME NEW t \in Tasks, tTask'[t].at # "idle", tTask'[t].name = m PROVE Table!Staged(t)'
    <3>1. Table!Staged(t)
      BY <1>2, <2>1, <2>3 DEF Table!Kept
    <3> QED BY <1>2, <1>6, <3>1 DEF Table!Staged, Table!Wanted, Table!Asleep
  <2>4. ASSUME NEW b \in Builds, tNameOf'[b] = m PROVE Table!MayRun(b)'
    BY <1>2, <2>1, <2>4 DEF Table!Kept, Table!MayRun, Table!Held, Table!Asleep
  <2> QED BY <1>10, <2>2, <2>3, <2>4 DEF Table!Kept
<1> QED BY <1>5, <1>7, <1>8, <1>9, <1>11 DEF Table!IInv

-----------------------------------------------------------------------------
\* Requests, one at a time about a name.

\* A goroutine takes up a request about n, for a new build or without one.
LEMMA Begins ==
  ASSUME Table!IInv, ~Overlap, NEW t \in Tasks, NEW n \in Names, NEW step,
         NEW new \in Builds \cup {None}, NEW entry \in Builds \cup {None},
         step \in Table!Bringing => new \in Builds /\ tNameOf'[new] = n,
         step \in Table!Serving => entry \in Builds /\ tNameOf[entry] = n,
         step \in {"check", "unlink", "swap"}, Table!Begin(t, n, step, new, entry),
         \A b \in Builds : tNameOf[b] # None => tNameOf'[b] = tNameOf[b]
  PROVE  /\ ~Table!Busy(n) /\ tTask[t].at = "idle" /\ ~tPanicked
         /\ tLate' = tLate /\ tPanicked' = tPanicked
         /\ \A u \in Tasks : u # t => tTask'[u] = tTask[u]
         /\ tTask'[t].at = step /\ tTask'[t].name = n /\ tTask'[t].new = new /\ tTask'[t].entry = entry
         /\ Table!TasksTyped' /\ Table!OneEach'
         /\ \A u \in Tasks : tTask'[u] = tTask[u] \/ (About(u, n) /\ About(u, n)')
         /\ \A u \in Tasks : tTask'[u].at # "idle" /\ tTask'[u].name = n => u = t
<1> DEFINE was == IF entry = None THEN None ELSE tRaw[entry]
<1>1. /\ ~Table!Busy(n) /\ tTask[t].at = "idle" /\ ~tPanicked /\ tLate' = tLate /\ tPanicked' = tPanicked
      /\ tTask' = [tTask EXCEPT ![t] = [Table!Idle EXCEPT !.at = step, !.name = n, !.new = new,
                                                          !.entry = entry, !.prev = was]]
  BY DEF Table!Begin, Table!history
<1>2. /\ tTask \in [Tasks -> Table!Task] /\ None \notin Names \cup Builds
      /\ tRaw \in [Builds -> Builds] /\ tNameOf \in [Builds -> Names \cup {None}]
  BY TableAssumption DEF Table!IInv, Table!TasksTyped, Table!TypeOK, TableAssumption
<1>3. was \in Builds \cup {None} /\ (entry \in Builds => was \in Builds)
  BY <1>2
<1> HIDE DEF was
<1> DEFINE x == [Table!Idle EXCEPT !.at = step, !.name = n, !.new = new, !.entry = entry, !.prev = was]
<1>4. Table!Idle \in Table!Task
  BY DEF Table!Idle, Table!Task, Table!Stages
<1>5. x \in Table!Task /\ x.at = step /\ x.name = n /\ x.new = new /\ x.entry = entry /\ x.prev = was
  BY <1>3, <1>4 DEF Table!Task, Table!Stages
<1>6. /\ tTask' \in [Tasks -> Table!Task] /\ \A u \in Tasks : u # t => tTask'[u] = tTask[u]
      /\ tTask'[t].at = step /\ tTask'[t].name = n /\ tTask'[t].new = new
      /\ tTask'[t].entry = entry /\ tTask'[t].prev = was
  <2>1. tTask' = [tTask EXCEPT ![t] = x]
    BY <1>1
  <2> HIDE DEF x
  <2> QED BY <1>2, <1>5, <2>1
<1>7. \A u \in Tasks :
        /\ tTask[u].at # "idle" => tTask[u].name \in Names /\ tTask[u].name # n
        /\ tTask[u].at \in Table!Bringing => tTask[u].new \in Builds /\ tNameOf[tTask[u].new] = tTask[u].name
        /\ tTask[u].at \in Table!Serving => /\ tTask[u].entry \in Builds /\ tTask[u].prev \in Builds
                                            /\ tNameOf[tTask[u].entry] = tTask[u].name
  BY <1>1 DEF Table!Busy, Table!IInv, Table!TasksTyped
<1>8. Table!TasksTyped'
  <2>1. ASSUME NEW u \in Tasks, u # t
        PROVE  /\ tTask'[u].at # "idle" => tTask'[u].name \in Names
               /\ tTask'[u].at \in Table!Bringing =>
                     tTask'[u].new \in Builds /\ tNameOf'[tTask'[u].new] = tTask'[u].name
               /\ tTask'[u].at \in Table!Serving =>
                     /\ tTask'[u].entry \in Builds /\ tTask'[u].prev \in Builds
                     /\ tNameOf'[tTask'[u].entry] = tTask'[u].name
    BY <1>2, <1>6, <1>7, <2>1 DEF Table!Bringing, Table!Serving
  <2>2. /\ tTask'[t].at # "idle" => tTask'[t].name \in Names
        /\ tTask'[t].at \in Table!Bringing =>
              tTask'[t].new \in Builds /\ tNameOf'[tTask'[t].new] = tTask'[t].name
        /\ tTask'[t].at \in Table!Serving =>
              /\ tTask'[t].entry \in Builds /\ tTask'[t].prev \in Builds
              /\ tNameOf'[tTask'[t].entry] = tTask'[t].name
    BY <1>2, <1>3, <1>6
  <2> QED BY <1>6, <2>1, <2>2 DEF Table!TasksTyped
<1>9. Table!OneEach'
  BY <1>6, <1>7 DEF Table!IInv, Table!OneEach
<1>10. /\ \A u \in Tasks : tTask'[u] = tTask[u] \/ (About(u, n) /\ About(u, n)')
       /\ \A u \in Tasks : tTask'[u].at # "idle" /\ tTask'[u].name = n => u = t
  BY <1>1, <1>6, <1>7 DEF About
<1> QED BY <1>1, <1>6, <1>8, <1>9, <1>10

\* A build nobody holds is made for n, and a request brings it in.
LEMMA BringsKeeps ==
  ASSUME Table!IInv, ~Overlap, NEW t \in Tasks, NEW n \in Names, NEW b \in Builds,
         NEW step \in {"check", "swap"}, NEW entry \in Builds \cup {None},
         Table!Build(b, n), Table!Begin(t, n, step, b, entry),
         UNCHANGED <<tLinks, tOrder, tEntries, tRaw, tSup, tBoot, tStarted, tStopped, tStop>>,
         step = "check" => tStarted,
         step = "swap" => entry \in Builds /\ entry = tEntries[n]
  PROVE  Table!IInv'
<1>1. /\ Table!TypeOK /\ Table!StopTyped /\ Table!Unbuilt
      /\ Table!Ordered /\ Table!AddIsSafe /\ None \notin Names \cup Builds
      /\ Table!Kept(n)
  BY TableAssumption DEF Table!IInv, TableAssumption
<1>2. /\ tPipe[b] = "unused" /\ tPipe' = [tPipe EXCEPT ![b] = "built"]
      /\ tNameOf' = [tNameOf EXCEPT ![b] = n] /\ tCut' = tCut
  BY DEF Table!Build
<1>3. tNameOf[b] = None
  BY <1>1, <1>2 DEF Table!IInv, Table!Kept, Table!Named, Table!TypeOK
<1>4. /\ tPipe' \in [Builds -> {"unused", "built", "up", "down"}] /\ tPipe'[b] = "built"
      /\ tNameOf' \in [Builds -> Names \cup {None}] /\ tNameOf'[b] = n
      /\ \A c \in Builds : c # b => tPipe'[c] = tPipe[c] /\ tNameOf'[c] = tNameOf[c]
  BY <1>1, <1>2 DEF Table!TypeOK
<1>5. tRaw[b] = b /\ tSup[b] = "none" /\ b \notin tBoot
  BY <1>1, <1>3 DEF Table!Unbuilt
<1>6. /\ ~Table!Busy(n) /\ tLate' = tLate /\ tPanicked' = tPanicked
      /\ tTask[t].at = "idle" /\ \A u \in Tasks : u # t => tTask'[u] = tTask[u]
      /\ tTask'[t].at = step /\ tTask'[t].name = n /\ tTask'[t].new = b /\ tTask'[t].entry = entry
      /\ Table!TasksTyped' /\ Table!OneEach'
      /\ \A u \in Tasks : tTask'[u] = tTask[u] \/ (About(u, n) /\ About(u, n)')
      /\ \A u \in Tasks : tTask'[u].at # "idle" /\ tTask'[u].name = n => u = t
  <2>1. step \in Table!Bringing => b \in Builds /\ tNameOf'[b] = n
    BY <1>4
  <2>2. step \in Table!Serving => entry \in Builds /\ tNameOf[entry] = n
    BY <1>1 DEF Table!Serving, Table!Kept, Table!Named
  <2>3. \A c \in Builds : tNameOf[c] # None => tNameOf'[c] = tNameOf[c]
    BY <1>3, <1>4
  <2> QED BY <2>1, <2>2, <2>3, Begins
<1>7. Table!TypeOK' /\ Table!StopTyped' /\ Table!Ordered' /\ Table!AddIsSafe'
  BY <1>1, <1>2, <1>4, <1>6 DEF Table!TypeOK, Table!StopTyped, Table!Ordered, Table!AddIsSafe
<1>8. Only(n)
  BY <1>3, <1>4, <1>6 DEF Only
<1>9. Table!Kept(n)'
  <2>1. /\ tLinks[n] # b /\ tLinks[n] = Table!Wanted(n) /\ tEntries[n] # b
        /\ \A c \in Builds : tNameOf[c] = n => tRaw[c] # b /\ c # b
    BY <1>1, <1>3, <1>6 DEF Table!Kept, Table!Named
  <2>2. Table!Named(n)'
    BY <1>1, <1>4, <1>5, <2>1 DEF Table!Kept, Table!Named, Table!TypeOK
  <2>3. Table!Staged(t)'
    BY <1>4, <1>5, <1>6, <2>1 DEF Table!Staged, Table!Wanted, Table!Asleep
  <2>4. ASSUME NEW c \in Builds, tNameOf'[c] = n PROVE Table!MayRun(c)'
    <3>1. CASE c = b
      BY <1>4, <1>5, <3>1 DEF Table!MayRun, Table!Asleep
    <3>2. CASE c # b
      <4>1. Table!MayRun(c)
        BY <1>1, <1>4, <2>4, <3>2 DEF Table!Kept
      <4>2. Table!Held(c) => Table!Held(c)'
        BY <1>6 DEF Table!Held
      <4> QED BY <1>4, <3>2, <4>1, <4>2 DEF Table!MayRun, Table!Asleep
    <3> QED BY <3>1, <3>2
  <2>5. Table!Stopping(n)'
    BY <1>1, <1>4, <1>6, <2>1 DEF Table!Kept, Table!Stopping, Table!TypeOK
  <2>6. Table!Busy(n)'
    BY <1>6 DEF Table!Busy
  <2> QED BY <1>6, <2>2, <2>3, <2>4, <2>5, <2>6 DEF Table!Kept
<1> QED BY <1>6, <1>7, <1>8, <1>9, NameKept

LEMMA StopRequestKeeps ==
  ASSUME Table!IInv, ~Overlap, NEW t \in Tasks, NEW n \in Names, Table!StopRequest(t, n)
  PROVE  Table!IInv'
<1> DEFINE entry == tEntries[n]
<1>1. /\ Table!TypeOK /\ Table!StopTyped /\ Table!Unbuilt
      /\ Table!Ordered /\ Table!AddIsSafe /\ None \notin Names \cup Builds
      /\ Table!Kept(n)
  BY TableAssumption DEF Table!IInv, TableAssumption
<1>2. /\ tStarted /\ tEntries[n] # None /\ Table!Begin(t, n, "unlink", None, entry)
      /\ tEntries' = [tEntries EXCEPT ![n] = None]
      /\ UNCHANGED <<tLinks, tOrder, tRaw, tPipe, tCut, tNameOf, tSup, tBoot, tStarted, tStopped, tStop>>
  BY DEF Table!StopRequest, Table!builds, Table!session
<1>3. /\ tEntries' \in [Names -> Builds \cup {None}] /\ tEntries'[n] = None
      /\ \A m \in Names : m # n => tEntries'[m] = tEntries[m]
      /\ entry \in Builds /\ tNameOf[entry] = n
  BY <1>1, <1>2 DEF Table!TypeOK, Table!Kept, Table!Named
<1>4. /\ ~Table!Busy(n) /\ tLate' = tLate /\ tPanicked' = tPanicked
      /\ tTask[t].at = "idle" /\ \A u \in Tasks : u # t => tTask'[u] = tTask[u]
      /\ tTask'[t].at = "unlink" /\ tTask'[t].name = n /\ tTask'[t].entry = entry
      /\ Table!TasksTyped' /\ Table!OneEach'
      /\ \A u \in Tasks : tTask'[u] = tTask[u] \/ (About(u, n) /\ About(u, n)')
      /\ \A u \in Tasks : tTask'[u].at # "idle" /\ tTask'[u].name = n => u = t
  <2>1. "unlink" \notin Table!Bringing
    BY DEF Table!Bringing
  <2> QED BY <1>2, <1>3, <2>1, Begins
<1>5. Table!TypeOK' /\ Table!StopTyped' /\ Table!Ordered' /\ Table!AddIsSafe'
  BY <1>1, <1>2, <1>3, <1>4 DEF Table!TypeOK, Table!StopTyped, Table!Ordered, Table!AddIsSafe
<1>6. Only(n)
  BY <1>2, <1>3, <1>4 DEF Only
<1>7. Table!Kept(n)'
  <2>1. tLinks[n] = tRaw[entry]
    BY <1>1, <1>2, <1>4 DEF Table!Kept, Table!Wanted
  <2>2. Table!Named(n)'
    BY <1>1, <1>2, <1>3 DEF Table!Kept, Table!Named
  <2>3. Table!Staged(t)'
    BY <1>2, <1>3, <1>4, <2>1 DEF Table!Staged
  <2>4. ASSUME NEW c \in Builds, tNameOf'[c] = n PROVE Table!MayRun(c)'
    <3>1. Table!MayRun(c)
      BY <1>1, <1>2, <2>4 DEF Table!Kept
    <3>2. Table!Held(c) => Table!Held(c)'
      BY <1>2, <1>4 DEF Table!Held
    <3> QED BY <1>2, <3>1, <3>2 DEF Table!MayRun, Table!Asleep
  <2>5. Table!Stopping(n)'
    BY <1>1, <1>2, <1>4 DEF Table!Kept, Table!Stopping
  <2>6. Table!Busy(n)'
    BY <1>4 DEF Table!Busy
  <2> QED BY <1>4, <2>2, <2>3, <2>4, <2>5, <2>6 DEF Table!Kept
<1> QED BY <1>4, <1>5, <1>6, <1>7, NameKept

-----------------------------------------------------------------------------
\* The instance counts as FiniteSets does.
LEMMA SameCount == \A S : Table!Cardinality(S) = Cardinality(S)
BY Zenon DEF Table!Cardinality, Cardinality

LEMMA TableInit == Table!Init => Table!IInv
<1> SUFFICES ASSUME Table!Init PROVE Table!IInv
  OBVIOUS
<1>1. Attached \subseteq Names /\ First \subseteq Builds /\ IsFiniteSet(Attached) /\ None \notin Names \cup Builds
  BY TableAssumption DEF TableAssumption
<1>2. /\ tLinks \in [Names -> First \cup {None}] /\ \A n \in Names : tLinks[n] = None <=> n \notin Attached
      /\ \A n, m \in Attached : tLinks[n] = tLinks[m] => n = m
      /\ tEntries = tLinks /\ tRaw = [b \in Builds |-> b] /\ tCut = {} /\ tBoot = {} /\ tLate = {}
      /\ tSup = [b \in Builds |-> "none"]
      /\ tStarted = FALSE /\ tStopped = FALSE /\ tPanicked = FALSE
      /\ tStop = [at |-> "no", links |-> {}, entries |-> {}] /\ tTask = [t \in Tasks |-> Table!Idle]
  BY DEF Table!Init
<1>3. /\ tPipe \in [Builds -> {"unused", "built", "up", "down"}]
      /\ \A b \in Builds : tPipe[b] # "up" /\ (tPipe[b] = "unused" <=> \A n \in Names : tLinks[n] # b)
  BY DEF Table!Init
<1>4. /\ tNameOf \in [Builds -> Names \cup {None}]
      /\ \A b \in Builds, n \in Names : tNameOf[b] = n <=> tLinks[n] = b
  <2>1. tNameOf = [b \in Builds |-> IF \E n \in Names : tLinks[n] = b
                                    THEN CHOOSE n \in Names : tLinks[n] = b ELSE None]
    BY DEF Table!Init
  <2>2. ASSUME NEW b \in Builds, NEW n \in Names, tLinks[n] = b PROVE tNameOf[b] = n
    <3>1. \A m \in Names : tLinks[m] = b => m = n
      BY <1>1, <1>2, <2>2
    <3>2. (CHOOSE m \in Names : tLinks[m] = b) = n
      BY <2>2, <3>1
    <3> QED BY <2>1, <2>2, <3>2
  <2>3. ASSUME NEW b \in Builds, \A n \in Names : tLinks[n] # b PROVE tNameOf[b] = None
    BY <2>1, <2>3
  <2> QED BY <1>1, <2>1, <2>2, <2>3
<1>5. tOrder \in Seq(Names) /\ Table!Ordered
  <2>1. Cardinality(Attached) \in Nat
    BY <1>1, FS_CardinalityType
  <2>2. tOrder \in [1..Cardinality(Attached) -> Attached]
    BY SameCount DEF Table!Init
  <2>3. tOrder \in Seq(Names)
    BY <1>1, <2>1, <2>2
  <2>4. \A i \in DOMAIN tOrder : tOrder[i] \in Attached
    BY <2>2
  <2> QED BY <1>1, <1>2, <2>3, <2>4 DEF Table!Ordered, Table!Init
<1>6. Table!TypeOK
  BY <1>1, <1>2, <1>3, <1>4, <1>5 DEF Table!TypeOK
<1>7. \A t \in Tasks : tTask[t] = Table!Idle /\ tTask[t].at = "idle"
  BY <1>2 DEF Table!Idle
<1>8. Table!TasksTyped /\ Table!OneEach
  <2>1. Table!Idle \in Table!Task
    BY DEF Table!Idle, Table!Task, Table!Stages
  <2> QED BY <1>2, <1>7, <2>1 DEF Table!TasksTyped, Table!OneEach, Table!Bringing, Table!Serving
<1>9. Table!StopTyped
  BY <1>2 DEF Table!StopTyped
<1>10. Table!Unbuilt
  BY <1>1, <1>2, <1>3, <1>4 DEF Table!Unbuilt
<1>11. ASSUME NEW n \in Names PROVE Table!Kept(n)
  <2>1. tLinks[n] # None => tLinks[n] \in Builds
    BY <1>1, <1>2
  <2>2. Table!Named(n)
    BY <1>2, <1>3, <1>4, <2>1 DEF Table!Named
  <2>3. tLinks[n] = Table!Wanted(n)
    BY <1>2, <2>1 DEF Table!Wanted
  <2>4. \A b \in Builds : Table!MayRun(b)
    BY <1>2, <1>3 DEF Table!MayRun, Table!Asleep
  <2> QED BY <1>2, <1>7, <2>2, <2>3, <2>4 DEF Table!Kept, Table!Stopping
<1> QED BY <1>2, <1>5, <1>6, <1>8, <1>9, <1>10, <1>11 DEF Table!IInv, Table!AddIsSafe

LEMMA TableStep == ~Overlap /\ Table!IInv /\ [Table!Next]_tableVars => Table!IInv'
<1> SUFFICES ASSUME ~Overlap, Table!IInv, [Table!Next]_tableVars PROVE Table!IInv'
  OBVIOUS
<1>1. CASE UNCHANGED tableVars
  BY <1>1 DEF tableVars, Table!IInv, Table!TypeOK, Table!TasksTyped, Table!StopTyped, Table!OneEach, Table!Unbuilt,
    Table!Ordered, Table!Kept, Table!Named, Table!Busy, Table!Wanted, Table!Staged, Table!Asleep, Table!MayRun, Table!Held,
    Table!Stopping, Table!AddIsSafe
<1>2. CASE Table!SessionStart
  BY <1>2, SessionStartKeeps
<1>3. CASE Table!StopList \/ Table!StopSession \/ Table!StopWaits \/ Table!StopRaw
  BY <1>3, StopKeeps
<1>4. ASSUME NEW b \in Builds, Table!BuildStep(b) PROVE Table!IInv'
  BY <1>4, BuildStepKeeps
<1>5. ASSUME NEW t \in Tasks, Table!TaskStep(t) PROVE Table!IInv'
  <2>1. CASE Table!AddCheck(t)
    BY <2>1, AddCheckKeeps
  <2>2. CASE Table!AddRaise(t)
    BY <2>2, AddRaiseKeeps
  <2>3. CASE Table!AddInsert(t)
    BY <2>3, AddInsertKeeps
  <2>4. CASE Table!AddAttach(t)
    BY <2>4, AddAttachKeeps
  <2>5. CASE Table!Unlink(t)
    BY <2>5, UnlinkKeeps
  <2>6. CASE Table!Silence(t)
    BY <2>6, SilenceKeeps
  <2>7. CASE Table!Swap(t)
    BY <2>7, SwapKeeps
  <2>8. CASE Table!Retire(t)
    BY <2>8, RetireKeeps
  <2>9. CASE Table!Launch(t)
    BY <2>9, LaunchKeeps
  <2>10. CASE Table!Confirm(t)
    BY <2>10, ConfirmKeeps
  <2>11. CASE Table!Adopt(t)
    BY <2>11, AdoptKeeps
  <2>12. CASE Table!Discard(t)
    BY <2>12, DiscardKeeps
  <2> QED BY <1>5, <2>1, <2>2, <2>3, <2>4, <2>5, <2>6, <2>7, <2>8, <2>9, <2>10, <2>11, <2>12 DEF Table!TaskStep
<1>6. ASSUME NEW t \in Tasks, NEW n \in Names, NEW b \in Builds, Table!StartRequest(t, n, b)
      PROVE  Table!IInv'
  <2>1. /\ tStarted /\ Table!Build(b, n) /\ Table!Begin(t, n, "check", b, None)
        /\ UNCHANGED <<tLinks, tOrder, tEntries, tRaw, tSup, tBoot, tStarted, tStopped, tStop>>
    BY <1>6 DEF Table!StartRequest, Table!tables, Table!session
  <2> QED BY <2>1, BringsKeeps
<1>7. ASSUME NEW t \in Tasks, NEW n \in Names, NEW b \in Builds, Table!Reload(t, n, b)
      PROVE  Table!IInv'
  <2>1. /\ tEntries[n] # None /\ Table!Build(b, n) /\ Table!Begin(t, n, "swap", b, tEntries[n])
        /\ UNCHANGED <<tLinks, tOrder, tEntries, tRaw, tSup, tBoot, tStarted, tStopped, tStop>>
    BY <1>7 DEF Table!Reload, Table!tables, Table!session
  <2>2. tEntries[n] \in Builds
    BY <2>1 DEF Table!IInv, Table!TypeOK
  <2> QED BY <2>1, <2>2, BringsKeeps
<1>8. ASSUME NEW t \in Tasks, NEW n \in Names, Table!StopRequest(t, n) PROVE Table!IInv'
  BY <1>8, StopRequestKeeps
<1> QED BY <1>1, <1>2, <1>3, <1>4, <1>5, <1>6, <1>7, <1>8 DEF Table!Next

\* What the strengthening says of the tables, the builds and Stop.
LEMMA TableHolds == Table!IInv => CarriersKnown
<1> SUFFICES ASSUME Table!IInv PROVE CarriersKnown
  OBVIOUS
<1>1. /\ Table!TypeOK /\ Table!TasksTyped /\ Table!StopTyped /\ Table!OneEach /\ Table!Unbuilt
      /\ Table!Ordered /\ None \notin Names \cup Builds /\ \A n \in Names : Table!Kept(n)
  BY TableAssumption DEF Table!IInv, TableAssumption
<1>2. Table!TablesAgree
  <2>1. ASSUME NEW n \in Names
        PROVE  Cardinality({i \in DOMAIN tOrder : tOrder[i] = n}) = IF tLinks[n] = None THEN 0 ELSE 1
    <3>1. CASE tLinks[n] = None
      <4>1. {i \in DOMAIN tOrder : tOrder[i] = n} = {}
        BY <1>1, <3>1 DEF Table!Ordered
      <4> QED BY <3>1, <4>1, FS_EmptySet
    <3>2. CASE tLinks[n] # None
      <4>1. PICK k \in DOMAIN tOrder : tOrder[k] = n
        BY <1>1, <3>2 DEF Table!Ordered
      <4>2. {i \in DOMAIN tOrder : tOrder[i] = n} = {k}
        BY <1>1, <4>1 DEF Table!Ordered
      <4> QED BY <3>2, <4>2, FS_Singleton
    <3> QED BY <3>1, <3>2
  <2>2. \A n \in Names : ~Table!Busy(n) => tLinks[n] = Table!Wanted(n)
    BY <1>1 DEF Table!Kept
  <2> QED BY <2>1, <2>2, SameCount DEF Table!TablesAgree, Table!Wanted
<1>3. ASSUME NEW b \in Builds, tPipe[b] = "up"
      PROVE  tNameOf[b] \in Names /\ Table!Held(b)
  <2>1. tNameOf[b] \in Names
    BY <1>1, <1>3 DEF Table!Unbuilt, Table!TypeOK
  <2> QED BY <1>1, <1>3, <2>1 DEF Table!Kept, Table!MayRun
<1>4. Table!OneRunning
  <2>1. ASSUME NEW n \in Names, NEW b \in Builds, NEW c \in Builds, tNameOf[b] = n, tNameOf[c] = n,
               tPipe[b] = "up", tPipe[c] = "up"
        PROVE  b = c
    <3>1. CASE \E t \in Tasks : tTask[t].at # "idle" /\ tTask[t].name = n
      <4>1. PICK t \in Tasks : tTask[t].at # "idle" /\ tTask[t].name = n
        BY <3>1
      <4>2. Stands(t, n) /\ Table!Staged(t)
        BY <4>1, Here
      <4>3. HeldHere(t, n, b) /\ HeldHere(t, n, c)
        BY <2>1, <4>2 DEF Stands, RunsHere
      <4>4. CASE tTask[t].at = "retire"
        <5>1. tTask[t].run => tPipe[tLinks[n]] # "up"
          BY <4>1, <4>2, <4>4 DEF Table!Staged, Table!Asleep
        <5>2. ~tTask[t].run /\ tTask[t].old # None => tPipe[tTask[t].old] # "up"
          BY <4>2, <4>4 DEF Table!Staged, Table!Asleep
        <5>3. tTask[t].old = b \/ tTask[t].old = c => tTask[t].old # None
          BY <1>1
        <5> QED BY <2>1, <4>3, <4>4, <5>1, <5>2, <5>3 DEF HeldHere
      <4>5. CASE tTask[t].at = "insert"
        <5>1. tLinks[n] = None
          BY <4>1, <4>2, <4>5 DEF Table!Staged
        <5> QED BY <1>1, <4>3, <4>5, <5>1 DEF HeldHere
      <4>6. CASE tTask[t].at \notin {"retire", "insert"}
        BY <4>3, <4>6 DEF HeldHere
      <4> QED BY <4>4, <4>5, <4>6
    <3>2. CASE ~ \E t \in Tasks : tTask[t].at # "idle" /\ tTask[t].name = n
      <4>1. ASSUME NEW d \in Builds, tNameOf[d] = n, tPipe[d] = "up" PROVE tLinks[n] = d
        <5>1. Table!Held(d)
          BY <1>3, <4>1
        <5>2. \A m \in Names : tLinks[m] = d => m = n
          BY <1>1, <4>1 DEF Table!Kept, Table!Named
        <5>3. ASSUME NEW t \in Tasks, \/ tTask[t].at = "retire" /\ tTask[t].old = d
                                      \/ tTask[t].at = "insert" /\ tTask[t].new = d
              PROVE  FALSE
          <6>1. tTask[t].at # "idle" /\ tTask[t].name \in Names /\ Table!Staged(t)
            BY <1>1, <5>3 DEF Table!TasksTyped, Table!Kept
          <6>2. tNameOf[d] = tTask[t].name
            BY <1>1, <5>3, <6>1 DEF Table!Staged, Table!TasksTyped, Table!Bringing
          <6> QED BY <3>2, <4>1, <6>1, <6>2
        <5> QED BY <5>1, <5>2, <5>3 DEF Table!Held
      <4> QED BY <2>1, <4>1
    <3> QED BY <3>1, <3>2
  <2> QED BY <2>1 DEF Table!OneRunning, Table!Carries
<1>5. Table!NoneForgotten
  <2>1. ASSUME NEW b \in Builds, tPipe[b] = "up", ~Table!Busy(tNameOf[b]) PROVE Table!Current(b)
    <3>1. ASSUME NEW t \in Tasks, \/ tTask[t].at = "retire" /\ tTask[t].old = b
                                  \/ tTask[t].at = "insert" /\ tTask[t].new = b
          PROVE  FALSE
      <4>1. tTask[t].at # "idle" /\ tTask[t].name \in Names /\ Table!Staged(t)
        BY <1>1, <3>1 DEF Table!TasksTyped, Table!Kept
      <4>2. tNameOf[b] = tTask[t].name
        BY <1>1, <3>1, <4>1 DEF Table!Staged, Table!TasksTyped, Table!Bringing
      <4> QED BY <2>1, <4>1, <4>2 DEF Table!Busy
    <3> QED BY <1>3, <2>1, <3>1 DEF Table!Held, Table!Current
  <2> QED BY <2>1 DEF Table!NoneForgotten, Table!Carries
<1>6. Table!StopIsFinal
  <2>1. ASSUME tStop.at = "done", Table!AllIdle, NEW b \in Builds, tPipe[b] = "up" PROVE b \in tLate
    <3>1. PICK n \in Names : tLinks[n] = b
      BY <1>3, <2>1 DEF Table!Held, Table!AllIdle
    <3> QED BY <1>1, <2>1, <3>1 DEF Table!Kept, Table!Stopping, Table!StopTyped
  <2> QED BY <2>1 DEF Table!StopIsFinal, Table!Carries
<1> QED BY <1>1, <1>2, <1>4, <1>5, <1>6 DEF CarriersKnown

\* While requests about a name come one at a time, the session's table of
\* carriers and the manager's agree on every name nobody is at work on;
\* one carrier runs under a name and none that nobody can stop; none is
\* left after Stop; and no addition meets a name without a link, for any
\* number of names, builds and goroutines (session.go:304-352, 548-600;
\* session_add_after_start.go; manager.go:136-247).
THEOREM CarriersStayKnown ==
  ASSUME ~Overlap PROVE LifeSpec => []CarriersKnown /\ []Table!AddIsSafe
<1>1. LifeInit => Table!IInv
  BY TableInit DEF LifeInit
<1>2. Table!IInv /\ [LifeNext]_lifeVars => Table!IInv'
  <2>1. [LifeNext]_lifeVars => [Table!Next]_tableVars
    BY DEF LifeNext, OthersRest, lifeVars, Handshakes
  <2> QED BY <2>1, TableStep
<1>3. Table!IInv => CarriersKnown /\ Table!AddIsSafe
  BY TableHolds DEF Table!IInv
<1> QED BY <1>1, <1>2, <1>3, PTL DEF LifeSpec

-----------------------------------------------------------------------------
\* The handshake, the messages and the replay window of a session.

USE PartiesAssumption, BoundsAssumption, NoneAssumption
    DEF PartiesAssumption, BoundsAssumption, NoneAssumption

\* The parts of the invariant beside the types.
Parts == /\ AllDrawn /\ Owned /\ CandidateUnused /\ PairHeld
         /\ OfferedApart /\ HelloBacked /\ EchoBacked /\ DeliveredKnown

-----------------------------------------------------------------------------
\* Types.

\* A party drops nothing but well-formed records into its carriers.
LEMMA PostedTyped ==
  ASSUME NEW s \in Parties, NEW l \in Links, NEW e \in Envelope
  PROVE  Posted(s, l, e) \subseteq Record
BY DEF Posted, Record, Opposite, Parties

\* What a party writes is an envelope.
LEMMA EnvelopesTyped ==
  ASSUME TypeOK, NEW s \in Parties
  PROVE  /\ Hello(s) \in Envelope
         /\ \A kind \in {"ping", "pong"} : Control(s, kind) \in Envelope
         /\ \A n \in 0..MaxSeq : Data(s, n) \in Envelope
         /\ \A c \in Candidate : Offer(c) \in Envelope
         /\ Mint(s) \in Challenges
BY DEF TypeOK, Hello, Control, Data, Offer, Envelope, Kinds, Candidate, Mint, Challenges

\* The fields of a record that can be read.
LEMMA RecordFields ==
  ASSUME NEW m \in Record
  PROVE  /\ m.to \in Parties /\ m.link \in Links /\ m.env \in Envelope
         /\ m.env.local \in Challenges
         /\ m.env.peer \in Challenges \cup {Zero}
         /\ m.env.seq \in 0..MaxSeq
BY DEF Record, Envelope

LEMMA TypeStep == TypeOK /\ [Next]_vars => TypeOK'
<1> SUFFICES ASSUME TypeOK, [Next]_vars PROVE TypeOK'
  OBVIOUS
<1> USE DEF sessionVars, historyVars
<1>rest. ASSUME NEW m \in net PROVE Rest(m) \subseteq Record /\ m \in Record
  BY DEF Rest, TypeOK
<1>1. ASSUME NEW s \in Parties, HelloTick(s) PROVE TypeOK'
  BY <1>1 DEF TypeOK, HelloTick
<1>2. ASSUME NEW s \in Parties, HelloVia(s) PROVE TypeOK'
  <2> PICK d \in due[s] : HelloVia(s)!(d)
    BY <1>2 DEF HelloVia
  <2>1. d[2] \in Links
    BY DEF TypeOK
  <2>2. net' \subseteq Record
    BY <2>1, PostedTyped, EnvelopesTyped DEF TypeOK
  <2> QED BY <2>2 DEF TypeOK
<1>3. ASSUME NEW s \in Parties, NEW m \in HelloFor(s), AcceptHello(s, m)
      PROVE TypeOK'
  <2>1. m \in net
    BY DEF HelloFor
  <2>2. /\ m.link \in Links /\ m.env.local \in Challenges
    BY <1>rest, <2>1, RecordFields
  <2>3. net' \subseteq Record
    BY <1>rest, <1>3, <2>1 DEF AcceptHello
  <2>4. peer' \in [Parties -> Challenges \cup {Zero}]
    BY <1>3, <2>2 DEF AcceptHello, TypeOK
  <2>5. ready' \in [Parties -> BOOLEAN]
    BY <1>3 DEF AcceptHello, Echoes, TypeOK
  <2>6. heard' \in [Parties -> SUBSET Links]
    BY <1>3, <2>2 DEF AcceptHello, TypeOK
  <2>7. due' \in [Parties -> SUBSET ((Links \cup {"loop"}) \X Links)]
    BY <1>3, <2>2 DEF AcceptHello, TypeOK
  <2>8. held' \subseteq Challenges \X Challenges
    BY <1>3, <2>2 DEF AcceptHello, TypeOK
  <2> QED BY <1>3, <2>3, <2>4, <2>5, <2>6, <2>7, <2>8 DEF AcceptHello, TypeOK
<1>4. ASSUME NEW s \in Parties, NEW m \in HelloFor(s), ReplacePeer(s, m)
      PROVE TypeOK'
  <2>1. m \in net
    BY DEF HelloFor
  <2>2. /\ m.link \in Links /\ m.env.local \in Challenges
        /\ candidate[s] \in Candidate
    BY <1>rest, <1>4, <2>1, RecordFields DEF ReplacePeer, TypeOK
  <2>3. candidate[s].local \in Challenges
    BY <2>2 DEF Candidate
  <2>4. net' \subseteq Record
    BY <1>rest, <1>4, <2>1 DEF ReplacePeer
  <2>5. /\ local' \in [Parties -> Challenges]
        /\ peer' \in [Parties -> Challenges \cup {Zero}]
        /\ held' \subseteq Challenges \X Challenges
    BY <1>4, <2>2, <2>3 DEF ReplacePeer, TypeOK
  <2>6. /\ heard' \in [Parties -> SUBSET Links]
        /\ due' \in [Parties -> SUBSET ((Links \cup {"loop"}) \X Links)]
    BY <1>4, <2>2 DEF ReplacePeer, TypeOK
  <2>7. /\ sequence' \in [Parties -> 0..MaxSeq]
        /\ highest' \in [Parties -> 0..MaxSeq]
        /\ got' \in [Parties -> SUBSET (1..MaxSeq)]
        /\ keepalive' \in [Parties -> BOOLEAN]
        /\ candidate' \in [Parties -> Candidate \cup {None}]
    BY <1>4 DEF ReplacePeer, TypeOK
  <2> QED BY <1>4, <2>4, <2>5, <2>6, <2>7 DEF ReplacePeer, TypeOK
<1>5. ASSUME NEW s \in Parties, NEW m \in HelloFor(s), OfferReplacement(s, m)
      PROVE TypeOK'
  <2> DEFINE c == candidate[s]
             minting == [sender |-> m.env.local, local |-> Mint(s)]
  <2>1. m \in net
    BY DEF HelloFor
  <2>2. m.env.local \in Challenges /\ Mint(s) \in Challenges
    BY <1>rest, <2>1, RecordFields, EnvelopesTyped
  <2>3. minting \in Candidate /\ <<minting.local, minting.sender>> \in Challenges \X Challenges
    BY <2>2 DEF Candidate
  <2>4. CASE c # None /\ net' = Rest(m) \cup UNION {Posted(s, l, Offer(c)) : l \in Links}
             /\ UNCHANGED <<candidate, minted, offered>>
    <3>1. c \in Candidate
      BY <2>4 DEF TypeOK
    <3>2. net' \subseteq Record
      BY <1>rest, <2>1, <2>4, <3>1, PostedTyped, EnvelopesTyped
    <3> QED BY <1>5, <2>4, <3>2 DEF OfferReplacement, TypeOK
  <2>5. CASE /\ candidate' = [candidate EXCEPT ![s] = minting]
             /\ minted' = [minted EXCEPT ![s] = @ + 1]
             /\ offered' = offered \cup {<<minting.local, minting.sender>>}
             /\ net' = Rest(m) \cup UNION {Posted(s, l, Offer(minting)) : l \in Links}
    <3> HIDE DEF minting
    <3>1. net' \subseteq Record
      BY <1>rest, <2>1, <2>3, <2>5, PostedTyped, EnvelopesTyped
    <3>2. candidate' \in [Parties -> Candidate \cup {None}]
      BY <2>3, <2>5 DEF TypeOK
    <3>3. minted' \in [Parties -> Nat \ {0}]
      BY <2>5 DEF TypeOK
    <3>4. offered' \subseteq Challenges \X Challenges
      BY <2>3, <2>5 DEF TypeOK
    <3> QED BY <1>5, <3>1, <3>2, <3>3, <3>4 DEF OfferReplacement, TypeOK
  <2> QED BY <1>5, <2>4, <2>5 DEF OfferReplacement
<1>6. ASSUME NEW s \in Parties, NEW m \in HelloFor(s),
             RejectHello(s, m) \/ RateLimit(s, m)
      PROVE TypeOK'
  <2>1. net' \subseteq Record /\ UNCHANGED <<sessionVars, historyVars>>
    BY <1>rest, <1>6 DEF RejectHello, RateLimit, HelloFor
  <2> QED BY <2>1 DEF TypeOK
<1>7. ASSUME NEW s \in Parties, NEW m \in HelloFor(s), RefuseEcho(s, m)
      PROVE TypeOK'
  <2>1. net' \subseteq Record
    BY <1>rest, <1>7 DEF RefuseEcho, HelloFor
  <2>2. candidate' \in [Parties -> Candidate \cup {None}]
    BY <1>7 DEF RefuseEcho, TypeOK
  <2> QED BY <1>7, <2>1, <2>2 DEF RefuseEcho, TypeOK
<1>8. ASSUME NEW s \in Parties, Send(s) PROVE TypeOK'
  <2>1. sequence[s] + 1 \in 0..MaxSeq /\ sequence' \in [Parties -> 0..MaxSeq]
    BY <1>8 DEF Send, BelowLimit, TypeOK
  <2>2. PICK l \in Links : net' = net \cup Posted(s, l, Data(s, sequence[s] + 1))
    BY <1>8 DEF Send, TypeOK
  <2>3. net' \subseteq Record
    BY <2>1, <2>2, PostedTyped, EnvelopesTyped DEF TypeOK
  <2> QED BY <1>8, <2>1, <2>3 DEF Send, TypeOK
<1>9. ASSUME NEW s \in Parties, ReceiveIPv4(s) PROVE TypeOK'
  <2> PICK m \in net : ReceiveIPv4(s)!(m)
    BY <1>9 DEF ReceiveIPv4
  <2>1. net' \subseteq Record /\ m.link \in Links /\ m.env \in Envelope
        /\ m.env.seq \in 0..MaxSeq
    BY <1>rest, RecordFields
  <2>2. /\ highest' \in [Parties -> 0..MaxSeq]
        /\ got' \in [Parties -> SUBSET (1..MaxSeq)]
    <3>1. m.env.seq \in 1..MaxSeq
      BY <2>1 DEF Acceptable, InWindow
    <3> QED BY <3>1 DEF TypeOK
  <2>3. heard' \in [Parties -> SUBSET Links] /\ delivered' \subseteq Envelope
    BY <2>1 DEF TypeOK
  <2> QED BY <2>1, <2>2, <2>3 DEF TypeOK
<1>10. ASSUME NEW s \in Parties, Ping(s) PROVE TypeOK'
  <2>1. net' \subseteq Record
    BY <1>10, PostedTyped, EnvelopesTyped DEF Ping, TypeOK
  <2> QED BY <1>10, <2>1 DEF Ping, TypeOK
<1>11. ASSUME NEW s \in Parties, ReceivePing(s) PROVE TypeOK'
  <2> PICK m \in net : ReceivePing(s)!(m)
    BY <1>11 DEF ReceivePing
  <2>1. net' \subseteq Record /\ m.link \in Links
    BY <1>rest, RecordFields
  <2>2. /\ heard' \in [Parties -> SUBSET Links]
        /\ pongs' \in [Parties -> SUBSET Links]
    BY <2>1 DEF TypeOK
  <2> QED BY <2>1, <2>2 DEF TypeOK
<1>12. ASSUME NEW s \in Parties, SendPong(s) PROVE TypeOK'
  <2> PICK l \in pongs[s] : SendPong(s)!(l)
    BY <1>12 DEF SendPong
  <2>1. l \in Links
    BY DEF TypeOK
  <2>2. net' \subseteq Record
    BY <2>1, PostedTyped, EnvelopesTyped DEF TypeOK
  <2> QED BY <2>2 DEF TypeOK
<1>13. ASSUME NEW s \in Parties, ReceivePong(s) PROVE TypeOK'
  <2> PICK m \in net : ReceivePong(s)!(m)
    BY <1>13 DEF ReceivePong
  <2>1. net' \subseteq Record /\ m.link \in Links
    BY <1>rest, RecordFields
  <2>2. /\ heard' \in [Parties -> SUBSET Links]
        /\ keepalive' \in [Parties -> BOOLEAN]
    BY <2>1 DEF TypeOK
  <2> QED BY <2>1, <2>2 DEF TypeOK
<1>14. ASSUME NEW s \in Parties, DropMismatched(s) PROVE TypeOK'
  <2>1. net' \subseteq Record /\ UNCHANGED <<sessionVars, historyVars>>
    BY <1>rest, <1>14 DEF DropMismatched
  <2> QED BY <2>1 DEF TypeOK
<1>15. ASSUME NEW s \in Parties, Silence(s) PROVE TypeOK'
  BY <1>15 DEF Silence, TypeOK
<1>16. ASSUME NEW s \in Parties, KeepaliveReset(s) \/ Restart(s) PROVE TypeOK'
  <2>1. Mint(s) \in Challenges
    BY EnvelopesTyped
  <2>2. /\ local' \in [Parties -> Challenges]
        /\ peer' \in [Parties -> Challenges \cup {Zero}]
        /\ ready' \in [Parties -> BOOLEAN]
        /\ keepalive' \in [Parties -> BOOLEAN]
    <3>1. /\ local' = [local EXCEPT ![s] = Mint(s)]
          /\ peer' = [peer EXCEPT ![s] = Zero]
          /\ ready' = [ready EXCEPT ![s] = FALSE]
          /\ keepalive' = [keepalive EXCEPT ![s] = FALSE]
      BY <1>16 DEF KeepaliveReset, Restart
    <3> QED BY <2>1, <3>1 DEF TypeOK
  <2>3. /\ candidate' \in [Parties -> Candidate \cup {None}]
        /\ heard' \in [Parties -> SUBSET Links]
        /\ due' \in [Parties -> SUBSET ((Links \cup {"loop"}) \X Links)]
        /\ pongs' \in [Parties -> SUBSET Links]
    BY <1>16 DEF KeepaliveReset, Restart, TypeOK
  <2>4. /\ sequence' \in [Parties -> 0..MaxSeq]
        /\ highest' \in [Parties -> 0..MaxSeq]
        /\ got' \in [Parties -> SUBSET (1..MaxSeq)]
        /\ minted' \in [Parties -> Nat \ {0}]
    <3>1. /\ sequence' = [sequence EXCEPT ![s] = 0]
          /\ highest' = [highest EXCEPT ![s] = 0]
          /\ got' = [got EXCEPT ![s] = {}]
          /\ minted' = [minted EXCEPT ![s] = @ + 1]
      BY <1>16 DEF KeepaliveReset, Restart
    <3> QED BY <3>1 DEF TypeOK
  <2>5. UNCHANGED <<net, historyVars>>
    BY <1>16 DEF KeepaliveReset, Restart
  <2> QED BY <2>2, <2>3, <2>4, <2>5 DEF TypeOK
<1>17. CASE Lose
  BY <1>17 DEF Lose, TypeOK
<1>18. CASE UNCHANGED vars
  BY <1>18 DEF vars, TypeOK
<1> QED BY <1>1, <1>2, <1>3, <1>4, <1>5, <1>6, <1>7, <1>8, <1>9, <1>10, <1>11, <1>12,
     <1>13, <1>14, <1>15, <1>16, <1>17, <1>18 DEF Next, ReceiveHello

-----------------------------------------------------------------------------
\* The parts.

\* The types the parts are proved from.
CoreTypes ==
  /\ local \in [Parties -> Challenges]
  /\ peer \in [Parties -> Challenges \cup {Zero}]
  /\ ready \in [Parties -> BOOLEAN]
  /\ candidate \in [Parties -> Candidate \cup {None}]
  /\ highest \in [Parties -> 0..MaxSeq]
  /\ got \in [Parties -> SUBSET (1..MaxSeq)]
  /\ minted \in [Parties -> Nat \ {0}]
  /\ \A m \in net : m \in Record
  /\ held \subseteq Challenges \X Challenges
  /\ offered \subseteq Challenges \X Challenges
  /\ delivered \subseteq Envelope

LEMMA CoreTyped == TypeOK => CoreTypes
BY DEF TypeOK, CoreTypes

\* A candidate's fields.
LEMMA CandidateFields ==
  ASSUME CoreTypes, NEW s \in Parties, candidate[s] # None
  PROVE  candidate[s].sender \in Challenges /\ candidate[s].local \in Challenges
BY DEF CoreTypes, Candidate

\* Nobody is in a session under a candidate's challenge.
LEMMA CandidateApart ==
  ASSUME Parts, NEW s \in Parties, NEW t \in Parties, candidate[t] # None
  PROVE  local[s] # candidate[t].local
<1>1. CASE s = t
  BY <1>1 DEF Parts, CandidateUnused
<1>2. CASE s # t
  BY <1>2 DEF Parts, Owned
<1> QED BY <1>1, <1>2

\* The next challenge is not a drawn one.
LEMMA MintIsFresh ==
  ASSUME CoreTypes, NEW s \in Parties
  PROVE  Mint(s) \in Challenges /\ ~Drawn(Mint(s)) /\ Mint(s)[1] = s
BY DEF CoreTypes, Mint, Drawn, Challenges

\* A drawn challenge stays drawn when s draws another.
LEMMA StaysDrawn ==
  ASSUME CoreTypes, NEW s \in Parties, minted' = [minted EXCEPT ![s] = @ + 1],
         NEW ch \in Challenges
  PROVE  /\ Drawn(ch) => Drawn(ch)'
         /\ ch = Mint(s) => Drawn(ch)'
BY DEF CoreTypes, Drawn, Mint, Challenges

\* The steps that leave the sessions' identities alone, whatever they write: a
\* record lost or consumed, or an envelope of the present session.
LEMMA FrameStep ==
  ASSUME CoreTypes, Parts,
         UNCHANGED <<local, peer, ready, candidate, highest, got, minted>>,
         UNCHANGED <<held, offered, delivered>>,
         \A m \in net' : \/ m \in net
                         \/ \E s \in Parties :
                              /\ m.env.local = local[s]
                              /\ m.env.kind = "hello" => m.env.peer = peer[s]
  PROVE  Parts'
<1>1. AllDrawn'
  BY DEF Parts, AllDrawn, Drawn, CoreTypes
<1>2. Owned' /\ CandidateUnused' /\ PairHeld' /\ EchoBacked'
  BY DEF Parts, Owned, CandidateUnused, PairHeld, EchoBacked
<1>3. OfferedApart'
  BY DEF Parts, OfferedApart
<1>4. HelloBacked'
  BY DEF Parts, HelloBacked, PairHeld
<1>5. DeliveredKnown'
  BY DEF Parts, DeliveredKnown, Matches
<1> QED BY <1>1, <1>2, <1>3, <1>4, <1>5 DEF Parts

\* A session that starts over (KeepaliveReset, Restart).
LEMMA RenewStep ==
  ASSUME CoreTypes, Parts, NEW s \in Parties,
         local' = [local EXCEPT ![s] = Mint(s)],
         peer' = [peer EXCEPT ![s] = Zero],
         ready' = [ready EXCEPT ![s] = FALSE],
         candidate' = [candidate EXCEPT ![s] = None],
         highest' = [highest EXCEPT ![s] = 0],
         got' = [got EXCEPT ![s] = {}],
         minted' = [minted EXCEPT ![s] = @ + 1],
         UNCHANGED <<net, held, offered, delivered>>
  PROVE  Parts'
<1> PICK new \in Challenges : new = Mint(s)
  BY MintIsFresh
<1>1. /\ ~Drawn(new) /\ new[1] = s
      /\ Drawn(new)'
      /\ \A ch \in Challenges : Drawn(ch) => Drawn(ch)'
  BY MintIsFresh, StaysDrawn
<1>2. \A o \in offered : o[1] # new /\ o[2] # new
  BY <1>1 DEF Parts, AllDrawn
<1>3. \A e \in delivered : e.peer # new
  BY <1>1 DEF Parts, AllDrawn
<1>4. AllDrawn'
  <2>1. \A t \in Parties : Drawn(local[t])'
    BY <1>1 DEF Parts, AllDrawn, CoreTypes
  <2>2. \A t \in Parties : candidate'[t] # None => Drawn(candidate[t].local)'
    BY <1>1, CandidateFields DEF Parts, AllDrawn, CoreTypes
  <2>3. \A m \in net : Drawn(m.env.local)'
    BY <1>1, RecordFields DEF Parts, AllDrawn, CoreTypes
  <2>4. /\ \A p \in held : Drawn(p[1])'
        /\ \A o \in offered : Drawn(o[1])' /\ Drawn(o[2])'
    BY <1>1 DEF Parts, AllDrawn, CoreTypes
  <2> QED BY <1>1, <2>1, <2>2, <2>3, <2>4 DEF Parts, AllDrawn
<1>5. Owned' /\ PairHeld' /\ EchoBacked'
  BY <1>1 DEF Parts, Owned, PairHeld, EchoBacked, CoreTypes
<1>6. CandidateUnused'
  BY DEF Parts, CandidateUnused, CoreTypes
<1>7. OfferedApart'
  BY <1>2 DEF Parts, OfferedApart, CoreTypes
<1>8. HelloBacked'
  BY DEF Parts, HelloBacked
<1>9. DeliveredKnown'
  <2>1. ASSUME NEW t \in Parties, t # s
        PROVE  /\ local'[t] = local[t] /\ peer'[t] = peer[t] /\ ready'[t] = ready[t]
               /\ got'[t] = got[t] /\ highest'[t] = highest[t]
    BY <2>1 DEF CoreTypes
  <2>2. /\ local'[s] = new /\ ready'[s] = FALSE /\ got'[s] = {} /\ highest'[s] = 0
    BY DEF CoreTypes
  <2> QED BY <1>3, <2>1, <2>2 DEF Parts, DeliveredKnown, Matches
<1> QED BY <1>4, <1>5, <1>6, <1>7, <1>8, <1>9 DEF Parts

\* A hello is taken from the peer, or from nobody in particular yet.
LEMMA AcceptHelloStep ==
  ASSUME CoreTypes, Parts, NEW s \in Parties, NEW m \in net,
         m.env.kind = "hello", AcceptHello(s, m)
  PROVE  Parts'
<1> DEFINE e == m.env
<1>1. /\ e.local \in Challenges /\ e.local # Zero /\ local[s] \in Challenges
      /\ local[s] # Zero /\ Drawn(e.local)
  BY RecordFields DEF CoreTypes, Parts, AllDrawn
<1>2. /\ peer' = [peer EXCEPT ![s] = e.local]
      /\ ready' = [ready EXCEPT ![s] = @ \/ e.peer = local[s]]
      /\ held' = held \cup {<<local[s], e.local>>}
      /\ net' \subseteq net
      /\ UNCHANGED <<local, candidate, highest, got, minted, offered, delivered>>
      /\ ready[s] => e.local = peer[s]
  BY DEF AcceptHello, Rest, Echoes
<1> HIDE DEF e
<1>3. AllDrawn'
  BY <1>1, <1>2 DEF Parts, AllDrawn, Drawn, CoreTypes
<1>4. Owned'
  BY <1>2 DEF Parts, Owned
<1>5. CandidateUnused'
  <2>1. ASSUME NEW t \in Parties, candidate[t] # None
        PROVE  local[s] # candidate[t].local
    BY <2>1, CandidateApart
  <2>2. ASSUME NEW t \in Parties, candidate[t] # None, NEW p \in held'
        PROVE  p[1] # candidate[t].local
    <3>1. CASE p \in held
      BY <2>2, <3>1 DEF Parts, CandidateUnused
    <3>2. CASE p = <<local[s], e.local>>
      BY <2>1, <2>2, <3>2
    <3> QED BY <1>2, <3>1, <3>2
  <2> QED BY <1>2, <2>2 DEF Parts, CandidateUnused
<1>6. PairHeld'
  BY <1>1, <1>2 DEF Parts, PairHeld, CoreTypes
<1>7. OfferedApart'
  BY <1>1, <1>2 DEF Parts, OfferedApart, CoreTypes
<1>8. HelloBacked'
  BY <1>2 DEF Parts, HelloBacked
<1>9. EchoBacked'
  <2>1. e.peer = local[s] => <<e.local, local[s]>> \in held \cup offered
    BY <1>1 DEF Parts, HelloBacked, e
  <2>2. ASSUME NEW t \in Parties, ready'[t]
        PROVE  <<peer'[t], local[t]>> \in held \cup offered
    <3>1. CASE t = s
      BY <1>2, <2>1, <2>2, <3>1 DEF Parts, EchoBacked, CoreTypes
    <3>2. CASE t # s
      BY <1>2, <2>2, <3>2 DEF Parts, EchoBacked, CoreTypes
    <3> QED BY <3>1, <3>2
  <2> QED BY <1>2, <2>2 DEF EchoBacked
<1>10. DeliveredKnown'
  <2>1. ASSUME NEW t \in Parties, NEW d \in delivered, d.peer = local[t]
        PROVE  ready[t] /\ ready'[t] /\ peer'[t] = peer[t]
    BY <1>2, <2>1 DEF Parts, DeliveredKnown, CoreTypes
  <2> QED BY <1>2, <2>1 DEF Parts, DeliveredKnown, Matches
<1> QED BY <1>3, <1>4, <1>5, <1>6, <1>7, <1>8, <1>9, <1>10 DEF Parts

\* The candidate takes the place of the peer.
LEMMA ReplacePeerStep ==
  ASSUME CoreTypes, Parts, NEW s \in Parties, NEW m \in net,
         m.env.kind = "hello", ReplacePeer(s, m)
  PROVE  Parts'
<1> DEFINE c == candidate[s]
<1>1. /\ c # None /\ c.sender \in Challenges /\ c.local \in Challenges
      /\ c.sender # Zero /\ c.local # Zero
      /\ m.env.local = c.sender /\ m.env.peer = c.local
      /\ Drawn(c.local)
  BY CandidateFields DEF ReplacePeer, Confirms, Parts, AllDrawn
<1>2. /\ local' = [local EXCEPT ![s] = c.local]
      /\ peer' = [peer EXCEPT ![s] = c.sender]
      /\ candidate' = [candidate EXCEPT ![s] = None]
      /\ highest' = [highest EXCEPT ![s] = 0]
      /\ got' = [got EXCEPT ![s] = {}]
      /\ held' = held \cup {<<c.local, c.sender>>}
      /\ net' \subseteq net
      /\ UNCHANGED <<ready, minted, offered, delivered>>
      /\ ready[s]
  BY DEF ReplacePeer, Confirms, Rest
<1>3. /\ c.local[1] = s
      /\ \A p \in held : p[1] # c.local
      /\ \A e \in delivered : e.peer # c.local
      /\ <<c.local, c.sender>> \in offered
  BY <1>1 DEF Parts, CandidateUnused, Owned
<1>4. ASSUME NEW t \in Parties, t # s, candidate[t] # None
      PROVE  candidate[t].local # c.local
  BY <1>3, <1>4 DEF Parts, Owned
<1>5. <<c.sender, c.local>> \in held \cup offered
  BY <1>1 DEF Parts, HelloBacked
<1> HIDE DEF c
<1>6. AllDrawn'
  <2>1. Drawn(c.sender)
    BY <1>1 DEF Parts, AllDrawn
  <2> QED BY <1>1, <1>2, <2>1 DEF Parts, AllDrawn, Drawn, CoreTypes
<1>7. Owned' /\ PairHeld' /\ HelloBacked'
  <2>1. Owned'
    BY <1>2, <1>3 DEF Parts, Owned, CoreTypes
  <2>2. PairHeld'
    BY <1>1, <1>2 DEF Parts, PairHeld, CoreTypes
  <2>3. HelloBacked'
    BY <1>2 DEF Parts, HelloBacked
  <2> QED BY <2>1, <2>2, <2>3
<1>8. CandidateUnused'
  <2>1. ASSUME NEW t \in Parties, candidate'[t] # None
        PROVE  t # s /\ candidate'[t] = candidate[t] /\ local'[t] = local[t]
    BY <1>2, <2>1 DEF CoreTypes
  <2> QED BY <1>2, <1>4, <2>1 DEF Parts, CandidateUnused
<1>9. OfferedApart'
  BY <1>1, <1>2 DEF Parts, OfferedApart, CoreTypes
<1>10. EchoBacked'
  BY <1>1, <1>2, <1>5 DEF Parts, EchoBacked, CoreTypes
<1>11. DeliveredKnown'
  <2>1. ASSUME NEW t \in Parties, t # s
        PROVE  /\ local'[t] = local[t] /\ peer'[t] = peer[t]
               /\ got'[t] = got[t] /\ highest'[t] = highest[t]
    BY <1>2, <2>1 DEF CoreTypes
  <2>2. local'[s] = c.local /\ got'[s] = {} /\ highest'[s] = 0
    BY <1>2 DEF CoreTypes
  <2> QED BY <1>2, <1>3, <2>1, <2>2 DEF Parts, DeliveredKnown, Matches
<1> QED BY <1>6, <1>7, <1>8, <1>9, <1>10, <1>11 DEF Parts

\* A stranger is sent the challenge it has to echo.
LEMMA OfferReplacementStep ==
  ASSUME CoreTypes, Parts, NEW s \in Parties, NEW m \in net,
         m.env.kind = "hello", OfferReplacement(s, m)
  PROVE  Parts'
<1> DEFINE c == candidate[s]
           minting == [sender |-> m.env.local, local |-> Mint(s)]
<1>1. /\ m.env.peer = Zero /\ m.env.local \in Challenges /\ m.env.local # Zero
      /\ Drawn(m.env.local)
      /\ UNCHANGED <<local, peer, ready, highest, got, held, delivered>>
  BY RecordFields DEF OfferReplacement, Parts, AllDrawn, CoreTypes
<1>2. CASE /\ c # None
           /\ net' = Rest(m) \cup UNION {Posted(s, l, Offer(c)) : l \in Links}
           /\ UNCHANGED <<candidate, minted, offered>>
  <2>1. /\ c.local \in Challenges /\ c.sender \in Challenges /\ c.sender # Zero
        /\ Drawn(c.local) /\ <<c.local, c.sender>> \in offered
    BY <1>2, CandidateFields DEF Parts, AllDrawn, CandidateUnused
  <2>2. \A r \in net' : \/ r \in net
                        \/ r.env.local = c.local /\ r.env.peer = c.sender
    BY <1>2 DEF Rest, Posted, Offer
  <2> HIDE DEF c
  <2>3. AllDrawn'
    <3>1. \A r \in net' : Drawn(r.env.local)
      BY <2>1, <2>2 DEF Parts, AllDrawn
    <3> QED BY <1>1, <1>2, <3>1 DEF Parts, AllDrawn, Drawn
  <2>4. Owned' /\ CandidateUnused' /\ PairHeld' /\ EchoBacked'
    BY <1>1, <1>2 DEF Parts, Owned, CandidateUnused, PairHeld, EchoBacked
  <2>5. OfferedApart'
    BY <1>1, <1>2, <2>1, <2>2 DEF Parts, OfferedApart
  <2>6. HelloBacked'
    BY <1>1, <1>2, <2>1, <2>2 DEF Parts, HelloBacked
  <2>7. DeliveredKnown'
    BY <1>1, <1>2 DEF Parts, DeliveredKnown, Matches
  <2> QED BY <2>3, <2>4, <2>5, <2>6, <2>7 DEF Parts
<1>3. CASE /\ candidate' = [candidate EXCEPT ![s] = minting]
           /\ minted' = [minted EXCEPT ![s] = @ + 1]
           /\ offered' = offered \cup {<<minting.local, minting.sender>>}
           /\ net' = Rest(m) \cup UNION {Posted(s, l, Offer(minting)) : l \in Links}
  <2> PICK new \in Challenges : new = Mint(s)
    BY MintIsFresh
  <2> DEFINE sender == m.env.local
  <2>1. /\ ~Drawn(new) /\ new[1] = s
        /\ Drawn(new)'
        /\ \A ch \in Challenges : Drawn(ch) => Drawn(ch)'
    BY <1>3, MintIsFresh, StaysDrawn
  <2>2. /\ candidate' = [candidate EXCEPT ![s] = [sender |-> sender, local |-> new]]
        /\ offered' = offered \cup {<<new, sender>>}
        /\ \A r \in net' : \/ r \in net
                           \/ r.env.local = new /\ r.env.peer = sender
    BY <1>3 DEF Rest, Posted, Offer
  <2>3. /\ sender \in Challenges /\ sender # Zero /\ Drawn(sender) /\ sender # new
        /\ \A o \in offered : sender # o[1]
    BY <1>1, <2>1 DEF Parts, OfferedApart
  <2> PICK snd : snd = sender
    OBVIOUS
  <2> HIDE DEF sender
  <2>4. AllDrawn'
    <3>1. \A t \in Parties : Drawn(local[t])'
      BY <1>1, <2>1 DEF Parts, AllDrawn, CoreTypes
    <3>2. \A t \in Parties : candidate'[t] # None => Drawn(candidate[t].local)'
      <4>1. ASSUME NEW t \in Parties, t # s, candidate[t] # None
            PROVE  candidate[t].local \in Challenges /\ Drawn(candidate[t].local)
        BY <4>1, CandidateFields DEF Parts, AllDrawn
      <4>2. ASSUME NEW t \in Parties, t # s, candidate'[t] # None
            PROVE  candidate'[t] = candidate[t]
        BY <2>2, <4>2 DEF CoreTypes
      <4>3. candidate'[s].local = new
        BY <2>2 DEF CoreTypes
      <4> QED BY <2>1, <4>1, <4>2, <4>3
    <3>3. \A r \in net' : Drawn(r.env.local)'
      BY <2>1, <2>2, RecordFields DEF Parts, AllDrawn, CoreTypes
    <3>4. /\ \A p \in held : Drawn(p[1])'
          /\ \A o \in offered : Drawn(o[1])' /\ Drawn(o[2])'
      BY <2>1 DEF Parts, AllDrawn, CoreTypes
    <3>5. \A e \in delivered : e.peer \in Challenges /\ Drawn(e.peer)'
      BY <2>1 DEF Parts, AllDrawn
    <3>6. Drawn(snd)'
      BY <2>1, <2>3
    <3>7. \A o \in offered' : Drawn(o[1])' /\ Drawn(o[2])'
      BY <2>1, <2>2, <3>4, <3>6
    <3> QED BY <1>1, <3>1, <3>2, <3>3, <3>4, <3>5, <3>7 DEF AllDrawn
  <2>5. Owned'
    BY <1>1, <2>1, <2>2 DEF Parts, Owned, CoreTypes
  <2>6. CandidateUnused'
    <3>1. /\ new # local[s] /\ \A p \in held : p[1] # new
          /\ \A e \in delivered : e.peer # new
      BY <2>1 DEF Parts, AllDrawn
    <3>2. ASSUME NEW t \in Parties, t # s PROVE candidate'[t] = candidate[t]
      BY <2>2, <3>2 DEF CoreTypes
    <3>3. candidate'[s] = [sender |-> sender, local |-> new]
      BY <2>2 DEF CoreTypes
    <3> QED BY <1>1, <2>2, <3>1, <3>2, <3>3 DEF Parts, CandidateUnused
  <2>7. PairHeld' /\ EchoBacked'
    BY <1>1, <2>2 DEF Parts, PairHeld, EchoBacked
  <2>8. OfferedApart'
    <3>1. /\ \A o \in offered : o[1] # new /\ o[2] # new
          /\ \A r \in net : r.env.local # new
          /\ \A t \in Parties : local[t] # new
      BY <2>1 DEF Parts, AllDrawn
    <3> QED BY <1>1, <2>2, <2>3, <3>1 DEF Parts, OfferedApart
  <2>9. HelloBacked'
    BY <1>1, <2>2 DEF Parts, HelloBacked
  <2>10. DeliveredKnown'
    BY <1>1 DEF Parts, DeliveredKnown, Matches
  <2> QED BY <2>4, <2>5, <2>6, <2>7, <2>8, <2>9, <2>10 DEF Parts
<1> QED BY <1>2, <1>3 DEF OfferReplacement

\* A refused echo: at most an expired candidate is forgotten.
LEMMA RefuseEchoStep ==
  ASSUME CoreTypes, Parts, NEW s \in Parties, NEW m \in net, RefuseEcho(s, m)
  PROVE  Parts'
<1>1. /\ UNCHANGED <<local, peer, ready, highest, got, minted, held, offered, delivered>>
      /\ net' \subseteq net
      /\ \A t \in Parties : candidate'[t] # None => candidate'[t] = candidate[t]
  BY DEF RefuseEcho, Rest, historyVars, CoreTypes
<1>2. AllDrawn'
  BY <1>1 DEF Parts, AllDrawn, Drawn
<1>3. Owned' /\ CandidateUnused' /\ PairHeld' /\ EchoBacked'
  BY <1>1 DEF Parts, Owned, CandidateUnused, PairHeld, EchoBacked
<1>4. OfferedApart' /\ HelloBacked' /\ DeliveredKnown'
  BY <1>1 DEF Parts, OfferedApart, HelloBacked, DeliveredKnown, Matches
<1> QED BY <1>2, <1>3, <1>4 DEF Parts

\* A data packet is accepted, and remembered.
LEMMA ReceiveIPv4Step ==
  ASSUME CoreTypes, Parts, NEW s \in Parties, ReceiveIPv4(s)
  PROVE  Parts'
<1> PICK m \in net : ReceiveIPv4(s)!(m)
  BY DEF ReceiveIPv4
<1> DEFINE n == m.env.seq
<1>1. /\ ready[s] /\ m.env.local = peer[s] /\ m.env.peer = local[s]
      /\ n \in Nat /\ n # 0
      /\ local[s] \in Challenges
  BY RecordFields DEF Acceptable, Matches, InWindow, CoreTypes
<1>2. /\ UNCHANGED <<local, peer, ready, candidate, minted, held, offered>>
      /\ net' \subseteq net
      /\ delivered' = delivered \cup {m.env}
  BY DEF Rest
<1>3. AllDrawn'
  BY <1>1, <1>2 DEF Parts, AllDrawn, Drawn
<1>4. Owned' /\ PairHeld' /\ EchoBacked'
  BY <1>2 DEF Parts, Owned, PairHeld, EchoBacked
<1>5. CandidateUnused'
  <2>1. ASSUME NEW t \in Parties, candidate[t] # None
        PROVE  local[s] # candidate[t].local
    BY <2>1, CandidateApart
  <2>2. ASSUME NEW t \in Parties, candidate[t] # None, NEW e \in delivered'
        PROVE  e.peer # candidate[t].local
    BY <1>1, <1>2, <2>1, <2>2 DEF Parts, CandidateUnused
  <2> QED BY <1>2, <2>2 DEF Parts, CandidateUnused
<1>6. OfferedApart' /\ HelloBacked'
  BY <1>2 DEF Parts, OfferedApart, HelloBacked
<1>7. DeliveredKnown'
  <2>1. ASSUME NEW t \in Parties
        PROVE  /\ got'[t] \subseteq 1..highest'[t]
               /\ got[t] \subseteq got'[t]
    <3>1. CASE t = s
      <4>1. highest'[s] = (IF n > highest[s] THEN n ELSE highest[s])
            /\ got'[s] = got[s] \cup {n}
        BY DEF CoreTypes
      <4>2. got[s] \subseteq 1..highest[s] /\ highest[s] \in Nat
        BY DEF Parts, DeliveredKnown, CoreTypes
      <4> HIDE DEF n
      <4> QED BY <1>1, <3>1, <4>1, <4>2
    <3>2. CASE t # s
      BY <3>2 DEF CoreTypes, Parts, DeliveredKnown
    <3> QED BY <3>1, <3>2
  <2>2. \A t \in Parties : local[t] = local[s] => t = s
    BY DEF Parts, Owned
  <2>3. n \in got'[s]
    BY DEF CoreTypes
  <2>4. \A t \in Parties : \A e \in delivered' : e.peer = local[t] => ready[t]
    BY <1>1, <1>2, <2>2 DEF Parts, DeliveredKnown
  <2>5. \A t \in Parties : \A e \in delivered' :
          Matches(t, e) => e.seq \in got'[t]
    <3> SUFFICES ASSUME NEW t \in Parties, NEW e \in delivered', Matches(t, e)
                 PROVE  e.seq \in got'[t]
      OBVIOUS
    <3>1. CASE e \in delivered
      BY <2>1, <3>1 DEF Parts, DeliveredKnown
    <3>2. CASE e = m.env
      BY <1>1, <2>2, <2>3, <3>2 DEF Matches
    <3> QED BY <1>2, <3>1, <3>2
  <2> QED BY <1>2, <2>1, <2>4, <2>5 DEF DeliveredKnown, Matches
<1> QED BY <1>3, <1>4, <1>5, <1>6, <1>7 DEF Parts

\* The other steps only write or take records.
FrameAction(s) ==
  \/ HelloTick(s) \/ HelloVia(s) \/ Send(s) \/ Ping(s) \/ ReceivePing(s)
  \/ SendPong(s) \/ ReceivePong(s) \/ DropMismatched(s) \/ Silence(s)
  \/ \E m \in HelloFor(s) : RejectHello(s, m) \/ RateLimit(s, m)

LEMMA FrameActionStep ==
  ASSUME CoreTypes, Parts, NEW s \in Parties, FrameAction(s)
  PROVE  Parts'
<1> USE DEF sessionVars, historyVars
<1> DEFINE Present(m) == \/ m \in net
                         \/ /\ m.env.local = local[s]
                            /\ m.env.kind = "hello" => m.env.peer = peer[s]
<1>1. /\ UNCHANGED <<local, peer, ready, candidate, highest, got, minted>>
      /\ UNCHANGED <<held, offered, delivered>>
  BY DEF FrameAction, HelloTick, HelloVia, Send, Ping, ReceivePing, SendPong, ReceivePong, DropMismatched, Silence, RejectHello,
    RateLimit
<1>2. \A m \in net' : Present(m)
  <2>1. \A l, m : m \in Posted(s, l, Hello(s)) => Present(m)
    BY DEF Posted, Hello
  <2>2. \A l, n, m : m \in Posted(s, l, Data(s, n)) => Present(m)
    BY DEF Posted, Data
  <2>3. \A l, m : m \in Posted(s, l, Control(s, "ping")) \cup Posted(s, l, Control(s, "pong"))
                    => Present(m)
    BY DEF Posted, Control
  <2>4. \A m \in net : Rest(m) \subseteq net
    BY DEF Rest
  <2> HIDE DEF Present
  <2>5. \A m \in net : Present(m)
    BY DEF Present
  <2>6. CASE HelloVia(s)
    BY <2>1, <2>5, <2>6 DEF HelloVia
  <2>7. CASE Send(s)
    BY <2>2, <2>5, <2>7 DEF Send
  <2>8. CASE Ping(s) \/ SendPong(s)
    BY <2>3, <2>5, <2>8 DEF Ping, SendPong
  <2>9. CASE HelloTick(s) \/ Silence(s)
    BY <2>5, <2>9 DEF HelloTick, Silence
  <2>10. CASE ReceivePing(s) \/ ReceivePong(s) \/ DropMismatched(s)
    BY <2>4, <2>5, <2>10 DEF ReceivePing, ReceivePong, DropMismatched
  <2>11. CASE \E m \in HelloFor(s) : RejectHello(s, m) \/ RateLimit(s, m)
    BY <2>4, <2>5, <2>11 DEF RejectHello, RateLimit, HelloFor
  <2> QED BY <2>6, <2>7, <2>8, <2>9, <2>10, <2>11 DEF FrameAction
<1>3. \A m \in net' : \/ m \in net
                      \/ \E t \in Parties :
                           /\ m.env.local = local[t]
                           /\ m.env.kind = "hello" => m.env.peer = peer[t]
  BY <1>2
<1> QED BY <1>1, <1>3, FrameStep

LEMMA PartsStep == CoreTypes /\ Parts /\ [Next]_vars => Parts'
<1> SUFFICES ASSUME CoreTypes, Parts, [Next]_vars PROVE Parts'
  OBVIOUS
<1>1. ASSUME NEW s \in Parties, FrameAction(s) PROVE Parts'
  BY <1>1, FrameActionStep
<1>2. ASSUME NEW s \in Parties, NEW m \in HelloFor(s),
             \/ AcceptHello(s, m) \/ ReplacePeer(s, m)
             \/ OfferReplacement(s, m) \/ RefuseEcho(s, m)
      PROVE  Parts'
  <2>1. m \in net /\ m.env.kind = "hello"
    BY DEF HelloFor
  <2> QED BY <1>2, <2>1, AcceptHelloStep, ReplacePeerStep, OfferReplacementStep, RefuseEchoStep
<1>3. ASSUME NEW s \in Parties, ReceiveIPv4(s) PROVE Parts'
  BY <1>3, ReceiveIPv4Step
<1>4. ASSUME NEW s \in Parties, KeepaliveReset(s) \/ Restart(s) PROVE Parts'
  <2>1. /\ local' = [local EXCEPT ![s] = Mint(s)]
        /\ peer' = [peer EXCEPT ![s] = Zero]
        /\ ready' = [ready EXCEPT ![s] = FALSE]
        /\ candidate' = [candidate EXCEPT ![s] = None]
        /\ highest' = [highest EXCEPT ![s] = 0]
        /\ got' = [got EXCEPT ![s] = {}]
        /\ minted' = [minted EXCEPT ![s] = @ + 1]
        /\ UNCHANGED <<net, held, offered, delivered>>
    BY <1>4 DEF KeepaliveReset, Restart, historyVars
  <2> QED BY <2>1, RenewStep
<1>5. CASE Lose \/ UNCHANGED vars
  <2>1. /\ UNCHANGED <<local, peer, ready, candidate, highest, got, minted>>
        /\ UNCHANGED <<held, offered, delivered>>
        /\ net' \subseteq net
    BY <1>5 DEF Lose, vars, sessionVars, historyVars
  <2> QED BY <2>1, FrameStep
<1> QED BY <1>1, <1>2, <1>3, <1>4, <1>5 DEF Next, ReceiveHello, FrameAction

-----------------------------------------------------------------------------
\* The theorems.

LEMMA InitIInv == Init => IInv
<1> SUFFICES ASSUME Init PROVE IInv
  OBVIOUS
<1>1. TypeOK
  BY DEF Init, TypeOK, Challenges
<1>2. AllDrawn /\ Owned
  BY DEF Init, AllDrawn, Owned, Drawn
<1>3. CandidateUnused /\ PairHeld /\ OfferedApart /\ HelloBacked /\ EchoBacked
  BY DEF Init, CandidateUnused, PairHeld, OfferedApart, HelloBacked, EchoBacked
<1>4. DeliveredKnown
  BY DEF Init, DeliveredKnown
<1> QED BY <1>1, <1>2, <1>3, <1>4 DEF IInv

\* Every reachable state satisfies the inductive invariant.
THEOREM Inductive == Spec => []IInv
<1>1. IInv /\ [Next]_vars => IInv'
  <2> SUFFICES ASSUME IInv, [Next]_vars PROVE IInv'
    OBVIOUS
  <2>1. TypeOK'
    BY TypeStep DEF IInv
  <2>2. Parts'
    BY CoreTyped, PartsStep DEF IInv, Parts
  <2> QED BY <2>1, <2>2 DEF IInv, Parts
<1> QED BY <1>1, InitIInv, PTL DEF Spec

\* The state of every Session stays well-formed: challenges, sequence numbers
\* within the limit of Send, carriers of the configuration.
THEOREM TypeCorrect == Spec => []TypeOK
<1>1. IInv => TypeOK
  BY DEF IInv
<1> QED BY <1>1, Inductive, PTL

\* No session is established with a peer that did not know its challenge.
THEOREM EstablishedByEcho == Spec => []EchoBacked
<1>1. IInv => EchoBacked
  BY DEF IInv
<1> QED BY <1>1, Inductive, PTL

\* No data packet is delivered twice, across every reset, restart, replacement,
\* reordering and replay.
THEOREM DeliveredOnce == Spec => []DataOnce
<1>1. IInv => DataOnce
  <2> SUFFICES ASSUME IInv, NEW s \in Parties, NEW e \in delivered,
                      Matches(s, e), InWindow(s, e.seq)
               PROVE  FALSE
    BY DEF DataOnce, Acceptable
  <2>1. e.seq \in got[s] /\ got[s] \subseteq 1..highest[s]
    BY DEF IInv, DeliveredKnown
  <2>2. highest[s] \in Nat
    BY DEF IInv, TypeOK
  <2> QED BY <2>1, <2>2 DEF InWindow
<1> QED BY <1>1, Inductive, PTL

\* An established session changes its peer only for one that proved, by the
\* challenge drawn for it alone, that it is there now.
THEOREM DisplacedByEcho == Spec => Displacement
<1> DEFINE Displaced(s) ==
      /\ <<local'[s], peer'[s]>> \in offered
      /\ <<peer'[s], local'[s]>> \in held
      /\ \A p \in held : p[1] # local'[s]
    Kept(s) == ready[s] /\ ready'[s] /\ peer'[s] # peer[s] => Displaced(s)
<1>1. ASSUME IInv, [Next]_vars, NEW s \in Parties PROVE Kept(s)
  <2> CoreTypes /\ Parts
    BY <1>1, CoreTyped DEF IInv, Parts
  <2>1. ASSUME NEW t \in Parties, NEW m \in HelloFor(t), ReplacePeer(t, m)
        PROVE  Kept(s)
    <3> DEFINE c == candidate[t]
    <3>1. /\ c # None /\ m \in net /\ m.env.kind = "hello"
          /\ m.env.local = c.sender /\ m.env.peer = c.local
          /\ local' = [local EXCEPT ![t] = c.local]
          /\ peer' = [peer EXCEPT ![t] = c.sender]
      BY <2>1 DEF ReplacePeer, Confirms, HelloFor
    <3>2. c.local # Zero
      BY <3>1, CandidateFields
    <3>3. /\ <<c.local, c.sender>> \in offered
          /\ \A p \in held : p[1] # c.local
      BY <3>1 DEF Parts, CandidateUnused
    <3>4. <<c.sender, c.local>> \in held \cup offered
      BY <3>1, <3>2 DEF Parts, HelloBacked
    <3>5. <<c.sender, c.local>> \notin offered
      BY <3>3 DEF Parts, OfferedApart
    <3> HIDE DEF c
    <3> QED BY <3>1, <3>3, <3>4, <3>5 DEF CoreTypes
  <2>2. ASSUME NEW t \in Parties, NEW m \in HelloFor(t), AcceptHello(t, m)
        PROVE  Kept(s)
    BY <2>2 DEF AcceptHello, CoreTypes
  <2>3. ASSUME NEW t \in Parties, KeepaliveReset(t) \/ Restart(t)
        PROVE  Kept(s)
    BY <2>3 DEF KeepaliveReset, Restart, CoreTypes
  <2>4. CASE UNCHANGED peer
    BY <2>4
  <2>5. ASSUME NEW t \in Parties,
               \/ FrameAction(t) \/ ReceiveIPv4(t)
               \/ \E m \in HelloFor(t) : OfferReplacement(t, m) \/ RefuseEcho(t, m)
        PROVE  UNCHANGED peer
    BY <2>5 DEF FrameAction, HelloTick, HelloVia, Send, Ping, ReceivePing, SendPong, ReceivePong, DropMismatched, Silence,
      RejectHello, RateLimit, ReceiveIPv4, OfferReplacement, RefuseEcho, sessionVars
  <2>6. CASE Lose \/ UNCHANGED vars
    BY <2>6 DEF Lose, vars, sessionVars
  <2> HIDE DEF Kept
  <2> QED BY <1>1, <2>1, <2>2, <2>3, <2>4, <2>5, <2>6 DEF Next, ReceiveHello, FrameAction
<1>2. IInv /\ [Next]_vars => [\A s \in Parties : Kept(s)]_vars
  BY <1>1
<1>3. Spec => [][\A s \in Parties : Kept(s)]_vars
  BY <1>2, Inductive, PTL DEF Spec
<1> QED BY <1>3 DEF Displacement
=============================================================================
