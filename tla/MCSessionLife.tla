---------------------------- MODULE MCSessionLife ----------------------------
\* What befalls a session while it lives, one thing at a time, as matter
\* says: the client restarts at any moment, the exit restarts once at any
\* moment, the client restarts while carriers lose records (and are never
\* quiet), carriers are added, reloaded, removed and fail to start, and
\* the packets of one of them wait in its queue.
EXTENDS Session

CONSTANTS Names, Builds, Tasks, Attached, First, Overlap, Packets, Depth, MaxCount

ASSUME TableAssumption ==
    /\ Attached \subseteq Names /\ First \subseteq Builds
    /\ IsFiniteSet(Attached) /\ None \notin Names \cup Builds

ASSUME QueueAssumption == Depth \in Nat /\ MaxCount \in Nat \ {0}

VARIABLES
    matter,
    tLinks, tOrder, tEntries, tRaw, tPipe, tCut, tNameOf, tSup, tBoot,
    tStarted, tStopped, tStop, tTask, tLate, tPanicked,
    qCall, qQueue, qBatch, qWire, qAccepted, qRunning, qStopped, qLoop

tableVars ==
    <<tLinks, tOrder, tEntries, tRaw, tPipe, tCut, tNameOf, tSup, tBoot,
    tStarted, tStopped, tStop, tTask, tLate, tPanicked>>
queueVars ==
    <<qCall, qQueue, qBatch, qWire, qAccepted, qRunning, qStopped, qLoop>>
lifeVars == <<matter, vars, tableVars, queueVars>>

Table == INSTANCE CarrierTable WITH
    links <- tLinks, order <- tOrder, entries <- tEntries, raw <- tRaw,
    pipe <- tPipe, cut <- tCut, nameOf <- tNameOf, sup <- tSup, boot <- tBoot,
    started <- tStarted, stopped <- tStopped, stop <- tStop, task <- tTask,
    late <- tLate, panicked <- tPanicked
Queue == INSTANCE BatchQueue WITH
    call <- qCall, queue <- qQueue, batch <- qBatch, wire <- qWire,
    accepted <- qAccepted, running <- qRunning, stopped <- qStopped,
    loop <- qLoop

\* A restart that is not the matter of this behaviour.
Unexpected(s) ==
  /\ Restart(s)
  /\ \/ s \in Clients /\ matter \notin {"client", "lossy"}
     \/ s \in Exits /\ (matter # "exit" \/ minted[s] # 1)

LifeInit ==
  /\ Init /\ Table!Init /\ Queue!Init
  /\ matter \in {"client", "exit", "lossy", "table", "queue"}
  /\ Lossy <=> matter = "lossy"

Handshakes == matter \in {"client", "exit", "lossy"}

OthersRest ==
  /\ UNCHANGED matter
  /\ IF Handshakes THEN TRUE ELSE UNCHANGED vars
  /\ IF matter = "table" THEN TRUE ELSE UNCHANGED tableVars
  /\ IF matter = "queue" THEN TRUE ELSE UNCHANGED queueVars

LifeNext ==
  /\ \/ Handshakes /\ Next /\ \A s \in Parties : ~Unexpected(s)
     \/ matter = "table" /\ Table!Next
     \/ matter = "queue" /\ Queue!Next
  /\ OthersRest

LifeSpec ==
  /\ LifeInit /\ [][LifeNext]_lifeVars
  /\ \/ Handshakes /\ Fairness
     \/ matter = "table" /\ Table!Fairness
     \/ matter = "queue" /\ Queue!Fairness

-----------------------------------------------------------------------------
\* RetriesConfirmed where carriers lose nothing: for one that does, the run
\* session_retry shows what happens.  (receiveHello.)
RetriesOverLossless == matter \in {"client", "exit"} => RetriesConfirmed

\* The session's table of carriers and the manager's agree, one carrier
\* runs under a name and none that nobody can stop, and none is left after
\* Stop (session.go:304-352, 548-600; manager.go:136-247).
CarriersKnown ==
  /\ Table!TypeOK
  /\ Table!TablesAgree
  /\ Table!OneRunning
  /\ Table!NoneForgotten
  /\ Table!StopIsFinal

\* Between Send and the carrier nothing is lost, doubled or overtaken, and
\* Send says the truth of what it let in (batched.go:134-166, 280).
NothingLost == Queue!TypeOK /\ Queue!NothingLost /\ Queue!Honest

\* A carrier that does not start comes up in the end; an accepted packet
\* goes out in the end and a caller held back returns
\* (session.go:548-600, batched.go:148-159, 284-299).
KeepsTrying == Table!ComesUp /\ Queue!GoesOut
=============================================================================
