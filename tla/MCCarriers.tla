------------------------------ MODULE MCCarriers ------------------------------
\* The service carriers: the registry makes one carrier, of the kind its
\* link has, and everything above it is the same for each.  kind is the
\* one that was made; the others are never started.  Every property below
\* says the same thing of every carrier.
EXTENDS Naturals, Sequences, FiniteSets

CONSTANTS
    \* the constants of the modules, named as there, but for MaxTurns of
    \* CupsRoom and the four of MailruCarrier
    MaxCalls, MaxAttempts, Scenes,
    Window, DeadAfter, Ids, RoomTurns,
    MaxLinks, Applies,
    MailruSessions, MailruRoutines, MailruAttempts, MailruApplies,
    MaxSessions, MaxApplies, Named,
    MaxOps, MaxTurns, MaxAsides, AckRoom,
    Packets, NumWriters, BatchSize, MaxQueued, MaxUnread, Page, MaxTries, None

\* There is an attempt to make, a second one where cookies ask for it (the
\* program makes 999999), and the sizes and bounds are numbers.
ASSUME CarriersAssumption ==
    /\ MaxCalls \in Nat /\ MaxAttempts \in Nat \ {0}
    /\ Window \in Nat \ {0} /\ DeadAfter \in Nat /\ RoomTurns \in Nat
    /\ IsFiniteSet(Ids)
    /\ MaxLinks \in Nat
    /\ MailruSessions \in Nat /\ MailruRoutines \in Nat \ {0}
    /\ MailruAttempts \in Nat \ {0} /\ MailruApplies \in Nat
    /\ MailruAttempts > 1 \/ MailruApplies = 0
    /\ MaxSessions \in Nat /\ MaxApplies \in Nat /\ Named \in BOOLEAN
    /\ MaxOps \in Nat /\ MaxTurns \in Nat /\ MaxAsides \in Nat /\ AckRoom \in Nat
    /\ Packets \in Nat /\ NumWriters \in Nat /\ BatchSize \in Nat /\ MaxQueued \in Nat
    /\ MaxUnread \in Nat /\ Page \in Nat /\ MaxTries \in Nat \ {0}
    /\ None \notin Seq(Nat)

VARIABLES
    kind,
    tScene, tLife, tConnected, tChain, tAttempt, tVain, tCalls, tConn, tOpen,
    tGreeted, tAnnouncers, tTold, tPublisher, tPub, tReady, tClocks,
    tSubscriber, tSub, tReaders, tLate,
    cCtx, cList, cRoom, cTokens, cTurns, cRun, cNeedJoin, cFails, cDead,
    cConnected, cSock, cPull, cMine, cInflight, cDataIDs, cAsked,
    vRunning, vConnected, vStop, vLeaving, vBad, vTask, vMade, vLinked,
    vLinks, vLive, vWs, vWorker, vReported, vLate, vCrossed,
    mLife, mConnected, mSession, mOpen, mActive, mRetired, mRoutine,
    mReconnecting, mRotation, mOld, mNext, mApplies, mExhausted, mCrossed,
    dLife, dConnected, dApplies, dSession, dSessions, dOpen, dQueueOf,
    dRoutine, dReconnecting, dLooking, dServes, dExhausted, dCrossed, dLate,
    bStart, bStops, bClosed, bConnected, bLoop, bSession, bSessions, bOpen,
    bWriters, bKeepers, bCreator, bQueued, bBoard, bEchoed, bApplies,
    aCtx, aRun, aSock, aConnected, aReader, aSender, aAck, aKnown, aDoc,
    aFlying, aInbox, aSent, aTurns, aAsides, aLapped,
    xLife, xOffered, xQueue, xHand, xTries, xGone, xChat, xAsked, xLastMsgID,
    xPolling, xUnread, xGot, xDropped

telemostVars ==
    <<tScene, tLife, tConnected, tChain, tAttempt, tVain, tCalls, tConn,
    tOpen, tGreeted, tAnnouncers, tTold, tPublisher, tPub, tReady, tClocks,
    tSubscriber, tSub, tReaders, tLate>>
cupsVars ==
    <<cCtx, cList, cRoom, cTokens, cTurns, cRun, cNeedJoin, cFails, cDead,
    cConnected, cSock, cPull, cMine, cInflight, cDataIDs, cAsked>>
volgaVars ==
    <<vRunning, vConnected, vStop, vLeaving, vBad, vTask, vMade, vLinked,
    vLinks, vLive, vWs, vWorker, vReported, vLate, vCrossed>>
mailruVars ==
    <<mLife, mConnected, mSession, mOpen, mActive, mRetired, mRoutine,
    mReconnecting, mRotation, mOld, mNext, mApplies, mExhausted, mCrossed>>
docsVars ==
    <<dLife, dConnected, dApplies, dSession, dSessions, dOpen, dQueueOf,
    dRoutine, dReconnecting, dLooking, dServes, dExhausted, dCrossed, dLate>>
boardsVars ==
    <<bStart, bStops, bClosed, bConnected, bLoop, bSession, bSessions, bOpen,
    bWriters, bKeepers, bCreator, bQueued, bBoard, bEchoed, bApplies>>
avitoVars ==
    <<aCtx, aRun, aSock, aConnected, aReader, aSender, aAck, aKnown, aDoc,
    aFlying, aInbox, aSent, aTurns, aAsides, aLapped>>
bitrixVars ==
    <<xLife, xOffered, xQueue, xHand, xTries, xGone, xChat, xAsked,
    xLastMsgID, xPolling, xUnread, xGot, xDropped>>
carrierVars == <<kind, telemostVars, cupsVars, volgaVars, mailruVars,
    docsVars, boardsVars, avitoVars, bitrixVars>>

Telemost == INSTANCE TelemostCall WITH
    scene <- tScene, life <- tLife, connected <- tConnected, chain <- tChain,
    attempt <- tAttempt, vain <- tVain, calls <- tCalls, conn <- tConn,
    open <- tOpen, greeted <- tGreeted, announcers <- tAnnouncers,
    told <- tTold, publisher <- tPublisher, pub <- tPub, ready <- tReady,
    clocks <- tClocks, subscriber <- tSubscriber, sub <- tSub,
    readers <- tReaders, late <- tLate
Cups == INSTANCE CupsRoom WITH
    ctx <- cCtx, list <- cList, room <- cRoom, tokens <- cTokens,
    turns <- cTurns, run <- cRun, needJoin <- cNeedJoin, fails <- cFails,
    dead <- cDead, connected <- cConnected, sock <- cSock, pull <- cPull,
    mine <- cMine, inflight <- cInflight, dataIDs <- cDataIDs,
    asked <- cAsked, MaxTurns <- RoomTurns
Volga == INSTANCE VolgaLinks WITH
    running <- vRunning, connected <- vConnected, stop <- vStop,
    leaving <- vLeaving, bad <- vBad, task <- vTask, made <- vMade,
    linked <- vLinked, links <- vLinks, live <- vLive, ws <- vWs,
    worker <- vWorker, reported <- vReported, late <- vLate,
    crossed <- vCrossed
Mailru == INSTANCE MailruCarrier WITH
    life <- mLife, connected <- mConnected, session <- mSession,
    open <- mOpen, active <- mActive, retired <- mRetired,
    routine <- mRoutine, reconnecting <- mReconnecting, rotation <- mRotation,
    old <- mOld, next <- mNext, applies <- mApplies, exhausted <- mExhausted,
    crossed <- mCrossed, MaxSessions <- MailruSessions,
    MaxApplies <- MailruApplies, MaxRoutines <- MailruRoutines,
    MaxAttempts <- MailruAttempts
Docs == INSTANCE YandexDocs WITH
    life <- dLife, connected <- dConnected, applies <- dApplies,
    session <- dSession, sessions <- dSessions, open <- dOpen,
    queueOf <- dQueueOf, routine <- dRoutine, reconnecting <- dReconnecting,
    looking <- dLooking, serves <- dServes, exhausted <- dExhausted,
    crossed <- dCrossed, late <- dLate
Boards == INSTANCE BoardsRoom WITH
    start <- bStart, stops <- bStops, closed <- bClosed,
    connected <- bConnected, loop <- bLoop, session <- bSession,
    sessions <- bSessions, open <- bOpen, writers <- bWriters,
    keepers <- bKeepers, creator <- bCreator, queued <- bQueued,
    board <- bBoard, echoed <- bEchoed, applies <- bApplies
Avito == INSTANCE AvitoRoom WITH
    ctx <- aCtx, run <- aRun, sock <- aSock, connected <- aConnected,
    reader <- aReader, sender <- aSender, ack <- aAck, known <- aKnown,
    doc <- aDoc, flying <- aFlying, inbox <- aInbox, sent <- aSent,
    turns <- aTurns, asides <- aAsides, lapped <- aLapped
Bitrix == INSTANCE BitrixChat WITH
    life <- xLife, offered <- xOffered, queue <- xQueue, hand <- xHand,
    tries <- xTries, gone <- xGone, chat <- xChat, asked <- xAsked,
    lastMsgID <- xLastMsgID, polling <- xPolling, unread <- xUnread,
    got <- xGot, dropped <- xDropped

Kinds == {"telemost", "cups", "volga", "mailru", "docs", "boards", "avito", "bitrix"}

Init ==
    /\ kind \in Kinds
    /\ Telemost!Init /\ Cups!Init /\ Volga!Init /\ Mailru!Init
    /\ Docs!Init /\ Boards!Init /\ Avito!Init /\ Bitrix!Init
    /\ kind # "telemost" => tScene = CHOOSE s \in Scenes : TRUE
    /\ kind # "cups" => cList = "saved"

\* The carriers that were not made.
OthersRest ==
    /\ UNCHANGED kind
    /\ IF kind = "telemost" THEN TRUE ELSE UNCHANGED telemostVars
    /\ IF kind = "cups" THEN TRUE ELSE UNCHANGED cupsVars
    /\ IF kind = "volga" THEN TRUE ELSE UNCHANGED volgaVars
    /\ IF kind = "mailru" THEN TRUE ELSE UNCHANGED mailruVars
    /\ IF kind = "docs" THEN TRUE ELSE UNCHANGED docsVars
    /\ IF kind = "boards" THEN TRUE ELSE UNCHANGED boardsVars
    /\ IF kind = "avito" THEN TRUE ELSE UNCHANGED avitoVars
    /\ IF kind = "bitrix" THEN TRUE ELSE UNCHANGED bitrixVars

Next ==
    /\ \/ kind = "telemost" /\ Telemost!Next
       \/ kind = "cups" /\ Cups!Next
       \/ kind = "volga" /\ Volga!Next
       \/ kind = "mailru" /\ Mailru!Next
       \/ kind = "docs" /\ Docs!Next
       \/ kind = "boards" /\ Boards!Next
       \/ kind = "avito" /\ Avito!Next
       \/ kind = "bitrix" /\ Bitrix!Next
    /\ OthersRest

\* What works in the end when it is tried again and again.
Luck(i) ==
    /\ \/ kind = "cups" /\ Cups!Luck(i)
       \/ kind = "volga" /\ Volga!Luck(i)
       \/ kind = "mailru" /\ Mailru!Luck(i)
       \/ kind = "docs" /\ i = 1 /\ Docs!Luck
       \/ kind = "boards" /\ Boards!Luck(i)
       \/ kind = "avito" /\ Avito!Luck(i)
    /\ OthersRest

Spec ==
    /\ Init /\ [][Next]_carrierVars
    /\ Telemost!Scheduled /\ Cups!Scheduled /\ Volga!Scheduled /\ Mailru!Scheduled
    /\ Docs!Scheduled /\ Boards!Scheduled /\ Avito!Scheduled /\ Bitrix!Scheduled
    /\ \A i \in 1..3 : SF_carrierVars(Luck(i))

-----------------------------------------------------------------------------
\* Every carrier's state is of its type.
WellFormed ==
    /\ kind \in Kinds
    /\ kind = "telemost" => Telemost!TypeOK
    /\ kind = "cups" => Cups!TypeOK
    /\ kind = "volga" => Volga!TypeOK
    /\ kind = "mailru" => Mailru!TypeOK
    /\ kind = "docs" => Docs!TypeOK
    /\ kind = "boards" => Boards!TypeOK
    /\ kind = "avito" => Avito!TypeOK
    /\ kind = "bitrix" => Bitrix!TypeOK

\* A carrier's account of itself is true.  It says it is connected only
\* when it has a call, a room or a session that took its handshake, and
\* does not say so after Stop (telemost.go:421, cupsonline.go:824,
\* boards.go:548, yandex.go:240, vyandex.go:1318); and it gives no packet
\* of its own to the session as the peer's (boards.go:926).
Honest ==
    /\ kind = "telemost" => Telemost!Honest /\ Telemost!StopHolds
    /\ kind = "cups" => Cups!Honest
    /\ kind = "volga" => Volga!StopHolds
    /\ kind = "docs" => Docs!StopHolds
    /\ kind = "boards" => Boards!Honest /\ Boards!NoEcho

\* There is one connection and somebody looks after it.  Two goroutines
\* that would connect meet at one flag: one dials, the other leaves it to
\* the first, and neither leaves the carrier with nobody or with two links
\* or sessions (yandex.go:652, mailru.go:1111, vyandex.go:1306); one loop
\* has one socket with both its ends (avito.go:289, boards.go:439); dials
\* are given up only in vain (telemost.go:441).  Where a call of
\* ApplyCookies met the making of a session, the modules say what is left.
Single ==
    /\ kind = "telemost" => Telemost!GivesUpInVain
    /\ kind = "volga" => Volga!OneLink
    /\ kind = "mailru" => Mailru!SomebodyDials /\ Mailru!Alone
    /\ kind = "docs" => Docs!SomebodyDials /\ Docs!Orderly
    /\ kind = "boards" => Boards!Attended
    /\ kind = "avito" => Avito!OneConnection

\* What is under way is accounted for.  The gate of a room lets no more
\* chunks go than its window (cupsonline.go:1006); the length of the
\* document an Avito operation is made for is the length it has there
\* (avito.go:471); a Bitrix packet is heard at most once and in the order
\* of the chat, and is never just forgotten (bitrix24.go:367).
Accounted ==
    /\ WellFormed
    /\ kind = "cups" => Cups!Paced
    /\ kind = "avito" => Avito!InStep
    /\ kind = "bitrix" => Bitrix!OnceInChatOrder /\ Bitrix!Accounted

\* A carrier that was started, is not stopped and has not run out of the
\* attempts its code gives it does not stay without a connection: every
\* way its connection is lost leads to a new one.
Severed ==
    \/ kind = "telemost" /\ Telemost!Severed
    \/ kind = "cups" /\ Cups!Severed
    \/ kind = "volga" /\ Volga!Severed
    \/ kind = "mailru" /\ Mailru!Severed
    \/ kind = "docs" /\ Docs!Severed
    \/ kind = "boards" /\ Boards!Severed
    \/ kind = "avito" /\ Avito!Severed
Recovers == []<>~Severed

\* What waits is answered: the media of a Telemost call that was
\* negotiated (telemost.go:1256), the puller of a room at its gate
\* (cupsonline.go:1006), an Avito operation that waits for its
\* acknowledgement (avito.go:471), a Bitrix packet while its carrier runs.
Unanswered ==
    \/ kind = "telemost" /\ Telemost!Unanswered
    \/ kind = "cups" /\ Cups!Unanswered
    \/ kind = "avito" /\ Avito!Unanswered
    \/ kind = "bitrix" /\ Bitrix!Unanswered
Answered == []<>~Unanswered

\* After Stop what the carrier started ends: its dials, readers, writers
\* and timers.
Winding ==
    \/ kind = "telemost" /\ Telemost!Winding
    \/ kind = "cups" /\ Cups!Winding
    \/ kind = "volga" /\ Volga!Winding
    \/ kind = "docs" /\ Docs!Winding
    \/ kind = "boards" /\ Boards!Winding
    \/ kind = "avito" /\ Avito!Winding
    \/ kind = "bitrix" /\ Bitrix!Winding
WindsDown == []<>~Winding
=============================================================================
