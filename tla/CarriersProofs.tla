---------------------------- MODULE CarriersProofs ----------------------------
\* Proofs about MCCarriers: of every kind of service carrier, whatever the
\* bounds, that its account of itself is true, that it has one connection,
\* and that what is under way is accounted for.
\*
\* Each carrier's module ends with the inductive invariant IInv of that
\* carrier.  For each there are a lemma that it holds initially, that a
\* step keeps it, with one step of the proof per action and one leaf per
\* part of the invariant, and that it stays while nothing happens.  In
\* them <1>i is the invariant in its parts, <1>t the types of what the
\* step looks at, and a step's <2>e what an action does to the variables.
\* Their composition is at the end: only the carrier that was made moves.
EXTENDS MCCarriers, FiniteSetTheorems, TLAPS

-----------------------------------------------------------------------------
\* The Telemost call

\* The invariant of a Telemost call holds before Start.
LEMMA TelemostInit == Telemost!Init => Telemost!IInv
<1>0. MaxCalls \in Nat /\ MaxAttempts \in Nat \ {0}
  BY CarriersAssumption
<1> SUFFICES ASSUME Telemost!Init
             PROVE  Telemost!IInv
  OBVIOUS
<1> USE DEF Telemost!Init, Telemost!Calls
<1>f. Telemost!Flags
  BY DEF Telemost!Flags
<1>1. Telemost!TypeOK
  BY <1>0, <1>f DEF Telemost!TypeOK, Telemost!PCStates
<1>2. Telemost!Counted /\ Telemost!OneSocket
  BY <1>0 DEF Telemost!Counted, Telemost!OneSocket
<1>3. Telemost!GivesUpInVain /\ Telemost!Honest /\ Telemost!StopHolds
  BY <1>0 DEF Telemost!GivesUpInVain, Telemost!Honest, Telemost!StopHolds
<1> QED BY <1>1, <1>2, <1>3 DEF Telemost!IInv

\* What is a flag of a Telemost call stays one.
LEMMA TelemostFlags == Telemost!Flags /\ Telemost!Next => Telemost!Flags'
BY DEF Telemost!Flags, Telemost!Next, Telemost!Chain, Telemost!OfCall, Telemost!Start, Telemost!DialFails, Telemost!BackoffEnds,
  Telemost!Dial, Telemost!SayHello, Telemost!HelloFails, Telemost!HangUp, Telemost!ReadEnds, Telemost!Disconnected,
  Telemost!ServerHello, Telemost!Publish, Telemost!PublisherAnswer, Telemost!SubscriberOffer, Telemost!Announce,
  Telemost!PublisherUp, Telemost!PublisherDown, Telemost!ClockBinds, Telemost!TrackComes, Telemost!SubscriberEnds,
  Telemost!ReaderEnds, Telemost!StopCloses, Telemost!StopEnds, Telemost!socketVars, Telemost!sayVars, Telemost!pubVars,
  Telemost!subVars

\* Whatever happens to a Telemost call, its invariant stays.
LEMMA TelemostStep ==
    ASSUME Telemost!IInv, Telemost!Next
    PROVE  Telemost!IInv'
<1>f. Telemost!Flags'
  BY TelemostFlags DEF Telemost!IInv, Telemost!TypeOK
<1>0. MaxCalls \in Nat /\ MaxAttempts \in Nat \ {0}
  BY CarriersAssumption
<1> USE <1>0, <1>f DEF Telemost!IInv, Telemost!TypeOK, Telemost!Counted,
       Telemost!OneSocket, Telemost!GivesUpInVain, Telemost!Honest, Telemost!StopHolds,
       Telemost!Calls, Telemost!PCStates, Telemost!IsRunning,
       Telemost!socketVars, Telemost!dialVars, Telemost!sayVars, Telemost!pubVars, Telemost!subVars
<1>1. CASE Telemost!Start
  BY <1>1 DEF Telemost!Start
<1>2. CASE Telemost!DialFails
  BY <1>2 DEF Telemost!DialFails, Telemost!Schedule, Telemost!Reconnect
<1>3. CASE Telemost!BackoffEnds
  BY <1>3 DEF Telemost!BackoffEnds
<1>4. CASE Telemost!Dial
  <2>1. Telemost!TypeOK'
    BY <1>4 DEF Telemost!Dial
  <2>2. Telemost!Counted' /\ Telemost!OneSocket'
    BY <1>4 DEF Telemost!Dial
  <2>3. Telemost!GivesUpInVain' /\ Telemost!Honest' /\ Telemost!StopHolds'
    BY <1>4 DEF Telemost!Dial
  <2> QED BY <2>1, <2>2, <2>3
<1>5. CASE Telemost!SayHello
  BY <1>5 DEF Telemost!SayHello
<1>6. CASE Telemost!HelloFails
  <2>1. Telemost!TypeOK'
    BY <1>6 DEF Telemost!HelloFails, Telemost!Schedule, Telemost!Reconnect, Telemost!Disconnected
  <2>2. Telemost!Counted' /\ Telemost!GivesUpInVain'
    BY <1>6 DEF Telemost!HelloFails, Telemost!Schedule, Telemost!Reconnect, Telemost!Disconnected
  <2>3. Telemost!OneSocket'
    BY <1>6 DEF Telemost!HelloFails, Telemost!Schedule, Telemost!Reconnect, Telemost!Disconnected
  <2>4. Telemost!Honest' /\ Telemost!StopHolds'
    BY <1>6 DEF Telemost!HelloFails, Telemost!Schedule, Telemost!Reconnect, Telemost!Disconnected
  <2> QED BY <2>1, <2>2, <2>3, <2>4
<1>7. ASSUME NEW lasted \in BOOLEAN, Telemost!HangUp(lasted)
      PROVE  Telemost!IInv'
  <2>1. Telemost!TypeOK'
    BY <1>7 DEF Telemost!HangUp, Telemost!Schedule, Telemost!Reconnect, Telemost!Disconnected
  <2>2. Telemost!Counted' /\ Telemost!GivesUpInVain'
    BY <1>7 DEF Telemost!HangUp, Telemost!Schedule, Telemost!Reconnect, Telemost!Disconnected
  <2>3. Telemost!OneSocket'
    BY <1>7 DEF Telemost!HangUp, Telemost!Schedule, Telemost!Reconnect, Telemost!Disconnected
  <2>4. Telemost!Honest' /\ Telemost!StopHolds'
    BY <1>7 DEF Telemost!HangUp, Telemost!Schedule, Telemost!Reconnect, Telemost!Disconnected
  <2> QED BY <2>1, <2>2, <2>3, <2>4
<1>8. CASE Telemost!ReadEnds
  BY <1>8 DEF Telemost!ReadEnds
<1>9. CASE Telemost!ServerHello
  BY <1>9 DEF Telemost!ServerHello, Telemost!Hears, Telemost!Publish, Telemost!Subscribe
<1>10. CASE Telemost!PublisherAnswer
  BY <1>10 DEF Telemost!PublisherAnswer, Telemost!Hears
<1>11. CASE Telemost!SubscriberOffer
  BY <1>11 DEF Telemost!SubscriberOffer, Telemost!Hears
<1>12. ASSUME NEW c \in Telemost!Calls, Telemost!OfCall(c)
       PROVE  Telemost!IInv'
  <2>1. CASE Telemost!Announce(c)
    BY <2>1 DEF Telemost!Announce
  <2>2. CASE Telemost!PublisherUp(c)
    BY <2>2 DEF Telemost!PublisherUp
  <2>3. CASE Telemost!PublisherDown(c)
    BY <2>3 DEF Telemost!PublisherDown
  <2>4. CASE Telemost!ClockBinds(c)
    BY <2>4 DEF Telemost!ClockBinds
  <2>5. CASE Telemost!TrackComes(c)
    BY <2>5 DEF Telemost!TrackComes
  <2>6. CASE Telemost!SubscriberEnds(c)
    BY <2>6 DEF Telemost!SubscriberEnds
  <2>7. CASE Telemost!ReaderEnds(c)
    BY <2>7 DEF Telemost!ReaderEnds
  <2> QED BY <1>12, <2>1, <2>2, <2>3, <2>4, <2>5, <2>6, <2>7 DEF Telemost!OfCall
<1>13. CASE Telemost!StopCloses
  <2>1. Telemost!TypeOK'
    BY <1>13 DEF Telemost!StopCloses, Telemost!Close
  <2>2. Telemost!Counted' /\ Telemost!OneSocket'
    BY <1>13 DEF Telemost!StopCloses, Telemost!Close
  <2>3. Telemost!GivesUpInVain' /\ Telemost!Honest' /\ Telemost!StopHolds'
    BY <1>13 DEF Telemost!StopCloses, Telemost!Close
  <2> QED BY <2>1, <2>2, <2>3
<1>14. CASE Telemost!StopEnds
  BY <1>14 DEF Telemost!StopEnds
<1> QED BY <1>1, <1>2, <1>3, <1>4, <1>5, <1>6, <1>7, <1>8, <1>9, <1>10, <1>11, <1>12, <1>13, <1>14 DEF Telemost!Next,
  Telemost!Chain
-----------------------------------------------------------------------------
\* The Volga links

\* The invariant of a Volga carrier holds before Start.
LEMMA VolgaInit == Volga!Init => Volga!IInv
<1>0. MaxLinks \in Nat
  BY CarriersAssumption
<1> SUFFICES ASSUME Volga!Init
             PROVE  Volga!IInv
  OBVIOUS
<1> USE DEF Volga!Init, Volga!Links
<1>f. Volga!Flags
  BY DEF Volga!Flags
<1>1. Volga!TypeOK /\ Volga!MadeTyped
  BY <1>0, <1>f DEF Volga!TypeOK, Volga!MadeTyped, Volga!WorkerStates
<1>2. Volga!OneMaker /\ Volga!OneLink
  BY DEF Volga!OneMaker, Volga!OneLink, Volga!AtWork, Volga!Comes
<1>3. Volga!Stopped /\ Volga!StopHolds
  BY DEF Volga!Stopped, Volga!StopHolds
<1> QED BY <1>1, <1>2, <1>3 DEF Volga!IInv

\* What is a flag of a Volga carrier stays one.
LEMMA VolgaFlags ==
    ASSUME Volga!Flags, Volga!Next
    PROVE  Volga!Flags'
<1>1. CASE Volga!Start
  <2>1. vCrossed' \in BOOLEAN
    BY <1>1 DEF Volga!Start
  <2> QED BY <1>1, <2>1 DEF Volga!Start, Volga!Flags, Volga!relayVars
<1>2. ASSUME NEW t, Volga!Publish(t)
      PROVE  Volga!Flags'
  <2>1. vConnected' \in BOOLEAN
    BY <1>2 DEF Volga!Publish
  <2> QED BY <1>2, <2>1 DEF Volga!Publish, Volga!Flags, Volga!relayVars
<1>3. ASSUME NEW t, Volga!ApplyCookies(t)
      PROVE  Volga!Flags'
  <2>1. vCrossed' \in BOOLEAN
    BY <1>3 DEF Volga!ApplyCookies
  <2> QED BY <1>3, <2>1 DEF Volga!ApplyCookies, Volga!Flags, Volga!lifeVars, Volga!relayVars
<1>4. ASSUME NEW t, Volga!MakerSteps(t)
      PROVE  Volga!Flags'
  BY <1>2, <1>4 DEF Volga!MakerSteps, Volga!Flags, Volga!AuthorizeFails, Volga!StartLinks, Volga!ApplyJoined, Volga!Renew,
    Volga!lifeVars, Volga!relayVars
<1>5. ASSUME NEW k, Volga!ListenerSteps(k) \/ Volga!Drop(k) \/ Volga!Rotate(k)
      PROVE  Volga!Flags'
  BY <1>5 DEF Volga!ListenerSteps, Volga!Drop, Volga!Rotate, Volga!Flags, Volga!WsTop, Volga!Refresh, Volga!RefreshFails,
    Volga!Dial, Volga!DialFails, Volga!Wait, Volga!Renew, Volga!WsKeeps, Volga!taskVars, Volga!lifeVars, Volga!relayVars
<1>6. ASSUME NEW k, Volga!Post(k) \/ Volga!WorkerSteps(k)
      PROVE  Volga!Flags'
  BY <1>6 DEF Volga!Post, Volga!WorkerSteps, Volga!Flags, Volga!Posted, Volga!Rejected, Volga!RejectedOld, Volga!AwaitEnds,
    Volga!WorkerEnds, Volga!RelayKeeps, Volga!lifeVars, Volga!taskVars, Volga!relayVars
<1>7. Volga!Stop \/ Volga!StopEnds \/ Volga!Expire \/ Volga!Stalled => Volga!Flags'
  BY DEF Volga!Flags, Volga!Stop, Volga!StopEnds, Volga!Expire, Volga!Stalled, Volga!StopLinks, Volga!lifeVars, Volga!taskVars,
    Volga!relayVars
<1> QED BY <1>1, <1>3, <1>4, <1>5, <1>6, <1>7 DEF Volga!Next

\* Telling the workers that they are superseded leaves each in one of its states.
LEMMA VolgaOutdated ==
    ASSUME NEW w \in [Volga!Links -> Volga!WorkerStates]
    PROVE  Volga!Outdated(w) \in [Volga!Links -> Volga!WorkerStates]
BY DEF Volga!Outdated, Volga!Superseded, Volga!WorkerStates

\* Whatever happens to a Volga carrier, its invariant stays.
LEMMA VolgaStep ==
    ASSUME Volga!IInv, Volga!Next
    PROVE  Volga!IInv'
<1>0. MaxLinks \in Nat
  BY CarriersAssumption
<1>f. Volga!Flags'
  BY VolgaFlags DEF Volga!IInv, Volga!TypeOK
<1> USE <1>0, <1>f DEF Volga!IInv, Volga!TypeOK, Volga!MadeTyped, Volga!OneMaker,
       Volga!OneLink, Volga!Stopped, Volga!StopHolds, Volga!Publishing, Volga!AtWork,
       Volga!Comes, Volga!Links, Volga!WorkerStates, Volga!lifeVars, Volga!taskVars, Volga!relayVars,
       Volga!volgaVars
<1>1. CASE Volga!Start
  BY <1>1 DEF Volga!Start, Volga!At, Volga!Busy
<1>2. CASE Volga!Stop
  BY <1>2 DEF Volga!Stop, Volga!StopLinks, Volga!Cancelled, Volga!Cut
<1>3. CASE Volga!StopEnds
  BY <1>3 DEF Volga!StopEnds
<1>4. CASE Volga!Expire
  BY <1>4 DEF Volga!Expire
<1>5. CASE Volga!Stalled
  BY <1>5 DEF Volga!Stalled, Volga!Cut
<1>6. ASSUME NEW t \in Volga!Makers, Volga!MakerSteps(t) \/ Volga!ApplyCookies(t)
      PROVE  Volga!IInv'
  <2>1. CASE Volga!AuthorizeFails(t)
    BY <2>1 DEF Volga!AuthorizeFails, Volga!At
  <2>2. CASE Volga!StartLinks(t)
    <3>1. vWorker' \in [Volga!Links -> Volga!WorkerStates]
      <4> DEFINE w == [vWorker EXCEPT ![vLinks + 1] = "idle"]
      <4>1. w \in [Volga!Links -> Volga!WorkerStates] /\ vWorker' = Volga!Outdated(w)
        BY <2>2 DEF Volga!StartLinks, Volga!Renew, Volga!WorkerStates
      <4> QED BY <4>1, VolgaOutdated
    <3>2. Volga!TypeOK'
      BY <2>2, <3>1 DEF Volga!StartLinks, Volga!At
    <3>3. Volga!MadeTyped'
      BY <2>2 DEF Volga!StartLinks, Volga!At
    <3>4. Volga!OneMaker'
      BY <2>2 DEF Volga!StartLinks, Volga!At
    <3>5. Volga!OneLink' /\ Volga!Stopped' /\ Volga!StopHolds'
      BY <2>2 DEF Volga!StartLinks, Volga!At
    <3> QED BY <3>2, <3>3, <3>4, <3>5
  <2>3. CASE Volga!Publish(t)
    <3>0. vMade[t] \in 1..vLinks
      BY <2>3 DEF Volga!Publish, Volga!At
    <3>1. Volga!TypeOK'
      BY <2>3, <3>0 DEF Volga!Publish, Volga!At
    <3>5. Volga!MadeTyped'
      BY <2>3 DEF Volga!Publish, Volga!At
    <3>2. Volga!OneMaker'
      BY <2>3 DEF Volga!Publish, Volga!At
    <3>3. Volga!OneLink'
      BY <2>3 DEF Volga!Publish, Volga!At
    <3>4. Volga!Stopped' /\ Volga!StopHolds'
      BY <2>3 DEF Volga!Publish, Volga!At
    <3> QED BY <3>1, <3>5, <3>2, <3>3, <3>4
  <2>4. CASE Volga!ApplyJoined(t)
    BY <2>4 DEF Volga!ApplyJoined, Volga!At, Volga!ThenAuthorize
  <2>5. CASE Volga!ApplyCookies(t)
    BY <2>5 DEF Volga!ApplyCookies, Volga!At, Volga!Busy, Volga!StopLinks, Volga!Cancelled, Volga!Cut
  <2> QED BY <1>6, <2>1, <2>2, <2>3, <2>4, <2>5 DEF Volga!MakerSteps
<1>7. ASSUME NEW k \in Volga!Links, Volga!ListenerSteps(k) \/ Volga!Drop(k) \/ Volga!Rotate(k)
      PROVE  Volga!IInv'
  <2>1. CASE Volga!WsTop(k)
    BY <2>1 DEF Volga!WsTop, Volga!Listens, Volga!IfLive, Volga!WsKeeps
  <2>2. CASE Volga!Refresh(k)
    BY <2>2, VolgaOutdated DEF Volga!Refresh, Volga!Listens, Volga!WsKeeps, Volga!Renew
  <2>3. CASE Volga!RefreshFails(k)
    BY <2>3 DEF Volga!RefreshFails, Volga!Listens, Volga!IfLive, Volga!WsKeeps
  <2>4. CASE Volga!Dial(k)
    BY <2>4 DEF Volga!Dial, Volga!Listens, Volga!IfLive, Volga!WsKeeps
  <2>5. CASE Volga!DialFails(k)
    BY <2>5 DEF Volga!DialFails, Volga!Listens, Volga!IfLive, Volga!WsKeeps
  <2>6. CASE Volga!Wait(k)
    BY <2>6 DEF Volga!Wait, Volga!Listens, Volga!IfLive, Volga!WsKeeps
  <2>7. CASE Volga!Drop(k)
    BY <2>7 DEF Volga!Drop, Volga!Listens, Volga!IfLive, Volga!WsKeeps
  <2> QED BY <1>7, <2>1, <2>2, <2>3, <2>4, <2>5, <2>6, <2>7 DEF Volga!ListenerSteps, Volga!Rotate
<1>8. ASSUME NEW k \in Volga!Links, Volga!Post(k) \/ Volga!WorkerSteps(k)
      PROVE  Volga!IInv'
  <2>1. CASE Volga!Post(k)
    BY <2>1 DEF Volga!Post, Volga!Works, Volga!RelayKeeps
  <2>2. CASE Volga!Posted(k)
    BY <2>2 DEF Volga!Posted, Volga!Works, Volga!RelayKeeps
  <2>3. CASE Volga!Rejected(k)
    BY <2>3 DEF Volga!Rejected, Volga!Works, Volga!RelayKeeps, Volga!Cut
  <2>4. CASE Volga!RejectedOld(k)
    BY <2>4 DEF Volga!RejectedOld, Volga!Works, Volga!RelayKeeps, Volga!Cut
  <2>5. CASE Volga!AwaitEnds(k)
    BY <2>5 DEF Volga!AwaitEnds, Volga!Works, Volga!RelayKeeps
  <2>6. CASE Volga!WorkerEnds(k)
    BY <2>6 DEF Volga!WorkerEnds, Volga!Works, Volga!RelayKeeps
  <2> QED BY <1>8, <2>1, <2>2, <2>3, <2>4, <2>5, <2>6 DEF Volga!WorkerSteps
<1> QED BY <1>1, <1>2, <1>3, <1>4, <1>5, <1>6, <1>7, <1>8 DEF Volga!Next

-----------------------------------------------------------------------------
\* The board

\* The invariant of a board holds before Start.
LEMMA BoardsInit == Boards!Init => Boards!IInv
<1>0. MaxSessions \in Nat /\ MaxApplies \in Nat
  BY CarriersAssumption
<1> SUFFICES ASSUME Boards!Init
             PROVE  Boards!IInv
  OBVIOUS
<1> USE DEF Boards!Init
<1>f. Boards!Flags
  BY DEF Boards!Flags
<1>1. Boards!TypeOK
  BY <1>0, <1>f DEF Boards!TypeOK, Boards!Sessions, Boards!Hashes
<1>2. Boards!Writing /\ Boards!Honest /\ Boards!Attended /\ Boards!NoEcho
  BY DEF Boards!Writing, Boards!Honest, Boards!Attended, Boards!NoEcho
<1> QED BY <1>1, <1>2 DEF Boards!IInv

\* What is a flag of a board stays one.
LEMMA BoardsFlags ==
    ASSUME Boards!Flags, Boards!Next
    PROVE  Boards!Flags'
<1>1. ASSUME NEW c, Boards!Show(c)
      PROVE  Boards!Flags'
  <2>1. bEchoed' \in BOOLEAN
    BY <1>1 DEF Boards!Show
  <2> QED BY <1>1, <2>1 DEF Boards!Show, Boards!Flags, Boards!controlVars
<1> QED BY <1>1 DEF Boards!Flags, Boards!Next, Boards!Start, Boards!AuthorizeFails, Boards!Authorized, Boards!NewDone,
  Boards!Stop, Boards!ApplyCookies, Boards!LoopSteps, Boards!LoopTop, Boards!DialFails, Boards!Dial, Boards!HandshakeFails,
  Boards!Handshake, Boards!WaitEnds, Boards!ReadFails, Boards!Silence, Boards!ServeEnds, Boards!Leave, Boards!Send,
  Boards!Renamed, Boards!Write, Boards!WriterEnds, Boards!KeeperEnds, Boards!controlVars, Boards!sessionVars, Boards!dataVars

\* Whatever happens to a board, its invariant stays.
LEMMA BoardsStep ==
    ASSUME Boards!IInv, Boards!Next
    PROVE  Boards!IInv'
<1>0. MaxSessions \in Nat /\ MaxApplies \in Nat
  BY CarriersAssumption
<1>f. Boards!Flags'
  BY BoardsFlags DEF Boards!IInv, Boards!TypeOK
<1> USE <1>0, <1>f DEF Boards!IInv, Boards!TypeOK, Boards!Writing, Boards!Honest,
       Boards!Attended, Boards!NoEcho, Boards!Sessions, Boards!Hashes, Boards!controlVars,
       Boards!sessionVars, Boards!dataVars, Boards!boardsVars
<1>1. CASE Boards!Start
  BY <1>1 DEF Boards!Start
<1>2. CASE Boards!AuthorizeFails
  BY <1>2 DEF Boards!AuthorizeFails
<1>3. CASE Boards!Authorized
  BY <1>3 DEF Boards!Authorized, Boards!NewDone
<1>4. CASE Boards!Stop
  BY <1>4 DEF Boards!Stop, Boards!CloseSocket
<1>5. CASE Boards!ApplyCookies
  BY <1>5 DEF Boards!ApplyCookies
<1>6. CASE Boards!LoopTop
  BY <1>6 DEF Boards!LoopTop
<1>7. CASE Boards!DialFails
  BY <1>7 DEF Boards!DialFails
<1>8. CASE Boards!Dial
  BY <1>8 DEF Boards!Dial
<1>9. CASE Boards!HandshakeFails
  BY <1>9 DEF Boards!HandshakeFails
<1>10. CASE Boards!WaitEnds
  BY <1>10 DEF Boards!WaitEnds
<1>11. CASE Boards!ReadFails
  BY <1>11 DEF Boards!ReadFails, Boards!Leave
<1>12. CASE Boards!Silence
  BY <1>12 DEF Boards!Silence, Boards!Leave
<1>13. CASE Boards!ServeEnds
  BY <1>13 DEF Boards!ServeEnds, Boards!Leave
<1>14. CASE Boards!Send
  BY <1>14 DEF Boards!Send
<1>15. ASSUME NEW h \in Boards!Hashes, Boards!Handshake(h) \/ Boards!Renamed(h)
      PROVE  Boards!IInv'
  <2>1. CASE Boards!Handshake(h)
    BY <2>1 DEF Boards!Handshake
  <2>2. CASE Boards!Renamed(h)
    BY <2>2 DEF Boards!Renamed
  <2> QED BY <1>15, <2>1, <2>2
<1>16. ASSUME NEW s \in Boards!Sessions, Boards!Write(s) \/ Boards!WriterEnds(s) \/ Boards!KeeperEnds(s)
      PROVE  Boards!IInv'
  <2>1. CASE Boards!Write(s)
    BY <2>1 DEF Boards!Write
  <2>2. CASE Boards!WriterEnds(s)
    BY <2>2 DEF Boards!WriterEnds
  <2>3. CASE Boards!KeeperEnds(s)
    BY <2>3 DEF Boards!KeeperEnds
  <2> QED BY <1>16, <2>1, <2>2, <2>3
<1>17. ASSUME NEW c \in Boards!Hashes, Boards!Show(c)
      PROVE  Boards!IInv'
  <2>1. CASE Boards!Show(c)
    BY <2>1 DEF Boards!Show, Boards!OwnEcho
  <2> QED BY <1>17, <2>1
<1> QED BY <1>1, <1>2, <1>3, <1>4, <1>5, <1>6, <1>7, <1>8, <1>9, <1>10, <1>11, <1>12,
     <1>13, <1>14, <1>15, <1>16, <1>17
     DEF
         Boards!Next, Boards!LoopSteps

-----------------------------------------------------------------------------
\* The Yandex document

\* The invariant of a document holds before Start.
LEMMA DocsInit == Docs!Init => Docs!IInv
<1>0. MaxSessions \in Nat /\ MaxApplies \in Nat /\ MaxAttempts \in Nat \ {0}
  BY CarriersAssumption
<1> SUFFICES ASSUME Docs!Init
             PROVE  Docs!IInv
  OBVIOUS
<1> USE DEF Docs!Init, Docs!Sessions, Docs!Routines, Docs!Off, Docs!Running
<1>f. Docs!Flags
  BY DEF Docs!Flags
<1>1. Docs!TypeOK
  BY <1>0, <1>f DEF Docs!TypeOK, Docs!Routine
<1>2. Docs!Numbered /\ Docs!Backoffs /\ Docs!OneLive /\ Docs!Read
  BY <1>0 DEF Docs!Numbered, Docs!Backoffs, Docs!OneLive, Docs!Read, Docs!Live
<1>3. Docs!Held /\ Docs!Writing /\ Docs!StopHolds
  BY <1>0 DEF Docs!Held, Docs!Writing, Docs!StopHolds
<1>4. Docs!SomebodyDials
  BY DEF Docs!SomebodyDials
<1> QED BY <1>1, <1>2, <1>3, <1>4 DEF Docs!IInv

\* What is a flag of a document stays one.
LEMMA DocsFlags ==
    ASSUME Docs!Flags, Docs!Next
    PROVE  Docs!Flags'
<1> USE DEF Docs!Flags, Docs!lifeVars
<1>1. ASSUME NEW g, NEW a, Docs!Schedule(g, a)
      PROVE  dReconnecting' \in BOOLEAN /\ dExhausted' \in BOOLEAN
  BY <1>1 DEF Docs!Schedule
<1>2. ASSUME NEW g, Docs!RoutineSteps(g)
      PROVE  Docs!Flags'
  <2>1. CASE Docs!Connect(g)
    <3>1. dLate' \in BOOLEAN
      BY <2>1 DEF Docs!Connect
    <3> QED BY <2>1, <3>1 DEF Docs!Connect
  <2>2. CASE Docs!ConnectFails(g)
    BY <2>2, <1>1 DEF Docs!ConnectFails
  <2> QED BY <1>2, <2>1, <2>2 DEF Docs!RoutineSteps, Docs!BackoffEnds, Docs!Captcha, Docs!CaptchaEnds
<1>3. ASSUME NEW g, NEW lasted, Docs!Drop(g, lasted)
      PROVE  Docs!Flags'
  <2>1. dCrossed' \in BOOLEAN
    BY <1>3 DEF Docs!Drop
  <2> QED BY <1>1, <1>3, <2>1 DEF Docs!Drop
<1>4. CASE Docs!ApplyCookies
  <2>1. dCrossed' \in BOOLEAN
    BY <1>4 DEF Docs!ApplyCookies
  <2>2. dReconnecting' \in BOOLEAN /\ dExhausted' \in BOOLEAN
    BY <1>1, <1>4 DEF Docs!ApplyCookies
  <2> QED BY <1>4, <2>1, <2>2 DEF Docs!ApplyCookies
<1> QED BY <1>2, <1>3, <1>4 DEF Docs!Next, Docs!Start, Docs!Stop, Docs!StopCloses, Docs!KeepAliveFails, Docs!WriterLooks,
  Docs!WriterEnds, Docs!ReadEnds, Docs!sessionVars, Docs!writerVars

\* What scheduleReconnect does: its goroutine waits or ends, and if it ends
\* while the carrier runs, another one waits or the attempts are used up.
LEMMA DocsSchedules ==
    ASSUME Docs!TypeOK, NEW g \in Docs!Routines, NEW a \in Nat, Docs!Schedule(g, a)
    PROVE  /\ dRoutine' \in [Docs!Routines -> Docs!Routine]
           /\ \A h \in Docs!Routines \ {g} : dRoutine'[h] = dRoutine[h]
           /\ dRoutine'[g].at \in {"off", "backoff"} /\ dRoutine'[g].of = 0
           /\ dRoutine'[g].at = "off" => dRoutine'[g] = Docs!Off
           /\ dReconnecting' <=> dReconnecting \/ dRoutine'[g].at = "backoff"
           /\ dRoutine'[g].at = "backoff" => ~dReconnecting /\ Docs!Running
           /\ Docs!Running => dExhausted' \/ dReconnecting'
           /\ dExhausted => dExhausted'
<1> DEFINE r == IF Docs!MayWait(a) THEN Docs!Backoff(a) ELSE Docs!Off
<1>0. MaxAttempts \in Nat \ {0}
  BY CarriersAssumption
<1>1. dRoutine' = [dRoutine EXCEPT ![g] = r] /\ dRoutine \in [Docs!Routines -> Docs!Routine]
  BY DEF Docs!Schedule, Docs!TypeOK
<1>2. r \in Docs!Routine
  <2>0. dSessions \in Nat
    BY CarriersAssumption DEF Docs!TypeOK
  <2>1. Docs!Off \in Docs!Routine
    BY <1>0, <2>0 DEF Docs!Off, Docs!Routine
  <2>2. Docs!MayWait(a) => Docs!Backoff(a) \in Docs!Routine
    BY <1>0, <2>0 DEF Docs!Backoff, Docs!Routine, Docs!MayWait
  <2> QED BY <2>1, <2>2
<1>3. dRoutine'[g] = r /\ \A h \in Docs!Routines \ {g} : dRoutine'[h] = dRoutine[h]
  BY <1>1
<1>4. /\ r.at \in {"off", "backoff"} /\ r.of = 0
      /\ r.at = "backoff" <=> Docs!MayWait(a)
      /\ r.at = "off" => r = Docs!Off
  BY DEF Docs!Off, Docs!Backoff
<1>5. /\ dReconnecting' <=> dReconnecting \/ Docs!MayWait(a)
      /\ dExhausted' <=> dExhausted \/ (Docs!Running /\ a >= MaxAttempts)
  BY DEF Docs!Schedule
<1>6. Docs!MayWait(a) <=> Docs!Running /\ a < MaxAttempts /\ ~dReconnecting
  BY DEF Docs!MayWait
<1>7. dRoutine' \in [Docs!Routines -> Docs!Routine]
  BY <1>1, <1>2
<1> HIDE DEF r
<1> QED BY <1>0, <1>3, <1>4, <1>5, <1>6, <1>7

\* Whatever happens to a document, its invariant stays.
LEMMA DocsStep ==
    ASSUME Docs!IInv, Docs!Next
    PROVE  Docs!IInv'
<1>0. MaxSessions \in Nat /\ MaxApplies \in Nat /\ MaxAttempts \in Nat \ {0}
  BY CarriersAssumption
<1>i. /\ Docs!TypeOK /\ Docs!Numbered /\ Docs!Backoffs /\ Docs!OneLive /\ Docs!Read
      /\ Docs!Held /\ Docs!Writing /\ Docs!SomebodyDials /\ Docs!StopHolds
  BY DEF Docs!IInv
<1>f. Docs!Flags'
  BY <1>i, DocsFlags DEF Docs!TypeOK
<1>t. /\ dSessions \in Nat /\ dRoutine \in [Docs!Routines -> Docs!Routine]
      /\ \A g \in Docs!Routines : /\ dRoutine[g].at \in {"off", "fetch", "backoff", "captcha", "read"}
                                  /\ dRoutine[g].of \in 0..dSessions /\ dRoutine[g].had \in 0..dSessions
                                  /\ dRoutine[g].attempt \in 0..MaxAttempts
  BY <1>0, <1>i DEF Docs!TypeOK, Docs!Routine
<1>o. /\ Docs!Off \in Docs!Routine /\ Docs!Off.at = "off" /\ Docs!Off.of = 0
      /\ \A a \in 0..MaxAttempts, s \in 0..dSessions :
           /\ Docs!Fetch(a, s) \in Docs!Routine
           /\ Docs!Fetch(a, s).at = "fetch" /\ Docs!Fetch(a, s).of = 0 /\ Docs!Fetch(a, s).had = s
  BY <1>0, <1>t DEF Docs!Off, Docs!Fetch, Docs!Routine
<1>p. dSessions' = dSessions => Docs!Routine' = Docs!Routine
  BY DEF Docs!Routine
<1>q. \A g \in Docs!Routines : dRoutine[g].at # "off" => dRoutine[g] # Docs!Off
  BY DEF Docs!Off
<1> USE DEF Docs!lifeVars, Docs!sessionVars, Docs!writerVars
<1>1. CASE Docs!Stop
  <2>e. /\ dLife = "running" /\ dLife' = "closing" /\ dConnected' = FALSE
        /\ Docs!Routine' = Docs!Routine
        /\ UNCHANGED <<dApplies, dExhausted, dCrossed, dLate, dSession, dSessions, dOpen, dQueueOf, dRoutine, dReconnecting, dLooking, dServes>>
    BY <1>i, <1>1, <1>p DEF Docs!Stop, Docs!Running
  <2>1. Docs!TypeOK'
    BY <1>0, <1>i, <1>f, <2>e DEF Docs!TypeOK, Docs!Sessions
  <2>2. Docs!Numbered'
    BY <1>0, <1>i, <1>f, <2>e DEF Docs!Numbered
  <2>3. Docs!Backoffs'
    BY <1>0, <1>i, <1>f, <2>e DEF Docs!Backoffs
  <2>4. Docs!OneLive'
    BY <1>0, <1>i, <1>f, <2>e DEF Docs!OneLive, Docs!Live
  <2>5. Docs!Read'
    BY <1>0, <1>i, <1>f, <2>e DEF Docs!Read, Docs!Running
  <2>6. Docs!Held'
    BY <1>0, <1>i, <1>f, <2>e DEF Docs!Held
  <2>7. Docs!Writing'
    BY <1>0, <1>i, <1>f, <2>e DEF Docs!Writing
  <2>8. Docs!SomebodyDials'
    BY <1>0, <1>i, <1>f, <2>e DEF Docs!SomebodyDials, Docs!Running
  <2>9. Docs!StopHolds'
    BY <1>0, <1>i, <1>f, <2>e DEF Docs!StopHolds
  <2> QED BY <2>1, <2>2, <2>3, <2>4, <2>5, <2>6, <2>7, <2>8, <2>9 DEF Docs!IInv
<1>2. CASE Docs!StopCloses
  <2>e. /\ dLife = "closing" /\ dLife' = "stopped" /\ dOpen' = dOpen \ {dSession}
        /\ Docs!Routine' = Docs!Routine
        /\ UNCHANGED <<dConnected, dApplies, dExhausted, dCrossed, dLate, dSession, dSessions, dQueueOf, dRoutine, dReconnecting, dLooking, dServes>>
    BY <1>i, <1>2, <1>p DEF Docs!StopCloses
  <2>1. Docs!TypeOK'
    BY <1>0, <1>i, <1>f, <2>e DEF Docs!TypeOK, Docs!Sessions
  <2>2. Docs!Numbered'
    BY <1>0, <1>i, <1>f, <2>e DEF Docs!Numbered
  <2>3. Docs!Backoffs'
    BY <1>0, <1>i, <1>f, <2>e DEF Docs!Backoffs
  <2>4. Docs!OneLive'
    BY <1>0, <1>i, <1>f, <2>e DEF Docs!OneLive, Docs!Live
  <2>5. Docs!Read'
    BY <1>0, <1>i, <1>f, <2>e DEF Docs!Read, Docs!Running
  <2>6. Docs!Held'
    BY <1>0, <1>i, <1>f, <2>e DEF Docs!Held
  <2>7. Docs!Writing'
    BY <1>0, <1>i, <1>f, <2>e DEF Docs!Writing
  <2>8. Docs!SomebodyDials'
    BY <1>0, <1>i, <1>f, <2>e DEF Docs!SomebodyDials, Docs!Running
  <2>9. Docs!StopHolds'
    BY <1>0, <1>i, <1>f, <2>e DEF Docs!StopHolds, Docs!Held
  <2> QED BY <2>1, <2>2, <2>3, <2>4, <2>5, <2>6, <2>7, <2>8, <2>9 DEF Docs!IInv
<1>3. CASE Docs!KeepAliveFails
  <2>e. /\ dLife = "running" /\ dConnected' = FALSE /\ dOpen' = dOpen \ {dSession}
        /\ Docs!Routine' = Docs!Routine
        /\ UNCHANGED <<dLife, dApplies, dExhausted, dCrossed, dLate, dSession, dSessions, dQueueOf, dRoutine, dReconnecting, dLooking, dServes>>
    BY <1>i, <1>3, <1>p DEF Docs!KeepAliveFails, Docs!Running
  <2>1. Docs!TypeOK'
    BY <1>0, <1>i, <1>f, <2>e DEF Docs!TypeOK, Docs!Sessions
  <2>2. Docs!Numbered'
    BY <1>0, <1>i, <1>f, <2>e DEF Docs!Numbered
  <2>3. Docs!Backoffs'
    BY <1>0, <1>i, <1>f, <2>e DEF Docs!Backoffs
  <2>4. Docs!OneLive'
    BY <1>0, <1>i, <1>f, <2>e DEF Docs!OneLive, Docs!Live
  <2>5. Docs!Read'
    BY <1>0, <1>i, <1>f, <2>e DEF Docs!Read, Docs!Running
  <2>6. Docs!Held'
    BY <1>0, <1>i, <1>f, <2>e DEF Docs!Held
  <2>7. Docs!Writing'
    BY <1>0, <1>i, <1>f, <2>e DEF Docs!Writing
  <2>8. Docs!SomebodyDials'
    BY <1>0, <1>i, <1>f, <2>e DEF Docs!SomebodyDials, Docs!Running
  <2>9. Docs!StopHolds'
    BY <1>0, <1>i, <1>f, <2>e DEF Docs!StopHolds
  <2> QED BY <2>1, <2>2, <2>3, <2>4, <2>5, <2>6, <2>7, <2>8, <2>9 DEF Docs!IInv
<1>4. CASE Docs!WriterLooks
  <2>a. dLife = "running" => dQueueOf[dSession] \in 1..dSessions
    BY <1>i, <1>t, <1>4 DEF Docs!WriterLooks, Docs!Running, Docs!Numbered, Docs!TypeOK
  <2>e. /\ dServes' \in [Docs!Sessions -> Nat]
        /\ dLooking > 0 /\ dLooking' = dLooking - 1
        /\ dSession # 0 \/ dLife # "running"
        /\ dServes' = IF dLife = "running" THEN [dServes EXCEPT ![dQueueOf[dSession]] = @ + 1] ELSE dServes
        /\ Docs!Routine' = Docs!Routine
        /\ UNCHANGED <<dLife, dConnected, dApplies, dExhausted, dCrossed, dLate, dSession, dSessions, dOpen, dQueueOf, dRoutine, dReconnecting>>
    BY <1>i, <1>4, <1>p, <1>t, <1>0, <2>a DEF Docs!WriterLooks, Docs!Running, Docs!TypeOK, Docs!Numbered, Docs!Sessions
  <2>1. Docs!TypeOK'
    BY <1>0, <1>i, <1>f, <2>e DEF Docs!TypeOK, Docs!Sessions
  <2>2. Docs!Numbered'
    BY <1>0, <1>i, <1>f, <2>e, <2>a DEF Docs!Numbered, Docs!TypeOK, Docs!Sessions
  <2>3. Docs!Backoffs'
    BY <1>0, <1>i, <1>f, <2>e DEF Docs!Backoffs
  <2>4. Docs!OneLive'
    BY <1>0, <1>i, <1>f, <2>e DEF Docs!OneLive, Docs!Live
  <2>5. Docs!Read'
    BY <1>0, <1>i, <1>f, <2>e DEF Docs!Read, Docs!Running
  <2>6. Docs!Held'
    BY <1>0, <1>i, <1>f, <2>e DEF Docs!Held
  <2>7. Docs!Writing'
    BY <1>0, <1>i, <1>f, <2>e, <2>a DEF Docs!Writing, Docs!TypeOK, Docs!Numbered, Docs!Sessions
  <2>8. Docs!SomebodyDials'
    BY <1>0, <1>i, <1>f, <2>e DEF Docs!SomebodyDials, Docs!Running
  <2>9. Docs!StopHolds'
    BY <1>0, <1>i, <1>f, <2>e DEF Docs!StopHolds
  <2> QED BY <2>1, <2>2, <2>3, <2>4, <2>5, <2>6, <2>7, <2>8, <2>9 DEF Docs!IInv
<1>5. ASSUME NEW q \in Docs!Sessions, Docs!WriterEnds(q)
      PROVE  Docs!IInv'
  <2>e. /\ dServes' \in [Docs!Sessions -> Nat]
        /\ dLife = "stopped" /\ dServes[q] > 0 /\ dServes' = [dServes EXCEPT ![q] = @ - 1]
        /\ Docs!Routine' = Docs!Routine
        /\ UNCHANGED <<dLife, dConnected, dApplies, dExhausted, dCrossed, dLate, dSession, dSessions, dOpen, dQueueOf, dRoutine, dReconnecting, dLooking>>
    BY <1>i, <1>5, <1>p DEF Docs!WriterEnds, Docs!TypeOK
  <2>1. Docs!TypeOK'
    BY <1>0, <1>i, <1>f, <2>e DEF Docs!TypeOK, Docs!Sessions
  <2>2. Docs!Numbered'
    BY <1>0, <1>i, <1>f, <2>e DEF Docs!Numbered, Docs!TypeOK, Docs!Sessions
  <2>3. Docs!Backoffs'
    BY <1>0, <1>i, <1>f, <2>e DEF Docs!Backoffs
  <2>4. Docs!OneLive'
    BY <1>0, <1>i, <1>f, <2>e DEF Docs!OneLive, Docs!Live
  <2>5. Docs!Read'
    BY <1>0, <1>i, <1>f, <2>e DEF Docs!Read, Docs!Running
  <2>6. Docs!Held'
    BY <1>0, <1>i, <1>f, <2>e DEF Docs!Held
  <2>7. Docs!Writing'
    BY <1>0, <1>i, <1>f, <2>e DEF Docs!Writing, Docs!TypeOK, Docs!Sessions
  <2>8. Docs!SomebodyDials'
    BY <1>0, <1>i, <1>f, <2>e DEF Docs!SomebodyDials, Docs!Running
  <2>9. Docs!StopHolds'
    BY <1>0, <1>i, <1>f, <2>e DEF Docs!StopHolds
  <2> QED BY <2>1, <2>2, <2>3, <2>4, <2>5, <2>6, <2>7, <2>8, <2>9 DEF Docs!IInv
<1>6. CASE Docs!Start
  <2>e. /\ dLife = "new" /\ dLife' = "running" /\ 0 \in Docs!Routines
        /\ \A g \in Docs!Routines : dRoutine[g] = Docs!Off
        /\ \A h \in Docs!Routines \ {0} : dRoutine'[h] = dRoutine[h]
        /\ dRoutine'[0].at = "fetch" /\ dRoutine'[0].of = 0 /\ dRoutine'[0].had = dSession
        /\ dRoutine' \in [Docs!Routines -> Docs!Routine] /\ Docs!Routine' = Docs!Routine
        /\ UNCHANGED <<dConnected, dApplies, dExhausted, dCrossed, dLate, dSession, dSessions, dOpen, dQueueOf, dReconnecting, dLooking, dServes>>
    BY <1>i, <1>0, <1>t, <1>o, <1>p, <1>6 DEF Docs!Start, Docs!Numbered, Docs!Routines, Docs!TypeOK
  <2>1. Docs!TypeOK'
    BY <1>0, <1>i, <1>f, <2>e DEF Docs!TypeOK, Docs!Sessions
  <2>2. Docs!Numbered'
    BY <1>0, <1>i, <1>f, <2>e DEF Docs!Numbered, Docs!TypeOK, Docs!Routines
  <2>3. Docs!Backoffs'
    BY <1>0, <1>i, <1>f, <2>e, <1>o DEF Docs!Backoffs
  <2>4. Docs!OneLive'
    BY <1>0, <1>i, <1>f, <2>e, <1>o DEF Docs!OneLive, Docs!Live, Docs!Backoffs
  <2>5. Docs!Read'
    BY <1>0, <1>i, <1>f, <2>e, <1>o DEF Docs!Read
  <2>6. Docs!Held'
    BY <1>0, <1>i, <1>f, <2>e DEF Docs!Held
  <2>7. Docs!Writing'
    BY <1>0, <1>i, <1>f, <2>e, <1>o DEF Docs!Writing
  <2>8. Docs!SomebodyDials'
    BY <1>0, <1>i, <1>f, <2>e DEF Docs!SomebodyDials, Docs!Running
  <2>9. Docs!StopHolds'
    BY <1>0, <1>i, <1>f, <2>e DEF Docs!StopHolds
  <2> QED BY <2>1, <2>2, <2>3, <2>4, <2>5, <2>6, <2>7, <2>8, <2>9 DEF Docs!IInv
<1>7. ASSUME NEW g \in Docs!Routines, Docs!BackoffEnds(g)
      PROVE  Docs!IInv'
  <2>e. /\ dRoutine[g].at = "backoff" /\ dReconnecting' = FALSE
        /\ \A h \in Docs!Routines \ {g} : dRoutine'[h] = dRoutine[h]
        /\ dRoutine'[g].at = IF dLife = "running" THEN "fetch" ELSE "off"
        /\ dRoutine'[g].of = 0
        /\ dRoutine'[g].at = "fetch" => dRoutine'[g].had = dSession
        /\ dRoutine[g] # Docs!Off
        /\ dRoutine' \in [Docs!Routines -> Docs!Routine] /\ Docs!Routine' = Docs!Routine
        /\ UNCHANGED <<dLife, dConnected, dApplies, dExhausted, dCrossed, dLate, dSession, dSessions, dOpen, dQueueOf, dLooking, dServes>>
    BY <1>i, <1>t, <1>o, <1>p, <1>q, <1>7 DEF Docs!BackoffEnds, Docs!ConnectToDoc, Docs!Running, Docs!TypeOK
  <2>1. Docs!TypeOK'
    BY <1>0, <1>i, <1>f, <2>e DEF Docs!TypeOK, Docs!Sessions
  <2>2. Docs!Numbered'
    BY <1>0, <1>i, <1>f, <2>e DEF Docs!Numbered
  <2>3. Docs!Backoffs'
    BY <1>0, <1>i, <1>f, <2>e DEF Docs!Backoffs
  <2>4. Docs!OneLive'
    BY <1>0, <1>i, <1>f, <2>e DEF Docs!OneLive, Docs!Live, Docs!Backoffs
  <2>5. Docs!Read'
    BY <1>0, <1>i, <1>f, <2>e DEF Docs!Read, Docs!Running
  <2>6. Docs!Held'
    BY <1>0, <1>i, <1>f, <2>e DEF Docs!Held
  <2>7. Docs!Writing'
    BY <1>0, <1>i, <1>f, <2>e DEF Docs!Writing
  <2>8. Docs!SomebodyDials'
    BY <1>0, <1>i, <1>f, <2>e DEF Docs!SomebodyDials, Docs!Running
  <2>9. Docs!StopHolds'
    BY <1>0, <1>i, <1>f, <2>e DEF Docs!StopHolds
  <2> QED BY <2>1, <2>2, <2>3, <2>4, <2>5, <2>6, <2>7, <2>8, <2>9 DEF Docs!IInv
<1>8. ASSUME NEW g \in Docs!Routines, Docs!ConnectFails(g)
      PROVE  Docs!IInv'
  <2>a. dRoutine[g].attempt + 1 \in Nat
    BY <1>0, <1>t
  <2>b. Docs!Schedule(g, dRoutine[g].attempt + 1)
    BY <1>8 DEF Docs!ConnectFails
  <2>s. /\ \A h \in Docs!Routines \ {g} : dRoutine'[h] = dRoutine[h]
        /\ dRoutine' \in [Docs!Routines -> Docs!Routine]
        /\ dRoutine'[g].at \in {"off", "backoff"}
        /\ dReconnecting' <=> dReconnecting \/ dRoutine'[g].at = "backoff"
        /\ dRoutine'[g].at = "backoff" => ~dReconnecting /\ dLife = "running"
        /\ dLife = "running" => dExhausted' \/ dReconnecting'
        /\ dExhausted => dExhausted'
    BY <1>i, <2>a, <2>b, DocsSchedules DEF Docs!Running
  <2>e. /\ dRoutine[g].at = "fetch" /\ dRoutine[g] # Docs!Off
        /\ Docs!Routine' = Docs!Routine
        /\ UNCHANGED <<dLife, dConnected, dApplies, dCrossed, dLate, dSession, dSessions, dOpen, dQueueOf, dLooking, dServes>>
    BY <1>i, <1>t, <1>p, <1>q, <1>8 DEF Docs!ConnectFails, Docs!Running
  <2>1. Docs!TypeOK'
    BY <1>0, <1>i, <1>f, <2>e, <2>s DEF Docs!TypeOK, Docs!Sessions
  <2>2. Docs!Numbered'
    BY <1>0, <1>i, <1>f, <2>e, <2>s DEF Docs!Numbered
  <2>3. Docs!Backoffs'
    BY <1>0, <1>i, <1>f, <2>e, <2>s DEF Docs!Backoffs
  <2>4. Docs!OneLive'
    BY <1>0, <1>i, <1>f, <2>e, <2>s DEF Docs!OneLive, Docs!Live, Docs!Backoffs
  <2>5. Docs!Read'
    BY <1>0, <1>i, <1>f, <2>e, <2>s DEF Docs!Read, Docs!Running
  <2>6. Docs!Held'
    BY <1>0, <1>i, <1>f, <2>e, <2>s DEF Docs!Held
  <2>7. Docs!Writing'
    BY <1>0, <1>i, <1>f, <2>e, <2>s DEF Docs!Writing
  <2>8. Docs!SomebodyDials'
    BY <1>0, <1>i, <1>f, <2>e, <2>s DEF Docs!SomebodyDials, Docs!Backoffs, Docs!Running
  <2>9. Docs!StopHolds'
    BY <1>0, <1>i, <1>f, <2>e, <2>s DEF Docs!StopHolds
  <2> QED BY <2>1, <2>2, <2>3, <2>4, <2>5, <2>6, <2>7, <2>8, <2>9 DEF Docs!IInv
<1>9. ASSUME NEW g \in Docs!Routines, Docs!Captcha(g)
      PROVE  Docs!IInv'
  <2>e. /\ dRoutine[g].at = "fetch" /\ dRoutine[g] # Docs!Off
        /\ \A h \in Docs!Routines \ {g} : dRoutine'[h] = dRoutine[h]
        /\ dRoutine'[g].at = IF dLife = "running" THEN "captcha" ELSE "off"
        /\ dRoutine' \in [Docs!Routines -> Docs!Routine] /\ Docs!Routine' = Docs!Routine
        /\ UNCHANGED <<dLife, dConnected, dApplies, dExhausted, dCrossed, dLate, dSession, dSessions, dOpen, dQueueOf, dLooking, dServes, dReconnecting>>
    BY <1>i, <1>t, <1>o, <1>p, <1>q, <1>9 DEF Docs!Captcha, Docs!Running, Docs!Routine
  <2>1. Docs!TypeOK'
    BY <1>0, <1>i, <1>f, <2>e DEF Docs!TypeOK, Docs!Sessions
  <2>2. Docs!Numbered'
    BY <1>0, <1>i, <1>f, <2>e DEF Docs!Numbered
  <2>3. Docs!Backoffs'
    BY <1>0, <1>i, <1>f, <2>e DEF Docs!Backoffs
  <2>4. Docs!OneLive'
    BY <1>0, <1>i, <1>f, <2>e DEF Docs!OneLive, Docs!Live
  <2>5. Docs!Read'
    BY <1>0, <1>i, <1>f, <2>e DEF Docs!Read, Docs!Running
  <2>6. Docs!Held'
    BY <1>0, <1>i, <1>f, <2>e DEF Docs!Held
  <2>7. Docs!Writing'
    BY <1>0, <1>i, <1>f, <2>e DEF Docs!Writing
  <2>8. Docs!SomebodyDials'
    BY <1>0, <1>i, <1>f, <2>e DEF Docs!SomebodyDials, Docs!Running
  <2>9. Docs!StopHolds'
    BY <1>0, <1>i, <1>f, <2>e DEF Docs!StopHolds
  <2> QED BY <2>1, <2>2, <2>3, <2>4, <2>5, <2>6, <2>7, <2>8, <2>9 DEF Docs!IInv
<1>10. ASSUME NEW g \in Docs!Routines, Docs!CaptchaEnds(g)
      PROVE  Docs!IInv'
  <2>e. /\ dRoutine[g].at = "captcha" /\ dRoutine[g] # Docs!Off
        /\ \A h \in Docs!Routines \ {g} : dRoutine'[h] = dRoutine[h]
        /\ dRoutine'[g].at = IF dLife = "running" THEN "fetch" ELSE "off"
        /\ dRoutine'[g].of = 0
        /\ dRoutine'[g].at = "fetch" => dRoutine'[g].had = dSession
        /\ dRoutine' \in [Docs!Routines -> Docs!Routine] /\ Docs!Routine' = Docs!Routine
        /\ UNCHANGED <<dLife, dConnected, dApplies, dExhausted, dCrossed, dLate, dSession, dSessions, dOpen, dQueueOf, dLooking, dServes, dReconnecting>>
    BY <1>i, <1>0, <1>t, <1>o, <1>p, <1>q, <1>10 DEF Docs!CaptchaEnds, Docs!ConnectToDoc, Docs!Running, Docs!Next1, Docs!TypeOK
  <2>1. Docs!TypeOK'
    BY <1>0, <1>i, <1>f, <2>e DEF Docs!TypeOK, Docs!Sessions
  <2>2. Docs!Numbered'
    BY <1>0, <1>i, <1>f, <2>e DEF Docs!Numbered
  <2>3. Docs!Backoffs'
    BY <1>0, <1>i, <1>f, <2>e DEF Docs!Backoffs
  <2>4. Docs!OneLive'
    BY <1>0, <1>i, <1>f, <2>e DEF Docs!OneLive, Docs!Live
  <2>5. Docs!Read'
    BY <1>0, <1>i, <1>f, <2>e DEF Docs!Read, Docs!Running
  <2>6. Docs!Held'
    BY <1>0, <1>i, <1>f, <2>e DEF Docs!Held
  <2>7. Docs!Writing'
    BY <1>0, <1>i, <1>f, <2>e DEF Docs!Writing
  <2>8. Docs!SomebodyDials'
    BY <1>0, <1>i, <1>f, <2>e DEF Docs!SomebodyDials, Docs!Running
  <2>9. Docs!StopHolds'
    BY <1>0, <1>i, <1>f, <2>e DEF Docs!StopHolds
  <2> QED BY <2>1, <2>2, <2>3, <2>4, <2>5, <2>6, <2>7, <2>8, <2>9 DEF Docs!IInv
<1>11. ASSUME NEW g \in Docs!Routines, Docs!Connect(g)
      PROVE  Docs!IInv'
  <2>e. /\ dRoutine[g].at = "fetch" /\ dRoutine[g] # Docs!Off
        /\ \A h \in Docs!Routines \ {g} : dRoutine'[h] = dRoutine[h]
        /\ dSessions' = dSessions + 1 /\ dSession' = dSessions + 1 /\ dSessions + 1 \in Docs!Sessions
        /\ dOpen' = dOpen \cup {dSessions + 1}
        /\ dQueueOf' = [dQueueOf EXCEPT ![dSessions + 1] = IF dRoutine[g].had = 0 THEN dSessions + 1 ELSE dQueueOf[dRoutine[g].had]]
        /\ dLooking' = IF dRoutine[g].had = 0 THEN dLooking + 1 ELSE dLooking
        /\ dQueueOf' \in [Docs!Sessions -> 0..(dSessions + 1)]
        /\ dRoutine'[g].at = "read" /\ dRoutine'[g].of = dSessions + 1
        /\ dRoutine' \in [Docs!Routines -> Docs!Routine']
        /\ dConnected' = TRUE /\ (dLate' <=> dLate \/ dLife # "running")
        /\ UNCHANGED <<dLife, dApplies, dExhausted, dCrossed, dReconnecting, dServes>>
    BY <1>i, <1>0, <1>t, <1>q, <1>11 DEF Docs!Connect, Docs!Running, Docs!Writers, Docs!Routine, Docs!TypeOK, Docs!Sessions
  <2>q. /\ dSession \in 0..dSessions /\ dSessions + 1 \in Docs!Sessions /\ dServes[dSessions + 1] = 0
        /\ \A s \in 1..dSessions : s \in Docs!Sessions /\ dQueueOf'[s] = dQueueOf[s] /\ dQueueOf[s] \in 1..dSessions
    BY <1>0, <1>i, <1>t, <2>e DEF Docs!TypeOK, Docs!Numbered, Docs!Sessions
  <2>r. /\ dQueueOf'[dSessions + 1] = IF dRoutine[g].had = 0 THEN dSessions + 1 ELSE dQueueOf[dRoutine[g].had]
        /\ dQueueOf'[dSessions + 1] \in 1..(dSessions + 1)
        /\ dSessions + 1 \notin dOpen /\ dOpen \subseteq 1..dSessions
    BY <1>0, <1>i, <1>t, <2>e, <2>q DEF Docs!TypeOK
  <2>1. Docs!TypeOK'
    BY <1>0, <1>i, <1>f, <2>e, <1>t DEF Docs!TypeOK, Docs!Sessions
  <2>2. Docs!Numbered'
    <3>1. \A s \in 1..(dSessions + 1) : dQueueOf'[s] \in 1..(dSessions + 1)
      BY <1>t, <2>q, <2>r
    <3>2. \A q \in Docs!Sessions : q > dSessions + 1 => dServes[q] = 0
      BY <1>i, <1>t DEF Docs!Numbered, Docs!Sessions
    <3>3. dLife # "new" /\ \A h \in Docs!Routines : h > dApplies => dRoutine'[h] = Docs!Off
      BY <1>i, <2>e DEF Docs!Numbered
    <3> QED BY <2>e, <3>1, <3>2, <3>3 DEF Docs!Numbered
  <2>3. Docs!Backoffs'
    BY <1>0, <1>i, <1>f, <2>e DEF Docs!Backoffs
  <2>4. Docs!OneLive'
    BY <1>0, <1>i, <1>f, <2>e, <1>t DEF Docs!OneLive, Docs!Live, Docs!TypeOK
  <2>5. Docs!Read'
    BY <1>0, <1>i, <1>f, <2>e, <1>t, <2>q, <2>r DEF Docs!Read
  <2>6. Docs!Held'
    BY <1>0, <1>i, <1>f, <2>e, <1>t DEF Docs!Held, Docs!OneLive, Docs!Live, Docs!Read, Docs!TypeOK
  <2>7. Docs!Writing'
    <3>1. /\ \A q \in Docs!Sessions : dServes[q] \in Nat
          /\ dLooking \in Nat /\ dSession \in Nat /\ dSessions + 1 # 0
      BY <1>i, <1>t DEF Docs!TypeOK
    <3>o. ~dCrossed => \A h \in Docs!Routines : dRoutine'[h].at # "fetch"
      BY <1>i, <2>e DEF Docs!OneLive, Docs!Live
    <3>2. CASE dRoutine[g].had = 0
      BY <1>i, <2>e, <2>q, <2>r, <3>1, <3>2, <3>o DEF Docs!Writing
    <3>3. CASE dRoutine[g].had # 0
      BY <1>i, <2>e, <2>q, <2>r, <3>1, <3>3, <3>o DEF Docs!Writing
    <3> QED BY <3>2, <3>3
  <2>8. Docs!SomebodyDials'
    BY <1>0, <1>i, <1>f, <2>e DEF Docs!SomebodyDials, Docs!Running
  <2>9. Docs!StopHolds'
    BY <1>0, <1>i, <1>f, <2>e DEF Docs!StopHolds
  <2> QED BY <2>1, <2>2, <2>3, <2>4, <2>5, <2>6, <2>7, <2>8, <2>9 DEF Docs!IInv
<1>12. ASSUME NEW g \in Docs!Routines, NEW lasted \in BOOLEAN, Docs!Drop(g, lasted)
      PROVE  Docs!IInv'
  <2>a. (IF lasted THEN 0 ELSE dRoutine[g].attempt + 1) \in Nat
    BY <1>0, <1>t
  <2>b. Docs!Schedule(g, IF lasted THEN 0 ELSE dRoutine[g].attempt + 1)
    BY <1>12 DEF Docs!Drop
  <2>s. /\ \A h \in Docs!Routines \ {g} : dRoutine'[h] = dRoutine[h]
        /\ dRoutine' \in [Docs!Routines -> Docs!Routine]
        /\ dRoutine'[g].at \in {"off", "backoff"}
        /\ dReconnecting' <=> dReconnecting \/ dRoutine'[g].at = "backoff"
        /\ dRoutine'[g].at = "backoff" => ~dReconnecting /\ dLife = "running"
        /\ dLife = "running" => dExhausted' \/ dReconnecting'
        /\ dExhausted => dExhausted'
    BY <1>i, <2>a, <2>b, DocsSchedules DEF Docs!Running
  <2>e. /\ dRoutine[g].at = "read" /\ dRoutine[g] # Docs!Off
        /\ Docs!Routine' = Docs!Routine
        /\ dConnected' = FALSE /\ dOpen' = dOpen \ {dRoutine[g].of}
        /\ dCrossed' <=> dCrossed \/ (dLife = "running" /\ Docs!Beside(g))
        /\ UNCHANGED <<dLife, dApplies, dLate, dSession, dSessions, dQueueOf, dLooking, dServes>>
    BY <1>i, <1>t, <1>p, <1>q, <1>12 DEF Docs!Drop, Docs!Running
  <2>1. Docs!TypeOK'
    BY <1>0, <1>i, <1>f, <2>e, <2>s DEF Docs!TypeOK, Docs!Sessions
  <2>2. Docs!Numbered'
    BY <1>0, <1>i, <1>f, <2>e, <2>s DEF Docs!Numbered
  <2>3. Docs!Backoffs'
    BY <1>0, <1>i, <1>f, <2>e, <2>s DEF Docs!Backoffs
  <2>4. Docs!OneLive'
    BY <1>0, <1>i, <1>f, <2>e, <2>s DEF Docs!OneLive, Docs!Live, Docs!Backoffs, Docs!Beside
  <2>5. Docs!Read'
    BY <1>0, <1>i, <1>f, <2>e, <2>s, <1>t DEF Docs!Read, Docs!TypeOK, Docs!Numbered
  <2>6. Docs!Held'
    BY <1>0, <1>i, <1>f, <2>e, <2>s DEF Docs!Held
  <2>7. Docs!Writing'
    BY <1>0, <1>i, <1>f, <2>e, <2>s DEF Docs!Writing
  <2>8. Docs!SomebodyDials'
    BY <1>0, <1>i, <1>f, <2>e, <2>s DEF Docs!SomebodyDials, Docs!Backoffs, Docs!Running
  <2>9. Docs!StopHolds'
    BY <1>0, <1>i, <1>f, <2>e, <2>s DEF Docs!StopHolds
  <2> QED BY <2>1, <2>2, <2>3, <2>4, <2>5, <2>6, <2>7, <2>8, <2>9 DEF Docs!IInv
<1>13. ASSUME NEW g \in Docs!Routines, Docs!ReadEnds(g)
      PROVE  Docs!IInv'
  <2>e. /\ dLife # "running" /\ dRoutine[g].at = "read" /\ dRoutine[g] # Docs!Off
        /\ \A h \in Docs!Routines \ {g} : dRoutine'[h] = dRoutine[h]
        /\ dRoutine'[g] = Docs!Off /\ dRoutine'[g].at = "off"
        /\ dRoutine' \in [Docs!Routines -> Docs!Routine] /\ Docs!Routine' = Docs!Routine
        /\ UNCHANGED <<dLife, dConnected, dApplies, dExhausted, dCrossed, dLate, dSession, dSessions, dOpen, dQueueOf, dLooking, dServes, dReconnecting>>
    BY <1>i, <1>t, <1>o, <1>p, <1>q, <1>13 DEF Docs!ReadEnds, Docs!Running, Docs!TypeOK
  <2>1. Docs!TypeOK'
    BY <1>0, <1>i, <1>f, <2>e DEF Docs!TypeOK, Docs!Sessions
  <2>2. Docs!Numbered'
    BY <1>0, <1>i, <1>f, <2>e DEF Docs!Numbered
  <2>3. Docs!Backoffs'
    BY <1>0, <1>i, <1>f, <2>e DEF Docs!Backoffs
  <2>4. Docs!OneLive'
    BY <1>0, <1>i, <1>f, <2>e DEF Docs!OneLive, Docs!Live
  <2>5. Docs!Read'
    BY <1>0, <1>i, <1>f, <2>e DEF Docs!Read, Docs!Numbered
  <2>6. Docs!Held'
    BY <1>0, <1>i, <1>f, <2>e DEF Docs!Held
  <2>7. Docs!Writing'
    BY <1>0, <1>i, <1>f, <2>e DEF Docs!Writing
  <2>8. Docs!SomebodyDials'
    BY <1>0, <1>i, <1>f, <2>e DEF Docs!SomebodyDials, Docs!Running
  <2>9. Docs!StopHolds'
    BY <1>0, <1>i, <1>f, <2>e DEF Docs!StopHolds
  <2> QED BY <2>1, <2>2, <2>3, <2>4, <2>5, <2>6, <2>7, <2>8, <2>9 DEF Docs!IInv
<1>14. CASE Docs!ApplyCookies
  <2>c. /\ dLife # "new" /\ dApplies' = dApplies + 1 /\ dApplies + 1 \in Docs!Routines
        /\ dSession' = 0 /\ dConnected' = FALSE /\ dOpen' = dOpen \ {dSession}
        /\ Docs!Routine' = Docs!Routine
        /\ UNCHANGED <<dLife, dLate, dSessions, dQueueOf, dLooking, dServes>>
    BY <1>0, <1>i, <1>p, <1>14 DEF Docs!ApplyCookies, Docs!TypeOK, Docs!Routines
  <2>d. dCrossed' <=> dCrossed \/ (dLife = "running" /\ (Docs!Making \/ dLooking > 0))
    BY <1>14 DEF Docs!ApplyCookies, Docs!Running
  <2>1. CASE dLife # "running"
    <3>e. /\ UNCHANGED <<dRoutine, dReconnecting, dExhausted>>
      BY <1>i, <1>14, <2>1 DEF Docs!ApplyCookies, Docs!Running
    <3>1. Docs!TypeOK'
      BY <1>0, <1>i, <1>f, <3>e, <2>c, <2>d, <2>1 DEF Docs!TypeOK, Docs!Routines
    <3>2. Docs!Numbered'
      BY <1>0, <1>i, <1>f, <3>e, <1>t, <2>c, <2>d, <2>1 DEF Docs!Numbered, Docs!TypeOK, Docs!Routines
    <3>3. Docs!Backoffs'
      BY <1>0, <1>i, <1>f, <3>e, <2>c, <2>d, <2>1 DEF Docs!Backoffs
    <3>4. Docs!OneLive'
      BY <1>0, <1>i, <1>f, <3>e, <2>c, <2>d, <2>1 DEF Docs!OneLive, Docs!Live
    <3>5. Docs!Read'
      BY <1>0, <1>i, <1>f, <3>e, <2>c, <2>d, <2>1 DEF Docs!Read, Docs!Running
    <3>6. Docs!Held'
      BY <1>0, <1>i, <1>f, <3>e, <2>c, <2>d, <2>1 DEF Docs!Held
    <3>7. Docs!Writing'
      BY <1>0, <1>i, <1>f, <3>e, <2>c, <2>d, <2>1 DEF Docs!Writing
    <3>8. Docs!SomebodyDials'
      BY <1>0, <1>i, <1>f, <3>e, <2>c, <2>d, <2>1 DEF Docs!SomebodyDials, Docs!Running
    <3>9. Docs!StopHolds'
      BY <1>0, <1>i, <1>f, <3>e, <2>c, <2>d, <2>1 DEF Docs!StopHolds
    <3> QED BY <3>1, <3>2, <3>3, <3>4, <3>5, <3>6, <3>7, <3>8, <3>9 DEF Docs!IInv
  <2>2. ASSUME dLife = "running", NEW g \in Docs!Waiting, dRoutine' = Docs!Wake(g),
             UNCHANGED <<dReconnecting, dExhausted>>
        PROVE  Docs!IInv'
    <3>e. /\ dLife = "running" /\ dRoutine[g].at = "captcha" /\ dRoutine[g] # Docs!Off
          /\ \A h \in Docs!Routines \ {g} : dRoutine'[h] = dRoutine[h]
          /\ dRoutine'[g].at = "fetch" /\ dRoutine'[g].of = 0 /\ dRoutine'[g].had = 0
          /\ dRoutine' \in [Docs!Routines -> Docs!Routine]
          /\ UNCHANGED <<dReconnecting, dExhausted>>
      BY <1>i, <1>14, <2>2, <1>0, <1>t, <1>o, <1>q DEF Docs!ApplyCookies, Docs!Waiting, Docs!Wake, Docs!Next1, Docs!Running
    <3>1. Docs!TypeOK'
      BY <1>0, <1>i, <1>f, <3>e, <2>c, <2>d, <2>2 DEF Docs!TypeOK, Docs!Routines
    <3>2. Docs!Numbered'
      BY <1>0, <1>i, <1>f, <3>e, <1>t, <2>c, <2>d, <2>2 DEF Docs!Numbered, Docs!TypeOK, Docs!Routines
    <3>3. Docs!Backoffs'
      BY <1>0, <1>i, <1>f, <3>e, <2>c, <2>d, <2>2 DEF Docs!Backoffs
    <3>4. Docs!OneLive'
      BY <1>0, <1>i, <1>f, <3>e, <2>c, <2>d, <2>2 DEF Docs!OneLive, Docs!Live
    <3>5. Docs!Read'
      BY <1>0, <1>i, <1>f, <3>e, <2>c, <2>d, <2>2 DEF Docs!Read, Docs!TypeOK
    <3>6. Docs!Held'
      BY <1>0, <1>i, <1>f, <3>e, <2>c, <2>d, <2>2 DEF Docs!Held
    <3>7. Docs!Writing'
      BY <1>0, <1>i, <1>f, <3>e, <1>t, <2>c, <2>d, <2>2 DEF Docs!Writing, Docs!TypeOK, Docs!Making
    <3>8. Docs!SomebodyDials'
      BY <1>0, <1>i, <1>f, <3>e, <2>c, <2>d, <2>2 DEF Docs!SomebodyDials, Docs!Running
    <3>9. Docs!StopHolds'
      BY <1>0, <1>i, <1>f, <3>e, <2>c, <2>d, <2>2 DEF Docs!StopHolds
    <3> QED BY <3>1, <3>2, <3>3, <3>4, <3>5, <3>6, <3>7, <3>8, <3>9 DEF Docs!IInv
  <2>3. CASE dLife = "running" /\ Docs!Waiting = {}
    <3>a. 1 \in Nat /\ dApplies + 1 \in Docs!Routines
      BY <1>0, <1>i, <1>14 DEF Docs!TypeOK, Docs!Routines, Docs!ApplyCookies
    <3>b. Docs!Schedule(dApplies + 1, 1)
      BY <1>14, <2>3 DEF Docs!ApplyCookies, Docs!Running
    <3>s. /\ \A h \in Docs!Routines \ {dApplies + 1} : dRoutine'[h] = dRoutine[h]
          /\ dRoutine' \in [Docs!Routines -> Docs!Routine]
          /\ dRoutine'[dApplies + 1].at \in {"off", "backoff"}
          /\ dReconnecting' <=> dReconnecting \/ dRoutine'[dApplies + 1].at = "backoff"
          /\ dRoutine'[dApplies + 1].at = "backoff" => ~dReconnecting /\ dLife = "running"
          /\ dLife = "running" => dExhausted' \/ dReconnecting'
          /\ dExhausted => dExhausted'
      BY <1>i, <3>a, <3>b, DocsSchedules DEF Docs!Running
    <3>e. /\ dLife = "running" /\ dRoutine[dApplies + 1] = Docs!Off
          /\ \A h \in Docs!Routines : dRoutine[h].at # "captcha"
      BY <1>i, <1>14, <2>3, <2>c, <1>0, <1>t, <1>o DEF Docs!ApplyCookies, Docs!Waiting, Docs!Numbered, Docs!Running, Docs!TypeOK
    <3>1. Docs!TypeOK'
      BY <1>0, <1>i, <1>f, <3>e, <3>s, <2>c, <2>d, <2>3 DEF Docs!TypeOK, Docs!Routines
    <3>2. Docs!Numbered'
      BY <1>0, <1>i, <1>f, <3>e, <3>s, <1>t, <2>c, <2>d, <2>3 DEF Docs!Numbered, Docs!TypeOK, Docs!Routines
    <3>3. Docs!Backoffs'
      BY <1>0, <1>i, <1>f, <3>e, <3>s, <1>o, <2>c, <2>d, <2>3 DEF Docs!Backoffs
    <3>4. Docs!OneLive'
      BY <1>0, <1>i, <1>f, <3>e, <3>s, <1>o, <2>c, <2>d, <2>3 DEF Docs!OneLive, Docs!Live, Docs!Backoffs, Docs!Making,
        Docs!TypeOK
    <3>5. Docs!Read'
      BY <1>0, <1>i, <1>f, <3>e, <3>s, <1>o, <2>c, <2>d, <2>3 DEF Docs!Read, Docs!TypeOK
    <3>6. Docs!Held'
      BY <1>0, <1>i, <1>f, <3>e, <3>s, <2>c, <2>d, <2>3 DEF Docs!Held
    <3>7. Docs!Writing'
      BY <1>0, <1>i, <1>f, <3>e, <3>s, <1>t, <2>c, <2>d, <2>3 DEF Docs!Writing, Docs!TypeOK, Docs!Making
    <3>8. Docs!SomebodyDials'
      BY <1>0, <1>i, <1>f, <3>e, <3>s, <1>o, <2>c, <2>d, <2>3 DEF Docs!SomebodyDials, Docs!Backoffs, Docs!Running
    <3>9. Docs!StopHolds'
      BY <1>0, <1>i, <1>f, <3>e, <3>s, <2>c, <2>d, <2>3 DEF Docs!StopHolds
    <3> QED BY <3>1, <3>2, <3>3, <3>4, <3>5, <3>6, <3>7, <3>8, <3>9 DEF Docs!IInv
  <2> QED BY <1>14, <2>1, <2>2, <2>3 DEF Docs!ApplyCookies, Docs!Running
<1> QED BY <1>1, <1>2, <1>3, <1>4, <1>5, <1>6, <1>7, <1>8, <1>9, <1>10, <1>11, <1>12, <1>13, <1>14 DEF Docs!Next,
  Docs!RoutineSteps

-----------------------------------------------------------------------------
\* A cups.online room

\* An instance has its own copy of the operators of the module FiniteSets.
LEMMA CupsCardinality == \A S : Cups!Cardinality(S) = Cardinality(S)
<1>1. \A S : Cups!IsFiniteSet(S) = IsFiniteSet(S)
  BY DEF Cups!IsFiniteSet, IsFiniteSet
<1> QED BY <1>1 DEF Cups!Cardinality, Cardinality

\* The invariant of a Cups room holds before Start.
LEMMA CupsInit == Cups!Init => Cups!IInv
<1>0. Window \in Nat \ {0} /\ DeadAfter \in Nat /\ RoomTurns \in Nat /\ Cups!Cardinality({}) = 0
  BY CarriersAssumption, FS_EmptySet, CupsCardinality
<1> SUFFICES ASSUME Cups!Init
             PROVE  Cups!IInv
  OBVIOUS
<1> USE DEF Cups!Init, Cups!NoCommand
<1>f. Cups!Flags
  BY DEF Cups!Flags
<1>1. Cups!TypeOK
  BY <1>0, <1>f DEF Cups!TypeOK
<1>2. Cups!Channel /\ Cups!Honest /\ Cups!Sends
  BY DEF Cups!Channel, Cups!Honest, Cups!Sends
<1>3. Cups!Counted
  BY <1>0 DEF Cups!Counted, Cups!Ahead
<1>4. Cups!Paced
  BY <1>0 DEF Cups!Paced
<1> QED BY <1>1, <1>2, <1>3, <1>4 DEF Cups!IInv

\* What is a flag of a Cups room stays one.
LEMMA CupsFlags ==
    ASSUME Cups!Flags, Cups!Next
    PROVE  Cups!Flags'
<1> USE DEF Cups!Flags, Cups!envVars, Cups!runVars, Cups!pullVars, Cups!gateVars
<1>1. ASSUME NEW r, Cups!Broken(r)
      PROVE  Cups!Flags'
  <2>1. cNeedJoin' \in BOOLEAN
    BY <1>1 DEF Cups!Broken, Cups!MustJoin
  <2>2. cDead' \in BOOLEAN /\ cConnected' \in BOOLEAN
    BY <1>1 DEF Cups!Broken
  <2> QED BY <2>1, <2>2
<1>2. ASSUME NEW e, NEW o, NEW c, Cups!Start(e, o, c)
      PROVE  Cups!Flags'
  BY <1>2 DEF Cups!Start, Cups!Comes, Cups!Fails
<1>3. ASSUME Cups!Run \/ Cups!Drop
      PROVE  Cups!Flags'
  BY <1>1, <1>3 DEF Cups!Run, Cups!Drop, Cups!RunTop, Cups!Runs, Cups!Join, Cups!Dial, Cups!ResetCount, Cups!ClearIDs,
    Cups!Hello, Cups!Wait
<1>4. ASSUME Cups!Pull
      PROVE  Cups!Flags'
  BY <1>4 DEF Cups!Pull, Cups!PullTop, Cups!Gate, Cups!Take, Cups!Count, Cups!Write, Cups!WriteFails, Cups!PullKeeps
<1> QED BY <1>2, <1>3, <1>4 DEF Cups!Next, Cups!RoomChanges, Cups!Stop, Cups!Answer

\* The commands on a socket are finitely many, and counted one by one.
LEMMA CupsCount ==
    ASSUME Cups!TypeOK
    PROVE  /\ Cups!Cardinality(cAsked) \in Nat /\ Cups!Cardinality({}) = 0
           /\ \A x \in Ids : /\ x \notin cAsked => Cups!Cardinality(cAsked \cup {x}) = Cups!Cardinality(cAsked) + 1
                             /\ x \in cAsked => Cups!Cardinality(cAsked \ {x}) = Cups!Cardinality(cAsked) - 1 /\ Cups!Cardinality(cAsked) > 0
<1>1. IsFiniteSet(cAsked)
  BY CarriersAssumption, FS_Subset DEF Cups!TypeOK
<1>2. \A x \in cAsked : Cardinality(cAsked) > 0
  BY <1>1, FS_CardinalityType, FS_EmptySet
<1> QED BY <1>1, <1>2, CupsCardinality, FS_CardinalityType, FS_EmptySet, FS_AddElement, FS_RemoveElement

\* Whatever happens to a Cups room, its invariant stays.
LEMMA CupsStep ==
    ASSUME Cups!IInv, Cups!Next
    PROVE  Cups!IInv'
<1>0. Window \in Nat \ {0} /\ DeadAfter \in Nat /\ RoomTurns \in Nat
  BY CarriersAssumption
<1>i. /\ Cups!TypeOK /\ Cups!Channel /\ Cups!Honest
      /\ Cups!Sends /\ Cups!Counted /\ Cups!Paced
  BY DEF Cups!IInv
<1>f. Cups!Flags'
  BY <1>i, CupsFlags DEF Cups!TypeOK
<1>c. /\ Cups!Cardinality(cAsked) \in Nat /\ Cups!Cardinality({}) = 0
      /\ \A x \in Ids : /\ x \notin cAsked => Cups!Cardinality(cAsked \cup {x}) = Cups!Cardinality(cAsked) + 1
                        /\ x \in cAsked => Cups!Cardinality(cAsked \ {x}) = Cups!Cardinality(cAsked) - 1 /\ Cups!Cardinality(cAsked) > 0
  BY <1>i, CupsCount
<1> USE DEF Cups!envVars, Cups!runVars, Cups!pullVars, Cups!gateVars
<1>1. CASE Cups!RoomChanges
  <2>1. Cups!TypeOK'
    BY <1>0, <1>i, <1>f, <1>1 DEF Cups!TypeOK, Cups!RoomChanges
  <2>2. Cups!Channel'
    BY <1>0, <1>i, <1>f, <1>1 DEF Cups!Channel, Cups!RoomChanges, Cups!TypeOK, Cups!Honest
  <2>3. Cups!Honest'
    BY <1>0, <1>i, <1>f, <1>1 DEF Cups!Honest, Cups!RoomChanges, Cups!Channel, Cups!TypeOK, Cups!Flags
  <2>4. Cups!Sends'
    BY <1>0, <1>i, <1>f, <1>1 DEF Cups!Sends, Cups!RoomChanges, Cups!TypeOK
  <2>5. Cups!Counted'
    BY <1>0, <1>i, <1>f, <1>1, <1>c DEF Cups!Counted, Cups!RoomChanges, Cups!Ahead, Cups!Strays, Cups!Channel, Cups!TypeOK
  <2>6. Cups!Paced'
    BY <1>0, <1>i, <1>f, <1>1, <1>c DEF Cups!Paced, Cups!RoomChanges, Cups!Channel, Cups!TypeOK, Cups!Counted, Cups!Ahead,
      Cups!Strays
  <2> QED BY <2>1, <2>2, <2>3, <2>4, <2>5, <2>6 DEF Cups!IInv
<1>2. ASSUME NEW e \in {"joined", "gone", "failed"}, NEW o \in {"joined", "gone", "failed"},
             NEW c \in BOOLEAN, Cups!Start(e, o, c)
      PROVE  Cups!IInv'
  <2>1. Cups!TypeOK'
    BY <1>0, <1>i, <1>f, <1>2 DEF Cups!TypeOK, Cups!Start, Cups!Comes, Cups!Fails
  <2>2. Cups!Channel'
    BY <1>0, <1>i, <1>f, <1>2 DEF Cups!Channel, Cups!Start, Cups!Comes, Cups!Fails, Cups!TypeOK, Cups!Honest
  <2>3. Cups!Honest'
    BY <1>0, <1>i, <1>f, <1>2 DEF Cups!Honest, Cups!Start, Cups!Comes, Cups!Fails, Cups!Channel, Cups!TypeOK, Cups!Flags
  <2>4. Cups!Sends'
    BY <1>0, <1>i, <1>f, <1>2 DEF Cups!Sends, Cups!Start, Cups!Comes, Cups!Fails, Cups!TypeOK
  <2>5. Cups!Counted'
    BY <1>0, <1>i, <1>f, <1>2, <1>c DEF Cups!Counted, Cups!Start, Cups!Comes, Cups!Fails, Cups!Ahead, Cups!Strays, Cups!Channel,
      Cups!TypeOK
  <2>6. Cups!Paced'
    BY <1>0, <1>i, <1>f, <1>2, <1>c DEF Cups!Paced, Cups!Start, Cups!Comes, Cups!Fails, Cups!Channel, Cups!TypeOK, Cups!Counted,
      Cups!Ahead, Cups!Strays
  <2> QED BY <2>1, <2>2, <2>3, <2>4, <2>5, <2>6 DEF Cups!IInv
<1>3. CASE Cups!Stop
  <2>1. Cups!TypeOK'
    BY <1>0, <1>i, <1>f, <1>3 DEF Cups!TypeOK, Cups!Stop
  <2>2. Cups!Channel'
    BY <1>0, <1>i, <1>f, <1>3 DEF Cups!Channel, Cups!Stop, Cups!TypeOK, Cups!Honest
  <2>3. Cups!Honest'
    BY <1>0, <1>i, <1>f, <1>3 DEF Cups!Honest, Cups!Stop, Cups!Channel, Cups!TypeOK, Cups!Flags
  <2>4. Cups!Sends'
    BY <1>0, <1>i, <1>f, <1>3 DEF Cups!Sends, Cups!Stop, Cups!TypeOK
  <2>5. Cups!Counted'
    BY <1>0, <1>i, <1>f, <1>3, <1>c DEF Cups!Counted, Cups!Stop, Cups!Ahead, Cups!Strays, Cups!Channel, Cups!TypeOK
  <2>6. Cups!Paced'
    BY <1>0, <1>i, <1>f, <1>3, <1>c DEF Cups!Paced, Cups!Stop, Cups!Channel, Cups!TypeOK, Cups!Counted, Cups!Ahead, Cups!Strays
  <2> QED BY <2>1, <2>2, <2>3, <2>4, <2>5, <2>6 DEF Cups!IInv
<1>4. CASE Cups!RunTop
  <2>1. Cups!TypeOK'
    BY <1>0, <1>i, <1>f, <1>4 DEF Cups!TypeOK, Cups!RunTop, Cups!Runs
  <2>2. Cups!Channel'
    BY <1>0, <1>i, <1>f, <1>4 DEF Cups!Channel, Cups!RunTop, Cups!Runs, Cups!TypeOK, Cups!Honest
  <2>3. Cups!Honest'
    BY <1>0, <1>i, <1>f, <1>4 DEF Cups!Honest, Cups!RunTop, Cups!Runs, Cups!Channel, Cups!TypeOK, Cups!Flags
  <2>4. Cups!Sends'
    BY <1>0, <1>i, <1>f, <1>4 DEF Cups!Sends, Cups!RunTop, Cups!Runs, Cups!TypeOK
  <2>5. Cups!Counted'
    BY <1>0, <1>i, <1>f, <1>4, <1>c DEF Cups!Counted, Cups!RunTop, Cups!Runs, Cups!Ahead, Cups!Strays, Cups!Channel, Cups!TypeOK
  <2>6. Cups!Paced'
    BY <1>0, <1>i, <1>f, <1>4, <1>c DEF Cups!Paced, Cups!RunTop, Cups!Runs, Cups!Channel, Cups!TypeOK, Cups!Counted, Cups!Ahead,
      Cups!Strays
  <2> QED BY <2>1, <2>2, <2>3, <2>4, <2>5, <2>6 DEF Cups!IInv
<1>5. CASE Cups!Join
  <2>1. Cups!TypeOK'
    BY <1>0, <1>i, <1>f, <1>5 DEF Cups!TypeOK, Cups!Join, Cups!Runs
  <2>2. Cups!Channel'
    BY <1>0, <1>i, <1>f, <1>5 DEF Cups!Channel, Cups!Join, Cups!Runs, Cups!TypeOK, Cups!Honest
  <2>3. Cups!Honest'
    BY <1>0, <1>i, <1>f, <1>5 DEF Cups!Honest, Cups!Join, Cups!Runs, Cups!Channel, Cups!TypeOK, Cups!Flags
  <2>4. Cups!Sends'
    BY <1>0, <1>i, <1>f, <1>5 DEF Cups!Sends, Cups!Join, Cups!Runs, Cups!TypeOK
  <2>5. Cups!Counted'
    BY <1>0, <1>i, <1>f, <1>5, <1>c DEF Cups!Counted, Cups!Join, Cups!Runs, Cups!Ahead, Cups!Strays, Cups!Channel, Cups!TypeOK
  <2>6. Cups!Paced'
    BY <1>0, <1>i, <1>f, <1>5, <1>c DEF Cups!Paced, Cups!Join, Cups!Runs, Cups!Channel, Cups!TypeOK, Cups!Counted, Cups!Ahead,
      Cups!Strays
  <2> QED BY <2>1, <2>2, <2>3, <2>4, <2>5, <2>6 DEF Cups!IInv
<1>b. ASSUME NEW r \in BOOLEAN, Cups!Broken(r), cRun \in {"dial", "hello", "serve"},
             UNCHANGED <<cCtx, cList, Cups!envVars, Cups!pullVars, cInflight, cDataIDs>>
      PROVE  Cups!IInv'
  <2>1. Cups!TypeOK'
    BY <1>0, <1>i, <1>f, <1>b DEF Cups!TypeOK, Cups!Broken, Cups!Another
  <2>2. Cups!Channel'
    BY <1>0, <1>i, <1>f, <1>b DEF Cups!Channel, Cups!Broken, Cups!Another, Cups!TypeOK, Cups!Honest
  <2>3. Cups!Honest'
    BY <1>0, <1>i, <1>f, <1>b DEF Cups!Honest, Cups!Broken, Cups!Another, Cups!Channel, Cups!TypeOK, Cups!Flags
  <2>4. Cups!Sends'
    BY <1>0, <1>i, <1>f, <1>b DEF Cups!Sends, Cups!Broken, Cups!Another, Cups!TypeOK
  <2>5. Cups!Counted'
    BY <1>0, <1>i, <1>f, <1>b, <1>c DEF Cups!Counted, Cups!Broken, Cups!Another, Cups!Ahead, Cups!Strays, Cups!Channel,
      Cups!TypeOK
  <2>6. Cups!Paced'
    <3>1. Cups!Cardinality(cAsked') \in Nat /\ Cups!Cardinality(cAsked') <= Window + 1
      BY <1>0, <1>i, <1>c, <1>b DEF Cups!Paced, Cups!TypeOK, Cups!Broken
    <3> QED BY <3>1, <2>1, <2>2, <2>5 DEF Cups!Paced, Cups!TypeOK, Cups!Channel, Cups!Counted, Cups!Ahead
  <2> QED BY <2>1, <2>2, <2>3, <2>4, <2>5, <2>6 DEF Cups!IInv
<1>6. CASE Cups!ResetCount
  <2>1. Cups!TypeOK'
    BY <1>0, <1>i, <1>f, <1>6 DEF Cups!TypeOK, Cups!ResetCount, Cups!Runs, Cups!Zero
  <2>2. Cups!Channel'
    BY <1>0, <1>i, <1>f, <1>6 DEF Cups!Channel, Cups!ResetCount, Cups!Runs, Cups!Zero, Cups!TypeOK, Cups!Honest
  <2>3. Cups!Honest'
    BY <1>0, <1>i, <1>f, <1>6 DEF Cups!Honest, Cups!ResetCount, Cups!Runs, Cups!Zero, Cups!Channel, Cups!TypeOK, Cups!Flags
  <2>4. Cups!Sends'
    BY <1>0, <1>i, <1>f, <1>6 DEF Cups!Sends, Cups!ResetCount, Cups!Runs, Cups!Zero, Cups!TypeOK
  <2>5. Cups!Counted'
    <3>1. cRun' = "clear" /\ cInflight' = 0 /\ cAsked' = {} /\ UNCHANGED cPull
      BY <1>i, <1>6 DEF Cups!ResetCount, Cups!Runs, Cups!Zero, Cups!Channel
    <3>2. Cups!Cardinality(cAsked') = 0
      BY <3>1, <1>c
    <3> QED BY <3>1, <3>2 DEF Cups!Counted, Cups!Ahead
  <2>6. Cups!Paced'
    BY <1>0, <1>i, <1>f, <1>6, <1>c DEF Cups!Paced, Cups!ResetCount, Cups!Runs, Cups!Zero, Cups!Channel, Cups!TypeOK,
      Cups!Counted, Cups!Ahead, Cups!Strays
  <2> QED BY <2>1, <2>2, <2>3, <2>4, <2>5, <2>6 DEF Cups!IInv
<1>7. CASE Cups!ClearIDs
  <2>1. Cups!TypeOK'
    BY <1>0, <1>i, <1>f, <1>7 DEF Cups!TypeOK, Cups!ClearIDs, Cups!Runs
  <2>2. Cups!Channel'
    BY <1>0, <1>i, <1>f, <1>7 DEF Cups!Channel, Cups!ClearIDs, Cups!Runs, Cups!TypeOK, Cups!Honest
  <2>3. Cups!Honest'
    BY <1>0, <1>i, <1>f, <1>7 DEF Cups!Honest, Cups!ClearIDs, Cups!Runs, Cups!Channel, Cups!TypeOK, Cups!Flags
  <2>4. Cups!Sends'
    BY <1>0, <1>i, <1>f, <1>7 DEF Cups!Sends, Cups!ClearIDs, Cups!Runs, Cups!TypeOK
  <2>5. Cups!Counted'
    BY <1>0, <1>i, <1>f, <1>7, <1>c DEF Cups!Counted, Cups!ClearIDs, Cups!Runs, Cups!Ahead, Cups!Strays, Cups!Channel,
      Cups!TypeOK
  <2>6. Cups!Paced'
    BY <1>0, <1>i, <1>f, <1>7, <1>c DEF Cups!Paced, Cups!ClearIDs, Cups!Runs, Cups!Channel, Cups!TypeOK, Cups!Counted,
      Cups!Ahead, Cups!Strays
  <2> QED BY <2>1, <2>2, <2>3, <2>4, <2>5, <2>6 DEF Cups!IInv
<1>d. CASE Cups!Dial
  <2>1. CASE cSock' = "fresh" /\ cRun' = "reset" /\ UNCHANGED <<cConnected, cFails, cDead, cNeedJoin, cAsked>>
    <3>1. Cups!TypeOK'
      BY <1>0, <1>i, <1>f, <1>d, <2>1 DEF Cups!TypeOK, Cups!Dial
    <3>2. Cups!Channel'
      BY <1>0, <1>i, <1>f, <1>d, <2>1 DEF Cups!Channel, Cups!Dial, Cups!TypeOK, Cups!Honest
    <3>3. Cups!Honest'
      BY <1>0, <1>i, <1>f, <1>d, <2>1 DEF Cups!Honest, Cups!Dial, Cups!Channel, Cups!TypeOK, Cups!Flags
    <3>4. Cups!Sends'
      BY <1>0, <1>i, <1>f, <1>d, <2>1 DEF Cups!Sends, Cups!Dial, Cups!TypeOK
    <3>5. Cups!Counted'
      BY <1>0, <1>i, <1>f, <1>d, <2>1, <1>c DEF Cups!Counted, Cups!Dial, Cups!Ahead, Cups!Strays, Cups!Channel, Cups!TypeOK
    <3>6. Cups!Paced'
      BY <1>0, <1>i, <1>f, <1>d, <2>1, <1>c DEF Cups!Paced, Cups!Dial, Cups!Channel, Cups!TypeOK, Cups!Counted, Cups!Ahead,
        Cups!Strays
    <3> QED BY <3>1, <3>2, <3>3, <3>4, <3>5, <3>6 DEF Cups!IInv
  <2>2. CASE Cups!Broken(FALSE)
    BY <1>b, <1>d, <2>2 DEF Cups!Dial
  <2> QED BY <1>d, <2>1, <2>2 DEF Cups!Dial
<1>h. CASE Cups!Hello
  <2>1. CASE /\ cSock = "fresh" /\ cSock' = "ready" /\ cConnected' = TRUE /\ cDead' = FALSE /\ cRun' = "serve"
             /\ UNCHANGED <<cFails, cNeedJoin, cAsked>>
    <3>1. Cups!TypeOK'
      BY <1>0, <1>i, <1>f, <1>h, <2>1 DEF Cups!TypeOK, Cups!Hello
    <3>2. Cups!Channel'
      BY <1>0, <1>i, <1>f, <1>h, <2>1 DEF Cups!Channel, Cups!Hello, Cups!TypeOK, Cups!Honest
    <3>3. Cups!Honest'
      BY <1>0, <1>i, <1>f, <1>h, <2>1 DEF Cups!Honest, Cups!Hello, Cups!Channel, Cups!TypeOK, Cups!Flags
    <3>4. Cups!Sends'
      BY <1>0, <1>i, <1>f, <1>h, <2>1 DEF Cups!Sends, Cups!Hello, Cups!TypeOK
    <3>5. Cups!Counted'
      BY <1>0, <1>i, <1>f, <1>h, <2>1, <1>c DEF Cups!Counted, Cups!Hello, Cups!Ahead, Cups!Strays, Cups!Channel, Cups!TypeOK
    <3>6. Cups!Paced'
      <4>1. Cups!Cardinality(cAsked') \in Nat /\ Cups!Cardinality(cAsked') <= Window + 1
        BY <1>0, <1>i, <1>c, <1>h, <2>1 DEF Cups!Paced, Cups!TypeOK, Cups!Hello
      <4> QED BY <4>1, <3>1, <3>2, <3>5 DEF Cups!Paced, Cups!TypeOK, Cups!Channel, Cups!Counted, Cups!Ahead
    <3> QED BY <3>1, <3>2, <3>3, <3>4, <3>5, <3>6 DEF Cups!IInv
  <2>2. CASE Cups!Broken(FALSE) \/ Cups!Broken(TRUE)
    BY <1>b, <1>h, <2>2 DEF Cups!Hello
  <2> QED BY <1>h, <2>1, <2>2 DEF Cups!Hello
<1>p. CASE Cups!Drop
  BY <1>b, <1>p DEF Cups!Drop
<1>8. CASE Cups!Wait
  <2>1. Cups!TypeOK'
    BY <1>0, <1>i, <1>f, <1>8 DEF Cups!TypeOK, Cups!Wait, Cups!Runs
  <2>2. Cups!Channel'
    BY <1>0, <1>i, <1>f, <1>8 DEF Cups!Channel, Cups!Wait, Cups!Runs, Cups!TypeOK, Cups!Honest
  <2>3. Cups!Honest'
    BY <1>0, <1>i, <1>f, <1>8 DEF Cups!Honest, Cups!Wait, Cups!Runs, Cups!Channel, Cups!TypeOK, Cups!Flags
  <2>4. Cups!Sends'
    BY <1>0, <1>i, <1>f, <1>8 DEF Cups!Sends, Cups!Wait, Cups!Runs, Cups!TypeOK
  <2>5. Cups!Counted'
    BY <1>0, <1>i, <1>f, <1>8, <1>c DEF Cups!Counted, Cups!Wait, Cups!Runs, Cups!Ahead, Cups!Strays, Cups!Channel, Cups!TypeOK
  <2>6. Cups!Paced'
    BY <1>0, <1>i, <1>f, <1>8, <1>c DEF Cups!Paced, Cups!Wait, Cups!Runs, Cups!Channel, Cups!TypeOK, Cups!Counted, Cups!Ahead,
      Cups!Strays
  <2> QED BY <2>1, <2>2, <2>3, <2>4, <2>5, <2>6 DEF Cups!IInv
<1>9. ASSUME NEW id \in Ids, Cups!Answer(id)
      PROVE  Cups!IInv'
  <2>a. /\ cRun = "serve" /\ cRun' = "serve" /\ UNCHANGED <<cPull, cMine>>
        /\ id \in cAsked /\ cAsked' = cAsked \ {id} /\ cDataIDs' = cDataIDs \ {id}
        /\ Cups!Cardinality(cAsked) \in Nat \ {0} /\ Cups!Cardinality(cAsked') = Cups!Cardinality(cAsked) - 1
        /\ cInflight \in Int
        /\ cInflight' = IF id \in cDataIDs /\ cInflight > 0 THEN cInflight - 1
                        ELSE IF id \in cDataIDs THEN 0 ELSE cInflight
        /\ cPull \in {"count", "send"} => cMine # id
    BY <1>i, <1>c, <1>9 DEF Cups!Answer, Cups!TypeOK, Cups!Sends
  <2>1. Cups!TypeOK'
    BY <1>0, <1>i, <1>f, <1>9 DEF Cups!TypeOK, Cups!Answer
  <2>2. Cups!Channel'
    BY <1>0, <1>i, <1>f, <1>9 DEF Cups!Channel, Cups!Answer, Cups!TypeOK, Cups!Honest
  <2>3. Cups!Honest'
    BY <1>0, <1>i, <1>f, <1>9 DEF Cups!Honest, Cups!Answer, Cups!Channel, Cups!TypeOK, Cups!Flags
  <2>4. Cups!Sends'
    BY <1>0, <1>i, <1>f, <1>9, <1>c DEF Cups!Sends, Cups!Answer, Cups!TypeOK
  <2>5. Cups!Counted'
    <3>1. CASE id \in cDataIDs
      <4>1. Cups!Strays' = Cups!Strays
        BY <2>a, <3>1 DEF Cups!Strays
      <4>3. Cups!Ahead \in -1..1
        BY <1>i, <2>a DEF Cups!Counted
      <4>2. Cups!Ahead' = Cups!Ahead \/ (Cups!Ahead = -1 /\ Cups!Ahead' = 0)
        <5>1. CASE cInflight > 0
          BY <2>a, <3>1, <5>1 DEF Cups!Ahead
        <5>2. CASE cInflight <= 0
          BY <2>a, <3>1, <4>3, <5>2 DEF Cups!Ahead
        <5> QED BY <2>a, <5>1, <5>2
      <4> QED BY <1>i, <2>a, <3>1, <4>1, <4>2 DEF Cups!Counted
    <3>2. CASE id \notin cDataIDs
      <4>1. Cups!Strays = {id} /\ Cups!Strays' = {}
        BY <1>i, <2>a, <3>2 DEF Cups!Strays, Cups!Counted
      <4>2. Cups!Ahead' = Cups!Ahead + 1
        BY <1>i, <2>a, <3>2 DEF Cups!Ahead
      <4>3. Cups!Ahead \in -1..0
        BY <1>i, <2>a, <4>1 DEF Cups!Counted
      <4> QED BY <1>i, <2>a, <3>2, <4>1, <4>2, <4>3 DEF Cups!Counted
    <3> QED BY <3>1, <3>2
  <2>6. Cups!Paced'
    <3>1. Cups!Cardinality(cAsked) <= Window + 1
      BY <1>i DEF Cups!Paced
    <3>2. Cups!Cardinality(cAsked') \in Int /\ Cups!Cardinality(cAsked') <= Window + 1
      BY <1>0, <2>a, <3>1
    <3> QED BY <3>2, <2>1, <2>2, <2>5 DEF Cups!Paced, Cups!TypeOK, Cups!Channel, Cups!Counted, Cups!Ahead
  <2> QED BY <2>1, <2>2, <2>3, <2>4, <2>5, <2>6 DEF Cups!IInv
<1>10. CASE Cups!PullTop
  <2>1. Cups!TypeOK'
    BY <1>0, <1>i, <1>f, <1>10 DEF Cups!TypeOK, Cups!PullTop, Cups!Pulls, Cups!PullKeeps
  <2>2. Cups!Channel'
    BY <1>0, <1>i, <1>f, <1>10 DEF Cups!Channel, Cups!PullTop, Cups!Pulls, Cups!PullKeeps, Cups!TypeOK, Cups!Honest
  <2>3. Cups!Honest'
    BY <1>0, <1>i, <1>f, <1>10 DEF Cups!Honest, Cups!PullTop, Cups!Pulls, Cups!PullKeeps, Cups!Channel, Cups!TypeOK, Cups!Flags
  <2>4. Cups!Sends'
    BY <1>0, <1>i, <1>f, <1>10 DEF Cups!Sends, Cups!PullTop, Cups!Pulls, Cups!PullKeeps, Cups!TypeOK
  <2>5. Cups!Counted'
    BY <1>0, <1>i, <1>f, <1>10, <1>c DEF Cups!Counted, Cups!PullTop, Cups!Pulls, Cups!PullKeeps, Cups!Ahead, Cups!Strays,
      Cups!Channel, Cups!TypeOK
  <2>6. Cups!Paced'
    BY <1>0, <1>i, <1>f, <1>10, <1>c DEF Cups!Paced, Cups!PullTop, Cups!Pulls, Cups!PullKeeps, Cups!Channel, Cups!TypeOK,
      Cups!Counted, Cups!Ahead, Cups!Strays
  <2> QED BY <2>1, <2>2, <2>3, <2>4, <2>5, <2>6 DEF Cups!IInv
<1>11. CASE Cups!Gate
  <2>1. Cups!TypeOK'
    BY <1>0, <1>i, <1>f, <1>11 DEF Cups!TypeOK, Cups!Gate, Cups!Open, Cups!Pulls, Cups!PullKeeps
  <2>2. Cups!Channel'
    BY <1>0, <1>i, <1>f, <1>11 DEF Cups!Channel, Cups!Gate, Cups!Open, Cups!Pulls, Cups!PullKeeps, Cups!TypeOK, Cups!Honest
  <2>3. Cups!Honest'
    BY <1>0, <1>i, <1>f, <1>11 DEF Cups!Honest, Cups!Gate, Cups!Open, Cups!Pulls, Cups!PullKeeps, Cups!Channel, Cups!TypeOK,
      Cups!Flags
  <2>4. Cups!Sends'
    BY <1>0, <1>i, <1>f, <1>11 DEF Cups!Sends, Cups!Gate, Cups!Open, Cups!Pulls, Cups!PullKeeps, Cups!TypeOK
  <2>5. Cups!Counted'
    BY <1>0, <1>i, <1>f, <1>11, <1>c DEF Cups!Counted, Cups!Gate, Cups!Open, Cups!Pulls, Cups!PullKeeps, Cups!Ahead,
      Cups!Strays, Cups!Channel, Cups!TypeOK
  <2>6. Cups!Paced'
    BY <1>0, <1>i, <1>f, <1>11, <1>c DEF Cups!Paced, Cups!Gate, Cups!Open, Cups!Pulls, Cups!PullKeeps, Cups!Channel,
      Cups!TypeOK, Cups!Counted, Cups!Ahead, Cups!Strays
  <2> QED BY <2>1, <2>2, <2>3, <2>4, <2>5, <2>6 DEF Cups!IInv
<1>12. CASE Cups!Take
  <2>1. Cups!TypeOK'
    BY <1>0, <1>i, <1>f, <1>12 DEF Cups!TypeOK, Cups!Take, Cups!Pulls, Cups!PullKeeps
  <2>2. Cups!Channel'
    BY <1>0, <1>i, <1>f, <1>12 DEF Cups!Channel, Cups!Take, Cups!Pulls, Cups!PullKeeps, Cups!TypeOK, Cups!Honest
  <2>3. Cups!Honest'
    BY <1>0, <1>i, <1>f, <1>12 DEF Cups!Honest, Cups!Take, Cups!Pulls, Cups!PullKeeps, Cups!Channel, Cups!TypeOK, Cups!Flags
  <2>4. Cups!Sends'
    BY <1>0, <1>i, <1>f, <1>12 DEF Cups!Sends, Cups!Take, Cups!Pulls, Cups!PullKeeps, Cups!TypeOK
  <2>5. Cups!Counted'
    BY <1>0, <1>i, <1>f, <1>12, <1>c DEF Cups!Counted, Cups!Take, Cups!Pulls, Cups!PullKeeps, Cups!Ahead, Cups!Strays,
      Cups!Channel, Cups!TypeOK
  <2>6. Cups!Paced'
    <3>1. Cups!Cardinality(cAsked') \in Nat /\ Cups!Cardinality(cAsked') <= Window + 1
      BY <1>0, <1>i, <1>c, <1>12 DEF Cups!Paced, Cups!TypeOK, Cups!Take, Cups!Pulls, Cups!PullKeeps
    <3> QED BY <3>1, <2>1, <2>2, <2>5 DEF Cups!Paced, Cups!TypeOK, Cups!Channel, Cups!Counted, Cups!Ahead
  <2> QED BY <2>1, <2>2, <2>3, <2>4, <2>5, <2>6 DEF Cups!IInv
<1>13. CASE Cups!Count
  <2>a. /\ cPull = "count" /\ cPull' = "send" /\ cInflight' = cInflight + 1
        /\ cInflight \in Int /\ Cups!Cardinality(cAsked) \in Nat
        /\ UNCHANGED <<cRun, cMine, cAsked, cDataIDs>>
    BY <1>i, <1>c, <1>13 DEF Cups!Count, Cups!Pulls, Cups!PullKeeps, Cups!TypeOK
  <2>1. Cups!TypeOK'
    BY <1>0, <1>i, <1>f, <1>13 DEF Cups!TypeOK, Cups!Count, Cups!Pulls, Cups!PullKeeps
  <2>2. Cups!Channel'
    BY <1>0, <1>i, <1>f, <1>13 DEF Cups!Channel, Cups!Count, Cups!Pulls, Cups!PullKeeps, Cups!TypeOK, Cups!Honest
  <2>3. Cups!Honest'
    BY <1>0, <1>i, <1>f, <1>13 DEF Cups!Honest, Cups!Count, Cups!Pulls, Cups!PullKeeps, Cups!Channel, Cups!TypeOK, Cups!Flags
  <2>4. Cups!Sends'
    BY <1>0, <1>i, <1>f, <1>13 DEF Cups!Sends, Cups!Count, Cups!Pulls, Cups!PullKeeps, Cups!TypeOK
  <2>5. Cups!Counted'
    <3>1. Cups!Strays' = Cups!Strays
      BY <2>a DEF Cups!Strays
    <3>2. Cups!Ahead' = Cups!Ahead
      BY <2>a DEF Cups!Ahead
    <3> QED BY <1>i, <2>a, <3>1, <3>2 DEF Cups!Counted
  <2>6. Cups!Paced'
    BY <1>0, <1>i, <1>f, <1>13, <1>c DEF Cups!Paced, Cups!Count, Cups!Pulls, Cups!PullKeeps, Cups!Channel, Cups!TypeOK,
      Cups!Counted, Cups!Ahead, Cups!Strays
  <2> QED BY <2>1, <2>2, <2>3, <2>4, <2>5, <2>6 DEF Cups!IInv
<1>14. CASE Cups!Write
  <2>b. cMine \in Ids \ cAsked /\ cPull = "send"
    BY <1>i, <1>14 DEF Cups!Write, Cups!Pulls, Cups!Sends
  <2>c. cInflight \in Int /\ Cups!Cardinality(cAsked) \in Nat /\ Cups!Cardinality(cAsked \cup {cMine}) = Cups!Cardinality(cAsked) + 1
    <3>1. cInflight \in Int
      BY <1>i DEF Cups!TypeOK
    <3> QED BY <3>1, <1>c, <2>b
  <2>a. /\ cPull = "send" /\ cPull' = "top" /\ cSock \in {"fresh", "ready"} /\ cMine \in Ids \ cAsked
        /\ cInflight \in Int /\ Cups!Cardinality(cAsked) \in Nat
        /\ cAsked' = (IF cSock = "ready" THEN cAsked \cup {cMine} ELSE cAsked)
        /\ cSock = "ready" => Cups!Cardinality(cAsked') = Cups!Cardinality(cAsked) + 1
        /\ UNCHANGED <<cRun, cDataIDs, cInflight, cConnected, cSock>>
    BY <2>b, <2>c, <1>14 DEF Cups!Write, Cups!Pulls, Cups!PullKeeps
  <2>1. Cups!TypeOK'
    BY <1>0, <1>i, <1>f, <1>14, <2>a DEF Cups!TypeOK, Cups!Write, Cups!NoCommand, Cups!Pulls, Cups!PullKeeps
  <2>2. Cups!Channel'
    BY <1>0, <1>i, <1>f, <1>14 DEF Cups!Channel, Cups!Write, Cups!NoCommand, Cups!Pulls, Cups!PullKeeps, Cups!TypeOK,
      Cups!Honest
  <2>3. Cups!Honest'
    BY <1>0, <1>i, <1>f, <1>14 DEF Cups!Honest, Cups!Write, Cups!NoCommand, Cups!Pulls, Cups!PullKeeps, Cups!Channel,
      Cups!TypeOK, Cups!Flags
  <2>4. Cups!Sends'
    BY <1>0, <1>i, <1>f, <1>14 DEF Cups!Sends, Cups!Write, Cups!NoCommand, Cups!Pulls, Cups!PullKeeps, Cups!TypeOK
  <2>5. Cups!Counted'
    <3>1. CASE cSock = "ready"
      <4>1. cRun = "serve" /\ Cups!Ahead' = Cups!Ahead
        <5>1. cRun = "serve"
          BY <1>i, <3>1 DEF Cups!Channel, Cups!TypeOK
        <5> QED BY <2>a, <3>1, <5>1 DEF Cups!Ahead
      <4>2. CASE cMine \in cDataIDs
        <5>1. Cups!Strays' = Cups!Strays
          BY <2>a, <3>1, <4>2 DEF Cups!Strays
        <5> QED BY <1>i, <2>a, <4>1, <5>1 DEF Cups!Counted
      <4>3. CASE cMine \notin cDataIDs
        <5>1. Cups!Strays = {} /\ Cups!Ahead <= 0
          BY <1>i, <2>a, <4>1, <4>3 DEF Cups!Counted
        <5>2. Cups!Strays' = {cMine}
          BY <2>a, <3>1, <4>3, <5>1 DEF Cups!Strays
        <5> QED BY <1>i, <2>a, <4>1, <5>1, <5>2 DEF Cups!Counted
      <4> QED BY <4>2, <4>3
    <3>2. CASE cSock # "ready"
      <4>1. cRun # "serve" /\ Cups!Ahead' = Cups!Ahead + 1
        BY <1>i, <2>a, <3>2 DEF Cups!Channel, Cups!Ahead
      <4> QED BY <1>i, <2>a, <4>1 DEF Cups!Counted
    <3> QED BY <3>1, <3>2
  <2>6. Cups!Paced'
    <3>1. CASE cSock = "ready"
      <4>1. cRun = "serve" /\ Cups!Cardinality(cAsked) <= cInflight
        <5>1. cRun = "serve"
          BY <1>i, <3>1 DEF Cups!Channel, Cups!TypeOK
        <5>2. Cups!Ahead >= -1
          BY <1>i, <5>1 DEF Cups!Counted
        <5> QED BY <2>a, <5>1, <5>2 DEF Cups!Ahead
      <4>2. Cups!Cardinality(cAsked') <= Window + 1
        BY <1>0, <1>i, <2>a, <3>1, <4>1 DEF Cups!Sends
      <4> QED BY <2>a, <3>1, <4>2, <2>2, <2>5 DEF Cups!Paced, Cups!Channel, Cups!Counted, Cups!Ahead
    <3>2. CASE cSock # "ready"
      BY <1>i, <2>a, <3>2, <2>2, <2>5 DEF Cups!Paced, Cups!Channel, Cups!Counted, Cups!Ahead
    <3> QED BY <3>1, <3>2
  <2> QED BY <2>1, <2>2, <2>3, <2>4, <2>5, <2>6 DEF Cups!IInv
<1>15. CASE Cups!WriteFails
  <2>a. /\ cPull = "send" /\ cPull' = "top" /\ cMine \notin cAsked /\ cDataIDs' = cDataIDs \ {cMine}
        /\ cInflight \in Int /\ Cups!Cardinality(cAsked) \in Nat /\ cInflight' = cInflight - 1
        /\ UNCHANGED <<cRun, cAsked>>
    BY <1>i, <1>c, <1>15 DEF Cups!WriteFails, Cups!GiveBack, Cups!Pulls, Cups!PullKeeps, Cups!TypeOK, Cups!Sends
  <2>1. Cups!TypeOK'
    BY <1>0, <1>i, <1>f, <1>15 DEF Cups!TypeOK, Cups!WriteFails, Cups!NoCommand, Cups!GiveBack, Cups!Pulls, Cups!PullKeeps
  <2>2. Cups!Channel'
    BY <1>0, <1>i, <1>f, <1>15 DEF Cups!Channel, Cups!WriteFails, Cups!NoCommand, Cups!GiveBack, Cups!Pulls, Cups!PullKeeps,
      Cups!TypeOK, Cups!Honest
  <2>3. Cups!Honest'
    BY <1>0, <1>i, <1>f, <1>15 DEF Cups!Honest, Cups!WriteFails, Cups!NoCommand, Cups!GiveBack, Cups!Pulls, Cups!PullKeeps,
      Cups!Channel, Cups!TypeOK, Cups!Flags
  <2>4. Cups!Sends'
    BY <1>0, <1>i, <1>f, <1>15 DEF Cups!Sends, Cups!WriteFails, Cups!NoCommand, Cups!GiveBack, Cups!Pulls, Cups!PullKeeps,
      Cups!TypeOK
  <2>5. Cups!Counted'
    <3>1. Cups!Strays' = Cups!Strays
      BY <2>a DEF Cups!Strays
    <3>2. Cups!Ahead' = Cups!Ahead
      BY <2>a DEF Cups!Ahead
    <3> QED BY <1>i, <2>a, <3>1, <3>2 DEF Cups!Counted
  <2>6. Cups!Paced'
    <3>1. Cups!Cardinality(cAsked') \in Nat /\ Cups!Cardinality(cAsked') <= Window + 1
      BY <1>0, <1>i, <1>c, <1>15 DEF Cups!Paced, Cups!TypeOK, Cups!WriteFails, Cups!Pulls, Cups!PullKeeps
    <3> QED BY <3>1, <2>1, <2>2, <2>5 DEF Cups!Paced, Cups!TypeOK, Cups!Channel, Cups!Counted, Cups!Ahead
  <2> QED BY <2>1, <2>2, <2>3, <2>4, <2>5, <2>6 DEF Cups!IInv
<1> QED BY <1>1, <1>2, <1>3, <1>4, <1>5, <1>6, <1>7, <1>8, <1>9, <1>10, <1>11, <1>12, <1>13, <1>14, <1>15, <1>d, <1>h, <1>p DEF
  Cups!Next, Cups!Run, Cups!Pull

-----------------------------------------------------------------------------
\* A Mail.ru document

\* The invariant of a Mail.ru carrier holds before Start.
LEMMA MailruInit == Mailru!Init => Mailru!IInv
<1>0. MailruAttempts \in Nat \ {0} /\ MailruRoutines \in Nat \ {0}
  BY CarriersAssumption
<1> SUFFICES ASSUME Mailru!Init
             PROVE  Mailru!IInv
  OBVIOUS
<1> USE DEF Mailru!Init, Mailru!Off, Mailru!Task
<1>f. Mailru!Flags
  BY DEF Mailru!Flags
<1>1. Mailru!TypeOK
  BY <1>0, <1>f, CarriersAssumption DEF Mailru!TypeOK, Mailru!Routine
<1>2. Mailru!Numbered /\ Mailru!Dials /\ Mailru!OneWay
  BY DEF Mailru!Numbered, Mailru!Dials, Mailru!OneWay, Mailru!Works, Mailru!Running, Mailru!Reading
<1>3. Mailru!Turning
  BY DEF Mailru!Turning
<1> QED BY <1>1, <1>2, <1>3 DEF Mailru!IInv

\* What is a flag of a Mail.ru carrier stays one.
LEMMA MailruFlags ==
    ASSUME Mailru!Flags, Mailru!Next
    PROVE  Mailru!Flags'
<1> USE DEF Mailru!Flags, Mailru!lifeVars, Mailru!sessionVars, Mailru!rotationVars
<1>1. ASSUME NEW g, NEW a, Mailru!Schedule(g, a)
      PROVE  mReconnecting' \in BOOLEAN /\ mExhausted' \in BOOLEAN /\ mCrossed' \in BOOLEAN
  BY <1>1 DEF Mailru!Schedule
<1>2. ASSUME NEW g, Mailru!RoutineSteps(g)
      PROVE  Mailru!Flags'
  <2>1. CASE Mailru!DialFails(g)
    BY <2>1, <1>1 DEF Mailru!DialFails
  <2> QED BY <1>2, <2>1 DEF Mailru!RoutineSteps, Mailru!BackoffEnds, Mailru!Dial, Mailru!Install, Mailru!Installs
<1>3. ASSUME NEW g, NEW lasted, Mailru!Drop(g, lasted)
      PROVE  Mailru!Flags'
  BY <1>1, <1>3 DEF Mailru!Drop
<1>4. CASE Mailru!ApplyCookies
  <2>1. mCrossed' \in BOOLEAN
    BY <1>4 DEF Mailru!ApplyCookies
  <2> QED BY <1>4, <2>1 DEF Mailru!ApplyCookies
<1>5. CASE Mailru!RotationSteps
  BY <1>5 DEF Mailru!RotationSteps, Mailru!RotationDials, Mailru!RotationFails, Mailru!RotationAwaits, Mailru!RotationStops,
    Mailru!Deactivate, Mailru!RotationInstalls, Mailru!Installs, Mailru!Retire
<1> QED BY <1>2, <1>3, <1>4, <1>5 DEF Mailru!Next, Mailru!Start, Mailru!Stop, Mailru!ReadEnds, Mailru!rotationLoop,
  Mailru!WriterRotates

\* What scheduleReconnect does: its goroutine waits or ends, and if it ends
\* while the carrier runs, another one waits or the attempts are used up.
LEMMA MailruSchedules ==
    ASSUME Mailru!TypeOK, NEW g \in Mailru!Routines, NEW a \in Nat, Mailru!Schedule(g, a)
    PROVE  /\ mRoutine' \in [Mailru!Routines -> Mailru!Routine]
           /\ \A h \in Mailru!Routines \ {g} : mRoutine'[h] = mRoutine[h]
           /\ mRoutine'[g].at \in {"off", "backoff"} /\ mRoutine'[g].of = 0
           /\ mReconnecting' <=> mReconnecting \/ mRoutine'[g].at = "backoff"
           /\ mRoutine'[g].at = "backoff" => Mailru!Running
           /\ Mailru!Running => mExhausted' \/ mReconnecting'
           /\ mExhausted => mExhausted'
           /\ mCrossed' <=> mCrossed \/ (mRoutine'[g].at = "backoff" /\ mRotation # "off")
<1> DEFINE r == IF Mailru!MayWait(a) THEN Mailru!Task("backoff", 0, a) ELSE Mailru!Off
<1>0. MailruAttempts \in Nat \ {0} /\ MailruSessions \in Nat
  BY CarriersAssumption
<1>1. mRoutine' = [mRoutine EXCEPT ![g] = r] /\ mRoutine \in [Mailru!Routines -> Mailru!Routine]
  BY DEF Mailru!Schedule, Mailru!TypeOK
<1>2. r \in Mailru!Routine
  <2>1. Mailru!Off \in Mailru!Routine
    BY <1>0 DEF Mailru!Off, Mailru!Task, Mailru!Routine
  <2>2. Mailru!MayWait(a) => Mailru!Task("backoff", 0, a) \in Mailru!Routine
    BY <1>0 DEF Mailru!Task, Mailru!Routine, Mailru!MayWait
  <2> QED BY <2>1, <2>2
<1>3. mRoutine'[g] = r /\ \A h \in Mailru!Routines \ {g} : mRoutine'[h] = mRoutine[h]
  BY <1>1
<1>4. /\ r.at \in {"off", "backoff"} /\ r.of = 0
      /\ r.at = "backoff" <=> Mailru!MayWait(a)
  BY DEF Mailru!Off, Mailru!Task
<1>5. /\ mReconnecting' <=> mReconnecting \/ Mailru!MayWait(a)
      /\ mExhausted' <=> mExhausted \/ (Mailru!Running /\ a >= MailruAttempts)
      /\ mCrossed' <=> mCrossed \/ (Mailru!MayWait(a) /\ mRotation # "off")
  BY DEF Mailru!Schedule
<1>6. Mailru!MayWait(a) <=> Mailru!Running /\ a < MailruAttempts /\ ~mReconnecting
  BY DEF Mailru!MayWait
<1>7. mRoutine' \in [Mailru!Routines -> Mailru!Routine]
  BY <1>1, <1>2
<1> HIDE DEF r
<1> QED BY <1>0, <1>3, <1>4, <1>5, <1>6, <1>7

\* Whatever happens to a Mail.ru carrier, its invariant stays.
LEMMA MailruStep ==
    ASSUME Mailru!IInv, Mailru!Next
    PROVE  Mailru!IInv'
<1>0. /\ MailruAttempts \in Nat \ {0} /\ MailruRoutines \in Nat \ {0} /\ MailruSessions \in Nat
      /\ MailruApplies \in Nat /\ (MailruAttempts > 1 \/ MailruApplies = 0)
  BY CarriersAssumption
<1>i. Mailru!TypeOK /\ Mailru!Numbered /\ Mailru!Dials /\ Mailru!OneWay /\ Mailru!Turning
  BY DEF Mailru!IInv
<1>f. Mailru!Flags'
  BY <1>i, MailruFlags DEF Mailru!TypeOK
<1>t. /\ mRoutine \in [Mailru!Routines -> Mailru!Routine]
      /\ \A g \in Mailru!Routines : /\ mRoutine[g].at \in {"off", "dial", "backoff", "install", "read"}
                                    /\ mRoutine[g].of \in 0..MailruSessions
                                    /\ mRoutine[g].attempt \in 0..MailruAttempts
  BY <1>i DEF Mailru!TypeOK, Mailru!Routine
<1>o. /\ Mailru!Off \in Mailru!Routine /\ Mailru!Off.at = "off" /\ Mailru!Off.of = 0
      /\ 0 \in 0..MailruAttempts
      /\ \A at, of, a : Mailru!Task(at, of, a).at = at /\ Mailru!Task(at, of, a).of = of
      /\ \A at \in {"off", "dial", "backoff", "install", "read"}, of \in 0..MailruSessions, a \in 0..MailruAttempts :
            Mailru!Task(at, of, a) \in Mailru!Routine
  BY <1>0 DEF Mailru!Off, Mailru!Task, Mailru!Routine
<1>l. \A g \in Mailru!Routines : mRoutine[g].at # "off" => mLife # "new"
  BY <1>i, <1>o DEF Mailru!Numbered
<1>s. Mailru!FreeSessions # {} =>
        /\ Mailru!First(Mailru!FreeSessions) \in Mailru!Sessions
        /\ Mailru!First(Mailru!FreeSessions) \notin mOpen
        /\ Mailru!First(Mailru!FreeSessions) \notin {mSession, mOld, mNext}
        /\ \A g \in Mailru!Routines : mRoutine[g].of # Mailru!First(Mailru!FreeSessions)
  BY DEF Mailru!First, Mailru!FreeSessions, Mailru!InUse
<1>r. Mailru!FreeRoutines # {} =>
        /\ Mailru!First(Mailru!FreeRoutines) \in Mailru!Routines
        /\ mRoutine[Mailru!First(Mailru!FreeRoutines)] = Mailru!Off
  BY DEF Mailru!First, Mailru!FreeRoutines
<1> USE DEF Mailru!lifeVars, Mailru!sessionVars, Mailru!rotationVars, Mailru!Running
<1>1. CASE Mailru!Start
  <2>e. /\ mLife = "new" /\ mLife' = "running" /\ 1 \in Mailru!Routines
        /\ mRoutine' \in [Mailru!Routines -> Mailru!Routine]
        /\ \A h \in Mailru!Routines \ {1} : mRoutine'[h] = mRoutine[h]
        /\ mRoutine'[1].at = "dial" /\ mRoutine'[1].of = 0
        /\ \A h \in Mailru!Routines : mRoutine[h].at = "off" /\ mRoutine[h].of = 0
        /\ UNCHANGED <<mConnected, mApplies, mExhausted, mCrossed, mSession, mOpen, mActive, mRetired, mReconnecting, mRotation, mOld, mNext>>
    BY <1>i, <1>1, <1>0, <1>t, <1>o DEF Mailru!Start, Mailru!Numbered, Mailru!Routines
  <2>1. Mailru!TypeOK'
    BY <1>0, <1>i, <1>f, <1>t, <2>e DEF Mailru!TypeOK, Mailru!Sessions
  <2>2. Mailru!Numbered'
    BY <1>0, <1>i, <1>f, <1>t, <2>e, <1>o, <1>l DEF Mailru!Numbered
  <2>3. Mailru!Dials'
    BY <1>0, <1>i, <1>f, <1>t, <2>e DEF Mailru!Dials, Mailru!Works
  <2>4. Mailru!OneWay'
    BY <1>0, <1>i, <1>f, <1>t, <2>e DEF Mailru!OneWay, Mailru!Numbered, Mailru!TypeOK, Mailru!Sessions, Mailru!Works,
      Mailru!Reading
  <2>5. Mailru!Turning'
    BY <1>0, <1>i, <1>f, <1>t, <2>e DEF Mailru!Turning, Mailru!Reading
  <2> QED BY <2>1, <2>2, <2>3, <2>4, <2>5 DEF Mailru!IInv
<1>2. CASE Mailru!Stop
  <2>e. /\ mLife = "running" /\ mLife' = "stopped"
        /\ mConnected' = FALSE
        /\ UNCHANGED <<mApplies, mExhausted, mCrossed, mSession, mOpen, mActive, mRetired, mRoutine, mReconnecting, mRotation, mOld, mNext>>
    BY <1>i, <1>2 DEF Mailru!Stop
  <2>1. Mailru!TypeOK'
    BY <1>0, <1>i, <1>f, <1>t, <2>e DEF Mailru!TypeOK, Mailru!Sessions
  <2>2. Mailru!Numbered'
    BY <1>0, <1>i, <1>f, <1>t, <2>e, <1>o, <1>l DEF Mailru!Numbered
  <2>3. Mailru!Dials'
    BY <1>0, <1>i, <1>f, <1>t, <2>e DEF Mailru!Dials, Mailru!Works
  <2>4. Mailru!OneWay'
    BY <1>0, <1>i, <1>f, <1>t, <2>e DEF Mailru!OneWay, Mailru!Works, Mailru!Reading
  <2>5. Mailru!Turning'
    BY <1>0, <1>i, <1>f, <1>t, <2>e DEF Mailru!Turning, Mailru!Reading
  <2> QED BY <2>1, <2>2, <2>3, <2>4, <2>5 DEF Mailru!IInv
<1>3. CASE Mailru!ApplyCookies
  <2> DEFINE g == Mailru!First(Mailru!FreeRoutines)
  <2>a. /\ g \in Mailru!Routines /\ mRoutine[g] = Mailru!Off
        /\ mRoutine' = [mRoutine EXCEPT ![g] = IF Mailru!MayWait(1) THEN Mailru!Task("backoff", 0, 1) ELSE Mailru!Off]
    BY <1>r, <1>3 DEF Mailru!ApplyCookies
  <2>b. 1 \in 0..MailruAttempts /\ (MailruAttempts > 1 \/ ~(mApplies < MailruApplies))
    BY <1>0, <1>i DEF Mailru!TypeOK
  <2> HIDE DEF g
  <2>e. /\ mLife = "running" /\ mApplies < MailruApplies /\ g \in Mailru!Routines
        /\ mRoutine[g].at = "off" /\ mRoutine[g].of = 0
        /\ mRoutine' \in [Mailru!Routines -> Mailru!Routine]
        /\ \A h \in Mailru!Routines \ {g} : mRoutine'[h] = mRoutine[h]
        /\ mRoutine'[g].at \in {"off", "backoff"} /\ mRoutine'[g].of = 0
        /\ mRoutine'[g].at = "off" => mReconnecting
        /\ mApplies' = mApplies + 1 /\ mSession' = 0 /\ mConnected' = FALSE
        /\ mOpen' = mOpen \ {mSession}
        /\ mReconnecting' = TRUE
        /\ UNCHANGED <<mLife, mExhausted, mActive, mRetired, mRotation, mOld, mNext>>
    BY <1>i, <1>3, <2>a, <2>b, <1>0, <1>t, <1>o, <1>r DEF Mailru!ApplyCookies, Mailru!MayWait
  <2>d. ~mCrossed' => /\ ~mCrossed /\ mRotation = "off"
                      /\ \A h \in Mailru!Routines : ~Mailru!Works(h)
    BY <1>3 DEF Mailru!ApplyCookies, Mailru!Making, Mailru!Works
  <2>1. Mailru!TypeOK'
    BY <1>0, <1>i, <1>f, <1>t, <2>e DEF Mailru!TypeOK, Mailru!Sessions
  <2>2. Mailru!Numbered'
    BY <1>0, <1>i, <1>f, <1>t, <2>e, <1>o, <1>l DEF Mailru!Numbered
  <2>3. Mailru!Dials'
    BY <1>0, <1>i, <1>f, <1>t, <2>e DEF Mailru!Dials, Mailru!Works
  <2>4. Mailru!OneWay'
    <3> SUFFICES ASSUME ~mCrossed'
                 PROVE  /\ \A h, k \in Mailru!Routines : Mailru!Works(h)' /\ Mailru!Works(k)' => h = k
                        /\ (\E h \in Mailru!Routines : Mailru!Works(h)') =>
                              mRotation' = "off" /\ ~mConnected' /\ mSession' \notin mOpen' /\ ~Mailru!Reading(mSession)'
      BY DEF Mailru!OneWay
    <3>1. ASSUME NEW h \in Mailru!Routines \ {g}
          PROVE  ~Mailru!Works(h)'
      BY <2>e, <2>d, <3>1 DEF Mailru!Works
    <3>2. mRotation' = "off" /\ ~mConnected' /\ mSession' \notin mOpen'
      <4>1. 0 \notin mOpen
        BY <1>i DEF Mailru!TypeOK, Mailru!Sessions
      <4> QED BY <2>e, <2>d, <4>1
    <3>3. ~Mailru!Reading(mSession)'
      <4>1. \A h \in Mailru!Routines : ~(mRoutine[h].at = "read" /\ mRoutine[h].of = 0)
        BY <1>i, <1>t DEF Mailru!Numbered
      <4>2. \A h \in Mailru!Routines : ~(mRoutine'[h].at = "read" /\ mRoutine'[h].of = mSession')
        BY <2>e, <4>1
      <4> QED BY <4>2 DEF Mailru!Reading
    <3> QED BY <3>1, <3>2, <3>3
  <2>5. Mailru!Turning'
    BY <1>0, <1>i, <1>f, <1>t, <2>e, <2>d DEF Mailru!Turning, Mailru!Numbered, Mailru!TypeOK, Mailru!Sessions, Mailru!Reading
  <2> QED BY <2>1, <2>2, <2>3, <2>4, <2>5 DEF Mailru!IInv
<1>4. ASSUME NEW g \in Mailru!Routines, Mailru!BackoffEnds(g)
      PROVE  Mailru!IInv'
  <2>a. (IF mLife = "running" THEN Mailru!Task("dial", 0, mRoutine[g].attempt) ELSE Mailru!Off) \in Mailru!Routine
    BY <1>0, <1>t, <1>o
  <2>e. /\ mRoutine[g].at = "backoff" /\ mReconnecting' = FALSE
        /\ mRoutine' \in [Mailru!Routines -> Mailru!Routine]
        /\ \A h \in Mailru!Routines \ {g} : mRoutine'[h] = mRoutine[h]
        /\ mRoutine'[g].at = (IF mLife = "running" THEN "dial" ELSE "off")
        /\ mRoutine'[g].of = 0
        /\ UNCHANGED <<mLife, mConnected, mApplies, mExhausted, mCrossed, mSession, mOpen, mActive, mRetired, mRotation, mOld, mNext>>
    BY <1>i, <1>4, <2>a, <1>0, <1>t, <1>o DEF Mailru!BackoffEnds, Mailru!Goes
  <2>1. Mailru!TypeOK'
    BY <1>0, <1>i, <1>f, <1>t, <2>e DEF Mailru!TypeOK, Mailru!Sessions
  <2>2. Mailru!Numbered'
    <3>1. \A h \in Mailru!Routines : mRoutine'[h].of # 0 <=> mRoutine'[h].at \in {"install", "read"}
      BY <1>i, <1>t, <2>e DEF Mailru!Numbered
    <3>2. \A h, k \in Mailru!Routines : mRoutine'[h].of # 0 /\ mRoutine'[h].of = mRoutine'[k].of => h = k
      BY <1>i, <1>t, <2>e DEF Mailru!Numbered
    <3>3. mLife' # "new"
      BY <1>l, <2>e
    <3> QED BY <1>i, <3>1, <3>2, <3>3, <2>e DEF Mailru!Numbered
  <2>3. Mailru!Dials'
    BY <1>0, <1>i, <1>f, <1>t, <2>e DEF Mailru!Dials, Mailru!Works
  <2>4. Mailru!OneWay'
    BY <1>0, <1>i, <1>f, <1>t, <2>e DEF Mailru!OneWay, Mailru!Works, Mailru!Reading
  <2>5. Mailru!Turning'
    BY <1>0, <1>i, <1>f, <1>t, <2>e DEF Mailru!Turning, Mailru!Reading
  <2> QED BY <2>1, <2>2, <2>3, <2>4, <2>5 DEF Mailru!IInv
<1>5. ASSUME NEW g \in Mailru!Routines, Mailru!Dial(g)
      PROVE  Mailru!IInv'
  <2> DEFINE s == Mailru!First(Mailru!FreeSessions)
  <2>a. /\ s \in Mailru!Sessions /\ s \in 0..MailruSessions /\ s \notin mOpen /\ s \notin {mSession, mOld, mNext}
        /\ \A h \in Mailru!Routines : mRoutine[h].of # s
    BY <1>0, <1>s, <1>5 DEF Mailru!Dial, Mailru!Sessions
  <2>b. /\ mRoutine' = [mRoutine EXCEPT ![g] = Mailru!Task("install", s, mRoutine[g].attempt)]
        /\ mOpen' = mOpen \cup {s} /\ mActive' = mActive \ {s} /\ mRetired' = mRetired \ {s}
    BY <1>5 DEF Mailru!Dial, Mailru!Goes, Mailru!Opens
  <2> HIDE DEF s
  <2>c. Mailru!Task("install", s, mRoutine[g].attempt) \in Mailru!Routine
    BY <2>a, <1>t, <1>o
  <2>e. /\ mRoutine[g].at = "dial"
        /\ mRoutine' \in [Mailru!Routines -> Mailru!Routine]
        /\ \A h \in Mailru!Routines \ {g} : mRoutine'[h] = mRoutine[h]
        /\ mRoutine'[g].at = "install" /\ mRoutine'[g].of = s
        /\ s \in Mailru!Sessions /\ s \notin mOpen /\ s \notin {mSession, mOld, mNext}
        /\ \A h \in Mailru!Routines : mRoutine[h].of # s
        /\ mOpen' = mOpen \cup {s} /\ mActive' = mActive \ {s} /\ mRetired' = mRetired \ {s}
        /\ UNCHANGED <<mLife, mConnected, mApplies, mExhausted, mCrossed, mSession, mReconnecting, mRotation, mOld, mNext>>
    BY <1>i, <1>5, <2>a, <2>b, <2>c, <1>0, <1>t, <1>o DEF Mailru!Dial, Mailru!Goes
  <2>1. Mailru!TypeOK'
    BY <1>0, <1>i, <1>f, <1>t, <2>e DEF Mailru!TypeOK, Mailru!Sessions
  <2>2. Mailru!Numbered'
    <3>1. \A h \in Mailru!Routines : mRoutine'[h].of # 0 <=> mRoutine'[h].at \in {"install", "read"}
      BY <1>i, <1>t, <2>e, <2>a DEF Mailru!Numbered
    <3>2. \A h, k \in Mailru!Routines : mRoutine'[h].of # 0 /\ mRoutine'[h].of = mRoutine'[k].of => h = k
      BY <1>i, <1>t, <2>e, <2>a DEF Mailru!Numbered
    <3>3. mLife' # "new"
      BY <1>l, <2>e, <2>a
    <3> QED BY <1>i, <3>1, <3>2, <3>3, <2>e, <2>a DEF Mailru!Numbered
  <2>3. Mailru!Dials'
    BY <1>0, <1>i, <1>f, <1>t, <2>e DEF Mailru!Dials, Mailru!Works
  <2>4. Mailru!OneWay'
    BY <1>0, <1>i, <1>f, <1>t, <2>e DEF Mailru!OneWay, Mailru!Works, Mailru!Reading
  <2>5. Mailru!Turning'
    BY <1>0, <1>i, <1>f, <1>t, <2>e DEF Mailru!Turning, Mailru!Reading
  <2> QED BY <2>1, <2>2, <2>3, <2>4, <2>5 DEF Mailru!IInv
<1>6. ASSUME NEW g \in Mailru!Routines, Mailru!DialFails(g)
      PROVE  Mailru!IInv'
  <2>a. mRoutine[g].attempt + 1 \in Nat
    BY <1>0, <1>t
  <2>s. /\ mRoutine' \in [Mailru!Routines -> Mailru!Routine]
        /\ \A h \in Mailru!Routines \ {g} : mRoutine'[h] = mRoutine[h]
        /\ mRoutine'[g].at \in {"off", "backoff"} /\ mRoutine'[g].of = 0
        /\ mReconnecting' <=> mReconnecting \/ mRoutine'[g].at = "backoff"
        /\ mRoutine'[g].at = "backoff" => mLife = "running"
        /\ mLife = "running" => mExhausted' \/ mReconnecting'
        /\ mExhausted => mExhausted'
        /\ mCrossed' <=> mCrossed \/ (mRoutine'[g].at = "backoff" /\ mRotation # "off")
    BY <1>i, <2>a, <1>6, MailruSchedules DEF Mailru!DialFails
  <2>e. /\ mRoutine[g].at = "dial"
        /\ UNCHANGED <<mLife, mConnected, mApplies, mSession, mOpen, mActive, mRetired, mRotation, mOld, mNext>>
    BY <1>i, <1>6 DEF Mailru!DialFails
  <2>1. Mailru!TypeOK'
    BY <1>0, <1>i, <1>f, <1>t, <2>e, <2>s DEF Mailru!TypeOK, Mailru!Sessions
  <2>2. Mailru!Numbered'
    <3>1. \A h \in Mailru!Routines : mRoutine'[h].of # 0 <=> mRoutine'[h].at \in {"install", "read"}
      BY <1>i, <1>t, <2>e, <2>s DEF Mailru!Numbered
    <3>2. \A h, k \in Mailru!Routines : mRoutine'[h].of # 0 /\ mRoutine'[h].of = mRoutine'[k].of => h = k
      BY <1>i, <1>t, <2>e, <2>s DEF Mailru!Numbered
    <3>3. mLife' # "new"
      BY <1>l, <2>e, <2>s
    <3> QED BY <1>i, <3>1, <3>2, <3>3, <2>e, <2>s DEF Mailru!Numbered
  <2>3. Mailru!Dials'
    BY <1>0, <1>i, <1>f, <1>t, <2>e, <2>s DEF Mailru!Dials, Mailru!Works
  <2>4. Mailru!OneWay'
    BY <1>0, <1>i, <1>f, <1>t, <2>e, <2>s DEF Mailru!OneWay, Mailru!Works, Mailru!Reading
  <2>5. Mailru!Turning'
    BY <1>0, <1>i, <1>f, <1>t, <2>e, <2>s DEF Mailru!Turning, Mailru!Reading
  <2> QED BY <2>1, <2>2, <2>3, <2>4, <2>5 DEF Mailru!IInv
<1>7. ASSUME NEW g \in Mailru!Routines, Mailru!Install(g)
      PROVE  Mailru!IInv'
  <2>a. mRoutine[g].at = "install" /\ mRoutine[g].of # 0 /\ mRoutine[g].of \in Mailru!Sessions
    BY <1>0, <1>i, <1>t, <1>7 DEF Mailru!Install, Mailru!Goes, Mailru!Numbered, Mailru!Sessions
  <2>b. Mailru!Task("read", mRoutine[g].of, mRoutine[g].attempt) \in Mailru!Routine
    BY <1>t, <1>o
  <2>e. /\ mRoutine[g].at = "install" /\ mRoutine[g].of # 0 /\ mRoutine[g].of \in Mailru!Sessions
        /\ mRoutine' \in [Mailru!Routines -> Mailru!Routine]
        /\ \A h \in Mailru!Routines \ {g} : mRoutine'[h] = mRoutine[h]
        /\ mRoutine'[g].at = "read" /\ mRoutine'[g].of = mRoutine[g].of
        /\ mActive' = mActive \cup {mRoutine[g].of} /\ mSession' = mRoutine[g].of /\ mConnected' = TRUE
        /\ UNCHANGED <<mLife, mApplies, mExhausted, mCrossed, mOpen, mRetired, mReconnecting, mRotation, mOld, mNext>>
    BY <1>i, <1>7, <2>a, <2>b, <1>0, <1>t, <1>o DEF Mailru!Install, Mailru!Installs, Mailru!Goes
  <2>c. ~mCrossed => /\ mRotation = "off" /\ mOld = 0 /\ mNext = 0
                     /\ mActive \cap mOpen = {}
                     /\ mLife = "running" => \A s \in mOpen : ~Mailru!Reading(s)
    BY <1>i, <2>a DEF Mailru!OneWay, Mailru!Turning, Mailru!Works, Mailru!Numbered, Mailru!TypeOK, Mailru!Sessions
  <2>1. Mailru!TypeOK'
    BY <1>0, <1>i, <1>f, <1>t, <2>e DEF Mailru!TypeOK, Mailru!Sessions
  <2>2. Mailru!Numbered'
    BY <1>0, <1>i, <1>f, <1>t, <2>e, <1>o, <1>l DEF Mailru!Numbered
  <2>3. Mailru!Dials'
    BY <1>0, <1>i, <1>f, <1>t, <2>e DEF Mailru!Dials, Mailru!Works
  <2>4. Mailru!OneWay'
    BY <1>0, <1>i, <1>f, <1>t, <2>e DEF Mailru!OneWay, Mailru!Works, Mailru!Reading
  <2>5. Mailru!Turning'
    <3>1. ~mCrossed => (mActive \cup {mRoutine[g].of}) \cap mOpen \subseteq {mRoutine[g].of}
      BY <2>c
    <3>2. ~mCrossed /\ mLife = "running" => \A s \in mOpen : Mailru!Reading(s)' => s = mRoutine[g].of
      BY <2>c, <2>e DEF Mailru!Reading
    <3> QED BY <2>c, <2>e, <3>1, <3>2 DEF Mailru!Turning, Mailru!Reading
  <2> QED BY <2>1, <2>2, <2>3, <2>4, <2>5 DEF Mailru!IInv
<1>8. ASSUME NEW g \in Mailru!Routines, NEW lasted \in BOOLEAN, Mailru!Drop(g, lasted)
      PROVE  Mailru!IInv'
  <2> DEFINE s == mRoutine[g].of
  <2>a. /\ mRoutine[g].at = "read" /\ s # 0 /\ s \in 0..MailruSessions
        /\ mOpen' = mOpen \ {s} /\ mActive' = mActive \ {s} /\ mRetired' = mRetired \ {s}
        /\ UNCHANGED <<mLife, mApplies, mSession, mRotation, mOld, mNext>>
    BY <1>i, <1>t, <1>8 DEF Mailru!Drop, Mailru!Numbered
  <2> HIDE DEF s
  <2>1. CASE s \in mRetired \/ mSession # s
    <3>e. /\ mRoutine' \in [Mailru!Routines -> Mailru!Routine]
          /\ \A h \in Mailru!Routines \ {g} : mRoutine'[h] = mRoutine[h]
          /\ mRoutine'[g].at = "off" /\ mRoutine'[g].of = 0
          /\ UNCHANGED <<mConnected, mExhausted, mCrossed, mReconnecting>>
      BY <1>i, <2>1, <1>8, <1>t, <1>o DEF Mailru!Drop, Mailru!StillActive, s
    <3>1. Mailru!TypeOK'
      BY <1>0, <1>i, <1>f, <1>t, <3>e, <2>a DEF Mailru!TypeOK, Mailru!Sessions
    <3>2. Mailru!Numbered'
      <4>1. \A h \in Mailru!Routines : mRoutine'[h].of # 0 <=> mRoutine'[h].at \in {"install", "read"}
        BY <1>i, <1>t, <2>a, <3>e DEF Mailru!Numbered
      <4>2. \A h, k \in Mailru!Routines : mRoutine'[h].of # 0 /\ mRoutine'[h].of = mRoutine'[k].of => h = k
        BY <1>i, <1>t, <2>a, <3>e DEF Mailru!Numbered
      <4>3. mLife' # "new"
        BY <1>l, <2>a, <3>e
      <4> QED BY <1>i, <4>1, <4>2, <4>3, <2>a, <3>e DEF Mailru!Numbered
    <3>3. Mailru!Dials'
      BY <1>0, <1>i, <1>f, <1>t, <3>e, <2>a DEF Mailru!Dials, Mailru!Works
    <3>4. Mailru!OneWay'
      BY <1>0, <1>i, <1>f, <1>t, <3>e, <2>a DEF Mailru!OneWay, Mailru!Works, Mailru!Reading
    <3>5. Mailru!Turning'
      BY <1>0, <1>i, <1>f, <1>t, <3>e, <2>a DEF Mailru!Turning, Mailru!Reading
    <3> QED BY <3>1, <3>2, <3>3, <3>4, <3>5 DEF Mailru!IInv
  <2>2. CASE ~(s \in mRetired \/ mSession # s)
    <3>a. (IF lasted THEN 0 ELSE mRoutine[g].attempt + 1) \in Nat
      BY <1>0, <1>t
    <3>b. Mailru!Schedule(g, IF lasted THEN 0 ELSE mRoutine[g].attempt + 1)
      BY <1>8, <2>2 DEF Mailru!Drop, Mailru!StillActive, s
    <3>s. /\ mRoutine' \in [Mailru!Routines -> Mailru!Routine]
          /\ \A h \in Mailru!Routines \ {g} : mRoutine'[h] = mRoutine[h]
          /\ mRoutine'[g].at \in {"off", "backoff"} /\ mRoutine'[g].of = 0
          /\ mReconnecting' <=> mReconnecting \/ mRoutine'[g].at = "backoff"
          /\ mRoutine'[g].at = "backoff" => mLife = "running"
          /\ mLife = "running" => mExhausted' \/ mReconnecting'
          /\ mExhausted => mExhausted'
          /\ mCrossed' <=> mCrossed \/ (mRoutine'[g].at = "backoff" /\ mRotation # "off")
      BY <1>i, <3>a, <3>b, MailruSchedules
    <3>e. /\ mConnected' = FALSE /\ mSession = s /\ mRoutine[g].of = mSession /\ mRoutine[g].at = "read"
      BY <1>i, <2>2, <1>8, <2>a DEF Mailru!Drop, Mailru!StillActive, s
    <3>1. Mailru!TypeOK'
      BY <1>0, <1>i, <1>f, <1>t, <3>e, <2>a, <3>s DEF Mailru!TypeOK, Mailru!Sessions
    <3>2. Mailru!Numbered'
      <4>1. \A h \in Mailru!Routines : mRoutine'[h].of # 0 <=> mRoutine'[h].at \in {"install", "read"}
        BY <1>i, <1>t, <2>a, <3>e, <3>s DEF Mailru!Numbered
      <4>2. \A h, k \in Mailru!Routines : mRoutine'[h].of # 0 /\ mRoutine'[h].of = mRoutine'[k].of => h = k
        BY <1>i, <1>t, <2>a, <3>e, <3>s DEF Mailru!Numbered
      <4>3. mLife' # "new"
        BY <1>l, <2>a, <3>e, <3>s
      <4> QED BY <1>i, <4>1, <4>2, <4>3, <2>a, <3>e, <3>s DEF Mailru!Numbered
    <3>3. Mailru!Dials'
      BY <1>0, <1>i, <1>f, <1>t, <3>e, <2>a, <3>s DEF Mailru!Dials, Mailru!Works
    <3>4. Mailru!OneWay'
      BY <1>0, <1>i, <1>f, <1>t, <3>e, <2>a, <3>s DEF Mailru!OneWay, Mailru!Numbered, Mailru!Works, Mailru!Reading
    <3>5. Mailru!Turning'
      BY <1>0, <1>i, <1>f, <1>t, <3>e, <2>a, <3>s DEF Mailru!Turning, Mailru!Reading
    <3> QED BY <3>1, <3>2, <3>3, <3>4, <3>5 DEF Mailru!IInv
  <2> QED BY <2>1, <2>2
<1>9. ASSUME NEW g \in Mailru!Routines, Mailru!ReadEnds(g)
      PROVE  Mailru!IInv'
  <2>e. /\ mLife # "running" /\ mRoutine[g].at = "read"
        /\ mRoutine' \in [Mailru!Routines -> Mailru!Routine]
        /\ \A h \in Mailru!Routines \ {g} : mRoutine'[h] = mRoutine[h]
        /\ mRoutine'[g].at = "off" /\ mRoutine'[g].of = 0 /\ mRoutine'[g] = Mailru!Off
        /\ UNCHANGED <<mLife, mConnected, mApplies, mExhausted, mCrossed, mReconnecting, mSession, mOpen, mActive, mRetired, mRotation, mOld, mNext>>
    BY <1>i, <1>9, <1>t, <1>o DEF Mailru!ReadEnds, Mailru!Goes
  <2>1. Mailru!TypeOK'
    BY <1>0, <1>i, <1>f, <1>t, <2>e DEF Mailru!TypeOK, Mailru!Sessions
  <2>2. Mailru!Numbered'
    BY <1>0, <1>i, <1>f, <1>t, <2>e, <1>o, <1>l DEF Mailru!Numbered
  <2>3. Mailru!Dials'
    BY <1>0, <1>i, <1>f, <1>t, <2>e DEF Mailru!Dials, Mailru!Works
  <2>4. Mailru!OneWay'
    BY <1>0, <1>i, <1>f, <1>t, <2>e DEF Mailru!OneWay, Mailru!Works, Mailru!Reading
  <2>5. Mailru!Turning'
    BY <1>0, <1>i, <1>f, <1>t, <2>e DEF Mailru!Turning, Mailru!Reading
  <2> QED BY <2>1, <2>2, <2>3, <2>4, <2>5 DEF Mailru!IInv
<1>10. CASE Mailru!rotationLoop
  <2>e. /\ mLife = "running" /\ mConnected /\ mSession # 0
        /\ mRotation = "off" /\ mRotation' = "dial"
        /\ mOld' = mSession
        /\ UNCHANGED <<mLife, mConnected, mApplies, mExhausted, mCrossed, mSession, mOpen, mActive, mRetired, mRoutine, mReconnecting, mNext>>
    BY <1>i, <1>10 DEF Mailru!rotationLoop, Mailru!Rotates
  <2>1. Mailru!TypeOK'
    BY <1>0, <1>i, <1>f, <1>t, <2>e DEF Mailru!TypeOK, Mailru!Sessions
  <2>2. Mailru!Numbered'
    BY <1>0, <1>i, <1>f, <1>t, <2>e, <1>o, <1>l DEF Mailru!Numbered
  <2>3. Mailru!Dials'
    BY <1>0, <1>i, <1>f, <1>t, <2>e DEF Mailru!Dials, Mailru!Works
  <2>4. Mailru!OneWay'
    BY <1>0, <1>i, <1>f, <1>t, <2>e DEF Mailru!OneWay, Mailru!Works, Mailru!Reading
  <2>5. Mailru!Turning'
    BY <1>0, <1>i, <1>f, <1>t, <2>e DEF Mailru!Turning, Mailru!Numbered, Mailru!Reading
  <2> QED BY <2>1, <2>2, <2>3, <2>4, <2>5 DEF Mailru!IInv
<1>11. CASE Mailru!WriterRotates
  <2>e. /\ mLife = "running" /\ mSession \in mOpen /\ mSession # 0
        /\ mRotation = "off" /\ mRotation' = "dial"
        /\ mOld' = mSession
        /\ UNCHANGED <<mLife, mConnected, mApplies, mExhausted, mCrossed, mSession, mOpen, mActive, mRetired, mRoutine, mReconnecting, mNext>>
    BY <1>i, <1>11 DEF Mailru!WriterRotates, Mailru!Rotates, Mailru!TypeOK, Mailru!Sessions
  <2>1. Mailru!TypeOK'
    BY <1>0, <1>i, <1>f, <1>t, <2>e DEF Mailru!TypeOK, Mailru!Sessions
  <2>2. Mailru!Numbered'
    BY <1>0, <1>i, <1>f, <1>t, <2>e, <1>o, <1>l DEF Mailru!Numbered
  <2>3. Mailru!Dials'
    BY <1>0, <1>i, <1>f, <1>t, <2>e DEF Mailru!Dials, Mailru!Works
  <2>4. Mailru!OneWay'
    BY <1>0, <1>i, <1>f, <1>t, <2>e DEF Mailru!OneWay, Mailru!Works, Mailru!Reading
  <2>5. Mailru!Turning'
    BY <1>0, <1>i, <1>f, <1>t, <2>e DEF Mailru!Turning, Mailru!Numbered, Mailru!Reading
  <2> QED BY <2>1, <2>2, <2>3, <2>4, <2>5 DEF Mailru!IInv
<1>12. CASE Mailru!RotationDials
  <2> DEFINE s == Mailru!First(Mailru!FreeSessions)
             g == Mailru!First(Mailru!FreeRoutines)
  <2>a. /\ s \in Mailru!Sessions /\ s # 0 /\ s \in 0..MailruSessions /\ s \notin mOpen /\ s \notin {mSession, mOld, mNext}
        /\ \A h \in Mailru!Routines : mRoutine[h].of # s
    BY <1>0, <1>s, <1>12 DEF Mailru!RotationDials, Mailru!Sessions
  <2>b. g \in Mailru!Routines /\ mRoutine[g] = Mailru!Off
    BY <1>r, <1>12 DEF Mailru!RotationDials
  <2>c. mRoutine' = [mRoutine EXCEPT ![g] = Mailru!Task("read", s, 0)]
    BY <1>12 DEF Mailru!RotationDials
  <2> HIDE DEF g, s
  <2>d. Mailru!Task("read", s, 0) \in Mailru!Routine
    BY <2>a, <1>0, <1>o
  <2>f. mNext' = s /\ mOpen' = mOpen \cup {s} /\ mActive' = mActive \ {s} /\ mRetired' = mRetired \ {s}
    BY <1>12 DEF Mailru!RotationDials, Mailru!Opens, s
  <2>e. /\ mLife = "running"
        /\ mRotation = "dial" /\ mRotation' = "await"
        /\ mRoutine' \in [Mailru!Routines -> Mailru!Routine]
        /\ \A h \in Mailru!Routines \ {g} : mRoutine'[h] = mRoutine[h]
        /\ mRoutine[g].at = "off" /\ mRoutine[g].of = 0
        /\ mRoutine'[g].at = "read" /\ mRoutine'[g].of = s
        /\ mNext' = s
        /\ mOpen' = mOpen \cup {s} /\ mActive' = mActive \ {s} /\ mRetired' = mRetired \ {s}
        /\ UNCHANGED <<mLife, mConnected, mApplies, mExhausted, mCrossed, mSession, mReconnecting, mOld>>
    BY <1>i, <1>12, <2>a, <2>b, <2>c, <2>d, <2>f, <1>0, <1>t, <1>o DEF Mailru!RotationDials, Mailru!Rotates
  <2>1. Mailru!TypeOK'
    BY <1>0, <1>i, <1>f, <1>t, <2>e, <2>a, <2>b DEF Mailru!TypeOK, Mailru!Sessions
  <2>2. Mailru!Numbered'
    BY <1>0, <1>i, <1>f, <1>t, <2>e, <2>a, <2>b, <1>o, <1>l DEF Mailru!Numbered
  <2>3. Mailru!Dials'
    BY <1>0, <1>i, <1>f, <1>t, <2>e, <2>a, <2>b DEF Mailru!Dials, Mailru!Works
  <2>4. Mailru!OneWay'
    BY <1>0, <1>i, <1>f, <1>t, <2>e, <2>a, <2>b DEF Mailru!OneWay, Mailru!Works, Mailru!Reading
  <2>5. Mailru!Turning'
    <3>1. (mActive \ {s}) \cap (mOpen \cup {s}) \subseteq mActive \cap mOpen
      OBVIOUS
    <3>2. ~mCrossed => /\ mSession = mOld /\ mActive \cap mOpen \subseteq {mSession}
                       /\ \A q \in mOpen : Mailru!Reading(q) => q \in {mSession, mOld, mNext}
      BY <1>i, <2>e DEF Mailru!Turning
    <3>3. \A q \in mOpen : Mailru!Reading(q)' => q = s \/ Mailru!Reading(q)
      BY <1>t, <2>e DEF Mailru!Reading
    <3>4. mNext = 0 /\ \A q \in mOpen : q # 0
      BY <1>i, <2>e DEF Mailru!Numbered, Mailru!TypeOK, Mailru!Sessions
    <3>5. ~mCrossed => \A q \in mOpen \cup {s} : Mailru!Reading(q)' => q \in {mSession, mOld, s}
      BY <3>2, <3>3, <3>4
    <3>6. ~mCrossed => (mActive \ {s}) \cap (mOpen \cup {s}) \subseteq {mSession}
      BY <3>1, <3>2
    <3> QED BY <2>e, <3>2, <3>5, <3>6 DEF Mailru!Turning, Mailru!Reading
  <2> QED BY <2>1, <2>2, <2>3, <2>4, <2>5 DEF Mailru!IInv
<1>13. CASE Mailru!RotationFails
  <2>e. /\ mRotation = "dial" /\ mRotation' = "off"
        /\ mOld' = 0
        /\ UNCHANGED <<mLife, mConnected, mApplies, mExhausted, mCrossed, mSession, mOpen, mActive, mRetired, mRoutine, mReconnecting, mNext>>
    BY <1>i, <1>13 DEF Mailru!RotationFails, Mailru!Rotates
  <2>1. Mailru!TypeOK'
    BY <1>0, <1>i, <1>f, <1>t, <2>e DEF Mailru!TypeOK, Mailru!Sessions
  <2>2. Mailru!Numbered'
    BY <1>0, <1>i, <1>f, <1>t, <2>e, <1>o, <1>l DEF Mailru!Numbered
  <2>3. Mailru!Dials'
    BY <1>0, <1>i, <1>f, <1>t, <2>e DEF Mailru!Dials, Mailru!Works
  <2>4. Mailru!OneWay'
    BY <1>0, <1>i, <1>f, <1>t, <2>e DEF Mailru!OneWay, Mailru!Works, Mailru!Reading
  <2>5. Mailru!Turning'
    BY <1>0, <1>i, <1>f, <1>t, <2>e DEF Mailru!Turning, Mailru!Numbered, Mailru!TypeOK, Mailru!Sessions, Mailru!Reading
  <2> QED BY <2>1, <2>2, <2>3, <2>4, <2>5 DEF Mailru!IInv
<1>14. CASE Mailru!RotationAwaits
  <2>e. /\ mRotation = "await" /\ mRotation' = "swap"
        /\ UNCHANGED <<mLife, mConnected, mApplies, mExhausted, mCrossed, mSession, mOpen, mActive, mRetired, mRoutine, mReconnecting, mOld, mNext>>
    BY <1>i, <1>14 DEF Mailru!RotationAwaits, Mailru!Rotates
  <2>1. Mailru!TypeOK'
    BY <1>0, <1>i, <1>f, <1>t, <2>e DEF Mailru!TypeOK, Mailru!Sessions
  <2>2. Mailru!Numbered'
    BY <1>0, <1>i, <1>f, <1>t, <2>e, <1>o, <1>l DEF Mailru!Numbered
  <2>3. Mailru!Dials'
    BY <1>0, <1>i, <1>f, <1>t, <2>e DEF Mailru!Dials, Mailru!Works
  <2>4. Mailru!OneWay'
    BY <1>0, <1>i, <1>f, <1>t, <2>e DEF Mailru!OneWay, Mailru!Works, Mailru!Reading
  <2>5. Mailru!Turning'
    BY <1>0, <1>i, <1>f, <1>t, <2>e DEF Mailru!Turning, Mailru!Reading
  <2> QED BY <2>1, <2>2, <2>3, <2>4, <2>5 DEF Mailru!IInv
<1>15. CASE Mailru!RotationStops
  <2>e. /\ mLife = "stopped"
        /\ mRotation = "await" /\ mRotation' = "off"
        /\ mRetired' = mRetired \cup {mNext} /\ mOpen' = mOpen \ {mNext}
        /\ mOld' = 0 /\ mNext' = 0
        /\ UNCHANGED <<mLife, mConnected, mApplies, mExhausted, mCrossed, mSession, mActive, mRoutine, mReconnecting>>
    BY <1>i, <1>15 DEF Mailru!RotationStops, Mailru!Rotates
  <2>1. Mailru!TypeOK'
    BY <1>0, <1>i, <1>f, <1>t, <2>e DEF Mailru!TypeOK, Mailru!Numbered, Mailru!Sessions
  <2>2. Mailru!Numbered'
    BY <1>0, <1>i, <1>f, <1>t, <2>e, <1>o, <1>l DEF Mailru!Numbered
  <2>3. Mailru!Dials'
    BY <1>0, <1>i, <1>f, <1>t, <2>e DEF Mailru!Dials, Mailru!Works
  <2>4. Mailru!OneWay'
    BY <1>0, <1>i, <1>f, <1>t, <2>e DEF Mailru!OneWay, Mailru!Works, Mailru!Reading
  <2>5. Mailru!Turning'
    BY <1>0, <1>i, <1>f, <1>t, <2>e DEF Mailru!Turning, Mailru!Reading
  <2> QED BY <2>1, <2>2, <2>3, <2>4, <2>5 DEF Mailru!IInv
<1>16. CASE Mailru!Deactivate
  <2>e. /\ mRotation = "swap" /\ mRotation' = "install"
        /\ mActive' = mActive \ {mOld}
        /\ UNCHANGED <<mLife, mConnected, mApplies, mExhausted, mCrossed, mSession, mOpen, mRetired, mRoutine, mReconnecting, mOld, mNext>>
    BY <1>i, <1>16 DEF Mailru!Deactivate, Mailru!Rotates
  <2>1. Mailru!TypeOK'
    BY <1>0, <1>i, <1>f, <1>t, <2>e DEF Mailru!TypeOK, Mailru!Sessions
  <2>2. Mailru!Numbered'
    BY <1>0, <1>i, <1>f, <1>t, <2>e, <1>o, <1>l DEF Mailru!Numbered
  <2>3. Mailru!Dials'
    BY <1>0, <1>i, <1>f, <1>t, <2>e DEF Mailru!Dials, Mailru!Works
  <2>4. Mailru!OneWay'
    BY <1>0, <1>i, <1>f, <1>t, <2>e DEF Mailru!OneWay, Mailru!Works, Mailru!Reading
  <2>5. Mailru!Turning'
    BY <1>0, <1>i, <1>f, <1>t, <2>e DEF Mailru!Turning, Mailru!Reading
  <2> QED BY <2>1, <2>2, <2>3, <2>4, <2>5 DEF Mailru!IInv
<1>17. CASE Mailru!RotationInstalls
  <2>e. /\ mRotation = "install" /\ mRotation' = "retire"
        /\ mActive' = mActive \cup {mNext} /\ mSession' = mNext /\ mConnected' = TRUE
        /\ UNCHANGED <<mLife, mApplies, mExhausted, mCrossed, mOpen, mRetired, mRoutine, mReconnecting, mOld, mNext>>
    BY <1>i, <1>17 DEF Mailru!RotationInstalls, Mailru!Rotates, Mailru!Installs
  <2>1. Mailru!TypeOK'
    BY <1>0, <1>i, <1>f, <1>t, <2>e DEF Mailru!TypeOK, Mailru!Numbered, Mailru!Sessions
  <2>2. Mailru!Numbered'
    BY <1>0, <1>i, <1>f, <1>t, <2>e, <1>o, <1>l DEF Mailru!Numbered
  <2>3. Mailru!Dials'
    BY <1>0, <1>i, <1>f, <1>t, <2>e DEF Mailru!Dials, Mailru!Works
  <2>4. Mailru!OneWay'
    BY <1>0, <1>i, <1>f, <1>t, <2>e DEF Mailru!OneWay, Mailru!Works, Mailru!Reading
  <2>5. Mailru!Turning'
    BY <1>0, <1>i, <1>f, <1>t, <2>e DEF Mailru!Turning, Mailru!Reading
  <2> QED BY <2>1, <2>2, <2>3, <2>4, <2>5 DEF Mailru!IInv
<1>18. CASE Mailru!Retire
  <2>e. /\ mRotation = "retire" /\ mRotation' = "off"
        /\ mRetired' = mRetired \cup {mOld} /\ mOpen' = mOpen \ {mOld}
        /\ mOld' = 0 /\ mNext' = 0
        /\ UNCHANGED <<mLife, mConnected, mApplies, mExhausted, mCrossed, mSession, mActive, mRoutine, mReconnecting>>
    BY <1>i, <1>18 DEF Mailru!Retire, Mailru!Rotates, Mailru!Closed
  <2>1. Mailru!TypeOK'
    BY <1>0, <1>i, <1>f, <1>t, <2>e DEF Mailru!TypeOK, Mailru!Numbered, Mailru!Sessions
  <2>2. Mailru!Numbered'
    BY <1>0, <1>i, <1>f, <1>t, <2>e, <1>o, <1>l DEF Mailru!Numbered
  <2>3. Mailru!Dials'
    BY <1>0, <1>i, <1>f, <1>t, <2>e DEF Mailru!Dials, Mailru!Works
  <2>4. Mailru!OneWay'
    BY <1>0, <1>i, <1>f, <1>t, <2>e DEF Mailru!OneWay, Mailru!Works, Mailru!Reading
  <2>5. Mailru!Turning'
    BY <1>0, <1>i, <1>f, <1>t, <2>e DEF Mailru!Turning, Mailru!Numbered, Mailru!TypeOK, Mailru!Sessions, Mailru!Reading
  <2> QED BY <2>1, <2>2, <2>3, <2>4, <2>5 DEF Mailru!IInv
<1> QED BY <1>1, <1>2, <1>3, <1>4, <1>5, <1>6, <1>7, <1>8, <1>9, <1>10, <1>11, <1>12, <1>13, <1>14, <1>15, <1>16, <1>17, <1>18
  DEF Mailru!Next, Mailru!RoutineSteps, Mailru!RotationSteps

-----------------------------------------------------------------------------
\* An Avito room

\* The invariant of an Avito room holds before Start.
LEMMA AvitoInit == Avito!Init => Avito!IInv
<1>0. MaxOps \in Nat /\ MaxTurns \in Nat /\ MaxAsides \in Nat /\ AckRoom \in Nat
  BY CarriersAssumption
<1> SUFFICES ASSUME Avito!Init
             PROVE  Avito!IInv
  OBVIOUS
<1> USE DEF Avito!Init
<1>f. Avito!Flags
  BY DEF Avito!Flags
<1>1. Avito!TypeOK
  BY <1>0, <1>f DEF Avito!TypeOK
<1>2. Avito!OneConnection /\ Avito!Sockets
  BY DEF Avito!OneConnection, Avito!Sockets
<1>3. Avito!InStep /\ Avito!Knows
  BY DEF Avito!InStep, Avito!Knows, Avito!Waits
<1> QED BY <1>1, <1>2, <1>3 DEF Avito!IInv

\* What is a flag of an Avito room stays one.
LEMMA AvitoFlags ==
    ASSUME Avito!Flags, Avito!Next
    PROVE  Avito!Flags'
<1> USE DEF Avito!Flags, Avito!lifeVars, Avito!serverVars, Avito!sendVars
<1>1. CASE Avito!RunSteps
  BY <1>1 DEF Avito!RunSteps, Avito!Dial, Avito!DialFails, Avito!Subscribe, Avito!SubscribeFails, Avito!Close, Avito!Closed,
    Avito!WaitEnds
<1>2. CASE Avito!Serve
  <2>1. aLapped' \in BOOLEAN
    BY <1>2 DEF Avito!Serve
  <2> QED BY <1>2, <2>1 DEF Avito!Serve
<1> QED BY <1>1, <1>2 DEF Avito!Next, Avito!Start, Avito!Stop, Avito!Break, Avito!PeerOp, Avito!Reply, Avito!ReaderEnds,
  Avito!SendOp, Avito!TakeReply, Avito!SenderEnds, Avito!Aside

\* Whatever happens to an Avito room, its invariant stays.
LEMMA AvitoStep ==
    ASSUME Avito!IInv, Avito!Next
    PROVE  Avito!IInv'
<1>0. MaxOps \in Nat /\ MaxTurns \in Nat /\ MaxAsides \in Nat /\ AckRoom \in Nat
  BY CarriersAssumption
<1>i. Avito!TypeOK /\ Avito!OneConnection /\ Avito!Sockets /\ Avito!InStep /\ Avito!Knows
  BY DEF Avito!IInv
<1>f. Avito!Flags'
  BY <1>i, AvitoFlags DEF Avito!TypeOK
<1>t. /\ aFlying \in Seq(Avito!Ops) /\ Len(aFlying) \in Nat
      /\ \A i \in 1..Len(aFlying) : /\ aFlying[i] \in Avito!Ops
                                    /\ aFlying[i].for \in Nat /\ aFlying[i].own \in BOOLEAN
      /\ aKnown \in Nat /\ aDoc \in Nat /\ aSent \in Nat /\ Avito!Waits \in {0, 1}
  <2>1. aFlying \in Seq(Avito!Ops) /\ aKnown \in 0..MaxOps /\ aDoc \in 0..MaxOps /\ aSent \in 0..MaxOps
    BY <1>i DEF Avito!TypeOK
  <2>2. \A i \in 1..Len(aFlying) : aFlying[i] \in Avito!Ops
    BY <2>1
  <2> QED BY <1>0, <2>1, <2>2 DEF Avito!Ops, Avito!Waits
<1> USE DEF Avito!lifeVars, Avito!serverVars, Avito!sendVars
<1>1. ASSUME NEW entered \in BOOLEAN, Avito!Start(entered)
      PROVE  Avito!IInv'
  <2>e. /\ aCtx = "new" /\ aCtx' \in {"up", "failed"}
        /\ aRun' \in {"dial", "off"}
        /\ UNCHANGED <<aTurns, aSock, aConnected, aReader, aSender, aAck, aKnown, aSent, aLapped, aDoc, aFlying, aInbox, aAsides>>
    BY <1>i, <1>1 DEF Avito!Start
  <2>1. Avito!TypeOK'
    BY <1>0, <1>i, <1>f, <1>t, <2>e DEF Avito!TypeOK
  <2>2. Avito!OneConnection'
    BY <1>0, <1>i, <1>f, <1>t, <2>e DEF Avito!OneConnection, Avito!Sockets
  <2>3. Avito!Sockets'
    BY <1>0, <1>i, <1>f, <1>t, <2>e DEF Avito!Sockets
  <2>4. Avito!InStep'
    BY <1>0, <1>i, <1>f, <1>t, <2>e DEF Avito!InStep
  <2>5. Avito!Knows'
    BY <1>0, <1>i, <1>f, <1>t, <2>e DEF Avito!Knows, Avito!Sockets, Avito!Waits
  <2> QED BY <2>1, <2>2, <2>3, <2>4, <2>5 DEF Avito!IInv
<1>2. CASE Avito!Stop
  <2>e. /\ aCtx' = "stopped" /\ aSock' = FALSE
        /\ UNCHANGED <<aTurns, aRun, aConnected, aReader, aSender, aAck, aKnown, aSent, aLapped, aDoc, aFlying, aInbox, aAsides>>
    BY <1>i, <1>2 DEF Avito!Stop
  <2>1. Avito!TypeOK'
    BY <1>0, <1>i, <1>f, <1>t, <2>e DEF Avito!TypeOK
  <2>2. Avito!OneConnection'
    BY <1>0, <1>i, <1>f, <1>t, <2>e DEF Avito!OneConnection
  <2>3. Avito!Sockets'
    BY <1>0, <1>i, <1>f, <1>t, <2>e DEF Avito!Sockets
  <2>4. Avito!InStep'
    BY <1>0, <1>i, <1>f, <1>t, <2>e DEF Avito!InStep
  <2>5. Avito!Knows'
    BY <1>0, <1>i, <1>f, <1>t, <2>e DEF Avito!Knows, Avito!Waits
  <2> QED BY <2>1, <2>2, <2>3, <2>4, <2>5 DEF Avito!IInv
<1>3. CASE Avito!Break
  <2>e. /\ aTurns' \in 0..MaxTurns /\ aSock' = FALSE
        /\ UNCHANGED <<aCtx, aRun, aConnected, aReader, aSender, aAck, aKnown, aSent, aLapped, aDoc, aFlying, aInbox, aAsides>>
    BY <1>i, <1>3, <1>0 DEF Avito!Break, Avito!TypeOK
  <2>1. Avito!TypeOK'
    BY <1>0, <1>i, <1>f, <1>t, <2>e DEF Avito!TypeOK
  <2>2. Avito!OneConnection'
    BY <1>0, <1>i, <1>f, <1>t, <2>e DEF Avito!OneConnection
  <2>3. Avito!Sockets'
    BY <1>0, <1>i, <1>f, <1>t, <2>e DEF Avito!Sockets
  <2>4. Avito!InStep'
    BY <1>0, <1>i, <1>f, <1>t, <2>e DEF Avito!InStep
  <2>5. Avito!Knows'
    BY <1>0, <1>i, <1>f, <1>t, <2>e DEF Avito!Knows, Avito!Waits
  <2> QED BY <2>1, <2>2, <2>3, <2>4, <2>5 DEF Avito!IInv
<1>4. CASE Avito!Dial
  <2>a. /\ aFlying' = [i \in DOMAIN aFlying |-> [aFlying[i] EXCEPT !.own = FALSE]]
        /\ DOMAIN aFlying = 1..Len(aFlying)
    BY <1>t, <1>4 DEF Avito!Dial
  <2>b. \A i \in 1..Len(aFlying) : /\ [aFlying[i] EXCEPT !.own = FALSE] \in Avito!Ops
                                   /\ ~[aFlying[i] EXCEPT !.own = FALSE].own
    BY <1>t DEF Avito!Ops
  <2>c. /\ aFlying' \in Seq(Avito!Ops) /\ Len(aFlying') = Len(aFlying)
        /\ \A i \in 1..Len(aFlying) : ~aFlying'[i].own
    <3> DEFINE op(i) == [aFlying[i] EXCEPT !.own = FALSE]
    <3>1. aFlying' = [i \in 1..Len(aFlying) |-> op(i)] /\ \A i \in 1..Len(aFlying) : op(i) \in Avito!Ops /\ ~op(i).own
      BY <2>a, <2>b
    <3> HIDE DEF op
    <3> QED BY <1>t, <3>1
  <2>e. /\ aRun = "dial"
        /\ IF aCtx = "up" THEN aRun' = "subscribe" /\ aSock' = TRUE ELSE aRun' = "exit" /\ aSock' = aSock
        /\ aInbox' = <<>>
        /\ aFlying' \in Seq(Avito!Ops) /\ Len(aFlying') = Len(aFlying)
        /\ \A i \in 1..Len(aFlying) : ~aFlying'[i].own
        /\ UNCHANGED <<aCtx, aTurns, aConnected, aReader, aSender, aAck, aKnown, aSent, aLapped, aDoc, aAsides>>
    BY <1>i, <1>4, <2>c DEF Avito!Dial, Avito!Up
  <2>1. Avito!TypeOK'
    BY <1>0, <1>i, <1>f, <1>t, <2>e DEF Avito!TypeOK
  <2>2. Avito!OneConnection'
    BY <1>0, <1>i, <1>f, <1>t, <2>e DEF Avito!OneConnection
  <2>3. Avito!Sockets'
    BY <1>0, <1>i, <1>f, <1>t, <2>e DEF Avito!Sockets
  <2>4. Avito!InStep'
    BY <1>0, <1>i, <1>f, <1>t, <2>e DEF Avito!InStep
  <2>5. Avito!Knows'
    BY <1>0, <1>i, <1>f, <1>t, <2>e DEF Avito!Knows, Avito!Waits, Avito!OneConnection
  <2> QED BY <2>1, <2>2, <2>3, <2>4, <2>5 DEF Avito!IInv
<1>5. CASE Avito!DialFails
  <2>e. /\ aRun = "dial" /\ aRun' \in {"wait", "exit"}
        /\ UNCHANGED <<aCtx, aTurns, aSock, aConnected, aReader, aSender, aAck, aKnown, aSent, aLapped, aDoc, aFlying, aInbox, aAsides>>
    BY <1>i, <1>5 DEF Avito!DialFails, Avito!Again
  <2>1. Avito!TypeOK'
    BY <1>0, <1>i, <1>f, <1>t, <2>e DEF Avito!TypeOK
  <2>2. Avito!OneConnection'
    BY <1>0, <1>i, <1>f, <1>t, <2>e DEF Avito!OneConnection
  <2>3. Avito!Sockets'
    BY <1>0, <1>i, <1>f, <1>t, <2>e DEF Avito!Sockets
  <2>4. Avito!InStep'
    BY <1>0, <1>i, <1>f, <1>t, <2>e DEF Avito!InStep
  <2>5. Avito!Knows'
    BY <1>0, <1>i, <1>f, <1>t, <2>e DEF Avito!Knows, Avito!Waits
  <2> QED BY <2>1, <2>2, <2>3, <2>4, <2>5 DEF Avito!IInv
<1>6. CASE Avito!Subscribe
  <2>e. /\ aRun = "subscribe" /\ aSock /\ aRun' = "serve"
        /\ aKnown' = aDoc /\ aConnected' = TRUE
        /\ aReader' = "read" /\ aSender' = "idle" /\ aAck' = <<>>
        /\ UNCHANGED <<aCtx, aTurns, aSock, aSent, aLapped, aDoc, aFlying, aInbox, aAsides>>
    BY <1>i, <1>6 DEF Avito!Subscribe
  <2>1. Avito!TypeOK'
    BY <1>0, <1>i, <1>f, <1>t, <2>e DEF Avito!TypeOK
  <2>2. Avito!OneConnection'
    BY <1>0, <1>i, <1>f, <1>t, <2>e DEF Avito!OneConnection
  <2>3. Avito!Sockets'
    BY <1>0, <1>i, <1>f, <1>t, <2>e DEF Avito!Sockets
  <2>4. Avito!InStep'
    BY <1>0, <1>i, <1>f, <1>t, <2>e DEF Avito!InStep
  <2>5. Avito!Knows'
    BY <1>0, <1>i, <1>f, <1>t, <2>e DEF Avito!Knows, Avito!Waits, Avito!Sockets
  <2> QED BY <2>1, <2>2, <2>3, <2>4, <2>5 DEF Avito!IInv
<1>7. CASE Avito!SubscribeFails
  <2>e. /\ aRun = "subscribe" /\ aSock' = FALSE /\ aRun' \in {"wait", "exit"}
        /\ UNCHANGED <<aCtx, aTurns, aConnected, aReader, aSender, aAck, aKnown, aSent, aLapped, aDoc, aFlying, aInbox, aAsides>>
    BY <1>i, <1>7 DEF Avito!SubscribeFails, Avito!Again
  <2>1. Avito!TypeOK'
    BY <1>0, <1>i, <1>f, <1>t, <2>e DEF Avito!TypeOK
  <2>2. Avito!OneConnection'
    BY <1>0, <1>i, <1>f, <1>t, <2>e DEF Avito!OneConnection
  <2>3. Avito!Sockets'
    BY <1>0, <1>i, <1>f, <1>t, <2>e DEF Avito!Sockets
  <2>4. Avito!InStep'
    BY <1>0, <1>i, <1>f, <1>t, <2>e DEF Avito!InStep
  <2>5. Avito!Knows'
    BY <1>0, <1>i, <1>f, <1>t, <2>e DEF Avito!Knows, Avito!Waits
  <2> QED BY <2>1, <2>2, <2>3, <2>4, <2>5 DEF Avito!IInv
<1>8. CASE Avito!Close
  <2>e. /\ aRun = "serve" /\ aRun' = "close" /\ aConnected' = FALSE /\ aSock' = FALSE
        /\ UNCHANGED <<aCtx, aTurns, aReader, aSender, aAck, aKnown, aSent, aLapped, aDoc, aFlying, aInbox, aAsides>>
    BY <1>i, <1>8 DEF Avito!Close
  <2>1. Avito!TypeOK'
    BY <1>0, <1>i, <1>f, <1>t, <2>e DEF Avito!TypeOK
  <2>2. Avito!OneConnection'
    BY <1>0, <1>i, <1>f, <1>t, <2>e DEF Avito!OneConnection
  <2>3. Avito!Sockets'
    BY <1>0, <1>i, <1>f, <1>t, <2>e DEF Avito!Sockets
  <2>4. Avito!InStep'
    BY <1>0, <1>i, <1>f, <1>t, <2>e DEF Avito!InStep
  <2>5. Avito!Knows'
    BY <1>0, <1>i, <1>f, <1>t, <2>e DEF Avito!Knows, Avito!Waits
  <2> QED BY <2>1, <2>2, <2>3, <2>4, <2>5 DEF Avito!IInv
<1>9. CASE Avito!Closed
  <2>e. /\ aRun = "close" /\ aRun' \in {"wait", "exit"}
        /\ aReader = "ended" /\ aSender = "ended"
        /\ UNCHANGED <<aCtx, aTurns, aSock, aConnected, aReader, aSender, aAck, aKnown, aSent, aLapped, aDoc, aFlying, aInbox, aAsides>>
    BY <1>i, <1>9 DEF Avito!Closed, Avito!Again, Avito!BothEnded
  <2>1. Avito!TypeOK'
    BY <1>0, <1>i, <1>f, <1>t, <2>e DEF Avito!TypeOK
  <2>2. Avito!OneConnection'
    BY <1>0, <1>i, <1>f, <1>t, <2>e DEF Avito!OneConnection, Avito!Sockets
  <2>3. Avito!Sockets'
    BY <1>0, <1>i, <1>f, <1>t, <2>e DEF Avito!Sockets
  <2>4. Avito!InStep'
    BY <1>0, <1>i, <1>f, <1>t, <2>e DEF Avito!InStep
  <2>5. Avito!Knows'
    BY <1>0, <1>i, <1>f, <1>t, <2>e DEF Avito!Knows, Avito!Waits
  <2> QED BY <2>1, <2>2, <2>3, <2>4, <2>5 DEF Avito!IInv
<1>10. CASE Avito!WaitEnds
  <2>e. /\ aRun = "wait" /\ aRun' \in {"dial", "exit"}
        /\ UNCHANGED <<aCtx, aTurns, aSock, aConnected, aReader, aSender, aAck, aKnown, aSent, aLapped, aDoc, aFlying, aInbox, aAsides>>
    BY <1>i, <1>10 DEF Avito!WaitEnds
  <2>1. Avito!TypeOK'
    BY <1>0, <1>i, <1>f, <1>t, <2>e DEF Avito!TypeOK
  <2>2. Avito!OneConnection'
    BY <1>0, <1>i, <1>f, <1>t, <2>e DEF Avito!OneConnection
  <2>3. Avito!Sockets'
    BY <1>0, <1>i, <1>f, <1>t, <2>e DEF Avito!Sockets
  <2>4. Avito!InStep'
    BY <1>0, <1>i, <1>f, <1>t, <2>e DEF Avito!InStep
  <2>5. Avito!Knows'
    BY <1>0, <1>i, <1>f, <1>t, <2>e DEF Avito!Knows, Avito!Waits
  <2> QED BY <2>1, <2>2, <2>3, <2>4, <2>5 DEF Avito!IInv
<1>11. CASE Avito!PeerOp
  <2>e. /\ aInbox # <<>> /\ aInbox' = Tail(aInbox)
        /\ UNCHANGED <<aCtx, aTurns, aRun, aSock, aConnected, aReader, aSender, aAck, aKnown, aSent, aLapped, aDoc, aFlying, aAsides>>
    BY <1>i, <1>11 DEF Avito!PeerOp
  <2>1. Avito!TypeOK'
    BY <1>0, <1>i, <1>f, <1>t, <2>e DEF Avito!TypeOK
  <2>2. Avito!OneConnection'
    BY <1>0, <1>i, <1>f, <1>t, <2>e DEF Avito!OneConnection
  <2>3. Avito!Sockets'
    BY <1>0, <1>i, <1>f, <1>t, <2>e DEF Avito!Sockets
  <2>4. Avito!InStep'
    BY <1>0, <1>i, <1>f, <1>t, <2>e DEF Avito!InStep
  <2>5. Avito!Knows'
    BY <1>0, <1>i, <1>f, <1>t, <2>e DEF Avito!Knows, Avito!Waits
  <2> QED BY <2>1, <2>2, <2>3, <2>4, <2>5 DEF Avito!IInv
<1>12. CASE Avito!Reply
  <2>e. /\ aInbox # <<>> /\ aInbox' = Tail(aInbox)
        /\ aAck' = Append(aAck, Head(aInbox)) /\ Len(aAck) # AckRoom
        /\ UNCHANGED <<aCtx, aTurns, aRun, aSock, aConnected, aReader, aSender, aKnown, aSent, aLapped, aDoc, aFlying, aAsides>>
    BY <1>i, <1>12 DEF Avito!Reply, Avito!Blocked, Avito!IsReply
  <2>1. Avito!TypeOK'
    BY <1>0, <1>i, <1>f, <1>t, <2>e DEF Avito!TypeOK
  <2>2. Avito!OneConnection'
    BY <1>0, <1>i, <1>f, <1>t, <2>e DEF Avito!OneConnection
  <2>3. Avito!Sockets'
    BY <1>0, <1>i, <1>f, <1>t, <2>e DEF Avito!Sockets
  <2>4. Avito!InStep'
    BY <1>0, <1>i, <1>f, <1>t, <2>e DEF Avito!InStep
  <2>5. Avito!Knows'
    BY <1>0, <1>i, <1>f, <1>t, <2>e DEF Avito!Knows, Avito!Waits
  <2> QED BY <2>1, <2>2, <2>3, <2>4, <2>5 DEF Avito!IInv
<1>13. CASE Avito!ReaderEnds
  <2>e. /\ aReader = "read" /\ aReader' = "ended"
        /\ UNCHANGED <<aCtx, aTurns, aRun, aSock, aConnected, aSender, aAck, aKnown, aSent, aLapped, aDoc, aFlying, aInbox, aAsides>>
    BY <1>i, <1>13 DEF Avito!ReaderEnds
  <2>1. Avito!TypeOK'
    BY <1>0, <1>i, <1>f, <1>t, <2>e DEF Avito!TypeOK
  <2>2. Avito!OneConnection'
    BY <1>0, <1>i, <1>f, <1>t, <2>e DEF Avito!OneConnection
  <2>3. Avito!Sockets'
    BY <1>0, <1>i, <1>f, <1>t, <2>e DEF Avito!Sockets
  <2>4. Avito!InStep'
    BY <1>0, <1>i, <1>f, <1>t, <2>e DEF Avito!InStep
  <2>5. Avito!Knows'
    BY <1>0, <1>i, <1>f, <1>t, <2>e DEF Avito!Knows, Avito!Waits
  <2> QED BY <2>1, <2>2, <2>3, <2>4, <2>5 DEF Avito!IInv
<1>14. CASE Avito!SendOp
  <2>a. [for |-> aKnown, own |-> TRUE] \in Avito!Ops
    BY <1>i DEF Avito!TypeOK, Avito!Ops
  <2>e. /\ aSender = "idle" /\ aSock /\ aSent < MaxOps /\ aRun = "serve"
        /\ aSender' = "await" /\ aSent' = aSent + 1
        /\ aFlying' \in Seq(Avito!Ops) /\ aFlying' # <<>> /\ Len(aFlying') = Len(aFlying) + 1
        /\ \A i \in 1..Len(aFlying) : aFlying'[i] = aFlying[i]
        /\ aFlying'[Len(aFlying) + 1].for = aKnown /\ aFlying'[Len(aFlying) + 1].own
        /\ UNCHANGED <<aCtx, aTurns, aRun, aSock, aConnected, aReader, aAck, aKnown, aLapped, aDoc, aInbox, aAsides>>
    BY <1>i, <1>14, <2>a, <1>t, <1>0 DEF Avito!SendOp, Avito!OneConnection, Avito!Sockets
  <2>1. Avito!TypeOK'
    BY <1>0, <1>i, <1>f, <1>t, <2>e DEF Avito!TypeOK
  <2>2. Avito!OneConnection'
    BY <1>0, <1>i, <1>f, <1>t, <2>e DEF Avito!OneConnection
  <2>3. Avito!Sockets'
    <3>1. ASSUME NEW i \in 1..Len(aFlying'), NEW j \in 1..Len(aFlying'), i < j, aFlying'[i].own
          PROVE  aFlying'[j].own
      <4>1. i \in 1..Len(aFlying)
        BY <1>t, <2>e, <3>1
      <4>2. CASE j \in 1..Len(aFlying)
        BY <1>i, <2>e, <3>1, <4>1, <4>2 DEF Avito!Sockets
      <4>3. CASE j = Len(aFlying) + 1
        BY <2>e, <4>3
      <4> QED BY <1>t, <2>e, <4>2, <4>3
    <3> QED BY <1>i, <2>e, <3>1 DEF Avito!Sockets
  <2>4. Avito!InStep'
    <3>1. ~aLapped => aKnown = IF aFlying # <<>> /\ aFlying[Len(aFlying)].own THEN aFlying[Len(aFlying)].for + 1 ELSE aDoc
      BY <1>i, <1>t, <2>e DEF Avito!Knows, Avito!Waits
    <3>2. aFlying # <<>> <=> Len(aFlying) + 1 > 1
      BY <1>t
    <3>3. ASSUME ~aLapped, NEW i \in 1..Len(aFlying'), aFlying'[i].own
          PROVE  aFlying'[i].for = IF i > 1 /\ aFlying'[i - 1].own THEN aFlying'[i - 1].for + 1 ELSE aDoc
      <4>1. CASE i \in 1..Len(aFlying)
        <5>1. i > 1 => i - 1 \in 1..Len(aFlying)
          BY <1>t, <4>1
        <5> QED BY <1>i, <2>e, <3>3, <4>1, <5>1 DEF Avito!InStep
      <4>2. CASE i = Len(aFlying) + 1
        <5>1. i > 1 => i - 1 = Len(aFlying) /\ Len(aFlying) \in 1..Len(aFlying)
          BY <1>t, <4>2
        <5> QED BY <2>e, <3>1, <3>2, <3>3, <4>2, <5>1
      <4> QED BY <1>t, <2>e, <4>1, <4>2
    <3> QED BY <2>e, <3>3 DEF Avito!InStep
  <2>5. Avito!Knows'
    BY <1>0, <1>i, <1>f, <1>t, <2>e DEF Avito!Knows, Avito!Waits
  <2> QED BY <2>1, <2>2, <2>3, <2>4, <2>5 DEF Avito!IInv
<1>15. CASE Avito!TakeReply
  <2>e. /\ aSender = "await" /\ aAck # <<>> /\ aAck' = Tail(aAck)
        /\ \/ aSender' = "ended" /\ aKnown' = aKnown
           \/ aSender' = "idle" /\ aKnown' = aKnown + 1
        /\ UNCHANGED <<aCtx, aTurns, aRun, aSock, aConnected, aReader, aSent, aLapped, aDoc, aFlying, aInbox, aAsides>>
    BY <1>i, <1>15 DEF Avito!TakeReply, Avito!KnowNew
  <2>1. Avito!TypeOK'
    BY <1>0, <1>i, <1>f, <1>t, <2>e DEF Avito!TypeOK, Avito!Knows, Avito!Waits
  <2>2. Avito!OneConnection'
    BY <1>0, <1>i, <1>f, <1>t, <2>e DEF Avito!OneConnection
  <2>3. Avito!Sockets'
    BY <1>0, <1>i, <1>f, <1>t, <2>e DEF Avito!Sockets
  <2>4. Avito!InStep'
    BY <1>0, <1>i, <1>f, <1>t, <2>e DEF Avito!InStep
  <2>5. Avito!Knows'
    BY <1>0, <1>i, <1>f, <1>t, <2>e DEF Avito!Knows, Avito!Waits
  <2> QED BY <2>1, <2>2, <2>3, <2>4, <2>5 DEF Avito!IInv
<1>16. CASE Avito!SenderEnds
  <2>e. /\ aSender \in {"idle", "await"} /\ aSender' = "ended"
        /\ UNCHANGED <<aCtx, aTurns, aRun, aSock, aConnected, aReader, aAck, aKnown, aSent, aLapped, aDoc, aFlying, aInbox, aAsides>>
    BY <1>i, <1>16 DEF Avito!SenderEnds
  <2>1. Avito!TypeOK'
    BY <1>0, <1>i, <1>f, <1>t, <2>e DEF Avito!TypeOK
  <2>2. Avito!OneConnection'
    BY <1>0, <1>i, <1>f, <1>t, <2>e DEF Avito!OneConnection
  <2>3. Avito!Sockets'
    BY <1>0, <1>i, <1>f, <1>t, <2>e DEF Avito!Sockets
  <2>4. Avito!InStep'
    BY <1>0, <1>i, <1>f, <1>t, <2>e DEF Avito!InStep
  <2>5. Avito!Knows'
    BY <1>0, <1>i, <1>f, <1>t, <2>e DEF Avito!Knows, Avito!Waits
  <2> QED BY <2>1, <2>2, <2>3, <2>4, <2>5 DEF Avito!IInv
<1>17. CASE Avito!Serve
  <2>a. 1 \in 1..Len(aFlying) /\ Head(aFlying) = aFlying[1] /\ aFlying # <<>>
    BY <1>t, <1>17 DEF Avito!Serve
  <2>b. aInbox \in Seq(Avito!Messages)
    BY <1>i DEF Avito!TypeOK
  <2>c. aInbox' \in Seq(Avito!Messages)
    <3>1. \A m \in {"ok", "error", "peer"} : Append(aInbox, m) \in Seq(Avito!Messages)
      BY <2>b DEF Avito!Messages
    <3> QED BY <2>b, <3>1, <1>17 DEF Avito!Serve
  <2>d. /\ aLapped => aLapped'
        /\ aFlying[1].for = aDoc /\ ~aFlying[1].own /\ ~aLapped' =>
              ~(aRun = "serve" /\ aSock) /\ \A i \in 1..Len(aFlying) : ~aFlying[i].own
    <3>1. DOMAIN aFlying = 1..Len(aFlying)
      BY <1>t
    <3> QED BY <2>a, <3>1, <1>17 DEF Avito!Serve
  <2>e. /\ aFlying # <<>> /\ aFlying' = Tail(aFlying)
        /\ aDoc' = (IF aFlying[1].for = aDoc THEN aDoc + 1 ELSE aDoc)
        /\ aInbox' \in Seq(Avito!Messages)
        /\ aLapped => aLapped'
        /\ aFlying[1].for = aDoc /\ ~aFlying[1].own /\ ~aLapped' =>
                ~(aRun = "serve" /\ aSock) /\ \A i \in 1..Len(aFlying) : ~aFlying[i].own
        /\ UNCHANGED <<aCtx, aTurns, aRun, aSock, aConnected, aReader, aSender, aAck, aKnown, aSent, aAsides>>
    BY <1>i, <1>17, <2>a, <2>c, <2>d DEF Avito!Serve
  <2>t. /\ Len(aFlying) \in Nat \ {0} /\ Len(aFlying') \in Nat /\ Len(aFlying') + 1 = Len(aFlying) /\ 1 \in 1..Len(aFlying)
        /\ aFlying' \in Seq(Avito!Ops) /\ (Len(aFlying) = 1 => aFlying' = <<>>) /\ (Len(aFlying) > 1 => aFlying' # <<>>)
        /\ \A i \in 1..Len(aFlying') : i + 1 \in 1..Len(aFlying) /\ aFlying'[i] = aFlying[i + 1]
    <3>1. /\ Len(aFlying) \in Nat \ {0} /\ aFlying' \in Seq(Avito!Ops)
          /\ Len(aFlying') + 1 = Len(aFlying) /\ Len(aFlying') \in Nat
      BY <1>t, <2>e
    <3>2. \A i \in 1..Len(aFlying') : i + 1 \in 1..Len(aFlying) /\ aFlying'[i] = aFlying[i + 1]
      BY <1>t, <2>e, <3>1
    <3>3. (Len(aFlying) = 1 => aFlying' = <<>>) /\ (Len(aFlying) > 1 => aFlying' # <<>>)
      BY <3>1
    <3> QED BY <3>1, <3>2, <3>3
  <2>1. Avito!TypeOK'
    BY <1>0, <1>i, <1>f, <1>t, <2>e, <2>t DEF Avito!TypeOK, Avito!Knows, Avito!Waits
  <2>2. Avito!OneConnection'
    BY <1>0, <1>i, <1>f, <1>t, <2>e DEF Avito!OneConnection
  <2>3. Avito!Sockets'
    <3>1. \A i, j \in 1..Len(aFlying') : i < j /\ aFlying'[i].own => aFlying'[j].own
      <4> SUFFICES ASSUME NEW i \in 1..Len(aFlying'), NEW j \in 1..Len(aFlying'), i < j, aFlying'[i].own
                   PROVE  aFlying'[j].own
        OBVIOUS
      <4>1. i + 1 \in 1..Len(aFlying) /\ j + 1 \in 1..Len(aFlying) /\ i + 1 < j + 1
        BY <2>t
      <4> QED BY <1>i, <2>t, <4>1 DEF Avito!Sockets
    <3>2. aRun = "subscribe" => \A i \in 1..Len(aFlying') : ~aFlying'[i].own
      BY <1>i, <2>t DEF Avito!Sockets
    <3> QED BY <1>i, <2>e, <3>1, <3>2 DEF Avito!Sockets
  <2>4. Avito!InStep'
    <3> SUFFICES ASSUME ~aLapped', NEW i \in 1..Len(aFlying'), aFlying'[i].own
                 PROVE  aFlying'[i].for = IF i > 1 /\ aFlying'[i - 1].own THEN aFlying'[i - 1].for + 1 ELSE aDoc'
      BY DEF Avito!InStep
    <3>1. /\ i \in Nat /\ i + 1 \in 1..Len(aFlying) /\ aFlying'[i] = aFlying[i + 1]
          /\ aFlying[i + 1].for = IF aFlying[i].own THEN aFlying[i].for + 1 ELSE aDoc
      <4>1. i \in Nat /\ i + 1 \in 1..Len(aFlying) /\ i + 1 > 1 /\ (i + 1) - 1 = i
        BY <2>t
      <4>2. aFlying'[i] = aFlying[i + 1]
        BY <2>t
      <4> QED BY <1>i, <2>e, <4>1, <4>2 DEF Avito!InStep
    <3>2. CASE i > 1
      <4>1. i - 1 \in 1..Len(aFlying') /\ (i - 1) + 1 = i
        BY <2>t, <3>2
      <4>2. aFlying'[i - 1] = aFlying[i] /\ i \in 1..Len(aFlying)
        BY <2>t, <4>1
      <4>3. aFlying[1].own => aFlying[i].own
        BY <1>i, <2>t, <3>2, <4>2 DEF Avito!Sockets
      <4>4. ~aFlying[i].own => aDoc' = aDoc
        BY <1>i, <2>e, <3>1, <4>2, <4>3
      <4> QED BY <3>1, <3>2, <4>2, <4>4
    <3>3. CASE i = 1
      <4>1. aFlying[1].own => aFlying[1].for = aDoc
        BY <1>i, <2>e, <2>t DEF Avito!InStep
      <4>2. ~aFlying[1].own => aDoc' = aDoc
        BY <2>e, <3>1, <3>3
      <4> QED BY <2>e, <3>1, <3>3, <4>1, <4>2
    <3> QED BY <3>1, <3>2, <3>3
  <2>5. Avito!Knows'
    <3>1. aDoc' + Len(aFlying') <= aSent
      BY <1>i, <1>t, <2>e, <2>t DEF Avito!Knows
    <3>2. Avito!Waits' = Avito!Waits
      BY <2>e DEF Avito!Waits
    <3>3. ASSUME ~aLapped', aRun = "serve", aSock, aSender \in {"idle", "await"}
          PROVE  aKnown + Avito!Waits = IF aFlying' # <<>> /\ aFlying'[Len(aFlying')].own
                                        THEN aFlying'[Len(aFlying')].for + 1 ELSE aDoc'
      <4>1. aKnown + Avito!Waits = IF aFlying[Len(aFlying)].own THEN aFlying[Len(aFlying)].for + 1 ELSE aDoc
        BY <1>i, <2>e, <3>3 DEF Avito!Knows
      <4>2. CASE Len(aFlying) = 1
        <5>1. aFlying' = <<>>
          BY <2>t, <4>2
        <5>2. aFlying[1].own => aFlying[1].for = aDoc
          BY <1>i, <2>e, <2>t, <3>3 DEF Avito!InStep
        <5> QED BY <1>t, <2>e, <3>3, <4>1, <4>2, <5>1, <5>2
      <4>3. CASE Len(aFlying) > 1
        <5>1. Len(aFlying') \in 1..Len(aFlying') /\ Len(aFlying') + 1 = Len(aFlying) /\ aFlying' # <<>>
          BY <2>t, <4>3
        <5>2. aFlying'[Len(aFlying')] = aFlying[Len(aFlying)]
          BY <2>t, <5>1
        <5>3. aFlying[1].own => aFlying[Len(aFlying)].own
          BY <1>i, <2>t, <4>3 DEF Avito!Sockets
        <5>4. ~aFlying[Len(aFlying)].own => aDoc' = aDoc
          BY <2>e, <3>3, <5>3
        <5> QED BY <4>1, <5>1, <5>2, <5>4
      <4> QED BY <2>t, <4>2, <4>3
    <3> QED BY <1>i, <2>e, <3>1, <3>2, <3>3 DEF Avito!Knows
  <2> QED BY <2>1, <2>2, <2>3, <2>4, <2>5 DEF Avito!IInv
<1>18. CASE Avito!Aside
  <2>e. /\ aAsides < MaxAsides /\ aAsides' = aAsides + 1
        /\ aInbox' = Append(aInbox, "aside")
        /\ UNCHANGED <<aCtx, aTurns, aRun, aSock, aConnected, aReader, aSender, aAck, aKnown, aSent, aLapped, aDoc, aFlying>>
    BY <1>i, <1>18 DEF Avito!Aside
  <2>1. Avito!TypeOK'
    BY <1>0, <1>i, <1>f, <1>t, <2>e DEF Avito!TypeOK, Avito!Messages
  <2>2. Avito!OneConnection'
    BY <1>0, <1>i, <1>f, <1>t, <2>e DEF Avito!OneConnection
  <2>3. Avito!Sockets'
    BY <1>0, <1>i, <1>f, <1>t, <2>e DEF Avito!Sockets
  <2>4. Avito!InStep'
    BY <1>0, <1>i, <1>f, <1>t, <2>e DEF Avito!InStep
  <2>5. Avito!Knows'
    BY <1>0, <1>i, <1>f, <1>t, <2>e DEF Avito!Knows, Avito!Waits
  <2> QED BY <2>1, <2>2, <2>3, <2>4, <2>5 DEF Avito!IInv
<1> QED BY <1>1, <1>2, <1>3, <1>4, <1>5, <1>6, <1>7, <1>8, <1>9, <1>10, <1>11, <1>12, <1>13, <1>14, <1>15, <1>16, <1>17, <1>18
  DEF Avito!Next, Avito!RunSteps

-----------------------------------------------------------------------------
\* A Bitrix24 chat

\* The elements of a sequence are what it has at its indices.
LEMMA BitrixElements ==
    ASSUME NEW s \in Seq(Bitrix!Numbers)
    PROVE  /\ Len(s) \in Nat /\ DOMAIN s = 1..Len(s)
           /\ \A i \in 1..Len(s) : s[i] \in Bitrix!Numbers /\ s[i] \in Bitrix!ToSet(s)
           /\ \A x \in Bitrix!ToSet(s) : \E i \in 1..Len(s) : s[i] = x
           /\ Bitrix!ToSet(s) \subseteq Bitrix!Numbers
           /\ Bitrix!IsInjective(s) <=> \A i, j \in 1..Len(s) : s[i] = s[j] => i = j
<1>1. Len(s) \in Nat /\ DOMAIN s = 1..Len(s) /\ \A i \in 1..Len(s) : s[i] \in Bitrix!Numbers
  OBVIOUS
<1> QED BY <1>1 DEF Bitrix!ToSet, Bitrix!IsInjective

\* The elements of one sequence after another.
LEMMA BitrixJoin ==
    ASSUME NEW s \in Seq(Bitrix!Numbers), NEW t \in Seq(Bitrix!Numbers)
    PROVE  /\ s \o t \in Seq(Bitrix!Numbers)
           /\ Bitrix!ToSet(s \o t) = Bitrix!ToSet(s) \cup Bitrix!ToSet(t)
           /\ Bitrix!IsInjective(s) /\ Bitrix!IsInjective(t) /\ Bitrix!ToSet(s) \cap Bitrix!ToSet(t) = {}
                 => Bitrix!IsInjective(s \o t)
<1> DEFINE u == s \o t
<1>1. /\ u \in Seq(Bitrix!Numbers) /\ Len(u) = Len(s) + Len(t) /\ Len(s) \in Nat /\ Len(t) \in Nat
      /\ \A i \in 1..Len(s) : i \in 1..Len(u) /\ u[i] = s[i]
      /\ \A i \in 1..Len(t) : Len(s) + i \in 1..Len(u) /\ u[Len(s) + i] = t[i]
  OBVIOUS
<1>2. \A i \in 1..Len(u) : i \in 1..Len(s) \/ \E k \in 1..Len(t) : i = Len(s) + k
  <2> SUFFICES ASSUME NEW i \in 1..Len(u), i \notin 1..Len(s)
               PROVE  \E k \in 1..Len(t) : i = Len(s) + k
    OBVIOUS
  <2>1. i - Len(s) \in 1..Len(t) /\ i = Len(s) + (i - Len(s))
    BY <1>1
  <2> QED BY <2>1
<1> HIDE DEF u
<1>s. /\ \A i \in 1..Len(s) : s[i] \in Bitrix!ToSet(s)
      /\ \A x \in Bitrix!ToSet(s) : \E i \in 1..Len(s) : s[i] = x
  BY BitrixElements
<1>t. /\ \A i \in 1..Len(t) : t[i] \in Bitrix!ToSet(t)
      /\ \A x \in Bitrix!ToSet(t) : \E i \in 1..Len(t) : t[i] = x
  BY BitrixElements
<1>u. /\ \A i \in 1..Len(u) : u[i] \in Bitrix!ToSet(u)
      /\ \A x \in Bitrix!ToSet(u) : \E i \in 1..Len(u) : u[i] = x
  BY <1>1, BitrixElements
<1>4. Bitrix!ToSet(u) = Bitrix!ToSet(s) \cup Bitrix!ToSet(t)
  <2>1. ASSUME NEW i \in 1..Len(u)
        PROVE  u[i] \in Bitrix!ToSet(s) \cup Bitrix!ToSet(t)
    <3>1. CASE i \in 1..Len(s)
      BY <1>1, <1>s, <3>1
    <3>2. ASSUME NEW k \in 1..Len(t), i = Len(s) + k
          PROVE  u[i] \in Bitrix!ToSet(t)
      BY <1>1, <1>t, <3>2
    <3> QED BY <1>2, <3>1, <3>2
  <2>2. Bitrix!ToSet(u) \subseteq Bitrix!ToSet(s) \cup Bitrix!ToSet(t)
    BY <1>u, <2>1
  <2>3. Bitrix!ToSet(s) \subseteq Bitrix!ToSet(u)
    BY <1>1, <1>s, <1>u
  <2>4. Bitrix!ToSet(t) \subseteq Bitrix!ToSet(u)
    BY <1>1, <1>t, <1>u
  <2> QED BY <2>2, <2>3, <2>4
<1>5. ASSUME Bitrix!IsInjective(s), Bitrix!IsInjective(t), Bitrix!ToSet(s) \cap Bitrix!ToSet(t) = {},
             NEW i \in 1..Len(u), NEW j \in 1..Len(u), u[i] = u[j]
      PROVE  i = j
  <2>1. CASE i \in 1..Len(s) /\ j \in 1..Len(s)
    BY <1>1, <1>5, <2>1, BitrixElements
  <2>2. CASE i \notin 1..Len(s) /\ j \notin 1..Len(s)
    <3>1. PICK k \in 1..Len(t), l \in 1..Len(t) : i = Len(s) + k /\ j = Len(s) + l
      BY <1>2, <2>2
    <3>2. t[k] = t[l]
      BY <1>1, <1>5, <3>1
    <3>3. k = l
      BY <1>5, <3>2, BitrixElements
    <3> QED BY <3>1, <3>3
  <2>3. \A m \in 1..Len(s), n \in 1..Len(t) : s[m] # t[n]
    BY <1>5, <1>s, <1>t
  <2>4. CASE i \in 1..Len(s) /\ j \notin 1..Len(s)
    <3>1. PICK k \in 1..Len(t) : j = Len(s) + k
      BY <1>2, <2>4
    <3> QED BY <1>1, <1>5, <2>3, <2>4, <3>1
  <2>5. CASE i \notin 1..Len(s) /\ j \in 1..Len(s)
    <3>1. PICK k \in 1..Len(t) : i = Len(s) + k
      BY <1>2, <2>5
    <3> QED BY <1>1, <1>5, <2>3, <2>5, <3>1
  <2> QED BY <2>1, <2>2, <2>4, <2>5
<1> QED BY <1>1, <1>4, <1>5, BitrixElements DEF u

\* The elements of the two ends of a sequence.
LEMMA BitrixSplit ==
    ASSUME NEW s \in Seq(Bitrix!Numbers), NEW n \in 0..Len(s)
    PROVE  /\ SubSeq(s, 1, n) \in Seq(Bitrix!Numbers) /\ SubSeq(s, n + 1, Len(s)) \in Seq(Bitrix!Numbers)
           /\ Len(SubSeq(s, 1, n)) = n /\ \A i \in 1..n : SubSeq(s, 1, n)[i] = s[i]
           /\ Len(SubSeq(s, n + 1, Len(s))) = Len(s) - n
           /\ \A i \in 1..(Len(s) - n) : SubSeq(s, n + 1, Len(s))[i] = s[n + i]
           /\ Bitrix!ToSet(s) = Bitrix!ToSet(SubSeq(s, 1, n)) \cup Bitrix!ToSet(SubSeq(s, n + 1, Len(s)))
           /\ Bitrix!IsInjective(s) =>
                 /\ Bitrix!IsInjective(SubSeq(s, 1, n)) /\ Bitrix!IsInjective(SubSeq(s, n + 1, Len(s)))
                 /\ Bitrix!ToSet(SubSeq(s, 1, n)) \cap Bitrix!ToSet(SubSeq(s, n + 1, Len(s))) = {}
<1> DEFINE a == SubSeq(s, 1, n)
           b == SubSeq(s, n + 1, Len(s))
<1>1. /\ Len(s) \in Nat /\ n \in Nat /\ n <= Len(s)
      /\ a \in Seq(Bitrix!Numbers) /\ Len(a) = n /\ \A i \in 1..n : i \in 1..Len(s) /\ a[i] = s[i]
  OBVIOUS
<1>2. /\ b \in Seq(Bitrix!Numbers) /\ Len(b) = Len(s) - n
      /\ \A i \in 1..(Len(s) - n) : n + i \in 1..Len(s) /\ b[i] = s[n + i]
  OBVIOUS
<1> HIDE DEF a, b
<1>3. \A i \in 1..Len(s) : i \in 1..n \/ (i - n \in 1..(Len(s) - n) /\ n + (i - n) = i)
  BY <1>1
<1>a. /\ \A i \in 1..n : a[i] \in Bitrix!ToSet(a)
      /\ \A x \in Bitrix!ToSet(a) : \E i \in 1..n : a[i] = x
  BY <1>1, BitrixElements
<1>b. /\ \A i \in 1..(Len(s) - n) : b[i] \in Bitrix!ToSet(b)
      /\ \A x \in Bitrix!ToSet(b) : \E i \in 1..(Len(s) - n) : b[i] = x
  BY <1>2, BitrixElements
<1>s. /\ \A i \in 1..Len(s) : s[i] \in Bitrix!ToSet(s)
      /\ \A x \in Bitrix!ToSet(s) : \E i \in 1..Len(s) : s[i] = x
  BY BitrixElements
<1>4. Bitrix!ToSet(s) = Bitrix!ToSet(a) \cup Bitrix!ToSet(b)
  <2>1. Bitrix!ToSet(a) \subseteq Bitrix!ToSet(s)
    BY <1>1, <1>a, <1>s
  <2>2. Bitrix!ToSet(b) \subseteq Bitrix!ToSet(s)
    BY <1>2, <1>b, <1>s
  <2>3. ASSUME NEW i \in 1..Len(s)
        PROVE  s[i] \in Bitrix!ToSet(a) \cup Bitrix!ToSet(b)
    <3>1. CASE i \in 1..n
      BY <1>1, <1>a, <3>1
    <3>2. CASE i - n \in 1..(Len(s) - n) /\ n + (i - n) = i
      <4>1. b[i - n] = s[i] /\ b[i - n] \in Bitrix!ToSet(b)
        BY <1>2, <1>b, <3>2
      <4> QED BY <4>1
    <3> QED BY <1>3, <3>1, <3>2
  <2>4. Bitrix!ToSet(s) \subseteq Bitrix!ToSet(a) \cup Bitrix!ToSet(b)
    BY <2>3, <1>s
  <2> QED BY <2>1, <2>2, <2>4
<1>5. ASSUME Bitrix!IsInjective(s)
      PROVE  Bitrix!IsInjective(a) /\ Bitrix!IsInjective(b) /\ Bitrix!ToSet(a) \cap Bitrix!ToSet(b) = {}
  <2>1. \A i, j \in 1..Len(s) : s[i] = s[j] => i = j
    BY <1>5, BitrixElements
  <2>2. Bitrix!IsInjective(a)
    BY <1>1, <2>1, BitrixElements
  <2>3. \A i, j \in 1..(Len(s) - n) : b[i] = b[j] => i = j
    BY <1>1, <1>2, <2>1
  <2>4. \A i \in 1..n, j \in 1..(Len(s) - n) : a[i] # b[j]
    BY <1>1, <1>2, <2>1
  <2>5. Bitrix!IsInjective(b)
    BY <1>2, <2>3, BitrixElements
  <2>6. Bitrix!ToSet(a) \cap Bitrix!ToSet(b) = {}
    BY <1>a, <1>b, <2>4
  <2> QED BY <2>2, <2>5, <2>6
<1> QED BY <1>1, <1>2, <1>4, <1>5 DEF a, b

\* What the server takes of a batch.
LEMMA BitrixTaken ==
    ASSUME Bitrix!TypeOK, NEW w \in Bitrix!Writers, NEW places \in Bitrix!Places(xHand[w])
    PROVE  /\ Bitrix!Taken(w, places) \in Seq(Bitrix!Numbers)
           /\ Bitrix!ToSet(Bitrix!Taken(w, places)) \subseteq Bitrix!ToSet(xHand[w])
           /\ Bitrix!IsInjective(xHand[w]) => Bitrix!IsInjective(Bitrix!Taken(w, places))
<1> DEFINE t == Bitrix!Taken(w, places)
           h == xHand[w]
<1>1. h \in Seq(Bitrix!Numbers)
  BY DEF Bitrix!TypeOK
<1>2. PICK n \in 0..Len(h) : places \in [1..n -> 1..Len(h)] /\ \A i, j \in 1..n : i < j => places[i] < places[j]
  BY DEF Bitrix!Places
<1>3. t = [i \in 1..n |-> h[places[i]]] /\ \A i \in 1..n : h[places[i]] \in Bitrix!Numbers
  BY <1>1, <1>2 DEF Bitrix!Taken
<1>4. n \in Nat /\ Len(h) \in Nat
  BY <1>1
<1> HIDE DEF t, h
<1>5. t \in Seq(Bitrix!Numbers) /\ Len(t) = n /\ \A i \in 1..n : t[i] = h[places[i]]
  BY <1>3, <1>4
<1>6. Bitrix!ToSet(t) \subseteq Bitrix!ToSet(h)
  BY <1>1, <1>2, <1>5, BitrixElements
<1>7. ASSUME Bitrix!IsInjective(h), NEW i \in 1..n, NEW j \in 1..n, t[i] = t[j]
      PROVE  i = j
  <2>0. \A k, l \in 1..Len(h) : h[k] = h[l] => k = l
    BY <1>1, <1>7, BitrixElements
  <2>1. places[i] = places[j]
    <3>1. places[i] \in 1..Len(h) /\ places[j] \in 1..Len(h)
      BY <1>2
    <3>2. h[places[i]] = h[places[j]]
      BY <1>5, <1>7
    <3> QED BY <2>0, <3>1, <3>2
  <2>2. i \in Int /\ j \in Int /\ places[i] \in Int /\ places[j] \in Int
    BY <1>2, <1>4
  <2> QED BY <1>2, <2>1, <2>2
<1> QED BY <1>5, <1>6, <1>7, BitrixElements DEF t, h

\* The invariant of a Bitrix chat holds before Start.
LEMMA BitrixInit == Bitrix!Init => Bitrix!IInv
<1>0. /\ Packets \in Nat /\ NumWriters \in Nat /\ BatchSize \in Nat /\ MaxQueued \in Nat
      /\ MaxUnread \in Nat /\ MaxTries \in Nat \ {0}
  BY CarriersAssumption
<1> SUFFICES ASSUME Bitrix!Init
             PROVE  Bitrix!IInv
  OBVIOUS
<1> USE DEF Bitrix!Init
<1>f. Bitrix!Flags
  BY DEF Bitrix!Flags
<1>1. Bitrix!TypeOK
  BY <1>0, <1>f DEF Bitrix!TypeOK
<1>2. Bitrix!Accounted /\ Bitrix!Distinct
  BY DEF Bitrix!Accounted, Bitrix!InHand, Bitrix!Distinct, Bitrix!ToSet, Bitrix!IsInjective
<1>3. Bitrix!PageFollows
  BY DEF Bitrix!PageFollows
<1>4. Bitrix!ReceivedInOrder
  BY DEF Bitrix!ReceivedInOrder, Bitrix!Received
<1> QED BY <1>1, <1>2, <1>3, <1>4 DEF Bitrix!IInv

\* A writer is done with its batch: some of it stands at the end of the chat,
\* the rest was given up.
LEMMA BitrixHandsOver ==
    ASSUME Bitrix!IInv, NEW w \in Bitrix!Writers, NEW t \in Seq(Bitrix!Numbers), NEW D,
           Bitrix!ToSet(t) \subseteq Bitrix!ToSet(xHand[w]), D \subseteq Bitrix!ToSet(xHand[w]),
           Bitrix!ToSet(xHand[w]) \subseteq Bitrix!ToSet(t) \cup D,
           Bitrix!IsInjective(t), xChat' = xChat \o t, xDropped' = xDropped \cup D, Bitrix!Empty(w),
           UNCHANGED <<xLife, xOffered, xQueue, xGone, xAsked, xLastMsgID, xPolling, xUnread, xGot>>
    PROVE  Bitrix!IInv'
<1>0. /\ Packets \in Nat /\ NumWriters \in Nat /\ BatchSize \in Nat /\ MaxQueued \in Nat
      /\ MaxUnread \in Nat /\ MaxTries \in Nat \ {0}
  BY CarriersAssumption
<1>i. Bitrix!TypeOK /\ Bitrix!Accounted /\ Bitrix!Distinct /\ Bitrix!PageFollows /\ Bitrix!ReceivedInOrder
  BY DEF Bitrix!IInv
<1>h. /\ xHand \in [Bitrix!Writers -> Seq(Bitrix!Numbers)] /\ xChat \in Seq(Bitrix!Numbers)
      /\ xTries \in [Bitrix!Writers -> 0..MaxTries] /\ <<>> \in Seq(Bitrix!Numbers)
      /\ Bitrix!ToSet(xHand[w]) \subseteq Bitrix!Numbers
  BY <1>i, BitrixElements DEF Bitrix!TypeOK
<1>e. /\ xHand' \in [Bitrix!Writers -> Seq(Bitrix!Numbers)] /\ xHand'[w] = <<>>
      /\ \A v \in Bitrix!Writers \ {w} : xHand'[v] = xHand[v]
      /\ xTries' \in [Bitrix!Writers -> 0..MaxTries]
  BY <1>0, <1>h DEF Bitrix!Empty
<1>c. /\ xChat' \in Seq(Bitrix!Numbers) /\ Bitrix!ToSet(xChat') = Bitrix!ToSet(xChat) \cup Bitrix!ToSet(t)
      /\ Bitrix!IsInjective(xChat')
      /\ Len(xChat) \in Nat /\ Len(xChat') \in Nat /\ Len(xChat) <= Len(xChat')
      /\ \A i \in 1..Len(xChat) : i \in 1..Len(xChat') /\ xChat'[i] = xChat[i]
  <2>1. Bitrix!IsInjective(xChat) /\ Bitrix!ToSet(xChat) \cap Bitrix!ToSet(t) = {}
    BY <1>i DEF Bitrix!Distinct
  <2>2. /\ Len(xChat) \in Nat /\ Len(xChat') \in Nat /\ Len(xChat) <= Len(xChat')
        /\ \A i \in 1..Len(xChat) : i \in 1..Len(xChat') /\ xChat'[i] = xChat[i]
    BY <1>h
  <2> QED BY <1>h, <2>1, <2>2, BitrixJoin
<1>n. Bitrix!ToSet(<<>>) = {} /\ Bitrix!IsInjective(<<>>)
  BY DEF Bitrix!ToSet, Bitrix!IsInjective
<1>1. Bitrix!TypeOK'
  <2>1. \A v \in Bitrix!Writers : Len(xHand'[v]) <= BatchSize
    <3>1. \A v \in Bitrix!Writers : Len(xHand[v]) <= BatchSize
      BY <1>i DEF Bitrix!TypeOK
    <3>2. Len(<<>>) <= BatchSize
      BY <1>0
    <3> QED BY <1>e, <3>1, <3>2
  <2>2. xDropped' \subseteq Bitrix!Numbers
    BY <1>i, <1>h DEF Bitrix!TypeOK
  <2>3. xLastMsgID \in 0..Len(xChat')
    <3>1. xLastMsgID \in 0..Len(xChat)
      BY <1>i DEF Bitrix!TypeOK
    <3> QED BY <1>c, <3>1
  <2>4. Bitrix!Flags'
    BY <1>i DEF Bitrix!TypeOK, Bitrix!Flags
  <2> QED BY <1>i, <1>e, <1>c, <2>1, <2>2, <2>3, <2>4 DEF Bitrix!TypeOK
<1>2. Bitrix!Accounted'
  <2>1. Bitrix!InHand \subseteq Bitrix!InHand' \cup Bitrix!ToSet(xHand[w])
    BY <1>e DEF Bitrix!InHand
  <2>2. Bitrix!InHand' \cup Bitrix!ToSet(xHand[w]) \subseteq Bitrix!InHand
    BY <1>e, <1>h, <1>n DEF Bitrix!InHand
  <2>3. 1..xOffered = xDropped \cup Bitrix!ToSet(xQueue) \cup Bitrix!InHand \cup Bitrix!ToSet(xChat)
    BY <1>i DEF Bitrix!Accounted
  <2>4. 1..xOffered = xDropped' \cup Bitrix!ToSet(xQueue) \cup Bitrix!InHand' \cup Bitrix!ToSet(xChat')
    BY <1>c, <2>1, <2>2, <2>3
  <2> QED BY <2>4 DEF Bitrix!Accounted
<1>3. Bitrix!Distinct'
  <2>1. /\ Bitrix!IsInjective(xQueue) /\ Bitrix!ToSet(xQueue) \cap Bitrix!ToSet(xChat') = {}
    BY <1>i, <1>c DEF Bitrix!Distinct
  <2>2. ASSUME NEW v \in Bitrix!Writers
        PROVE  /\ Bitrix!IsInjective(xHand'[v])
               /\ Bitrix!ToSet(xHand'[v]) \cap Bitrix!ToSet(xQueue) = {}
               /\ Bitrix!ToSet(xHand'[v]) \cap Bitrix!ToSet(xChat') = {}
    <3>1. CASE v = w
      BY <1>e, <1>n, <3>1
    <3>2. CASE v # w
      BY <1>i, <1>e, <1>c, <3>2 DEF Bitrix!Distinct
    <3> QED BY <3>1, <3>2
  <2>3. \A u, v \in Bitrix!Writers : v # u => Bitrix!ToSet(xHand'[v]) \cap Bitrix!ToSet(xHand'[u]) = {}
    BY <1>i, <1>e, <1>n DEF Bitrix!Distinct
  <2> QED BY <1>c, <2>1, <2>2, <2>3 DEF Bitrix!Distinct
<1>4. Bitrix!PageFollows'
  <2>1. ASSUME xAsked # None
        PROVE  /\ xLastMsgID + Len(xAsked) <= Len(xChat')
               /\ \A i \in 1..Len(xAsked) : xAsked[i] = xChat'[xLastMsgID + i]
    <3>1. /\ xLastMsgID \in Nat /\ Len(xAsked) \in Nat /\ xLastMsgID + Len(xAsked) <= Len(xChat)
          /\ \A i \in 1..Len(xAsked) : xAsked[i] = xChat[xLastMsgID + i]
      BY <1>i, <2>1 DEF Bitrix!PageFollows, Bitrix!TypeOK
    <3> QED BY <1>c, <3>1
  <2> QED BY <2>1 DEF Bitrix!PageFollows
<1>5. Bitrix!ReceivedInOrder'
  <2> DEFINE R == Bitrix!Received
  <2>1. R = Bitrix!Received' /\ xLastMsgID' = xLastMsgID
    BY DEF Bitrix!Received
  <2>2. /\ \A i \in 1..Len(R) : \E k \in 1..xLastMsgID : R[i] = xChat[k]
        /\ \A i, j \in 1..Len(R), k, l \in 1..Len(xChat) : i < j /\ R[i] = xChat[k] /\ R[j] = xChat[l] => k < l
    BY <1>i DEF Bitrix!ReceivedInOrder
  <2>3. xLastMsgID \in Nat /\ xLastMsgID <= Len(xChat) /\ \A k \in 1..xLastMsgID : k \in 1..Len(xChat)
    BY <1>i, <1>c DEF Bitrix!TypeOK
  <2> HIDE DEF R
  <2>4. \A i \in 1..Len(R) : \E k \in 1..xLastMsgID : R[i] = xChat'[k]
    BY <1>c, <2>2, <2>3
  <2>5. ASSUME NEW i \in 1..Len(R), NEW k \in 1..Len(xChat'), R[i] = xChat'[k]
        PROVE  k \in 1..Len(xChat) /\ R[i] = xChat[k]
    <3>1. PICK m \in 1..xLastMsgID : R[i] = xChat[m]
      BY <2>2
    <3>2. m \in 1..Len(xChat) /\ xChat'[m] = xChat'[k] /\ m \in 1..Len(xChat')
      BY <1>c, <2>3, <2>5, <3>1
    <3>3. m = k
      BY <1>c, <3>2, BitrixElements
    <3> QED BY <3>1, <3>2, <3>3
  <2>6. ASSUME NEW i \in 1..Len(R), NEW j \in 1..Len(R), NEW k \in 1..Len(xChat'), NEW l \in 1..Len(xChat'),
               i < j, R[i] = xChat'[k], R[j] = xChat'[l]
        PROVE  k < l
    <3>1. k \in 1..Len(xChat) /\ R[i] = xChat[k] /\ l \in 1..Len(xChat) /\ R[j] = xChat[l]
      BY <2>5, <2>6
    <3> QED BY <2>2, <2>6, <3>1
  <2> QED BY <2>1, <2>4, <2>6 DEF Bitrix!ReceivedInOrder
<1> QED BY <1>1, <1>2, <1>3, <1>4, <1>5 DEF Bitrix!IInv

\* Whatever happens to a Bitrix chat, its invariant stays.
LEMMA BitrixStep ==
    ASSUME Bitrix!IInv, Bitrix!Next
    PROVE  Bitrix!IInv'
<1>0. /\ Packets \in Nat /\ NumWriters \in Nat /\ BatchSize \in Nat /\ MaxQueued \in Nat
      /\ MaxUnread \in Nat /\ Page \in Nat /\ MaxTries \in Nat \ {0}
  BY CarriersAssumption
<1>i. Bitrix!TypeOK /\ Bitrix!Accounted /\ Bitrix!Distinct /\ Bitrix!PageFollows /\ Bitrix!ReceivedInOrder
  BY DEF Bitrix!IInv
<1>t. /\ xQueue \in Seq(Bitrix!Numbers) /\ Len(xQueue) \in Nat
      /\ xHand \in [Bitrix!Writers -> Seq(Bitrix!Numbers)] /\ <<>> \in Seq(Bitrix!Numbers)
      /\ xChat \in Seq(Bitrix!Numbers) /\ Len(xChat) \in Nat
      /\ xGot \in Seq(Bitrix!Numbers) /\ Len(xGot) \in Nat
      /\ xUnread \in Seq(Bitrix!Numbers) /\ Len(xUnread) \in Nat
      /\ xLastMsgID \in Nat /\ xLastMsgID <= Len(xChat)
      /\ xAsked # None => xAsked \in Seq(Bitrix!Numbers) /\ Len(xAsked) \in Nat
  BY <1>i DEF Bitrix!TypeOK
<1>n. Bitrix!ToSet(<<>>) = {} /\ Bitrix!IsInjective(<<>>)
  BY DEF Bitrix!ToSet, Bitrix!IsInjective
<1>a. /\ 1..xOffered = xDropped \cup Bitrix!ToSet(xQueue) \cup Bitrix!InHand \cup Bitrix!ToSet(xChat)
      /\ \A w \in Bitrix!Writers : Bitrix!ToSet(xHand[w]) \subseteq Bitrix!InHand
  <2>1. \A w \in Bitrix!Writers : Bitrix!ToSet(xHand[w]) \subseteq Bitrix!Numbers
    BY <1>t, BitrixElements
  <2> QED BY <1>i, <2>1 DEF Bitrix!Accounted, Bitrix!InHand
<1> USE DEF Bitrix!sendVars, Bitrix!writerVars, Bitrix!readVars
<1>1. ASSUME NEW created \in BOOLEAN, Bitrix!Start(created)
      PROVE  Bitrix!IInv'
  <2>e. /\ xLife' \in {"failed", "running"} /\ (xGone' = {} \/ xGone' = xGone)
        /\ UNCHANGED <<xOffered, xQueue, xHand, xTries, xChat, xAsked, xLastMsgID, xUnread, xGot, xDropped>>
    BY <1>i, <1>1 DEF Bitrix!Start
  <2>1. Bitrix!TypeOK'
    <3>1. Bitrix!Flags'
      BY <1>i, <1>1 DEF Bitrix!Flags, Bitrix!Start, Bitrix!TypeOK
    <3> QED BY <1>0, <1>i, <2>e, <3>1 DEF Bitrix!TypeOK
  <2>2. Bitrix!Accounted'
    BY <1>0, <1>i, <2>e DEF Bitrix!Accounted, Bitrix!InHand
  <2>3. Bitrix!Distinct'
    BY <1>0, <1>i, <2>e DEF Bitrix!Distinct
  <2>4. Bitrix!PageFollows'
    BY <1>0, <1>i, <2>e DEF Bitrix!PageFollows
  <2>5. Bitrix!ReceivedInOrder'
    <3>1. UNCHANGED <<xGot, xUnread, xLastMsgID, xChat>>
      BY <2>e
    <3>2. Bitrix!Received' = Bitrix!Received
      BY <3>1 DEF Bitrix!Received
    <3> QED BY <1>i, <3>1, <3>2 DEF Bitrix!ReceivedInOrder
  <2> QED BY <2>1, <2>2, <2>3, <2>4, <2>5 DEF Bitrix!IInv
<1>2. CASE Bitrix!Stop
  <2>e. /\ xLife' = "stopped"
        /\ UNCHANGED <<xOffered, xQueue, xHand, xTries, xGone, xChat, xAsked, xLastMsgID, xPolling, xUnread, xGot, xDropped>>
    BY <1>i, <1>2 DEF Bitrix!Stop
  <2>1. Bitrix!TypeOK'
    <3>1. Bitrix!Flags'
      BY <1>i, <2>e DEF Bitrix!TypeOK, Bitrix!Flags
    <3> QED BY <1>0, <1>i, <1>t, <2>e, <3>1 DEF Bitrix!TypeOK
  <2>2. Bitrix!Accounted'
    BY <1>0, <1>i, <2>e DEF Bitrix!Accounted, Bitrix!InHand
  <2>3. Bitrix!Distinct'
    BY <1>0, <1>i, <2>e DEF Bitrix!Distinct
  <2>4. Bitrix!PageFollows'
    BY <1>0, <1>i, <2>e DEF Bitrix!PageFollows
  <2>5. Bitrix!ReceivedInOrder'
    <3>1. UNCHANGED <<xGot, xUnread, xLastMsgID, xChat>>
      BY <2>e
    <3>2. Bitrix!Received' = Bitrix!Received
      BY <3>1 DEF Bitrix!Received
    <3> QED BY <1>i, <3>1, <3>2 DEF Bitrix!ReceivedInOrder
  <2> QED BY <2>1, <2>2, <2>3, <2>4, <2>5 DEF Bitrix!IInv
<1>3. CASE Bitrix!Send
  <2>1. xOffered < Packets /\ xOffered' = xOffered + 1 /\ UNCHANGED <<xLife, xHand, xTries, xGone, xChat, xAsked, xLastMsgID, xPolling, xUnread, xGot>>
    BY <1>3 DEF Bitrix!Send
  <2>2. /\ xOffered \in Nat /\ xOffered + 1 \in Bitrix!Numbers /\ xOffered + 1 \notin 1..xOffered
        /\ 1..(xOffered + 1) = (1..xOffered) \cup {xOffered + 1}
    BY <1>0, <1>i, <2>1 DEF Bitrix!TypeOK, Bitrix!Numbers
  <2>3. CASE Len(xQueue) < MaxQueued
    <3>a. xQueue' = xQueue \o <<xOffered + 1>> /\ xDropped' = xDropped /\ Len(xQueue') = Len(xQueue) + 1
      <4>1. xQueue' = Append(xQueue, xOffered + 1) /\ xDropped' = xDropped
        BY <1>3, <2>3 DEF Bitrix!Send
      <4> QED BY <1>t, <4>1
    <3>b. /\ <<xOffered + 1>> \in Seq(Bitrix!Numbers) /\ Bitrix!ToSet(<<xOffered + 1>>) = {xOffered + 1}
          /\ Bitrix!IsInjective(<<xOffered + 1>>)
      BY <2>2 DEF Bitrix!ToSet, Bitrix!IsInjective
    <3>c. Bitrix!ToSet(xQueue) \cap Bitrix!ToSet(<<xOffered + 1>>) = {}
      BY <1>a, <2>2, <3>b
    <3>d. Bitrix!IsInjective(xQueue)
      BY <1>i DEF Bitrix!Distinct
    <3>e. /\ xQueue' \in Seq(Bitrix!Numbers) /\ Len(xQueue') = Len(xQueue) + 1 /\ Len(xQueue) < MaxQueued
          /\ Bitrix!ToSet(xQueue') = Bitrix!ToSet(xQueue) \cup {xOffered + 1} /\ Bitrix!IsInjective(xQueue')
          /\ xDropped' = xDropped
        BY <1>t, <2>3, <3>a, <3>b, <3>c, <3>d, BitrixJoin
    <3>1. Bitrix!TypeOK'
      <4>1. Bitrix!Flags'
        BY <1>i, <2>1 DEF Bitrix!TypeOK, Bitrix!Flags
      <4> QED BY <1>0, <1>i, <1>t, <2>1, <2>2, <3>e, <4>1 DEF Bitrix!TypeOK
    <3>2. Bitrix!Accounted'
      BY <1>a, <2>1, <2>2, <3>e DEF Bitrix!Accounted, Bitrix!InHand
    <3>3. Bitrix!Distinct'
      BY <1>i, <1>a, <2>1, <2>2, <3>e DEF Bitrix!Distinct
    <3>4. Bitrix!PageFollows'
      BY <1>i, <2>1 DEF Bitrix!PageFollows
    <3>5. Bitrix!ReceivedInOrder'
      <4>1. UNCHANGED <<xGot, xUnread, xLastMsgID, xChat>>
        BY <2>1
      <4>2. Bitrix!Received' = Bitrix!Received
        BY <4>1 DEF Bitrix!Received
      <4> QED BY <1>i, <4>1, <4>2 DEF Bitrix!ReceivedInOrder
    <3> QED BY <3>1, <3>2, <3>3, <3>4, <3>5 DEF Bitrix!IInv
  <2>4. CASE ~(Len(xQueue) < MaxQueued)
    <3>e. /\ xDropped' = xDropped \cup {xOffered + 1} /\ xQueue' = xQueue
      BY <1>i, <2>4, <1>3 DEF Bitrix!Send
    <3>1. Bitrix!TypeOK'
      <4>1. Bitrix!Flags'
        BY <1>i, <2>1 DEF Bitrix!TypeOK, Bitrix!Flags
      <4> QED BY <1>0, <1>i, <1>t, <2>1, <2>2, <3>e, <4>1 DEF Bitrix!TypeOK
    <3>2. Bitrix!Accounted'
      BY <1>a, <2>1, <2>2, <3>e DEF Bitrix!Accounted, Bitrix!InHand
    <3>3. Bitrix!Distinct'
      BY <1>i, <2>1, <3>e DEF Bitrix!Distinct
    <3>4. Bitrix!PageFollows'
      BY <1>i, <2>1 DEF Bitrix!PageFollows
    <3>5. Bitrix!ReceivedInOrder'
      <4>1. UNCHANGED <<xGot, xUnread, xLastMsgID, xChat>>
        BY <2>1
      <4>2. Bitrix!Received' = Bitrix!Received
        BY <4>1 DEF Bitrix!Received
      <4> QED BY <1>i, <4>1, <4>2 DEF Bitrix!ReceivedInOrder
    <3> QED BY <3>1, <3>2, <3>3, <3>4, <3>5 DEF Bitrix!IInv
  <2> QED BY <2>3, <2>4
<1>4. ASSUME NEW w \in Bitrix!Writers, Bitrix!Take(w)
      PROVE  Bitrix!IInv'
  <2>a. PICK n \in 1..BatchSize : /\ n <= Len(xQueue) /\ xHand' = [xHand EXCEPT ![w] = SubSeq(xQueue, 1, n)]
                                   /\ xQueue' = SubSeq(xQueue, n + 1, Len(xQueue))
    BY <1>4 DEF Bitrix!Take
  <2>b. /\ n \in 0..Len(xQueue) /\ n <= BatchSize /\ xHand[w] = <<>> /\ Bitrix!IsInjective(xQueue)
        /\ UNCHANGED <<xLife, xOffered, xTries, xGone, xChat, xAsked, xLastMsgID, xPolling, xUnread, xGot, xDropped>>
    BY <1>0, <1>i, <1>t, <2>a, <1>4 DEF Bitrix!Take, Bitrix!Idle, Bitrix!Distinct
  <2>c. /\ xHand'[w] = SubSeq(xQueue, 1, n) /\ xHand' \in [Bitrix!Writers -> Seq(Bitrix!Numbers)]
        /\ xHand'[w] \in Seq(Bitrix!Numbers) /\ xQueue' \in Seq(Bitrix!Numbers)
        /\ Len(xHand'[w]) = n /\ Len(xQueue') = Len(xQueue) - n /\ Len(xQueue) - n \in Nat /\ Len(xQueue) - n <= Len(xQueue)
        /\ Bitrix!ToSet(xQueue) = Bitrix!ToSet(xHand'[w]) \cup Bitrix!ToSet(xQueue')
        /\ Bitrix!ToSet(xHand'[w]) \cap Bitrix!ToSet(xQueue') = {}
        /\ Bitrix!IsInjective(xHand'[w]) /\ Bitrix!IsInjective(xQueue')
    <3>1. SubSeq(xQueue, 1, n) \in Seq(Bitrix!Numbers) /\ n \in Nat /\ n <= Len(xQueue)
      BY <1>t, <2>b, BitrixSplit
    <3>2. xHand'[w] = SubSeq(xQueue, 1, n) /\ xHand' \in [Bitrix!Writers -> Seq(Bitrix!Numbers)]
      BY <1>t, <2>a, <3>1
    <3>3. Len(xQueue) - n \in Nat /\ Len(xQueue) - n <= Len(xQueue)
      BY <1>t, <3>1
    <3> QED BY <1>t, <2>a, <2>b, <3>1, <3>2, <3>3, BitrixSplit
  <2>e. /\ xHand[w] = <<>> /\ xHand' \in [Bitrix!Writers -> Seq(Bitrix!Numbers)]
        /\ \A v \in Bitrix!Writers \ {w} : xHand'[v] = xHand[v]
        /\ Len(xHand'[w]) <= BatchSize /\ xQueue' \in Seq(Bitrix!Numbers) /\ Len(xQueue') <= Len(xQueue) /\ Len(xQueue') \in Nat
        /\ Bitrix!ToSet(xQueue) = Bitrix!ToSet(xHand'[w]) \cup Bitrix!ToSet(xQueue') /\ Bitrix!ToSet(xHand'[w]) \subseteq Bitrix!Numbers
        /\ Bitrix!ToSet(xHand'[w]) \cap Bitrix!ToSet(xQueue') = {}
        /\ Bitrix!IsInjective(xHand'[w]) /\ Bitrix!IsInjective(xQueue')
        /\ UNCHANGED <<xLife, xOffered, xTries, xGone, xChat, xAsked, xLastMsgID, xPolling, xUnread, xGot, xDropped>>
    <3>1. Bitrix!ToSet(xHand'[w]) \subseteq Bitrix!Numbers
      BY <2>c, BitrixElements
    <3> QED BY <2>a, <2>b, <2>c, <3>1
  <2>1. Bitrix!TypeOK'
    <3>1. Bitrix!Flags'
      BY <1>i, <2>e DEF Bitrix!TypeOK, Bitrix!Flags
    <3>2. \A v \in Bitrix!Writers : Len(xHand'[v]) <= BatchSize
      BY <1>i, <2>e DEF Bitrix!TypeOK
    <3>3. Len(xQueue') <= MaxQueued
      BY <1>0, <1>i, <1>t, <2>e DEF Bitrix!TypeOK
    <3> QED BY <1>i, <2>e, <3>1, <3>2, <3>3 DEF Bitrix!TypeOK
  <2>2. Bitrix!Accounted'
    <3>1. Bitrix!InHand' = Bitrix!InHand \cup Bitrix!ToSet(xHand'[w])
      BY <1>n, <2>e DEF Bitrix!InHand
    <3> QED BY <1>a, <2>e, <3>1 DEF Bitrix!Accounted
  <2>3. Bitrix!Distinct'
    <3>1. Bitrix!IsInjective(xQueue') /\ Bitrix!IsInjective(xChat) /\ Bitrix!ToSet(xQueue') \cap Bitrix!ToSet(xChat) = {}
      BY <1>i, <2>e DEF Bitrix!Distinct
    <3>2. ASSUME NEW v \in Bitrix!Writers
          PROVE  /\ Bitrix!IsInjective(xHand'[v])
                 /\ Bitrix!ToSet(xHand'[v]) \cap Bitrix!ToSet(xQueue') = {}
                 /\ Bitrix!ToSet(xHand'[v]) \cap Bitrix!ToSet(xChat) = {}
      <4>1. CASE v = w
        BY <1>i, <2>e, <4>1 DEF Bitrix!Distinct
      <4>2. CASE v # w
        BY <1>i, <2>e, <4>2 DEF Bitrix!Distinct
      <4> QED BY <4>1, <4>2
    <3>3. \A u, v \in Bitrix!Writers : v # u => Bitrix!ToSet(xHand'[v]) \cap Bitrix!ToSet(xHand'[u]) = {}
      BY <1>i, <2>e DEF Bitrix!Distinct
    <3> QED BY <2>e, <3>1, <3>2, <3>3 DEF Bitrix!Distinct
  <2>4. Bitrix!PageFollows'
    BY <1>0, <1>i, <2>e DEF Bitrix!PageFollows
  <2>5. Bitrix!ReceivedInOrder'
    <3>1. UNCHANGED <<xGot, xUnread, xLastMsgID, xChat>>
      BY <2>e
    <3>2. Bitrix!Received' = Bitrix!Received
      BY <3>1 DEF Bitrix!Received
    <3> QED BY <1>i, <3>1, <3>2 DEF Bitrix!ReceivedInOrder
  <2> QED BY <2>1, <2>2, <2>3, <2>4, <2>5 DEF Bitrix!IInv
<1>5. ASSUME NEW w \in Bitrix!Writers, NEW places \in Bitrix!Places(xHand[w]), Bitrix!Post(w, places)
      PROVE  Bitrix!IInv'
  <2> DEFINE t == Bitrix!Taken(w, places)
             d == Bitrix!ToSet(xHand[w]) \ Bitrix!ToSet(t)
  <2>1. /\ t \in Seq(Bitrix!Numbers) /\ Bitrix!ToSet(t) \subseteq Bitrix!ToSet(xHand[w]) /\ Bitrix!IsInjective(t)
    BY <1>i, BitrixTaken DEF Bitrix!Distinct
  <2>2. /\ xChat' = xChat \o t /\ xDropped' = xDropped \cup d /\ Bitrix!Empty(w)
        /\ UNCHANGED <<xLife, xOffered, xQueue, xGone, xAsked, xLastMsgID,
                    xPolling, xUnread, xGot>>
    BY <1>5 DEF Bitrix!Post
  <2>3. d \subseteq Bitrix!ToSet(xHand[w]) /\ Bitrix!ToSet(xHand[w]) \subseteq Bitrix!ToSet(t) \cup d
    OBVIOUS
  <2> HIDE DEF t, d
  <2> QED BY <2>1, <2>2, <2>3, BitrixHandsOver
<1>6. ASSUME NEW w \in Bitrix!Writers, NEW posted \in BOOLEAN, Bitrix!PostFails(w, posted)
      PROVE  Bitrix!IInv'
  <2> DEFINE d == Bitrix!ToSet(xHand[w])
  <2>1. /\ xDropped' = xDropped \cup d /\ Bitrix!Empty(w)
        /\ UNCHANGED <<xLife, xOffered, xQueue, xGone, xAsked, xLastMsgID,
                    xPolling, xUnread, xGot>>
    BY <1>6 DEF Bitrix!PostFails
  <2>2. xHand[w] \in Seq(Bitrix!Numbers) /\ Bitrix!IsInjective(xHand[w])
    BY <1>i, <1>t DEF Bitrix!Distinct
  <2>3. xChat' = xChat \o xHand[w] \/ xChat' = xChat \o <<>>
    BY <1>t, <1>6 DEF Bitrix!PostFails
  <2>4. d \subseteq Bitrix!ToSet(xHand[w]) /\ Bitrix!ToSet(xHand[w]) \subseteq d
    OBVIOUS
  <2> HIDE DEF d
  <2>5. CASE xChat' = xChat \o xHand[w]
    BY <2>1, <2>2, <2>4, <2>5, BitrixHandsOver
  <2>6. CASE xChat' = xChat \o <<>>
    BY <1>t, <1>n, <2>1, <2>4, <2>6, BitrixHandsOver
  <2> QED BY <2>3, <2>5, <2>6
<1>7. ASSUME NEW w \in Bitrix!Writers, Bitrix!RateLimited(w)
      PROVE  Bitrix!IInv'
  <2>1. CASE xTries[w] + 1 < MaxTries /\ xLife = "running"
    <3>a. xTries \in [Bitrix!Writers -> 0..MaxTries] /\ xTries' = [xTries EXCEPT ![w] = xTries[w] + 1]
      BY <1>i, <2>1, <1>7 DEF Bitrix!RateLimited, Bitrix!TypeOK
    <3>b. xTries[w] + 1 \in 0..MaxTries
      BY <1>0, <2>1, <3>a
    <3>e. /\ xTries' \in [Bitrix!Writers -> 0..MaxTries]
          /\ UNCHANGED <<xLife, xOffered, xQueue, xHand, xGone, xChat, xAsked, xLastMsgID, xPolling, xUnread, xGot, xDropped>>
      BY <2>1, <3>a, <3>b, <1>7 DEF Bitrix!RateLimited
    <3>1. Bitrix!TypeOK'
      <4>1. Bitrix!Flags'
        BY <1>i, <3>e DEF Bitrix!TypeOK, Bitrix!Flags
      <4> QED BY <1>0, <1>i, <1>t, <3>e, <4>1 DEF Bitrix!TypeOK
    <3>2. Bitrix!Accounted'
      BY <1>0, <1>i, <3>e DEF Bitrix!Accounted, Bitrix!InHand
    <3>3. Bitrix!Distinct'
      BY <1>0, <1>i, <3>e DEF Bitrix!Distinct
    <3>4. Bitrix!PageFollows'
      BY <1>0, <1>i, <3>e DEF Bitrix!PageFollows
    <3>5. Bitrix!ReceivedInOrder'
      <4>1. UNCHANGED <<xGot, xUnread, xLastMsgID, xChat>>
        BY <3>e
      <4>2. Bitrix!Received' = Bitrix!Received
        BY <4>1 DEF Bitrix!Received
      <4> QED BY <1>i, <4>1, <4>2 DEF Bitrix!ReceivedInOrder
    <3> QED BY <3>1, <3>2, <3>3, <3>4, <3>5 DEF Bitrix!IInv
  <2>2. CASE ~(xTries[w] + 1 < MaxTries /\ xLife = "running")
    <3> DEFINE d == Bitrix!ToSet(xHand[w])
    <3>1. /\ xDropped' = xDropped \cup d /\ Bitrix!Empty(w) /\ xChat' = xChat \o <<>>
          /\ UNCHANGED <<xLife, xOffered, xQueue, xGone, xAsked, xLastMsgID,
                      xPolling, xUnread, xGot>>
      BY <1>t, <1>7, <2>2 DEF Bitrix!RateLimited
    <3>2. d \subseteq Bitrix!ToSet(xHand[w]) /\ Bitrix!ToSet(xHand[w]) \subseteq d
      OBVIOUS
    <3> HIDE DEF d
    <3> QED BY <1>t, <1>n, <3>1, <3>2, BitrixHandsOver
  <2> QED BY <2>1, <2>2
<1>8. ASSUME NEW w \in Bitrix!Writers, Bitrix!WriterEnds(w)
      PROVE  Bitrix!IInv'
  <2>e. /\ xGone' = xGone \cup {w}
        /\ UNCHANGED <<xLife, xOffered, xQueue, xHand, xTries, xChat, xAsked, xLastMsgID, xPolling, xUnread, xGot, xDropped>>
    BY <1>i, <1>8 DEF Bitrix!WriterEnds
  <2>1. Bitrix!TypeOK'
    <3>1. Bitrix!Flags'
      BY <1>i, <2>e DEF Bitrix!TypeOK, Bitrix!Flags
    <3> QED BY <1>0, <1>i, <1>t, <2>e, <3>1 DEF Bitrix!TypeOK
  <2>2. Bitrix!Accounted'
    BY <1>0, <1>i, <2>e DEF Bitrix!Accounted, Bitrix!InHand
  <2>3. Bitrix!Distinct'
    BY <1>0, <1>i, <2>e DEF Bitrix!Distinct
  <2>4. Bitrix!PageFollows'
    BY <1>0, <1>i, <2>e DEF Bitrix!PageFollows
  <2>5. Bitrix!ReceivedInOrder'
    <3>1. UNCHANGED <<xGot, xUnread, xLastMsgID, xChat>>
      BY <2>e
    <3>2. Bitrix!Received' = Bitrix!Received
      BY <3>1 DEF Bitrix!Received
    <3> QED BY <1>i, <3>1, <3>2 DEF Bitrix!ReceivedInOrder
  <2> QED BY <2>1, <2>2, <2>3, <2>4, <2>5 DEF Bitrix!IInv
<1>9. CASE Bitrix!Poll
  <2> DEFINE e == IF Len(xChat) < xLastMsgID + Page THEN Len(xChat) ELSE xLastMsgID + Page
  <2>a. xAsked' = SubSeq(xChat, xLastMsgID + 1, e)
    BY <1>9 DEF Bitrix!Poll
  <2>b. e \in Nat /\ xLastMsgID <= e /\ e <= Len(xChat)
    BY <1>0, <1>t
  <2> HIDE DEF e
  <2>c. SubSeq(xChat, xLastMsgID + 1, e) \in Seq(Bitrix!Numbers) /\ Len(SubSeq(xChat, xLastMsgID + 1, e)) = e - xLastMsgID
    BY <1>t, <2>b
  <2>d. \A i \in 1..(e - xLastMsgID) : SubSeq(xChat, xLastMsgID + 1, e)[i] = xChat[xLastMsgID + i]
    BY <1>t, <2>b
  <2>f. UNCHANGED <<xLife, xOffered, xQueue, xHand, xTries, xGone, xChat, xLastMsgID, xPolling, xUnread, xGot, xDropped>>
    BY <1>9 DEF Bitrix!Poll
  <2>g. /\ xAsked' \in Seq(Bitrix!Numbers) /\ Len(xAsked') = e - xLastMsgID
        /\ \A i \in 1..(e - xLastMsgID) : xAsked'[i] = xChat[xLastMsgID + i]
    BY <2>a, <2>c, <2>d
  <2>e. /\ xAsked' \in Seq(Bitrix!Numbers) /\ xLastMsgID + Len(xAsked') <= Len(xChat)
        /\ \A i \in 1..Len(xAsked') : xAsked'[i] = xChat[xLastMsgID + i]
        /\ UNCHANGED <<xLife, xOffered, xQueue, xHand, xTries, xGone, xChat, xLastMsgID, xPolling, xUnread, xGot, xDropped>>
    <3>1. Len(xChat) \in Nat /\ xLastMsgID \in Nat
      BY <1>t
    <3>2. xLastMsgID + Len(xAsked') <= Len(xChat)
      BY <2>b, <2>g, <3>1
    <3> QED BY <2>f, <2>g, <3>2
  <2>1. Bitrix!TypeOK'
    <3>1. Bitrix!Flags'
      BY <1>i, <2>e DEF Bitrix!TypeOK, Bitrix!Flags
    <3> QED BY <1>0, <1>i, <1>t, <2>e, <3>1 DEF Bitrix!TypeOK
  <2>2. Bitrix!Accounted'
    BY <1>0, <1>i, <2>e DEF Bitrix!Accounted, Bitrix!InHand
  <2>3. Bitrix!Distinct'
    BY <1>0, <1>i, <2>e DEF Bitrix!Distinct
  <2>4. Bitrix!PageFollows'
    BY <1>0, <1>i, <2>e DEF Bitrix!PageFollows
  <2>5. Bitrix!ReceivedInOrder'
    <3>1. UNCHANGED <<xGot, xUnread, xLastMsgID, xChat>>
      BY <2>e
    <3>2. Bitrix!Received' = Bitrix!Received
      BY <3>1 DEF Bitrix!Received
    <3> QED BY <1>i, <3>1, <3>2 DEF Bitrix!ReceivedInOrder
  <2> QED BY <2>1, <2>2, <2>3, <2>4, <2>5 DEF Bitrix!IInv
<1>10. CASE Bitrix!GotPage
  <2> DEFINE m == IF Len(xAsked) <= MaxUnread - Len(xUnread) THEN Len(xAsked) ELSE MaxUnread - Len(xUnread)
             f == Bitrix!Fits
  <2>a. /\ xAsked # None /\ xAsked \in Seq(Bitrix!Numbers) /\ Len(xAsked) \in Nat
        /\ xLastMsgID + Len(xAsked) <= Len(xChat)
        /\ \A i \in 1..Len(xAsked) : xAsked[i] = xChat[xLastMsgID + i]
    BY <1>i, <1>t, <1>10 DEF Bitrix!GotPage, Bitrix!PageFollows
  <2>b. /\ m \in Nat /\ m <= Len(xAsked) /\ Len(xUnread) + m <= MaxUnread
        /\ f \in Seq(Bitrix!Numbers) /\ Len(f) = m /\ \A i \in 1..m : f[i] = xAsked[i]
    <3>1. Len(xUnread) <= MaxUnread
      BY <1>i DEF Bitrix!TypeOK
    <3>2. m \in Nat /\ m <= Len(xAsked) /\ m \in 0..Len(xAsked) /\ Len(xUnread) + m <= MaxUnread
      BY <1>0, <1>t, <2>a, <3>1
    <3>3. f = SubSeq(xAsked, 1, m)
      BY DEF Bitrix!Fits
    <3> HIDE DEF m, f
    <3> QED BY <2>a, <3>2, <3>3, BitrixSplit
  <2>c. /\ xLastMsgID' = xLastMsgID + Len(xAsked) /\ xUnread' = xUnread \o f /\ xAsked' = None
        /\ xDropped' = xDropped \cup (Bitrix!ToSet(xAsked) \ Bitrix!ToSet(f))
        /\ UNCHANGED <<xLife, xOffered, xQueue, xHand, xTries, xGone, xChat, xPolling, xGot>>
    BY <1>10 DEF Bitrix!GotPage, Bitrix!LastSeen
  <2> HIDE DEF m, f
  <2>1. Bitrix!TypeOK'
    <3>1. Bitrix!Flags'
      BY <1>i, <2>c DEF Bitrix!TypeOK, Bitrix!Flags
    <3>2. xDropped' \subseteq Bitrix!Numbers
      <4>1. Bitrix!ToSet(xAsked) \subseteq Bitrix!Numbers
        BY <2>a, BitrixElements
      <4> QED BY <1>i, <2>c, <4>1 DEF Bitrix!TypeOK
    <3>3. xLastMsgID' \in 0..Len(xChat)
      BY <1>t, <2>a, <2>c
    <3>4. Len(xUnread') <= MaxUnread /\ xUnread' \in Seq(Bitrix!Numbers)
      BY <1>0, <1>t, <2>b, <2>c
    <3> QED BY <1>i, <2>c, <3>1, <3>2, <3>3, <3>4 DEF Bitrix!TypeOK
  <2>2. Bitrix!Accounted'
    <3>1. \A i \in 1..Len(xAsked) : xLastMsgID + i \in 1..Len(xChat)
      BY <1>t, <2>a
    <3>2. \A i \in 1..Len(xAsked) : xAsked[i] \in Bitrix!ToSet(xChat)
      BY <1>t, <2>a, <3>1, BitrixElements
    <3>3. Bitrix!ToSet(xAsked) \subseteq Bitrix!ToSet(xChat)
      BY <2>a, <3>2, BitrixElements
    <3>4. Bitrix!InHand' = Bitrix!InHand
      BY <2>c DEF Bitrix!InHand
    <3> QED BY <1>a, <2>c, <3>3, <3>4 DEF Bitrix!Accounted
  <2>3. Bitrix!Distinct'
    BY <1>i, <2>c DEF Bitrix!Distinct
  <2>4. Bitrix!PageFollows'
    BY <2>c DEF Bitrix!PageFollows
  <2>5. Bitrix!ReceivedInOrder'
    <3> DEFINE R == xGot \o xUnread
               Q == xGot \o xUnread'
    <3>1. /\ Len(R) \in Nat /\ Len(Q) = Len(R) + m
          /\ \A i \in 1..Len(R) : Q[i] = R[i]
          /\ \A i \in 1..m : Q[Len(R) + i] = f[i]
      <4>1. /\ xUnread' \in Seq(Bitrix!Numbers) /\ Len(xUnread') = Len(xUnread) + m
            /\ \A i \in 1..Len(xUnread) : xUnread'[i] = xUnread[i]
            /\ \A i \in 1..m : xUnread'[Len(xUnread) + i] = f[i]
        <5>1. xUnread \in Seq(Bitrix!Numbers) /\ f \in Seq(Bitrix!Numbers) /\ Len(f) = m
          BY <1>t, <2>b
        <5> HIDE DEF R, Q
        <5>2. /\ xUnread \o f \in Seq(Bitrix!Numbers) /\ Len(xUnread \o f) = Len(xUnread) + m
              /\ \A i \in 1..Len(xUnread) : (xUnread \o f)[i] = xUnread[i]
              /\ \A i \in 1..m : (xUnread \o f)[Len(xUnread) + i] = f[i]
          BY <5>1
        <5> QED BY <2>c, <5>2
      <4>2. Len(R) = Len(xGot) + Len(xUnread) /\ Len(Q) = Len(xGot) + Len(xUnread')
        <5>1. xGot \in Seq(Bitrix!Numbers) /\ xUnread \in Seq(Bitrix!Numbers) /\ xUnread' \in Seq(Bitrix!Numbers)
          BY <1>t, <4>1
        <5> QED BY <5>1
      <4>3. /\ \A i \in 1..Len(xGot) : Q[i] = xGot[i] /\ R[i] = xGot[i]
            /\ \A i \in 1..Len(xUnread) : R[Len(xGot) + i] = xUnread[i]
            /\ \A i \in 1..Len(xUnread') : Q[Len(xGot) + i] = xUnread'[i]
        <5>1. xGot \in Seq(Bitrix!Numbers) /\ xUnread \in Seq(Bitrix!Numbers) /\ xUnread' \in Seq(Bitrix!Numbers)
          BY <1>t, <4>1
        <5> QED BY <5>1
      <4> HIDE DEF R, Q
      <4>4. ASSUME NEW i \in 1..Len(R)
            PROVE  Q[i] = R[i]
        <5>1. CASE i \in 1..Len(xGot)
          BY <4>3, <5>1
        <5>2. CASE i \notin 1..Len(xGot)
          <6> DEFINE h == i - Len(xGot)
          <6>1. h \in 1..Len(xUnread) /\ h \in 1..Len(xUnread') /\ i = Len(xGot) + h
            BY <1>t, <2>b, <4>1, <4>2, <5>2
          <6> HIDE DEF h
          <6> QED BY <4>1, <4>3, <6>1
        <5> QED BY <5>1, <5>2
      <4>5. ASSUME NEW i \in 1..m
            PROVE  Q[Len(R) + i] = f[i]
        <5>1. Len(xUnread) + i \in 1..Len(xUnread') /\ Len(R) + i = Len(xGot) + (Len(xUnread) + i)
          BY <1>t, <2>b, <4>1, <4>2
        <5> QED BY <4>1, <4>3, <5>1
      <4> QED BY <1>t, <2>b, <4>1, <4>2, <4>4, <4>5
    <3>2. /\ \A i \in 1..Len(R) : \E k \in 1..xLastMsgID : R[i] = xChat[k]
          /\ \A i, j \in 1..Len(R), k, l \in 1..Len(xChat) : i < j /\ R[i] = xChat[k] /\ R[j] = xChat[l] => k < l
      BY <1>i DEF Bitrix!ReceivedInOrder, Bitrix!Received
    <3>3. Q = Bitrix!Received'
      BY <2>c DEF Bitrix!Received
    <3>4. \A k, l \in 1..Len(xChat) : xChat[k] = xChat[l] => k = l
      BY <1>i, <1>t, BitrixElements DEF Bitrix!Distinct
    <3>5. \A i \in 1..m : xLastMsgID + i \in 1..Len(xChat) /\ xLastMsgID + i \in 1..xLastMsgID' /\ f[i] = xChat[xLastMsgID + i]
      <4>1. \A i \in 1..m : i \in 1..Len(xAsked) /\ xLastMsgID + i \in 1..Len(xChat) /\ xLastMsgID + i \in 1..(xLastMsgID + Len(xAsked))
        BY <1>t, <2>a, <2>b
      <4> QED BY <2>a, <2>b, <2>c, <4>1
    <3> HIDE DEF R, Q
    <3>6. ASSUME NEW i \in 1..Len(Q), i \notin 1..Len(R)
          PROVE  \E k \in 1..m : i = Len(R) + k /\ Q[i] = xChat[xLastMsgID + k]
      <4>1. i - Len(R) \in 1..m /\ i = Len(R) + (i - Len(R))
        BY <2>b, <3>1, <3>6
      <4> QED BY <3>1, <3>5, <4>1
    <3>7. ASSUME NEW i \in 1..Len(R)
          PROVE  \E k \in 1..xLastMsgID : k \in 1..Len(xChat) /\ k \in 1..xLastMsgID' /\ Q[i] = xChat[k]
      <4>1. PICK k \in 1..xLastMsgID : R[i] = xChat[k]
        BY <3>2
      <4>2. k \in 1..Len(xChat) /\ k \in 1..xLastMsgID'
        BY <1>t, <2>a, <2>c
      <4> QED BY <3>1, <4>1, <4>2
    <3>8. \A i \in 1..Len(Q) : \E k \in 1..xLastMsgID' : Q[i] = xChat[k]
      BY <3>5, <3>6, <3>7
    <3>9. ASSUME NEW i \in 1..Len(Q), NEW j \in 1..Len(Q), NEW k \in 1..Len(xChat), NEW l \in 1..Len(xChat),
                 i < j, Q[i] = xChat[k], Q[j] = xChat[l]
          PROVE  k < l
      <4>1. CASE i \in 1..Len(R) /\ j \in 1..Len(R)
        BY <3>1, <3>2, <3>9, <4>1
      <4>2. CASE i \in 1..Len(R) /\ j \notin 1..Len(R)
        <5>1. PICK a \in 1..xLastMsgID : a \in 1..Len(xChat) /\ Q[i] = xChat[a]
          BY <3>7, <4>2
        <5>2. PICK b \in 1..m : Q[j] = xChat[xLastMsgID + b]
          BY <3>6, <4>2
        <5>3. k = a /\ l = xLastMsgID + b
          BY <3>4, <3>5, <3>9, <5>1, <5>2
        <5> QED BY <1>t, <2>b, <5>3
      <4>3. CASE i \notin 1..Len(R) /\ j \notin 1..Len(R)
        <5>1. PICK a \in 1..m : i = Len(R) + a /\ Q[i] = xChat[xLastMsgID + a]
          BY <3>6, <4>3
        <5>2. PICK b \in 1..m : j = Len(R) + b /\ Q[j] = xChat[xLastMsgID + b]
          BY <3>6, <4>3
        <5>3. k = xLastMsgID + a /\ l = xLastMsgID + b
          BY <3>4, <3>5, <3>9, <5>1, <5>2
        <5> QED BY <1>t, <2>b, <3>1, <3>9, <5>1, <5>2, <5>3
      <4>4. i \notin 1..Len(R) => j \notin 1..Len(R)
        BY <2>b, <3>1, <3>9
      <4> QED BY <4>1, <4>2, <4>3, <4>4
    <3> QED BY <2>c, <3>3, <3>8, <3>9 DEF Bitrix!ReceivedInOrder
  <2> QED BY <2>1, <2>2, <2>3, <2>4, <2>5 DEF Bitrix!IInv
<1>11. CASE Bitrix!PollEnds
  <2>e. /\ UNCHANGED <<xLife, xOffered, xQueue, xHand, xTries, xGone, xChat, xAsked, xLastMsgID, xUnread, xGot, xDropped>>
    BY <1>i, <1>11 DEF Bitrix!PollEnds
  <2>1. Bitrix!TypeOK'
    <3>1. Bitrix!Flags'
      BY <1>11 DEF Bitrix!Flags, Bitrix!PollEnds
    <3> QED BY <1>0, <1>i, <2>e, <3>1 DEF Bitrix!TypeOK
  <2>2. Bitrix!Accounted'
    BY <1>0, <1>i, <2>e DEF Bitrix!Accounted, Bitrix!InHand
  <2>3. Bitrix!Distinct'
    BY <1>0, <1>i, <2>e DEF Bitrix!Distinct
  <2>4. Bitrix!PageFollows'
    BY <1>0, <1>i, <2>e DEF Bitrix!PageFollows
  <2>5. Bitrix!ReceivedInOrder'
    <3>1. UNCHANGED <<xGot, xUnread, xLastMsgID, xChat>>
      BY <2>e
    <3>2. Bitrix!Received' = Bitrix!Received
      BY <3>1 DEF Bitrix!Received
    <3> QED BY <1>i, <3>1, <3>2 DEF Bitrix!ReceivedInOrder
  <2> QED BY <2>1, <2>2, <2>3, <2>4, <2>5 DEF Bitrix!IInv
<1>12. CASE Bitrix!Deliver
  <2>a. xUnread # <<>> /\ xGot' = Append(xGot, Head(xUnread)) /\ xUnread' = Tail(xUnread)
    BY <1>12 DEF Bitrix!Deliver
  <2>e. /\ xGot' \in Seq(Bitrix!Numbers) /\ xUnread' \in Seq(Bitrix!Numbers) /\ Len(xUnread') <= Len(xUnread) /\ Len(xUnread') \in Nat
        /\ UNCHANGED <<xLife, xOffered, xQueue, xHand, xTries, xGone, xChat, xAsked, xLastMsgID, xPolling, xDropped>>
    BY <1>i, <1>12, <1>t, <2>a DEF Bitrix!Deliver
  <2>1. Bitrix!TypeOK'
    <3>1. Bitrix!Flags'
      BY <1>i, <2>e DEF Bitrix!TypeOK, Bitrix!Flags
    <3> QED BY <1>0, <1>i, <1>t, <2>e, <3>1 DEF Bitrix!TypeOK
  <2>2. Bitrix!Accounted'
    BY <1>0, <1>i, <2>e DEF Bitrix!Accounted, Bitrix!InHand
  <2>3. Bitrix!Distinct'
    BY <1>0, <1>i, <2>e DEF Bitrix!Distinct
  <2>4. Bitrix!PageFollows'
    BY <1>0, <1>i, <2>e DEF Bitrix!PageFollows
  <2>5. Bitrix!ReceivedInOrder'
    <3>1. /\ Len(Bitrix!Received') = Len(Bitrix!Received)
          /\ \A i \in 1..Len(Bitrix!Received) : Bitrix!Received'[i] = Bitrix!Received[i]
      BY <1>t, <2>a, <2>e DEF Bitrix!Received
    <3> QED BY <1>i, <2>e, <3>1 DEF Bitrix!ReceivedInOrder
  <2> QED BY <2>1, <2>2, <2>3, <2>4, <2>5 DEF Bitrix!IInv
<1> QED BY <1>1, <1>2, <1>3, <1>4, <1>5, <1>6, <1>7, <1>8, <1>9, <1>10, <1>11, <1>12 DEF Bitrix!Next, Bitrix!Posts

-----------------------------------------------------------------------------
\* Nothing happens to a carrier that was made: its invariant stays.

\* While nothing happens to a Telemost call, its invariant stays.
LEMMA TelemostRests ==
    ASSUME Telemost!IInv, UNCHANGED telemostVars
    PROVE  Telemost!IInv'
<1>1. UNCHANGED <<tScene, tLife, tConnected, tChain, tAttempt, tVain, tCalls, tConn,
        tOpen, tGreeted, tAnnouncers, tTold, tPublisher, tPub, tReady, tClocks,
        tSubscriber, tSub, tReaders, tLate>>
  BY DEF telemostVars
<1>2. Telemost!TypeOK'
  BY <1>1 DEF Telemost!IInv, Telemost!TypeOK, Telemost!Flags
<1>3. Telemost!Counted'
  BY <1>1 DEF Telemost!IInv, Telemost!Counted
<1>4. Telemost!OneSocket'
  BY <1>1 DEF Telemost!IInv, Telemost!OneSocket
<1>5. Telemost!GivesUpInVain'
  BY <1>1 DEF Telemost!IInv, Telemost!GivesUpInVain
<1>6. Telemost!Honest'
  BY <1>1 DEF Telemost!IInv, Telemost!Honest
<1>7. Telemost!StopHolds'
  BY <1>1 DEF Telemost!IInv, Telemost!StopHolds
<1> QED BY <1>2, <1>3, <1>4, <1>5, <1>6, <1>7 DEF Telemost!IInv

\* While nothing happens to a Volga carrier, its invariant stays.
LEMMA VolgaRests ==
    ASSUME Volga!IInv, UNCHANGED volgaVars
    PROVE  Volga!IInv'
<1>1. UNCHANGED <<vRunning, vConnected, vStop, vLeaving, vBad, vTask, vMade, vLinked,
        vLinks, vLive, vWs, vWorker, vReported, vLate, vCrossed>>
  BY DEF volgaVars
<1>2. Volga!TypeOK'
  BY <1>1 DEF Volga!IInv, Volga!TypeOK, Volga!Flags
<1>3. Volga!MadeTyped'
  BY <1>1 DEF Volga!IInv, Volga!MadeTyped
<1>4. Volga!OneMaker'
  BY <1>1 DEF Volga!IInv, Volga!OneMaker, Volga!AtWork, Volga!Comes
<1>5. Volga!OneLink'
  BY <1>1 DEF Volga!IInv, Volga!OneLink, Volga!Publishing
<1>6. Volga!Stopped'
  BY <1>1 DEF Volga!IInv, Volga!Stopped, Volga!Publishing
<1>7. Volga!StopHolds'
  BY <1>1 DEF Volga!IInv, Volga!StopHolds, Volga!Publishing
<1> QED BY <1>2, <1>3, <1>4, <1>5, <1>6, <1>7 DEF Volga!IInv

\* While nothing happens to a board, its invariant stays.
LEMMA BoardsRests ==
    ASSUME Boards!IInv, UNCHANGED boardsVars
    PROVE  Boards!IInv'
<1>1. UNCHANGED <<bStart, bStops, bClosed, bConnected, bLoop, bSession, bSessions, bOpen,
        bWriters, bKeepers, bCreator, bQueued, bBoard, bEchoed, bApplies>>
  BY DEF boardsVars
<1>2. Boards!TypeOK'
  BY <1>1 DEF Boards!IInv, Boards!TypeOK, Boards!Flags
<1>3. Boards!Writing'
  BY <1>1 DEF Boards!IInv, Boards!Writing
<1>4. Boards!Honest'
  BY <1>1 DEF Boards!IInv, Boards!Honest
<1>5. Boards!Attended'
  BY <1>1 DEF Boards!IInv, Boards!Attended
<1>6. Boards!NoEcho'
  BY <1>1 DEF Boards!IInv, Boards!NoEcho
<1> QED BY <1>2, <1>3, <1>4, <1>5, <1>6 DEF Boards!IInv

\* While nothing happens to a document, its invariant stays.
LEMMA DocsRests ==
    ASSUME Docs!IInv, UNCHANGED docsVars
    PROVE  Docs!IInv'
<1>1. UNCHANGED <<dLife, dConnected, dApplies, dSession, dSessions, dOpen, dQueueOf,
        dRoutine, dReconnecting, dLooking, dServes, dExhausted, dCrossed,
        dLate>>
  BY DEF docsVars
<1>2. Docs!TypeOK'
  <2>1. Docs!Flags'
    BY <1>1 DEF Docs!IInv, Docs!TypeOK, Docs!Flags
  <2> QED BY <1>1, <2>1 DEF Docs!IInv, Docs!TypeOK, Docs!Sessions, Docs!Routines, Docs!Routine
<1>3. Docs!Numbered'
  BY <1>1 DEF Docs!IInv, Docs!Numbered
<1>4. Docs!Backoffs'
  BY <1>1 DEF Docs!IInv, Docs!Backoffs
<1>5. Docs!OneLive'
  BY <1>1 DEF Docs!IInv, Docs!OneLive, Docs!Live
<1>6. Docs!Read'
  BY <1>1 DEF Docs!IInv, Docs!Read
<1>7. Docs!Held'
  BY <1>1 DEF Docs!IInv, Docs!Held
<1>8. Docs!Writing'
  BY <1>1 DEF Docs!IInv, Docs!Writing
<1>9. Docs!SomebodyDials'
  BY <1>1 DEF Docs!IInv, Docs!SomebodyDials, Docs!Running
<1>10. Docs!StopHolds'
  BY <1>1 DEF Docs!IInv, Docs!StopHolds
<1> QED BY <1>2, <1>3, <1>4, <1>5, <1>6, <1>7, <1>8, <1>9, <1>10 DEF Docs!IInv

\* While nothing happens to a Cups room, its invariant stays.
LEMMA CupsRests ==
    ASSUME Cups!IInv, UNCHANGED cupsVars
    PROVE  Cups!IInv'
<1>1. UNCHANGED <<cCtx, cList, cRoom, cTokens, cTurns, cRun, cNeedJoin, cFails, cDead,
        cConnected, cSock, cPull, cMine, cInflight, cDataIDs, cAsked>>
  BY DEF cupsVars
<1>2. Cups!TypeOK'
  BY <1>1 DEF Cups!IInv, Cups!TypeOK, Cups!Flags
<1>3. Cups!Paced'
  BY <1>1 DEF Cups!IInv, Cups!Paced
<1>4. Cups!Honest'
  BY <1>1 DEF Cups!IInv, Cups!Honest
<1>5. Cups!Channel'
  BY <1>1 DEF Cups!IInv, Cups!Channel
<1>6. Cups!Sends'
  BY <1>1 DEF Cups!IInv, Cups!Sends
<1>7. Cups!Counted'
  BY <1>1 DEF Cups!IInv, Cups!Counted, Cups!Ahead, Cups!Strays
<1> QED BY <1>2, <1>3, <1>4, <1>5, <1>6, <1>7 DEF Cups!IInv

\* While nothing happens to a Mail.ru carrier, its invariant stays.
LEMMA MailruRests ==
    ASSUME Mailru!IInv, UNCHANGED mailruVars
    PROVE  Mailru!IInv'
<1>1. UNCHANGED <<mLife, mConnected, mSession, mOpen, mActive, mRetired, mRoutine,
        mReconnecting, mRotation, mOld, mNext, mApplies, mExhausted, mCrossed>>
  BY DEF mailruVars
<1>2. Mailru!TypeOK'
  BY <1>1 DEF Mailru!IInv, Mailru!TypeOK, Mailru!Flags
<1>3. Mailru!Numbered'
  BY <1>1 DEF Mailru!IInv, Mailru!Numbered
<1>4. Mailru!Dials'
  BY <1>1 DEF Mailru!IInv, Mailru!Dials, Mailru!Works, Mailru!Running
<1>5. Mailru!OneWay'
  BY <1>1 DEF Mailru!IInv, Mailru!OneWay, Mailru!Works, Mailru!Reading
<1>6. Mailru!Turning'
  BY <1>1 DEF Mailru!IInv, Mailru!Turning, Mailru!Running, Mailru!Reading
<1> QED BY <1>2, <1>3, <1>4, <1>5, <1>6 DEF Mailru!IInv

\* While nothing happens to an Avito room, its invariant stays.
LEMMA AvitoRests ==
    ASSUME Avito!IInv, UNCHANGED avitoVars
    PROVE  Avito!IInv'
<1>1. UNCHANGED <<aCtx, aRun, aSock, aConnected, aReader, aSender, aAck, aKnown, aDoc,
        aFlying, aInbox, aSent, aTurns, aAsides, aLapped>>
  BY DEF avitoVars
<1>2. Avito!TypeOK'
  BY <1>1 DEF Avito!IInv, Avito!TypeOK, Avito!Flags
<1>3. Avito!OneConnection'
  BY <1>1 DEF Avito!IInv, Avito!OneConnection
<1>4. Avito!Sockets'
  BY <1>1 DEF Avito!IInv, Avito!Sockets
<1>5. Avito!InStep'
  BY <1>1 DEF Avito!IInv, Avito!InStep
<1>6. Avito!Knows'
  BY <1>1 DEF Avito!IInv, Avito!Knows, Avito!Waits
<1> QED BY <1>2, <1>3, <1>4, <1>5, <1>6 DEF Avito!IInv

\* While nothing happens to a Bitrix chat, its invariant stays.
LEMMA BitrixRests ==
    ASSUME Bitrix!IInv, UNCHANGED bitrixVars
    PROVE  Bitrix!IInv'
<1>1. UNCHANGED <<xLife, xOffered, xQueue, xHand, xTries, xGone, xChat, xAsked,
        xLastMsgID, xPolling, xUnread, xGot, xDropped>>
  BY DEF bitrixVars
<1>2. Bitrix!TypeOK'
  BY <1>1 DEF Bitrix!IInv, Bitrix!TypeOK, Bitrix!Flags
<1>3. Bitrix!Accounted'
  BY <1>1 DEF Bitrix!IInv, Bitrix!Accounted, Bitrix!InHand
<1>4. Bitrix!Distinct'
  BY <1>1 DEF Bitrix!IInv, Bitrix!Distinct
<1>5. Bitrix!PageFollows'
  BY <1>1 DEF Bitrix!IInv, Bitrix!PageFollows
<1>6. Bitrix!ReceivedInOrder'
  <2>1. Bitrix!Received' = Bitrix!Received
    BY <1>1 DEF Bitrix!Received
  <2> QED BY <1>1, <2>1 DEF Bitrix!IInv, Bitrix!ReceivedInOrder
<1> QED BY <1>2, <1>3, <1>4, <1>5, <1>6 DEF Bitrix!IInv

-----------------------------------------------------------------------------
\* What the invariants of the carriers say of what every carrier promises.


\* The invariant of a document says one session and one writer.
LEMMA DocsOrderly ==
    ASSUME Docs!IInv
    PROVE  Docs!Orderly
<1> SUFFICES ASSUME ~dCrossed
             PROVE  /\ Docs!OneSession
                    /\ \A q \in Docs!Sessions : dServes[q] <= 1
                    /\ Docs!Running /\ dSession # 0 => dLooking > 0 \/ dServes[dQueueOf[dSession]] > 0
  BY DEF Docs!Orderly
<1>1. Docs!OneSession
  BY DEF Docs!IInv, Docs!OneLive, Docs!OneSession, Docs!Live
<1>2. \A q \in Docs!Sessions : dServes[q] <= 1
  BY DEF Docs!IInv, Docs!Writing
<1>3. Docs!Running /\ dSession # 0 => dLooking > 0 \/ dServes[dQueueOf[dSession]] > 0
  <2>1. dLooking \in Nat
    BY DEF Docs!IInv, Docs!TypeOK
  <2>2. Docs!Running /\ dSession # 0 => (dLooking = 0 <=> dServes[dQueueOf[dSession]] > 0)
    BY DEF Docs!IInv, Docs!Writing, Docs!Running
  <2> QED BY <2>1, <2>2
<1> QED BY <1>1, <1>2, <1>3

\* The invariant of a Mail.ru carrier says that somebody dials and one session delivers.
LEMMA MailruPromise ==
    ASSUME Mailru!IInv
    PROVE  Mailru!SomebodyDials /\ Mailru!Alone
<1>1. Mailru!SomebodyDials
  BY DEF Mailru!IInv, Mailru!Dials, Mailru!SomebodyDials, Mailru!Works
<1>2. Mailru!Alone
  <2> SUFFICES ASSUME ~mCrossed
               PROVE  /\ Mailru!OneActive
                      /\ Mailru!Running => \A s \in mOpen : Mailru!Reading(s) => s \in {mSession, mOld, mNext}
    BY DEF Mailru!Alone
  <2>1. mActive \cap mOpen \subseteq {mSession}
    BY DEF Mailru!IInv, Mailru!Turning
  <2> QED BY <2>1 DEF Mailru!IInv, Mailru!Turning, Mailru!OneActive
<1> QED BY <1>1, <1>2

\* What is received in the order of the chat is in the order of its positions there.
LEMMA BitrixInOrder ==
    ASSUME Bitrix!IInv
    PROVE  Bitrix!OnceInChatOrder
<1>t. xGot \in Seq(Bitrix!Numbers) /\ xUnread \in Seq(Bitrix!Numbers) /\ xChat \in Seq(Bitrix!Numbers)
      /\ xLastMsgID \in 0..Len(xChat)
  BY DEF Bitrix!IInv, Bitrix!TypeOK
<1>1. \A i \in 1..Len(xGot) : i \in 1..Len(xGot \o xUnread) /\ (xGot \o xUnread)[i] = xGot[i]
  BY <1>t
<1>2. ASSUME NEW i \in 1..Len(xGot)
      PROVE  \E k \in 1..Len(xChat) : xGot[i] = xChat[k]
  <2>1. \E k \in 1..xLastMsgID : (xGot \o xUnread)[i] = xChat[k]
    BY <1>1 DEF Bitrix!IInv, Bitrix!ReceivedInOrder, Bitrix!Received
  <2>2. xLastMsgID \in Nat /\ xLastMsgID <= Len(xChat)
    BY <1>t
  <2> QED BY <1>1, <2>1, <2>2, <1>t
<1>3. ASSUME NEW i \in 1..Len(xGot), NEW j \in 1..Len(xGot), i < j,
             NEW k \in 1..Len(xChat), NEW l \in 1..Len(xChat), xGot[i] = xChat[k], xGot[j] = xChat[l]
      PROVE  k < l
  BY <1>1, <1>3 DEF Bitrix!IInv, Bitrix!ReceivedInOrder, Bitrix!Received
<1>4. ASSUME NEW i \in 1..Len(xGot)
      PROVE  Bitrix!Position(xGot[i]) \in 1..Len(xChat) /\ xGot[i] = xChat[Bitrix!Position(xGot[i])]
  <2>1. DOMAIN xChat = 1..Len(xChat)
    BY <1>t
  <2>2. \E k \in DOMAIN xChat : xChat[k] = xGot[i]
    BY <1>2, <2>1
  <2> QED BY <2>1, <2>2 DEF Bitrix!Position
<1>5. DOMAIN xGot = 1..Len(xGot) /\ Len(xGot) \in Nat
  BY <1>t
<1>6. \A i, j \in DOMAIN xGot : i < j => Bitrix!Position(xGot[i]) < Bitrix!Position(xGot[j])
  BY <1>3, <1>4, <1>5
<1>7. ASSUME NEW i \in 1..Len(xGot), NEW j \in 1..Len(xGot), xGot[i] = xGot[j]
      PROVE  i = j
  <2>1. PICK k \in 1..Len(xChat) : xGot[i] = xChat[k]
    BY <1>2
  <2>2. ~(i < j) /\ ~(j < i)
    <3>1. ~(k < k)
      BY <1>t
    <3> QED BY <1>3, <1>7, <2>1, <3>1
  <2> QED BY <1>5, <2>2
<1> QED BY <1>5, <1>6, <1>7 DEF Bitrix!OnceInChatOrder, Bitrix!IsInjective

-----------------------------------------------------------------------------
\* The carrier that was made

\* The inductive invariant: that of the carrier that was made.
CInv ==
    /\ kind \in Kinds
    /\ kind = "telemost" => Telemost!IInv
    /\ kind = "cups" => Cups!IInv
    /\ kind = "volga" => Volga!IInv
    /\ kind = "mailru" => Mailru!IInv
    /\ kind = "docs" => Docs!IInv
    /\ kind = "boards" => Boards!IInv
    /\ kind = "avito" => Avito!IInv
    /\ kind = "bitrix" => Bitrix!IInv

\* Whichever carrier is made, its invariant holds.
LEMMA CarriersInit == Init => CInv
BY TelemostInit, CupsInit, VolgaInit, MailruInit, DocsInit, BoardsInit, AvitoInit, BitrixInit DEF Init, CInv

\* The carrier that was made takes a step, or nothing happens; the others rest.
LEMMA CarriersStep == CInv /\ [Next]_carrierVars => CInv'
<1> SUFFICES ASSUME CInv, [Next]_carrierVars
             PROVE  CInv'
  OBVIOUS
<1>1. kind' = kind /\ kind \in Kinds
  BY DEF Next, OthersRest, carrierVars, CInv
<1>2. CASE kind = "telemost"
  <2>1. Telemost!Next \/ UNCHANGED telemostVars
    BY <1>2 DEF Next, carrierVars
  <2> QED BY <1>1, <1>2, <2>1, TelemostStep, TelemostRests DEF CInv
<1>3. CASE kind = "cups"
  <2>1. Cups!Next \/ UNCHANGED cupsVars
    BY <1>3 DEF Next, carrierVars
  <2> QED BY <1>1, <1>3, <2>1, CupsStep, CupsRests DEF CInv
<1>4. CASE kind = "volga"
  <2>1. Volga!Next \/ UNCHANGED volgaVars
    BY <1>4 DEF Next, carrierVars
  <2> QED BY <1>1, <1>4, <2>1, VolgaStep, VolgaRests DEF CInv
<1>5. CASE kind = "mailru"
  <2>1. Mailru!Next \/ UNCHANGED mailruVars
    BY <1>5 DEF Next, carrierVars
  <2> QED BY <1>1, <1>5, <2>1, MailruStep, MailruRests DEF CInv
<1>6. CASE kind = "docs"
  <2>1. Docs!Next \/ UNCHANGED docsVars
    BY <1>6 DEF Next, carrierVars
  <2> QED BY <1>1, <1>6, <2>1, DocsStep, DocsRests DEF CInv
<1>7. CASE kind = "boards"
  <2>1. Boards!Next \/ UNCHANGED boardsVars
    BY <1>7 DEF Next, carrierVars
  <2> QED BY <1>1, <1>7, <2>1, BoardsStep, BoardsRests DEF CInv
<1>8. CASE kind = "avito"
  <2>1. Avito!Next \/ UNCHANGED avitoVars
    BY <1>8 DEF Next, carrierVars
  <2> QED BY <1>1, <1>8, <2>1, AvitoStep, AvitoRests DEF CInv
<1>9. CASE kind = "bitrix"
  <2>1. Bitrix!Next \/ UNCHANGED bitrixVars
    BY <1>9 DEF Next, carrierVars
  <2> QED BY <1>1, <1>9, <2>1, BitrixStep, BitrixRests DEF CInv
<1> QED BY <1>1, <1>2, <1>3, <1>4, <1>5, <1>6, <1>7, <1>8, <1>9 DEF Kinds

\* The invariant of the made carrier is kept for ever.
THEOREM CarriersInvariant == Spec => []CInv
<1>1. Init => CInv
  BY CarriersInit
<1>2. CInv /\ [Next]_carrierVars => CInv'
  BY CarriersStep
<1> QED BY <1>1, <1>2, PTL DEF Spec

\* A carrier's account of itself is true, for every kind of carrier
\* (telemost.go:421, cupsonline.go:824, boards.go:548, yandex.go:240,
\* vyandex.go:1318).
THEOREM HonestHolds == Spec => []Honest
<1>1. CInv => Honest
  BY DEF CInv, Honest, Telemost!IInv, Cups!IInv, Volga!IInv, Docs!IInv, Boards!IInv
<1> QED BY <1>1, CarriersInvariant, PTL

\* One connection and somebody to look after it, for every kind of carrier
\* (yandex.go:652, mailru.go:1111, vyandex.go:1306, avito.go:289,
\* boards.go:439, telemost.go:441).
THEOREM SingleHolds == Spec => []Single
<1>1. CInv => Single
  BY DocsOrderly, MailruPromise DEF CInv, Single, Telemost!IInv, Volga!IInv, Docs!IInv, Boards!IInv, Avito!IInv
<1> QED BY <1>1, CarriersInvariant, PTL

\* What is under way is accounted for: the window of a room, the length of
\* Avito's document, the packets of a Bitrix chat (cupsonline.go:1006,
\* avito.go:471, bitrix24.go:367).
THEOREM AccountedHolds == Spec => []Accounted
<1>1. CInv => Accounted
  <2>1. CInv => WellFormed
    BY DEF CInv, WellFormed, Telemost!IInv, Cups!IInv, Volga!IInv, Mailru!IInv, Docs!IInv, Boards!IInv, Avito!IInv, Bitrix!IInv
  <2> QED BY <2>1, BitrixInOrder DEF CInv, Accounted, Cups!IInv, Avito!IInv, Bitrix!IInv
<1> QED BY <1>1, CarriersInvariant, PTL
=============================================================================
