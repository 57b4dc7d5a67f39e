-------------------------------- MODULE MCHost --------------------------------
\* The parts of a core that do not depend on one another, checked in one
\* run, beside the firewall guard: host is the part that is looked at, the
\* others rest.  HostProofs, which this module extends, has the guard, the
\* relays, the lanes and the script; each of the others is an instance,
\* its variables told apart by a letter.
EXTENDS HostProofs, TLC

-----------------------------------------------------------------------------
\* What the parts are about in this run.

ScriptScenes == {{"packets", "stuck"}, {"socket"}, {"cookies", "stuck"}, {"pool"}}

Context(type, url, prio) == [type |-> type, url |-> url, prio |-> prio]
Peer(explicit, url, specs, one, frames, batched) ==
    [explicit |-> explicit, url |-> url, specs |-> specs, one |-> one, frames |-> frames, batched |-> batched]
Both == {"batch", "legacy"}
KeyScene(client, exits, pipes, extras) ==
    [client |-> client, exits |-> exits, pipes |-> pipes, extras |-> extras]
TwoCarriers == Peer("", "", <<Context("direct", "h", 2), Context("yandex", "u", 1)>>, FALSE, Both, TRUE)
Rooms == Peer("", "", <<Context("cupsonline", "rooms", 1)>>, FALSE, Both, FALSE)
NoContext == Peer("", "", <<>>, FALSE, Both, TRUE)
OldRooms == Peer("", "rooms", <<>>, TRUE, {"batch"}, TRUE)
OldDocument == Peer("", "u", <<>>, TRUE, {"batch"}, TRUE)
Named == Peer("own", "", <<>>, FALSE, Both, FALSE)
KeyScenes == {
    KeyScene(Rooms, <<OldRooms>>, {"classic"}, {"keepalive"}),
    KeyScene(Named, <<NoContext, Rooms>>, {"session"}, {}),
    KeyScene(OldDocument, <<TwoCarriers>>, {"classic"}, {"replay"}),
    KeyScene(Named, <<TwoCarriers>>, {"session"}, {"replay"}),
    KeyScene([Named EXCEPT !.frames = {"batch"}, !.batched = TRUE],
             <<[OldDocument EXCEPT !.url = "http"]>>, {"session", "classic"}, {})}

RelayScenes ==
    {[relay |-> r, parts |-> {"tcp"}, conns |-> {1}] : r \in {"packet", "connect", "exit", "stream"}} \cup
    {[relay |-> "exit", parts |-> {"udp"}, conns |-> {}],
     [relay |-> "stream", parts |-> {"dns"}, conns |-> {}],
     [relay |-> "socks", parts |-> {"assoc"}, conns |-> {}],
     [relay |-> "socks", parts |-> {"tcp"}, conns |-> {1, 2}]}
Flow(src, remote, dns) == [src |-> src, remote |-> remote, dns |-> dns]
Datagram(id, len, mtu) == [id |-> id, len |-> len, mtu |-> mtu]
NatScene(part, flows, datagrams) == [part |-> part, flows |-> flows, datagrams |-> datagrams]
NatScenes == {
    NatScene("udp", {Flow(1, "r", FALSE), Flow(2, "r", FALSE)}, {}),
    NatScene("udp", {Flow(1, "r", FALSE), Flow(1, "d", TRUE)}, {}),
    NatScene("tcp", {Flow(1, "r", FALSE)}, {}),
    NatScene("fragments", {}, {Datagram(1, 148, 68), Datagram(1, 148, 76)}),
    NatScene("fragments", {}, {Datagram(1, 148, 68), Datagram(1, 96, 68)}),
    NatScene("fragments", {}, {Datagram(1, 148, 68), Datagram(2, 100, 68)})}

Carrier(name, type, doc, says) == [name |-> name, type |-> type, doc |-> doc, says |-> says]
MCTables == {
    [exit |-> <<Carrier("m", "mailru", "d1", "m"), Carrier("mailru", "mailru", "d2", "mailru")>>,
     client |-> <<Carrier("mailru", "mailru", "d1", "mailru"), Carrier("mailru-2", "mailru", "d2", "mailru")>>,
     checks |-> 1, asks |-> 0],
    [exit |-> <<Carrier("yandex-1", "yandex", "d1", "yandex")>>,
     client |-> <<Carrier("yandex", "yandex", "d3", "yandex")>>,
     checks |-> 1, asks |-> 1]}

-----------------------------------------------------------------------------

VARIABLES
    host,
    kScene, kEra, kMine, kKeys, kHand, kRing, kCodec, kWire, kAsked, kLearned,
    kKept, kAge, kOthers, kTwice, kSent,
    nScene, nForward, nReverse, nPorts, nLock, nEntries, nQuiet, nUp, nLoop,
    nTurn, nStop, nSets, nBytes, nMade,
    oPart, oTable, oJar, oStore, oDisk, oStuck, oSent, oWire, oAccept, oAsked,
    oStalled, oClientJar, oThere, oCounts, oApp, oServer, oAcceptor, oWriter,
    oOrder, oMade, oQueue, oPending, oWriting, oAt, oBacklog, oDialled, oPipe,
    oOpen, oBroken, oGot, oHalted, oSockets, oKnown, oWatch, oSnap, oDefault,
    oProcess, oStarts, oSnaps

keysVars ==
    <<kScene, kEra, kMine, kKeys, kHand, kRing, kCodec, kWire, kAsked,
    kLearned, kKept, kAge, kOthers, kTwice, kSent>>
natVars ==
    <<nScene, nForward, nReverse, nPorts, nLock, nEntries, nQuiet, nUp, nLoop,
    nTurn, nStop, nSets, nBytes, nMade>>
controlVars ==
    <<oPart, oTable, oJar, oStore, oDisk, oStuck, oSent, oWire, oAccept,
    oAsked, oStalled, oClientJar, oThere, oCounts, oApp, oServer, oAcceptor,
    oWriter, oOrder, oMade, oQueue, oPending, oWriting, oAt, oBacklog,
    oDialled, oPipe, oOpen, oBroken, oGot, oHalted, oSockets, oKnown, oWatch,
    oSnap, oDefault, oProcess, oStarts, oSnaps>>
allVars ==
    <<host, vars, scriptVars, stripeVars, keysVars, relayVars, natVars,
    controlVars>>

Keys == INSTANCE KeyRing WITH
    scene <- kScene, era <- kEra, mine <- kMine, keys <- kKeys, hand <- kHand,
    ring <- kRing, codec <- kCodec, wire <- kWire, asked <- kAsked,
    learned <- kLearned, kept <- kKept, age <- kAge, others <- kOthers,
    twice <- kTwice, sent <- kSent, Scenes <- KeyScenes, FirstRotate <- 2,
    RotateEvery <- 2, FirstFallback <- 1, FallbackEvery <- 1, Window <- 2
Exit == INSTANCE ExitNat WITH
    scene <- nScene, forward <- nForward, reverse <- nReverse,
    ports <- nPorts, lock <- nLock, entries <- nEntries, quiet <- nQuiet,
    up <- nUp, loop <- nLoop, turn <- nTurn, stop <- nStop, sets <- nSets,
    bytes <- nBytes, made <- nMade, Scenes <- NatScenes, Ports <- {1, 2},
    MaxMappings <- 1, Loops <- {1, 2}, DnsTimeout <- 1, UdpTimeout <- 2,
    ClosingTimeout <- 1, EstablishedTimeout <- 2, MaxSets <- 1, MaxParts <- 4,
    MaxBytes <- 300
Control == INSTANCE CoreControl WITH
    part <- oPart, table <- oTable, jar <- oJar, store <- oStore,
    disk <- oDisk, stuck <- oStuck, sent <- oSent, wire <- oWire,
    accept <- oAccept, asked <- oAsked, stalled <- oStalled,
    clientJar <- oClientJar, there <- oThere, counts <- oCounts, app <- oApp,
    server <- oServer, acceptor <- oAcceptor, writer <- oWriter,
    order <- oOrder, made <- oMade, queue <- oQueue, pending <- oPending,
    writing <- oWriting, at <- oAt, backlog <- oBacklog, dialled <- oDialled,
    pipe <- oPipe, open <- oOpen, broken <- oBroken, got <- oGot,
    halted <- oHalted, sockets <- oSockets, known <- oKnown, watch <- oWatch,
    snap <- oSnap, default <- oDefault, process <- oProcess,
    starts <- oStarts, snaps <- oSnaps,
    Parts <- {"cookies", "app", "up", "down", "routes"}, Tables <- MCTables,
    MaxLost <- 1, Apps <- {1, 2, 3}, Records <- 2, Queue <- 1, MaxBreaks <- 1,
    Dials <- {1, 2}, Hosts <- {"y", "z"}, MaxSnaps <- 2

Looked == {"guard", "script", "stripe", "keys", "relay", "nat", "control"}

\* Of a part that is not looked at there is one beginning.
HostInit ==
    /\ host \in Looked /\ Init
    /\ Script!Init /\ (host # "script" => sScene = {"pool"})
    /\ Stripe!Init /\ (host # "stripe" => lScene = "carry")
    /\ Keys!Init /\ (host # "keys" => kScene = CHOOSE s \in KeyScenes : TRUE)
    /\ Relay!Init /\ (host # "relay" => rScene = CHOOSE s \in RelayScenes : TRUE)
    /\ Exit!Init /\ (host # "nat" => nScene = CHOOSE s \in NatScenes : TRUE)
    /\ Control!Init /\ (host # "control" => oPart = "app" /\ oTable = (CHOOSE t \in MCTables : TRUE))

OthersRest ==
    /\ UNCHANGED host
    /\ IF host = "guard" THEN TRUE ELSE UNCHANGED vars
    /\ IF host = "script" THEN TRUE ELSE UNCHANGED scriptVars
    /\ IF host = "stripe" THEN TRUE ELSE UNCHANGED stripeVars
    /\ IF host = "keys" THEN TRUE ELSE UNCHANGED keysVars
    /\ IF host = "relay" THEN TRUE ELSE UNCHANGED relayVars
    /\ IF host = "nat" THEN TRUE ELSE UNCHANGED natVars
    /\ IF host = "control" THEN TRUE ELSE UNCHANGED controlVars

HostNext ==
    /\ \/ host = "guard" /\ Next
       \/ host = "script" /\ Script!Next
       \/ host = "stripe" /\ Stripe!Next
       \/ host = "keys" /\ Keys!Next
       \/ host = "relay" /\ Relay!Next
       \/ host = "nat" /\ Exit!Next
       \/ host = "control" /\ Control!Next
    /\ OthersRest

\* The variables of the part looked at: no others change.
partVars ==
    CASE host = "guard" -> vars
      [] host = "script" -> scriptVars
      [] host = "stripe" -> stripeVars
      [] host = "keys" -> keysVars
      [] host = "relay" -> relayVars
      [] host = "nat" -> natVars
      [] host = "control" -> controlVars

\* The weak fairness of the modules (Scheduled there), numbered: one formula
\* speaks of the action with that number of the part looked at.
Fair(i) ==
    /\ UNCHANGED host
    /\ \/ host = "script" /\
           \/ i = 1 /\ Script!NextJob
           \/ i = 2 /\ Script!ScriptJob
           \/ i = 3 /\ Script!StartReturns
           \/ i = 4 /\ Script!Writer
           \/ i = 5 /\ Script!ApplyWrites
           \/ i = 6 /\ Script!Stopping
           \/ \E r \in {1, 2, 3} :
               \/ i = 6 + r /\ Script!Settles(r)
           \/ \E d \in {1, 2} :
               \/ i = 9 + d /\ Script!DialEnds(d)
       \/ host = "stripe" /\
           \/ i = 1 /\ Stripe!StopReturns
           \/ i = 2 /\ Stripe!ScaleJoins
           \/ i = 3 /\ Stripe!ScaleSettles
           \/ \E n \in {1, 2} :
               \/ i = 3 + n /\ Stripe!StopLane(n)
               \/ i = 5 + n /\ Stripe!Older(n)
               \/ i = 7 + n /\ Stripe!ProbeDue(n)
               \/ i = 9 + n /\ Stripe!Warms(n)
               \/ i = 11 + n /\ Stripe!Aged(n)
               \/ i = 13 + n /\ Stripe!Overdue(n)
       \/ host = "keys" /\
           \/ i = 1 /\ Keys!Second
           \/ i = 2 /\ Keys!DeriveMore("client")
           \/ i = 3 /\ Keys!DeriveMore("exit")
           \/ \E p \in {"session"} \cap Keys!Pipes :
               \/ i = 4 /\ Keys!ClientSends(p)
               \/ i = 5 /\ Keys!ExitSends(p)
               \/ i = 6 /\ Keys!Unheard(p)
               \/ i = 7 /\ Keys!Deliver("client", p)
           \/ \E p \in {"classic"} \cap Keys!Pipes :
               \/ i = 8 /\ Keys!ClientSends(p)
               \/ i = 9 /\ Keys!ExitSends(p)
               \/ i = 10 /\ Keys!Unheard(p)
               \/ i = 11 /\ Keys!Deliver("client", p)
       \/ host = "relay" /\
           \/ \E c \in {1, 2} :
               \/ i = c /\ (Relay!DialFails(c) \/ Relay!Dialled(c))
               \/ i = 2 + c /\ (Relay!Answered(c) \/ Relay!AnswerFails(c))
               \/ i = 4 + c /\ Relay!Copies(c, "up")
               \/ i = 6 + c /\ Relay!CopierEnds(c, "up")
               \/ i = 8 + c /\ Relay!Copies(c, "down")
               \/ i = 10 + c /\ Relay!CopierEnds(c, "down")
           \/ \E f \in {1, 2} :
               \/ i = f /\ (Relay!UdpFails(f) \/ Relay!UdpDialled(f))
               \/ i = 2 + f /\ Relay!UdpEnds(f)
       \/ host = "nat" /\
           \/ i = 1 /\ Exit!UpEnds
           \/ i = 2 /\ Exit!Sweep
           \/ i = 3 /\ Exit!TcpSweep
           \/ i = 4 /\ (Exit!SweeperEnds \/ Exit!StopFds \/ Exit!StopEnds)
           \/ \E l \in {1, 2} :
               \/ i = 4 + l /\ Exit!LoopStep(l)
       \/ host = "control" /\
           \/ i = 1 /\ (Control!AppComes \/ Control!WriteEnds \/ Control!Dial \/ Control!RouteStep)
           \/ i = 2 /\ ((\E m \in oWire : Control!ClientWarned(m)) \/ Control!Accept \/ Control!RemovesRoutes \/ Control!ClosesTun)
           \/ i = 3 /\ ((\E m \in oWire : Control!Offered(m)) \/ Control!Reads)
           \/ i = 4 /\ (Control!Applies \/ Control!WriterStep)
           \/ i = 5 /\ Control!Saves(TRUE)
           \/ i = 6 /\ \E q \in oAsked : Control!Solved(q)
           \/ i = 7 /\ Control!Loop("client")
           \/ i = 8 /\ Control!Loop("exit")
           \/ \E n \in DOMAIN oTable.exit :
               \/ i = 8 + n /\ Control!IntervalOver(oTable.exit[n].name)
               \/ i = 10 + n /\ Control!Reports(oTable.exit[n].name, TRUE)
           \/ \E a \in {1, 2, 3} :
               \/ i = 12 + a /\ (Control!Accepted(a) \/ Control!ServeEnds(a))

\* Their strong fairness, in the same way.
Lucky(i) ==
    /\ UNCHANGED host
    /\ \/ host = "script" /\
           \/ \E r \in {1, 2, 3} :
               \/ i = r /\ Script!Acquires(r)
       \/ host = "stripe" /\
           \/ \E n \in {1, 2} :
               \/ i = n /\ Stripe!Carry(n)
               \/ i = 2 + n /\ lPiece[n] = "flight" /\ Stripe!Acked(n)
       \/ host = "keys" /\
           \/ i = 1 /\ "session" \in Keys!Pipes /\ Keys!Readable("session") /\ Keys!Deliver("exit", "session")
           \/ i = 2 /\ "classic" \in Keys!Pipes /\ Keys!Readable("classic") /\ Keys!Deliver("exit", "classic")
       \/ host = "nat" /\
           \/ i = 1 /\ Exit!StopUdp
       \/ host = "control" /\
           \/ i = 1 /\ Control!Sends("accept")
           \/ i = 2 /\ Control!WatchEnds

HostSpec ==
    /\ HostInit /\ [][HostNext]_allVars
    /\ \A i \in 1..15 : WF_partVars(Fair(i))
    /\ \A i \in 1..4 : SF_partVars(Lucky(i))

-----------------------------------------------------------------------------
\* What each part never breaks, whatever its processes, its peers and the failures
\* around it do in whichever order: the invariants its module states.
HostKept ==
    /\ host = "script" => Script!TypeOK /\ Script!PacketsInTurn /\ Script!CookiesReach /\ Script!NothingOpen /\ Script!PoolBounded
    /\ host = "stripe" => Stripe!TypeOK /\ Stripe!LanesStopped
    /\ host = "keys" => Keys!TypeOK /\ Keys!Understandable
    /\ host = "relay" => Relay!TypeOK /\ Relay!RelaysRight
    /\ host = "nat" => Exit!TypeOK /\ Exit!ExitRight
    /\ host = "control" => Control!TypeOK /\ Control!ControlKept

\* Something a part owes its callers is not done yet.
Owing ==
    \/ host = "script" /\ Script!StopWaits
    \/ host = "stripe" /\ Stripe!Waits
    \/ host = "keys" /\ Keys!Unknown
    \/ host = "relay" /\ Relay!Unfinished
    \/ host = "nat" /\ Exit!Lingers
    \/ host = "control" /\ Control!Outstanding

\* Every step is in order, and what is owed is done in the end: no call, stop, stream,
\* record or loop of any part waits for ever.
HostMoves ==
    /\ []<>~Owing /\ []<>~(host = "script" /\ Script!PoolWaits)


=============================================================================
