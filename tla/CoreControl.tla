------------------------------ MODULE CoreControl ------------------------------
\* What the core does beside the tunnel's traffic: cookies and checks that
\* one side passes for the other (transport/manager/manager.go,
\* transport/cookiestore.go), the application it talks to (transport/ipc,
\* ipc_handler.go), the direct carrier (transport/direct.go), and the
\* routes of a full tunnel (tun_watch.go, main.go).
\*
\* External: the application and its user, who pass a check or do not, the
\* sites that ask for it, the session's control messages, which may be
\* lost, TCP, and the system's routing table.
EXTENDS Naturals, Sequences, FiniteSets

CONSTANTS
    Parts,              \* which of the four a run is about
    Tables,             \* [exit, client, checks, asks]: each side's carriers by priority, [name, type, doc, says]
                        \* (says: the type the name starts with); checks, asks: bounds
    MaxLost,            \* a bound on losses and restarts together
    Apps,               \* applications that connect, a subset of Nat \ {0}
    Records, Queue, MaxBreaks, Dials,           \* records sent; MaxQueueSize; bounds; connections
    Hosts, MaxSnaps,    \* addresses of carriers; a bound
    None

VARIABLES
    part,
    table, jar, store, disk, stuck, sent, wire, accept, asked, stalled, clientJar, there, counts,    \* cookies
    app, server, acceptor, writer, order,                                                      \* the application
    made, queue, pending, writing, at, backlog, dialled, pipe, open, broken, got, halted,      \* direct
    sockets, known, watch, snap, default, process, starts, snaps                               \* routes

cookieVars == <<table, jar, store, disk, stuck, sent, wire, accept, asked, stalled, clientJar, there, counts>>
appVars == <<app, server, acceptor, writer, order>>
directVars == <<made, queue, pending, writing, at, backlog, dialled, pipe, open, broken, got, halted>>
routeVars == <<sockets, known, watch, snap, default, process, starts, snaps>>
controlVars == <<part, cookieVars, appVars, directVars, routeVars>>

InRange(s) == {s[i] : i \in DOMAIN s}
NoAccept == [at |-> "idle", name |-> None, new |-> {}, merged |-> {}]
Exits == {c.name : c \in InRange(table.exit)}
Clients == {c.name : c \in InRange(table.client)}
Ends == {"client", "exit"}
NoCounts == [checks |-> 0, asks |-> 0, lost |-> 0]

Init ==
    /\ part \in Parts /\ table \in Tables /\ (part # "cookies" => table = CHOOSE t \in Tables : TRUE)
    /\ jar = [n \in Exits |-> {<<"account", n>>}] /\ store = jar /\ disk = jar
    /\ stuck = {} /\ sent = {} /\ wire = {} /\ accept = NoAccept /\ asked = {} /\ stalled = {}
    /\ clientJar = [n \in Clients |-> {}] /\ there = FALSE /\ counts = NoCounts
    /\ app = [a \in Apps |-> "out"] /\ server = None /\ acceptor = [at |-> "accept", conn |-> None]
    /\ writer = [at |-> "idle", conn |-> None] /\ order = <<>>
    /\ made = 0 /\ queue = <<>> /\ pending = None /\ writing = None /\ got = <<>> /\ broken = {} /\ halted = {}
    /\ at = [e \in Ends |-> [at |-> "next", conn |-> None]] /\ backlog = <<>> /\ dialled = 0
    /\ pipe = [c \in Dials |-> <<>>] /\ open = [c \in Dials |-> {}]
    /\ sockets = {} /\ known = {} /\ snap = [now |-> {}, last |-> {}, stable |-> FALSE, fired |-> FALSE]
    /\ watch = "idle" /\ default = FALSE /\ process = "runs" /\ starts = 0 /\ snaps = 0

-----------------------------------------------------------------------------
\* Cookies and checks

rest1 == <<part, table, appVars, directVars, routeVars>>
Count(what) == counts' = [counts EXCEPT ![what] = @ + 1]

\* cookieTransport: the name itself, the document, or the only one of the type.
Named(list, name) == {c \in InRange(list) : c.name = name}
OfDoc(list, doc) == {c \in InRange(list) : doc # None /\ c.doc = doc}
Says(name) == (CHOOSE c \in InRange(table.exit) \cup InRange(table.client) : c.name = name).says
OfType(list, name) == {c \in InRange(list) : c.type = Says(name)}
Resolve(list, name, doc) ==
    IF name = None THEN IF list = <<>> THEN None ELSE list[1].name
    ELSE IF Named(list, name) # {} THEN name
    ELSE IF OfDoc(list, doc) # {} THEN (CHOOSE c \in OfDoc(list, doc) : TRUE).name
    ELSE IF Cardinality(OfType(list, name)) = 1 THEN (CHOOSE c \in OfType(list, name) : TRUE).name ELSE None
Doc(name) == (CHOOSE c \in InRange(table.exit) : c.name = name).doc

\* A control message goes out, or there is no carrier to send it on.
Message(kind, name, doc, cookies) == [kind |-> kind, name |-> name, doc |-> doc, jar |-> cookies]

\* The site wants a check of an exit's carrier.
Sticks(n) ==
    /\ part = "cookies" /\ counts.checks < table.checks /\ n \in Exits \ stuck /\ accept.at = "idle"
    /\ stuck' = stuck \cup {n} /\ jar' = [jar EXCEPT ![n] = @ \ {<<"check", n>>}] /\ Count("checks")
    /\ UNCHANGED <<rest1, store, disk, sent, wire, accept, asked, stalled, clientJar, there>>

\* NotifyCaptcha, forwardAuth: not twice in an interval, and again when it could not go out.
Reports(n, out) ==
    /\ n \in stuck \ sent
    /\ IF out THEN sent' = sent \cup {n} /\ wire' = wire \cup {Message("auth", n, Doc(n), {})}
       ELSE counts.lost < MaxLost /\ UNCHANGED <<sent, wire>>
    /\ counts' = IF out THEN counts ELSE [counts EXCEPT !.lost = @ + 1]
    /\ UNCHANGED <<rest1, jar, store, disk, stuck, accept, asked, stalled, clientJar, there>>

\* mutant
Remembers(n) == sent
Forgotten(n) == sent \ {n}
\* Twenty seconds later.
IntervalOver(n) ==
    /\ n \in sent /\ n \in Exits
    /\ sent' = Forgotten(n)
    /\ UNCHANGED <<rest1, jar, store, disk, stuck, wire, accept, asked, stalled, clientJar, there, counts>>

Loses(m) ==
    /\ counts.lost < MaxLost /\ wire' = wire \ {m} /\ Count("lost")
    /\ UNCHANGED <<rest1, jar, store, disk, stuck, sent, accept, asked, stalled, clientJar, there>>

\* mutant
OwnName(m) == IF Resolve(table.client, m.name, m.doc) = None THEN m.name ELSE Resolve(table.client, m.name, m.doc)
\* The application sees the exit's name, and answers under it.
ShownAs(m) == m.name

ClientWarned(m) ==
    /\ m \in wire /\ m.kind = "auth" /\ wire' = wire \ {m}
    /\ stalled' = stalled \cup ({Resolve(table.client, m.name, m.doc)} \ {None})
    /\ asked' = IF there THEN asked \cup {[name |-> ShownAs(m), of |-> m.name]} ELSE asked
    /\ UNCHANGED <<rest1, jar, store, disk, stuck, sent, accept, clientJar, there, counts>>

AppComes == part = "cookies" /\ ~there /\ there' = TRUE /\ UNCHANGED <<rest1, jar, store, disk, stuck, sent, wire, accept, asked, stalled, clientJar, counts>>
AppGoes ==
    /\ there /\ counts.lost < MaxLost /\ there' = FALSE /\ asked' = {} /\ Count("lost")
    /\ UNCHANGED <<rest1, jar, store, disk, stuck, sent, wire, accept, stalled, clientJar>>

\* OfferCookies, when the user has passed the check.
Solved(q) ==
    /\ q \in asked /\ there /\ asked' = asked \ {q}
    /\ wire' = wire \cup {Message("offer", q.name, None, {<<"check", q.of>>})}
    /\ UNCHANGED <<rest1, jar, store, disk, stuck, sent, accept, stalled, clientJar, there, counts>>

\* mutant
WhatCame(kept, new) == new
\* AcceptCookies: what came, over what there was.
Merged(kept, new) == kept \cup new

\* A message is served when the one before has been: see the README.
Offered(m) ==
    /\ m \in wire /\ m.kind = "offer" /\ accept.at = "idle" /\ wire' = wire \ {m}
    /\ LET n == Resolve(table.exit, m.name, m.doc) IN
       accept' = IF n = None THEN accept ELSE [at |-> "apply", name |-> n, new |-> m.jar, merged |-> Merged(store[n], m.jar)]
    /\ UNCHANGED <<rest1, jar, store, disk, stuck, sent, asked, stalled, clientJar, there, counts>>

Applies ==
    /\ accept.at = "apply"
    /\ jar' = [jar EXCEPT ![accept.name] = accept.merged]
    /\ stuck' = IF <<"check", accept.name>> \in accept.merged THEN stuck \ {accept.name} ELSE stuck
    /\ accept' = [accept EXCEPT !.at = "save"]
    /\ UNCHANGED <<rest1, store, disk, sent, wire, asked, stalled, clientJar, there, counts>>

\* The carrier may not take them; then nothing is kept.
NotApplied ==
    /\ accept.at = "apply" /\ counts.lost < MaxLost /\ Count("lost") /\ accept' = NoAccept
    /\ UNCHANGED <<rest1, jar, store, disk, stuck, sent, wire, asked, stalled, clientJar, there>>

\* The store has it, even when its file cannot be written.
Saves(written) ==
    /\ accept.at = "save" /\ store' = [store EXCEPT ![accept.name] = accept.merged] /\ accept' = NoAccept
    /\ IF written THEN disk' = store' /\ UNCHANGED counts ELSE counts.lost < MaxLost /\ Count("lost") /\ UNCHANGED disk
    /\ UNCHANGED <<rest1, jar, stuck, sent, wire, asked, stalled, clientJar, there>>

\* managerRefreshLoop: the client asks, under no name.
Asks ==
    /\ part = "cookies" /\ counts.asks < table.asks /\ Count("asks")
    /\ wire' = wire \cup {Message("ask", None, None, {})}
    /\ UNCHANGED <<rest1, jar, store, disk, stuck, sent, accept, asked, stalled, clientJar, there>>

\* mutant
Everything(cookies) == cookies
\* shareableCookies: never the login.
Shareable(cookies) == {c \in cookies : c[1] # "account"}

Answers(m) ==
    /\ m \in wire /\ m.kind = "ask"
    /\ LET n == Resolve(table.exit, m.name, m.doc) IN
       wire' = (wire \ {m}) \cup (IF n = None THEN {} ELSE {Message("answer", n, Doc(n), Shareable(jar[n]))})
    /\ UNCHANGED <<rest1, jar, store, disk, stuck, sent, accept, asked, stalled, clientJar, there, counts>>

Answered(m) ==
    /\ m \in wire /\ m.kind = "answer" /\ wire' = wire \ {m}
    /\ LET n == Resolve(table.client, m.name, m.doc) IN
       clientJar' = IF n = None \/ m.jar = {} THEN clientJar ELSE [clientJar EXCEPT ![n] = Merged(@, m.jar)]
    /\ UNCHANGED <<rest1, jar, store, disk, stuck, sent, accept, asked, stalled, there, counts>>

\* The exit is killed and comes back with what its store has.
ExitRestarts ==
    /\ part = "cookies" /\ counts.lost < MaxLost /\ Count("lost")
    /\ jar' = disk /\ store' = disk /\ accept' = NoAccept /\ sent' = {} /\ wire' = {}
    /\ stuck' = {n \in Exits : <<"check", n>> \notin disk[n] /\ (n \in stuck \/ <<"check", n>> \in jar[n])}
    /\ UNCHANGED <<rest1, disk, asked, stalled, clientJar, there>>

Exchange == \/ \E m \in wire : ClientWarned(m) \/ Offered(m) \/ Answers(m) \/ Answered(m)
            \/ Applies \/ NotApplied \/ \E written \in BOOLEAN : Saves(written)
CookieNext == \/ \E n \in Exits : Sticks(n) \/ IntervalOver(n) \/ \E out \in BOOLEAN : Reports(n, out)
              \/ Exchange \/ AppComes \/ AppGoes \/ Asks \/ ExitRestarts
              \/ (\E m \in wire : Loses(m)) \/ \E q \in asked : Solved(q)

-----------------------------------------------------------------------------
\* The application

rest2 == <<part, cookieVars, directVars, routeVars>>
Newest == IF order = <<>> THEN None ELSE order[Len(order)]

Connects(a) == part = "app" /\ app[a] = "out" /\ app' = [app EXCEPT ![a] = "queued"] /\ UNCHANGED <<server, acceptor, writer, order, rest2>>

\* The one before is closed.
Accepted(a) ==
    /\ acceptor.at = "accept" /\ app[a] = "queued"
    /\ app' = [b \in Apps |-> IF b = a THEN "live" ELSE IF b = server THEN "cut" ELSE app[b]]
    /\ server' = a /\ order' = Append(order, a)
    /\ acceptor' = [at |-> "status", conn |-> a]
    /\ UNCHANGED <<writer, rest2>>

\* Send, to whoever it is at this moment; OnConnect reports before it is served.
Sends(by) ==
    /\ writer.at = "idle" /\ part = "app"
    /\ by = "accept" => acceptor.at = "status"
    /\ IF server = None THEN writer' = writer ELSE writer' = [at |-> by, conn |-> server]
    /\ acceptor' = IF by = "loop" THEN acceptor ELSE IF server = None THEN [at |-> "accept", conn |-> None] ELSE [acceptor EXCEPT !.at = "writes"]
    /\ UNCHANGED <<app, server, order, rest2>>

\* mutant
NoDeadline == FALSE
\* A write ends after five seconds if nobody reads.
Deadline == TRUE

WriteEnds ==
    /\ writer.at # "idle" /\ (app[writer.conn] # "deaf" \/ Deadline)
    /\ writer' = [at |-> "idle", conn |-> None]
    /\ acceptor' = IF writer.at = "accept" THEN [at |-> "accept", conn |-> None] ELSE acceptor
    /\ UNCHANGED <<app, server, order, rest2>>

\* An application that no longer reads, or leaves.
Turns(a, to) ==
    /\ app[a] = "live" \/ (app[a] = "deaf" /\ to = "left")
    /\ app' = [app EXCEPT ![a] = to] /\ UNCHANGED <<server, acceptor, writer, order, rest2>>

\* mutant
NobodyNow(a) == None
\* serve: only its own connection is taken away.
Without(a) == IF server = a THEN None ELSE server

ServeEnds(a) ==
    /\ app[a] \in {"cut", "left"} /\ acceptor.conn # a
    /\ server' = Without(a) /\ app' = [app EXCEPT ![a] = "gone"]
    /\ UNCHANGED <<acceptor, writer, order, rest2>>

AppNext == \/ \E a \in Apps : Connects(a) \/ Accepted(a) \/ ServeEnds(a) \/ \E to \in {"deaf", "left"} : Turns(a, to)
           \/ Sends("accept") \/ Sends("loop") \/ WriteEnds

-----------------------------------------------------------------------------
\* The direct carrier: records of one end, "up" from the client

rest3 == <<part, cookieVars, appVars, routeVars>>
Sender == IF part = "up" THEN "client" ELSE "exit"
Receiver == IF part = "up" THEN "exit" ELSE "client"
Conn(e) == IF at[e].at = "serve" THEN at[e].conn ELSE None
IsDirect == part \in {"up", "down"}

\* A full queue drops the record.
SendRecord ==
    /\ IsDirect /\ made < Records /\ Sender \notin halted
    /\ made' = made + 1
    /\ queue' = IF Len(queue) < Queue THEN Append(queue, made') ELSE queue
    /\ UNCHANGED <<pending, writing, at, backlog, dialled, pipe, open, broken, got, halted, rest3>>

Dial ==
    /\ IsDirect /\ at["client"].at = "next" /\ "client" \notin halted /\ "exit" \notin halted /\ dialled + 1 \in Dials
    /\ dialled' = dialled + 1 /\ backlog' = Append(backlog, dialled')
    /\ open' = [open EXCEPT ![dialled'] = Ends]
    /\ at' = [at EXCEPT !["client"] = [at |-> "has", conn |-> dialled']]
    /\ UNCHANGED <<made, queue, pending, writing, pipe, broken, got, halted, rest3>>

\* acceptLoop serves a connection to its end before it takes the next.
Accept ==
    /\ "exit" \notin halted /\ backlog # <<>> /\ at["exit"].at = "next"
    /\ at' = [at EXCEPT !["exit"] = [at |-> "has", conn |-> Head(backlog)]] /\ backlog' = Tail(backlog)
    /\ UNCHANGED <<made, queue, pending, writing, dialled, pipe, open, broken, got, halted, rest3>>

ServeBegins(e) ==
    /\ at[e].at = "has" /\ at' = [at EXCEPT ![e].at = "serve"]
    /\ UNCHANGED <<made, queue, pending, writing, backlog, dialled, pipe, open, broken, got, halted, rest3>>

\* mutant
EachItsOwn == {c \in Dials : Receiver \in open[c]}
\* One connection is read at a time.
Served == {Conn(Receiver)} \ {None}

Reads ==
    \E c \in Served :
        /\ pipe[c] # <<>> /\ Receiver \in open[c]
        /\ got' = Append(got, Head(pipe[c])) /\ pipe' = [pipe EXCEPT ![c] = Tail(@)]
        /\ UNCHANGED <<made, queue, pending, writing, at, backlog, dialled, open, broken, halted, rest3>>

\* mutant
NotChecked(e) == FALSE
\* The read loop looks at done.
Halts(e) == e \in halted

\* The end, a reset, or Stop: the connection is closed, and the loop goes on.
LoopsOn(e) ==
    LET c == at[e].conn IN
    /\ at[e].at = "serve"
    /\ Halts(e) \/ e \notin open[c] \/ c \in broken \/ (open[c] = {e} /\ (e = Receiver => pipe[c] = <<>>))
    /\ open' = [open EXCEPT ![c] = @ \ {e}]
    /\ at' = [at EXCEPT ![e] = [at |-> "next", conn |-> None]]
    /\ UNCHANGED <<made, queue, pending, writing, backlog, dialled, pipe, broken, got, halted, rest3>>
LoopEnds(e) ==
    /\ at[e].at = "next" /\ e \in halted /\ at' = [at EXCEPT ![e].at = "ended"]
    /\ UNCHANGED <<made, queue, pending, writing, backlog, dialled, pipe, open, broken, got, halted, rest3>>

Takes ==
    /\ pending = None /\ queue # <<>> /\ Sender \notin halted
    /\ pending' = Head(queue) /\ queue' = Tail(queue)
    /\ UNCHANGED <<made, writing, at, backlog, dialled, pipe, open, broken, got, halted, rest3>>
\* The connection there is; without one it waits.
Looks ==
    /\ pending # None /\ writing = None /\ Conn(Sender) # None /\ writing' = Conn(Sender)
    /\ UNCHANGED <<made, queue, pending, at, backlog, dialled, pipe, open, broken, got, halted, rest3>>

\* A record that could not be written is kept for the next connection. TCP may take
\* what nobody will read.
Writes(taken) ==
    /\ writing # None /\ writing' = None
    /\ (taken => Sender \in open[writing]) /\ (~taken => Sender \notin open[writing] \/ writing \in broken \/ open[writing] # Ends)
    /\ pipe' = IF taken /\ writing \notin broken THEN [pipe EXCEPT ![writing] = Append(@, pending)] ELSE pipe
    /\ pending' = IF taken THEN None ELSE pending
    /\ UNCHANGED <<made, queue, at, backlog, dialled, open, broken, got, halted, rest3>>

\* What is under way is lost, or has come already.
Breaks(c) ==
    /\ Cardinality(broken) < MaxBreaks /\ open[c] = Ends /\ broken' = broken \cup {c}
    /\ pipe' \in {pipe, [pipe EXCEPT ![c] = <<>>]}
    /\ UNCHANGED <<made, queue, pending, writing, at, backlog, dialled, open, got, halted, rest3>>

\* Stop closes what is in t.conn, and the listener with what waits at it.
Stops(e) ==
    /\ IsDirect /\ e \notin halted /\ halted' = halted \cup {e}
    /\ open' = [c \in Dials |-> IF c = Conn(e) \/ (e = "exit" /\ c \in InRange(backlog)) THEN open[c] \ {e} ELSE open[c]]
    /\ backlog' = IF e = "exit" THEN <<>> ELSE backlog
    /\ UNCHANGED <<made, queue, pending, writing, at, dialled, pipe, broken, got, rest3>>

Loop(e) == ServeBegins(e) \/ LoopsOn(e) \/ LoopEnds(e)
WriterStep == Takes \/ Looks \/ \E taken \in BOOLEAN : Writes(taken)
DirectNext == \/ SendRecord \/ Dial \/ Accept \/ Reads \/ WriterStep
              \/ (\E e \in Ends : Loop(e) \/ Stops(e)) \/ \E c \in Dials : Breaks(c)

-----------------------------------------------------------------------------
\* Routes of a full tunnel

rest4 == <<part, cookieVars, appVars, directVars>>

SocketsChange ==
    /\ part = "routes" /\ snaps < MaxSnaps /\ snaps' = snaps + 1
    /\ sockets' \in SUBSET Hosts \ {sockets}
    /\ UNCHANGED <<known, watch, snap, default, process, starts, rest4>>

\* snapshot: what the process is connected to; a route for each, if it can be had.
Snapshot ==
    /\ part = "routes" /\ watch = "idle" /\ process # "ended"
    /\ snap' = [snap EXCEPT !.now = sockets] /\ watch' = "adds"
    /\ UNCHANGED <<sockets, known, default, process, starts, snaps, rest4>>

\* mutant
OnceMore == TRUE
NotYet == ~snap.fired

AddsRoutes ==
    /\ watch = "adds"
    /\ \E failed \in SUBSET snap.now : known' = known \cup (snap.now \ failed)
    /\ \E long \in BOOLEAN :
        LET same == snap.now = snap.last
            fires == same /\ snap.stable /\ long /\ NotYet IN
        /\ snap' = [snap EXCEPT !.last = snap.now, !.stable = same, !.fired = snap.fired \/ fires]
        /\ watch' = IF fires THEN "fires" ELSE "idle"
    /\ UNCHANGED <<sockets, default, process, starts, snaps, rest4>>

\* onStable: the default route, and the client's loops.
TakesDefault(ok) ==
    /\ watch = "fires" /\ watch' = "idle" /\ default' = (default \/ ok) /\ starts' = IF ok THEN starts + 1 ELSE starts
    /\ UNCHANGED <<sockets, known, snap, process, snaps, rest4>>

Signal == part = "routes" /\ process = "runs" /\ process' = "stopping" /\ UNCHANGED <<sockets, known, watch, snap, default, starts, snaps, rest4>>
WatchEnds == process = "stopping" /\ watch = "idle" /\ watch' = "ended" /\ UNCHANGED <<sockets, known, snap, default, process, starts, snaps, rest4>>

\* mutant
AtOnce == TRUE
\* Stop waits for the goroutine.
Waited == watch = "ended"

RemovesRoutes == process = "stopping" /\ Waited /\ known' = {} /\ process' = "closing" /\ UNCHANGED <<sockets, watch, snap, default, starts, snaps, rest4>>
ClosesTun == process = "closing" /\ default' = FALSE /\ process' = "ended" /\ UNCHANGED <<sockets, known, watch, snap, starts, snaps, rest4>>

Shutdown == WatchEnds \/ RemovesRoutes \/ ClosesTun
RouteStep == AddsRoutes \/ \E ok \in BOOLEAN : TakesDefault(ok)
RouteNext == SocketsChange \/ Snapshot \/ RouteStep \/ Signal \/ Shutdown

-----------------------------------------------------------------------------

Next == CookieNext \/ AppNext \/ DirectNext \/ RouteNext

\* A stuck carrier reports again and again; the application comes back and its user
\* passes the check; loops run.
Scheduled ==
    /\ \A n \in {c.name : c \in UNION {InRange(t.exit) : t \in Tables}} : WF_controlVars(IntervalOver(n)) /\ WF_controlVars(Reports(n, TRUE))
    /\ WF_controlVars(\E m \in wire : ClientWarned(m)) /\ WF_controlVars(\E m \in wire : Offered(m))
    /\ WF_controlVars(Applies) /\ WF_controlVars(Saves(TRUE)) /\ WF_controlVars(AppComes) /\ WF_controlVars(\E q \in asked : Solved(q))
    /\ \A a \in Apps : WF_controlVars(Accepted(a)) /\ WF_controlVars(ServeEnds(a))
    /\ SF_controlVars(Sends("accept")) /\ WF_controlVars(WriteEnds)
    /\ WF_controlVars(Dial) /\ WF_controlVars(Accept) /\ WF_controlVars(Reads) /\ WF_controlVars(WriterStep)
    /\ \A e \in Ends : WF_controlVars(Loop(e))
    /\ WF_controlVars(RouteStep) /\ SF_controlVars(WatchEnds) /\ WF_controlVars(RemovesRoutes \/ ClosesTun)

Spec == Init /\ [][Next]_controlVars /\ Scheduled

-----------------------------------------------------------------------------

TypeOK ==
    /\ accept.at \in {"idle", "apply", "save"} /\ stuck \subseteq Exits /\ stalled \subseteq Clients
    /\ \A a \in Apps : app[a] \in {"out", "queued", "live", "deaf", "cut", "left", "gone"}
    /\ \A e \in Ends : at[e].at \in {"next", "has", "serve", "ended"}
    /\ process \in {"runs", "stopping", "closing", "ended"}

\* The login an exit was given never leaves it, and no check that a client passed,
\* no restart and no failed save takes it away.
LoginStays ==
    /\ \A n \in Clients : \A c \in clientJar[n] : c[1] # "account"
    /\ \A n \in Exits : <<"account", n>> \in jar[n] /\ <<"account", n>> \in store[n] \cap disk[n]

\* A check that was passed for a carrier comes to that carrier, whatever the two
\* sides call it.
ComesHome == \A n \in Exits : \A c \in jar[n] \cup store[n] \cup disk[n] : c[2] = n

\* The application that came last is the one that is served, however late the end of
\* another is seen.
NewestServed ==
    /\ \A a \in Apps : app[a] \in {"live", "deaf"} => a = Newest /\ server = a

\* Records come in order and once, over however many connections.
InOrder == \A i, j \in DOMAIN got : i < j => got[i] < got[j]

\* When the process has gone the system's routes are as before, and the tunnel was
\* taken into use at most once.
NothingLeft ==
    /\ process = "ended" => known = {} /\ ~default
    /\ starts <= 1

ControlKept == LoginStays /\ ComesHome /\ NewestServed /\ InOrder /\ NothingLeft

\* A carrier waits for a check, an application for its answer, a record for a
\* connection, a loop for its end, a shutdown for the watcher.
Outstanding ==
    \/ stuck # {}
    \/ \E a \in Apps : app[a] \in {"queued", "cut", "left"}
    \/ halted = {} /\ (pending # None \/ queue # <<>>)
    \/ \E e \in halted : at[e].at # "ended"
    \/ process \in {"stopping", "closing"}

\* None of that lasts.
Obtained == []<>~Outstanding

=============================================================================
