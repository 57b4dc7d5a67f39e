----------------------------- MODULE VolgaLinks -----------------------------
\* The Volga document carrier (Core/transport/yandex/vyandex.go). A link
\* is a relay client, whose workers POST batches, and a WebSocket listener
\* that gets a fresh authorization at every reconnect but its first; both
\* read the one t.auth. Start, and a goroutine of every ApplyCookies, make
\* a link; Stop and ApplyCookies stop the link t.relay and t.ws point at.
\*
\* The server may reject an authorization at any time. One worker stands
\* for all of a link's; batches have no identity, for none is kept.
EXTENDS Naturals, FiniteSets

CONSTANTS
    MaxLinks,   \* links made in a behaviour (a bound)
    Applies     \* calls of ApplyCookies (a bound)

VARIABLES
    running, connected,
    stop, leaving, \* Stop: "no", "waits" for the workers of a link, "done"
    bad,        \* the server rejects t.auth
    task,       \* Start and ApplyCookies -> how far they are
    made,       \* task -> the link it is making
    linked,     \* t.relay and t.ws, 0 when nil
    links,      \* links made so far
    live,       \* those whose context is not cancelled
    ws,         \* the listener of every link
    worker,     \* the worker; "Old": with another authorization than t.auth
    reported,   \* relayClient.rejected is t.auth
    late, crossed   \* history: links made after Stop; makers that overlapped

lifeVars == <<running, connected, stop, leaving>>
taskVars == <<task, made, linked, links, late, crossed>>
relayVars == <<bad, worker, reported>>
volgaVars == <<lifeVars, taskVars, live, ws, relayVars>>

Links == 1..MaxLinks
Starter == "Start"
Makers == {Starter} \cup Applies

Init ==
    /\ running = FALSE /\ connected = FALSE /\ stop = "no" /\ leaving = 0
    /\ task = [t \in Makers |-> "idle"] /\ made = [t \in Makers |-> 0]
    /\ linked = 0 /\ links = 0 /\ live = {}
    /\ late = {} /\ crossed = FALSE
    /\ ws = [k \in Links |-> "none"]
    /\ bad = FALSE /\ worker = [k \in Links |-> "none"] /\ reported = {}

-----------------------------------------------------------------------------
\* Authorization

Superseded == [post |-> "postOld", await |-> "awaitOld"]
Outdated(w) == [k \in Links |-> IF w[k] \in DOMAIN Superseded THEN Superseded[w[k]] ELSE w[k]]

\* t.auth.Store of a new authorization.
Renew(w) ==
    /\ bad' = FALSE
    /\ reported' = {}
    /\ worker' = Outdated(w)

\* The token expires, or the service ends the session.
Expire ==
    /\ links > 0 /\ ~bad
    /\ bad' = TRUE
    /\ UNCHANGED <<lifeVars, taskVars, live, ws, worker, reported>>

-----------------------------------------------------------------------------
\* Making and stopping a link

At(t, from, to) == task[t] = from /\ task' = [task EXCEPT ![t] = to]
Busy == {t \in Makers : task[t] # "idle"}

\* A Start that failed is tried again by the session, with whatever is there.
Start ==
    /\ ~connected /\ stop = "no"
    /\ At(Starter, "idle", "authorize")
    /\ running' = TRUE
    /\ crossed' = (crossed \/ Busy # {} \/ linked \in live)
    /\ UNCHANGED <<connected, stop, leaving, made, linked, links, late, live, ws, relayVars>>

\* An authorization that fails; after ApplyCookies nothing else happens.
AuthorizeFails(t) ==
    /\ At(t, "authorize", IF t = Starter THEN "idle" ELSE "spent")
    /\ UNCHANGED <<lifeVars, made, linked, links, late, crossed, live, ws, relayVars>>

\* startLinks: both run before t.relay and t.ws name them.
StartLinks(t) ==
    LET k == links + 1 IN
    /\ At(t, "authorize", "publish")
    /\ k \in Links
    /\ Renew([worker EXCEPT ![k] = "idle"])
    /\ links' = k
    /\ made' = [made EXCEPT ![t] = k]
    /\ live' = live \cup {k}
    /\ late' = IF stop # "no" THEN late \cup {k} ELSE late
    /\ ws' = [ws EXCEPT ![k] = "first"]
    /\ UNCHANGED <<lifeVars, linked, crossed>>

Publish(t) ==
    /\ At(t, "publish", IF t = Starter THEN "idle" ELSE "spent")
    /\ linked' = made[t]
    /\ connected' = (connected \/ t = Starter)
    /\ late' = IF stop # "no" THEN late \cup {made[t]} ELSE late
    /\ UNCHANGED <<running, stop, leaving, made, links, crossed, live, ws, relayVars>>

\* RequestReconnect: nothing without a connection.
Cut(w, k) == IF k # 0 /\ w[k] = "up" THEN [w EXCEPT ![k] = "cut"] ELSE w

\* mutant
OnlyCut == live
Cancelled == live \ {linked}

\* stopLinks up to the wait for the workers
StopLinks ==
    /\ live' = Cancelled
    /\ ws' = Cut(ws, linked)

Joined(k) == k # 0 => worker[k] = "exit"

ApplyCookies(t) ==
    /\ linked # 0 /\ t # Starter
    /\ At(t, "idle", "join")
    /\ made' = [made EXCEPT ![t] = linked]
    /\ crossed' = (crossed \/ \E u \in Busy : task[u] # "spent")
    /\ StopLinks
    /\ UNCHANGED <<lifeVars, linked, links, late, relayVars>>

ThenAuthorize == IF running THEN "authorize" ELSE "spent"

ApplyJoined(t) ==
    /\ Joined(made[t])
    /\ At(t, "join", ThenAuthorize)
    /\ made' = [made EXCEPT ![t] = 0]
    /\ UNCHANGED <<lifeVars, linked, links, late, crossed, live, ws, relayVars>>

Stop ==
    /\ stop = "no" /\ running
    /\ stop' = "waits" /\ leaving' = linked
    /\ StopLinks
    /\ UNCHANGED <<running, connected, taskVars, relayVars>>

StopEnds ==
    /\ stop = "waits"
    /\ Joined(leaving)
    /\ stop' = "done"
    /\ connected' = FALSE /\ running' = FALSE
    /\ UNCHANGED <<leaving, taskVars, live, ws, relayVars>>

-----------------------------------------------------------------------------
\* The listener

Listens(k, from, to) == ws[k] = from /\ ws' = [ws EXCEPT ![k] = to]
IfLive(k, to) == IF k \in live THEN to ELSE "exit"
WsKeeps == UNCHANGED <<lifeVars, taskVars, live>>

\* The first time round the listener uses the authorization it was made with.
WsTop(k) ==
    /\ Listens(k, "first", IfLive(k, "dial")) \/ Listens(k, "top", IfLive(k, "refresh"))
    /\ UNCHANGED relayVars /\ WsKeeps

\* refreshAuth: a listener that was stopped publishes nothing; on failure the
\* old authorization stays.
Refresh(k) == Listens(k, "refresh", "dial") /\ k \in live /\ Renew(worker) /\ WsKeeps
RefreshFails(k) == Listens(k, "refresh", IfLive(k, "dial")) /\ UNCHANGED relayVars /\ WsKeeps

Dial(k) == Listens(k, "dial", IfLive(k, "up")) /\ UNCHANGED relayVars /\ WsKeeps
DialFails(k) == Listens(k, "dial", IfLive(k, "wait")) /\ UNCHANGED relayVars /\ WsKeeps

\* The network, a read that timed out, or RequestReconnect.
Drop(k) ==
    /\ Listens(k, "up", IfLive(k, "wait")) \/ Listens(k, "cut", IfLive(k, "wait"))
    /\ UNCHANGED relayVars /\ WsKeeps

\* mutant
NeverDue == FALSE
RotationDue == TRUE
\* MaxSessionAge: no session stays for ever.
Rotate(k) == RotationDue /\ Drop(k)

Wait(k) == Listens(k, "wait", IfLive(k, "top")) /\ UNCHANGED relayVars /\ WsKeeps

\* statsLoop: a minute of packets and no reply; it does not outlast Stop.
Stalled ==
    /\ connected /\ stop = "no"
    /\ linked # 0 /\ ws[linked] = "up"
    /\ ws' = Cut(ws, linked)
    /\ UNCHANGED <<lifeVars, taskVars, live, relayVars>>

-----------------------------------------------------------------------------
\* A relay worker

Works(k, from, to) == worker[k] = from /\ worker' = [worker EXCEPT ![k] = to]
RelayKeeps == UNCHANGED <<lifeVars, bad, taskVars, live>>

Post(k) == Works(k, "idle", "post") /\ UNCHANGED <<ws, reported>> /\ RelayKeeps

\* Taken, or lost with the connection.
Posted(k) ==
    /\ Works(k, "post", "idle") \/ Works(k, "postOld", "idle")
    /\ UNCHANGED <<ws, reported>> /\ RelayKeeps

\* The first worker to see an authorization rejected asks for another.
Rejected(k) ==
    /\ bad
    /\ Works(k, "post", "await")
    /\ reported' = reported \cup {k}
    /\ ws' = IF k \in reported THEN ws ELSE Cut(ws, k)
    /\ RelayKeeps

\* An older one, which may have been reported before; now it was the last.
RejectedOld(k) ==
    /\ Works(k, "postOld", "awaitOld")
    /\ reported' = reported \ {k}
    /\ ws' \in {ws, Cut(ws, k)}
    /\ RelayKeeps

\* waitForNewAuth: the batch is sent once more, or given up.
AwaitEnds(k) ==
    /\ Works(k, "await", "idle") \/ Works(k, "awaitOld", "idle")
    /\ UNCHANGED <<ws, reported>> /\ RelayKeeps

WorkerEnds(k) ==
    /\ k \notin live
    /\ Works(k, "idle", "exit")
    /\ UNCHANGED <<ws, reported>> /\ RelayKeeps

-----------------------------------------------------------------------------
MakerSteps(t) ==
    /\ task[t] # "idle"
    /\ AuthorizeFails(t) \/ StartLinks(t) \/ Publish(t) \/ ApplyJoined(t)
ListenerSteps(k) ==
    /\ ws[k] # "none"
    /\ WsTop(k) \/ Refresh(k) \/ RefreshFails(k) \/ Dial(k) \/ DialFails(k) \/ Wait(k)
WorkerSteps(k) ==
    /\ worker[k] # "none"
    /\ Posted(k) \/ Rejected(k) \/ RejectedOld(k) \/ AwaitEnds(k) \/ WorkerEnds(k)

Next ==
    \/ Start
    \/ Stop
    \/ StopEnds
    \/ Expire
    \/ Stalled
    \/ \E t \in Makers : MakerSteps(t) \/ ApplyCookies(t)
    \/ \E k \in Links :
         \/ ListenerSteps(k)
         \/ Drop(k)
         \/ Rotate(k)
         \/ Post(k)
         \/ WorkerSteps(k)

Spec == Init /\ [][Next]_volgaVars

\* What works in the end when it can be tried again and again.
Luck(i) == \E k \in Links :
    \/ i = 1 /\ Refresh(k)
    \/ i = 2 /\ Dial(k)
    \/ i = 3 /\ WorkerEnds(k)

\* Goroutines run and requests end; a refresh and a dial that are tried
\* again and again work once; a session ends when it was cut, was stopped
\* or is too old. Nobody is made to Start, Stop or apply cookies.
Scheduled ==
    /\ \A t \in Makers : WF_volgaVars(MakerSteps(t))
    /\ WF_volgaVars(StopEnds)
    /\ \A k \in Links :
         /\ WF_volgaVars(ListenerSteps(k))
         /\ WF_volgaVars(ws[k] = "cut" /\ Drop(k))
         /\ WF_volgaVars(k \notin live /\ Drop(k))
         /\ WF_volgaVars(Rotate(k))
         /\ WF_volgaVars(WorkerSteps(k))

FairSpec == Spec /\ Scheduled /\ \A i \in 1..3 : SF_volgaVars(Luck(i))

-----------------------------------------------------------------------------
WorkerStates == {"none", "idle", "post", "postOld", "await", "awaitOld", "exit"}

Flags == running \in BOOLEAN /\ connected \in BOOLEAN /\ crossed \in BOOLEAN /\ bad \in BOOLEAN

TypeOK ==
    /\ Flags
    /\ stop \in {"no", "waits", "done"}
    /\ task \in [Makers -> {"idle", "authorize", "publish", "join", "spent"}]
    /\ links \in 0..MaxLinks /\ linked \in 0..links /\ leaving \in 0..links
    /\ live \subseteq 1..links /\ late \subseteq 1..links
    /\ ws \in [Links -> {"none", "first", "top", "refresh", "dial", "up", "cut", "wait", "exit"}]
    /\ worker \in [Links -> WorkerStates]

\* No link is left running that nothing can stop: unless the makers of
\* links overlapped, t.relay and t.ws name the only one (vyandex.go:1206).
Publishing == \E t \in Makers : task[t] = "publish"

OneLink ==
    ~crossed /\ ~Publishing => live \subseteq {linked} \cup late

\* After Stop no link runs and the carrier says so, but for what was being
\* authorized when Stop came (vyandex.go:1318).
StopHolds ==
    stop = "done" /\ ~crossed /\ ~Publishing => live \subseteq late /\ (connected => late # {})

\* An authorization the server rejects is replaced as long as a link runs:
\* a rejection that comes while the listener has no connection to close is
\* reported once and never again, and only the rotation of the session
\* gets past it (vyandex.go:698, :919, :1063).
Severed == bad /\ live # {}
Renewed == []<>~Severed

\* What Stop cancelled ends, listener and workers, and Stop returns.
Winding ==
    \/ stop = "waits"
    \/ \E k \in (1..links) \ live : ws[k] # "exit" \/ worker[k] # "exit"
WindsDown == []<>~Winding
-----------------------------------------------------------------------------
\* What keeps one link: the inductive invariant.

\* Makers that have nothing to do with a link that runs, and makers that will.
Comes(t) == task[t] \in {"authorize", "join"}
AtWork(t) == Comes(t) \/ task[t] = "publish"

MadeTyped ==
    /\ made \in [Makers -> 0..links]
    /\ \A t \in Makers : task[t] = "publish" => made[t] # 0

\* While makers do not overlap there is one at a time; it begins when no link
\* runs, and the one it made is the only one until it is published.
OneMaker ==
    ~crossed =>
        /\ \A t, u \in Makers : AtWork(t) /\ AtWork(u) => t = u
        /\ \A t \in Makers : Comes(t) => live \subseteq late
        /\ \A t \in Makers : task[t] = "publish" => live \subseteq {made[t]} \cup late

\* After Stop a link that runs is being published, or was made too late.
Stopped ==
    /\ ~crossed /\ stop # "no" /\ ~Publishing => live \subseteq late
    /\ stop = "done" /\ connected => late # {}

IInv == TypeOK /\ MadeTyped /\ OneMaker /\ OneLink /\ Stopped /\ StopHolds
=============================================================================
