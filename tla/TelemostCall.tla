---------------------------- MODULE TelemostCall ----------------------------
\* A participant of a Telemost room (Core/transport/yandex/telemost.go):
\* one goroutine dials the media server, says hello and reads; each
\* serverHello makes a publishing and a subscribing peer connection, with
\* the goroutines that feed and read them; a call that ends is followed by
\* another one.
\*
\* Calls are numbered. What hangs on a call is known by its number, and
\* what the program keeps in one field (conn, publisherPC, subscriberPC,
\* trackReady) is one variable that calls overwrite. The other side is
\* free: it hangs up, fails, and lets peer connections come and go.
EXTENDS Naturals

CONSTANTS
    MaxCalls,       \* sockets opened in a behaviour (a bound)
    MaxAttempts,    \* MaxReconnectAttempts
    Scenes          \* what may go on: sets of "publish" and "listen" (a bound)

VARIABLES
    scene,          \* what goes on: this end publishes, another one does
    life,           \* "new", "running", "closing" (in Stop), "stopped"
    connected,      \* BaseTransport.connected
    chain,          \* where the dialling goroutine is
    attempt,        \* its argument
    vain,           \* dials in a row that failed or led to a short call
    calls,          \* sockets opened so far
    conn,           \* t.conn, 0 when nil
    open,           \* sockets neither side has closed
    greeted,        \* calls whose serverHello came
    announcers,     \* calls whose delayed announcement is still to be sent
    told,           \* the call there is got an announcement
    publisher,      \* t.publisherPC, 0 when nil
    pub,            \* state of every publishing peer connection
    ready,          \* trackReady
    clocks,         \* calls whose publish clock ticks
    subscriber,     \* t.subscriberPC, 0 when nil
    sub,            \* state of every subscribing peer connection
    readers,        \* calls whose remote track is being read
    late            \* calls whose socket was dialled into a stopped transport

socketVars == <<connected, conn, open, late>>
dialVars == <<chain, attempt, vain, calls>>
sayVars == <<greeted, announcers, told>>
pubVars == <<publisher, pub, ready, clocks>>
subVars == <<subscriber, sub, readers>>
telemostVars == <<scene, life, socketVars, dialVars, sayVars, pubVars, subVars>>

Calls == 1..MaxCalls
PCStates == {"none", "new", "bound", "up", "closed"}

Init ==
    /\ scene \in Scenes
    /\ life = "new" /\ connected = FALSE
    /\ chain = "none" /\ attempt = 0 /\ vain = 0 /\ calls = 0
    /\ conn = 0 /\ open = {} /\ late = {}
    /\ greeted = {} /\ announcers = {} /\ told = FALSE
    /\ publisher = 0 /\ pub = [c \in Calls |-> "none"] /\ ready = FALSE /\ clocks = {}
    /\ subscriber = 0 /\ sub = [c \in Calls |-> "none"] /\ readers = {}

IsRunning == life \in {"running", "closing"}

-----------------------------------------------------------------------------
\* Start and the goroutine that dials

\* The conference was looked up; a lookup that fails leaves running set.
Start ==
    /\ life = "new"
    /\ chain = "none"
    /\ life' = "running"
    /\ chain' = "dial"
    /\ UNCHANGED <<scene, attempt, vain, calls, socketVars, sayVars, pubVars, subVars>>

\* scheduleReconnect(attempt), with a the next attempt.
Reconnect(a) ==
    [at |-> IF ~IsRunning \/ a >= MaxAttempts THEN "ended" ELSE "backoff",
     attempt |-> a]

Schedule(a) ==
    /\ chain' = Reconnect(a).at
    /\ attempt' = Reconnect(a).attempt

DialFails ==
    /\ chain = "dial"
    /\ Schedule(attempt + 1)
    /\ vain' = vain + 1
    /\ UNCHANGED <<scene, life, calls, socketVars, sayVars, pubVars, subVars>>

BackoffEnds ==
    /\ chain = "backoff"
    /\ chain' = IF IsRunning THEN "dial" ELSE "ended"
    /\ UNCHANGED <<scene, life, attempt, vain, calls, socketVars, sayVars, pubVars, subVars>>

\* The dialled connection is taken without another look at running.
Dial ==
    /\ chain = "dial"
    /\ calls < MaxCalls
    /\ calls' = calls + 1
    /\ conn' = calls + 1
    /\ open' = open \cup {calls + 1}
    /\ connected' = TRUE
    /\ late' = IF life # "running" THEN late \cup {calls + 1} ELSE late
    /\ told' = FALSE
    /\ chain' = "hello"
    /\ UNCHANGED <<scene, life, attempt, vain, greeted, announcers, pubVars, subVars>>

SayHello ==
    /\ chain = "hello"
    /\ calls \in open
    /\ chain' = "read"
    /\ UNCHANGED <<scene, life, attempt, vain, calls, socketVars, sayVars, pubVars, subVars>>

\* mutant
LeaveConnected == connected
Disconnected == FALSE

HelloFails ==
    /\ chain = "hello"
    /\ open' = open \ {calls}
    /\ connected' = Disconnected
    /\ Schedule(attempt + 1)
    /\ vain' = vain + 1
    /\ UNCHANGED <<scene, life, calls, conn, late, sayVars, pubVars, subVars>>

\* A call that lasted starts the count of attempts anew.
HangUp(lasted) ==
    /\ chain = "read"
    /\ open' = open \ {calls}
    /\ connected' = Disconnected
    /\ Schedule(IF lasted THEN 0 ELSE attempt + 1)
    /\ vain' = IF lasted THEN 0 ELSE vain + 1
    /\ UNCHANGED <<scene, life, calls, conn, late, sayVars, pubVars, subVars>>

\* The loop looks at running between two messages and leaves the socket alone.
ReadEnds ==
    /\ chain = "read"
    /\ ~IsRunning
    /\ chain' = "ended"
    /\ UNCHANGED <<scene, life, attempt, vain, calls, socketVars, sayVars, pubVars, subVars>>

-----------------------------------------------------------------------------
\* What the media server says

Hears == chain = "read" /\ calls \in open

\* initPublisherPC, or not wanted (publishKind); the former one is not closed.
Publish ==
    /\ "publish" \in scene
    /\ publisher' = calls
    /\ pub' = [pub EXCEPT ![calls] = "new"]
    /\ ready' = FALSE

\* initWebRTC, which may fail; the former subscriber is not closed.
Subscribe ==
    /\ "listen" \in scene
    /\ subscriber' = calls
    /\ sub' = [sub EXCEPT ![calls] = "new"]

ServerHello ==
    /\ Hears
    /\ calls \notin greeted
    /\ greeted' = greeted \cup {calls}
    /\ announcers' = announcers \cup {calls}
    /\ Publish \/ UNCHANGED <<publisher, pub, ready>>
    /\ Subscribe \/ UNCHANGED <<subscriber, sub>>
    /\ UNCHANGED <<scene, life, dialVars, socketVars, told, clocks, readers>>

PublisherAnswer ==
    /\ Hears
    /\ publisher # 0
    /\ pub[publisher] = "new"
    /\ pub' = [pub EXCEPT ![publisher] = "bound"]
    /\ announcers' = announcers \cup {calls}
    /\ UNCHANGED <<scene, life, dialVars, socketVars, greeted, told, publisher, ready, clocks, subVars>>

\* Recreated when the offer's semantics differ; the answer goes to this call.
SubscriberOffer ==
    /\ "listen" \in scene
    /\ Hears
    /\ subscriber' = IF subscriber = 0 THEN calls ELSE subscriber
    /\ sub[subscriber'] \in {"none", "new"}
    /\ sub' = [sub EXCEPT ![subscriber'] = "up"]
    /\ UNCHANGED <<scene, life, dialVars, socketVars, sayVars, pubVars, readers>>

-----------------------------------------------------------------------------
\* The goroutines of a call

\* Track description, slots, codecs: over the connection there is by then.
Announce(c) ==
    /\ c \in announcers
    /\ announcers' = announcers \ {c}
    /\ told' = (told \/ conn \in open)
    /\ UNCHANGED <<scene, life, dialVars, socketVars, greeted, pubVars, subVars>>

PublisherUp(c) ==
    /\ pub[c] = "bound"
    /\ pub' = [pub EXCEPT ![c] = "up"]
    /\ ready' = TRUE
    /\ UNCHANGED <<scene, life, dialVars, socketVars, sayVars, publisher, clocks, subVars>>

\* Every peer connection reports to the one trackReady, old ones too.
PublisherDown(c) ==
    /\ pub[c] = "up"
    /\ pub' = [pub EXCEPT ![c] = "bound"]
    /\ ready' = FALSE
    /\ UNCHANGED <<scene, life, dialVars, socketVars, sayVars, publisher, clocks, subVars>>

\* The track is bound in time; a clock that ticks never ends.
ClockBinds(c) ==
    /\ pub[c] \in {"bound", "up"}
    /\ c \notin clocks
    /\ clocks' = clocks \cup {c}
    /\ UNCHANGED <<scene, life, dialVars, socketVars, sayVars, publisher, pub, ready, subVars>>

TrackComes(c) ==
    /\ sub[c] = "up"
    /\ c \notin readers
    /\ readers' = readers \cup {c}
    /\ UNCHANGED <<scene, life, dialVars, socketVars, sayVars, pubVars, subscriber, sub>>

\* The room lets go of a participant it lost: its peer connection ends.
SubscriberEnds(c) ==
    /\ sub[c] \in {"new", "up"}
    /\ c # calls \/ c \notin open
    /\ sub' = [sub EXCEPT ![c] = "closed"]
    /\ UNCHANGED <<scene, life, dialVars, socketVars, sayVars, pubVars, subscriber, readers>>

ReaderEnds(c) ==
    /\ c \in readers
    /\ ~IsRunning \/ sub[c] = "closed"
    /\ readers' = readers \ {c}
    /\ UNCHANGED <<scene, life, dialVars, socketVars, sayVars, pubVars, subscriber, sub>>

-----------------------------------------------------------------------------
\* Stop

Close(pcs, c) == IF c = 0 THEN pcs ELSE [pcs EXCEPT ![c] = "closed"]

StopCloses ==
    /\ life = "running"
    /\ life' = "closing"
    /\ open' = open \ {conn}
    /\ conn' = 0
    /\ pub' = Close(pub, publisher)
    /\ ready' = IF publisher = 0 THEN ready ELSE FALSE
    /\ sub' = Close(sub, subscriber)
    /\ UNCHANGED <<scene, dialVars, connected, late, sayVars, publisher, clocks, subscriber, readers>>

StopEnds ==
    /\ life = "closing"
    /\ life' = "stopped"
    /\ connected' = FALSE
    /\ UNCHANGED <<scene, dialVars, conn, open, late, sayVars, pubVars, subVars>>

-----------------------------------------------------------------------------
Chain ==
    \/ DialFails
    \/ BackoffEnds
    \/ Dial
    \/ SayHello
    \/ HelloFails
    \/ \E lasted \in BOOLEAN : HangUp(lasted)
    \/ ReadEnds

OfCall(c) ==
    \/ Announce(c)
    \/ PublisherUp(c)
    \/ PublisherDown(c)
    \/ ClockBinds(c)
    \/ TrackComes(c)
    \/ SubscriberEnds(c)
    \/ ReaderEnds(c)

Next ==
    \/ Start
    \/ Chain
    \/ ServerHello
    \/ PublisherAnswer
    \/ SubscriberOffer
    \/ \E c \in Calls : OfCall(c)
    \/ StopCloses
    \/ StopEnds

Spec == Init /\ [][Next]_telemostVars

\* The goroutines run; a peer connection nobody keeps up ends; a socket
\* that Stop closed, or that stays silent after Stop, is noticed.
Scheduled ==
    /\ WF_telemostVars(DialFails \/ Dial)
    /\ WF_telemostVars(BackoffEnds \/ SayHello \/ ReadEnds \/ StopEnds)
    /\ WF_telemostVars(calls \notin open /\ (HelloFails \/ HangUp(FALSE)))
    /\ \A c \in Calls :
         /\ WF_telemostVars(Announce(c))
         /\ WF_telemostVars(SubscriberEnds(c))
         /\ WF_telemostVars(ReaderEnds(c))

FairSpec == Spec /\ Scheduled

-----------------------------------------------------------------------------
Flags == connected \in BOOLEAN /\ ready \in BOOLEAN /\ told \in BOOLEAN

TypeOK ==
    /\ Flags
    /\ life \in {"new", "running", "closing", "stopped"}
    /\ chain \in {"none", "dial", "backoff", "hello", "read", "ended"}
    /\ attempt \in 0..MaxAttempts
    /\ calls \in 0..MaxCalls
    /\ conn \in 0..calls /\ publisher \in 0..calls /\ subscriber \in 0..calls
    /\ open \subseteq Calls /\ late \subseteq Calls
    /\ greeted \subseteq Calls /\ announcers \subseteq Calls
    /\ readers \subseteq Calls /\ clocks \subseteq Calls
    /\ pub \in [Calls -> PCStates] /\ sub \in [Calls -> PCStates]

\* The transport gives up only after MaxAttempts dials in a row came to
\* nothing: calls that lasted are forgotten (telemost.go:430, 441).
GivesUpInVain == life = "running" /\ chain = "ended" => vain >= MaxAttempts

\* IsConnected tells the truth to the session above: there is a socket
\* that is open, or whose end the reader has not seen yet; and trackReady
\* is set only while some publisher is up.
Honest ==
    /\ connected /\ life = "running" => chain \in {"hello", "read"}
    /\ ready => \E c \in Calls : pub[c] = "up"

\* A stopped transport has no call and says so, but for a call that was
\* being dialled when Stop came (telemost.go:297, 411).
StopHolds ==
    life = "stopped" /\ chain = "ended" => (connected \/ open # {} => late # {})

\* A call that ends is followed by another unless the attempts are used
\* up, and every call that is greeted while it lasts is announced to.
Severed == life = "running" /\ ~connected /\ chain # "ended" /\ calls < MaxCalls
Unanswered == greeted \cap open # {} /\ ~told
Recovers == ([]<>~Severed) /\ ([]<>~Unanswered)

\* After Stop nothing that dials, reads or announces is left (the publish
\* clocks are, see OnlyWriter).
Winding == life = "stopped" /\ ~(chain \in {"none", "ended"} /\ readers \cup announcers = {})
WindsDown == []<>~Winding

\* "This loop is also the only writer" (telemost.go:1652): one publish
\* clock feeds the track there is. A clock never ends, and all feed
\* t.sharingTrack.
OnlyWriter == \A c, d \in clocks : c = d
-----------------------------------------------------------------------------
\* What keeps the account true: the inductive invariant.

\* Attempts are what was dialled in vain, and they are not used up while the
\* goroutine is at work; it is there from Start on.
Counted ==
    /\ attempt = vain
    /\ chain # "ended" => attempt < MaxAttempts
    /\ chain \in {"hello", "read"} => calls # 0
    /\ chain = "none" <=> life = "new"

\* Only the last call's socket is ever open, t.conn is that socket until Stop,
\* and what is open after Stop was dialled into it.
OneSocket ==
    /\ open \subseteq {calls}
    /\ life = "new" => ~connected
    /\ life = "running" /\ open # {} => conn = calls /\ chain \in {"hello", "read"}
    /\ chain \in {"none", "dial", "backoff"} => open = {}
    /\ life \in {"closing", "stopped"} /\ open # {} => late # {}
    /\ life = "stopped" /\ connected => late # {}

IInv == TypeOK /\ Counted /\ OneSocket /\ GivesUpInVain /\ Honest /\ StopHolds
=============================================================================
