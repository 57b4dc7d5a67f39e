------------------------------ MODULE CupsRoom ------------------------------
\* One room of the cups.online carrier
\* (Core/transport/cupsonline/cupsonline.go): `run` joins the room's page
\* for tokens, keeps a Centrifugo socket up with them and tells a room
\* that is closed from a network that is down; pullLoop takes pieces from
\* the stripe and keeps a window of them unanswered. The two goroutines
\* share the socket, the count of what is in flight and its ids.
\*
\* The room, its tokens and the network are the environment: a page load,
\* a dial or a handshake may fail for no reason of the room's.
EXTENDS Integers, FiniteSets

CONSTANTS
    Window,     \* SendWindow
    DeadAfter,  \* roomDeadAfterFails
    Ids,        \* ids of the commands (a bound: they are used again)
    MaxTurns    \* times the room closes or comes back, or its tokens expire (a bound)

VARIABLES
    ctx,        \* the transport: "new", "up", "failed", "stopped"
    list,       \* the rooms: "saved" ones, or "new" ones the client must be told of
    room, tokens, turns,            \* what is true of them
    run, needJoin, fails, dead,     \* cupsWS.run
    connected,
    sock,       \* conn: "none", "fresh" before the handshake, "ready", "broken" by a write
    pull, mine, \* pullLoop, and the id of the command it is sending
    inflight, dataIDs,
    asked       \* commands on the socket the server will answer

envVars == <<room, tokens, turns>>
runVars == <<run, needJoin, fails, dead>>
pullVars == <<pull, mine>>
gateVars == <<inflight, dataIDs, asked>>
cupsVars == <<ctx, list, envVars, runVars, connected, sock, pullVars, gateVars>>

NoCommand == 0

Init ==
    /\ ctx = "new" /\ list \in {"saved", "new"}
    /\ room = "open" /\ tokens = "none" /\ turns = 0
    /\ run = "off" /\ needJoin = FALSE /\ fails = 0 /\ dead = FALSE
    /\ connected = FALSE /\ sock = "none"
    /\ pull = "off" /\ mine = NoCommand
    /\ inflight = 0 /\ dataIDs = {} /\ asked = {}

-----------------------------------------------------------------------------
\* The environment

RoomChanges ==
    /\ turns < MaxTurns /\ ctx # "failed"
    /\ turns' = turns + 1
    /\ \/ UNCHANGED tokens /\ room' = IF room = "open" THEN "gone" ELSE "open"
       \/ tokens = "good" /\ tokens' = "stale" /\ UNCHANGED room
    /\ UNCHANGED <<ctx, list, runVars, connected, sock, pullVars, gateVars>>

\* What entering this room, and the other rooms of the list, comes to.
Entered == IF room = "open" THEN {"joined", "failed"} ELSE {"gone", "failed"}

Comes(entered) ==
    /\ ctx' = "up"
    /\ run' = "top" /\ pull' = "top"
    /\ tokens' = IF entered = "joined" THEN "good" ELSE "none"
    /\ needJoin' = (entered # "joined")
    /\ dead' = (entered = "gone")

Fails ==
    /\ ctx' = "failed"
    /\ UNCHANGED <<tokens, run, pull, needJoin, dead, list, room>>

\* enterRooms: only an exit all of whose rooms are closed makes new ones.
Start(entered, others, isClient) ==
    /\ ctx = "new"
    /\ entered \in Entered
    /\ IF "joined" \in {entered, others} THEN Comes(entered) /\ UNCHANGED <<list, room>>
       ELSE IF isClient \/ "failed" \in {entered, others} THEN Fails
       ELSE \/ Comes("joined") /\ list' = "new" /\ room' = "open"
            \/ Fails
    /\ UNCHANGED <<turns, fails, connected, sock, mine, gateVars>>

Stop ==
    /\ ctx \in {"new", "up"}
    /\ ctx' = "stopped"
    /\ UNCHANGED <<list, envVars, runVars, connected, sock, pullVars, gateVars>>

-----------------------------------------------------------------------------
\* run

Runs(from, to) == run = from /\ run' = to

RunTop ==
    /\ Runs("top", IF ctx = "stopped" THEN "exit" ELSE IF needJoin \/ dead THEN "join" ELSE "dial")
    /\ UNCHANGED <<ctx, list, envVars, needJoin, fails, dead, connected, sock, pullVars, gateVars>>

\* The page gives fresh tokens, says that the room is gone, or fails.
Join ==
    /\ \/ Runs("join", "dial") /\ room = "open" /\ tokens' = "good" /\ needJoin' = FALSE /\ UNCHANGED dead
       \/ Runs("join", "wait") /\ room = "gone" /\ dead' = TRUE /\ UNCHANGED <<tokens, needJoin>>
       \/ Runs("join", "wait") /\ UNCHANGED <<tokens, needJoin, dead>>
    /\ UNCHANGED <<ctx, list, room, turns, fails, connected, sock, pullVars, gateVars>>

\* After a refusal, and after every other failure in case it was one.
MustJoin(refused, n) == refused \/ (~connected /\ n % 2 = 0)

\* fails goes on counting; only its parity matters beyond DeadAfter.
Another == IF fails <= DeadAfter THEN fails + 1 ELSE fails - 1

\* connectAndServe returned; its deferred calls take the socket away.
Broken(refused) ==
    LET n == IF connected THEN 0 ELSE Another IN
    /\ connected' = FALSE
    /\ sock' = "none"
    /\ asked' = {}
    /\ fails' = n
    /\ dead' = (dead \/ n = DeadAfter)
    /\ needJoin' = MustJoin(refused, n)
    /\ run' = IF ctx = "stopped" THEN "exit" ELSE "wait"

Dial ==
    /\ run = "dial"
    /\ \/ /\ sock' = "fresh" /\ run' = "reset"
          /\ UNCHANGED <<connected, fails, dead, needJoin, asked>>
       \/ Broken(FALSE)
    /\ UNCHANGED <<ctx, list, envVars, pullVars, inflight, dataIDs>>

\* mutant: the count of the old socket goes on
OldCount == inflight
Zero == 0

ResetCount ==
    /\ Runs("reset", "clear")
    /\ inflight' = Zero
    /\ UNCHANGED <<ctx, list, envVars, needJoin, fails, dead, connected, sock, pullVars, dataIDs, asked>>

ClearIDs ==
    /\ Runs("clear", "hello")
    /\ dataIDs' = {}
    /\ UNCHANGED <<ctx, list, envVars, needJoin, fails, dead, connected, sock, pullVars, inflight, asked>>

Welcome == tokens = "good" /\ room = "open"

\* connect and subscribe: ready, refused, or no answer.
Hello ==
    /\ run = "hello"
    /\ \/ /\ Welcome /\ ctx = "up" /\ sock = "fresh"
          /\ sock' = "ready" /\ connected' = TRUE
          /\ dead' = FALSE
          /\ run' = "serve"
          /\ UNCHANGED <<fails, needJoin, asked>>
       \/ ~Welcome /\ Broken(TRUE)
       \/ Broken(FALSE)
    /\ UNCHANGED <<ctx, list, envVars, pullVars, inflight, dataIDs>>

\* The server or the network ends it, or a write that failed, or Stop.
Drop ==
    /\ run = "serve"
    /\ Broken(FALSE)
    /\ UNCHANGED <<ctx, list, envVars, pullVars, inflight, dataIDs>>

Wait ==
    /\ Runs("wait", IF ctx = "stopped" THEN "exit" ELSE "top")
    /\ UNCHANGED <<ctx, list, envVars, needJoin, fails, dead, connected, sock, pullVars, gateVars>>

\* A reply: the reader takes the command out of the window.
Answer(id) ==
    /\ run = "serve" /\ sock = "ready"
    /\ id \in asked
    /\ asked' = asked \ {id}
    /\ dataIDs' = dataIDs \ {id}
    /\ inflight' = IF id \in dataIDs /\ inflight > 0 THEN inflight - 1
                   ELSE IF id \in dataIDs THEN 0 ELSE inflight
    /\ UNCHANGED <<ctx, list, envVars, runVars, connected, sock, pullVars>>

-----------------------------------------------------------------------------
\* pullLoop

Pulls(from, to) == pull = from /\ pull' = to
PullKeeps == UNCHANGED <<ctx, list, envVars, runVars, connected>>

PullTop ==
    /\ \/ ctx = "stopped" /\ Pulls("top", "exit")
       \/ ctx # "stopped" /\ connected /\ Pulls("top", "gate")
    /\ UNCHANGED <<mine, sock, gateVars>> /\ PullKeeps

Open == inflight < Window

\* Wait for room in the window, look whether the room is still up, then pace.
Gate ==
    /\ \/ Open /\ connected /\ Pulls("gate", "pull")
       \/ ~connected /\ Pulls("gate", "top")
       \/ ctx = "stopped" /\ Pulls("gate", "exit")
    /\ UNCHANGED <<mine, sock, gateVars>> /\ PullKeeps

\* The stripe has pieces for a message, or none.
Take ==
    /\ \/ Pulls("pull", "count") /\ \E id \in Ids \ (dataIDs \cup asked) : mine' = id /\ dataIDs' = dataIDs \cup {id}
       \/ Pulls("pull", "top") /\ UNCHANGED <<mine, dataIDs>>
    /\ UNCHANGED <<sock, inflight, asked>> /\ PullKeeps

Count ==
    /\ Pulls("count", "send")
    /\ inflight' = inflight + 1
    /\ UNCHANGED <<sock, mine, dataIDs, asked>> /\ PullKeeps

\* A command before the handshake is written all the same; nobody answers it.
Write ==
    /\ sock \in {"fresh", "ready"}
    /\ Pulls("send", "top")
    /\ mine' = NoCommand
    /\ asked' = IF sock = "ready" THEN asked \cup {mine} ELSE asked
    /\ UNCHANGED <<sock, inflight, dataIDs>> /\ PullKeeps

GiveBack == inflight - 1

WriteFails ==
    /\ Pulls("send", "top")
    /\ sock' = IF sock = "none" THEN sock ELSE "broken"
    /\ mine' = NoCommand
    /\ dataIDs' = dataIDs \ {mine}
    /\ inflight' = GiveBack
    /\ UNCHANGED asked /\ PullKeeps

-----------------------------------------------------------------------------
Run == run # "off" /\ (RunTop \/ Join \/ Dial \/ ResetCount \/ ClearIDs \/ Hello \/ Wait)
Pull == pull # "off" /\ (PullTop \/ Gate \/ Take \/ Count \/ Write \/ WriteFails)

Next ==
    \/ RoomChanges
    \/ \E entered, others \in {"joined", "gone", "failed"}, isClient \in BOOLEAN : Start(entered, others, isClient)
    \/ Stop
    \/ Run
    \/ Drop
    \/ \E id \in Ids : Answer(id)
    \/ Pull

Spec == Init /\ [][Next]_cupsVars

\* What works in the end when it can be tried again and again.
Luck(i) ==
    \/ i = 1 /\ Join /\ run' = "dial"
    \/ i = 2 /\ Dial /\ sock' = "fresh"
    \/ i = 3 /\ Hello /\ connected'

\* The goroutines run and the server answers; a page load, a dial and a
\* handshake that could work do in the end; a write that failed, and Stop,
\* end the socket. Nobody is made to Start or Stop, and the stripe may
\* have nothing to send.
Scheduled ==
    /\ WF_cupsVars(Run) /\ WF_cupsVars(Pull)
    /\ WF_cupsVars((ctx = "stopped" \/ sock = "broken") /\ Drop)
    /\ \A id \in Ids : WF_cupsVars(Answer(id))

FairSpec == Spec /\ Scheduled /\ \A i \in 1..3 : SF_cupsVars(Luck(i))

-----------------------------------------------------------------------------
Flags == needJoin \in BOOLEAN /\ dead \in BOOLEAN /\ connected \in BOOLEAN

TypeOK ==
    /\ Flags
    /\ ctx \in {"new", "up", "failed", "stopped"} /\ list \in {"saved", "new"}
    /\ room \in {"open", "gone"} /\ tokens \in {"none", "good", "stale"} /\ turns \in 0..MaxTurns
    /\ run \in {"off", "top", "join", "dial", "reset", "clear", "hello", "serve", "wait", "exit"}
    /\ fails \in 0..(DeadAfter + 1) /\ sock \in {"none", "fresh", "ready", "broken"}
    /\ pull \in {"off", "top", "gate", "pull", "count", "send", "exit"} /\ mine \in Ids \cup {NoCommand}
    /\ inflight \in Int /\ dataIDs \subseteq Ids /\ asked \subseteq Ids

\* "SendWindow is how many cursor RPCs a striped lane keeps in flight
\* before it waits for a reply" (cupsonline.go:107): the reset of a new
\* socket may catch the puller between its id, its count and its write,
\* and the window is then off by one command, never by more, whatever
\* number of reconnects there were.
Paced ==
    /\ Cardinality(asked) <= Window + 1
    /\ pull \in {"top", "gate"} => inflight \in (Cardinality(asked) - 1)..(Cardinality(asked) + 1)
                                   \/ ~connected

\* What the operator reads is right: a room that is up is not reported
\* closed, and a room whose channel is up has a socket that is ready
\* (cupsonline.go:583, :840).
Honest ==
    /\ connected => ~dead /\ sock \in {"ready", "broken"}
    /\ run \in {"off", "exit"} => ~connected /\ sock = "none"

\* "start the in-flight count and its ids clean so the puller isn't stuck
\* at the window forever" (cupsonline.go:818).
Unanswered == pull = "gate"
NotStuck == []<>~Unanswered

\* A room that is open gets its channel back, however its tokens ended and
\* however the server said so, unless it closes or the transport stops
\* (cupsonline.go:703).
Severed == ctx = "up" /\ room = "open" /\ ~connected
Recovers == []<>~Severed

\* After Stop both goroutines end and the socket goes (cupsonline.go:1428).
Winding == ctx = "stopped" /\ ~({run, pull} \subseteq {"off", "exit"} /\ sock = "none")
WindsDown == []<>~Winding
-----------------------------------------------------------------------------
\* What keeps the window: the inductive invariant.

\* The socket that run has where it is; nobody runs before Start.
Channel ==
    /\ connected <=> run = "serve"
    /\ run \in {"off", "top", "join", "dial", "wait", "exit"} => sock = "none"
    /\ run \in {"reset", "clear", "hello"} => sock \in {"fresh", "broken"}
    /\ run = "serve" => sock \in {"ready", "broken"} /\ ~dead
    /\ run # "serve" => asked = {}
    /\ ctx = "new" => run = "off" /\ pull = "off"

\* What the puller counted stays within the window, even when a reset meets it.
Sends ==
    /\ pull \in {"count", "send"} => mine \in Ids \ asked
    /\ pull \in {"pull", "count"} => inflight < Window
    /\ pull = "send" => inflight <= Window

\* How far the count is ahead of what is under way, and the commands whose
\* answer it will not notice: the reset can make either of one command.
Ahead == inflight - Cardinality(asked) - (IF pull = "send" THEN 1 ELSE 0)
Strays == asked \ dataIDs

Counted ==
    /\ run \in {"clear", "hello", "serve"} => Ahead \in -1..1
    /\ run \in {"clear", "hello"} /\ pull \in {"pull", "count", "send"} => Ahead <= 0
    /\ run = "serve" =>
         /\ \A x, y \in Strays : x = y
         /\ Strays # {} => Ahead <= 0
         /\ pull \in {"count", "send"} /\ mine \notin dataIDs => Strays = {} /\ Ahead <= 0

IInv == TypeOK /\ Paced /\ Honest /\ Channel /\ Sends /\ Counted
=============================================================================
