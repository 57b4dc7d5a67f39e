----------------------------- MODULE BoardsRoom -----------------------------
\* The Yandex Boards carrier (Core/transport/yandex/boards.go): Start
\* authorizes once; one goroutine then dials, greets, subscribes, reads,
\* and begins again. Every session has a queue with a writer of its own
\* and a heartbeat. Packets travel as objects on the board, and the board
\* shows everybody everything: a participant knows its own objects by the
\* hash of their creator, or by the name of who drew them, if it is given.
\*
\* The server calls a participant by the hash it subscribed with, or by
\* another one it made (431, participant-connected).
EXTENDS Naturals, FiniteSets

CONSTANTS
    MaxSessions,    \* sockets opened in a behaviour (a bound)
    MaxApplies,     \* calls of ApplyCookies (a bound)
    Named           \* the server says by name who drew an object

VARIABLES
    start,          \* the call of Start: "new", "authorize", "failed", "done"
    stops,          \* calls of Stop: before Start was done, and after
    closed,         \* t.done is closed
    connected,
    loop,           \* connectLoop
    session,        \* t.session, 0 when nil
    sessions, open, \* sockets opened so far; those nobody closed here or there
    writers, keepers,           \* sessions with a writer, with a heartbeat
    creator,        \* session -> who its objects are said to be by
    queued,         \* sessions with packets in their queue
    board,          \* objects of ours the server has yet to show us
    echoed,         \* one was taken for the peer's
    applies         \* calls of ApplyCookies

controlVars == <<start, stops, closed>>
sessionVars == <<session, sessions, open, creator>>
dataVars == <<queued, board, echoed>>
boardsVars == <<controlVars, connected, loop, sessionVars, writers, keepers, dataVars, applies>>

Sessions == 1..MaxSessions
\* info.userHash, and what else the server may say.
Hashes == {"user", "server"}

Init ==
    /\ start = "new" /\ stops = {} /\ closed = FALSE
    /\ connected = FALSE /\ loop = "off"
    /\ session = 0 /\ sessions = 0 /\ open = {} /\ creator = [s \in Sessions |-> "user"]
    /\ writers = {} /\ keepers = {}
    /\ queued = {} /\ board = {} /\ echoed = FALSE
    /\ applies = 0

-----------------------------------------------------------------------------
\* Start, Stop and ApplyCookies

\* The session tries again what failed.
Start ==
    /\ start \in {"new", "failed"} /\ stops = {}
    /\ start' = "authorize"
    /\ UNCHANGED <<stops, closed, connected, loop, sessionVars, writers, keepers, dataVars, applies>>

AuthorizeFails ==
    /\ start = "authorize"
    /\ start' = "failed"
    /\ UNCHANGED <<stops, closed, connected, loop, sessionVars, writers, keepers, dataVars, applies>>

\* Start makes t.done anew, whatever Stop closed.
NewDone == FALSE

Authorized ==
    /\ start = "authorize"
    /\ start' = "done"
    /\ closed' = NewDone
    /\ loop' = "top"
    /\ UNCHANGED <<stops, connected, sessionVars, writers, keepers, dataVars, applies>>

CloseSocket == open \ {session}

\* The session stops a link it was starting once more when Start is over.
Stop ==
    /\ start # "new"
    /\ LET when == IF start = "authorize" THEN "early" ELSE "late" IN
       /\ when \notin stops
       /\ stops' = stops \cup {when}
    /\ closed' = TRUE
    /\ open' = CloseSocket
    /\ connected' = FALSE
    /\ UNCHANGED <<start, loop, session, sessions, creator, writers, keepers, dataVars, applies>>

ApplyCookies ==
    /\ applies < MaxApplies
    /\ applies' = applies + 1
    /\ open' = open \ {session}
    /\ UNCHANGED <<controlVars, connected, loop, session, sessions, creator, writers, keepers, dataVars>>

-----------------------------------------------------------------------------
\* connectLoop and connectAndServe

LoopTop ==
    /\ loop = "top"
    /\ loop' = IF closed THEN "exit" ELSE "dial"
    /\ UNCHANGED <<controlVars, connected, sessionVars, writers, keepers, dataVars, applies>>

DialFails ==
    /\ loop = "dial"
    /\ loop' = "wait"
    /\ connected' = FALSE
    /\ UNCHANGED <<controlVars, sessionVars, writers, keepers, dataVars, applies>>

Dial ==
    /\ loop = "dial" /\ sessions < MaxSessions
    /\ loop' = "handshake"
    /\ sessions' = sessions + 1 /\ session' = sessions + 1
    /\ open' = open \cup {sessions + 1}
    /\ UNCHANGED <<controlVars, connected, creator, writers, keepers, dataVars, applies>>

HandshakeFails ==
    /\ loop = "handshake"
    /\ loop' = "wait"
    /\ open' = open \ {session} /\ session' = 0
    /\ connected' = FALSE
    /\ UNCHANGED <<controlVars, sessions, creator, writers, keepers, dataVars, applies>>

\* The answer to the subscription (431) names a creator or does not.
Handshake(h) ==
    /\ loop = "handshake" /\ session \in open
    /\ loop' = "serve"
    /\ creator' = [creator EXCEPT ![session] = h]
    /\ connected' = TRUE
    /\ writers' = writers \cup {session}
    /\ keepers' = keepers \cup {session}
    /\ UNCHANGED <<controlVars, session, sessions, open, dataVars, applies>>

\* handleParticipantConnected
Renamed(h) ==
    /\ loop = "serve" /\ session \in open
    /\ creator' = [creator EXCEPT ![session] = h]
    /\ UNCHANGED <<controlVars, connected, loop, session, sessions, open, writers, keepers, dataVars, applies>>

\* An error or ninety silent seconds. The socket stays open after those.
Leave ==
    /\ loop' = "wait"
    /\ connected' = FALSE
    /\ keepers' = keepers \ {session}
    /\ UNCHANGED <<controlVars, session, sessions, creator, writers, dataVars, applies>>
ReadFails == loop = "serve" /\ open' = open \ {session} /\ Leave
Silence == loop = "serve" /\ UNCHANGED open /\ Leave
\* With t.done closed it leaves at the next message, or before the first.
ServeEnds == loop = "serve" /\ closed /\ UNCHANGED open /\ Leave

WaitEnds ==
    /\ loop = "wait"
    /\ loop' = IF closed THEN "exit" ELSE "top"
    /\ UNCHANGED <<controlVars, connected, sessionVars, writers, keepers, dataVars, applies>>

-----------------------------------------------------------------------------
\* Packets

Send ==
    /\ session # 0
    /\ queued' = queued \cup {session}
    /\ UNCHANGED <<controlVars, connected, loop, sessionVars, writers, keepers, board, echoed, applies>>

\* A packet that cannot be written is gone.
Write(s) ==
    /\ s \in writers \cap queued
    /\ queued' = queued \ {s}
    /\ board' = IF s \in open THEN board \cup {creator[s]} ELSE board
    /\ UNCHANGED <<controlVars, connected, loop, sessionVars, writers, keepers, echoed, applies>>

WriterEnds(s) ==
    /\ s \in writers /\ closed
    /\ writers' = writers \ {s}
    /\ UNCHANGED <<controlVars, connected, loop, sessionVars, keepers, dataVars, applies>>

\* The heartbeat ends with its session, with t.done, or when it cannot write.
KeeperEnds(s) ==
    /\ s \in keepers /\ (closed \/ s \notin open)
    /\ keepers' = keepers \ {s}
    /\ UNCHANGED <<controlVars, connected, loop, sessionVars, writers, dataVars, applies>>

\* mutant
OnlyByHash(c) == c = "user"
OwnEcho(c) == c = "user" \/ Named

\* The server shows us an object of ours.
Show(c) ==
    /\ loop = "serve" /\ session \in open /\ c \in board
    /\ board' = board \ {c}
    /\ echoed' = (echoed \/ ~OwnEcho(c))
    /\ UNCHANGED <<controlVars, connected, loop, sessionVars, writers, keepers, queued, applies>>

-----------------------------------------------------------------------------
LoopSteps ==
    /\ loop # "off"
    /\ \/ LoopTop
       \/ DialFails
       \/ Dial
       \/ HandshakeFails
       \/ \E h \in Hashes : Handshake(h)
       \/ WaitEnds

Next ==
    \/ Start
    \/ AuthorizeFails
    \/ Authorized
    \/ Stop
    \/ ApplyCookies
    \/ LoopSteps
    \/ ReadFails
    \/ Silence
    \/ ServeEnds
    \/ Send
    \/ \E h \in Hashes : Renamed(h)
    \/ \E s \in Sessions :
         \/ Write(s)
         \/ WriterEnds(s)
         \/ KeeperEnds(s)
    \/ \E c \in Hashes : Show(c)

Spec == Init /\ [][Next]_boardsVars

\* What works in the end when it is tried again and again.
Luck(i) ==
    \/ i = 1 /\ Dial
    \/ i = 2 /\ \E h \in Hashes : Handshake(h)

\* Goroutines run, requests, waits and silent reads end, and a dial and a
\* handshake that are tried again and again work once. Nobody is made to
\* Start, Stop, send or apply cookies.
Scheduled ==
    /\ WF_boardsVars(AuthorizeFails \/ Authorized)
    /\ WF_boardsVars(LoopSteps)
    /\ WF_boardsVars(session \notin open /\ ReadFails)
    /\ WF_boardsVars(ServeEnds)
    /\ \A s \in Sessions : WF_boardsVars(Write(s)) /\ WF_boardsVars(WriterEnds(s)) /\ WF_boardsVars(KeeperEnds(s))

FairSpec == Spec /\ Scheduled /\ \A i \in 1..2 : SF_boardsVars(Luck(i))

-----------------------------------------------------------------------------
Flags == closed \in BOOLEAN /\ connected \in BOOLEAN /\ echoed \in BOOLEAN

TypeOK ==
    /\ Flags
    /\ start \in {"new", "authorize", "failed", "done"} /\ stops \subseteq {"early", "late"}
    /\ loop \in {"off", "top", "dial", "handshake", "serve", "wait", "exit"}
    /\ sessions \in 0..MaxSessions /\ session \in 0..sessions
    /\ open \subseteq 1..sessions /\ queued \subseteq 1..sessions
    /\ writers \subseteq 1..sessions /\ keepers \subseteq 1..sessions
    /\ creator \in [Sessions -> Hashes] /\ board \subseteq Hashes
    /\ applies \in 0..MaxApplies

\* Connected means: there is a session that is read, and Stop has not been
\* called since Start was over, but for a session that was greeting when
\* it was; it is taken back when the reader sees t.done (boards.go:533).
Honest ==
    /\ connected => loop = "serve" /\ session # 0
    /\ closed /\ loop = "exit" => ~connected

\* A packet waits in the queue of a session only if somebody takes it out:
\* Send finds no session whose writer is not there or coming (boards.go:
\* 178, :537).
Attended ==
    \A s \in queued : s \in writers \/ closed \/ session # s \/ loop = "handshake"

\* A board that drops is joined again, whatever Stop did while Start was
\* still authorizing.
Severed == start = "done" /\ ~closed /\ ~connected /\ sessions < MaxSessions
Recovers == []<>~Severed

\* A Stop that follows Start ends the loop, every writer and heartbeat.
Winding == "late" \in stops /\ (loop \notin {"off", "exit"} \/ writers \cup keepers # {})
WindsDown == []<>~Winding

\* "own echo" (boards.go:950): no packet of ours comes back as the peer's,
\* provided the server says who drew it. The hash alone does not tell: the
\* server may have given us another one than the one we subscribed with.
NoEcho == Named => ~echoed
-----------------------------------------------------------------------------
\* What keeps a session attended: the inductive invariant.

\* Before Start is over there is nothing; the session there is then is greeting
\* or has its writer, which only t.done ends, and t.done is not made again.
Writing ==
    /\ start # "done" <=> loop = "off"
    /\ start # "done" => session = 0
    /\ session # 0 => session \in writers \/ closed \/ loop = "handshake"

IInv == TypeOK /\ Writing /\ Honest /\ Attended /\ NoEcho
=============================================================================
