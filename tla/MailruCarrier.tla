---------------------------- MODULE MailruCarrier ----------------------------
\* The Mail.ru document carrier (Core/transport/mailru/mailru.go). A
\* goroutine dials the document, installs the session and reads it; when
\* the session drops the same goroutine waits and dials again. A rotation
\* makes the next session before it breaks the one there is; its session
\* is read by a goroutine of its own. Replaced cookies drop the session
\* and dial as well. They share t.session, connected, `reconnecting` and
\* `rotating`.
\*
\* Goroutines and sessions are numbered, and their numbers used again.
EXTENDS Naturals, FiniteSets

CONSTANTS
    MaxSessions,    \* sessions there are at a time (a bound)
    MaxRoutines,    \* goroutines that dial or read at a time (a bound)
    MaxAttempts,    \* MaxReconnectAttempts
    MaxApplies      \* calls of ApplyCookies (a bound)

VARIABLES
    life, connected,
    session,        \* t.session, 0 when nil
    open, active, retired,          \* the sessions that are
    routine,        \* goroutines: where they are, with what session, at what attempt
    reconnecting,
    rotation, old, next,            \* rotateCarrier, the sessions it is about
    applies,            \* calls of ApplyCookies
    exhausted, crossed  \* history: out of attempts; two ways to a new session met

lifeVars == <<life, connected, applies, exhausted, crossed>>
sessionVars == <<session, open, active, retired>>
rotationVars == <<rotation, old, next>>
mailruVars == <<lifeVars, sessionVars, routine, reconnecting, rotationVars>>

Sessions == 1..MaxSessions
Routines == 1..MaxRoutines
Task(at, of, attempt) == [at |-> at, of |-> of, attempt |-> attempt]
Off == Task("off", 0, 0)

Init ==
    /\ life = "new" /\ connected = FALSE /\ applies = 0
    /\ exhausted = FALSE /\ crossed = FALSE
    /\ session = 0 /\ open = {} /\ active = {} /\ retired = {}
    /\ routine = [g \in Routines |-> Off]
    /\ reconnecting = FALSE
    /\ rotation = "off" /\ old = 0 /\ next = 0

Running == life = "running"
Reading(s) == \E g \in Routines : routine[g].at = "read" /\ routine[g].of = s
Up == session \in open /\ Reading(session)

InUse == open \cup {session, old, next} \cup {routine[g].of : g \in Routines}
FreeSessions == Sessions \ InUse
FreeRoutines == {g \in Routines : routine[g] = Off}
First(S) == CHOOSE x \in S : TRUE

-----------------------------------------------------------------------------
\* connectToDoc, readLoop and scheduleReconnect

Goes(g, from, to) == routine[g].at = from /\ routine' = [routine EXCEPT ![g] = to]

Start ==
    /\ life = "new"
    /\ life' = "running"
    /\ routine' = [routine EXCEPT ![1] = Task("dial", 0, 0)]
    /\ UNCHANGED <<connected, applies, exhausted, crossed, sessionVars, reconnecting, rotationVars>>

\* One goroutine at a time waits out a backoff; another one ends.
MayWait(a) == Running /\ a < MaxAttempts /\ ~reconnecting

Making == rotation # "off" \/ \E g \in Routines : routine[g].at \in {"dial", "install", "backoff"}

\* scheduleReconnect, with a the next attempt.
Schedule(g, a) ==
    /\ routine' = [routine EXCEPT ![g] = IF MayWait(a) THEN Task("backoff", 0, a) ELSE Off]
    /\ reconnecting' = (reconnecting \/ MayWait(a))
    /\ exhausted' = (exhausted \/ (Running /\ a >= MaxAttempts))
    /\ crossed' = (crossed \/ (MayWait(a) /\ rotation # "off"))

BackoffEnds(g) ==
    /\ Goes(g, "backoff", IF Running THEN Task("dial", 0, routine[g].attempt) ELSE Off)
    /\ reconnecting' = FALSE
    /\ UNCHANGED <<lifeVars, sessionVars, rotationVars>>

Opens(s) ==
    /\ open' = open \cup {s}
    /\ active' = active \ {s} /\ retired' = retired \ {s}

\* dialAndAuth: the document's page, the socket, the handshake, our auth.
Dial(g) ==
    /\ FreeSessions # {}
    /\ Opens(First(FreeSessions))
    /\ Goes(g, "dial", Task("install", First(FreeSessions), routine[g].attempt))
    /\ UNCHANGED <<lifeVars, session, reconnecting, rotationVars>>

DialFails(g) ==
    /\ routine[g].at = "dial"
    /\ Schedule(g, routine[g].attempt + 1)
    /\ UNCHANGED <<life, connected, applies, sessionVars, rotationVars>>

\* installSession
Installs(s) ==
    /\ active' = active \cup {s}
    /\ session' = s
    /\ connected' = TRUE

Install(g) ==
    /\ Goes(g, "install", Task("read", routine[g].of, routine[g].attempt))
    /\ Installs(routine[g].of)
    /\ UNCHANGED <<life, applies, exhausted, crossed, open, retired, reconnecting, rotationVars>>

StillActive(s) == session = s

\* The server cuts the connection, or somebody closed it.
Drop(g, lasted) ==
    LET s == routine[g].of IN
    /\ routine[g].at = "read"
    /\ open' = open \ {s} /\ active' = active \ {s} /\ retired' = retired \ {s}
    /\ IF s \in retired \/ ~StillActive(s)
       THEN routine' = [routine EXCEPT ![g] = Off] /\ UNCHANGED <<connected, exhausted, crossed, reconnecting>>
       ELSE /\ connected' = FALSE
            /\ Schedule(g, IF lasted THEN 0 ELSE routine[g].attempt + 1)
    /\ UNCHANGED <<life, applies, session, rotationVars>>

\* Stop leaves the socket alone; the reader sees it at the next message.
ReadEnds(g) ==
    /\ ~Running
    /\ Goes(g, "read", Off)
    /\ UNCHANGED <<lifeVars, sessionVars, reconnecting, rotationVars>>

-----------------------------------------------------------------------------
\* Rotation

Rotates(from, to) == rotation = from /\ rotation' = to

\* mutant
NeverOld == FALSE
OldEnough == TRUE

\* The session is as old as mailruRotateInterval.
rotationLoop ==
    /\ Running /\ connected /\ session # 0 /\ OldEnough
    /\ Rotates("off", "dial")
    /\ old' = session
    /\ UNCHANGED <<lifeVars, sessionVars, routine, reconnecting, next>>

\* The writer has sent mailruRotateMsgs messages on a session.
WriterRotates ==
    /\ Running /\ session \in open
    /\ Rotates("off", "dial")
    /\ old' = session
    /\ UNCHANGED <<lifeVars, sessionVars, routine, reconnecting, next>>

\* rotateCarrier looks at running once, before it dials.
RotationDials ==
    /\ Running
    /\ FreeSessions # {} /\ FreeRoutines # {}
    /\ Rotates("dial", "await")
    /\ next' = First(FreeSessions)
    /\ Opens(next')
    /\ routine' = [routine EXCEPT ![First(FreeRoutines)] = Task("read", next', 0)]
    /\ UNCHANGED <<lifeVars, session, reconnecting, old>>

RotationFails ==
    /\ Rotates("dial", "off")
    /\ old' = 0
    /\ UNCHANGED <<lifeVars, sessionVars, routine, reconnecting, next>>

\* The server accepted the new session, or did not within the time.
RotationAwaits ==
    /\ Rotates("await", "swap")
    /\ UNCHANGED <<lifeVars, sessionVars, routine, reconnecting, old, next>>

RotationStops ==
    /\ life = "stopped"
    /\ Rotates("await", "off")
    /\ retired' = retired \cup {next}
    /\ open' = open \ {next}
    /\ old' = 0 /\ next' = 0
    /\ UNCHANGED <<lifeVars, session, active, routine, reconnecting>>

Deactivate ==
    /\ Rotates("swap", "install")
    /\ active' = active \ {old}
    /\ UNCHANGED <<lifeVars, session, open, retired, routine, reconnecting, old, next>>

RotationInstalls ==
    /\ Rotates("install", "retire")
    /\ Installs(next)
    /\ UNCHANGED <<life, applies, exhausted, crossed, open, retired, routine, reconnecting, old, next>>

\* mutant
LeavesOpen == open
Closed == open \ {old}

Retire ==
    /\ Rotates("retire", "off")
    /\ retired' = retired \cup {old}
    /\ open' = Closed
    /\ old' = 0 /\ next' = 0
    /\ UNCHANGED <<lifeVars, session, active, routine, reconnecting>>

-----------------------------------------------------------------------------
\* ApplyCookies; Stop is that of BaseTransport

ApplyCookies ==
    /\ Running /\ applies < MaxApplies
    /\ FreeRoutines # {}
    /\ applies' = applies + 1
    /\ session' = 0
    /\ connected' = FALSE
    /\ open' = open \ {session}
    /\ LET g == First(FreeRoutines) IN
         /\ routine' = [routine EXCEPT ![g] = IF MayWait(1) THEN Task("backoff", 0, 1) ELSE Off]
         /\ reconnecting' = TRUE
    /\ crossed' = (crossed \/ Making)
    /\ UNCHANGED <<life, exhausted, active, retired, rotationVars>>

Stop ==
    /\ Running
    /\ life' = "stopped"
    /\ connected' = FALSE
    /\ UNCHANGED <<applies, exhausted, crossed, sessionVars, routine, reconnecting, rotationVars>>

-----------------------------------------------------------------------------
RoutineSteps(g) ==
    /\ routine[g] # Off
    /\ BackoffEnds(g) \/ Dial(g) \/ DialFails(g) \/ Install(g)
RotationSteps ==
    /\ rotation # "off"
    /\ \/ RotationDials
       \/ RotationFails
       \/ RotationAwaits
       \/ RotationStops
       \/ Deactivate
       \/ RotationInstalls
       \/ Retire

Next ==
    \/ Start
    \/ Stop
    \/ ApplyCookies
    \/ \E g \in Routines :
         \/ RoutineSteps(g)
         \/ \E lasted \in BOOLEAN : Drop(g, lasted)
         \/ ReadEnds(g)
    \/ rotationLoop
    \/ WriterRotates
    \/ RotationSteps

Spec == Init /\ [][Next]_mailruVars

\* What happens in the end when it can again and again.
Luck(i) == (i = 1 /\ RotationDials) \/ (i = 2 /\ rotationLoop)

\* Goroutines run and waits end; a session that was closed is noticed; a
\* session grows old, and a rotation that is tried again and again dials
\* its new session (Luck); and the server cuts the session a rotation is
\* about only finitely often (Patient).
Patient == next' = next => next \notin open \ open'
Scheduled ==
    /\ WF_mailruVars(RotationSteps)
    /\ \A g \in Routines :
         /\ WF_mailruVars(RoutineSteps(g))
         /\ WF_mailruVars(routine[g].of \notin open /\ \E lasted \in BOOLEAN : Drop(g, lasted))
    /\ <>[][Patient]_mailruVars

FairSpec == Spec /\ Scheduled /\ \A i \in 1..2 : SF_mailruVars(Luck(i))

-----------------------------------------------------------------------------
Flags ==
    /\ connected \in BOOLEAN /\ reconnecting \in BOOLEAN
    /\ exhausted \in BOOLEAN /\ crossed \in BOOLEAN

Routine == [at : {"off", "dial", "backoff", "install", "read"},
            of : 0..MaxSessions, attempt : 0..MaxAttempts]

TypeOK ==
    /\ Flags
    /\ life \in {"new", "running", "stopped"}
    /\ session \in 0..MaxSessions /\ old \in 0..MaxSessions /\ next \in 0..MaxSessions
    /\ open \subseteq Sessions /\ active \subseteq Sessions /\ retired \subseteq Sessions
    /\ routine \in [Routines -> Routine]
    /\ rotation \in {"off", "dial", "await", "swap", "install", "retire"}
    /\ applies \in 0..MaxApplies

\* "Exactly one is active at a time" (mailru.go:106): two sessions that
\* are read and deliver hand every frame on twice. A session that drops
\* while a rotation is under way is dialled again beside it.
OneActive ==
    \A r, s \in active \cap open : Reading(r) /\ Reading(s) => r = s

\* The goroutines never leave the work to one another so that nobody does
\* it: a carrier that runs and has no session is being dialled, or used
\* its attempts up (mailru.go:1117).
SomebodyDials ==
    Running /\ ~connected => exhausted \/ rotation # "off" \/ \E g \in Routines : routine[g].at # "off"

\* A carrier that says it is connected and whose session nobody reads gets
\* another session: a rotation may install a session whose reader has
\* ended, and only the next rotation gets rid of it (mailru.go:409).
Severed == Running /\ ~Up /\ ~exhausted
Recovers == []<>~Severed

\* Where reconnects, rotations and new cookies do not meet, one session
\* delivers, and none stays open behind the one in use (mailru.go:719).
Alone ==
    ~crossed =>
        /\ OneActive
        /\ Running => \A s \in open : Reading(s) => s \in {session, old, next}
-----------------------------------------------------------------------------
\* What keeps somebody at work and one session: the inductive invariant.

\* A goroutine that has a session is the only one that has it; a rotation is
\* about two sessions; before Start there is nothing.
Numbered ==
    /\ \A g \in Routines : routine[g].of # 0 <=> routine[g].at \in {"install", "read"}
    /\ \A g, h \in Routines : routine[g].of # 0 /\ routine[g].of = routine[h].of => g = h
    /\ rotation = "off" => old = 0
    /\ rotation \in {"off", "dial"} => next = 0
    /\ rotation # "off" => old # 0
    /\ rotation \in {"await", "swap", "install", "retire"} => next # 0 /\ next # old
    /\ life = "new" => /\ rotation = "off" /\ session = 0 /\ ~connected
                       /\ \A g \in Routines : routine[g] = Off

\* `reconnecting` is a goroutine that waits out a backoff.
Works(g) == routine[g].at \in {"dial", "install", "backoff"}
Dials ==
    /\ reconnecting => \E g \in Routines : routine[g].at = "backoff"
    /\ Running /\ ~connected => exhausted \/ \E g \in Routines : Works(g)

\* One way to a new session at a time: nobody works on one while there is one, or
\* while a rotation makes the next.
OneWay ==
    ~crossed =>
        /\ \A g, h \in Routines : Works(g) /\ Works(h) => g = h
        /\ (\E g \in Routines : Works(g)) =>
              rotation = "off" /\ ~connected /\ session \notin open /\ ~Reading(session)

\* The session a rotation is about is the one in use; one session delivers,
\* none while the rotation takes it from the one and gives it to the other.
Turning ==
    ~crossed =>
        /\ rotation \in {"dial", "await", "swap", "install"} => session = old
        /\ rotation = "retire" => session = next
        /\ active \cap open \subseteq {session}
        /\ rotation = "install" => active \cap open = {}
        /\ Running => \A s \in open : Reading(s) => s \in {session, old, next}

IInv == TypeOK /\ Numbered /\ Dials /\ OneWay /\ Turning
=============================================================================
