----------------------------- MODULE YandexDocs -----------------------------
\* The Yandex document carrier (Core/transport/yandex/yandex.go): a
\* goroutine opens the document, dials, reads, and when the session drops
\* waits and opens it again; a captcha makes it wait for cookies instead.
\* ApplyCookies drops the session and either wakes such a wait or has a
\* reconnect of its own. A writer takes packets from the queue of the
\* session there was when it began; a session made while there was one
\* takes over its queue, another one has a new queue and a new writer.
\*
\* Routines, sessions and queues are numbered. Nothing is said of packets.
EXTENDS Naturals, FiniteSets

CONSTANTS
    MaxSessions,    \* sessions opened in a behaviour (a bound)
    MaxAttempts,    \* MaxReconnectAttempts
    MaxApplies      \* calls of ApplyCookies (a bound)

VARIABLES
    life, connected, applies,
    session, sessions,  \* t.session, 0 when nil; sessions made so far
    open, queueOf,      \* the sessions whose socket is open, and their queues
    routine,            \* goroutines: where they are, their session, attempt, existingSession
    reconnecting,
    looking, serves,    \* writers that look for a session; those every queue has
    exhausted, crossed, \* history: out of attempts; a drop met the making of a session or another one
    late                \* history: a session made after Stop

lifeVars == <<life, connected, applies, exhausted, crossed, late>>
sessionVars == <<session, sessions, open, queueOf>>
writerVars == <<looking, serves>>
docsVars == <<lifeVars, sessionVars, routine, reconnecting, writerVars>>

Sessions == 1..MaxSessions
\* The goroutine of Start, and one for every call of ApplyCookies.
Routines == 0..MaxApplies
Off == [at |-> "off", of |-> 0, attempt |-> 0, had |-> 0]

Init ==
    /\ life = "new" /\ connected = FALSE /\ applies = 0
    /\ exhausted = FALSE /\ crossed = FALSE /\ late = FALSE
    /\ session = 0 /\ sessions = 0 /\ open = {} /\ queueOf = [s \in Sessions |-> 0]
    /\ routine = [g \in Routines |-> Off]
    /\ reconnecting = FALSE
    /\ looking = 0 /\ serves = [q \in Sessions |-> 0]

Running == life = "running"

-----------------------------------------------------------------------------
\* connectToDoc and scheduleReconnect

\* The goroutine begins with a look at the session there is.
Fetch(a, s) == [at |-> "fetch", of |-> 0, attempt |-> a, had |-> s]
ConnectToDoc(a) == IF Running THEN Fetch(a, session) ELSE Off

Start ==
    /\ life = "new"
    /\ life' = "running"
    /\ routine' = [routine EXCEPT ![0] = Fetch(0, session)]
    /\ UNCHANGED <<connected, applies, exhausted, crossed, late, sessionVars, reconnecting, writerVars>>

Waiting == {g \in Routines : routine[g].at = "captcha"}
Making == \E g \in Routines : routine[g].at = "fetch"
\* Another goroutine that `reconnecting` does not hold back is at work.
Beside(g) == \E h \in Routines \ {g} : routine[h].at \in {"fetch", "captcha", "read"}

\* mutant
MayAlways(a) == Running /\ a < MaxAttempts
MayWait(a) == Running /\ a < MaxAttempts /\ ~reconnecting

\* scheduleReconnect, with a the next attempt.
Backoff(a) == [at |-> "backoff", of |-> 0, attempt |-> a, had |-> 0]
Schedule(g, a) ==
    /\ routine' = [routine EXCEPT ![g] = IF MayWait(a) THEN Backoff(a) ELSE Off]
    /\ reconnecting' = (reconnecting \/ MayWait(a))
    /\ exhausted' = (exhausted \/ (Running /\ a >= MaxAttempts))

BackoffEnds(g) ==
    /\ routine[g].at = "backoff"
    /\ routine' = [routine EXCEPT ![g] = ConnectToDoc(routine[g].attempt)]
    /\ reconnecting' = FALSE
    /\ UNCHANGED <<lifeVars, sessionVars, writerVars>>

\* The page or the dial fails, or the handshake.
ConnectFails(g) ==
    /\ routine[g].at = "fetch"
    /\ Schedule(g, routine[g].attempt + 1)
    /\ UNCHANGED <<life, connected, applies, crossed, late, sessionVars, writerVars>>

Captcha(g) ==
    /\ routine[g].at = "fetch"
    /\ routine' = [routine EXCEPT ![g].at = IF Running THEN "captcha" ELSE "off"]
    /\ UNCHANGED <<lifeVars, sessionVars, reconnecting, writerVars>>

\* Half a minute, or Stop; attempts are not counted here, beyond the last.
Next1(a) == IF a < MaxAttempts THEN a + 1 ELSE a
CaptchaEnds(g) ==
    /\ routine[g].at = "captcha"
    /\ routine' = [routine EXCEPT ![g] = ConnectToDoc(Next1(routine[g].attempt))]
    /\ UNCHANGED <<lifeVars, sessionVars, reconnecting, writerVars>>

\* Only a session without a former one gets a writer.
Writers(had) == IF had = 0 THEN looking + 1 ELSE looking

Connect(g) ==
    LET s == sessions + 1 IN
    /\ routine[g].at = "fetch"
    /\ s \in Sessions
    /\ sessions' = s /\ session' = s
    /\ open' = open \cup {s}
    /\ queueOf' = [queueOf EXCEPT ![s] = IF routine[g].had = 0 THEN s ELSE queueOf[routine[g].had]]
    /\ looking' = Writers(routine[g].had)
    /\ connected' = TRUE
    /\ routine' = [routine EXCEPT ![g].at = "read", ![g].of = s]
    /\ late' = (late \/ ~Running)
    /\ UNCHANGED <<life, applies, exhausted, crossed, reconnecting, serves>>

\* The server closes the session, or somebody here did.
Drop(g, lasted) ==
    /\ routine[g].at = "read"
    /\ connected' = FALSE
    /\ open' = open \ {routine[g].of}
    /\ Schedule(g, IF lasted THEN 0 ELSE routine[g].attempt + 1)
    /\ crossed' = (crossed \/ (Running /\ Beside(g)))
    /\ UNCHANGED <<life, applies, late, session, sessions, queueOf, writerVars>>

\* A message after Stop: the loop ends and leaves the socket.
ReadEnds(g) ==
    /\ ~Running
    /\ routine[g].at = "read"
    /\ routine' = [routine EXCEPT ![g] = Off]
    /\ UNCHANGED <<lifeVars, sessionVars, reconnecting, writerVars>>

-----------------------------------------------------------------------------
\* The goroutines beside it

\* writerLoop takes the queue of the session there is when it looks.
WriterLooks ==
    /\ looking > 0
    /\ session # 0 \/ ~Running
    /\ looking' = looking - 1
    /\ serves' = IF Running THEN [serves EXCEPT ![queueOf[session]] = @ + 1] ELSE serves
    /\ UNCHANGED <<lifeVars, sessionVars, routine, reconnecting>>

WriterEnds(q) ==
    /\ life = "stopped"
    /\ serves[q] > 0
    /\ serves' = [serves EXCEPT ![q] = @ - 1]
    /\ UNCHANGED <<lifeVars, sessionVars, routine, reconnecting, looking>>

\* keepAliveLoop: a write failed; the reader will notice.
KeepAliveFails ==
    /\ Running /\ session # 0
    /\ connected' = FALSE
    /\ open' = open \ {session}
    /\ UNCHANGED <<life, applies, exhausted, crossed, late, session, sessions, queueOf, routine, reconnecting, writerVars>>

\* The hand-over takes one of those that wait for cookies.
Wake(g) == [routine EXCEPT ![g] = Fetch(Next1(routine[g].attempt), 0)]

ApplyCookies ==
    /\ life # "new" /\ applies < MaxApplies
    /\ applies' = applies + 1
    /\ session' = 0
    /\ connected' = FALSE
    /\ open' = open \ {session}
    /\ IF ~Running THEN UNCHANGED <<routine, reconnecting, exhausted>>
       ELSE IF Waiting # {} THEN /\ \E g \in Waiting : routine' = Wake(g)
                                 /\ UNCHANGED <<reconnecting, exhausted>>
       ELSE Schedule(applies + 1, 1)
    /\ crossed' = (crossed \/ (Running /\ (Making \/ looking > 0)))
    /\ UNCHANGED <<life, late, sessions, queueOf, writerVars>>

\* Stop: running and connected are cleared, then the session is closed.
Stop ==
    /\ Running
    /\ life' = "closing"
    /\ connected' = FALSE
    /\ UNCHANGED <<applies, exhausted, crossed, late, sessionVars, routine, reconnecting, writerVars>>

StopCloses ==
    /\ life = "closing"
    /\ life' = "stopped"
    /\ open' = open \ {session}
    /\ UNCHANGED <<connected, applies, exhausted, crossed, late, session, sessions, queueOf, routine, reconnecting, writerVars>>

-----------------------------------------------------------------------------
RoutineSteps(g) ==
    /\ routine[g] # Off
    /\ BackoffEnds(g) \/ ConnectFails(g) \/ Captcha(g) \/ CaptchaEnds(g) \/ Connect(g)

Next ==
    \/ Start
    \/ Stop
    \/ StopCloses
    \/ ApplyCookies
    \/ KeepAliveFails
    \/ WriterLooks
    \/ \E q \in Sessions : WriterEnds(q)
    \/ \E g \in Routines :
         \/ RoutineSteps(g)
         \/ \E lasted \in BOOLEAN : Drop(g, lasted)
         \/ ReadEnds(g)

Spec == Init /\ [][Next]_docsVars

\* What works in the end when it is tried again and again.
Luck == \E g \in Routines : Connect(g)

\* Goroutines run and waits end; a socket that was closed here is noticed;
\* a document that is opened again and again opens.
Scheduled ==
    /\ WF_docsVars(StopCloses) /\ WF_docsVars(WriterLooks)
    /\ \A q \in Sessions : WF_docsVars(WriterEnds(q))
    /\ \A g \in Routines :
         /\ WF_docsVars(RoutineSteps(g))
         /\ WF_docsVars(routine[g].of \notin open /\ \E lasted \in BOOLEAN : Drop(g, lasted))

FairSpec == Spec /\ Scheduled /\ SF_docsVars(Luck)

-----------------------------------------------------------------------------
Routine == [at : {"off", "fetch", "backoff", "captcha", "read"},
            of : 0..sessions, attempt : 0..MaxAttempts, had : 0..sessions]

Flags ==
    /\ connected \in BOOLEAN /\ reconnecting \in BOOLEAN
    /\ exhausted \in BOOLEAN /\ crossed \in BOOLEAN /\ late \in BOOLEAN

TypeOK ==
    /\ Flags
    /\ life \in {"new", "running", "closing", "stopped"}
    /\ applies \in 0..MaxApplies
    /\ session \in 0..sessions /\ sessions \in 0..MaxSessions /\ open \subseteq 1..sessions
    /\ queueOf \in [Sessions -> 0..sessions] /\ serves \in [Sessions -> Nat] /\ looking \in Nat
    /\ routine \in [Routines -> Routine]

\* "two reconnects open two sessions to the document (a second participant
\* that stays)" is what `reconnecting` is for (yandex.go:211).
OneSession ==
    \A g, h \in Routines : routine[g].at = "read" /\ routine[h].at = "read" /\
        {routine[g].of, routine[h].of} \subseteq open => g = h

\* Unless cookies come while a session is being made: one session, and one
\* writer for its queue, so that packets keep their order; and always a
\* writer for the queue Send fills (yandex.go:391, :435).
Orderly ==
    ~crossed =>
        /\ OneSession
        /\ \A q \in Sessions : serves[q] <= 1
        /\ Running /\ session # 0 => looking > 0 \/ serves[queueOf[session]] > 0

\* However reconnects, captchas and cookies meet, somebody is at work on a
\* session or holds one, unless the attempts are used up (yandex.go:658).
SomebodyDials ==
    Running => exhausted \/ \E g \in Routines : routine[g].at # "off"

\* A stopped carrier has no open session, but for one that was being made
\* when Stop came, or that others were reading (yandex.go:237).
StopHolds ==
    life = "stopped" /\ ~late /\ ~crossed => open = {} /\ ~connected

\* A session that drops, or that new cookies drop, is followed by another.
Severed == Running /\ ~connected /\ ~exhausted /\ sessions < MaxSessions
Recovers == []<>~Severed

\* After Stop every goroutine but a reader whose socket is open ends.
Winding == life = "stopped" /\ ~(/\ looking = 0 /\ \A q \in Sessions : serves[q] = 0
                                 /\ \A g \in Routines : routine[g].at \in {"off", "read"})
WindsDown == []<>~Winding
-----------------------------------------------------------------------------
\* What keeps one session and one writer: the inductive invariant.

\* Sessions not made yet have no queue and no writer, cookies not applied yet no
\* goroutine, and a session has the queue of one that was made.
Numbered ==
    /\ \A s \in 1..sessions : queueOf[s] \in 1..sessions
    /\ \A q \in Sessions : q > sessions => serves[q] = 0
    /\ \A g \in Routines : g > applies \/ life = "new" => routine[g] = Off
    /\ life = "new" => session = 0

\* `reconnecting` is the one goroutine that waits out a backoff.
Backoffs ==
    /\ reconnecting => \E g \in Routines : routine[g].at = "backoff"
    /\ \A g \in Routines : routine[g].at = "backoff" => reconnecting
    /\ \A g, h \in Routines : routine[g].at = "backoff" /\ routine[h].at = "backoff" => g = h

\* A goroutine that will have a session, or has one whose socket is open.
Live(g) ==
    \/ routine[g].at \in {"fetch", "captcha"}
    \/ routine[g].at = "read" /\ routine[g].of \in open

OneLive ==
    ~crossed =>
        /\ \A g, h \in Routines : Live(g) /\ Live(h) => g = h
        /\ reconnecting => \A g \in Routines : ~Live(g)
        /\ \A g \in Routines : routine[g].at = "read" /\ routine[g].of \in open => routine[g].of = session

\* Every open socket is read, and is that of t.session; Stop closed it.
Read == life \in {"new", "running"} => \A s \in open : \E g \in Routines : routine[g].at = "read" /\ routine[g].of = s

Held ==
    /\ ~crossed /\ ~late => open \subseteq {session}
    /\ life \in {"closing", "stopped"} /\ ~late => ~connected

\* A session is made with the queue of the session there is; its writer is at
\* work, or is looking for it.
Writing ==
    ~crossed =>
        /\ \A q \in Sessions : serves[q] <= 1
        /\ life \in {"new", "running"} =>
             /\ looking <= 1
             /\ session = 0 => looking = 0
             /\ session # 0 => (looking = 0 <=> serves[queueOf[session]] > 0)
             /\ \A g \in Routines : routine[g].at = "fetch" => routine[g].had = session

IInv ==
    /\ TypeOK /\ Numbered /\ Backoffs /\ OneLive /\ Read /\ Held /\ Writing
    /\ SomebodyDials /\ StopHolds
=============================================================================
