--------------------------- MODULE ScriptCarrier ---------------------------
\* A carrier written in JavaScript (Core/transport/script): the event loop
\* its script runs on, and the goroutines that post to it, which are the
\* caller of Start, the writer pump, the dials, sockets and HTTP requests,
\* the pool of concurrency.pool, ApplyCookies and Stop.
\*
\* The script itself is anybody's: while one of its functions runs it may
\* do what the host API lets it, throw, or not return (it is stuck, until
\* somebody interrupts it).  The loop is a library: it runs one job at a
\* time in the order they were posted; Terminate waits for the job that
\* runs, refuses what is posted later, and runs what was posted before.
EXTENDS Naturals, Sequences, FiniteSets

CONSTANTS
    Scenes,   \* what may happen: a subset of packets, socket, cookies, pool, stuck
    Packets,  \* packets the session sends (a bound)
    Room,     \* MaxQueueSize
    Dials,    \* connections the script opens
    Runs,     \* calls of pool.run
    Slots,    \* concurrency.pool(n)
    Applies   \* calls of ApplyCookies (a bound)

VARIABLES
    scene,
    running, connected,        \* BaseTransport
    start,                     \* the caller of Start: none, waits, ok or failed
    ready,                     \* the channel it waits on
    loop,                      \* none, up, ending and ended (in Terminate), gone
    jobs, job, stuck,          \* posted; the one that runs; it does not return
    interrupted,               \* vm.Interrupt was called
    opened,                    \* open() was called
    accepted,                  \* packets Send has taken
    writeCh, hand, writer, result, wrote,
    infoReady, pending, taken, jar, applying, applied,
    crossed,                   \* ApplyCookies met infoRead
    sock, closers, late,       \* late: registered after closeAll, or never
    run,                       \* calls of pool.run
    stop,                      \* Stop: none, asks, closes, ends or done
    helpless                   \* the script got stuck where nobody interrupts it

packetVars == <<accepted, writeCh, hand, writer, result, wrote>>
cookieVars == <<infoReady, pending, taken, jar, applying, applied, crossed>>
sockVars == <<sock, closers, late>>
loopVars == <<loop, jobs, job, stuck>>
lifeVars == <<scene, start, ready, opened, interrupted, stop, helpless>>
flags == <<running, connected>>
scriptVars == <<lifeVars, flags, loopVars, packetVars, cookieVars, sockVars, run>>

NoJob == <<"none", 0>>

Init ==
    /\ scene \in Scenes
    /\ running = FALSE /\ connected = FALSE
    /\ start = "none" /\ ready = "none" /\ opened = FALSE
    /\ loop = "none" /\ jobs = <<>> /\ job = NoJob
    /\ stuck = FALSE /\ interrupted = FALSE
    /\ accepted = 0 /\ writeCh = <<>> /\ hand = 0
    /\ writer = "none" /\ result = "none" /\ wrote = <<>>
    /\ infoReady = FALSE /\ pending = 0 /\ taken = 0 /\ jar = 0
    /\ applying = 0 /\ applied = 0 /\ crossed = FALSE
    /\ sock = [d \in Dials |-> "none"] /\ closers = {} /\ late = {}
    /\ run = [r \in Runs |-> "none"]
    /\ stop = "none" /\ helpless = FALSE

-----------------------------------------------------------------------------
\* The loop

Takes == loop \in {"up", "ending"}    \* RunOnLoop will take a job
Post(kind, arg) == jobs' = Append(jobs, <<kind, arg>>)

\* The caller of Start waits for bootstrap.  (Stop before this is not in the
\* model.)
Start ==
    /\ start = "none"
    /\ start' = "waits" /\ running' = TRUE
    /\ loop' = "up" /\ Post("eval", 0)
    /\ UNCHANGED <<scene, helpless, ready, opened, interrupted, stop, connected, job,
                   stuck, packetVars, cookieVars, sockVars, run>>

NextJob ==
    /\ loop \in {"up", "ending", "ended"} /\ job = NoJob /\ jobs # <<>>
    /\ job' = Head(jobs) /\ jobs' = Tail(jobs)
    /\ UNCHANGED <<lifeVars, flags, loop, stuck, packetVars, cookieVars,
                   sockVars, run>>

Kind == job[1]
Returns == job' = NoJob /\ stuck' = FALSE
Throws == Returns
Free == ~stuck \/ interrupted  \* the job can end
Works == ~stuck /\ ~interrupted

\* JavaScript that does not return.
Sticks ==
    /\ "stuck" \in scene /\ ~interrupted /\ ~stuck
    /\ Kind \in {"eval", "open", "write", "event", "close"}
    /\ stuck' = TRUE
    /\ helpless' = (stop \notin {"none", "asks"} \/ loop = "ended")
    /\ UNCHANGED <<scene, start, ready, opened, interrupted, stop, flags, loop,
                   jobs, job, packetVars, cookieVars, sockVars, run>>

\* Terminate has waited for the job that ran: no more are taken.
LoopEnds ==
    /\ loop = "ending" /\ job = NoJob
    /\ loop' = "ended"
    /\ UNCHANGED <<lifeVars, flags, jobs, job, stuck, packetVars, cookieVars,
                   sockVars, run>>

Terminated ==
    /\ loop = "ended" /\ job = NoJob /\ jobs = <<>>
    /\ loop' = "gone"
    /\ stop' = IF stop = "ends" THEN "done" ELSE stop
    /\ UNCHANGED <<scene, helpless, start, ready, opened, interrupted, flags, jobs, job,
                   stuck, packetVars, cookieVars, sockVars, run>>

-----------------------------------------------------------------------------
\* bootstrap, one job in four steps

BootFails ==
    /\ Kind \in {"eval", "open"} /\ Free
    /\ ready' = "failed" /\ Throws
    /\ UNCHANGED <<scene, helpless, start, opened, interrupted, stop, flags, loop, jobs,
                   packetVars, cookieVars, sockVars, run>>

Evaluated ==
    /\ Kind = "eval" /\ Works
    /\ job' = <<"info", 0>>
    /\ UNCHANGED <<lifeVars, flags, loop, jobs, stuck, packetVars, cookieVars,
                   sockVars, run>>

\* infoRead: it takes what ApplyCookies kept ...
InfoRead ==
    /\ Kind = "info"
    /\ infoReady' = TRUE /\ taken' = pending /\ pending' = 0
    /\ job' = <<"put", 0>>
    /\ UNCHANGED <<lifeVars, flags, loop, jobs, stuck, packetVars, jar,
                   applying, applied, crossed, sockVars, run>>

\* ... and writes it into the jar.
InfoWrites ==
    /\ Kind = "put"
    /\ jar' = IF taken > 0 THEN taken ELSE jar
    /\ taken' = 0
    /\ job' = <<"open", 0>> /\ opened' = TRUE
    /\ UNCHANGED <<scene, helpless, start, ready, interrupted, stop, flags, loop, jobs,
                   stuck, packetVars, infoReady, pending, applying, applied,
                   crossed, sockVars, run>>

BootEnds ==
    /\ Kind = "open" /\ Works
    /\ ready' = "ok" /\ Returns
    /\ UNCHANGED <<scene, helpless, start, opened, interrupted, stop, flags, loop, jobs,
                   packetVars, cookieVars, sockVars, run>>

StartReturns ==
    /\ start = "waits" /\ ready # "none"
    /\ start' = ready
    /\ IF ready = "ok"
       THEN writer' = "idle" /\ UNCHANGED loop
       ELSE /\ loop' = IF loop = "up" THEN "ending" ELSE loop
            /\ UNCHANGED writer
    /\ UNCHANGED <<scene, helpless, ready, opened, interrupted, stop, flags, jobs, job,
                   stuck, accepted, writeCh, hand, result, wrote, cookieVars,
                   sockVars, run>>

-----------------------------------------------------------------------------
\* Packets: Send, and writerPump

\* hostSetState: the only way to be connected.
SetState ==
    /\ "packets" \in scene /\ Kind = "open" /\ Works
    /\ connected' = TRUE
    /\ UNCHANGED <<lifeVars, running, loopVars, packetVars, cookieVars,
                   sockVars, run>>

Send ==
    /\ connected /\ accepted < Packets
    /\ Len(writeCh) < Room
    /\ accepted' = accepted + 1
    /\ writeCh' = Append(writeCh, accepted + 1)
    /\ UNCHANGED <<lifeVars, flags, loopVars, hand, writer, result, wrote,
                   cookieVars, sockVars, run>>

WriterTakes ==
    /\ writer = "idle" /\ running /\ hand = 0 /\ writeCh # <<>>
    /\ hand' = Head(writeCh) /\ writeCh' = Tail(writeCh)
    /\ UNCHANGED <<lifeVars, flags, loopVars, accepted, writer, result, wrote,
                   cookieVars, sockVars, run>>

WriterPosts ==
    /\ writer = "idle" /\ running /\ hand # 0
    /\ IF Takes
       THEN Post("write", hand) /\ writer' = "asked"
       ELSE writer' = "ended" /\ UNCHANGED jobs
    /\ UNCHANGED <<lifeVars, flags, loop, job, stuck, accepted, writeCh, hand,
                   result, wrote, cookieVars, sockVars, run>>

\* The script's write takes the packet, or throws.
Written ==
    /\ Kind = "write" /\ Free
    /\ \/ Works /\ result' = "ok" /\ wrote' = Append(wrote, job[2])
       \/ result' = "failed" /\ UNCHANGED wrote
    /\ Returns
    /\ UNCHANGED <<lifeVars, flags, loop, jobs, accepted, writeCh, hand,
                   writer, cookieVars, sockVars, run>>

\* mutant
NextPacket == hand' = 0
\* "A packet that fails to send is retried"
KeepsPacket == hand' = IF result = "ok" THEN 0 ELSE hand

WriterHears ==
    /\ writer = "asked" /\ result # "none"
    /\ writer' = "idle" /\ result' = "none"
    /\ KeepsPacket
    /\ UNCHANGED <<lifeVars, flags, loopVars, accepted, writeCh, wrote,
                   cookieVars, sockVars, run>>

WriterEnds ==
    /\ writer \in {"idle", "asked"} /\ ~running
    /\ writer' = "ended"
    /\ UNCHANGED <<lifeVars, flags, loopVars, accepted, writeCh, hand, result,
                   wrote, cookieVars, sockVars, run>>

-----------------------------------------------------------------------------
\* ApplyCookies

\* mutant
NotKept(v) == pending' = 0
\* "the session and the apps do before Start": kept until info() is read
Kept(v) == pending' = v

ApplyCookies ==
    /\ "cookies" \in scene /\ applied < Applies /\ applying = 0
    /\ applied' = applied + 1
    /\ IF infoReady
       THEN applying' = applied + 1 /\ UNCHANGED pending
       ELSE Kept(applied + 1) /\ UNCHANGED applying
    /\ UNCHANGED <<lifeVars, flags, loopVars, packetVars, infoReady, taken, jar,
                   crossed, sockVars, run>>

\* writeCookies and Deliver, outside the lock.
ApplyWrites ==
    /\ applying # 0
    /\ jar' = applying /\ applying' = 0
    /\ crossed' = (crossed \/ taken > 0)
    /\ IF Takes THEN Post("event", 0) ELSE UNCHANGED jobs
    /\ UNCHANGED <<lifeVars, flags, loop, job, stuck, packetVars, infoReady,
                   pending, taken, applied, sockVars, run>>

\* onEvent of the script.
EventEnds ==
    /\ Kind = "event" /\ Free
    /\ Returns
    /\ UNCHANGED <<lifeVars, flags, loop, jobs, packetVars, cookieVars,
                   sockVars, run>>

-----------------------------------------------------------------------------
\* Sockets: ws.open, udp.open, httpserver.listen

\* Any function of the script may open one, again when one has closed.
Opens(d) ==
    /\ "socket" \in scene /\ Works
    /\ Kind \in {"open", "closed"} /\ sock[d] = "none"
    /\ sock' = [sock EXCEPT ![d] = "dialing"]
    /\ UNCHANGED <<lifeVars, flags, loopVars, packetVars, cookieVars, closers,
                   late, run>>

DialEnds(d) ==
    /\ sock[d] = "dialing"
    /\ \/ sock' = [sock EXCEPT ![d] = "none"] /\ UNCHANGED <<jobs, late>>
       \/ /\ sock' = [sock EXCEPT ![d] = "dialled"]
          /\ IF Takes
             THEN Post("dialled", d) /\ UNCHANGED late
             ELSE late' = late \union {d} /\ UNCHANGED jobs
    /\ UNCHANGED <<lifeVars, flags, loop, job, stuck, packetVars, cookieVars,
                   closers, run>>

\* newSocket, and addCloser.
Dialled ==
    /\ Kind = "dialled"
    /\ sock' = [sock EXCEPT ![job[2]] = "open"]
    /\ closers' = closers \union {job[2]}
    /\ late' = IF stop = "ends" THEN late \union {job[2]} ELSE late
    /\ Returns
    /\ UNCHANGED <<lifeVars, flags, loop, jobs, packetVars, cookieVars, run>>

\* readLoop: the connection ended or fell silent.
ReadEnds(d) ==
    /\ sock[d] = "open" /\ d \notin late
    /\ sock' = [sock EXCEPT ![d] = "closed"]
    /\ IF Takes THEN Post("closed", d) ELSE UNCHANGED jobs
    /\ UNCHANGED <<lifeVars, flags, loop, job, stuck, packetVars, cookieVars,
                   closers, late, run>>

\* onclose of the script.
Closed ==
    /\ Kind = "closed"
    /\ Returns
    /\ UNCHANGED <<lifeVars, flags, loop, jobs, packetVars, cookieVars,
                   sockVars, run>>

-----------------------------------------------------------------------------
\* concurrency.pool

RunAsked(r) ==
    /\ "pool" \in scene /\ Kind = "open" /\ Works /\ run[r] = "none"
    /\ run' = [run EXCEPT ![r] = "queued"]
    /\ UNCHANGED <<lifeVars, flags, loopVars, packetVars, cookieVars, sockVars>>

Holding == {r \in Runs : run[r] \in {"posted", "settling", "lost"}}

\* mutant
FreeSlotAlways == TRUE
FreeSlot == Cardinality(Holding) < Slots

Acquires(r) ==
    /\ run[r] = "queued" /\ FreeSlot
    /\ IF Takes
       THEN Post("pool", r) /\ run' = [run EXCEPT ![r] = "posted"]
       ELSE run' = [run EXCEPT ![r] = "lost"] /\ UNCHANGED jobs
    /\ UNCHANGED <<lifeVars, flags, loop, job, stuck, packetVars, cookieVars,
                   sockVars>>

\* fn throws or returns a value, or a promise (settleThenable).
PoolRuns ==
    /\ Kind = "pool"
    /\ \E s \in {"done", "settling"} : run' = [run EXCEPT ![job[2]] = s]
    /\ Returns
    /\ UNCHANGED <<lifeVars, flags, loop, jobs, packetVars, cookieVars,
                   sockVars>>

Settles(r) ==
    /\ run[r] = "settling" /\ Takes /\ job = NoJob
    /\ run' = [run EXCEPT ![r] = "done"]
    /\ UNCHANGED <<lifeVars, flags, loopVars, packetVars, cookieVars, sockVars>>

-----------------------------------------------------------------------------
\* Stop

\* jsTransport is set when the script was evaluated.
Evaled == start # "none" /\ (infoReady \/ Kind = "info")

Stop ==
    /\ start # "none" /\ stop = "none"
    /\ running' = FALSE /\ connected' = FALSE
    /\ IF Evaled /\ Takes
       THEN Post("close", 0) /\ stop' = "asks"
       ELSE stop' = "closes" /\ UNCHANGED jobs
    /\ helpless' = (helpless \/ (stuck /\ ~Evaled))
    /\ UNCHANGED <<scene, start, ready, opened, interrupted, loop, job, stuck,
                   packetVars, cookieVars, sockVars, run>>

\* close() of the script.
CloseEnds ==
    /\ Kind = "close" /\ Free
    /\ stop' = IF stop = "asks" THEN "closes" ELSE stop
    /\ Returns
    /\ UNCHANGED <<scene, helpless, start, ready, opened, interrupted, flags, loop, jobs,
                   packetVars, cookieVars, sockVars, run>>

\* mutant
Forbears == UNCHANGED interrupted
\* "interrupt it, or the Terminate below would wait for ever"
Interrupts == interrupted' = TRUE

\* stopBudget is over.
StopTires ==
    /\ stop = "asks"
    /\ Interrupts
    /\ stop' = "closes"
    /\ UNCHANGED <<scene, helpless, start, ready, opened, flags, loopVars, packetVars,
                   cookieVars, sockVars, run>>

\* closeHTTPServers, closeAll and Terminate.
StopCloses ==
    /\ stop = "closes"
    /\ sock' = [d \in Dials |-> IF d \in closers THEN "closed" ELSE sock[d]]
    /\ closers' = {}
    /\ stop' = IF loop = "gone" THEN "done" ELSE "ends"
    /\ UNCHANGED <<scene, helpless, start, ready, opened, interrupted, flags, loopVars,
                   packetVars, cookieVars, late, run>>

StopTerminates ==
    /\ stop = "ends" /\ loop = "up"
    /\ loop' = "ending"
    /\ UNCHANGED <<lifeVars, flags, jobs, job, stuck, packetVars, cookieVars,
                   sockVars, run>>

-----------------------------------------------------------------------------
ScriptJob ==
    \/ BootFails \/ Evaluated \/ InfoRead \/ InfoWrites \/ BootEnds \/ Written
    \/ EventEnds \/ Dialled \/ Closed \/ PoolRuns \/ CloseEnds
Stopping == StopTires \/ StopCloses \/ StopTerminates \/ LoopEnds \/ Terminated
Writer == WriterTakes \/ WriterPosts \/ WriterHears \/ WriterEnds

Next ==
    \/ Start \/ NextJob \/ Sticks \/ ScriptJob \/ StartReturns
    \/ SetState \/ Send \/ Writer
    \/ ApplyCookies \/ ApplyWrites
    \/ \E d \in Dials : Opens(d) \/ DialEnds(d) \/ ReadEnds(d)
    \/ \E r \in Runs : RunAsked(r) \/ Acquires(r) \/ Settles(r)
    \/ Stop \/ Stopping

\* Goroutines run, timers fire, dials and promises end.
Scheduled ==
    /\ WF_scriptVars(NextJob) /\ WF_scriptVars(ScriptJob)
    /\ WF_scriptVars(StartReturns) /\ WF_scriptVars(Writer)
    /\ WF_scriptVars(ApplyWrites) /\ WF_scriptVars(Stopping)
    /\ \A r \in Runs : WF_scriptVars(Settles(r)) /\ SF_scriptVars(Acquires(r))
    /\ \A d \in Dials : WF_scriptVars(DialEnds(d))

Spec == Init /\ [][Next]_scriptVars /\ Scheduled

-----------------------------------------------------------------------------
TypeOK ==
    /\ start \in {"none", "waits", "ok", "failed"}
    /\ loop \in {"none", "up", "ending", "ended", "gone"}
    /\ writer \in {"none", "idle", "asked", "ended"}
    /\ stop \in {"none", "asks", "closes", "ends", "done"}
    /\ sock \in [Dials -> {"none", "dialing", "dialled", "open", "closed"}]
    /\ run \in [Runs -> {"none", "queued", "posted", "settling", "lost", "done"}]

\* A packet Send took reaches the script's write once and in its turn,
\* however often write throws, unless the carrier is stopped first
\* (transport.go:578).
HandRest ==
    IF hand # 0 /\ ~(wrote # <<>> /\ wrote[Len(wrote)] = hand) THEN <<hand>> ELSE <<>>
PacketsInTurn == wrote \o HandRest \o writeCh = [i \in 1..accepted |-> i]

\* What ApplyCookies was given, before Start or after, is in the jar when
\* the script opens its carrier, and the newest of it.  An ApplyCookies
\* that writes between the two steps of infoRead is overwritten by older
\* values: crossed (transport.go:392).
CookiesReach == opened /\ ~crossed /\ applying = 0 => jar = applied

\* After Stop nothing the script opened is left open.  A dial that ends
\* when the loop is no more is in nobody's hands: late (host.go:501).
NothingOpen ==
    stop = "done" /\ loop = "gone" =>
        \A d \in Dials \ late : sock[d] \notin {"open", "dialled"}

\* No more than n calls of a pool are under way (host.go:755).
PoolBounded == Cardinality(Holding) <= Slots

\* Stop returns even if the script does not (transport.go:470): it is
\* interrupted.  Where nobody does that it keeps Stop waiting with it
\* (helpless): stuck before its Transport object is known, or in a job
\* that runs after its close() has returned or after a failed Start.
StopWaits == stop \notin {"none", "done"} /\ ~helpless

\* A call of a pool gets its turn while the loop is up.
PoolWaits == \E r \in Runs : run[r] = "queued" /\ loop = "up" /\ ~stuck

Settled == []<>~StopWaits /\ []<>~PoolWaits
=============================================================================
