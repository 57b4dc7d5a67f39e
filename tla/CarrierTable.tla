--------------------------- MODULE CarrierTable ---------------------------
\* The carriers of a running Session and of the transport manager above it
\* (Core/transport/session.go, session_add_after_start.go,
\* manager/manager.go): two tables under two locks, changed by requests of
\* the peer (each in a goroutine of its own), by hot swaps of an updated
\* carrier, by supervisors that retry a carrier that does not start, and
\* by Stop.
\*
\* A build is one raw transport with the pipeline around it. Its pipeline
\* is "up" between batched.Start and batched.Stop; one that was stopped
\* never starts again. Every section of a lock is one step, and so is
\* every start and stop of a pipeline.
EXTENDS Naturals, Sequences, FiniteSets

CONSTANTS
    Names,      \* carriers by name
    Builds,     \* raw transports that may be built
    Tasks,      \* goroutines that serve requests and reloads
    Attached,   \* the carriers attached before Start ...
    First,      \* ... and the builds that may be theirs (a bound)
    Overlap,    \* requests about a name may come while one is being served
    None

VARIABLES
    links,      \* Session.links: Names -> Builds or None
    order,      \* Session.order
    entries,    \* Manager.entries: Names -> the entry, known by its first build
    raw,        \* entry -> Entry.Raw
    pipe,       \* Builds -> "unused", "built", "up", "down"
    cut,        \* builds whose raw transport was stopped by itself
    nameOf,     \* Builds -> the name it was built for
    sup,        \* Builds -> where its supervisor is
    boot,       \* builds that Session.Start still has to start
    started,    \* Session.started
    stopped,    \* Session.stopped
    stop,       \* what Manager.Stop has still to do
    task,       \* Tasks -> what the goroutine does
    late,       \* builds whose AddTransportPostStart was overtaken by Stop
    panicked    \* insertByPriority met a name without a link

tables == <<links, order, entries, raw>>
builds == <<pipe, cut, nameOf>>
session == <<boot, started, stopped, stop>>
history == <<late, panicked>>
carrierVars == <<tables, builds, sup, session, task, history>>

Idle == [at |-> "idle", name |-> None,
         new |-> None,      \* the build to bring in
         old |-> None,      \* the link it took the place of
         entry |-> None,    \* the manager's entry
         prev |-> None,     \* the raw transport that entry had
         run |-> FALSE]     \* the session was started when the link was swapped

Init ==
    /\ links \in [Names -> First \cup {None}]
    /\ \A n \in Names : links[n] = None <=> n \notin Attached
    /\ \A n, m \in Attached : links[n] = links[m] => n = m
    /\ order \in [1..Cardinality(Attached) -> Attached]
    /\ \A n \in Attached : \E i \in DOMAIN order : order[i] = n
    /\ \A i, j \in DOMAIN order : order[i] = order[j] => i = j
    /\ entries = links
    /\ raw = [b \in Builds |-> b]
    /\ pipe = [b \in Builds |-> IF \E n \in Names : links[n] = b THEN "built" ELSE "unused"]
    /\ cut = {}
    /\ nameOf = [b \in Builds |-> IF \E n \in Names : links[n] = b
                                  THEN CHOOSE n \in Names : links[n] = b ELSE None]
    /\ sup = [b \in Builds |-> "none"]
    /\ boot = {}
    /\ started = FALSE
    /\ stopped = FALSE
    /\ stop = [at |-> "no", links |-> {}, entries |-> {}]
    /\ task = [t \in Tasks |-> Idle]
    /\ late = {}
    /\ panicked = FALSE

-----------------------------------------------------------------------------
\* Shared pieces

Drop(n) ==
    IF \E i \in DOMAIN order : order[i] = n
    THEN LET first == CHOOSE i \in DOMAIN order : order[i] = n /\ \A j \in 1..(i - 1) : order[j] # n
         IN SubSeq(order, 1, first - 1) \o SubSeq(order, first + 1, Len(order))
    ELSE order

\* insertByPriority looks every name up in the links; all have one priority.
Dangling(names, n) == \E i \in DOMAIN names : names[i] # n /\ links[names[i]] = None

Halted(p, b) == [p EXCEPT ![b] = "down"]

\* batched.Start: fails for a stopped pipeline, and when the carrier fails.
MayStart(b) == pipe[b] \in {"built", "up"}
Raise(b) == pipe' = [pipe EXCEPT ![b] = "up"]

Carries(b) == pipe[b] = "up" /\ b \notin cut

Busy(n) == \E t \in Tasks : task[t].at # "idle" /\ task[t].name = n

Begin(t, n, step, new, entry) ==
    /\ ~panicked
    /\ task[t].at = "idle"
    /\ Overlap \/ ~Busy(n)
    /\ task' = [task EXCEPT ![t] = [Idle EXCEPT !.at = step, !.name = n, !.new = new, !.entry = entry,
                                               !.prev = IF entry = None THEN None ELSE raw[entry]]]
    /\ UNCHANGED history

At(t, step) == task[t].at = step /\ ~panicked
Continue(t, step) == task' = [task EXCEPT ![t].at = step]
Finish(t) == task' = [task EXCEPT ![t] = Idle]

Build(b, n) ==
    /\ pipe[b] = "unused"
    /\ pipe' = [pipe EXCEPT ![b] = "built"]
    /\ nameOf' = [nameOf EXCEPT ![b] = n]
    /\ UNCHANGED cut

RemoveLink(n) ==
    IF links[n] = None
    THEN UNCHANGED <<links, order, pipe>>
    ELSE /\ pipe' = Halted(pipe, links[n])
         /\ links' = [links EXCEPT ![n] = None]
         /\ order' = Drop(n)

-----------------------------------------------------------------------------
\* TransportStart: startTransport, AddTransportPostStart, Add

StartRequest(t, n, b) ==
    /\ started
    /\ Build(b, n)
    /\ Begin(t, n, "check", b, None)
    /\ UNCHANGED <<tables, sup, session>>

\* mutant
NeverTaken(n) == FALSE
Taken(n) == links[n] # None

AddCheck(t) ==
    /\ At(t, "check")
    /\ IF started /\ ~stopped /\ ~Taken(task[t].name) THEN Continue(t, "raise") ELSE Finish(t)
    /\ UNCHANGED <<tables, builds, sup, session, history>>

AddRaise(t) ==
    /\ At(t, "raise")
    /\ \/ /\ Raise(task[t].new)
          /\ Continue(t, "insert")
       \/ /\ Finish(t)
          /\ UNCHANGED pipe
    /\ UNCHANGED <<tables, cut, nameOf, sup, session, history>>

AddInsert(t) ==
    LET n == task[t].name IN
    /\ At(t, "insert")
    /\ links' = [links EXCEPT ![n] = task[t].new]
    /\ order' = Append(order, n)
    /\ panicked' = Dangling(order, n)
    /\ late' = IF stopped THEN late \cup {task[t].new} ELSE late
    /\ Continue(t, "attach")
    /\ UNCHANGED <<entries, raw, builds, sup, session>>

AddAttach(t) ==
    LET n == task[t].name IN
    /\ At(t, "attach")
    /\ IF entries[n] = None
       THEN /\ entries' = [entries EXCEPT ![n] = task[t].new]
            /\ Finish(t)
       ELSE /\ Continue(t, "rollback")
            /\ UNCHANGED entries
    /\ UNCHANGED <<links, order, raw, builds, sup, session, history>>

-----------------------------------------------------------------------------
\* TransportStop: Remove

StopRequest(t, n) ==
    /\ started
    /\ entries[n] # None
    /\ Begin(t, n, "unlink", None, entries[n])
    /\ entries' = [entries EXCEPT ![n] = None]
    /\ UNCHANGED <<links, order, raw, builds, sup, session>>

\* mutant: the link stays in the session
UnlinkNothing(t) ==
    /\ At(t, "unlink")
    /\ Continue(t, "silence")
    /\ UNCHANGED <<tables, builds, sup, session, history>>
\* RemoveTransport, for Remove and to roll an addition back.
Unlink(t) ==
    /\ At(t, "unlink") \/ At(t, "rollback")
    /\ RemoveLink(task[t].name)
    /\ IF task[t].at = "unlink" THEN Continue(t, "silence") ELSE Finish(t)
    /\ UNCHANGED <<entries, raw, cut, nameOf, sup, session, history>>

Silence(t) ==
    /\ At(t, "silence")
    /\ cut' = cut \cup {raw[task[t].entry]}
    /\ Finish(t)
    /\ UNCHANGED <<tables, pipe, nameOf, sup, session, history>>

-----------------------------------------------------------------------------
\* A hot swap: ReloadWith, ReplaceTransport

Reload(t, n, b) ==
    /\ entries[n] # None
    /\ Build(b, n)
    /\ Begin(t, n, "swap", b, entries[n])
    /\ UNCHANGED <<tables, sup, session>>

Swap(t) ==
    LET n == task[t].name
        b == task[t].new
    IN
    /\ At(t, "swap")
    /\ IF stopped
       THEN /\ pipe' = Halted(pipe, b)
            /\ cut' = cut \cup {b}
            /\ Finish(t)
            /\ UNCHANGED <<links, order, panicked>>
       ELSE /\ links' = [links EXCEPT ![n] = b]
            /\ order' = Append(Drop(n), n)
            /\ panicked' = Dangling(Drop(n), n)
            /\ task' = [task EXCEPT ![t].at = "retire", ![t].old = links[n], ![t].run = started]
            /\ UNCHANGED <<pipe, cut>>
    /\ UNCHANGED <<entries, raw, nameOf, sup, session, late>>

\* mutant: the former link is left running
RetireNothing(t) ==
    /\ At(t, "retire")
    /\ Continue(t, IF task[t].run THEN "launch" ELSE "adopt")
    /\ UNCHANGED <<tables, builds, sup, session, history>>
Retire(t) ==
    /\ At(t, "retire")
    /\ pipe' = IF task[t].old = None THEN pipe ELSE Halted(pipe, task[t].old)
    /\ Continue(t, IF task[t].run THEN "launch" ELSE "adopt")
    /\ UNCHANGED <<tables, cut, nameOf, sup, session, history>>

Launch(t) ==
    LET b == task[t].new IN
    /\ At(t, "launch")
    /\ \/ /\ MayStart(b)
          /\ Raise(b)
          /\ Continue(t, "confirm")
          /\ UNCHANGED sup
       \/ /\ sup' = [sup EXCEPT ![b] = "wait"]
          /\ Continue(t, "adopt")
          /\ UNCHANGED pipe
    /\ UNCHANGED <<tables, cut, nameOf, session, history>>

\* startLink looks at `stopped` only after the pipeline is up.
Confirmed(b) == IF stopped THEN Halted(pipe, b) ELSE pipe

Confirm(t) ==
    LET b == task[t].new IN
    /\ At(t, "confirm")
    /\ pipe' = Confirmed(b)
    /\ sup' = IF stopped THEN [sup EXCEPT ![b] = "wait"] ELSE sup
    /\ Continue(t, "adopt")
    /\ UNCHANGED <<tables, cut, nameOf, session, history>>

Adopt(t) ==
    /\ At(t, "adopt")
    /\ raw' = [raw EXCEPT ![task[t].entry] = task[t].new]
    /\ Continue(t, "discard")
    /\ UNCHANGED <<links, order, entries, builds, sup, session, history>>

Discard(t) ==
    /\ At(t, "discard")
    /\ cut' = cut \cup {task[t].prev}
    /\ Finish(t)
    /\ UNCHANGED <<tables, pipe, nameOf, sup, session, history>>

-----------------------------------------------------------------------------
\* Session.Start and superviseLink

SessionStart ==
    /\ ~started
    /\ ~stopped
    /\ started' = TRUE
    /\ boot' = {links[n] : n \in Names} \ {None}
    /\ UNCHANGED <<tables, builds, sup, stopped, stop, task, history>>

\* Start works through its carriers: each comes up or is supervised.
BootRaise(b) ==
    /\ b \in boot
    /\ MayStart(b)
    /\ Raise(b)
    /\ sup' = [sup EXCEPT ![b] = "boot"]
    /\ boot' = boot \ {b}
    /\ UNCHANGED <<tables, cut, nameOf, started, stopped, stop, task, history>>

\* mutant: a carrier that does not start at once is forgotten
BootForgets(b) ==
    /\ b \in boot
    /\ boot' = boot \ {b}
    /\ UNCHANGED <<tables, builds, sup, started, stopped, stop, task, history>>
BootFails(b) ==
    /\ b \in boot
    /\ boot' = boot \ {b}
    /\ sup' = [sup EXCEPT ![b] = "wait"]
    /\ UNCHANGED <<tables, builds, started, stopped, stop, task, history>>

Current(b) == \E n \in Names : links[n] = b

SupervisorEnds(b) ==
    /\ sup[b] = "wait"
    /\ stopped \/ ~Current(b)
    /\ sup' = [sup EXCEPT ![b] = "none"]
    /\ UNCHANGED <<tables, builds, session, task, history>>

\* The delay is over and the link is still the session's.
SupervisorWakes(b) ==
    /\ sup[b] = "wait"
    /\ ~panicked
    /\ Current(b)
    /\ sup' = [sup EXCEPT ![b] = "try"]
    /\ UNCHANGED <<tables, builds, session, task, history>>

SupervisorRaises(b) ==
    /\ sup[b] = "try"
    /\ ~panicked
    /\ MayStart(b)
    /\ Raise(b)
    /\ sup' = [sup EXCEPT ![b] = "confirm"]
    /\ UNCHANGED <<tables, cut, nameOf, session, task, history>>

SupervisorFails(b) ==
    /\ sup[b] = "try"
    /\ ~panicked
    /\ sup' = [sup EXCEPT ![b] = "wait"]
    /\ UNCHANGED <<tables, builds, session, task, history>>

\* The end of startLink, in Start or in a supervisor.
LinkConfirms(b) ==
    /\ sup[b] \in {"boot", "confirm"}
    /\ ~panicked
    /\ pipe' = Confirmed(b)
    /\ sup' = [sup EXCEPT ![b] = IF stopped THEN "wait" ELSE "none"]
    /\ UNCHANGED <<tables, cut, nameOf, session, task, history>>

-----------------------------------------------------------------------------
\* Manager.Stop: the entries are listed, the session is stopped, its links
\* are, its supervisors end, the raw transports of the list are stopped.

StopList ==
    /\ stop.at = "no"
    /\ stop' = [stop EXCEPT !.at = "close", !.entries = {entries[n] : n \in Names} \ {None}]
    /\ UNCHANGED <<tables, builds, sup, boot, started, stopped, task, history>>

StopSession ==
    /\ stop.at = "close"
    /\ stopped' = TRUE
    /\ stop' = [stop EXCEPT !.at = "links", !.links = {links[n] : n \in Names} \ {None}]
    /\ late' = late \cup {task[t].new : t \in {u \in Tasks : task[u].at \in {"raise", "insert"}}}
    /\ UNCHANGED <<tables, builds, sup, boot, started, task, panicked>>

StopLink(b) ==
    /\ stop.at = "links"
    /\ b \in stop.links
    /\ pipe' = Halted(pipe, b)
    /\ stop' = [stop EXCEPT !.links = @ \ {b}]
    /\ UNCHANGED <<tables, cut, nameOf, sup, boot, started, stopped, task, history>>

StopWaits ==
    /\ stop.at = "links"
    /\ stop.links = {}
    /\ \A b \in Builds : sup[b] \in {"none", "boot"}
    /\ stop' = [stop EXCEPT !.at = "raw"]
    /\ UNCHANGED <<tables, builds, sup, boot, started, stopped, task, history>>

StopRaw ==
    /\ stop.at = "raw"
    /\ cut' = cut \cup {raw[e] : e \in stop.entries}
    /\ stop' = [stop EXCEPT !.at = "done"]
    /\ UNCHANGED <<tables, pipe, nameOf, sup, boot, started, stopped, task, history>>

-----------------------------------------------------------------------------
TaskStep(t) ==
    \/ AddCheck(t)
    \/ AddRaise(t)
    \/ AddInsert(t)
    \/ AddAttach(t)
    \/ Unlink(t)
    \/ Silence(t)
    \/ Swap(t)
    \/ Retire(t)
    \/ Launch(t)
    \/ Confirm(t)
    \/ Adopt(t)
    \/ Discard(t)

BuildStep(b) ==
    \/ BootRaise(b)
    \/ BootFails(b)
    \/ SupervisorEnds(b)
    \/ SupervisorWakes(b)
    \/ SupervisorRaises(b)
    \/ SupervisorFails(b)
    \/ LinkConfirms(b)
    \/ StopLink(b)

Next ==
    \/ SessionStart
    \/ StopList
    \/ StopSession
    \/ StopWaits
    \/ StopRaw
    \/ \E b \in Builds : BuildStep(b)
    \/ \E t \in Tasks :
          \/ TaskStep(t)
          \/ \E n \in Names, b \in Builds : StartRequest(t, n, b) \/ Reload(t, n, b)
          \/ \E n \in Names : StopRequest(t, n)

Spec == Init /\ [][Next]_carrierVars

\* Goroutines run and timers fire (weak); a carrier that is tried again
\* and again comes up (strong). Nobody makes requests or stops.
Fairness ==
    /\ \A t \in Tasks : WF_carrierVars(TaskStep(t))
    /\ \A b \in Builds : WF_carrierVars(BuildStep(b))
    /\ SF_carrierVars(\E b \in Builds : SupervisorRaises(b))
    /\ WF_carrierVars(StopSession \/ StopWaits \/ StopRaw)

FairSpec == Spec /\ Fairness

-----------------------------------------------------------------------------
TypeOK ==
    /\ links \in [Names -> Builds \cup {None}]
    /\ order \in Seq(Names)
    /\ entries \in [Names -> Builds \cup {None}]
    /\ raw \in [Builds -> Builds]
    /\ pipe \in [Builds -> {"unused", "built", "up", "down"}]
    /\ cut \subseteq Builds
    /\ nameOf \in [Builds -> Names \cup {None}]
    /\ sup \in [Builds -> {"none", "boot", "wait", "try", "confirm"}]
    /\ boot \subseteq Builds
    /\ started \in BOOLEAN /\ stopped \in BOOLEAN /\ panicked \in BOOLEAN
    /\ late \subseteq Builds

\* The session's links and the manager's entries, kept under two locks,
\* agree on every name nobody is at work on, whatever was added, removed,
\* reloaded, retried or stopped (manager.go:136-206).
TablesAgree ==
    \A n \in Names : ~Busy(n) =>
        /\ links[n] = IF entries[n] = None THEN None ELSE raw[entries[n]]
        /\ Cardinality({i \in DOMAIN order : order[i] = n}) = IF links[n] = None THEN 0 ELSE 1

\* One name, one running carrier, also in the middle of a hot swap and
\* with a supervisor of the old carrier at work (session.go:336-350).
OneRunning ==
    \A n \in Names : \A b, c \in Builds :
        nameOf[b] = n /\ nameOf[c] = n /\ Carries(b) /\ Carries(c) => b = c

\* What runs can be stopped: a running carrier is the one its name stands
\* for, unless somebody is about to stop it (session.go:304-352, 559-600).
NoneForgotten ==
    \A b \in Builds : Carries(b) /\ ~Busy(nameOf[b]) => Current(b)

AllIdle ==
    /\ \A t \in Tasks : task[t].at = "idle"
    /\ boot = {}
    /\ \A b \in Builds : sup[b] # "boot"

\* When Manager.Stop has returned no carrier runs and none comes up, but
\* for one an AddTransportPostStart was just starting (manager.go:247).
StopIsFinal ==
    stop.at = "done" /\ AllIdle => \A b \in Builds : Carries(b) => b \in late

\* A carrier that does not start is tried until it does, is replaced,
\* removed or the session stops (session.go:548-600).
Down(n) == started /\ ~stopped /\ links[n] # None /\ ~Carries(links[n])
ComesUp == []<>(\A n \in Names : ~Down(n))

\* "It is safe to call after Start() has completed"
\* (session_add_after_start.go:9): requests for the same name that come
\* close together leave a name in the order that has no link, and the next
\* insertion follows it.
AddIsSafe == ~panicked

-----------------------------------------------------------------------------
\* Why the above holds while requests about a name come one at a time:
\* what each stage of a request leaves of the two tables, and who may
\* bring a build up. Kept(n) is about one name, and a step about another
\* name leaves it alone.
Stages == {"idle", "check", "raise", "insert", "attach", "unlink", "silence",
           "swap", "retire", "launch", "confirm", "adopt", "discard"}
Bringing == {"check", "raise", "insert", "attach", "swap", "retire", "launch", "confirm", "adopt", "discard"}
Serving == {"unlink", "silence", "swap", "retire", "launch", "confirm", "adopt", "discard"}

Task == [at : Stages, name : Names \cup {None}, new : Builds \cup {None}, old : Builds \cup {None},
         entry : Builds \cup {None}, prev : Builds \cup {None}, run : BOOLEAN]

TasksTyped ==
    /\ task \in [Tasks -> Task]
    /\ \A t \in Tasks :
        /\ task[t].at # "idle" => task[t].name \in Names
        /\ task[t].at \in Bringing => task[t].new \in Builds /\ nameOf[task[t].new] = task[t].name
        /\ task[t].at \in Serving => /\ task[t].entry \in Builds /\ task[t].prev \in Builds
                                     /\ nameOf[task[t].entry] = task[t].name

StopTyped ==
    /\ stop \in [at : {"no", "close", "links", "raw", "done"},
                 links : SUBSET Builds, entries : SUBSET Builds]
    /\ stopped <=> stop.at \in {"links", "raw", "done"}

OneEach ==
    \A t, u \in Tasks :
        task[t].at # "idle" /\ task[u].at # "idle" /\ task[t].name = task[u].name => t = u

\* Nobody holds a build that was not made yet.
Unbuilt ==
    \A b \in Builds :
        nameOf[b] = None => /\ pipe[b] = "unused" /\ raw[b] = b /\ sup[b] = "none"
                            /\ b \notin boot \cup stop.links

\* The order lists the names that have a link, once each.
Ordered ==
    /\ \A i, j \in DOMAIN order : order[i] = order[j] => i = j
    /\ \A n \in Names : links[n] # None <=> \E i \in DOMAIN order : order[i] = n

Wanted(n) == IF entries[n] = None THEN None ELSE raw[entries[n]]

\* A build belongs to one name, and so do the places that hold it.
Named(n) ==
    /\ links[n] # None => nameOf[links[n]] = n
    /\ entries[n] # None => nameOf[entries[n]] = n
    /\ \A b \in Builds : nameOf[b] = n => pipe[b] # "unused" /\ nameOf[raw[b]] = n

\* Nobody runs b, and nobody is about to.
Asleep(b) == pipe[b] # "up" /\ sup[b] = "none" /\ b \notin boot

Staged(t) ==
    LET n == task[t].name
        b == task[t].new
        old == task[t].old
        at == task[t].at
    IN  /\ at \in {"check", "swap", "discard"} => links[n] = Wanted(n)
        /\ at \in {"raise", "insert", "silence"} => links[n] = None
        /\ at \in {"check", "raise", "insert", "attach"} => raw[b] = b /\ started
        /\ at \in {"raise", "insert", "attach", "unlink", "silence"} => entries[n] = None
        /\ at = "unlink" => links[n] = raw[task[t].entry]
        /\ at \in {"unlink", "silence", "launch", "confirm"} => started
        /\ at \in {"swap", "retire", "launch", "confirm", "adopt", "discard"} => entries[n] = task[t].entry
        /\ at \in {"attach", "retire", "launch", "confirm", "adopt"} => links[n] = b
        /\ at \in {"check", "raise", "swap", "launch"} => Asleep(b)
        /\ at \in {"check", "raise", "swap"} => links[n] # b
        /\ at = "retire" =>
               /\ old # b
               /\ old # None => nameOf[old] = n
               /\ IF task[t].run THEN started /\ Asleep(b) ELSE old # None => Asleep(old)
        /\ stopped /\ at \in {"raise", "insert"} => b \in late

\* Who is about to stop b, or stands for its name.
Held(b) ==
    \/ \E n \in Names : links[n] = b
    \/ \E t \in Tasks : task[t].at = "retire" /\ task[t].old = b
    \/ \E t \in Tasks : task[t].at = "insert" /\ task[t].new = b

MayRun(b) ==
    /\ pipe[b] = "up" => Held(b)
    /\ b \in boot \/ sup[b] # "none" => Held(b) \/ pipe[b] = "down"
    /\ ~started => Asleep(b)

\* Once the session is stopped its links are stopped, or soon will be.
Stopping(n) ==
    stopped /\ links[n] # None =>
        \/ links[n] \in late
        \/ pipe[links[n]] = "down"
        \/ stop.at = "links" /\ links[n] \in stop.links

Kept(n) ==
    /\ Named(n)
    /\ ~Busy(n) => links[n] = Wanted(n)
    /\ \A t \in Tasks : task[t].at # "idle" /\ task[t].name = n => Staged(t)
    /\ \A b \in Builds : nameOf[b] = n => MayRun(b)
    /\ Stopping(n)

IInv ==
    /\ TypeOK /\ TasksTyped /\ StopTyped /\ OneEach /\ Unbuilt /\ Ordered
    /\ \A n \in Names : Kept(n)
    /\ AddIsSafe
============================================================================
