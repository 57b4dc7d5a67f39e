--------------------------- MODULE TunnelManager ---------------------------
\* The panel's tunnel manager (internal/panel/manager.go): the profiles in
\* memory and in tunnels.json, one core process per running profile, the
\* operations of the HTTP API, the supervisor that restarts and limits,
\* and the end of the panel, orderly or not.
\*
\* Every operation holds m.op from its first line to its last, so there is
\* at most one, kept in "op".  Inside it m.mu is taken and released
\* several times: each such section is a step, and between two of them the
\* goroutine that waits for a core (Reap) and the cores themselves move.
\*
\* Profiles keep what decides their life: enabled, status, attempts, the
\* traffic limit.  Time is abstract: a retry lies in the future (later) or
\* not.  Log lines, live statistics, cookies' contents, the share link and
\* the firewall (see L3Guard) are left out.
EXTENDS Naturals, FiniteSets

CONSTANTS
  Tunnels,      \* profile ids
  None,         \* no profile
  MaxAttempts,  \* automatic restarts before the supervisor gives up (10)
  Requests,     \* operations the API is asked for (a bound)
  Limited,      \* profiles with a traffic limit
  SaveFaults,   \* writing tunnels.json may fail
  CoreFaults,   \* a core may fail to start, cleaning up after it may fail
  Stubborn,     \* a core may outlive SIGTERM and SIGKILL by three seconds each
  Crashes       \* the panel may be killed

ASSUME ConstantsAssumption ==
  /\ None \notin Tunnels
  /\ MaxAttempts \in Nat \ {0}
  /\ Limited \subseteq Tunnels
  /\ SaveFaults \in BOOLEAN /\ CoreFaults \in BOOLEAN
  /\ Stubborn \in BOOLEAN /\ Crashes \in BOOLEAN

VARIABLES
  up,        \* the panel process runs
  closed,    \* Manager.closed
  known,     \* the keys of Manager.tunnels
  enabled,   \* IsEnabled
  status,    \* Status
  attempts,  \* RestartAttempts
  over,      \* the counters reached TrafficLimitBytes
  later,     \* Manager.retry lies in the future
  core,      \* Manager.processes: "none", or a core "wanted" or "intentional"
  alive,     \* the core's process still runs
  disk,      \* tunnels.json: "absent", "enabled" or "disabled"
  op,        \* the operation that holds m.op
  restoring, \* profiles Restore has still to start; None: it has still to list them
  halted     \* history: profiles whose last acknowledged operation ended them

profileVars == <<known, enabled, status, attempts, over, later>>
coreVars == <<core, alive>>
vars == <<up, closed, profileVars, coreVars, disk, op, restoring, halted>>

-----------------------------------------------------------------------------
\* Operations.

Kinds == {"start", "stop", "delete", "create", "update", "restart", "cookies",
          "import", "restore", "tick", "close"}

\* What an operation has still to do: profiles to stop, the one whose core it is
\* waiting for, profiles to start, the one whose failed start it has to note
\* with the attempts seen before, and the profiles it is about.
Operation == [kind : Kinds, stops : SUBSET Tunnels, at : Tunnels \cup {None},
              starts : SUBSET Tunnels, noted : Tunnels \cup {None},
              seen : 0..MaxAttempts, about : SUBSET Tunnels]

Idle == [kind |-> "none", stops |-> {}, at |-> None, starts |-> {},
         noted |-> None, seen |-> 0, about |-> {}]

Doing(kind, stops, starts, about) ==
  [Idle EXCEPT !.kind = kind, !.stops = stops, !.starts = starts, !.about = about]

\* stopLocked(id, true)
Disabling == op.kind \in {"stop", "delete", "tick"}

\* startLocked(id, true)
Manual == op.kind # "tick"

\* Nothing is waited for and nothing has to be noted.
Ready == op.at = None /\ op.noted = None

\* The stops are over: the rest of the operation.
Stopped == Ready /\ op.stops = {}

\* Outcomes of an attempt to write the file.
Saves == IF SaveFaults THEN BOOLEAN ELSE {TRUE}

Snapshot(kn, en) ==
  [t \in Tunnels |-> IF t \notin kn THEN "absent"
                     ELSE IF en[t] THEN "enabled" ELSE "disabled"]

\* saveLocked
Save(ok) == disk' = IF ok THEN Snapshot(known', enabled') ELSE disk

Init ==
  /\ up = TRUE
  /\ closed = FALSE
  /\ known = {}
  /\ enabled = [t \in Tunnels |-> FALSE]
  /\ status = [t \in Tunnels |-> "Stopped"]
  /\ attempts = [t \in Tunnels |-> 0]
  /\ over = [t \in Tunnels |-> FALSE]
  /\ later = [t \in Tunnels |-> FALSE]
  /\ core = [t \in Tunnels |-> "none"]
  /\ alive = [t \in Tunnels |-> FALSE]
  /\ disk = Snapshot({}, enabled)
  /\ op = Idle
  /\ restoring = {}
  /\ halted = {}

-----------------------------------------------------------------------------
\* The operations begin: m.op is free.

Free == up /\ op = Idle

Begin(o) ==
  /\ Free
  /\ o.kind \in Requests \cup {"tick"}
  /\ op' = o
  /\ UNCHANGED <<up, closed, profileVars, coreVars, disk, restoring>>

\* A profile asked for again is no longer one that was ended.
Wanted(t) == halted' = halted \ {t}

\* Start, Restart, Stop and Delete of one profile (unknown ids are refused).
BeginStart(t) == t \in known /\ Begin(Doing("start", {}, {t}, {t})) /\ Wanted(t)

BeginRestart(t) == t \in known /\ Begin(Doing("restart", {t}, {t}, {t})) /\ Wanted(t)

BeginStop(t) == t \in known /\ Begin(Doing("stop", {t}, {}, {t})) /\ UNCHANGED halted

BeginDelete(t) == t \in known /\ Begin(Doing("delete", {t}, {}, {t})) /\ UNCHANGED halted

\* Profiles whose settings change are stopped if they are enabled.
StopNone(set) == {}                                              \* mutant
StopEnabled(set) == {t \in set \cap known : enabled[t]}

\* Upsert: a new profile, or new settings for one.
BeginUpsert(t) ==
  /\ \/ t \notin known /\ Begin(Doing("create", {}, {}, {t}))
     \/ t \in known /\ Begin(Doing("update", StopEnabled({t}), {}, {t}))
  /\ UNCHANGED halted

\* ClearCookies: stopped in any case, started again if it was enabled.
BeginCookies(t) ==
  /\ t \in known
  /\ Begin(Doing("cookies", {t}, {u \in {t} : enabled[u]}, {t}))
  /\ UNCHANGED halted

BeginImport(set) ==
  /\ Begin(Doing("import", StopEnabled(set), {}, set))
  /\ UNCHANGED halted

\* Restore, on the main goroutine once the HTTP server listens: a list, then
\* Start of every profile that was enabled in it.
RestoreList ==
  /\ up /\ None \in restoring
  /\ restoring' = {t \in known : enabled[t]}
  /\ UNCHANGED <<up, closed, profileVars, coreVars, disk, op, halted>>

BeginRestore ==
  \E t \in restoring \ {None} :
    /\ Free
    /\ op' = IF t \in known THEN Doing("restore", {}, {t}, {t}) ELSE Idle
    /\ restoring' = restoring \ {t}
    /\ Wanted(t)
    /\ UNCHANGED <<up, closed, profileVars, coreVars, disk>>

\* supervise, one tick: what is over its limit is stopped; what is enabled, has
\* no core and whose retry does not lie ahead is started, unless it failed too often.
OverLimit == {t \in known : enabled[t] /\ over[t]}

TriesOnceMore(t) == enabled[t] /\ attempts[t] <= MaxAttempts     \* mutant
TriesOnceLess(t) == enabled[t] /\ attempts[t] + 1 < MaxAttempts  \* mutant
TriesEnded(t) == attempts[t] < MaxAttempts                       \* mutant
Tries(t) == enabled[t] /\ attempts[t] < MaxAttempts

Restartable ==
  {t \in known \ OverLimit : core[t] = "none" /\ Tries(t) /\ ~later[t]}

Tick ==
  /\ OverLimit \cup Restartable # {}
  /\ Begin(Doing("tick", OverLimit, Restartable, OverLimit))
  /\ UNCHANGED halted

\* supervise, every fifth tick: what changed is saved.
SaveTick ==
  /\ Free
  /\ UNCHANGED <<up, closed, profileVars, coreVars, op, restoring, halted>>
  /\ \E ok \in Saves : Save(ok)

\* Close, on the main goroutine after Restore: no core is started from here on.
BeginClose ==
  /\ ~closed /\ restoring = {}
  /\ Free
  /\ closed' = TRUE
  /\ op' = Doing("close", {t \in Tunnels : core[t] # "none"}, {}, {})
  /\ UNCHANGED <<up, profileVars, coreVars, disk, restoring, halted>>

-----------------------------------------------------------------------------
\* stopLocked.

\* It returned: a tick notes the limit, Close goes on with the next core,
\* everything else ends when it failed.
Return(t, ok) ==
  op' = IF op.kind = "tick"
          THEN [op EXCEPT !.stops = @ \ {t}, !.at = None, !.noted = t]
        ELSE IF ok \/ op.kind = "close"
          THEN [op EXCEPT !.stops = @ \ {t}, !.at = None]
        ELSE Idle

\* The change of IsEnabled could not be saved and is undone.
StopUnsaved(t) ==
  /\ up /\ Ready /\ t \in op.stops
  /\ Disabling /\ SaveFaults
  /\ Return(t, FALSE)
  /\ UNCHANGED <<up, closed, profileVars, coreVars, disk, restoring, halted>>

\* The first part: disabled and saved if asked for, and the core, if there is
\* one, marked as ended on purpose and signalled.
Disable(t) == enabled' = [enabled EXCEPT ![t] = @ /\ ~Disabling]

LeaveUnmarked(t) == core' = core                          \* mutant
MarkIntentional(t) == core' = [core EXCEPT ![t] = "intentional"]

StopMark(t) ==
  /\ up /\ Ready /\ t \in op.stops
  /\ Disable(t)
  /\ later' = [later EXCEPT ![t] = FALSE]
  /\ IF core[t] = "none"
       THEN /\ status' = [status EXCEPT ![t] = "Stopped"]
            /\ Return(t, TRUE)
            /\ UNCHANGED core
       ELSE /\ status' = [status EXCEPT ![t] = "Stopping"]
            /\ MarkIntentional(t)
            /\ op' = [op EXCEPT !.at = t]
  /\ UNCHANGED <<up, closed, known, attempts, over, alive, restoring, halted>>
  /\ IF Disabling THEN Save(TRUE) ELSE UNCHANGED disk

\* The second part: p.done is closed, and cleaning up after it worked or not ...
Awaited(t) ==
  /\ up /\ op.at = t
  /\ core[t] = "none"
  /\ \E ok \in (IF CoreFaults THEN BOOLEAN ELSE {TRUE}) : Return(t, ok)
  /\ UNCHANGED <<up, closed, profileVars, coreVars, disk, restoring, halted>>

\* ... or it is not, six seconds later.
TimedOut(t) ==
  /\ up /\ op.at = t
  /\ core[t] # "none" /\ Stubborn
  /\ Return(t, FALSE)
  /\ UNCHANGED <<up, closed, profileVars, coreVars, disk, restoring, halted>>

\* supervise, after the stop of a profile over its limit.
NoteLimit(t) ==
  /\ up /\ op.noted = t /\ t \in op.about
  /\ op' = [op EXCEPT !.noted = None]
  /\ halted' = IF enabled[t] \/ core[t] # "none" THEN halted ELSE halted \cup {t}
  /\ UNCHANGED <<up, closed, profileVars, coreVars, restoring>>
  /\ \E ok \in Saves : Save(ok)

-----------------------------------------------------------------------------
\* startLocked: one section of m.mu, from its checks to the running core.

Starting(t) == up /\ Stopped /\ t \in op.starts

\* It returned: a tick notes a failure and goes on, anything else ends.
Started(t, ok) ==
  op' = IF op.kind = "tick"
          THEN [op EXCEPT !.starts = @ \ {t}, !.noted = IF ok THEN None ELSE t,
                          !.seen = attempts[t]]
        ELSE Idle

\* RestartAttempts, once the checks are passed.
Base(t) == IF Manual THEN 0 ELSE attempts[t]

\* There is a core in the map, also one that was told to end: nothing to do.
StartHasCore(t) ==
  /\ Starting(t)
  /\ ~closed /\ core[t] # "none"
  /\ Started(t, TRUE)
  /\ UNCHANGED <<up, closed, profileVars, coreVars, disk, restoring, halted>>

\* The panel ends, the traffic is used up, or the core's file is missing.
StartRefused(t) ==
  /\ Starting(t)
  /\ closed \/ (core[t] = "none" /\ (over[t] \/ CoreFaults))
  /\ Started(t, FALSE)
  /\ UNCHANGED <<up, closed, profileVars, coreVars, disk, restoring, halted>>

Allowed(t) == Starting(t) /\ ~closed /\ core[t] = "none" /\ ~over[t]

Failing(t, en, n) ==
  /\ status' = [status EXCEPT ![t] = "Failed"]
  /\ enabled' = [enabled EXCEPT ![t] = en]
  /\ attempts' = [attempts EXCEPT ![t] = n]
  /\ Started(t, FALSE)
  /\ UNCHANGED <<up, closed, known, over, coreVars, restoring, halted>>

\* The change of IsEnabled could not be saved.
LeaveEnabled(t) == Failing(t, TRUE, Base(t))                     \* mutant
Revert(t) == Failing(t, FALSE, Base(t))

StartUnsaved(t) ==
  /\ Allowed(t) /\ SaveFaults
  /\ Revert(t)
  /\ UNCHANGED <<later, disk>>

\* The command line could not be built: enabled, as saved.
StartNoArgs(t) ==
  /\ Allowed(t) /\ CoreFaults
  /\ Failing(t, TRUE, Base(t))
  /\ Save(TRUE)
  /\ UNCHANGED later

\* The firewall could not be prepared: enabled was saved before, and disabled
\* may not be.
StartNoFirewall(t) ==
  /\ Allowed(t) /\ CoreFaults
  /\ Failing(t, FALSE, Base(t))
  /\ \E ok \in Saves :
       disk' = Snapshot(known, [enabled EXCEPT ![t] = ~ok])
  /\ UNCHANGED later

\* exec or the process group failed.
StartNoCore(t) ==
  /\ Allowed(t) /\ CoreFaults
  /\ Failing(t, TRUE, Base(t) + 1)
  /\ later' = [later EXCEPT ![t] = TRUE]
  /\ Save(TRUE)

StartCore(t) ==
  /\ Allowed(t)
  /\ enabled' = [enabled EXCEPT ![t] = TRUE]
  /\ status' = [status EXCEPT ![t] = "Running"]
  /\ attempts' = [attempts EXCEPT ![t] = Base(t)]
  /\ later' = [later EXCEPT ![t] = FALSE]
  /\ core' = [core EXCEPT ![t] = "wanted"]
  /\ alive' = [alive EXCEPT ![t] = TRUE]
  /\ Started(t, TRUE)
  /\ UNCHANGED <<up, closed, known, over, restoring, halted>>
  /\ Save(TRUE)

\* supervise, after a start that failed: one more attempt unless it was counted.
NoteFailure(t) ==
  /\ up /\ op.noted = t /\ t \notin op.about
  /\ attempts' = [attempts EXCEPT ![t] = IF @ = op.seen THEN @ + 1 ELSE @]
  /\ status' = [status EXCEPT ![t] = "Failed"]
  /\ later' = [later EXCEPT ![t] = TRUE]
  /\ op' = [op EXCEPT !.noted = None]
  /\ UNCHANGED <<up, closed, known, enabled, over, coreVars, restoring, halted>>
  /\ \E ok \in Saves : Save(ok)

-----------------------------------------------------------------------------
\* The operations end.

End == op' = Idle

\* Stop is acknowledged.
EndStop(t) ==
  /\ up /\ Stopped /\ op.kind = "stop" /\ t \in op.about
  /\ End
  /\ halted' = halted \cup {t}
  /\ UNCHANGED <<up, closed, profileVars, coreVars, disk, restoring>>

\* Delete, after the stop; undone when it cannot be saved.
Erase(t) ==
  /\ up /\ Stopped /\ op.kind = "delete" /\ t \in op.about
  /\ End
  /\ later' = [later EXCEPT ![t] = FALSE]
  /\ UNCHANGED <<up, closed, enabled, coreVars, restoring>>
  /\ \/ /\ known' = known \ {t}
        /\ status' = [status EXCEPT ![t] = "Stopped"]
        /\ attempts' = [attempts EXCEPT ![t] = 0]
        /\ over' = [over EXCEPT ![t] = FALSE]
        /\ halted' = halted \cup {t}
        /\ Save(TRUE)
     \/ /\ SaveFaults
        /\ UNCHANGED <<known, status, attempts, over, disk, halted>>

\* Profiles put into the map with the settings given: known ones keep
\* IsEnabled, new ones are disabled, none is running.  Undone when not saved.
Put(set) ==
  /\ End
  /\ UNCHANGED <<up, closed, later, coreVars, restoring, halted>>
  /\ \/ /\ known' = known \cup set
        /\ enabled' = [t \in Tunnels |-> enabled[t] /\ t \in known]
        /\ status' = [t \in Tunnels |-> IF t \in set THEN "Stopped" ELSE status[t]]
        /\ attempts' = [t \in Tunnels |-> IF t \in set THEN 0 ELSE attempts[t]]
        /\ \E high \in SUBSET (set \cap Limited) :
             over' = [t \in Tunnels |-> IF t \in set THEN t \in high ELSE over[t]]
        /\ Save(TRUE)
     \/ /\ SaveFaults
        /\ UNCHANGED <<known, enabled, status, attempts, over, disk>>

\* Upsert; not once the panel ends.
Store ==
  /\ up /\ Stopped /\ op.kind \in {"create", "update"}
  /\ ~closed
  /\ Put(op.about)

\* Import does not ask whether the panel ends.
Merge ==
  /\ up /\ Stopped /\ op.kind = "import"
  /\ Put(op.about)

AllButTick == op.kind \in {"cookies", "close"} /\ op.starts = {}  \* mutant
AllButClose == op.kind \in {"tick", "cookies"} /\ op.starts = {}  \* mutant
AllDone == op.kind \in {"tick", "cookies", "close"} /\ op.starts = {}

\* Nothing is left to do, Upsert finds the panel ending, or ClearCookies could
\* not remove the file.
Release ==
  /\ up /\ Stopped
  /\ \/ AllDone
     \/ op.kind \in {"create", "update"} /\ closed
     \/ op.kind = "cookies" /\ CoreFaults
  /\ End
  /\ UNCHANGED <<up, closed, profileVars, coreVars, disk, restoring, halted>>

-----------------------------------------------------------------------------
\* Beside the operations: cores, counters, time.

CoreExits(t) ==
  /\ alive[t]
  /\ alive' = [alive EXCEPT ![t] = FALSE]
  /\ UNCHANGED <<up, closed, profileVars, core, disk, op, restoring, halted>>

\* The goroutine that waits for the core takes it from the map.
Unexpected(t) == core[t] = "wanted" /\ ~closed

Reap(t) ==
  /\ up /\ core[t] # "none" /\ ~alive[t]
  /\ core' = [core EXCEPT ![t] = "none"]
  /\ status' = [status EXCEPT ![t] = IF Unexpected(t) THEN "Failed" ELSE "Stopped"]
  /\ attempts' = [attempts EXCEPT ![t] = IF Unexpected(t) THEN @ + 1 ELSE @]
  /\ later' = [later EXCEPT ![t] = @ \/ Unexpected(t)]
  /\ UNCHANGED <<up, closed, known, enabled, over, alive, op, restoring, halted>>
  /\ \E ok \in Saves : Save(ok)

\* applyStatusLocked: a core reports traffic up to the limit.
Exceed(t) ==
  /\ up /\ core[t] # "none" /\ t \in Limited /\ ~over[t]
  /\ over' = [over EXCEPT ![t] = TRUE]
  /\ UNCHANGED <<up, closed, known, enabled, status, attempts, later, coreVars,
                 disk, op, restoring, halted>>

\* ResetStats; it takes m.mu only.
ResetStats(t) ==
  /\ up /\ t \in known /\ over[t]
  /\ over' = [over EXCEPT ![t] = FALSE]
  /\ UNCHANGED <<up, closed, known, enabled, status, attempts, later, coreVars,
                 op, restoring, halted>>
  /\ \E ok \in Saves : Save(ok)

\* Time reaches the retry.
RetryDue(t) ==
  /\ later[t]
  /\ later' = [later EXCEPT ![t] = FALSE]
  /\ UNCHANGED <<up, closed, known, enabled, status, attempts, over, coreVars,
                 disk, op, restoring, halted>>

-----------------------------------------------------------------------------
\* The panel's process ends and starts.

\* Nothing of the memory is left, and no core: the kernel ends them with the
\* panel (Pdeathsig, a job object).
Gone ==
  /\ up' = FALSE
  /\ closed' = FALSE
  /\ known' = {}
  /\ enabled' = [t \in Tunnels |-> FALSE]
  /\ status' = [t \in Tunnels |-> "Stopped"]
  /\ attempts' = [t \in Tunnels |-> 0]
  /\ over' = [t \in Tunnels |-> FALSE]
  /\ later' = [t \in Tunnels |-> FALSE]
  /\ core' = [t \in Tunnels |-> "none"]
  /\ alive' = [t \in Tunnels |-> FALSE]
  /\ op' = Idle
  /\ restoring' = {}
  /\ UNCHANGED halted

\* Close, after the supervisor and all goroutines of cores ended; a handler may
\* still be in an operation.
CloseDone ==
  /\ up /\ closed /\ op.kind \notin {"tick", "close"}
  /\ \A t \in Tunnels : core[t] = "none"
  /\ Gone
  /\ \E ok \in Saves : disk' = IF ok THEN Snapshot(known, enabled) ELSE disk

Crash ==
  /\ up /\ Crashes
  /\ Gone
  /\ UNCHANGED disk

\* NewManager: profiles as saved, none running, no failed attempts.
Boot ==
  /\ ~up
  /\ up' = TRUE
  /\ known' = {t \in Tunnels : disk[t] # "absent"}
  /\ enabled' = [t \in Tunnels |-> disk[t] = "enabled"]
  /\ \E high \in SUBSET (known' \cap Limited) : over' = [t \in Tunnels |-> t \in high]
  /\ restoring' = {None}
  /\ UNCHANGED <<closed, status, attempts, later, coreVars, disk, op, halted>>

-----------------------------------------------------------------------------
\* The operation in progress goes on.
OpStep(t) ==
  \/ StopUnsaved(t) \/ StopMark(t) \/ Awaited(t) \/ TimedOut(t) \/ NoteLimit(t)
  \/ StartHasCore(t) \/ StartRefused(t) \/ StartUnsaved(t) \/ StartNoArgs(t)
  \/ StartNoFirewall(t) \/ StartNoCore(t) \/ StartCore(t) \/ NoteFailure(t)
  \/ EndStop(t) \/ Erase(t)

OpGoesOn == (\E t \in Tunnels : OpStep(t)) \/ Store \/ Merge \/ Release

Next ==
  \/ \E t \in Tunnels :
       \/ BeginStart(t) \/ BeginRestart(t) \/ BeginStop(t) \/ BeginDelete(t)
       \/ BeginUpsert(t) \/ BeginCookies(t)
       \/ CoreExits(t) \/ Reap(t) \/ Exceed(t) \/ ResetStats(t) \/ RetryDue(t)
  \/ \E set \in SUBSET Tunnels : BeginImport(set)
  \/ RestoreList \/ BeginRestore \/ Tick \/ SaveTick \/ BeginClose
  \/ OpGoesOn
  \/ CloseDone \/ Crash \/ Boot

Spec == Init /\ [][Next]_vars

\* A core that was signalled ends, if not at once.
Ends(t) == core[t] = "intentional" /\ CoreExits(t)

\* The supervisor's tick, when it concerns t.
TickFor(t) == t \in OverLimit \cup Restartable /\ Tick

\* Go runs every goroutine, its mutexes are fair to who waits for long, its select
\* does not prefer the ticker over the end for ever; time passes.
Fairness ==
  /\ WF_vars(OpGoesOn) /\ WF_vars(RestoreList) /\ SF_vars(BeginRestore)
  /\ SF_vars(CloseDone)
  /\ \A t \in Tunnels : /\ WF_vars(Ends(t)) /\ WF_vars(Reap(t))
                        /\ WF_vars(RetryDue(t)) /\ SF_vars(TickFor(t))

FairSpec == Spec /\ Fairness

-----------------------------------------------------------------------------
\* Properties.

\* The state is well-formed; in particular RestartAttempts, which several places
\* raise, does not pass the supervisor's bound.
TypeOK ==
  /\ up \in BOOLEAN
  /\ closed \in BOOLEAN
  /\ known \subseteq Tunnels
  /\ enabled \in [Tunnels -> BOOLEAN]
  /\ status \in [Tunnels -> {"Stopped", "Running", "Stopping", "Failed"}]
  /\ attempts \in [Tunnels -> 0..MaxAttempts]
  /\ over \in [Tunnels -> BOOLEAN]
  /\ later \in [Tunnels -> BOOLEAN]
  /\ core \in [Tunnels -> {"none", "wanted", "intentional"}]
  /\ alive \in [Tunnels -> BOOLEAN]
  /\ disk \in [Tunnels -> {"absent", "enabled", "disabled"}]
  /\ op \in Operation \cup {Idle}
  /\ restoring \subseteq Tunnels \cup {None}
  /\ halted \subseteq Tunnels

\* A profile whose stop or deletion was acknowledged, or that was stopped at its
\* limit, has no core and gets none until it is asked for again: not from the
\* supervisor, not from other operations on it, not after a crash.
StopSticks ==
  \A t \in halted : core[t] = "none" /\ ~enabled[t] /\ disk[t] # "enabled"

\* A core runs for an enabled profile, or it was told to end.
RunsOnlyIfEnabled ==
  \A t \in Tunnels : core[t] # "none" /\ ~enabled[t] => core[t] = "intentional"

\* What the panel shows: a core that is wanted is shown running, and nothing is
\* shown running or stopping without a core.
StatusTruthful ==
  \A t \in Tunnels :
    /\ core[t] = "wanted" => status[t] = "Running"
    /\ core[t] = "none" => status[t] \notin {"Running", "Stopping"}

\* The file has the profiles the panel has, and those enabled as enabled: a panel
\* that is killed at any moment starts them again.
Durable ==
  up => \A t \in Tunnels : /\ t \in known <=> disk[t] # "absent"
                           /\ enabled[t] => disk[t] = "enabled"

\* Whoever holds m.op releases it.
OpEnds == []<>(op = Idle)

\* An enabled profile without a core gets one, unless it is disabled, its attempts
\* or its traffic are used up, the panel ends, or an operation asked for takes
\* hold of it.
Abandoned(t) ==
  \/ ~enabled[t] \/ attempts[t] = MaxAttempts \/ over[t]
  \/ closed \/ ~up
  \/ t \in op.about /\ op.kind # "tick"

Revival == \A t \in Tunnels : []<>(core[t] # "none" \/ Abandoned(t))

\* A panel told to end ends, however its cores and operations stand.
Ending == []<>(closed => ~up)
=============================================================================
