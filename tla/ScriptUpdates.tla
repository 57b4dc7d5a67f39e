--------------------------- MODULE ScriptUpdates ---------------------------
\* The updates of a script carrier on a node (Core/transport/script,
\* wired in Core/node_scriptupdate.go): the recovery ladder its failures
\* climb, the worker that does what the ladder asks for, the daily pass,
\* and the files of the package, which both of them change.
\*
\* Nothing fetched is trusted: the index may announce and a mirror may
\* answer anything.  A package is its version, its wire generation and
\* whether a key of the project signed it.  Its four files are those of
\* InstallPackage and RollbackPackage; a rename is one step, with the Stat
\* before it.
EXTENDS Integers

CONSTANTS
    Packages,      \* what mirrors hold: records of version, wire and signed
    Index,         \* what update.json may say: records of version and wire
    First,         \* the package installed at the start
    RecheckAfter, RollbackAfter, FallbackAfter, \* increasing (Normalize)
    MaxFails,      \* failures counted in one streak (a bound)
    Crashes,       \* restarts of the node (a bound)
    Faults,        \* a write or rename may fail
    None

VARIABLES
    fails, rung,      \* the ladder
    running, pending, \* the worker of the id, and its next action
    proc,             \* per process: its step, what it is to install, the file
    rec,              \* updateEntry.inst: version and wire
    cur, prev, fresh, spare, \* <file>, .prev, .new, .swap
    live,             \* the package of the link in the session
    crossed,          \* both processes changed files at once
    torn,             \* the node ended, or a rename failed, inside a change
    crashes

ladderVars == <<fails, rung>>
files == <<cur, prev, fresh, spare>>
marks == <<crossed, torn, crashes>>
updateVars == <<ladderVars, running, pending, proc, rec, files, live, marks>>

Processes == {"worker", "pass"}
Idle == [step |-> "idle", plan |-> None, got |-> None]
Summary(pkg) == [version |-> pkg.version, wire |-> pkg.wire]

Init ==
    /\ fails = 0 /\ rung = 0
    /\ running = FALSE /\ pending = "none"
    /\ proc = [p \in Processes |-> Idle]
    /\ rec = Summary(First)
    /\ cur = First /\ prev = None /\ fresh = None /\ spare = None
    /\ live = First
    /\ crossed = FALSE /\ torn = FALSE /\ crashes = 0

-----------------------------------------------------------------------------
\* The ladder (recovery.go), fed by Watch

\* mutant
EveryRung(n, r) ==
    IF n >= FallbackAfter THEN 3 ELSE IF n >= RollbackAfter THEN 2
    ELSE IF n >= RecheckAfter THEN 1 ELSE 0
\* "Climb at most one rung per failure": the rung reached, or 0 for no step.
Step(n, r) ==
    IF r < 3 /\ n >= FallbackAfter THEN 3
    ELSE IF r < 2 /\ n >= RollbackAfter THEN 2
    ELSE IF r < 1 /\ n >= RecheckAfter THEN 1 ELSE 0

Action(step) == <<"recheck", "rollback", "fallback">>[step]

\* A failed or lost connection, as Watch reports it.  It starts the streak anew
\* when the connection had held StableFor or the last event is Window ago;
\* either may be so at any time.
Failed ==
    \E anew \in BOOLEAN :
        LET n == IF anew THEN 1 ELSE fails + 1
            r == IF anew THEN 0 ELSE rung
            step == Step(n, r)
        IN  /\ n <= MaxFails
            /\ fails' = n
            /\ rung' = IF step > 0 THEN step ELSE r
            /\ IF step > 0
               THEN pending' = Action(step) /\ running' = TRUE
               ELSE UNCHANGED <<pending, running>>
            /\ UNCHANGED <<proc, rec, files, live, marks>>

-----------------------------------------------------------------------------
\* Who acts: the worker of the id, and the daily pass

At(p) == proc[p].step
Goto(p, next) == proc' = [proc EXCEPT ![p].step = next]
Ends(p) == proc' = [proc EXCEPT ![p] = Idle]
Changes(p) ==
    At(p) \in {"write", "away", "promote", "swap", "back", "keep", "record"}
Crossing(p) == crossed' = (crossed \/ \E q \in Processes \ {p} : Changes(q))

Work ==
    /\ running /\ At("worker") = "idle"
    /\ pending' = "none"
    /\ CASE pending = "none" -> running' = FALSE /\ UNCHANGED proc
         [] pending = "recheck" -> Goto("worker", "check") /\ UNCHANGED running
         [] pending = "rollback" -> Goto("worker", "rollback") /\ UNCHANGED running
         [] pending = "fallback" -> UNCHANGED <<running, proc>>
    /\ UNCHANGED <<ladderVars, rec, files, live, marks>>

CheckAll ==
    /\ At("pass") = "idle"
    /\ Goto("pass", "check")
    /\ UNCHANGED <<ladderVars, running, pending, rec, files, live,
                   marks>>

\* CheckUpdate: newer, of the same wire, announced under the same key.
AutoOK(i) == i.version > rec.version /\ i.wire = rec.wire

\* checkAndMaybeApply, and the check ApplyUpdate makes again.
Check(p) ==
    /\ At(p) \in {"check", "apply"}
    /\ \/ Ends(p)
       \/ \E i \in Index :
            /\ AutoOK(i)
            /\ IF At(p) = "check"
               THEN Goto(p, "apply")
               ELSE proc' = [proc EXCEPT ![p].step = "fetch", ![p].plan = i]
    /\ UNCHANGED <<ladderVars, running, pending, rec, files, live, marks>>

\* mutants
AnyWire(p, d) == d.signed /\ d.version = proc[p].plan.version
AnySigner(p, d) == Summary(d) = proc[p].plan
\* verifyDownload, with the record ApplyUpdate began with.
Verified(p, d) == d.signed /\ Summary(d) = proc[p].plan

Fetch(p) ==
    /\ At(p) = "fetch"
    /\ \/ Ends(p) /\ UNCHANGED crossed
       \/ \E d \in Packages :
            /\ Verified(p, d)
            /\ proc' = [proc EXCEPT ![p].step = "write", ![p].got = d]
            /\ Crossing(p)
    /\ UNCHANGED <<ladderVars, running, pending, rec, files, live, torn,
                   crashes>>

-----------------------------------------------------------------------------
\* InstallPackage

WriteFresh(p) ==
    /\ At(p) = "write"
    /\ \/ Faults /\ Ends(p) /\ UNCHANGED fresh
       \/ fresh' = proc[p].got /\ Goto(p, "away")
    /\ UNCHANGED <<ladderVars, running, pending, rec, cur, prev,
                   spare, live, marks>>

\* mutant
NotKept == prev' = prev
Kept == prev' = cur

MoveAway(p) ==
    /\ At(p) = "away"
    /\ \/ /\ Faults /\ cur # None
          /\ fresh' = None /\ Ends(p) /\ UNCHANGED <<cur, prev>>
       \/ /\ IF cur # None THEN Kept /\ cur' = None ELSE UNCHANGED <<cur, prev>>
          /\ Goto(p, "promote") /\ UNCHANGED fresh
    /\ UNCHANGED <<ladderVars, running, pending, rec, spare, live,
                   marks>>

\* mutant
LeftAway == UNCHANGED <<cur, prev>>
\* "Put the old one back rather than leave the transport missing."
PutBack ==
    IF prev # None THEN cur' = prev /\ prev' = None ELSE UNCHANGED <<cur, prev>>

Promote(p) ==
    /\ At(p) = "promote"
    /\ \/ /\ fresh # None
          /\ cur' = fresh /\ fresh' = None
          /\ Goto(p, "record") /\ UNCHANGED prev
       \/ /\ Faults \/ fresh = None
          /\ PutBack /\ fresh' = None
          /\ Ends(p)
    /\ UNCHANGED <<ladderVars, running, pending, rec, spare, live,
                   marks>>

-----------------------------------------------------------------------------
\* RollbackPackage, by the worker

\* "The previous file is re-verified".
Rollback ==
    /\ At("worker") = "rollback"
    /\ IF prev # None /\ prev.signed
       THEN /\ proc' = [proc EXCEPT !["worker"].step = "swap",
                                    !["worker"].plan = Summary(prev)]
            /\ Crossing("worker")
       ELSE Ends("worker") /\ UNCHANGED crossed
    /\ UNCHANGED <<ladderVars, running, pending, rec, files, live, torn,
                   crashes>>

SwapOut ==
    /\ At("worker") = "swap"
    /\ \/ Faults /\ Ends("worker") /\ UNCHANGED files
       \/ /\ cur # None
          /\ spare' = cur /\ cur' = None
          /\ Goto("worker", "back") /\ UNCHANGED <<prev, fresh>>
       \/ /\ cur = None                 \* "nothing current: just promote prev"
          /\ cur' = prev /\ prev' = None
          /\ IF prev = None THEN Ends("worker") ELSE Goto("worker", "record")
          /\ UNCHANGED <<fresh, spare>>
    /\ UNCHANGED <<ladderVars, running, pending, rec, live, marks>>

SwapIn ==
    /\ At("worker") = "back"
    /\ \/ /\ prev # None
          /\ cur' = prev /\ prev' = None
          /\ Goto("worker", "keep") /\ UNCHANGED spare
       \/ /\ Faults \/ prev = None
          /\ cur' = spare /\ spare' = None
          /\ Ends("worker") /\ UNCHANGED prev
    /\ UNCHANGED <<ladderVars, running, pending, rec, fresh, live,
                   marks>>

\* The last rename: its error is the error of the whole.
SwapKeep ==
    /\ At("worker") = "keep"
    /\ \/ /\ prev' = spare /\ spare' = None
          /\ Goto("worker", "record") /\ UNCHANGED torn
       \/ Faults /\ torn' = TRUE /\ Ends("worker") /\ UNCHANGED <<prev, spare>>
    /\ UNCHANGED <<ladderVars, running, pending, rec, cur, fresh,
                   live, crossed, crashes>>

-----------------------------------------------------------------------------
\* onPackageChanged, and the owner's Reload, which reads the file again.
Record(p) ==
    /\ At(p) = "record"
    /\ rec' = proc[p].plan
    /\ Goto(p, "reload")
    /\ UNCHANGED <<ladderVars, running, pending, files, live, marks>>

Reload(p) ==
    /\ At(p) = "reload"
    /\ live' = IF cur # None /\ cur.signed THEN cur ELSE live
    /\ Ends(p)
    /\ UNCHANGED <<ladderVars, running, pending, rec, files, marks>>

\* The node ends, and starts from what is on its disk.
Restart ==
    /\ crashes < Crashes /\ cur # None
    /\ crashes' = crashes + 1
    /\ torn' = (torn \/ \E p \in Processes : Changes(p))
    /\ fails' = 0 /\ rung' = 0
    /\ running' = FALSE /\ pending' = "none"
    /\ proc' = [p \in Processes |-> Idle]
    /\ rec' = Summary(cur) /\ live' = cur
    /\ UNCHANGED <<files, crossed>>

WorkerStep ==
    \/ Work \/ Rollback \/ SwapOut \/ SwapIn \/ SwapKeep
ProcessStep(p) ==
    \/ Check(p) \/ Fetch(p) \/ WriteFresh(p) \/ MoveAway(p) \/ Promote(p)
    \/ Record(p) \/ Reload(p)

Next ==
    \/ Failed
    \/ WorkerStep \/ CheckAll \/ \E p \in Processes : ProcessStep(p)
    \/ Restart

Scheduled ==
    /\ WF_updateVars(WorkerStep)
    /\ \A p \in Processes : WF_updateVars(ProcessStep(p))

Spec == Init /\ [][Next]_updateVars /\ Scheduled

-----------------------------------------------------------------------------
Rungs == {0, 1, 2, 3}
TypeOK ==
    /\ fails \in 0..MaxFails /\ rung \in Rungs
    /\ pending \in {"none", "recheck", "rollback", "fallback"}
    /\ {cur, prev, fresh, spare} \subseteq Packages \union {None}
    /\ live \in Packages

\* Whatever the index announces and the mirrors answer, nothing but a
\* package signed by the project and of the wire generation both ends
\* speak is ever put in place unattended, by an update or by a rollback
\* (update.go:24 "can at worst withhold updates", updater.go:203).
OnlyOurs ==
    \A f \in {cur, prev, live} : f # None => f.signed /\ f.wire = First.wire

\* The carrier's file is there, except between two renames of a process
\* that is under way: a rename that fails puts the old one back, and the
\* worker and the daily pass, which do not know of each other, do not lose
\* it between them (update.go:319).  A node that ends between the renames
\* has none; it does not restart here.
NeverWithout == cur = None => \E p \in Processes : At(p) \in {"promote", "back"}

\* The record the next check compares with is what is on the disk
\* (updater.go:361), unless both processes changed the files at once, or
\* the last rename of a rollback failed.
RecordTrue ==
    ~crossed /\ ~torn /\ (\A p \in Processes : ~Changes(p)) =>
        rec = Summary(cur)

\* What the ladder asked for is done: an action is taken up by the worker
\* however long the one before it takes (updater.go:150).
Owed == pending # "none"
TakenUp == []<>~Owed

\* In one streak each step is asked for once, and in the order of the rungs.
ClimbsInOrder ==
    [][fails' > fails /\ pending' # pending /\ pending' # "none" =>
        rung' > rung]_updateVars

-----------------------------------------------------------------------------
\* What holds at every step of both processes: the inductive invariant.

Plans == Index \union {Summary(d) : d \in Packages} \union {None}
Steps == {"idle", "check", "apply", "fetch", "write", "away", "promote",
          "rollback", "swap", "back", "keep", "record", "reload"}
Entries == [step : Steps, plan : Plans, got : Packages \union {None}]
Placed ==
    /\ proc \in [Processes -> Entries]
    /\ crossed \in BOOLEAN /\ torn \in BOOLEAN

\* Every file, and whatever is on its way into one, is of the wire generation of the
\* first and signed.
Planned(p) == At(p) = "fetch" \/ Changes(p)
Ours ==
    /\ \A f \in {cur, prev, fresh, spare, live} : f # None => f.signed /\ f.wire = First.wire
    /\ rec.wire = First.wire
    /\ \A p \in Processes :
         /\ Planned(p) => proc[p].plan.wire = First.wire
         /\ At(p) = "write" => proc[p].got \in Packages /\ proc[p].got.signed
                               /\ proc[p].got.wire = First.wire

\* What is missing can be put back by whoever moved it away.
Restorable ==
    /\ cur = None =>
         \/ At("worker") = "back"
         \/ prev # None /\ \E p \in Processes : At(p) = "promote"
    /\ At("worker") \in {"back", "keep"} => spare # None

\* Where the recorded package and the one to be recorded are, step by step, while one
\* process alone changes files.
Where(p) ==
    /\ At(p) \in {"write", "away"} => cur # None /\ rec = Summary(cur) /\ proc[p].plan = Summary(proc[p].got)
    /\ At(p) = "away" => fresh = proc[p].got
    /\ At(p) = "promote" => /\ fresh = proc[p].got /\ proc[p].plan = Summary(proc[p].got)
                            /\ prev # None /\ rec = Summary(prev)
    /\ At(p) = "swap" => cur # None /\ rec = Summary(cur) /\ prev # None /\ proc[p].plan = Summary(prev)
    /\ At(p) = "back" => rec = Summary(spare) /\ prev # None /\ proc[p].plan = Summary(prev)
    /\ At(p) \in {"keep", "record"} => proc[p].plan = Summary(cur)
Tracked ==
    ~crossed /\ ~torn =>
        /\ \A p, q \in Processes : Changes(p) /\ Changes(q) => p = q
        /\ \A p \in Processes : Where(p)
        /\ (\A p \in Processes : ~Changes(p)) => rec = Summary(cur)

IInv == TypeOK /\ Placed /\ Ours /\ Restorable /\ Tracked
=============================================================================
