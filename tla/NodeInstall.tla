------------------------------ MODULE NodeInstall ------------------------------
\* The node wizard over SSH: node_wizard.go serves one request at a time,
\* provision/ connects, has the server download the installer, checks it
\* against the pinned hash and runs it as root, and
\* deploy/node-install.sh, on the server, makes, changes and removes
\* channels. A channel's configuration, with its key, goes to the server
\* in a file the installer deletes once it has read it.
\*
\* An installer keeps running when the connection it was started over is
\* lost: after a reconnect there may be two of them.  A carrier is its
\* type, a channel's carriers a set of types; its encryption context is
\* the type whose document it is derived from.
EXTENDS Naturals, Sequences, FiniteSets, FiniteSetsExt, SequencesExt

CONSTANTS
    Channels,
    Sudos,        \* how the account gets root: "root", "password", "none"
    Scenes,       \* kinds of commands, channels and sets of carriers asked for in
                  \* one behaviour (a bound)
    MaxCommands,  \* root commands the wizard is asked for (a bound)
    MaxConnects,  \* connects it is asked for (a bound)
    MaxFaults,    \* things that fail on the server, and lost connections (a bound)
    None

VARIABLES
    scene,     \* of the behaviour
    conn,      \* None, or the wizard's connection
    call,      \* the root command being served, or None
    files,     \* temporary configuration files on the server, by command
    jobs,      \* installers running on the server, by command
    node,      \* channel -> what the server has of it
    base,      \* the user, the core and the unit the channels share are there
    mine,      \* channel -> what the wizard was told last: "none", "here", "unsure"
    links,     \* channel -> the contexts of the links made for it since it was installed
    asked, connects, faults,
    lost,      \* connections lost
    crossed    \* two installers have run at once

installVars ==
    <<scene, conn, call, files, jobs, node, base, mine, links, asked, connects, faults, lost, crossed>>
serverVars == <<node, base>>
countVars == <<scene, asked, connects, lost, crossed>>

Ids == 1..MaxCommands
NoChannel == [conf |-> None, context |-> None, prev |-> None, runs |-> None]

Init ==
    /\ scene \in Scenes
    /\ conn = None /\ call = None
    /\ files = {} /\ jobs = [i \in Ids |-> None]
    /\ node = [c \in Channels |-> NoChannel] /\ base = FALSE
    /\ mine = [c \in Channels |-> "none"] /\ links = [c \in Channels |-> {}]
    /\ asked = 0 /\ connects = 0 /\ faults = 0 /\ lost = 0 /\ crossed = FALSE

-----------------------------------------------------------------------------
\* What the installer and the app agree on

\* transportPriority, best first; cups.online's rooms are no document.
ByPriority == <<"vyandex", "mailru", "avito", "cupsonline">>
SessionContext(kit) ==
    LET docs == SelectSeq(ByPriority, LAMBDA t : t \in kit /\ t # "cupsonline")
    IN IF docs = <<>> THEN "http://#" ELSE Head(docs)

\* The context the node derives: the one its file names, else its documents'.
NodeContext(c) ==
    IF node[c].context = None THEN SessionContext(node[c].conf) ELSE node[c].context

\* session_context prints nothing without a document, and no line is written.
Line(context) == IF context = "http://#" THEN None ELSE context

Fault == faults < MaxFaults /\ faults' = faults + 1

-----------------------------------------------------------------------------
\* connect, disconnect

Idle == call = None

\* The host key is not the trusted one, nothing answers, the login is refused.
ConnectFails ==
    /\ Idle /\ connects < MaxConnects
    /\ connects' = connects + 1
    /\ conn' = None
    /\ UNCHANGED <<scene, call, files, jobs, serverVars, mine, links, asked, faults, lost, crossed>>

\* The script comes down; its hash is the pinned one, or not.
Connect(sudo, script) ==
    /\ Idle /\ connects < MaxConnects
    /\ connects' = connects + 1
    /\ conn' = [sudo |-> sudo, script |-> script, up |-> TRUE, probed |-> FALSE]
    /\ UNCHANGED <<scene, call, files, jobs, serverVars, mine, links, asked, faults, lost, crossed>>

\* mutant
TakesAny == TRUE
Verified == conn.script = "pinned"

\* FetchScript's verdict, Probe, and the conditions of connect.
Probe ==
    /\ conn # None /\ ~conn.probed
    /\ conn' = IF Verified /\ conn.up /\ conn.sudo # "none" THEN [conn EXCEPT !.probed = TRUE] ELSE None
    /\ UNCHANGED <<call, files, jobs, serverVars, mine, links, countVars, faults>>

Disconnect ==
    /\ Idle /\ conn # None
    /\ conn' = None
    /\ UNCHANGED <<call, files, jobs, serverVars, mine, links, countVars, faults>>

-----------------------------------------------------------------------------
\* A root command: asRootJSON

\* Known carriers, each once; a channel that is there keeps at least one.
Takes(kind, kit) == kit \subseteq ToSet(ByPriority) /\ (kind = "set" => kit # {})

Ask(kind, c, kit) ==
    /\ Takes(kind, kit)
    /\ Idle /\ conn # None /\ conn.probed /\ asked < MaxCommands
    /\ asked' = asked + 1
    /\ call' = [id |-> asked + 1, kind |-> kind, chan |-> c, kit |-> kit, at |-> "write"]
    /\ UNCHANGED <<scene, conn, files, jobs, serverVars, mine, links, connects, faults, lost, crossed>>

Answered(c, word) ==
    /\ call' = None
    /\ mine' = IF word = "same" THEN mine ELSE [mine EXCEPT ![c] = word]

\* Without a connection nothing is written and nothing started.
Write ==
    /\ call # None /\ call.at = "write"
    /\ IF conn.up
       THEN /\ files' = files \cup {call.id}
            /\ call' = [call EXCEPT !.at = "run"]
            /\ UNCHANGED mine
       ELSE Answered(call.chan, "same") /\ UNCHANGED files
    /\ UNCHANGED <<conn, jobs, serverVars, links, countVars, faults>>

\* mutant
LeavesFile == files
TakesBack == files \ {call.id}

\* sudo needs a password and none was given, or it does not take this one.
Refused ==
    /\ call # None /\ call.at = "run" /\ conn.up
    /\ conn.sudo = "password"
    /\ files' = TakesBack
    /\ Answered(call.chan, "same")
    /\ UNCHANGED <<conn, jobs, serverVars, links, countVars, faults>>

Running == {i \in Ids : jobs[i] # None}

Launch ==
    /\ call # None /\ call.at = "run" /\ conn.up
    /\ jobs' = [jobs EXCEPT ![call.id] =
          [kind |-> call.kind, chan |-> call.chan, kit |-> call.kit, at |-> "new", made |-> {},
           script |-> conn.script, before |-> None, ok |-> FALSE]]
    /\ call' = [call EXCEPT !.at = "wait"]
    /\ crossed' = (crossed \/ Running # {})
    /\ UNCHANGED <<scene, conn, files, serverVars, mine, links, asked, connects, faults, lost>>

\* The connection goes: what was asked for may still happen.
Lose ==
    /\ conn # None /\ conn.up /\ Fault
    /\ conn' = [conn EXCEPT !.up = FALSE]
    /\ lost' = lost + 1
    /\ IF call # None /\ call.at \in {"run", "wait"}
       THEN Answered(call.chan, IF call.at = "wait" THEN "unsure" ELSE "same")
       ELSE UNCHANGED <<call, mine>>
    /\ UNCHANGED <<scene, files, jobs, serverVars, links, asked, connects, crossed>>

\* What the wizard is told when the installer it waits for is done.
Word(job) ==
    CASE job.ok /\ job.kind = "apply" -> "here"
      [] job.ok /\ job.kind = "remove" -> "none"
      [] OTHER -> "same"

\* The app makes the link of a channel it has installed or been shown.
LinkMade(job) ==
    IF ~job.ok THEN {}
    ELSE IF job.kind = "apply" THEN {SessionContext(job.kit)}
    ELSE IF job.kind \in {"set", "show"} /\ node[job.chan].conf # None THEN {NodeContext(job.chan)}
    ELSE {}

Done(i) ==
    /\ jobs[i] # None /\ jobs[i].at = "done"
    /\ LET job == jobs[i] IN
       /\ IF call # None /\ call.id = i
          THEN /\ Answered(job.chan, Word(job))
               /\ links' = [links EXCEPT ![job.chan] = @ \cup LinkMade(job)]
          ELSE UNCHANGED <<call, mine, links>>
       /\ jobs' = [jobs EXCEPT ![i] = None]
    /\ UNCHANGED <<conn, files, serverVars, countVars, faults>>

-----------------------------------------------------------------------------
\* node-install.sh

At(i, kind, step) == jobs[i] # None /\ jobs[i].kind = kind /\ jobs[i].at = step
To(i, step) == jobs' = [jobs EXCEPT ![i].at = step]
Ends(i, ok) == jobs' = [jobs EXCEPT ![i].at = "done", ![i].ok = ok]
Chan(i) == jobs[i].chan
Here(c) == node[c].conf # None
onServer == <<conn, call, mine, links, countVars>> \* left alone by it

\* read_config and the checks: a channel must not be there, or must.
Read(i) ==
    /\ jobs[i] # None /\ jobs[i].at = "new"
    /\ files' = files \ {i}
    /\ LET fits == Here(Chan(i)) <=> jobs[i].kind # "apply" IN
       jobs' = [jobs EXCEPT ![i].at = IF fits THEN "read" ELSE "done", ![i].before = node[Chan(i)].conf]
    /\ UNCHANGED <<onServer, serverVars, faults>>

\* rollback: what this run made, and nothing else.
Without(made, c) == IF "conf" \in made THEN [node EXCEPT ![c] = NoChannel] ELSE node
\* mutant
LeavesConf(i) == node' = node /\ base' = base
Undo(i) ==
    /\ node' = Without(jobs[i].made, Chan(i))
    /\ base' = (base /\ "base" \notin jobs[i].made)

ApplyFails(i) ==
    /\ jobs[i] # None /\ jobs[i].kind = "apply" /\ jobs[i].at \in {"read", "conf", "started"}
    /\ Fault
    /\ Undo(i) /\ Ends(i, FALSE)
    /\ UNCHANGED <<onServer, files>>

\* install_core, the user, the unit.
ApplyBase(i) ==
    /\ At(i, "apply", "read")
    /\ base' = TRUE
    /\ jobs' = [jobs EXCEPT ![i].at = "base", ![i].made = IF base THEN @ ELSE @ \cup {"base"}]
    /\ UNCHANGED <<onServer, files, node, faults>>

\* mkdir: somebody else may have been here since the checks.
ApplyConf(i) ==
    /\ At(i, "apply", "base")
    /\ IF Here(Chan(i))
       THEN Undo(i) /\ Ends(i, FALSE) /\ UNCHANGED links
       ELSE /\ links' = [links EXCEPT ![Chan(i)] = {}]
            /\ node' = [node EXCEPT ![Chan(i)] =
                  [conf |-> jobs[i].kit, context |-> Line(SessionContext(jobs[i].kit)), prev |-> None, runs |-> None]]
            /\ jobs' = [jobs EXCEPT ![i].at = "conf", ![i].made = @ \cup {"conf"}]
            /\ UNCHANGED base
    /\ UNCHANGED <<conn, call, mine, countVars, files, faults>>

\* l3_ready ends the script where it stands: nothing is taken back.
ApplyNotReady(i) ==
    /\ At(i, "apply", "conf") /\ Fault
    /\ jobs' = [jobs EXCEPT ![i].at = "done", ![i].before = node[Chan(i)].conf]
    /\ UNCHANGED <<onServer, files, serverVars>>

\* A unit starts on the file it finds, with the core.
Starts(n) == IF base /\ n.conf # None THEN [n EXCEPT !.runs = n.conf] ELSE [n EXCEPT !.runs = None]

ApplyStart(i) ==
    /\ At(i, "apply", "conf")
    /\ node' = [node EXCEPT ![Chan(i)] = Starts(@)]
    /\ To(i, "started")
    /\ UNCHANGED <<onServer, files, base, faults>>

\* Four seconds later.
ApplyLooks(i) ==
    /\ At(i, "apply", "started")
    /\ IF node[Chan(i)].runs # None
       THEN Ends(i, TRUE) /\ UNCHANGED serverVars
       ELSE Undo(i) /\ Ends(i, FALSE)
    /\ UNCHANGED <<onServer, files, faults>>

\* mutant
Renewed(i) == Line(SessionContext(jobs[i].kit))
Kept(i) == node[Chan(i)].context

\* The new node.conf in the place of the old one, which is kept beside it.
SetSwap(i) ==
    /\ At(i, "set", "read")
    /\ LET n == node[Chan(i)] IN
       IF Here(Chan(i))
       THEN /\ node' = [node EXCEPT ![Chan(i)] =
                  [n EXCEPT !.conf = jobs[i].kit, !.context = Kept(i), !.prev = [conf |-> n.conf, context |-> n.context]]]
            /\ To(i, "swapped")
       ELSE UNCHANGED node /\ Ends(i, FALSE)
    /\ UNCHANGED <<onServer, files, base, faults>>

\* The sign-in cannot be written: the script ends where it stands.
SetNoCookies(i) ==
    /\ At(i, "set", "swapped") /\ Fault
    /\ jobs' = [jobs EXCEPT ![i].at = "done", ![i].before = node[Chan(i)].conf]
    /\ UNCHANGED <<onServer, files, serverVars>>

\* mutant
NewStays(n) == [n EXCEPT !.prev = None]
\* set_transports_rollback
PutBack(n) ==
    IF n.prev = None THEN n ELSE [n EXCEPT !.conf = n.prev.conf, !.context = n.prev.context, !.prev = None]

SetRestart(i, comesUp) ==
    /\ At(i, "set", "swapped")
    /\ IF comesUp THEN UNCHANGED faults ELSE Fault
    /\ IF comesUp /\ base /\ Here(Chan(i))
       THEN node' = [node EXCEPT ![Chan(i)] = [Starts(@) EXCEPT !.prev = None]] /\ Ends(i, TRUE)
       ELSE node' = [node EXCEPT ![Chan(i)] = Starts(PutBack(@))] /\ Ends(i, FALSE)
    /\ UNCHANGED <<onServer, files, base>>

\* The sign-in is written, and the node restarted.
SetCookies(i, kept) ==
    /\ At(i, "cookies", "read")
    /\ IF kept
       THEN /\ node' = [node EXCEPT ![Chan(i)] = Starts(@)]
            /\ Ends(i, Here(Chan(i)) /\ base) /\ UNCHANGED faults
       ELSE Fault /\ Ends(i, FALSE) /\ UNCHANGED node
    /\ UNCHANGED <<onServer, files, base>>

Show(i) ==
    /\ At(i, "show", "read")
    /\ Ends(i, Here(Chan(i)))
    /\ UNCHANGED <<onServer, files, serverVars, faults>>

RemoveChannel(i) ==
    /\ At(i, "remove", "read")
    /\ node' = [node EXCEPT ![Chan(i)] = NoChannel]
    /\ To(i, "removed")
    /\ UNCHANGED <<onServer, files, base, faults>>

\* mutant
AlwaysLast == TRUE
NoneListed == \A c \in Channels : ~Here(c)

RemoveLists(i) ==
    /\ At(i, "remove", "removed")
    /\ IF NoneListed THEN To(i, "last") ELSE Ends(i, TRUE)
    /\ UNCHANGED <<onServer, files, serverVars, faults>>

\* remove_everything: what runs goes on running.
RemoveEverything(i) ==
    /\ At(i, "remove", "last")
    /\ base' = FALSE
    /\ node' = [c \in Channels |-> [NoChannel EXCEPT !.runs = node[c].runs]]
    /\ Ends(i, TRUE)
    /\ UNCHANGED <<onServer, files, faults>>

-----------------------------------------------------------------------------
Asked ==
    \/ ConnectFails \/ Disconnect
    \/ \E s \in Sudos, script \in {"pinned", "other"} : Connect(s, script)
    \/ \E c \in scene.chans :
         \/ \E kit \in scene.kits, k \in scene.kinds \cap {"apply", "set"} : Ask(k, c, kit)
         \/ \E k \in scene.kinds \cap {"cookies", "show", "remove"} : Ask(k, c, {})

Wizard == Probe \/ Write \/ Refused \/ Launch \/ \E i \in Ids : Done(i)

Runs(i) ==
    \/ Read(i)
    \/ ApplyBase(i) \/ ApplyConf(i) \/ ApplyStart(i) \/ ApplyLooks(i)
    \/ SetSwap(i) \/ SetRestart(i, TRUE) \/ SetCookies(i, TRUE)
    \/ Show(i) \/ RemoveChannel(i) \/ RemoveLists(i) \/ RemoveEverything(i)

Goes(i) ==
    \/ Runs(i)
    \/ ApplyFails(i) \/ ApplyNotReady(i)
    \/ SetNoCookies(i) \/ SetRestart(i, FALSE) \/ SetCookies(i, FALSE)

Next == Asked \/ Wizard \/ Lose \/ \E i \in Ids : Goes(i)

Scheduled == WF_installVars(Wizard) /\ \A i \in Ids : WF_installVars(Runs(i))

Spec == Init /\ [][Next]_installVars /\ Scheduled

-----------------------------------------------------------------------------
\* The shape of the state.
TypeOK ==
    /\ conn # None => conn.sudo \in Sudos /\ conn.script \in {"pinned", "other"}
    /\ call # None => call.id = asked /\ call.at \in {"write", "run", "wait"}
    /\ files \subseteq 1..asked /\ Running \subseteq 1..asked
    /\ \A c \in Channels : /\ mine[c] \in {"none", "here", "unsure"}
                           /\ node[c].conf = None => node[c].prev = None
    /\ base \in BOOLEAN /\ crossed \in BOOLEAN
    /\ asked <= MaxCommands /\ connects <= MaxConnects /\ faults <= MaxFaults /\ lost <= faults

\* A channel's key and sign-in do not stay in the server's /tmp once its
\* command is answered, whatever came of it; only a lost connection leaves
\* the one file that was being handed over (provision.go:475-522).
NoSecretLeft == Idle /\ Running = {} => Cardinality(files) <= lost

\* Nothing runs as root but the script whose hash the app was built with, on
\* every path through connect (node_wizard.go:288-326).
OnlyPinned == \A i \in Running : jobs[i].script = "pinned"

\* A channel whose install was acknowledged runs, whatever is done to the
\* others, until its removal is asked for (node-install.sh:872-1009). Two
\* installers at once, after a lost connection, can break it.
StaysUp ==
    \A c \in Channels :
      mine[c] = "here" /\ ~crossed /\ lost = 0 /\ (\A i \in Running : Chan(i) # c)
        => Here(c) /\ node[c].runs # None

\* A link the wizard made opens the channel by its first context, however
\* its documents are changed afterwards (node-install.sh:1208-1210): of a
\* channel that was made with a document.
LinksKept ==
    \A c \in Channels :
      Here(c) /\ node[c].context # None /\ ~crossed => links[c] \subseteq {node[c].context}

\* A command that fails leaves the channel's configuration as it found it,
\* but where the installer ends without its rollback (node-install.sh:536).
AsBefore ==
    [][\A i \in Ids :
         jobs'[i] # None /\ jobs'[i].at = "done" /\ ~jobs'[i].ok /\ ~crossed
           => node'[Chan(i)].conf = jobs'[i].before]_installVars

\* Every command is answered, though its installer fails or the line goes.
Serving == call # None
CommandsEnd == []<>~Serving
\* The invariant that makes the properties of a state inductive.
Kits == SUBSET ToSet(ByPriority)
Contexts == {None} \cup {SessionContext(k) : k \in Kits}
Steps == {"new", "read", "base", "conf", "started", "swapped", "removed", "last", "done"}
Kinds == {"apply", "set", "cookies", "show", "remove"}
Conns == [sudo : Sudos, script : {"pinned", "other"}, up : BOOLEAN, probed : BOOLEAN]
Calls == [id : Ids, kind : Kinds, chan : Channels, kit : Kits, at : {"write", "run", "wait"}]
Jobs == [kind : Kinds, chan : Channels, kit : Kits, at : Steps, made : SUBSET {"base", "conf"},
         script : {"pinned"}, before : {None} \cup Kits, ok : BOOLEAN]
Had == [conf : {None} \cup Kits, context : Contexts]
Nodes == [conf : {None} \cup Kits, context : Contexts, prev : {None} \cup Had, runs : {None} \cup Kits]

Shape ==
    /\ scene \in Scenes
    /\ conn \in {None} \cup Conns /\ call \in {None} \cup Calls
    /\ asked \in 0..MaxCommands /\ connects \in 0..MaxConnects
    /\ faults \in 0..MaxFaults /\ lost \in 0..faults
    /\ files \subseteq 1..asked
    /\ jobs \in [Ids -> {None} \cup Jobs] /\ Running \subseteq 1..asked
    /\ node \in [Channels -> Nodes] /\ base \in BOOLEAN /\ crossed \in BOOLEAN
    /\ mine \in [Channels -> {"none", "here", "unsure"}] /\ DOMAIN links = Channels
    /\ \A c \in Channels : ~Here(c) => node[c].prev = None

\* Only a probed connection, so one whose script is the pinned one, is asked; what is
\* not launched yet does not run; an installer nobody waits for is one whose line was lost.
Asking ==
    /\ conn # None /\ conn.probed => conn.script = "pinned"
    /\ call # None => conn # None /\ conn.probed /\ call.id = asked
    /\ call # None /\ call.at # "wait" => jobs[asked] = None
    /\ call # None /\ call.at = "write" => asked \notin files
    /\ lost = 0 => \A i \in Running : call # None /\ call.at = "wait" /\ i = call.id
    /\ ~crossed => \A i, k \in Running : i = k

\* A file that neither the wizard nor an installer is about to take away was given up
\* with a lost line.
Handing(i) ==
    \/ call # None /\ call.at = "run" /\ call.id = i
    \/ jobs[i] # None /\ jobs[i].at = "new"
Orphans == {i \in files : ~Handing(i)}
Orphaned == Cardinality(Orphans) <= lost

\* What an installer that runs alone has made of the server so far.
Based(j) == "base" \in j.made => \A c \in Channels : c # j.chan => ~Here(c)
Applying(j) ==
    /\ j.at \in {"new", "read"} => j.made = {}
    /\ j.at = "read" => ~Here(j.chan)
    /\ j.at = "base" => ~Here(j.chan) /\ base /\ j.made \subseteq {"base"} /\ Based(j)
    /\ j.at \in {"conf", "started"} =>
        /\ Here(j.chan) /\ base /\ "conf" \in j.made /\ Based(j)
        /\ node[j.chan].context = Line(SessionContext(j.kit))
    /\ j.at = "started" => node[j.chan].runs # None
    /\ j.at = "done" /\ j.ok =>
        /\ Here(j.chan) /\ node[j.chan].runs # None
        /\ node[j.chan].context = Line(SessionContext(j.kit))
Setting(j) ==
    j.at = "swapped" =>
        /\ Here(j.chan) /\ node[j.chan].prev # None
        /\ node[j.chan].prev.conf # None /\ node[j.chan].prev.context = node[j.chan].context
Removing(j) ==
    /\ j.at \in {"removed", "last"} => ~Here(j.chan)
    /\ j.at = "last" => NoneListed
StepsOf(kind) ==
    {"new", "read", "done"} \cup
    CASE kind = "apply" -> {"base", "conf", "started"}
      [] kind = "set" -> {"swapped"}
      [] kind = "remove" -> {"removed", "last"}
      [] OTHER -> {}
Doing(j) ==
    /\ j.kind = "apply" => Applying(j)
    /\ j.kind = "set" => Setting(j)
    /\ j.kind = "remove" => Removing(j)
Alone ==
    /\ \A i \in Running : jobs[i].at \in StepsOf(jobs[i].kind) /\ (jobs[i].at # "done" => ~jobs[i].ok)
    /\ ~crossed =>
        /\ \A i \in Running : Doing(jobs[i])
        /\ \A c \in Channels : Here(c) => base

\* A channel the wizard was told is there runs, but while it is being removed; one
\* that is being installed it was not told of.
Leaves(j) == j.kind = "remove" /\ (j.at \in {"removed", "last"} \/ (j.at = "done" /\ j.ok))
Removed(c) == \E i \in Running : jobs[i].chan = c /\ Leaves(jobs[i])
Told ==
    ~crossed /\ lost = 0 =>
        /\ \A c \in Channels : mine[c] = "here" /\ ~Removed(c) => Here(c) /\ node[c].runs # None
        /\ \A i \in Running :
             jobs[i].kind = "apply" /\ jobs[i].at \in {"base", "conf", "started"} => mine[jobs[i].chan] # "here"

IInv == Shape /\ Asking /\ Orphaned /\ Alone /\ Told /\ LinksKept
====
