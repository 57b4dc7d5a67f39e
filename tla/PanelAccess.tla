------------------------------ MODULE PanelAccess ------------------------------
\* The panel's settings and who may change them: HTTP requests, each with
\* the settings it saw when it began (server.go, request_security.go,
\* legacy_api.go), the sessions (auth.go), the files (settings.go,
\* credentials.go), the listener a change moves (internal/hosting) and the
\* certificate that is had for a domain in the background
\* (domain_setup.go).
\*
\* Passwords and secret paths are numbers: a request that sets one sets a
\* new one. Files, ports and the issuer of certificates may fail, and the
\* panel may be killed.
EXTENDS Naturals, FiniteSets

CONSTANTS
    Scenes,         \* what the requests of one run are: request -> kind
    Requests,       \* a subset of Nat \ {0}
    SamePort,       \* whether a new address has the old one's port
    MaxCrashes,     \* a bound
    None

VARIABLES
    scene, samePort,
    settings,       \* Server.settings: [account, path, net, lang]
    disk, cred,     \* settings.json, and the account of .credentials
    split,          \* .credentials could not be put back
    tokens,         \* Auth.tokens, with what they were had for
    req,            \* request -> where it is, and what it saw
    lock,           \* Server.mu
    job, jobLock, issuer,       \* domainSetup, its lock, the job being issued
    listening, stranded,        \* hosting.Server; an address that could not be had back
    gone,           \* accounts and paths that were replaced
    crashes

settingVars == <<settings, disk, cred, split, gone>>
jobVars == <<job, jobLock, issuer>>
hostVars == <<listening, stranded>>
accessVars == <<scene, samePort, settingVars, tokens, req, lock, jobVars, hostVars, crashes>>
fixed == <<scene, samePort, crashes>>

First == [account |-> 0, path |-> 0, net |-> [listen |-> 0, tls |-> FALSE], lang |-> 0]
NoJob == [id |-> 0, state |-> "none", previous |-> None, next |-> None]
Fresh == [at |-> "new", seen |-> None, next |-> None, was |-> None]

Init ==
    /\ scene \in Scenes /\ samePort \in SamePort
    /\ settings = First /\ disk = First /\ cred = 0 /\ split = FALSE
    /\ tokens = {[by |-> 0, account |-> 0, path |-> 0]}
    /\ req = [r \in Requests |-> Fresh]
    /\ lock = None
    /\ job = NoJob /\ jobLock = None /\ issuer = [at |-> "idle", id |-> 0]
    /\ listening = First.net /\ stranded = FALSE
    /\ gone = [account |-> {}, path |-> {}]
    /\ crashes = 0

Kind(r) == scene[r]
Login(r) == Kind(r) = "login"
To(r, at) == req' = [req EXCEPT ![r].at = at]

-----------------------------------------------------------------------------
\* A request begins

reqRest == <<fixed, settingVars, tokens, lock, jobVars, hostVars>>

\* serveHTTP takes the settings of this moment.
Begin(r) ==
    /\ r \in DOMAIN scene /\ req[r].at = "new" /\ lock = None /\ listening # None
    /\ req' = [req EXCEPT ![r] = [@ EXCEPT !.at = "seen", !.seen = settings]]
    /\ UNCHANGED reqRest

\* The first session's, or one that a login of this run got.
HasToken(r) == \E t \in tokens : t.by # r

\* Without a session it is turned away; the body is read after that.
Route(r) ==
    /\ req[r].at = "seen"
    /\ To(r, IF Login(r) \/ HasToken(r) THEN "read" ELSE "refused")
    /\ UNCHANGED reqRest

\* mutant
AsSeen(r, account) == account = req[r].seen.account
\* login: what is right is what is right now.
Admits(r, account) == account = settings.account /\ req[r].seen.path = settings.path

LogsIn(r, account) ==
    /\ req[r].at = "read" /\ Login(r) /\ lock = None
    /\ IF Admits(r, account)
       THEN tokens' = tokens \cup {[by |-> r, account |-> account, path |-> req[r].seen.path]} /\ To(r, "ok")
       ELSE tokens' = tokens /\ To(r, "refused")
    /\ UNCHANGED <<fixed, settingVars, lock, jobVars, hostVars>>

LogsOut(r) ==
    /\ req[r].at = "read" /\ Kind(r) = "logout"
    /\ tokens' \in {tokens \ {t} : t \in tokens} \cup {x \in {tokens} : x = {}}
    /\ To(r, "ok")
    /\ UNCHANGED <<fixed, settingVars, lock, jobVars, hostVars>>

-----------------------------------------------------------------------------
\* A change of the settings

Changed(r) ==
    LET s == req[r].seen IN
    CASE Kind(r) = "account" -> [s EXCEPT !.account = r]
      [] Kind(r) = "path" -> [s EXCEPT !.path = r]
      [] Kind(r) = "lang" -> [s EXCEPT !.lang = r]
      [] OTHER -> [s EXCEPT !.net = [listen |-> r, tls |-> FALSE]]

\* mutant
AsItCame(r) == TRUE
\* saveAuthenticatedSettings: nothing has changed, and the session still stands.
StillRight(r) == req[r].seen = settings /\ HasToken(r)

\* saveNetworkSettings: the addresses have not, the rest is kept as it is now.
Merged(next) == [settings EXCEPT !.net = next.net]

\* What is to be saved, None when the request is refused.
Wanted(r) ==
    CASE Kind(r) = "complete" -> IF job.previous.net = settings.net THEN Merged(job.next) ELSE None
      [] Kind(r) = "place" -> IF req[r].seen.net = settings.net THEN Merged(Changed(r)) ELSE None
      [] OTHER -> IF StillRight(r) THEN Changed(r) ELSE None

Saves(r) == Kind(r) \in {"account", "path", "lang", "place", "complete"}

\* completeDomainSetup has the job's lock, and keeps it to its end.
HoldsJob(r) ==
    /\ req[r].at = "read" /\ Kind(r) = "complete" /\ jobLock = None
    /\ IF job.state = "ready" THEN jobLock' = r /\ To(r, "holds") ELSE jobLock' = None /\ To(r, "refused")
    /\ UNCHANGED <<fixed, settingVars, tokens, lock, job, issuer, hostVars>>

Ready(r) == req[r].at = IF Kind(r) = "complete" THEN "holds" ELSE "read"

\* mutant
StaysHeld(r) == jobLock
Freed(r) == IF jobLock = r THEN None ELSE jobLock

\* The answer, and the job's state with it.
Answer(r, ok, new) ==
    /\ req' = [req EXCEPT ![r] = [new EXCEPT !.at = IF ok THEN "ok" ELSE "refused"]]
    /\ lock' = None
    /\ jobLock' = Freed(r)
    /\ job' = IF jobLock = r THEN [job EXCEPT !.state = IF ok THEN "applied" ELSE "failed"] ELSE job
    /\ UNCHANGED issuer

Takes(r) ==
    /\ Saves(r) /\ Ready(r) /\ lock = None
    /\ IF Wanted(r) = None THEN Answer(r, FALSE, req[r])
       ELSE /\ lock' = r
            /\ req' = [req EXCEPT ![r] = [@ EXCEPT !.next = Wanted(r), !.was = settings,
                                                   !.at = IF Wanted(r).net # settings.net THEN "apply" ELSE "write"]]
            /\ UNCHANGED jobVars
    /\ UNCHANGED <<fixed, settingVars, tokens, hostVars>>

\* hosting.Apply: another port is had before the old one is let go; the same one
\* has to be let go first, and may not be had back.
Applies(r, ok) ==
    /\ req[r].at = "apply"
    /\ IF ok THEN /\ listening' = req[r].next.net /\ stranded' = FALSE
                  /\ To(r, "write") /\ UNCHANGED <<lock, jobVars>>
       ELSE /\ \/ UNCHANGED hostVars
               \/ samePort /\ listening' = None /\ stranded' = TRUE
            /\ Answer(r, FALSE, req[r])
    /\ UNCHANGED <<fixed, settingVars, tokens>>

\* mutant
StaysThere(r) == {req[r].next.net}
\* What is listened on when a save has failed: the old address, if it can be had.
UndoneTo(r) == {req[r].was.net, None}

Undo(r) ==
    IF req[r].next.net = settings.net THEN UNCHANGED hostVars
    ELSE listening' \in UndoneTo(r) /\ stranded' = (listening' = None)

Account(r) == Kind(r) = "account"

\* The password's file is first.
WritesPassword(r, ok) ==
    /\ req[r].at = "write" /\ Account(r)
    /\ IF ok THEN cred' = req[r].next.account /\ To(r, "file") /\ UNCHANGED <<lock, jobVars, hostVars>>
       ELSE cred' = cred /\ Undo(r) /\ Answer(r, FALSE, req[r])
    /\ UNCHANGED <<fixed, settings, disk, split, gone, tokens>>

\* mutant
LeavesNew(old) == cred
\* The password's file as it was, if it can be written.
PutBack(old) == old

WritesSettings(r, ok) ==
    /\ req[r].at = IF Account(r) THEN "file" ELSE "write"
    /\ IF ok THEN /\ disk' = req[r].next /\ To(r, "set")
                  /\ UNCHANGED <<cred, split, lock, jobVars, hostVars>>
       ELSE /\ IF Account(r)
               THEN \E back \in BOOLEAN : /\ cred' = IF back THEN PutBack(req[r].was.account) ELSE cred
                                          /\ split' = (split \/ ~back)
               ELSE UNCHANGED <<cred, split>>
            /\ disk' = disk /\ Undo(r) /\ Answer(r, FALSE, req[r])
    /\ UNCHANGED <<fixed, settings, gone, tokens>>

Sets(r) ==
    /\ req[r].at = "set"
    /\ settings' = req[r].next
    /\ gone' = [account |-> gone.account \cup ({settings.account} \ {req[r].next.account}),
                path |-> gone.path \cup ({settings.path} \ {req[r].next.path})]
    /\ split' = (split /\ ~Account(r))
    /\ To(r, "clear")
    /\ UNCHANGED <<fixed, disk, cred, tokens, lock, jobVars, hostVars>>

\* mutant
PathsOnly(r) == req[r].was.path # req[r].next.path
\* The sessions end with the password and with the path they were had for.
EndsSessions(r) == req[r].was.account # req[r].next.account \/ req[r].was.path # req[r].next.path

Clears(r) ==
    /\ req[r].at = "clear"
    /\ tokens' = IF EndsSessions(r) THEN {} ELSE tokens
    /\ Answer(r, TRUE, req[r])
    /\ UNCHANGED <<fixed, settingVars, hostVars>>

-----------------------------------------------------------------------------
\* A certificate for a domain

jobRest == <<fixed, settingVars, tokens, lock, hostVars>>

\* mutant
NeverBusy == FALSE
\* One at a time, until it is put in force.
Busy == job.state \in {"issuing", "ready"}

\* A placement whose certificate has still to be had.
AsksJob(r) ==
    /\ req[r].at = "read" /\ Kind(r) = "domain" /\ jobLock = None
    /\ IF Busy THEN UNCHANGED job /\ To(r, "refused")
       ELSE /\ job' = [id |-> r, state |-> "issuing", previous |-> req[r].seen,
                       next |-> [req[r].seen EXCEPT !.net = [listen |-> r, tls |-> FALSE]]]
            /\ To(r, "ok")
    /\ UNCHANGED <<jobRest, jobLock, issuer>>

\* A placement that was saved without one clears a job that is not being issued.
ClearsJob(r) ==
    /\ req[r].at = "ok" /\ Kind(r) = "place" /\ jobLock = None
    /\ job' = IF job.state = "issuing" THEN job ELSE NoJob
    /\ To(r, "done")
    /\ UNCHANGED <<jobRest, jobLock, issuer>>

IssuerTakes ==
    /\ issuer.at = "idle" /\ job.state = "issuing"
    /\ issuer' = [at |-> "issues", id |-> job.id]
    /\ UNCHANGED <<jobRest, req, job, jobLock>>

\* It has the certificate, or three minutes are over.
Issued(ok) ==
    /\ issuer.at = "issues" /\ jobLock = None
    /\ job' = IF ok THEN [job EXCEPT !.state = "ready", !.next.net.tls = TRUE] ELSE [job EXCEPT !.state = "failed"]
    /\ issuer' = [at |-> "idle", id |-> 0]
    /\ UNCHANGED <<jobRest, req, jobLock>>

-----------------------------------------------------------------------------

\* The panel is killed, and starts from its files.
Crash ==
    /\ crashes < MaxCrashes /\ crashes' = crashes + 1
    /\ settings' = disk /\ listening' = disk.net /\ stranded' = FALSE
    /\ gone' = [account |-> gone.account \cup ({settings.account} \ {disk.account}),
                path |-> gone.path \cup ({settings.path} \ {disk.path})]
    /\ split' = (split \/ cred # disk.account)
    /\ tokens' = {} /\ lock' = None
    /\ req' = [r \in Requests |-> IF req[r].at \in {"new", "ok", "done", "refused"} THEN req[r] ELSE [req[r] EXCEPT !.at = "lost"]]
    /\ job' = NoJob /\ jobLock' = None /\ issuer' = [at |-> "idle", id |-> 0]
    /\ UNCHANGED <<scene, samePort, disk, cred>>

Step(r) ==
    \/ Route(r) \/ LogsOut(r) \/ HoldsJob(r) \/ Takes(r) \/ Sets(r) \/ Clears(r) \/ AsksJob(r) \/ ClearsJob(r)
    \/ \E a \in {0} \cup Requests : LogsIn(r, a)
    \/ \E ok \in BOOLEAN : Applies(r, ok) \/ WritesPassword(r, ok) \/ WritesSettings(r, ok)

IssuerStep == IssuerTakes \/ \E ok \in BOOLEAN : Issued(ok)

Next == Crash \/ IssuerStep \/ \E r \in Requests : Begin(r) \/ Step(r)

\* A request that has begun goes on, and a certificate comes or does not.
Scheduled == WF_accessVars(IssuerStep) /\ \A r \in Requests : WF_accessVars(Step(r))

Spec == Init /\ [][Next]_accessVars /\ Scheduled

-----------------------------------------------------------------------------

TypeOK ==
    /\ lock \in {None} \cup Requests /\ jobLock \in {None} \cup Requests
    /\ job.state \in {"none", "issuing", "ready", "applied", "failed"}
    /\ \A r \in Requests : req[r].at \in {"new", "seen", "read", "holds", "apply", "write", "file", "set", "clear",
                                          "ok", "done", "refused", "lost"}

\* A session stands for the account and the path there are, whatever a slow login or
\* a change in between did.
SessionsCurrent == lock = None => \A t \in tokens : t.account = settings.account /\ t.path = settings.path

\* A password or a path that was replaced does not come back with a request that
\* began before.
NeverBack == settings.account \notin gone.account /\ settings.path \notin gone.path

\* What is in force is what is on the disk, and the password that is shown is the
\* one that is asked for.
FilesTrue == lock = None => disk = settings /\ (cred = settings.account \/ split)

\* The panel listens where the settings say.
ListensThere == lock = None => listening = settings.net \/ stranded

\* The job being issued is the one that is shown, and what is
\* ready has its certificate.
JobHonest ==
    /\ issuer.at = "issues" => job.state = "issuing" /\ job.id = issuer.id
    /\ job.state = "ready" => job.next.net.tls

AccessKept == SessionsCurrent /\ NeverBack /\ FilesTrue /\ ListensThere /\ JobHonest

\* A request that was begun has no answer, or a certificate is being had.
Unanswered ==
    \/ job.state = "issuing"
    \/ \E r \in Requests : req[r].at \in {"seen", "read", "holds", "apply", "write", "file", "set", "clear"}

\* None of that lasts: no two locks are waited for in a ring.
Served == []<>~Unanswered

-----------------------------------------------------------------------------
\* What holds at every step of the request that has the settings: the
\* inductive invariant.

Numbers == {0} \cup Requests
Settings == [account : Numbers, path : Numbers, net : [listen : Numbers, tls : BOOLEAN], lang : Numbers]
Early == {"new", "seen", "read", "holds"}
Holding == {"apply", "write", "file", "set", "clear"}
Ends == {"ok", "done", "refused", "lost"}

Typed ==
    /\ settings \in Settings /\ disk \in Settings /\ cred \in Numbers /\ split \in BOOLEAN
    /\ req \in [Requests -> [at : Early \cup Holding \cup Ends, seen : Settings \cup {None},
                             next : Settings \cup {None}, was : Settings \cup {None}]]
    /\ \A r \in Requests : req[r].at \in (Early \cup Holding) \ {"new"} => req[r].seen \in Settings
    /\ stranded \in BOOLEAN
    /\ lock \in {None} \cup Requests

Current(s) == \A t \in tokens : t.account = s.account /\ t.path = s.path
Listens(s) == listening = s.net \/ stranded
Kept(s) == disk = s /\ (cred = s.account \/ split)

\* What is there while nobody changes the settings.
AtRest == lock = None => Current(settings) /\ Listens(settings) /\ Kept(settings)

\* How far the request that changes them has come.
Changing(r) ==
    LET next == req[r].next
        at == req[r].at
    IN  /\ next \in Settings /\ req[r].was \in Settings
        /\ at # "clear" =>
             /\ req[r].was = settings /\ Current(settings)
             /\ next.account = IF Account(r) THEN r ELSE settings.account
             /\ next.path \in {settings.path, r}
        /\ at \in {"apply", "write"} => Kept(settings)
        /\ at = "file" => Account(r) /\ disk = settings /\ cred = next.account
        /\ at = "set" => disk = next /\ (cred = next.account \/ (~Account(r) /\ split))
        /\ at = "clear" => settings = next /\ Kept(next) /\ Current(req[r].was)
        /\ IF at = "apply" THEN Listens(settings) ELSE Listens(next)
Changes == \A r \in Requests : (req[r].at \in Holding <=> lock = r) /\ (lock = r => Changing(r))

\* What a request may still set was never set.
Unused(r) == r \notin gone.account \cup gone.path /\ settings.account # r /\ settings.path # r
News == \A r \in Requests : req[r].at \in (Early \cup Holding) \ {"clear"} => Unused(r)

\* The job is nobody else's while a request completes it.
Jobs ==
    /\ job.state \in {"none", "issuing", "ready", "applied", "failed"}
    /\ job \in [id : Numbers, state : {"none", "issuing", "ready", "applied", "failed"},
                previous : Settings \cup {None}, next : Settings \cup {None}]
    /\ job.state \in {"issuing", "ready"} => job.next \in Settings
    /\ issuer \in [at : {"idle", "issues"}, id : Numbers]
    /\ jobLock \in {None} \cup Requests
    /\ jobLock # None => job.state = "ready"
    /\ \A r \in Requests : req[r].at = "holds" => Kind(r) = "complete" /\ jobLock = r

IInv == Typed /\ AtRest /\ Changes /\ News /\ Jobs /\ NeverBack /\ JobHonest
=============================================================================
