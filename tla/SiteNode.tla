-------------------------------- MODULE SiteNode --------------------------------
\* The exit on an ordinary web host (Core/provision/phphost): the app asks
\* for one step at a time. FTP steps (ftp.go) log in with the best TLS the
\* host has, find the web folder, upload the node's files with its token
\* last, or delete them; site steps (site.go, resolve.go) ask the site for
\* the node over every address and scheme it may be at, start it and stop
\* it.
\*
\* The files are three: the node's own ("lib"), one a node runs without
\* ("parser") and config.php, which holds the token. A scheme is not told
\* apart from an address: a candidate is one pair of them. The answers of
\* one question (getValid) are taken together.
EXTENDS Naturals, Sequences, FiniteSets, FiniteSetsExt

CONSTANTS
    Accounts,   \* the hosts a behaviour may be about: see Init
    Sites,      \* what is behind each candidate, in the order they are asked
    UploadTries,      \* uploadTries
    TlsTries,   \* tlsTriesOnFile
    MaxPolls,   \* questions Start asks before its deadline (a bound)
    MaxCalls,   \* steps the app asks for (a bound)
    MaxFaults,  \* transfers, logins and answers that fail once (a bound)
    None

VARIABLES
    acct,     \* the FTP host: how good its TLS is, and what it will not take; and what
              \* steps are asked for
    web,      \* the files whole in the web folder, and config.php
    whole,    \* a whole node has been there
    behind,   \* what is behind each candidate: "node", "other", "dead"
    up,       \* candidate -> the node of that server: "none", "starting", "running"
    pin,      \* the candidate that answered as the node when others did not
    call,     \* the step being done, or None
    open,     \* FTP connections open
    clear,    \* the password has crossed in the clear in this step
    result,   \* the answer of the last step
    calls, faults

siteVars == <<acct, web, whole, behind, up, pin, call, open, clear, result, calls, faults>>
ftpVars == <<acct, web, whole, open, clear>>
httpVars == <<behind, up, pin>>

Files == <<"lib", "parser", "config">>
\* A token the app chose, one that was made, and what is no token.
Tokens == {"asked", "made"}

Init ==
    /\ acct \in Accounts
    /\ behind \in Sites
    /\ whole \in BOOLEAN
    /\ web = IF whole THEN [files |-> {"lib"}, config |-> "made"] ELSE [files |-> {}, config |-> None]
    /\ up = [a \in DOMAIN behind |-> "none"] /\ pin = None
    /\ call = None /\ open = 0 /\ clear = FALSE /\ result = None
    /\ calls = 0 /\ faults = 0

Fault == faults < MaxFaults /\ faults' = faults + 1
Idle == call = None

Answer(r) == call' = None /\ result' = r

-----------------------------------------------------------------------------
\* dial: the ladder of securities

AskFTP(kind, tls, token) ==
    /\ Idle /\ calls < MaxCalls /\ kind \in acct.asks
    /\ calls' = calls + 1
    /\ call' = [kind |-> kind, tls |-> tls, mode |-> tls, asked |-> token, token |-> None, at |-> "dial",
                rung |-> 1, sec |-> None, report |-> None, file |-> 0, try |-> 1, skipped |-> {}]
    /\ clear' = FALSE /\ result' = None
    /\ UNCHANGED <<acct, web, whole, open, httpVars, faults>>

\* The attempts of a mode, weaker and weaker.
Ladder(mode) ==
    CASE mode = "none" -> <<"none">>
      [] mode = "explicit" -> <<"tls", "tls_unverified">>
      [] mode = "auto" -> <<"tls", "tls_unverified", "none">>

Dialling == ~Idle /\ "at" \in DOMAIN call /\ call.at = "dial"
Rung == Ladder(call.mode)[call.rung]
Works == CASE Rung = "tls" -> acct.tls = "good"
           [] Rung = "tls_unverified" -> acct.tls \in {"good", "other name"}
           [] Rung = "none" -> TRUE

\* An attempt that cannot be made leaves the next one, if there is one; a
\* session that is given up has had the password all the same.
TriesNext(sent) ==
    /\ clear' = (clear \/ (sent /\ Rung = "none"))
    /\ IF call.rung < Len(Ladder(call.mode))
       THEN call' = [call EXCEPT !.rung = @ + 1] /\ UNCHANGED result
       ELSE Answer([ok |-> FALSE])
    /\ UNCHANGED <<acct, web, whole, open, httpVars, calls>>

NoTls == Dialling /\ ~Works /\ TriesNext(FALSE) /\ UNCHANGED faults

\* A server that hangs up at the login, or before it.
DialDropped(sent) == Dialling /\ Works /\ Fault /\ TriesNext(sent)

\* Nothing answers there, or the login is refused: no weaker one is tried.
DialEnds(sent) ==
    /\ Dialling /\ Works /\ Fault
    /\ clear' = (clear \/ (sent /\ Rung = "none"))
    /\ Answer([ok |-> FALSE])
    /\ UNCHANGED <<acct, web, whole, open, httpVars, calls>>

\* mutant
KeepsReport == IF call.report = None THEN Rung ELSE call.report
\* What is reported: the first session's security, and a plain one after it.
Reported == IF call.report = None \/ Rung = "none" THEN Rung ELSE call.report

LoggedIn ==
    /\ Dialling /\ Works
    /\ open' = open + 1
    /\ clear' = (clear \/ Rung = "none")
    /\ call' = [call EXCEPT !.sec = Rung, !.report = Reported, !.rung = 1, !.at = IF call.file = 0 THEN "probe" ELSE "put"]
    /\ UNCHANGED <<acct, web, whole, httpVars, result, calls, faults>>

\* The deferred closes: one for each connection this step has made.
Leaves(r) == open' = 0 /\ Answer(r)

-----------------------------------------------------------------------------
\* probe, Deploy, Remove

InFTP(step) == ~Idle /\ "at" \in DOMAIN call /\ call.at = step

\* The folder asked for, one with a usual name - the site's own inside it first -,
\* or the only one a level or two down.
Found == acct.folder \in {"given", "named", "deeper"}

\* No folder to serve from, none it can write to.
ProbeFails ==
    /\ InFTP("probe")
    /\ IF ~Found THEN UNCHANGED faults ELSE Fault
    /\ Leaves([ok |-> FALSE])
    /\ UNCHANGED <<acct, web, whole, clear, httpVars, calls>>

\* The token that is there, unless config.php cannot be read this time.
SeenToken(read) == IF read /\ web.config \in Tokens THEN web.config ELSE None
TokenFor(seen) ==
    IF call.asked # None THEN call.asked ELSE IF seen # None THEN seen ELSE "made"

Probed(read) ==
    /\ InFTP("probe") /\ Found
    /\ IF read THEN UNCHANGED faults ELSE Fault
    /\ CASE call.kind = "probe" -> Leaves([ok |-> TRUE]) /\ UNCHANGED web
         [] call.kind = "remove" -> call' = [call EXCEPT !.at = "delete"] /\ UNCHANGED <<web, open, result>>
         [] OTHER ->
              /\ call' = [call EXCEPT !.at = "put", !.file = 1, !.token = TokenFor(SeenToken(read))]
              /\ UNCHANGED <<web, open, result>>
    /\ UNCHANGED <<acct, whole, clear, httpVars, calls>>

\* mutant
ConfigFirst == <<"config", "lib", "parser">>
Order == Files
File == Order[call.file]

With(f) ==
    IF f = "config" THEN [web EXCEPT !.config = call.token] ELSE [web EXCEPT !.files = @ \cup {f}]
Torn(f) ==
    IF f = "config" THEN [web EXCEPT !.config = "torn"] ELSE [web EXCEPT !.files = @ \ {f}]

Takes == File \notin acct.refuses /\ (call.sec = "none" \/ ~acct.drops)

NextFile(skipped) ==
    IF call.file < Len(Files)
    THEN /\ call' = [call EXCEPT !.file = @ + 1, !.try = 1, !.skipped = @ \cup skipped]
         /\ UNCHANGED <<open, result>>
    ELSE Leaves([ok |-> TRUE, kind |-> "deploy", security |-> call.report])

IsWhole(w) == w.config \in Tokens /\ "lib" \in w.files

Put ==
    /\ InFTP("put") /\ Takes
    /\ web' = With(File)
    /\ whole' = (whole \/ IsWhole(web'))
    /\ NextFile({})
    /\ UNCHANGED <<acct, clear, httpVars, calls, faults>>

\* The host keeps part of the file and says nothing; its size would tell.
PutShort ==
    /\ InFTP("put") /\ Takes /\ ~acct.sizes /\ Fault
    /\ web' = Torn(File)
    /\ NextFile({})
    /\ UNCHANGED <<acct, whole, clear, httpVars, calls>>

RedialMode ==
    IF call.tls # "auto" THEN call.tls
    ELSE IF call.sec = "none" \/ call.try >= TlsTries THEN "none" ELSE "auto"

PutFails ==
    /\ InFTP("put")
    /\ IF Takes THEN Fault ELSE UNCHANGED faults
    /\ web' = Torn(File)
    /\ IF call.try < UploadTries
       THEN /\ call' = [call EXCEPT !.at = "dial", !.try = @ + 1, !.mode = RedialMode]
            /\ open' = open - 1 /\ UNCHANGED result
       ELSE IF File = "parser" THEN NextFile({"parser"})
       ELSE Leaves([ok |-> FALSE])
    /\ UNCHANGED <<acct, whole, clear, httpVars, calls>>

\* The app gives the step up, or its ten minutes pass.
Cancelled ==
    /\ InFTP("put") /\ Fault
    /\ Leaves([ok |-> FALSE])
    /\ UNCHANGED <<acct, web, whole, clear, httpVars, calls>>

\* What cannot be deleted stays, and nothing is said of it.
Delete(stays) ==
    /\ InFTP("delete")
    /\ IF stays = {} THEN UNCHANGED faults ELSE Fault
    /\ web' = [files |-> web.files \cap stays, config |-> IF "config" \in stays THEN web.config ELSE None]
    /\ Leaves([ok |-> TRUE])
    /\ UNCHANGED <<acct, whole, clear, httpVars, calls>>
-----------------------------------------------------------------------------
\* getValid: one question, to every candidate until the node answers

Candidates == DOMAIN behind
\* The candidate that proved right before is asked first.
Ordered ==
    [i \in Candidates |-> IF pin = None THEN i ELSE IF i = 1 THEN pin ELSE IF i <= pin THEN i - 1 ELSE i]
Foremost(K) == IF K = {} THEN None ELSE Ordered[Min(K)]

\* The plain client dials in that order, and asks the first that connects.
First(down) == Foremost({k \in Candidates : behind[Ordered[k]] # "dead" /\ Ordered[k] \notin down})

IsNode(a, down) == a # None /\ behind[a] = "node" /\ a \notin down

\* mutant
OnlyFirst(down) == None
\* The others are asked one by one, but for the one at the head.
Another(down) == Foremost({k \in Candidates \ {1} : IsNode(Ordered[k], down)})

\* Who answers as the node, if anybody: down does not answer this time.
Answerer(down) == IF IsNode(First(down), down) THEN First(down) ELSE Another(down)
Pinned(down) == IF IsNode(First(down), down) \/ Another(down) = None THEN pin ELSE Another(down)

\* A candidate that does not answer, or hides behind a browser check.
Down(down) == IF down = {} THEN UNCHANGED faults ELSE Fault

AskSite(kind) ==
    /\ Idle /\ calls < MaxCalls /\ kind \in acct.asks
    /\ calls' = calls + 1
    /\ call' = [kind |-> kind, ask |-> "first", polls |-> 0, ran |-> {}, sure |-> TRUE]
    /\ clear' = FALSE /\ result' = None /\ pin' = None     \* each step makes its own Site
    /\ UNCHANGED <<acct, web, whole, open, behind, up, faults>>

Asking(kind, step) == ~Idle /\ call.kind = kind /\ "ask" \in DOMAIN call /\ call.ask = step

\* Check and Node; what is not the node is told apart from no answer.
Looked(kind, down) ==
    /\ Asking(kind, "first") /\ Down(down)
    /\ pin' = Pinned(down)
    /\ Answer([ok |-> Answerer(down) # None, kind |-> kind, sure |-> down = {}])
    /\ UNCHANGED <<ftpVars, behind, up, calls>>

\* Stop: any answer will do.
Stopped(down) ==
    /\ Asking("stop", "first") /\ Down(down)
    /\ pin' = Pinned(down)
    /\ LET a == Answerer(down) IN up' = IF a # None THEN [up EXCEPT ![a] = "none"] ELSE up
    /\ Answer([ok |-> First(down) # None, kind |-> "stop", sure |-> FALSE])
    /\ UNCHANGED <<ftpVars, behind, calls>>

-----------------------------------------------------------------------------
\* Start

\* A node that runs is left alone.
StartLooks(down) ==
    /\ Asking("start", "first") /\ Down(down)
    /\ pin' = Pinned(down)
    /\ LET a == Answerer(down) IN
       IF a # None /\ up[a] = "running"
       THEN Answer([ok |-> TRUE, kind |-> "start", sure |-> FALSE])
       ELSE call' = [call EXCEPT !.ask = "run"] /\ UNCHANGED result
    /\ UNCHANGED <<ftpVars, behind, up, calls>>

\* mutant
AllOfThem(down) == Candidates \ down
RunAsks(down) == {First(down)} \ {None}

\* A server's own lock lets one request be the node.
Started(asked) ==
    [a \in Candidates |-> IF a \in asked /\ behind[a] = "node" /\ up[a] = "none" THEN "starting" ELSE up[a]]

\* The request is the node: it is let go of before it answers.
StartRuns(down) ==
    /\ Asking("start", "run") /\ Down(down)
    /\ up' = Started(RunAsks(down))
    /\ call' = [call EXCEPT !.ask = "poll", !.ran = {a \in RunAsks(down) : behind[a] = "node"}]
    /\ UNCHANGED <<ftpVars, behind, pin, result, calls>>

\* The host's browser check, at the request itself.
StartBarred ==
    /\ Asking("start", "run") /\ Fault
    /\ Answer([ok |-> FALSE, kind |-> "start", sure |-> FALSE])
    /\ UNCHANGED <<ftpVars, httpVars, calls>>

\* mutant
NoDeadline == FALSE
Deadline == call.polls + 1 >= MaxPolls

\* Once more after the deadline, every second and a half before it.
StartPolls(down) ==
    /\ Asking("start", "poll") /\ Down(down)
    /\ pin' = Pinned(down)
    /\ LET a == Answerer(down) IN
       IF a # None /\ up[a] = "running"
       THEN Answer([ok |-> TRUE, kind |-> "start", sure |-> FALSE])
       ELSE IF Deadline
       THEN Answer([ok |-> FALSE, kind |-> "start", sure |-> FALSE])
       ELSE call' = [call EXCEPT !.polls = IF @ + 1 < MaxPolls THEN @ + 1 ELSE @] /\ UNCHANGED result
    /\ UNCHANGED <<ftpVars, behind, up, calls>>

\* The server's side: the node comes up, and ends with its request.
NodeTurns(a, to) ==
    /\ to \in {"running", "none"} /\ up[a] = IF to = "running" THEN "starting" ELSE "running"
    /\ up' = [up EXCEPT ![a] = to]
    /\ UNCHANGED <<ftpVars, behind, pin, call, result, calls, faults>>

-----------------------------------------------------------------------------
Asked ==
    \/ \E kind \in {"probe", "deploy", "remove"}, tls \in {"auto", "explicit", "none"}, t \in {None, "asked"} :
         (t # None => kind = "deploy") /\ AskFTP(kind, tls, t)
    \/ \E kind \in {"check", "node", "start", "stop"} : AskSite(kind)

Luckily ==
    \/ NoTls \/ LoggedIn \/ Probed(TRUE) \/ Put \/ Delete({})
    \/ (~Found /\ ProbeFails)
    \/ (InFTP("put") /\ ~Takes /\ PutFails)
    \/ Looked("check", {}) \/ Looked("node", {}) \/ Stopped({})
    \/ StartLooks({}) \/ StartRuns({}) \/ StartPolls({})

Badly ==
    \/ \E sent \in BOOLEAN : DialDropped(sent) \/ DialEnds(sent)
    \/ ProbeFails \/ Probed(FALSE) \/ PutShort \/ PutFails \/ Cancelled
    \/ \E stays \in SUBSET {"lib", "config"} : stays # {} /\ Delete(stays)
    \/ \E a \in Candidates :
         \/ Looked("check", {a}) \/ Looked("node", {a}) \/ Stopped({a})
         \/ StartLooks({a}) \/ StartRuns({a}) \/ StartPolls({a})
    \/ StartBarred

Next == Asked \/ Luckily \/ Badly \/ \E a \in Candidates, to \in {"running", "none"} : NodeTurns(a, to)

Spec == Init /\ [][Next]_siteVars /\ WF_siteVars(Luckily)

-----------------------------------------------------------------------------
\* The shape of the state.
TypeOK ==
    /\ web.files \subseteq {"lib", "parser"} /\ web.config \in Tokens \cup {None, "torn"}
    /\ \A a \in Candidates : up[a] \in {"none", "starting", "running"}
    /\ pin \in Candidates \cup {None}
    /\ open \in 0..1 /\ (Idle => open = 0)
    /\ calls <= MaxCalls /\ faults <= MaxFaults

\* A half-uploaded node has no token (ftp.go:444): a token guards pages that
\* are there, or that were there before a later upload or a removal failed;
\* where the host tells a file's size.
HalfHasNoToken == web.config \in Tokens /\ acct.sizes => whole

\* A password that crossed in the clear is reported, though a file was sent
\* again over a better connection before or after it, and it crosses so only
\* where the app allowed it (ftp.go:500).
SaysPlain ==
    /\ ~Idle /\ clear => call.tls \in {"auto", "none"}
    /\ result # None /\ result.ok /\ "security" \in DOMAIN result /\ clear => result.security = "none"

\* A Start sends the request that is the node to one server (site.go:193).
StartsOne == ~Idle /\ call.kind = "start" => Cardinality(call.ran) <= 1

\* A step finds the node wherever it is: the other scheme, an address behind
\* a server that is not the site's (getValid).
FindsNode ==
    result # None /\ "sure" \in DOMAIN result /\ result.sure /\ result.kind \in {"check", "node"}
      => (result.ok <=> \E a \in Candidates : behind[a] = "node")

\* Every step ends.
Serving == ~Idle
StepsEnd == []<>~Serving

-----------------------------------------------------------------------------
\* The inductive invariant

FtpCalls ==
    [kind : {"probe", "deploy", "remove"}, tls : {"auto", "explicit", "none"}, mode : {"auto", "explicit", "none"},
     asked : {None, "asked"}, token : Tokens \cup {None}, at : {"dial", "probe", "put", "delete"},
     rung : 1..3, sec : {None, "tls", "tls_unverified", "none"}, report : {None, "tls", "tls_unverified", "none"},
     file : 0..3, try : Nat, skipped : SUBSET {"lib", "parser", "config"}]
SiteCalls ==
    [kind : {"check", "node", "start", "stop"}, ask : {"first", "run", "poll"}, polls : Nat, ran : SUBSET Nat, sure : BOOLEAN]
OnFtp == call \in FtpCalls
OnSite == call \in SiteCalls

\* One connection while a step is at work over FTP, none else.
Shape ==
    /\ Idle \/ OnFtp \/ OnSite
    /\ Idle \/ result = None
    /\ behind \in Seq({"node", "other", "dead"})
    /\ web \in [files : SUBSET {"lib", "parser"}, config : Tokens \cup {None, "torn"}]
    /\ up \in [Candidates -> {"none", "starting", "running"}]
    /\ pin \in Candidates \cup {None}
    /\ clear \in BOOLEAN /\ whole \in BOOLEAN
    /\ open = IF OnFtp /\ call.at # "dial" THEN 1 ELSE 0
    /\ calls \in 0..MaxCalls /\ faults \in 0..MaxFaults

\* The files that went before the one being sent are there; the token is the last.
Sending ==
    /\ OnFtp =>
        /\ call.rung <= Len(Ladder(call.mode))
        /\ call.at # "dial" => call.rung = 1
        /\ call.at \in {"put", "dial"} /\ call.file # 0 => call.token # None
        /\ call.at = "put" => call.file # 0
        /\ acct.sizes /\ call.file >= 2 => "lib" \in web.files
    /\ HalfHasNoToken

\* What crossed in the clear will be told.
Telling ==
    /\ OnFtp =>
        /\ call.tls = "explicit" => call.mode = "explicit"
        /\ clear => call.tls # "explicit"
        /\ clear => call.report = "none"
    /\ OnSite => ~clear
    /\ result # None /\ result.ok /\ "security" \in DOMAIN result /\ clear => result.security = "none"

\* One server is asked to be the node.
Starting == OnSite => \A a, b \in call.ran : a = b

IInv == Shape /\ Sending /\ Telling /\ Starting /\ FindsNode
=============================================================================
