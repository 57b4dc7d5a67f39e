------------------------------- MODULE MCPanel -------------------------------
\* The panel and what it sets up elsewhere (the mailbox's site, servers,
\* subscriptions, packages), checked in one run: part is the part that is
\* looked at, the others rest.  ServerProofs and ClientProofs have the
\* parts and what is proved of each for any number; at the end that is put
\* together.  What must eventually happen is checked alone.
EXTENDS ServerProofs, ClientProofs, TLC

AllRequests == {"start", "stop", "delete", "create", "update", "restart",
                "cookies", "import"}

-----------------------------------------------------------------------------
\* What the parts are about in this run.

MuxScenes == {
    [up |-> 1 :> 2, down |-> 1 :> 0, opens |-> 2, losses |-> 1, quits |-> {1}],
    [up |-> 1 :> 0, down |-> 1 :> 2, opens |-> 1, losses |-> 0, quits |-> {1}],
    [up |-> 1 :> 1 @@ 2 :> 1, down |-> 1 :> 0 @@ 2 :> 0, opens |-> 1, losses |-> 0, quits |-> {}]}
Package(version, wire, signed) == [version |-> version, wire |-> wire, signed |-> signed]
MCFirst == Package(1, 1, TRUE)
MCIndex == {[version |-> 2, wire |-> 1]}
MCPackages == {MCFirst, Package(2, 1, TRUE), Package(2, 1, FALSE), Package(2, 2, TRUE)}

MCDevices == {{"cupsonline", "avito"}}
MCPlans == [month |-> [days |-> 2, devices |-> 1, trial |-> FALSE],
            trial |-> [days |-> 1, devices |-> 2, trial |-> TRUE]]
SubScenes == {{"signin", "devices"}, {"signin", "ban"}, {"password", "devices", "signin"},
              {"delete", "password"}, {"pay"}, {"keys"}}
Made(type, made) == [type |-> type, made |-> made]
Pool(id, perUser, auto, transports) ==
    [id |-> id, channel |-> "c", perUser |-> perUser, auto |-> auto, transports |-> transports]
MCConfigs == {
    <<Pool("p", FALSE, TRUE, <<>>)>>,
    <<Pool("q", TRUE, FALSE, <<Made("vyandex", FALSE), Made("avito", TRUE)>>)>>,
    <<Pool("p", FALSE, FALSE, <<Made("avito", TRUE)>>)>>}

InstallScenes == {
    [kinds |-> {"apply", "set", "show"}, chans |-> {"a"}, kits |-> {{"vyandex"}, {"mailru", "cupsonline"}}],
    [kinds |-> {"apply", "remove"}, chans |-> {"a", "b"}, kits |-> {{"cupsonline"}}],
    [kinds |-> {"apply", "set", "cookies"}, chans |-> {"a"}, kits |-> {{"avito"}, {}, {"oneme"}}]}
Account(tls, refuses, drops, sizes, folder, asks) ==
    [tls |-> tls, refuses |-> refuses, drops |-> drops, sizes |-> sizes, folder |-> folder, asks |-> asks]
MCAccounts == {
    Account("good", {}, TRUE, TRUE, "named", {"deploy"}),
    Account("other name", {"parser"}, FALSE, TRUE, "deeper", {"deploy", "remove"}),
    Account("none", {"lib"}, FALSE, FALSE, "given", {"deploy", "probe"}),
    Account("good", {}, FALSE, TRUE, "many", {"deploy"}),
    Account("good", {}, FALSE, TRUE, "none", {"check", "node", "start", "stop"})}
MCSites == {<<"other", "dead", "node">>, <<"node", "node">>, <<"other">>}

Three(a, b, c) == 1 :> a @@ 2 :> b @@ 3 :> c
MCAccessScenes == {
    Three("login", "account", "lang"), Three("account", "path", "login"), Three("account", "place", "logout"),
    Three("domain", "complete", "place"), Three("domain", "account", "complete"),
    Three("domain", "domain", "complete")}
-----------------------------------------------------------------------------
VARIABLE part

allVars ==
    <<part, vars, muxVars, upgradeVars, subsVars, linksVars, installVars,
    siteVars, accessVars, servicesVars>>

Looked == {"tunnels", "mux", "upgrade", "subs", "links", "install", "site", "access", "services"}

\* Of a part that is not looked at there is one beginning.
PanelInit ==
    /\ part \in Looked /\ Init
    /\ Mux!Init /\ (part # "mux" => mScene = CHOOSE s \in Usages : TRUE)
    /\ Upgrade!Init
    /\ Subs!Init /\ (part # "subs" => aScene = CHOOSE s \in Askings : TRUE)
    /\ Links!Init /\ (part # "links" => cPools = CHOOSE c \in Layouts : Links!Checked(c))
    /\ Install!Init /\ (part # "install" => iScene = CHOOSE s \in Orders : TRUE)
    /\ Site!Init /\ (part # "site" => tAcct = (CHOOSE a \in Hosters : TRUE) /\ tBehind = <<"other">> /\ tWhole = FALSE)
    /\ Access!Init /\ (part # "access" => xScene = (CHOOSE s \in AccessScenes : TRUE) /\ xSamePort = TRUE)
    /\ Services!Init /\ (part # "services" => vPart = "tls")

OthersRest ==
    /\ UNCHANGED part
    /\ IF part = "tunnels" THEN TRUE ELSE UNCHANGED vars
    /\ IF part = "mux" THEN TRUE ELSE UNCHANGED muxVars
    /\ IF part = "upgrade" THEN TRUE ELSE UNCHANGED upgradeVars
    /\ IF part = "subs" THEN TRUE ELSE UNCHANGED subsVars
    /\ IF part = "links" THEN TRUE ELSE UNCHANGED linksVars
    /\ IF part = "install" THEN TRUE ELSE UNCHANGED installVars
    /\ IF part = "site" THEN TRUE ELSE UNCHANGED siteVars
    /\ IF part = "access" THEN TRUE ELSE UNCHANGED accessVars
    /\ IF part = "services" THEN TRUE ELSE UNCHANGED servicesVars

PanelNext ==
    /\ \/ part = "tunnels" /\ Next
       \/ part = "mux" /\ Mux!Next
       \/ part = "upgrade" /\ Upgrade!Next
       \/ part = "subs" /\ Subs!Next
       \/ part = "links" /\ Links!Next
       \/ part = "install" /\ Install!Next
       \/ part = "site" /\ Site!Next
       \/ part = "access" /\ Access!Next
       \/ part = "services" /\ Services!Next
    /\ OthersRest

\* The variables of the part looked at: no others change.
partVars ==
    CASE part = "tunnels" -> vars
      [] part = "mux" -> muxVars
      [] part = "upgrade" -> upgradeVars
      [] part = "subs" -> subsVars
      [] part = "links" -> linksVars
      [] part = "install" -> installVars
      [] part = "site" -> siteVars
      [] part = "access" -> accessVars
      [] part = "services" -> servicesVars

\* The weak fairness of the modules (Scheduled there), numbered: one formula
\* speaks of the action with that number of the part looked at.
Fair(i) ==
    /\ UNCHANGED part
    /\ \/ part = "tunnels" /\
           \/ i = 1 /\ OpGoesOn
           \/ i = 2 /\ RestoreList
           \/ i = 3 /\ \E t \in Tunnels : Ends(t)
           \/ i = 4 /\ \E t \in Tunnels : Reap(t)
           \/ i = 5 /\ \E t \in Tunnels : RetryDue(t)
       \/ part = "mux" /\
           \/ i = 1 /\ Mux!SendAcks
           \/ \E s \in Flows :
               \/ i = 1 + s /\ (Mux!OpenAgain(s) \/ Mux!DialReturns(s) \/ Mux!CloseEnds(s))
               \/ i = 3 + s /\ Mux!Control(s)
               \/ i = 5 + s /\ Mux!Bulk(s)
               \/ i = 7 + s /\ (Mux!WindowOpens(s) \/ Mux!WriterStalled(s) \/ Mux!WriteFails(s) \/ Mux!SendData(s) \/ Mux!CountSent(s))
               \/ i = 9 + s /\ Mux!ExitReceives(s)
               \/ i = 11 + s /\ (Mux!Connects(s) \/ Mux!Refuses(s) \/ Mux!ExitEnds(s))
               \/ i = 13 + s /\ Mux!FlushAcks(s)
       \/ part = "upgrade" /\
           \/ i = 1 /\ Upgrade!WorkerStep
           \/ i = 2 /\ Upgrade!ProcessStep("worker")
           \/ i = 3 /\ Upgrade!ProcessStep("pass")
       \/ part = "links" /\
           \/ i = 1 /\ \E m \in cMakers : Links!Maker(m)
           \/ i = 2 /\ \E ch \in Named : Links!MayAgain(ch)
       \/ part = "install" /\
           \/ i = 1 /\ Install!Wizard
           \/ \E n \in 1..MaxOrders :
               \/ i = 1 + n /\ Install!Runs(n)
       \/ part = "site" /\
           \/ i = 1 /\ Site!Luckily
       \/ part = "access" /\
           \/ i = 1 /\ Access!IssuerStep
           \/ \E r \in Clients :
               \/ i = 1 + r /\ Access!Step(r)
       \/ part = "services" /\
           \/ i = 1 /\ (Services!RunStep \/ Services!TakesSlot \/ Services!PanelStarts)
           \/ i = 2 /\ (Services!AcceptEnds \/ Services!Register)
           \/ i = 3 /\ Services!ListenerClosed
           \/ \E n \in Lines :
               \/ i = 3 + n /\ Services!WorkerStep(n)
           \/ \E c \in Comers :
               \/ i = 5 + c /\ Services!ConnStep(c)
           \/ \E u \in Fetches :
               \/ i = 8 + u /\ Services!UpdateStep(u)
               \/ i = 10 + u /\ Services!HelperStep(u)
           \/ i = 13 /\ Services!IssueStep("renew")
           \/ i = 14 /\ Services!IssueStep("setup")

\* Their strong fairness, in the same way.
Lucky(i) ==
    /\ UNCHANGED part
    /\ \/ part = "tunnels" /\
           \/ i = 1 /\ BeginRestore
           \/ i = 2 /\ CloseDone
           \/ i = 3 /\ \E t \in Tunnels : TickFor(t)
       \/ part = "links" /\
           \/ i = 1 /\ \E q \in cAsks : q.by = "app" /\ Links!Request(q)
           \/ i = 2 /\ \E q \in cAsks : q.by = "start" /\ Links!Request(q)
           \/ i = 3 /\ Links!EnsureAll(1)

PanelSpec ==
    /\ PanelInit /\ [][PanelNext]_allVars
    /\ \A i \in 1..15 : WF_partVars(Fair(i))
    /\ \A i \in 1..3 : SF_partVars(Lucky(i))

-----------------------------------------------------------------------------
\* What each part never breaks, whatever its processes, its peers and the failures
\* around it do in whichever order: the invariants its module states.
PanelKept ==
    /\ TypeOK
    /\ part = "mux" => Mux!TypeOK /\ Mux!StreamsWhole /\ Mux!WindowsKept
    /\ part = "upgrade" => Upgrade!TypeOK /\ Upgrade!OnlyOurs /\ Upgrade!NeverWithout /\ Upgrade!RecordTrue
    /\ part = "subs" => Subs!TypeOK /\ Subs!AccountsKept
    /\ part = "links" => Links!TypeOK /\ Links!ChannelsKept
    /\ part = "install" => Install!TypeOK /\ Install!NoSecretLeft /\ Install!OnlyPinned /\ Install!StaysUp /\ Install!LinksKept
    /\ part = "site" => Site!TypeOK /\ Site!HalfHasNoToken /\ Site!SaysPlain /\ Site!StartsOne /\ Site!FindsNode
    /\ part = "access" => Access!TypeOK /\ Access!AccessKept
    /\ part = "services" => Services!TypeOK /\ Services!ServicesKept

\* Something a part owes its callers is not done yet.
Owing ==
    \/ part = "mux" /\ Mux!Hanging
    \/ part = "upgrade" /\ Upgrade!Owed
    \/ part = "links" /\ Links!Missing
    \/ part = "install" /\ Install!Serving
    \/ part = "site" /\ Site!Serving
    \/ part = "access" /\ Access!Unanswered
    \/ part = "services" /\ Services!Lasting

\* Every step is in order, and what is owed is done in the end: whoever holds m.op
\* releases it, updates climb their ladder rung by rung, a failed installation
\* leaves the server as it was, and no request, stream, transfer, publication,
\* update or missing link of any part waits for ever.
PanelMoves ==
    /\ OpEnds
    /\ Upgrade!ClimbsInOrder /\ Install!AsBefore
    /\ []<>~Owing

-----------------------------------------------------------------------------
\* All the parts together: no part breaks what it promises.

\* The inductive invariant: that of every part, looked at or not.
PInv ==
    /\ IInv /\ Mux!IInv /\ Upgrade!IInv /\ Subs!IInv /\ Links!IInv
    /\ Install!IInv /\ Site!IInv /\ Access!IInv /\ Services!IInv

\* Every part begins where its invariant holds.
LEMMA PanelBegins == PanelInit => PInv
BY InitIInv, MuxInit, UpgradeInit, SubsInit, LinksInit, InstallInit, SiteInit, AccessInit, ServicesInit DEF PanelInit, PInv

\* A step is one of the part that is looked at, and the others rest.
LEMMA PanelSteps == PInv /\ [PanelNext]_allVars => PInv'
<1> SUFFICES ASSUME PInv, [PanelNext]_allVars
             PROVE  PInv'
  OBVIOUS
<1>1. IInv'
  <2>1. Next \/ UNCHANGED vars
    BY DEF PanelNext, OthersRest, allVars
  <2> QED BY <2>1, TunnelsStep DEF PInv
<1>2. Mux!IInv'
  <2>1. Mux!Next \/ UNCHANGED muxVars
    BY DEF PanelNext, OthersRest, allVars
  <2> QED BY <2>1, MuxStep, MuxRests DEF PInv
<1>3. Upgrade!IInv'
  <2>1. Upgrade!Next \/ UNCHANGED upgradeVars
    BY DEF PanelNext, OthersRest, allVars
  <2> QED BY <2>1, UpgradeStep, UpgradeRests DEF PInv
<1>4. Subs!IInv'
  <2>1. Subs!Next \/ UNCHANGED subsVars
    BY DEF PanelNext, OthersRest, allVars
  <2> QED BY <2>1, SubsStep, SubsRests DEF PInv
<1>5. Links!IInv'
  <2>1. Links!Next \/ UNCHANGED linksVars
    BY DEF PanelNext, OthersRest, allVars
  <2> QED BY <2>1, LinksStep, LinksRests DEF PInv
<1>6. Install!IInv'
  <2>1. Install!Next \/ UNCHANGED installVars
    BY DEF PanelNext, OthersRest, allVars
  <2> QED BY <2>1, InstallStep, InstallRests DEF PInv
<1>7. Site!IInv'
  <2>1. Site!Next \/ UNCHANGED siteVars
    BY DEF PanelNext, OthersRest, allVars
  <2> QED BY <2>1, SiteStep, SiteRests DEF PInv
<1>8. Access!IInv'
  <2>1. Access!Next \/ UNCHANGED accessVars
    BY DEF PanelNext, OthersRest, allVars
  <2> QED BY <2>1, AccessStep, AccessRests DEF PInv
<1>9. Services!IInv'
  <2>1. Services!Next \/ UNCHANGED servicesVars
    BY DEF PanelNext, OthersRest, allVars
  <2> QED BY <2>1, ServicesStep, ServicesRests DEF PInv
<1> QED BY <1>1, <1>2, <1>3, <1>4, <1>5, <1>6, <1>7, <1>8, <1>9 DEF PInv

\* What the parts are invariant in is kept for ever.
THEOREM PanelInvariant == PanelSpec => []PInv
BY PanelBegins, PanelSteps, PTL DEF PanelSpec

\* What each part never breaks, for any number of profiles, streams,
\* packages, accounts, locations, servers, sites and requests: streams
\* are whole and stay in their windows (stream_mux.go:215), the node never
\* runs a package that is not the project's (update.go:314), accounts and
\* orders stay those of their owners (accounts.go:342), a failed
\* installation leaves no secret (node-install.sh:928), and the settings
\* and what runs beside the requests stay what the panel says they are.
THEOREM PanelHolds == PanelSpec => []PanelKept
<1>1. PInv => PanelKept
  BY MuxPromise, UpgradePromise, SubsPromise, LinksPromise, InstallPromise, SitePromise, AccessPromise, ServicesPromise DEF
    PInv, IInv, PanelKept
<1> QED BY <1>1, PanelInvariant, PTL

\* The ladder of a node's updates is climbed one rung at a time: in one
\* streak of failures no step is asked for twice, none is asked for after
\* a higher one, whatever the updates under way do (recovery.go:176).
THEOREM LadderClimbs == PanelSpec => Upgrade!ClimbsInOrder
<1>1. PanelInit => Unclimbed
  BY DEF PanelInit, Upgrade!Init, Unclimbed
<1>2. PInv /\ Unclimbed /\ [PanelNext]_allVars =>
        Unclimbed' /\ [uFails' > uFails /\ uPending' # uPending /\ uPending' # "none" => uRung' > uRung]_(Upgrade!updateVars)
  <2> SUFFICES ASSUME PInv, Unclimbed, [PanelNext]_allVars
               PROVE  Unclimbed' /\ (uFails' > uFails /\ uPending' # uPending /\ uPending' # "none" => uRung' > uRung)
    OBVIOUS
  <2>1. Upgrade!Next \/ UNCHANGED upgradeVars
    BY DEF PanelNext, OthersRest, allVars
  <2> QED BY <2>1, UpgradeClimbs DEF PInv
<1> QED BY <1>1, <1>2, PanelInvariant, PTL DEF PanelSpec, Upgrade!ClimbsInOrder

\* A command of the node wizard that fails on a server leaves the channel
\* it was for as it found it, whatever fails in whichever step and however
\* many commands and channels there are (node-install.sh:536); unless two
\* installers ran there at once.
THEOREM FailuresSpare == PanelSpec => Install!AsBefore
<1>1. PanelInit => Intact
  BY InstallBeginsIntact DEF PanelInit
<1>2. PInv /\ Intact /\ [PanelNext]_allVars => Intact' /\ [Spared]_(Install!installVars)
  <2> SUFFICES ASSUME PInv, Intact, [PanelNext]_allVars
               PROVE  Intact' /\ Spared
    OBVIOUS
  <2>1. Install!Next \/ UNCHANGED installVars
    BY DEF PanelNext, OthersRest, allVars
  <2> QED BY <2>1, InstallIntact DEF PInv
<1> QED BY <1>1, <1>2, PanelInvariant, PTL DEF PanelSpec, Install!AsBefore, Spared
=============================================================================
