----------------------------- MODULE PanelServices -----------------------------
\* What the panel runs beside its requests: the publication over a relay
\* (publication/localtunnel.go), the one port for HTTP and TLS
\* (internal/hosting/protocol_listener.go), its own update (updater.go,
\* update_download.go, update_apply_linux.go) and the certificates it
\* renews (configuration/tls.go).
\*
\* The relay, the issuer of certificates, the clients and the installer
\* are external: they answer or they do not.
EXTENDS Naturals, FiniteSets

CONSTANTS
    Parts,          \* which of the four a run is about
    Hosts, Workers, MaxSwitches,    \* relays; connections of a publication; a bound
    Conns, Slots,   \* connections that come; 128
    Updates, MaxKills,      \* requests for an update; times the panel is killed
    Issuers,        \* the renewal and the set-up of a domain
    None

VARIABLES
    part,
    wanted, current, session, worker, active, status, switches,     \* publication
    conn, accepting, listener,                                      \* protocolListener
    updating, update, helper, panel, kills,                         \* the update
    port80, issuing, pair                                           \* certificates

pubVars == <<wanted, current, session, worker, active, status, switches>>
listenVars == <<conn, accepting, listener>>
updateVars == <<updating, update, helper, panel, kills>>
tlsVars == <<port80, issuing, pair>>
serviceVars == <<part, pubVars, listenVars, updateVars, tlsVars>>

NoUpdate == [at |-> "no", dir |-> FALSE, file |-> "none"]
NoHelper == [at |-> "none", sound |-> FALSE, old |-> FALSE]

Init ==
    /\ part \in Parts
    /\ wanted = None /\ current = None /\ session = "none" /\ switches = 0
    /\ worker = [w \in Workers |-> [at |-> "off", host |-> None]] /\ active = 0
    /\ status = [state |-> "disabled", host |-> None]
    /\ conn = [c \in Conns |-> "out"] /\ accepting = [at |-> "accept", conn |-> None] /\ listener = "open"
    /\ updating = FALSE /\ update = [u \in Updates |-> NoUpdate]
    /\ helper = [u \in Updates |-> NoHelper] /\ panel = "up" /\ kills = 0
    /\ port80 = None /\ issuing = [i \in Issuers |-> "no"]
    /\ pair = [key |-> 0, cert |-> None, made |-> 0]

-----------------------------------------------------------------------------
\* The publication

restPub == <<part, listenVars, updateVars, tlsVars>>
Show(state, host) == status' = [state |-> state, host |-> host]

\* The administrator names another relay, or none.
Names(h) ==
    /\ part = "publish" /\ switches < MaxSwitches /\ h # wanted
    /\ wanted' = h /\ switches' = switches + 1
    /\ UNCHANGED <<current, session, worker, active, status, restPub>>

\* mutant
AtOnce == TRUE
\* The old relay's connections are waited for.
AllGone == \A w \in Workers : worker[w].at = "off"

\* Run finds another relay wanted: the session there was is cancelled first.
Cancels ==
    /\ part = "publish" /\ wanted # current /\ session \in {"asks", "live"}
    /\ session' = "cancelled"
    /\ UNCHANGED <<wanted, current, worker, active, status, switches, restPub>>

Switches ==
    /\ part = "publish" /\ wanted # current
    /\ session \in {"none", "cancelled"} /\ AllGone
    /\ current' = wanted /\ active' = 0
    /\ IF wanted = None THEN session' = "none" /\ Show("disabled", None)
       ELSE session' = "asks" /\ Show("connecting", None)
    /\ UNCHANGED <<wanted, worker, switches, restPub>>

\* The relay answers with a place to connect to; without one it is asked again.
Allocated ==
    /\ session = "asks"
    /\ session' = "live"
    /\ worker' = [w \in Workers |-> [at |-> "dial", host |-> current]]
    /\ UNCHANGED <<wanted, current, active, status, switches, restPub>>
AllocFails == session = "asks" /\ Show("connecting", None) /\ UNCHANGED <<wanted, current, session, worker, active, switches, restPub>>

Live(w) == session = "live" /\ worker[w].host = current
At(w, at) == worker' = [worker EXCEPT ![w].at = at]
pubRest == <<wanted, current, session, switches, restPub>>

DialFails(w) ==
    /\ worker[w].at = "dial"
    /\ IF active = 0 THEN Show("connecting", None) ELSE UNCHANGED status
    /\ IF Live(w) THEN UNCHANGED worker ELSE At(w, "off")
    /\ UNCHANGED <<active, pubRest>>

\* The count, and then what is shown.
Dialled(w) == worker[w].at = "dial" /\ active' = active + 1 /\ At(w, "says") /\ UNCHANGED <<status, pubRest>>
Says(w) == worker[w].at = "says" /\ Show("connected", worker[w].host) /\ At(w, "serves") /\ UNCHANGED <<active, pubRest>>

\* The connection ends, or is closed with the session.
ServeEnds(w) ==
    /\ worker[w].at = "serves"
    /\ active' = active - 1
    /\ At(w, IF active = 1 /\ Live(w) THEN "tells" ELSE IF Live(w) THEN "dial" ELSE "off")
    /\ UNCHANGED <<status, pubRest>>
Tells(w) ==
    /\ worker[w].at = "tells"
    /\ Show("connecting", None) /\ At(w, IF Live(w) THEN "dial" ELSE "off")
    /\ UNCHANGED <<active, pubRest>>

WorkerStep(w) == DialFails(w) \/ Dialled(w) \/ Says(w) \/ ServeEnds(w) \/ Tells(w)
RunStep == Cancels \/ Switches
PubNext == \/ \E h \in Hosts \cup {None} : Names(h)
           \/ RunStep \/ Allocated \/ AllocFails \/ \E w \in Workers : WorkerStep(w)

-----------------------------------------------------------------------------
\* The one port

restListen == <<part, pubVars, updateVars, tlsVars>>
Detecting == {c \in Conns : conn[c] \in {"pending", "closing", "ready"}}
\* Slots in use: the connection being taken has its own already.
InUse == Cardinality(Detecting) + (IF accepting.at = "register" THEN 1 ELSE 0)
Put(c, at) == conn' = [conn EXCEPT ![c] = at]

Accepts(c) ==
    /\ part = "listen" /\ accepting.at = "accept" /\ listener = "open" /\ conn[c] = "out"
    /\ Put(c, "taken") /\ accepting' = [at |-> "slot", conn |-> c]
    /\ UNCHANGED <<listener, restListen>>

\* mutant
NoLimit == TRUE
SlotFree == InUse < Slots

TakesSlot ==
    /\ accepting.at = "slot" /\ SlotFree
    /\ accepting' = [accepting EXCEPT !.at = "register"]
    /\ UNCHANGED <<conn, listener, restListen>>

AcceptEnds ==
    /\ accepting.at \in {"accept", "slot"} /\ listener # "open"
    /\ conn' = IF accepting.conn = None THEN conn ELSE [conn EXCEPT ![accepting.conn] = "closed"]
    /\ accepting' = [at |-> "ended", conn |-> None]
    /\ UNCHANGED <<listener, restListen>>

\* mutant
Registers == TRUE
\* One that comes too late to be closed with the others is closed at once.
StillOpen == listener = "open"

Register ==
    /\ accepting.at = "register"
    /\ Put(accepting.conn, IF StillOpen THEN "pending" ELSE "closed")
    /\ accepting' = [at |-> IF StillOpen THEN "accept" ELSE "ended", conn |-> None]
    /\ UNCHANGED <<listener, restListen>>

\* mutant
StillPending == {"pending", "ready", "served"}
\* A connection whose first byte has come is no longer the listener's to close.
Owned == {"pending"}

FirstByte(c) == conn[c] = "pending" /\ Put(c, "ready") /\ UNCHANGED <<accepting, listener, restListen>>
\* No byte in ten seconds, or it was closed.
NoByte(c) == conn[c] \in {"pending", "closing"} /\ Put(c, "closed") /\ UNCHANGED <<accepting, listener, restListen>>
\* net/http takes it, until the listener is closed.
Delivered(c) == conn[c] = "ready" /\ listener = "open" /\ Put(c, "served") /\ UNCHANGED <<accepting, listener, restListen>>
NotTaken(c) == conn[c] = "ready" /\ listener # "open" /\ Put(c, "closed") /\ UNCHANGED <<accepting, listener, restListen>>

ListenerCloses == part = "listen" /\ listener = "open" /\ listener' = "closing" /\ UNCHANGED <<conn, accepting, restListen>>
ListenerClosed ==
    /\ listener = "closing" /\ listener' = "closed"
    /\ conn' = [c \in Conns |-> IF conn[c] \notin Owned THEN conn[c] ELSE IF conn[c] = "pending" THEN "closing" ELSE "cut"]
    /\ UNCHANGED <<accepting, restListen>>

ConnStep(c) == NoByte(c) \/ Delivered(c) \/ NotTaken(c)
ListenNext == \/ \E c \in Conns : Accepts(c) \/ FirstByte(c) \/ ConnStep(c)
              \/ TakesSlot \/ AcceptEnds \/ Register \/ ListenerCloses \/ ListenerClosed

-----------------------------------------------------------------------------
\* The update

restUpdate == <<part, pubVars, listenVars, tlsVars>>
Set(u, new) == update' = [update EXCEPT ![u] = new]

\* mutant
NotAsked == TRUE
\* One update at a time.
NoneRuns == ~updating

Asks(u) ==
    /\ part = "update" /\ panel = "up" /\ update[u].at = "no" /\ NoneRuns
    /\ updating' = TRUE /\ Set(u, [NoUpdate EXCEPT !.at = "dir", !.dir = TRUE])
    /\ UNCHANGED <<helper, panel, kills, restUpdate>>

\* The installer is read after its sum; cut or changed on the way it does not fit.
Downloads(u, sound) ==
    /\ update[u].at = "dir" /\ panel = "up"
    /\ Set(u, [update[u] EXCEPT !.at = "check", !.file = IF sound THEN "sound" ELSE "bad"])
    /\ UNCHANGED <<updating, helper, panel, kills, restUpdate>>

\* mutant
Trusts(f) == TRUE
Fits(f) == f = "sound"

\* The helper is started, or everything is removed.
Begins(u) ==
    /\ update[u].at = "check" /\ panel = "up" /\ Fits(update[u].file)
    /\ helper' = [helper EXCEPT ![u] = [at |-> "sleeps", sound |-> update[u].file = "sound", old |-> TRUE]]
    /\ Set(u, [update[u] EXCEPT !.at = "begun"])
    /\ UNCHANGED <<updating, panel, kills, restUpdate>>

\* mutant
KeepsDir(u) == update[u]
Cleaned(u) == NoUpdate

Fails(u) ==
    /\ update[u].at \in {"dir", "check"} /\ panel = "up"
    /\ Set(u, [Cleaned(u) EXCEPT !.at = "failed"])
    /\ updating' = FALSE
    /\ UNCHANGED <<helper, panel, kills, restUpdate>>

\* Ten minutes after a helper was started: it has done its work or given up.
MarkExpires(u) ==
    /\ update[u].at = "begun" /\ panel = "up" /\ helper[u].at = "none"
    /\ updating' = FALSE /\ Set(u, [update[u] EXCEPT !.at = "over"])
    /\ UNCHANGED <<helper, panel, kills, restUpdate>>

\* What a panel that ends or is replaced leaves: no mark, and what it had begun.
Forgets(new) ==
    /\ updating' = FALSE
    /\ update' = [u \in Updates |-> IF new[u].at \in {"dir", "check"} THEN [new[u] EXCEPT !.at = "lost"]
                                    ELSE IF new[u].at = "begun" THEN [new[u] EXCEPT !.at = "over"] ELSE new[u]]

\* The helper ends the panel that started it, waits half a minute for that, and installs.
HelperKills(u) ==
    /\ helper[u].at = "sleeps" /\ helper' = [helper EXCEPT ![u].at = "waits"]
    /\ UNCHANGED <<updating, update, panel, kills, restUpdate>>
HelperInstalls(u) ==
    /\ helper[u].at = "waits" /\ ~helper[u].old /\ helper' = [helper EXCEPT ![u].at = "installs"]
    /\ UNCHANGED <<updating, update, panel, kills, restUpdate>>

\* The file and the directory go in any case; an installed panel is a new one.
HelperEnds(u) ==
    /\ \/ helper[u].at = "installs"
       \/ helper[u].at = "waits" /\ helper[u].old
    /\ LET swept == [update EXCEPT ![u].dir = FALSE, ![u].file = "none"] IN
       IF helper[u].at = "installs" THEN panel' = "up" /\ Forgets(swept)
       ELSE update' = swept /\ UNCHANGED <<panel, updating>>
    /\ helper' = [v \in Updates |-> IF v = u THEN NoHelper
                                    ELSE [helper[v] EXCEPT !.old = @ /\ helper[u].at = "waits"]]
    /\ UNCHANGED <<kills, restUpdate>>

\* Ended by a helper, or by anything else.
PanelEnds ==
    /\ panel = "up" /\ part = "update"
    /\ \/ kills' = kills /\ \E u \in Updates : helper[u].at = "waits" /\ helper[u].old
       \/ kills < MaxKills /\ kills' = kills + 1
    /\ panel' = "down" /\ Forgets(update)
    /\ helper' = [u \in Updates |-> [helper[u] EXCEPT !.old = FALSE]]
    /\ UNCHANGED restUpdate
PanelStarts == panel = "down" /\ panel' = "up" /\ UNCHANGED <<updating, update, helper, kills, restUpdate>>

HelperStep(u) == HelperKills(u) \/ HelperInstalls(u) \/ HelperEnds(u)
UpdateStep(u) == Fails(u) \/ Begins(u) \/ MarkExpires(u) \/ \E sound \in BOOLEAN : Downloads(u, sound)
UpdateNext == PanelEnds \/ PanelStarts \/ \E u \in Updates : Asks(u) \/ UpdateStep(u) \/ HelperStep(u)

-----------------------------------------------------------------------------
\* Certificates

restTls == <<part, pubVars, listenVars, updateVars>>
Goes(i, at) == issuing' = [issuing EXCEPT ![i] = at]

\* mutant
AnyPort == TRUE
\* Port 80 is had, or nothing is done.
PortFree == port80 = None

IssueBegins(i) ==
    /\ part = "tls" /\ issuing[i] = "no"
    /\ IF PortFree THEN port80' = i /\ Goes(i, "key") ELSE UNCHANGED <<port80, issuing>>
    /\ UNCHANGED <<pair, restTls>>

\* mutant
NewKey == pair.made + 1
\* The key there is, or a new one that is written first.
KeyToUse == IF pair.key = 0 THEN pair.made + 1 ELSE pair.key

KeyRead(i) ==
    /\ issuing[i] = "key" /\ pair.made < 3
    /\ pair' = [pair EXCEPT !.key = KeyToUse, !.made = IF KeyToUse > @ THEN KeyToUse ELSE @]
    /\ Goes(i, "order")
    /\ UNCHANGED <<port80, restTls>>

\* The certificate for that key comes and is written in one piece.
CertWritten(i) ==
    /\ issuing[i] = "order"
    /\ pair' = [pair EXCEPT !.cert = pair.key]
    /\ Goes(i, "ends") /\ UNCHANGED <<port80, restTls>>

\* It does not come: the account, the challenge or the order fails, or the time is over.
IssueFails(i) == issuing[i] \in {"key", "order"} /\ Goes(i, "ends") /\ UNCHANGED <<port80, pair, restTls>>

\* mutant
KeepsPort(i) == port80
Frees(i) == None

IssueEnds(i) == issuing[i] = "ends" /\ port80' = Frees(i) /\ Goes(i, "no") /\ UNCHANGED <<pair, restTls>>

IssueStep(i) == KeyRead(i) \/ CertWritten(i) \/ IssueFails(i) \/ IssueEnds(i)
TlsNext == \E i \in Issuers : IssueBegins(i) \/ IssueStep(i)

-----------------------------------------------------------------------------

Next == PubNext \/ ListenNext \/ UpdateNext \/ TlsNext

\* Run looks every second; a worker's connection ends when its session is cancelled;
\* deadlines end the rest.
Scheduled ==
    /\ WF_serviceVars(RunStep) /\ \A w \in Workers : WF_serviceVars(WorkerStep(w))
    /\ WF_serviceVars(TakesSlot) /\ WF_serviceVars(AcceptEnds \/ Register) /\ WF_serviceVars(ListenerClosed)
    /\ \A c \in Conns : WF_serviceVars(ConnStep(c))
    /\ WF_serviceVars(PanelStarts)
    /\ \A u \in Updates : WF_serviceVars(UpdateStep(u)) /\ WF_serviceVars(HelperStep(u))
    /\ \A i \in Issuers : WF_serviceVars(IssueStep(i))

Spec == Init /\ [][Next]_serviceVars /\ Scheduled

-----------------------------------------------------------------------------

TypeOK ==
    /\ session \in {"none", "asks", "live", "cancelled"} /\ active \in 0..Cardinality(Workers)
    /\ \A c \in Conns : conn[c] \in {"out", "taken", "pending", "closing", "ready", "served", "closed", "cut"}
    /\ \A u \in Updates : update[u].at \in {"no", "dir", "check", "begun", "over", "failed", "lost"}
    /\ port80 \in Issuers \cup {None}

\* What is shown is of the relay that is in use, and nothing is served for one that
\* was left.
ShowsOurs ==
    /\ status.state = "connected" => status.host = current
    /\ status.state = "disabled" <=> current = None
    /\ \A w \in Workers : worker[w].at # "off" => worker[w].host = current

\* Every connection in detection has a slot; one that was handed on is not closed by
\* the listener, and none is left when it has closed.
PortKept ==
    /\ InUse <= Slots
    /\ \A c \in Conns : conn[c] # "cut" /\ (listener = "closed" => conn[c] # "pending")

\* Only an installer whose sum fits is run, one update is under way in a panel's life,
\* and one that failed or whose helper has ended leaves no directory.
UpdatesOne ==
    /\ \A u \in Updates : helper[u].at # "none" => helper[u].sound
    /\ Cardinality({u \in Updates : update[u].at \in {"dir", "check", "begun"}}) <= 1
    /\ \A u \in Updates : update[u].at = "failed" \/ (update[u].at = "over" /\ helper[u].at = "none") => ~update[u].dir

\* A certificate is the one of the key beside it, and one issue is under way.
PairFits ==
    /\ pair.cert \in {None, pair.key}
    /\ Cardinality({i \in Issuers : issuing[i] # "no"}) <= 1

ServicesKept == ShowsOurs /\ PortKept /\ UpdatesOne /\ PairFits

\* A relay that is no longer wanted, a connection neither served nor closed, a
\* helper, an update's mark without an update, or port 80 after an issue.
Lasting ==
    \/ current # wanted
    \/ \E c \in Conns : conn[c] \in {"taken", "pending", "closing", "ready"}
    \/ updating \/ panel = "down" \/ \E u \in Updates : helper[u].at # "none"
    \/ port80 # None

\* None of that lasts.
SettlesDown == []<>~Lasting

-----------------------------------------------------------------------------
\* The inductive invariant

Up == {w \in Workers : worker[w].at \in {"says", "serves"}}

\* A connection lives in the session that made it, and each that is up is counted.
Publishing ==
    /\ session \in {"none", "asks", "live", "cancelled"}
    /\ current \in Hosts \cup {None} /\ wanted \in Hosts \cup {None}
    /\ session = "none" <=> current = None
    /\ worker \in [Workers -> [at : {"off", "dial", "says", "serves", "tells"}, host : Hosts \cup {None}]]
    /\ session \in {"none", "asks"} => AllGone
    /\ active = Cardinality(Up)

Listening ==
    /\ conn \in [Conns -> {"out", "taken", "pending", "closing", "ready", "served", "closed", "cut"}]
    /\ accepting.at \in {"accept", "slot", "register", "ended"}
    /\ accepting.conn \in Conns \cup {None}

UnderWay == {u \in Updates : update[u].at \in {"dir", "check", "begun"}}

\* The mark stands while an update is under way, and one whose helper has ended has
\* been cleaned.
Updating ==
    /\ update \in [Updates -> [at : {"no", "dir", "check", "begun", "over", "failed", "lost"},
                               dir : BOOLEAN, file : {"none", "sound", "bad"}]]
    /\ helper \in [Updates -> [at : {"none", "sleeps", "waits", "installs"}, sound : BOOLEAN, old : BOOLEAN]]
    /\ \A u \in Updates : helper[u].at # "none" => helper[u].sound
    /\ \A u \in UnderWay : updating /\ \A v \in UnderWay : u = v
    /\ \A u \in Updates : update[u].at = "failed" => ~update[u].dir
    /\ \A u \in Updates : update[u].at \in {"begun", "over"} /\ helper[u].at = "none" => ~update[u].dir

\* Whoever has port 80 is the one that issues, and it has a key when it orders.
Issuing ==
    /\ issuing \in [Issuers -> {"no", "key", "order", "ends"}]
    /\ port80 \in Issuers \cup {None}
    /\ \A i \in Issuers : issuing[i] # "no" => port80 = i
    /\ pair.key \in Nat /\ pair.made \in Nat /\ pair = [key |-> pair.key, cert |-> pair.cert, made |-> pair.made]
    /\ pair.cert \in {None, pair.key}
    /\ pair.key = 0 => pair.cert = None
    /\ \A i \in Issuers : issuing[i] = "order" => pair.key # 0

IInv == Publishing /\ ShowsOurs /\ Listening /\ PortKept /\ Updating /\ Issuing
=============================================================================
