------------------------------- MODULE FlowRelay -------------------------------
\* The ends of the tunnel, where packets become connections: the L4 exit
\* (tunnel.go), the device's packet stack over a tunnel (packettunnel.go)
\* or over streams (streamnet.go, fakedns.go), the SOCKS5 server
\* (socks5.go) and the HTTP proxy (httpproxy.go). Each takes a connection
\* on one side, dials one on the other and copies both ways; the exit and
\* the SOCKS5 server do it for datagrams too.
\*
\* The two stacks (gVisor, the host's) are external: a socket delivers
\* what was written to it. What is copied is counted, not looked at. An
\* end that has finished sending says so.
EXTENDS Naturals, FiniteSets

CONSTANTS
    Scenes,     \* a relay, what runs through it and its TCP connections
    Conns,      \* TCP connections
    MaxSent,    \* pieces an end sends on a connection (a bound)
    Room,       \* 256: SOCKS5 clients, UDP flows of an exit
    UdpFlows,   \* (source, destination) pairs
    Sockets,    \* UDP sockets an association dials, one after another (a bound)
    Names, DnsSize,     \* names asked for; fakeDNSSize
    None

VARIABLES
    scene,
    conn,       \* connection -> the relay's two sockets and its two copiers
    closed,     \* Close / Stop has been called
    flow,       \* UDP flow -> "none", "dial", "run", "closing"
    slots,      \* udpFlows
    assoc,      \* a UDP association: its map, its reader, the sockets and their goroutines
    dns         \* fakeDNS, and the answers the device holds

relayVars == <<scene, conn, closed, flow, slots, assoc, dns>>

Relay == scene.relay
Runs(part) == part \in scene.parts

\* up is from the device to the network.
Dirs == {"up", "down"}
Both(x) == [d \in Dirs |-> x]

NoConn == [at |-> "none", app |-> "none", far |-> "none", sent |-> Both(0), read |-> Both(0),
           fin |-> Both(FALSE), copier |-> Both("off"), why |-> None]
Indexes == 1..(DnsSize - 1)

Init ==
    /\ scene \in Scenes
    /\ conn = [c \in Conns |-> NoConn]
    /\ closed = FALSE
    /\ flow = [f \in UdpFlows |-> "none"] /\ slots = 0
    /\ assoc = [at |-> "open", closing |-> FALSE, pinned |-> None, map |-> None, hand |-> None,
                open |-> {}, answers |-> {}, used |-> 0]
    /\ dns = [byName |-> [n \in Names |-> None], names |-> [i \in Indexes |-> None], next |-> 1, held |-> {}]

dataVars == <<flow, slots, assoc, dns>>

-----------------------------------------------------------------------------
\* A connection is taken

\* mutant
TakesAll(r) == TRUE
\* The exit and the packet stack complete the handshake and dial then; the others
\* answer when they know.
TakesFirst(r) == r \in {"exit", "packet"}

Set(c, new) == conn' = [conn EXCEPT ![c] = new]
With(c, at, app, far) == Set(c, [conn[c] EXCEPT !.at = at, !.app = app, !.far = far])

\* Connections a handler has: the clients of the SOCKS5 server.
Handled == {c \in Conns : conn[c].at \in {"dial", "answer", "splice"}}

\* The device, or a program on it, opens a connection.
Knock(c) ==
    /\ Runs("tcp") /\ c \in scene.conns /\ conn[c].at = "none"
    /\ ~closed \/ Relay = "socks"
    /\ IF Relay = "socks" /\ (closed \/ Cardinality(Handled) >= Room)
       THEN With(c, "ended", "closed", "none")
       ELSE With(c, "dial", IF TakesFirst(Relay) THEN "open" ELSE "waiting", "none")
    /\ UNCHANGED <<scene, closed, dataVars>>

\* It gives up before it was answered.
GivesUp(c) ==
    /\ conn[c].at \in {"dial", "answer"} /\ conn[c].app = "waiting"
    /\ With(c, conn[c].at, "gone", conn[c].far)
    /\ UNCHANGED <<scene, closed, dataVars>>

\* The dial is refused or comes to its time; the one that took first has to hang up.
DialFails(c) ==
    /\ conn[c].at = "dial"
    /\ With(c, "ended", CASE conn[c].app = "waiting" -> "refused" [] OTHER -> "closed", "none")
    /\ UNCHANGED <<scene, closed, dataVars>>

Splice(c) == Set(c, [conn[c] EXCEPT !.at = "splice", !.copier = Both("run"), !.far = "open",
                                    !.app = IF @ = "waiting" THEN "open" ELSE @])

Dialled(c) ==
    /\ conn[c].at = "dial"
    /\ ~(Relay = "stream" /\ closed)
    /\ IF TakesFirst(Relay) THEN Splice(c) ELSE With(c, "answer", conn[c].app, "open")
    /\ UNCHANGED <<scene, closed, dataVars>>

\* The device is told that its connection is there.
Answered(c) ==
    /\ conn[c].at = "answer" /\ conn[c].app = "waiting"
    /\ IF conn[c].far = "open" THEN Splice(c) ELSE With(c, "ended", "closed", "closed")
    /\ UNCHANGED <<scene, closed, dataVars>>

\* It cannot be told: it has gone, or there is no endpoint for it.
AnswerFails(c) ==
    /\ conn[c].at = "answer"
    /\ With(c, "ended", IF conn[c].app = "waiting" THEN "refused" ELSE "closed", "closed")
    /\ UNCHANGED <<scene, closed, dataVars>>

-----------------------------------------------------------------------------
\* The two copiers

Spliced(c) == conn[c].at = "splice"
Cut(c) == conn[c].app # "open" \/ conn[c].far # "open"

\* An end sends, and says that it has finished.
Sends(c, d) ==
    /\ Spliced(c) /\ ~Cut(c) /\ ~conn[c].fin[d] /\ conn[c].sent[d] < MaxSent
    /\ Set(c, [conn[c] EXCEPT !.sent[d] = @ + 1])
    /\ UNCHANGED <<scene, closed, dataVars>>

Finishes(c, d) ==
    /\ Spliced(c) /\ ~conn[c].fin[d]
    /\ Set(c, [conn[c] EXCEPT !.fin[d] = TRUE])
    /\ UNCHANGED <<scene, closed, dataVars>>

\* io.Copy: what is read is written before more is read.
Copies(c, d) ==
    /\ Spliced(c) /\ conn[c].copier[d] = "run" /\ ~Cut(c)
    /\ conn[c].read[d] < conn[c].sent[d]
    /\ Set(c, [conn[c] EXCEPT !.read[d] = @ + 1])
    /\ UNCHANGED <<scene, closed, dataVars>>

\* mutant
AtOnce(c, d) == conn[c].fin[d]
\* The copier has read all that end sent.
AtEnd(c, d) == conn[c].fin[d] /\ conn[c].read[d] = conn[c].sent[d]

\* mutant
ClosesItsOwn(d) == IF d = "up" THEN {"far"} ELSE {}
\* What a copier that ends closes: the SOCKS5 server's only what it wrote to, the
\* others both.
Closes(d) == IF Relay # "socks" THEN {"app", "far"} ELSE IF d = "up" THEN {"far"} ELSE {"app"}

CopierEnds(c, d) ==
    /\ Spliced(c) /\ conn[c].copier[d] = "run"
    /\ AtEnd(c, d) \/ Cut(c)
    /\ LET k == conn[c]
           both == k.copier[IF d = "up" THEN "down" ELSE "up"] = "done"
           app == IF "app" \in Closes(d) THEN "closed" ELSE k.app
           far == IF "far" \in Closes(d) THEN "closed" ELSE k.far
       IN  Set(c, [k EXCEPT !.copier[d] = "done", !.app = app, !.far = far,
                            !.at = IF both THEN "ended" ELSE @,
                            !.why = IF @ = None /\ ~Cut(c) THEN d ELSE @])
    /\ UNCHANGED <<scene, closed, dataVars>>

\* The SOCKS5 server closes its clients' connections; a stack closes its endpoints,
\* and a stream tunnel its streams with them.
Close ==
    /\ Runs("tcp") /\ Relay # "connect" /\ ~closed
    /\ closed' = TRUE
    /\ conn' = [c \in Conns |->
                  [conn[c] EXCEPT !.app = IF @ = "open" \/ (Relay = "socks" /\ @ = "waiting") THEN "closed" ELSE @,
                                  !.far = IF @ = "open" /\ Relay = "stream" THEN "closed" ELSE @]]
    /\ UNCHANGED <<scene, dataVars>>

TcpNext ==
    \/ Close
    \/ \E c \in Conns :
        \/ Knock(c) \/ GivesUp(c) \/ DialFails(c) \/ Dialled(c) \/ Answered(c) \/ AnswerFails(c)
        \/ \E d \in Dirs : Sends(c, d) \/ Finishes(c, d) \/ Copies(c, d) \/ CopierEnds(c, d)

-----------------------------------------------------------------------------
\* handleExitUDP

udpRest == <<scene, conn, closed, assoc, dns>>

\* The first packet of a flow: over the limit it is dropped.
UdpPacket(f) ==
    /\ Runs("udp") /\ flow[f] = "none" /\ slots < Room
    /\ slots' = slots + 1
    /\ flow' = [flow EXCEPT ![f] = "dial"]
    /\ UNCHANGED udpRest

\* mutant
KeepsSlot(n) == n
FreesSlot(n) == n - 1

\* There is no endpoint for it, or the dial fails.
UdpFails(f) ==
    /\ flow[f] = "dial"
    /\ flow' = [flow EXCEPT ![f] = "none"] /\ slots' = FreesSlot(slots)
    /\ UNCHANGED udpRest

UdpDialled(f) == flow[f] = "dial" /\ flow' = [flow EXCEPT ![f] = "run"] /\ UNCHANGED <<udpRest, slots>>

\* One pump reads nothing for udpIdleTimeout, or fails, and closes both sockets.
UdpPumpEnds(f) == flow[f] = "run" /\ flow' = [flow EXCEPT ![f] = "closing"] /\ UNCHANGED <<udpRest, slots>>

\* The other one ends for it.
UdpEnds(f) ==
    /\ flow[f] = "closing"
    /\ flow' = [flow EXCEPT ![f] = "none"] /\ slots' = slots - 1
    /\ UNCHANGED udpRest

UdpNext == \E f \in UdpFlows : UdpPacket(f) \/ UdpFails(f) \/ UdpDialled(f) \/ UdpPumpEnds(f) \/ UdpEnds(f)

-----------------------------------------------------------------------------
\* handleUDPAssociate: one destination; a socket is open while its number
\* is in assoc.open, and has its goroutine while it is in assoc.answers

assocRest == <<scene, conn, closed, flow, slots, dns>>
Assoc(new) == assoc' = new /\ UNCHANGED assocRest

\* A datagram of the client: one from elsewhere than the first is not taken.
Datagram(from) ==
    /\ Runs("assoc") /\ assoc.at = "open" /\ ~assoc.closing
    /\ assoc.pinned \in {None, from}
    /\ \/ assoc.map # None /\ Assoc([assoc EXCEPT !.pinned = from, !.at = "write", !.hand = assoc.map])
       \/ assoc.map = None /\ assoc.used < Sockets
          /\ Assoc([assoc EXCEPT !.pinned = from, !.at = "dial"])

\* The lock is not held while it dials.
AssocDialFails == assoc.at = "dial" /\ Assoc([assoc EXCEPT !.at = IF assoc.closing THEN "ended" ELSE "open"])

\* mutant
TakesDialled == TRUE
\* The association may have ended by then.
Wanted == ~assoc.closing

AssocDialled ==
    /\ assoc.at = "dial"
    /\ LET s == assoc.used + 1 IN
       IF Wanted
       THEN Assoc([assoc EXCEPT !.used = s, !.at = "write", !.hand = s, !.map = s,
                                !.open = @ \cup {s}, !.answers = @ \cup {s}])
       ELSE Assoc([assoc EXCEPT !.used = s, !.at = "ended"])

\* mutant
Whichever(s) == None
\* A socket is taken out of the map only if it is the one there.
Without(s) == IF assoc.map = s THEN None ELSE assoc.map

\* It is written to without the lock; a socket that fails is closed and taken out.
AssocWrites(ok) ==
    /\ assoc.at = "write"
    /\ ok => assoc.hand \in assoc.open
    /\ LET rest == IF assoc.closing THEN "ended" ELSE "open" IN
       IF ok THEN Assoc([assoc EXCEPT !.at = rest, !.hand = None])
       ELSE Assoc([assoc EXCEPT !.at = rest, !.hand = None, !.open = @ \ {assoc.hand}, !.map = Without(assoc.hand)])

\* The goroutine of socket s: two minutes without an answer, or the socket is closed.
AnswersClose(s) == s \in assoc.answers \cap assoc.open /\ Assoc([assoc EXCEPT !.open = @ \ {s}])
AnswersEnd(s) ==
    /\ s \in assoc.answers \ assoc.open
    /\ Assoc([assoc EXCEPT !.answers = @ \ {s}, !.map = Without(s)])

\* The control connection ends.
AssocEnds ==
    /\ Runs("assoc") /\ ~assoc.closing
    /\ Assoc([assoc EXCEPT !.closing = TRUE, !.open = @ \ {assoc.map}, !.at = IF @ = "open" THEN "ended" ELSE @])

AssocNext ==
    \/ \E from \in {"one", "two"} : Datagram(from)
    \/ AssocDialFails \/ AssocDialled \/ AssocEnds
    \/ \E ok \in BOOLEAN : AssocWrites(ok)
    \/ \E s \in 1..Sockets : AnswersClose(s) \/ AnswersEnd(s)

-----------------------------------------------------------------------------
\* fakeDNS

\* mutant
KeepsOld(old) == dns.byName
\* The name whose address is used again has none from then on.
Forgets(old) == IF old = None THEN dns.byName ELSE [dns.byName EXCEPT ![old] = None]

Following(i) == IF i + 1 >= DnsSize THEN 1 ELSE i + 1

\* An A query of name n: the device holds the answer; the older ones age as
\* addresses are given out.
Query(n) ==
    /\ Runs("dns")
    /\ LET known == dns.byName[n]
           i == IF known = None THEN dns.next ELSE known
           aged == IF known # None THEN dns.held
                   ELSE {[h EXCEPT !.age = @ + 1] : h \in {x \in dns.held : x.age + 1 < DnsSize - 1}}
       IN dns' = [byName |-> IF known = None THEN [Forgets(dns.names[i]) EXCEPT ![n] = i] ELSE dns.byName,
                  names |-> IF known = None THEN [dns.names EXCEPT ![i] = n] ELSE dns.names,
                  next |-> IF known = None THEN Following(dns.next) ELSE dns.next,
                  held |-> {h \in aged : h.name # n} \cup
                           {[name |-> n, index |-> i,
                             age |-> IF \E h \in aged : h.name = n THEN (CHOOSE h \in aged : h.name = n).age ELSE 0]}]
    /\ UNCHANGED <<scene, conn, closed, flow, slots, assoc>>

Next == TcpNext \/ UdpNext \/ AssocNext \/ \E n \in Names : Query(n)

\* A dial ends, an answer is given, a copier runs; a UDP flow's sockets, once
\* closed, end its pumps.
Scheduled ==
    /\ \A c \in Conns :
        /\ WF_relayVars(DialFails(c) \/ Dialled(c))
        /\ WF_relayVars(Answered(c) \/ AnswerFails(c))
        /\ \A d \in Dirs : WF_relayVars(Copies(c, d)) /\ WF_relayVars(CopierEnds(c, d))
    /\ \A f \in UdpFlows : WF_relayVars(UdpFails(f) \/ UdpDialled(f)) /\ WF_relayVars(UdpEnds(f))

Spec == Init /\ [][Next]_relayVars /\ Scheduled

-----------------------------------------------------------------------------

TypeOK ==
    /\ \A c \in Conns : /\ conn[c].app \in {"none", "waiting", "open", "gone", "refused", "closed"}
                        /\ conn[c].far \in {"none", "open", "closed"}
                        /\ \A d \in Dirs : conn[c].read[d] <= conn[c].sent[d]
    /\ slots \in 0..Room /\ assoc.open \subseteq 1..assoc.used /\ dns.next \in Indexes

\* Where the device is answered after the dial, it has a connection only when there
\* is one on the other side.
OpenMeansOpen == \A c \in Conns : Relay \notin {"exit", "packet"} /\ conn[c].app = "open" => conn[c].far # "none"

\* A connection that was ended by one of its ends has had all that end sent.
EndedWhole == \A c \in Conns : conn[c].why \in Dirs => conn[c].read[conn[c].why] = conn[c].sent[conn[c].why]

\* Every slot is one flow's.
SlotsCounted == slots = Cardinality({f \in UdpFlows : flow[f] # "none"})

\* A socket whose answers are awaited is the one in the map, until it is closed;
\* and an association that has ended leaves none open.
SocketsKept ==
    /\ \A s \in assoc.open : assoc.map = s
    /\ assoc.closing => assoc.open = {}

\* An answer stands for its name until all other addresses have been given out
\* since, and the address a name is answered with is its own.
NamesHold ==
    /\ \A h \in dns.held : dns.names[h.index] = h.name
    /\ \A n \in Names : dns.byName[n] # None => dns.names[dns.byName[n]] = n

RelaysRight == OpenMeansOpen /\ EndedWhole /\ SlotsCounted /\ SocketsKept /\ NamesHold

\* One of the relay's two sockets is closed and the other is not, a connection has
\* no answer, or a server that was closed still has a handler.
Unfinished ==
    \E c \in Conns :
        \/ conn[c].at = "splice" /\ Cut(c)
        \/ conn[c].app = "waiting"
        \/ conn[c].at = "ended" /\ (conn[c].app = "open" \/ conn[c].far = "open")
        \/ closed /\ conn[c].at \in {"dial", "answer", "splice"}

\* None of that lasts.
Finished == []<>~Unfinished

=============================================================================
