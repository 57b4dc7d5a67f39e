-------------------------------- MODULE ExitNat --------------------------------
\* The L3 exit (tunnel/l3): the client's packets leave the node under the
\* node's own address, and answers find the way back. A UDP flow has a
\* mapping and a kernel port kept for it (udp_nat.go); a TCP connection
\* keeps its port and is only tracked (conntrack.go); fragments are put
\* together first (reassembly.go) and a packet too long for the route is
\* cut (icmp.go). The transport's callback sends, three receive loops
\* answer, a sweeper forgets, and Stop takes it all down.
\*
\* Time is counted since the last packet of a flow. The network is
\* external: it brings anything, in any order.
EXTENDS Integers, FiniteSets, FiniteSetsExt

CONSTANTS
    Scenes,         \* what passes: the flows and datagrams of one run
    Ports,          \* what the kernel may give
    MaxMappings,    \* maxUDPMappings, ctMaxEntries
    Loops,          \* receive loops
    DnsTimeout, UdpTimeout, ClosingTimeout, EstablishedTimeout,
    MaxSets, MaxParts, MaxBytes,    \* fragmentFlowLimit, PartLimit, ByteLimit
    None

VARIABLES
    scene,
    forward, reverse, ports,    \* udpNAT, and the ports its sockets hold
    lock,       \* udpNAT.mu
    entries,    \* conntrack: flow -> [idle, dying]
    quiet,      \* the time since a segment of the flow passed
    up,         \* the transport's callback
    loop,       \* receive loop -> where it is
    turn,       \* recvMu
    stop,       \* Stop: which of its calls it is at
    sets, bytes, made       \* a reassembler, and the datagram it made last

natVars == <<scene, forward, reverse, ports, lock, entries, quiet, up, loop, turn, stop, sets, bytes, made>>

udpVars == <<forward, reverse, ports>>
tcpVars == <<entries, quiet>>
fragVars == <<sets, bytes, made>>

Part == scene.part
Flows == scene.flows
\* The other end's (address, port).
Remote(f) == f.remote

Init ==
    /\ scene \in Scenes
    /\ forward = [f \in Flows |-> None] /\ reverse = [k \in {} |-> None] /\ ports = {}
    /\ lock = None
    /\ entries = [f \in Flows |-> None] /\ quiet = [f \in Flows |-> None]
    /\ up = [at |-> "idle"]
    /\ loop = [l \in Loops |-> [at |-> IF Part = "fragments" THEN "ended" ELSE "top"]]
    /\ turn = None
    /\ stop = "no"
    /\ sets = [i \in {} |-> None] /\ bytes = 0 /\ made = None

UdpClosed == stop \in {"waits", "fds", "closing", "done"}
CtClosed == stop # "no"
FdsClosed == stop \in {"closing", "done"}

-----------------------------------------------------------------------------
\* UDP: udpNAT

Timeout(f, dying) ==
    CASE Part = "udp" /\ f.dns -> DnsTimeout
      [] Part = "udp" /\ ~f.dns -> UdpTimeout
      [] OTHER -> IF dying THEN ClosingTimeout ELSE EstablishedTimeout

MapExpired(f) == forward[f] # None /\ forward[f].idle > Timeout(f, FALSE)
Expired == {f \in Flows : MapExpired(f)}

Wire(f) == [port |-> forward[f].port, remote |-> Remote(f)]
Mapped == {f \in Flows : forward[f] # None}

\* mutant
LeavesReverse(fs) == {}
\* The reverse entries of the mappings fs.
Keys(fs) == {Wire(f) : f \in fs}

\* remove: out of both maps, and the port is closed.
Without(fs) ==
    [forward |-> [f \in Flows |-> IF f \in fs THEN None ELSE forward[f]],
     reverse |-> [k \in DOMAIN reverse \ Keys(fs) |-> reverse[k]],
     ports |-> ports \ {forward[f].port : f \in fs}]

Remove(fs) ==
    LET n == Without(fs) IN forward' = n.forward /\ reverse' = n.reverse /\ ports' = n.ports

Idle == up.at = "idle"

\* What goes before a mapping is made for f: its own if that has expired, and at the
\* limit all that have.
Gone(f) == IF Cardinality(Mapped \ ({f} \cap Expired)) >= MaxMappings THEN Expired ELSE Expired \cap {f}

\* mutant
SendsClosed == TRUE
\* A NAT that is closed takes nothing.
TakesDatagram == ~UdpClosed

\* A datagram of a flow that has a mapping, or has one made; the lock is kept over
\* the sending.
UdpMapped(f, port) ==
    /\ Part = "udp" /\ Idle /\ f \in Flows /\ lock = None /\ TakesDatagram
    /\ LET n == Without(Gone(f))
       IN  IF forward[f] # None /\ f \notin Expired
           THEN /\ port = forward[f].port
                /\ up' = [at |-> "send", flow |-> f, port |-> port, created |-> FALSE]
                /\ UNCHANGED udpVars
           ELSE /\ Cardinality(Mapped \ Gone(f)) < MaxMappings
                /\ port \in Ports \ n.ports
                /\ forward' = [n.forward EXCEPT ![f] = [port |-> port, idle |-> 0]]
                /\ LET k == [port |-> port, remote |-> Remote(f)]
                   IN  reverse' = [x \in DOMAIN n.reverse \cup {k} |-> IF x = k THEN f ELSE n.reverse[x]]
                /\ ports' = n.ports \cup {port}
                /\ up' = [at |-> "send", flow |-> f, port |-> port, created |-> TRUE]
    /\ lock' = "up"
    /\ UNCHANGED <<scene, tcpVars, loop, turn, stop, fragVars>>

\* There is no mapping to be had: what has expired goes all the same.
UdpRefused(f) ==
    /\ Part = "udp" /\ Idle /\ f \in Flows /\ lock = None /\ TakesDatagram
    /\ forward[f] = None \/ f \in Expired
    /\ Remove(Gone(f))
    /\ UNCHANGED <<scene, lock, tcpVars, up, loop, turn, stop, fragVars>>

\* The raw socket takes the datagram, whole or cut, or it does not: then a mapping
\* made for it is not kept.
UdpSent(ok) ==
    /\ up.at = "send" /\ Part = "udp"
    /\ ok => ~FdsClosed
    /\ IF ok THEN /\ forward' = IF forward[up.flow] = None THEN forward ELSE [forward EXCEPT ![up.flow].idle = 0]
                  /\ UNCHANGED <<reverse, ports>>
       ELSE IF up.created THEN Remove({up.flow} \cap Mapped) ELSE UNCHANGED udpVars
    /\ lock' = None /\ up' = [at |-> "idle"]
    /\ UNCHANGED <<scene, tcpVars, loop, turn, stop, fragVars>>

\* mutant
AnyTime == TRUE
\* The sweeper waits for the lock.
LockFree == lock = None

Sweep ==
    /\ Part = "udp" /\ LockFree /\ ~UdpClosed /\ Expired # {}
    /\ Remove(Expired)
    /\ UNCHANGED <<scene, lock, tcpVars, up, loop, turn, stop, fragVars>>

-----------------------------------------------------------------------------
\* TCP: conntrack

EntryExpired(f) == entries[f] # None /\ entries[f].idle > Timeout(f, entries[f].dying)
Tracked == {f \in Flows : entries[f] # None}
tcpRest == <<scene, udpVars, lock, loop, turn, stop, fragVars>>

\* mutant
KnownBefore(f) == entries[f]
\* Insert refreshes an entry, and never takes back that it is dying.
Refreshed(f) == [entries[f] EXCEPT !.idle = 0]

\* A segment of the client: past a full table, or one that is stopped, it is dropped.
TcpInsert(f, fin) ==
    /\ Part = "tcp" /\ Idle /\ f \in Flows
    /\ ~CtClosed /\ (entries[f] # None \/ Cardinality(Tracked) < MaxMappings)
    /\ entries' = [entries EXCEPT ![f] = IF @ = None THEN [idle |-> 0, dying |-> FALSE] ELSE Refreshed(f)]
    /\ quiet' = [quiet EXCEPT ![f] = 0]
    /\ up' = [at |-> IF fin THEN "touch" ELSE "send", flow |-> f]
    /\ UNCHANGED tcpRest

Touched(f, dying) ==
    IF entries[f] = None THEN entries
    ELSE [entries EXCEPT ![f] = [idle |-> 0, dying |-> @.dying \/ dying]]

Heard(f) == IF entries[f] = None THEN quiet ELSE [quiet EXCEPT ![f] = 0]

TcpTouch ==
    /\ up.at = "touch"
    /\ entries' = Touched(up.flow, TRUE) /\ quiet' = Heard(up.flow)
    /\ up' = [up EXCEPT !.at = "send"]
    /\ UNCHANGED tcpRest

TcpSent == Part = "tcp" /\ up.at = "send" /\ up' = [at |-> "idle"] /\ UNCHANGED <<tcpRest, tcpVars>>

TcpSweep ==
    /\ Part = "tcp" /\ ~CtClosed
    /\ \E f \in Flows : EntryExpired(f)
    /\ entries' = [f \in Flows |-> IF EntryExpired(f) THEN None ELSE entries[f]]
    /\ UNCHANGED <<tcpRest, quiet, up>>

-----------------------------------------------------------------------------
\* The receive loops

loopRest == <<scene, lock, up, stop, fragVars>>
Go(l, at) == loop' = [loop EXCEPT ![l] = at]

\* mutant
Unseen == FALSE
SeesClosed == FdsClosed

\* Round again, and into recvfrom, unless the sockets are closed.
LoopTop(l) ==
    /\ loop[l].at = "top"
    /\ Go(l, [at |-> IF SeesClosed THEN "ended" ELSE "recv"])
    /\ UNCHANGED <<loopRest, udpVars, tcpVars, turn>>

\* A packet for port p from remote r, or a second without one.
LoopGets(l, p, r) == loop[l].at = "recv" /\ Go(l, [at |-> "have", key |-> [port |-> p, remote |-> r]])
                     /\ UNCHANGED <<loopRest, udpVars, tcpVars, turn>>
LoopNothing(l) == loop[l].at = "recv" /\ Go(l, [at |-> "top"]) /\ UNCHANGED <<loopRest, udpVars, tcpVars, turn>>

LoopTurn(l) ==
    /\ loop[l].at = "have" /\ turn = None
    /\ turn' = l /\ Go(l, [loop[l] EXCEPT !.at = "call"])
    /\ UNCHANGED <<loopRest, udpVars, tcpVars>>

\* translateReply, and translateICMP, which leaves the mapping as it is.
UdpAnswer(l, icmp) ==
    /\ Part = "udp" /\ loop[l].at = "call" /\ lock = None
    /\ LET k == loop[l].key IN
       IF UdpClosed \/ k \notin DOMAIN reverse THEN UNCHANGED udpVars
       ELSE IF MapExpired(reverse[k]) THEN IF icmp THEN UNCHANGED udpVars ELSE Remove({reverse[k]})
       ELSE /\ forward' = IF icmp THEN forward ELSE [forward EXCEPT ![reverse[k]].idle = 0]
            /\ UNCHANGED <<reverse, ports>>
    /\ turn' = None /\ Go(l, [at |-> "top"])
    /\ UNCHANGED <<loopRest, tcpVars>>

Answers(k) == {f \in Flows : f.src = k.port /\ Remote(f) = k.remote}

\* Exists, and then Touch: two holds of the table's lock.
TcpAnswer(l) ==
    /\ Part = "tcp" /\ loop[l].at = "call"
    /\ LET fs == {f \in Answers(loop[l].key) : entries[f] # None /\ ~EntryExpired(f)} IN
       IF fs = {} THEN turn' = None /\ Go(l, [at |-> "top"])
       ELSE turn' = turn /\ Go(l, [loop[l] EXCEPT !.at = "live"])
    /\ UNCHANGED <<loopRest, udpVars, tcpVars>>

TcpPasses(l, fin, icmp) ==
    /\ loop[l].at = "live"
    /\ LET f == CHOOSE f \in Answers(loop[l].key) : TRUE
       IN  IF icmp THEN UNCHANGED tcpVars ELSE entries' = Touched(f, fin) /\ quiet' = Heard(f)
    /\ turn' = None /\ Go(l, [at |-> "top"])
    /\ UNCHANGED <<loopRest, udpVars>>

LoopStep(l) ==
    \/ LoopTop(l) \/ LoopNothing(l) \/ LoopTurn(l) \/ TcpAnswer(l)
    \/ \E fin, icmp \in BOOLEAN : TcpPasses(l, fin, icmp)
    \/ \E icmp \in BOOLEAN : UdpAnswer(l, icmp)

-----------------------------------------------------------------------------
\* Stop

stopRest == <<scene, tcpVars, up, loop, turn, fragVars>>

\* ct.Close.
StopCt == Part # "fragments" /\ stop = "no" /\ stop' = "ct" /\ UNCHANGED <<stopRest, udpVars, lock>>

\* udp.Close: it has the lock while it closes, and then waits for the sweeper.
StopUdp ==
    /\ stop = "ct" /\ lock = None
    /\ stop' = "waits" /\ Remove(Mapped)
    /\ UNCHANGED <<stopRest, lock>>
SweeperEnds == stop = "waits" /\ lock = None /\ stop' = "fds" /\ UNCHANGED <<stopRest, udpVars, lock>>

\* backend.Close: no one is in recvfrom when the sockets go.
StopFds == stop = "fds" /\ stop' = "closing" /\ UNCHANGED <<stopRest, udpVars, lock>>
StopEnds ==
    /\ stop = "closing" /\ \A l \in Loops : loop[l].at # "recv"
    /\ stop' = "done"
    /\ UNCHANGED <<stopRest, udpVars, lock>>

-----------------------------------------------------------------------------
\* Fragments

\* fragmentIPv4: a fragment is as long as the route lets it be, in eights of bytes.
Chunk(mtu) == ((mtu - 20) \div 8) * 8
Cut(d) ==
    {[id |-> d.id, off |-> o, size |-> IF o + Chunk(d.mtu) < d.len THEN Chunk(d.mtu) ELSE d.len - o,
      more |-> o + Chunk(d.mtu) < d.len] :
     o \in {Chunk(d.mtu) * i : i \in 0..((d.len - 1) \div Chunk(d.mtu))}}

PartsEnd(p) == p.off + p.size

\* mutant
NoOverlap(s, p) == TRUE
Apart(s, p) == \A q \in s.parts : PartsEnd(p) <= q.off \/ PartsEnd(q) <= p.off

\* What is known of the datagram's end, and this fragment, go together.
EndsAgree(s, p) ==
    /\ s.end >= 0 => /\ PartsEnd(p) <= s.end
                     /\ p.more <=> PartsEnd(p) # s.end
    /\ ~p.more => \A q \in s.parts : PartsEnd(q) < PartsEnd(p)

\* mutant
KeepsCount(n) == 0
\* What a set that goes gives back of the bytes.
GivesBack(n) == n

NoSet == [parts |-> {}, total |-> 0, end |-> -1, bytes |-> 0]

Drop(i) ==
    /\ sets' = [j \in DOMAIN sets \ {i} |-> sets[j]]
    /\ bytes' = bytes - GivesBack(IF i \in DOMAIN sets THEN sets[i].bytes ELSE 0)

Full(s) == s.end >= 0 /\ (\E q \in s.parts : q.off = 0) /\ s.total = s.end

\* A fragment of any of the datagrams comes: once, again, or never.
Fragment(p) ==
    /\ Part = "fragments" /\ \E d \in scene.datagrams : p \in Cut(d)
    /\ p.id \in DOMAIN sets \/ Cardinality(DOMAIN sets) < MaxSets
    /\ LET s == IF p.id \in DOMAIN sets THEN sets[p.id] ELSE NoSet
           new == [parts |-> s.parts \cup {[off |-> p.off, size |-> p.size]}, total |-> s.total + p.size,
                   end |-> IF p.more THEN s.end ELSE PartsEnd(p), bytes |-> s.bytes + 20 + p.size]
           takes == /\ Cardinality(s.parts) < MaxParts /\ bytes + 20 + p.size <= MaxBytes
                    /\ Apart(s, p) /\ EndsAgree(s, p)
       IN  IF ~takes THEN Drop(p.id) /\ made' = made
           ELSE IF Full(new) THEN Drop(p.id) /\ made' = [parts |-> new.parts, end |-> new.end]
           ELSE /\ sets' = [j \in DOMAIN sets \cup {p.id} |-> IF j = p.id THEN new ELSE sets[j]]
                /\ bytes' = bytes + 20 + p.size
                /\ made' = made
    /\ UNCHANGED <<scene, udpVars, lock, tcpVars, up, loop, turn, stop>>

\* A set is thirty seconds old: found at the next fragment.
SetExpires(i) ==
    /\ i \in DOMAIN sets
    /\ Drop(i) /\ UNCHANGED <<scene, udpVars, lock, tcpVars, up, loop, turn, stop, made>>

-----------------------------------------------------------------------------

Older(e, most) == IF e = None \/ e.idle > most THEN e ELSE [e EXCEPT !.idle = @ + 1]
Tick ==
    /\ stop = "no"
    /\ \/ /\ Part = "udp"
          /\ forward' = [f \in Flows |-> Older(forward[f], UdpTimeout)] /\ UNCHANGED tcpVars
       \/ /\ Part = "tcp" /\ UNCHANGED forward
          /\ entries' = [f \in Flows |-> Older(entries[f], EstablishedTimeout)]
          /\ quiet' = [f \in Flows |-> IF quiet[f] \in {None, ClosingTimeout + 1} THEN quiet[f] ELSE quiet[f] + 1]
    /\ UNCHANGED <<scene, reverse, ports, lock, up, loop, turn, stop, fragVars>>

StopStep == StopCt \/ StopUdp \/ SweeperEnds \/ StopFds \/ StopEnds
UpEnds == TcpTouch \/ TcpSent \/ \E ok \in BOOLEAN : UdpSent(ok)

Next ==
    \/ \E f \in Flows : \/ UdpRefused(f)
                        \/ \E p \in Ports : UdpMapped(f, p)
                        \/ \E fin \in BOOLEAN : TcpInsert(f, fin)
    \/ UpEnds \/ Sweep \/ TcpSweep \/ Tick \/ StopStep
    \/ \E l \in Loops : LoopStep(l) \/ \E f \in Flows, p \in Ports : LoopGets(l, p, Remote(f))
    \/ \E d \in scene.datagrams : \E p \in Cut(d) : Fragment(p)
    \/ \E i \in DOMAIN sets : SetExpires(i)

\* A call that was begun goes on; Stop gets the lock in its turn.
Scheduled ==
    /\ WF_natVars(UpEnds) /\ WF_natVars(Sweep) /\ WF_natVars(TcpSweep)
    /\ \A l \in Loops : WF_natVars(LoopStep(l))
    /\ SF_natVars(StopUdp) /\ WF_natVars(SweeperEnds \/ StopFds \/ StopEnds)

Spec == Init /\ [][Next]_natVars /\ Scheduled

-----------------------------------------------------------------------------

TypeOK ==
    /\ lock \in {None, "up"} /\ turn \in Loops \cup {None}
    /\ \A f \in Mapped : forward[f].port \in Ports
    /\ Cardinality(Mapped) <= MaxMappings /\ Cardinality(Tracked) <= MaxMappings
    /\ bytes <= MaxBytes /\ Cardinality(DOMAIN sets) <= MaxSets

\* The two maps say the same, every mapping has a port of its own, and no port is
\* held without one; a NAT that was closed holds none.
MapsMatch ==
    /\ DOMAIN reverse = {Wire(f) : f \in Mapped} /\ \A f \in Mapped : reverse[Wire(f)] = f
    /\ ports = {forward[f].port : f \in Mapped}
    /\ \A f, g \in Mapped : f # g => forward[f].port # forward[g].port
    /\ UdpClosed => ports = {}

\* A datagram that is being sent leaves from the port its flow has.
PortKept == up.at = "send" /\ Part = "udp" => forward[up.flow] # None /\ forward[up.flow].port = up.port

\* A connection is tracked for as long as the shortest of its times after any segment
\* of it.
InUseKept == \A f \in Flows : quiet[f] # None /\ quiet[f] <= ClosingTimeout /\ ~CtClosed => entries[f] # None

\* The parts fill 0..end without a gap, none over another.
Tiles(parts, end) ==
    /\ \A p \in parts : p.off = 0 \/ \E q \in parts : PartsEnd(q) = p.off
    /\ \E p \in parts : PartsEnd(p) = end
    /\ \A p, q \in parts : p # q => p.off >= PartsEnd(q) \/ q.off >= PartsEnd(p)

\* A datagram that was put together has all of its bytes; one that is cut, too.
WholeOnly ==
    /\ made # None => Tiles(made.parts, made.end)
    /\ Part = "fragments" => \A d \in scene.datagrams : Tiles(Cut(d), d.len) /\ \A p \in Cut(d) : p.size + 20 <= d.mtu

\* The bytes counted are those of the sets.
BytesCounted == bytes = MapThenSumSet(LAMBDA i : sets[i].bytes, DOMAIN sets)

ExitRight == MapsMatch /\ PortKept /\ InUseKept /\ WholeOnly /\ BytesCounted

\* Stop has been called and has not ended, or a loop goes on after it; or a flow
\* that has expired is still there.
Lingers ==
    \/ stop \notin {"no", "done"}
    \/ stop = "done" /\ \E l \in Loops : loop[l].at # "ended"
    \/ ~UdpClosed /\ Expired # {}
    \/ ~CtClosed /\ \E f \in Flows : EntryExpired(f)

\* None of that lasts.
Ends == []<>~Lingers

=============================================================================
