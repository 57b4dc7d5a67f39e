----------------------------- MODULE HostProofs -----------------------------
\* Theorems about parts of a core, for any sizes.  The firewall guard is
\* the module this one extends: that every L3 core runs behind the table
\* is proved for a panel that can remove its journal whenever it could
\* read it; without that it is false.  Each of the others is an instance,
\* its variables told apart by a letter.
EXTENDS L3Guard, Sequences, SequenceTheorems, FiniteSetTheorems, TLAPS

CONSTANT None

-----------------------------------------------------------------------------
\* The invariant.

\* The journal is there before the table is made.
JournalFirst == call = "create" => journal

\* Clear removes our table, and the journal only without it.
RemoveOurs ==
  /\ call = "remove" => table = "ours"
  /\ call = "unlink" => table # "ours"

\* A guard is ready from the making of the table to the end of Clear.
ReadyMeansTable ==
  /\ ready /\ call # "unlink" => table = "ours"
  /\ call = "launch" => ready
  /\ call \in {"check", "write", "create"} => ~ready

\* Clear runs for no core, and cores run for a guard that is ready.
ClearAlone == call \in ClearCalls => running = {}
CoresNeedReady == running # {} => ready

\* Before it is up a panel only clears, with a new Guard.
BootClears ==
  /\ panel = "boot" => call \in ClearCalls
  /\ panel # "up" => ~ready /\ running = {}
  /\ panel = "down" => call = "none"

\* What holds whatever fails.
Always ==
  /\ TypeOK
  /\ Journaled
  /\ JournalFirst
  /\ RemoveOurs
  /\ BootClears

\* The rest needs journals that can be removed.
IInv == Always /\ (~UnlinkFaults => ReadyMeansTable /\ ClearAlone /\ CoresNeedReady)

LEMMA InitIInv == Init => IInv
BY DEF Init, IInv, Always, TypeOK, Journaled, JournalFirst, RemoveOurs, BootClears, ReadyMeansTable, ClearAlone, CoresNeedReady,
  EnsureCalls, ClearCalls

LEMMA AlwaysStep == Always /\ [Next]_vars => Always'
<1> SUFFICES ASSUME Always, [Next]_vars PROVE Always'
  OBVIOUS
<1> USE FaultsAssumption
    DEF Always, TypeOK, Journaled, JournalFirst, RemoveOurs, BootClears, EnsureCalls, ClearCalls
<1>1. CASE Prepare
  BY <1>1 DEF Prepare
<1>2. CASE CoreEnds
  BY <1>2 DEF CoreEnds, ReleaseIfLast, Goto
<1>3. CASE Check
  BY <1>3 DEF Check, Fails, Return, StartIfClean, Goto
<1>4. CASE Write
  BY <1>4 DEF Write, Fails, Return, StartIfClean, Goto, WriteJournal
<1>5. CASE Create
  BY <1>5 DEF Create, Goto
<1>6. CASE Launch
  BY <1>6 DEF Launch, Return, StartIfClean, Goto
<1>7. CASE Read
  <2>1. CASE journal /\ ~Fails(Faults)
    <3>1. Goto("lookup") /\ UNCHANGED <<ready, journal, table, running>>
      BY <1>7, <2>1 DEF Read
    <3> QED BY <1>7, <3>1 DEF Read, Goto
  <2>2. CASE Fails(Faults)
    BY <1>7, <2>2 DEF Read, Fails, Return, StartIfClean
  <2>3. CASE ~journal /\ ~Fails(Faults)
    <3>1. ~ready' /\ ready' \in BOOLEAN /\ panel' = "up" /\ call' = "none"
      BY <1>7, <2>3, Zenon DEF Read, Return, StartIfClean
    <3>2. UNCHANGED <<journal, table, running>>
      BY <1>7, <2>3 DEF Read
    <3> QED BY <3>1, <3>2
  <2> QED BY <2>1, <2>2, <2>3
<1>8. CASE Lookup
  BY <1>8 DEF Lookup, Fails, Return, StartIfClean, Goto, OwnTable
<1>9. CASE Remove
  <2>1. CASE Fails(Faults)
    BY <1>9, <2>1 DEF Fails, Return, StartIfClean
  <2>2. CASE ~Fails(Faults)
    <3>1. table' = "none" /\ Goto("unlink") /\ UNCHANGED <<ready, journal, running>>
      BY <1>9, <2>2 DEF Remove
    <3> QED BY <1>9, <3>1 DEF Remove, Goto
  <2> QED BY <2>1, <2>2
<1>10. CASE Unlink
  <2>1. CASE Fails(UnlinkFaults)
    BY <1>10, <2>1 DEF Unlink, Fails, Return, StartIfClean
  <2>2. CASE ~Fails(UnlinkFaults)
    <3>1. /\ ~ready' /\ ready' \in BOOLEAN /\ ~journal' /\ journal' \in BOOLEAN
          /\ panel' = "up" /\ call' = "none"
      BY <1>10, <2>2, Zenon DEF Unlink, Return, StartIfClean
    <3>2. table # "ours" /\ UNCHANGED <<table, running>>
      BY <1>10, <2>2 DEF Unlink
    <3> QED BY <3>1, <3>2
  <2> QED BY <2>1, <2>2
<1>11. CASE Boot
  BY <1>11 DEF Boot
<1>12. CASE Crash
  BY <1>12 DEF Crash
<1>13. CASE Foreign
  BY <1>13 DEF Foreign
<1>14. CASE UNCHANGED vars
  BY <1>14 DEF vars
<1> QED BY <1>1, <1>2, <1>3, <1>4, <1>5, <1>6, <1>7, <1>8, <1>9, <1>10, <1>11, <1>12,
     <1>13, <1>14 DEF Next, GuardStep

\* What makes a running core guarded holds as long as Unlink does not fail.
LEMMA ReadyStep ==
  ~UnlinkFaults /\ IInv /\ [Next]_vars => (ReadyMeansTable /\ ClearAlone /\ CoresNeedReady)'
<1> SUFFICES ASSUME ~UnlinkFaults, IInv, [Next]_vars
             PROVE  (ReadyMeansTable /\ ClearAlone /\ CoresNeedReady)'
  OBVIOUS
<1>0. /\ ReadyMeansTable /\ ClearAlone /\ CoresNeedReady
      /\ TypeOK /\ RemoveOurs /\ BootClears
  BY DEF IInv, Always
<1> USE <1>0, FaultsAssumption
    DEF TypeOK, RemoveOurs, BootClears, ReadyMeansTable, ClearAlone, CoresNeedReady, EnsureCalls, ClearCalls
<1>1. CASE Prepare
  BY <1>1 DEF Prepare
<1>2. CASE CoreEnds
  BY <1>2 DEF CoreEnds, ReleaseIfLast, Goto
<1>3. CASE Check
  BY <1>3 DEF Check, Fails, Return, StartIfClean, Goto
<1>4. CASE Write
  BY <1>4 DEF Write, Fails, Return, StartIfClean, Goto, WriteJournal
<1>5. CASE Create
  BY <1>5 DEF Create, Goto
<1>6. CASE Launch
  BY <1>6 DEF Launch, Return, StartIfClean, Goto
<1>7. CASE Read
  <2>1. running = {} /\ UNCHANGED <<table, running>>
    BY <1>7 DEF Read, Fails
  <2>2. (call' = "none" \/ call' = "lookup") /\ (~ready' \/ ready' = ready)
    BY <1>7 DEF Read, Fails, Return, Goto
  <2>3. ready' \in BOOLEAN /\ call # "unlink"
    BY <1>7 DEF Read, Fails
  <2> QED BY <2>1, <2>2, <2>3
<1>8. CASE Lookup
  BY <1>8 DEF Lookup, Fails, Return, StartIfClean, Goto, OwnTable
<1>9. CASE Remove
  BY <1>9 DEF Remove, Fails, Return, StartIfClean, Goto
<1>10. CASE Unlink
  <2>1. /\ running = {} /\ UNCHANGED <<table, running>>
        /\ call' = "none" /\ ~ready' /\ ready' \in BOOLEAN
    BY <1>10 DEF Unlink, Fails, Return
  <2> QED BY <2>1
<1>11. CASE Boot
  BY <1>11 DEF Boot
<1>12. CASE Crash
  BY <1>12 DEF Crash
<1>13. CASE Foreign
  BY <1>13 DEF Foreign
<1>14. CASE UNCHANGED vars
  BY <1>14 DEF vars
<1> QED BY <1>1, <1>2, <1>3, <1>4, <1>5, <1>6, <1>7, <1>8, <1>9, <1>10, <1>11, <1>12,
     <1>13, <1>14 DEF Next, GuardStep

-----------------------------------------------------------------------------
\* The theorems.

\* The invariant above holds of every reachable state.
THEOREM Inductive == Spec => []IInv
<1>1. IInv /\ [Next]_vars => IInv'
  <2> SUFFICES ASSUME IInv, [Next]_vars PROVE IInv'
    OBVIOUS
  <2>1. Always'
    BY AlwaysStep DEF IInv
  <2>2. ~UnlinkFaults => (ReadyMeansTable /\ ClearAlone /\ CoresNeedReady)'
    BY ReadyStep
  <2> QED BY <2>1, <2>2 DEF IInv
<1> QED BY <1>1, InitIInv, PTL DEF Spec

\* The guard's state is well-formed.
THEOREM TypeCorrect == Spec => []TypeOK
<1>1. IInv => TypeOK
  BY DEF IInv, Always
<1> QED BY <1>1, Inductive, PTL

\* Our table never exists without the journal that lets the next panel find it,
\* whatever fails and whenever the panel is killed.
THEOREM AlwaysJournaled == Spec => []Journaled
<1>1. IInv => Journaled
  BY DEF IInv, Always
<1> QED BY <1>1, Inductive, PTL

\* No L3 core runs without the table, unless the journal of a table removed
\* could not be removed after it.
THEOREM CoresGuarded == ASSUME ~UnlinkFaults PROVE Spec => []Guarded
<1>1. IInv => Guarded
  <2> SUFFICES ASSUME IInv, running # {} PROVE table = "ours"
    BY DEF Guarded
  <2>1. ReadyMeansTable /\ ClearAlone /\ CoresNeedReady
    BY DEF IInv
  <2> QED BY <2>1 DEF ReadyMeansTable, ClearAlone, CoresNeedReady, ClearCalls
<1> QED BY <1>1, Inductive, PTL

\* A panel comes up only once nothing of ours is left.
THEOREM StartsClean == Spec => CleanStart
<1>1. IInv /\ [Next]_vars
        => [panel = "boot" /\ panel' = "up" => table' # "ours" /\ ~journal' /\ ~ready']_vars
  <2> SUFFICES ASSUME IInv, Next, panel = "boot", panel' = "up"
               PROVE  table' # "ours" /\ ~journal' /\ ~ready'
    BY DEF vars
  <2>1. call \in ClearCalls /\ ~ready /\ TypeOK /\ Journaled /\ (call = "unlink" => table # "ours")
    BY DEF IInv, Always, RemoveOurs, BootClears
  <2>2. Read \/ Lookup \/ Remove \/ Unlink
    BY <2>1 DEF Next, GuardStep, ClearCalls, Prepare, CoreEnds, Check, Write, Create, Launch, Boot, Crash, Foreign
  <2>3. ~Fails(Faults) /\ ~Fails(UnlinkFaults) /\ ~Fails(Faults \/ table = "foreign")
    BY DEF Fails, Return, StartIfClean
  <2>4. CASE Read
    <3>1. ~journal /\ ~ready' /\ UNCHANGED <<journal, table>>
      BY <2>3, <2>4 DEF Read, Goto
    <3> QED BY <3>1, <2>1 DEF Journaled
  <2>5. CASE Lookup \/ Remove
    BY <2>3, <2>5 DEF Lookup, Remove, Goto
  <2>6. CASE Unlink
    BY <2>1, <2>3, <2>6 DEF Unlink
  <2> QED BY <2>2, <2>4, <2>5, <2>6
<1> QED BY <1>1, Inductive, PTL DEF Spec, CleanStart

\* No call of ours changes a table of another program.
THEOREM ForeignUntouched == Spec => ForeignKept
<1>1. IInv /\ [Next]_vars => [table = "foreign" /\ table' # "foreign" => Foreign]_vars
  <2> SUFFICES ASSUME IInv, Next, table = "foreign", table' # "foreign" PROVE Foreign
    BY DEF vars
  <2>1. call # "remove"
    BY DEF IInv, Always, RemoveOurs
  <2>2. ~Remove /\ ~Create
    BY <2>1 DEF Remove, Create
  <2> QED BY <2>2 DEF Next, GuardStep, Prepare, CoreEnds, Check, Write, Launch, Read, Lookup, Unlink, Boot, Crash, Fails
<1> QED BY <1>1, Inductive, PTL DEF Spec, ForeignKept

-----------------------------------------------------------------------------
\* Where packets become connections (FlowRelay)

CONSTANTS
    \* of FlowRelay: its Scenes, Conns, MaxSent, Room, UdpFlows, Sockets, Names, DnsSize
    Ways, Callers, MostSent, Seats, Talks, Plugs, Hostnames, Addresses

\* Flows are finitely many, the fake addresses at least one; no name and no number is None.
ASSUME RelayAssumption ==
    /\ IsFiniteSet(Talks) /\ Seats \in Nat /\ Addresses \in Nat \ {0, 1}
    /\ None \notin Nat /\ None \notin Hostnames /\ None \notin {"up", "down"}

VARIABLES rScene, rConn, rClosed, rFlow, rSlots, rAssoc, rDns

relayVars == <<rScene, rConn, rClosed, rFlow, rSlots, rAssoc, rDns>>

Relay == INSTANCE FlowRelay WITH
    scene <- rScene, conn <- rConn, closed <- rClosed, flow <- rFlow,
    slots <- rSlots, assoc <- rAssoc, dns <- rDns, Scenes <- Ways,
    Conns <- Callers, MaxSent <- MostSent, Room <- Seats, UdpFlows <- Talks,
    Sockets <- Plugs, Names <- Hostnames, DnsSize <- Addresses

\* A connection whose first end has come has lost one of its sockets, and sends no more.
Conns ==
    [at : {"none", "dial", "answer", "splice", "ended"},
     app : {"none", "waiting", "open", "gone", "refused", "closed"}, far : {"none", "open", "closed"},
     sent : [Relay!Dirs -> Nat], read : [Relay!Dirs -> Nat], fin : [Relay!Dirs -> BOOLEAN],
     copier : [Relay!Dirs -> {"off", "run", "done"}], why : {None} \cup Relay!Dirs]
Sound(k) ==
    /\ \A d \in Relay!Dirs : k.read[d] <= k.sent[d]
    /\ k.at \in {"none", "dial", "answer"} => k.why = None
    /\ k.why # None => (k.app # "open" \/ k.far # "open") /\ k.read[k.why] = k.sent[k.why]
    /\ ~Relay!TakesFirst(Relay!Relay) /\ k.app = "open" => k.far # "none"
Joined == rConn \in [Callers -> Conns] /\ \A c \in Callers : Sound(rConn[c])

\* The slots taken are those of the flows there are.
Alive == {f \in Talks : rFlow[f] # "none"}
Counted ==
    /\ rFlow \in [Talks -> {"none", "dial", "run", "closing"}]
    /\ rSlots = Cardinality(Alive) /\ rSlots <= Seats

\* While an association dials it has no socket.
Assocs ==
    [at : {"open", "dial", "write", "ended"}, closing : BOOLEAN, pinned : {None, "one", "two"},
     map : {None} \cup Nat, hand : {None} \cup Nat, open : SUBSET Nat, answers : SUBSET Nat, used : Nat]
Plugged ==
    /\ rAssoc \in Assocs
    /\ rAssoc.open \subseteq 1..rAssoc.used
    /\ \A s \in rAssoc.open : rAssoc.map = s
    /\ rAssoc.closing => rAssoc.open = {}
    /\ rAssoc.at = "dial" => rAssoc.map = None /\ rAssoc.open = {}

\* An address has one name and a name one address; an answer that is held was given as
\* many addresses ago as it is old.
Answers == [name : Hostnames, index : Relay!Indexes, age : Nat]
Tables ==
    [byName : [Hostnames -> {None} \cup Relay!Indexes], names : [Relay!Indexes -> {None} \cup Hostnames],
     next : Relay!Indexes, held : SUBSET Answers]
Ago(next, h) ==
    /\ next - h.index = h.age + 1 \/ next + (Addresses - 1) - h.index = h.age + 1
    /\ h.age + 1 < Addresses
Fits(t) ==
    /\ \A n \in Hostnames : t.byName[n] # None => t.names[t.byName[n]] = n /\ \E h \in t.held : h.name = n
    /\ \A i \in Relay!Indexes : t.names[i] # None => t.byName[t.names[i]] = i
    /\ \A h \in t.held : t.names[h.index] = h.name /\ Ago(t.next, h)
Sits == rDns \in Tables /\ Fits(rDns)

RelayInv == Joined /\ Counted /\ Plugged /\ Sits

LEMMA RelayInit == Relay!Init => RelayInv
<1> SUFFICES ASSUME Relay!Init PROVE RelayInv
  OBVIOUS
<1>1. Joined
  <2>1. PICK k : k = Relay!NoConn
    OBVIOUS
  <2>2. rConn = [c \in Callers |-> k]
    BY <2>1 DEF Relay!Init
  <2>3. k \in Conns /\ Sound(k)
    BY <2>1 DEF Relay!NoConn, Relay!Both, Relay!Dirs, Conns, Sound
  <2> QED BY <2>2, <2>3 DEF Joined
<1>2. Counted
  <2>1. Alive = {}
    BY DEF Relay!Init, Alive
  <2>2. Cardinality(Alive) = 0
    BY <2>1, FS_EmptySet
  <2> QED BY <2>2, RelayAssumption DEF Relay!Init, Counted
<1>3. Plugged
  BY DEF Relay!Init, Plugged, Assocs
<1>4. Sits
  <2>1. 1 \in Relay!Indexes
    BY RelayAssumption DEF Relay!Indexes
  <2> QED BY <2>1 DEF Relay!Init, Sits, Tables, Fits
<1> QED BY <1>1, <1>2, <1>3, <1>4 DEF RelayInv

-----------------------------------------------------------------------------
\* Connections.

LEMMA RelaySets ==
    ASSUME Joined, NEW c \in Callers, NEW k \in Conns, Sound(k), Relay!Set(c, k), UNCHANGED rScene
    PROVE  Joined'
<1>2. rConn' = [rConn EXCEPT ![c] = k] /\ rConn \in [Callers -> Conns] /\ \A b \in Callers : Sound(rConn[b])
  BY DEF Relay!Set, Joined
<1>3. rConn' \in [Callers -> Conns] /\ rConn'[c] = k /\ \A b \in Callers : b # c => rConn'[b] = rConn[b]
  BY <1>2
<1>4. ASSUME NEW b \in Callers PROVE Sound(rConn[b])'
  BY <1>2, <1>3, <1>4 DEF Sound, Relay!TakesFirst, Relay!Relay
<1> QED BY <1>3, <1>4 DEF Joined

LEMMA RelayWith ==
    ASSUME Joined, NEW c \in Callers, NEW at \in {"dial", "answer", "ended"},
           NEW app \in {"none", "waiting", "open", "gone", "refused", "closed"}, NEW far \in {"none", "open", "closed"},
           rConn[c].at \in {"none", "dial", "answer"}, Relay!With(c, at, app, far), UNCHANGED rScene,
           ~Relay!TakesFirst(Relay!Relay) /\ app = "open" => far # "none"
    PROVE  Joined'
<1>1. PICK b \in Conns : b = rConn[c] /\ Sound(b)
  BY DEF Joined
<1>2. PICK k : k = [b EXCEPT !.at = at, !.app = app, !.far = far]
  OBVIOUS
<1>3. k \in Conns /\ k.app = app /\ k.far = far /\ k.why = b.why /\ k.read = b.read /\ k.sent = b.sent
  BY <1>2 DEF Conns
<1>4. b.why = None /\ None \notin Relay!Dirs
  BY <1>1, RelayAssumption DEF Sound, Relay!Dirs
<1>5. Sound(k)
  BY <1>1, <1>3, <1>4 DEF Sound
<1>6. Relay!Set(c, k)
  BY <1>1, <1>2 DEF Relay!With
<1> QED BY <1>3, <1>5, <1>6, RelaySets

LEMMA RelaySplices ==
    ASSUME Joined, NEW c \in Callers, rConn[c].at \in {"dial", "answer"}, Relay!Splice(c), UNCHANGED rScene
    PROVE  Joined'
<1>1. PICK b \in Conns : b = rConn[c] /\ Sound(b)
  BY DEF Joined
<1>2. PICK a \in {"none", "waiting", "open", "gone", "refused", "closed"} : a = IF b.app = "waiting" THEN "open" ELSE b.app
  BY DEF Conns
<1>3. PICK k : k = [b EXCEPT !.at = "splice", !.copier = Relay!Both("run"), !.far = "open", !.app = a]
  OBVIOUS
<1>4. k \in Conns /\ k.far = "open" /\ k.why = b.why /\ k.read = b.read /\ k.sent = b.sent
  BY <1>3 DEF Conns, Relay!Both
<1>5. b.why = None
  BY <1>1 DEF Sound
<1>6. Sound(k)
  BY <1>1, <1>4, <1>5 DEF Sound
<1>7. Relay!Set(c, k)
  BY <1>1, <1>2, <1>3 DEF Relay!Splice
<1> QED BY <1>4, <1>6, <1>7, RelaySets

\* A connection that is not taken yet.
LEMMA RelayOpens ==
    ASSUME Joined, NEW c \in Callers,
           \/ Relay!Knock(c) \/ Relay!GivesUp(c) \/ Relay!DialFails(c) \/ Relay!Dialled(c)
           \/ Relay!Answered(c) \/ Relay!AnswerFails(c)
    PROVE  Joined'
<1>b. rConn[c] \in Conns /\ Sound(rConn[c]) /\ UNCHANGED rScene
  BY DEF Joined, Relay!Knock, Relay!GivesUp, Relay!DialFails, Relay!Dialled, Relay!Answered, Relay!AnswerFails
<1>c. /\ rConn[c].app \in {"none", "waiting", "open", "gone", "refused", "closed"}
      /\ rConn[c].far \in {"none", "open", "closed"}
      /\ ~Relay!TakesFirst(Relay!Relay) /\ rConn[c].app = "open" => rConn[c].far # "none"
  BY <1>b DEF Conns, Sound
<1>1. CASE Relay!Knock(c)
  <2>1. CASE Relay!With(c, "ended", "closed", "none")
    BY <1>1, <1>b, <2>1, RelayWith DEF Relay!Knock
  <2>2. CASE Relay!With(c, "dial", "open", "none") /\ Relay!TakesFirst(Relay!Relay)
    BY <1>1, <1>b, <2>2, RelayWith DEF Relay!Knock
  <2>3. CASE Relay!With(c, "dial", "waiting", "none")
    BY <1>1, <1>b, <2>3, RelayWith DEF Relay!Knock
  <2>4. CASE Relay!TakesFirst(Relay!Relay)
    BY <1>1, <2>1, <2>2, <2>4 DEF Relay!Knock
  <2>5. CASE ~Relay!TakesFirst(Relay!Relay)
    BY <1>1, <2>1, <2>3, <2>5 DEF Relay!Knock
  <2> QED BY <2>4, <2>5
<1>2. CASE Relay!GivesUp(c)
  <2>1. rConn[c].at \in {"dial", "answer"} /\ Relay!With(c, rConn[c].at, "gone", rConn[c].far)
    BY <1>2 DEF Relay!GivesUp
  <2> QED BY <1>b, <1>c, <2>1, RelayWith
<1>3. CASE Relay!DialFails(c)
  <2>1. CASE Relay!With(c, "ended", "refused", "none")
    BY <1>3, <1>b, <2>1, RelayWith DEF Relay!DialFails
  <2>2. CASE Relay!With(c, "ended", "closed", "none")
    BY <1>3, <1>b, <2>2, RelayWith DEF Relay!DialFails
  <2> QED BY <1>3, <2>1, <2>2 DEF Relay!DialFails
<1>4. CASE Relay!Dialled(c)
  <2>1. CASE Relay!TakesFirst(Relay!Relay)
    BY <1>4, <1>b, <2>1, RelaySplices DEF Relay!Dialled
  <2>2. CASE ~Relay!TakesFirst(Relay!Relay)
    BY <1>4, <1>b, <1>c, <2>2, RelayWith DEF Relay!Dialled
  <2> QED BY <2>1, <2>2
<1>5. CASE Relay!Answered(c)
  <2>1. CASE rConn[c].far = "open"
    BY <1>5, <1>b, <2>1, RelaySplices DEF Relay!Answered
  <2>2. CASE rConn[c].far # "open"
    BY <1>5, <1>b, <2>2, RelayWith DEF Relay!Answered
  <2> QED BY <2>1, <2>2
<1>6. CASE Relay!AnswerFails(c)
  <2>1. CASE Relay!With(c, "ended", "refused", "closed")
    BY <1>6, <1>b, <2>1, RelayWith DEF Relay!AnswerFails
  <2>2. CASE Relay!With(c, "ended", "closed", "closed")
    BY <1>6, <1>b, <2>2, RelayWith DEF Relay!AnswerFails
  <2> QED BY <1>6, <2>1, <2>2 DEF Relay!AnswerFails
<1> QED BY <1>1, <1>2, <1>3, <1>4, <1>5, <1>6

\* What an end sends is read in its turn.
LEMMA RelayMoves ==
    ASSUME Joined, NEW c \in Callers, NEW d \in Relay!Dirs,
           Relay!Sends(c, d) \/ Relay!Finishes(c, d) \/ Relay!Copies(c, d)
    PROVE  Joined'
<1>1. PICK b \in Conns : b = rConn[c] /\ Sound(b) /\ b.at = "splice" /\ UNCHANGED rScene
  BY DEF Joined, Relay!Sends, Relay!Finishes, Relay!Copies, Relay!Spliced
<1>2. None \notin Relay!Dirs
  BY RelayAssumption DEF Relay!Dirs
<1>3. CASE Relay!Finishes(c, d)
  <2>1. PICK g \in [Relay!Dirs -> BOOLEAN] : g = [b.fin EXCEPT ![d] = TRUE]
    BY DEF Conns
  <2>2. PICK k : k = [b EXCEPT !.fin = g]
    OBVIOUS
  <2>3. k \in Conns /\ Sound(k)
    BY <1>1, <2>2 DEF Conns, Sound
  <2>4. Relay!Set(c, k)
    BY <1>1, <1>3, <2>1, <2>2 DEF Relay!Finishes
  <2> QED BY <1>1, <2>3, <2>4, RelaySets
<1>4. CASE Relay!Sends(c, d)
  <2>0. b.why = None
    BY <1>1, <1>4 DEF Relay!Sends, Relay!Cut, Sound
  <2>1. PICK g \in [Relay!Dirs -> Nat] : g = [b.sent EXCEPT ![d] = @ + 1]
    <3>1. PICK a \in [Relay!Dirs -> Nat] : a = b.sent
      BY DEF Conns
    <3>2. PICK n \in Nat : n = a[d] + 1
      OBVIOUS
    <3>3. [a EXCEPT ![d] = n] \in [Relay!Dirs -> Nat]
      OBVIOUS
    <3> QED BY <3>1, <3>2, <3>3
  <2>2. PICK k : k = [b EXCEPT !.sent = g]
    OBVIOUS
  <2>3. k \in Conns /\ k.read = b.read /\ k.sent = g /\ k.at = b.at /\ k.app = b.app /\ k.far = b.far /\ k.why = b.why
    BY <2>2 DEF Conns
  <2>4. \A e \in Relay!Dirs : b.read[e] <= g[e]
    <3>1. \A e \in Relay!Dirs : b.read[e] <= b.sent[e] /\ b.read[e] \in Nat /\ b.sent[e] \in Nat
      BY <1>1 DEF Sound, Conns
    <3>2. \A e \in Relay!Dirs : g[e] = IF e = d THEN b.sent[e] + 1 ELSE b.sent[e]
      BY <2>1 DEF Conns
    <3> QED BY <3>1, <3>2
  <2>5. Sound(k)
    BY <1>1, <2>0, <2>3, <2>4 DEF Sound
  <2>6. Relay!Set(c, k)
    BY <1>1, <1>4, <2>1, <2>2 DEF Relay!Sends
  <2> QED BY <1>1, <2>3, <2>5, <2>6, RelaySets
<1>5. CASE Relay!Copies(c, d)
  <2>0. b.why = None /\ b.read[d] < b.sent[d]
    BY <1>1, <1>5 DEF Relay!Copies, Relay!Cut, Sound
  <2>1. PICK g \in [Relay!Dirs -> Nat] : g = [b.read EXCEPT ![d] = @ + 1]
    <3>1. PICK a \in [Relay!Dirs -> Nat] : a = b.read
      BY DEF Conns
    <3>2. PICK n \in Nat : n = a[d] + 1
      OBVIOUS
    <3>3. [a EXCEPT ![d] = n] \in [Relay!Dirs -> Nat]
      OBVIOUS
    <3> QED BY <3>1, <3>2, <3>3
  <2>2. PICK k : k = [b EXCEPT !.read = g]
    OBVIOUS
  <2>3. k \in Conns /\ k.read = g /\ k.sent = b.sent /\ k.at = b.at /\ k.app = b.app /\ k.far = b.far /\ k.why = b.why
    BY <2>2 DEF Conns
  <2>4. \A e \in Relay!Dirs : g[e] <= b.sent[e]
    <3>1. \A e \in Relay!Dirs : b.read[e] <= b.sent[e] /\ b.read[e] \in Nat /\ b.sent[e] \in Nat
      BY <1>1 DEF Sound, Conns
    <3>2. \A e \in Relay!Dirs : g[e] = IF e = d THEN b.read[e] + 1 ELSE b.read[e]
      BY <2>1 DEF Conns
    <3> QED BY <2>0, <3>1, <3>2
  <2>5. Sound(k)
    BY <1>1, <2>0, <2>3, <2>4 DEF Sound
  <2>6. Relay!Set(c, k)
    BY <1>1, <1>5, <2>1, <2>2 DEF Relay!Copies
  <2> QED BY <1>1, <2>3, <2>5, <2>6, RelaySets
<1> QED BY <1>3, <1>4, <1>5

\* The first copier that ends has copied all, unless a socket was closed before.
LEMMA RelayEnds ==
    ASSUME Joined, NEW c \in Callers, NEW d \in Relay!Dirs, Relay!CopierEnds(c, d)
    PROVE  Joined'
<1>1. PICK b \in Conns : b = rConn[c] /\ Sound(b) /\ b.at = "splice" /\ UNCHANGED rScene
  BY DEF Joined, Relay!CopierEnds, Relay!Spliced
<1>2. PICK app \in {"none", "waiting", "open", "gone", "refused", "closed"} :
        app = IF "app" \in Relay!Closes(d) THEN "closed" ELSE b.app
  BY DEF Conns
<1>3. PICK far \in {"none", "open", "closed"} : far = IF "far" \in Relay!Closes(d) THEN "closed" ELSE b.far
  BY DEF Conns
<1>4. app = "closed" \/ far = "closed"
  BY <1>2, <1>3 DEF Relay!Closes
<1>5. PICK g \in [Relay!Dirs -> {"off", "run", "done"}] : g = [b.copier EXCEPT ![d] = "done"]
  BY DEF Conns
<1>6. PICK at \in {"splice", "ended"} :
        at = IF b.copier[IF d = "up" THEN "down" ELSE "up"] = "done" THEN "ended" ELSE b.at
  BY <1>1
<1>7. PICK w \in {None} \cup Relay!Dirs : w = IF b.why = None /\ ~Relay!Cut(c) THEN d ELSE b.why
  BY DEF Conns
<1>8. PICK k : k = [b EXCEPT !.copier = g, !.app = app, !.far = far, !.at = at, !.why = w]
  OBVIOUS
<1>9. /\ k \in Conns /\ k.app = app /\ k.far = far /\ k.at = at /\ k.why = w
      /\ k.read = b.read /\ k.sent = b.sent
  BY <1>8 DEF Conns
<1>10. Relay!Set(c, k)
  BY <1>1, <1>2, <1>3, <1>5, <1>6, <1>7, <1>8 DEF Relay!CopierEnds
<1>11. w # None => b.read[w] = b.sent[w]
  <2>1. CASE b.why = None /\ ~Relay!Cut(c)
    BY <1>1, <1>7, <2>1 DEF Relay!CopierEnds, Relay!AtEnd
  <2>2. CASE ~(b.why = None /\ ~Relay!Cut(c))
    BY <1>1, <1>7, <2>2 DEF Sound
  <2> QED BY <2>1, <2>2
<1>12. Sound(k)
  BY <1>1, <1>2, <1>3, <1>4, <1>9, <1>11 DEF Sound
<1> QED BY <1>1, <1>9, <1>10, <1>12, RelaySets

LEMMA RelayCloses == Joined /\ Relay!Close => Joined'
<1> SUFFICES ASSUME Joined, Relay!Close PROVE Joined'
  OBVIOUS
<1>1. ASSUME NEW c \in Callers PROVE rConn'[c] \in Conns /\ Sound(rConn'[c])
  <2>1. PICK b \in Conns : b = rConn[c] /\ Sound(b)
    BY <1>1 DEF Joined
  <2>2. PICK app \in {"none", "waiting", "open", "gone", "refused", "closed"} :
          app = IF b.app = "open" \/ (Relay!Relay = "socks" /\ b.app = "waiting") THEN "closed" ELSE b.app
    BY DEF Conns
  <2>3. PICK far \in {"none", "open", "closed"} : far = IF b.far = "open" /\ Relay!Relay = "stream" THEN "closed" ELSE b.far
    BY DEF Conns
  <2>4. PICK k : k = [b EXCEPT !.app = app, !.far = far]
    OBVIOUS
  <2>5. /\ k \in Conns /\ k.app = app /\ k.far = far /\ k.at = b.at /\ k.why = b.why
        /\ k.read = b.read /\ k.sent = b.sent
    BY <2>4 DEF Conns
  <2>6. Sound(k)
    BY <2>1, <2>2, <2>3, <2>5 DEF Sound
  <2>7. rConn'[c] = k
    BY <1>1, <2>1, <2>2, <2>3, <2>4 DEF Relay!Close
  <2> QED BY <2>5, <2>6, <2>7
<1>2. \A c \in Callers : Sound(rConn'[c]) = Sound(rConn[c])'
  BY DEF Sound, Relay!TakesFirst, Relay!Relay, Relay!Close
<1>3. DOMAIN rConn' = Callers /\ rConn' = [c \in Callers |-> rConn'[c]]
  BY DEF Relay!Close
<1> QED BY <1>1, <1>2, <1>3 DEF Joined

LEMMA RelayTcp == Joined /\ Relay!TcpNext => Joined'
BY RelayOpens, RelayMoves, RelayEnds, RelayCloses DEF Relay!TcpNext

-----------------------------------------------------------------------------
\* Datagrams of an exit, and of an association.

LEMMA RelayUdp == Counted /\ Relay!UdpNext => Counted'
<1> SUFFICES ASSUME Counted, Relay!UdpNext PROVE Counted'
  OBVIOUS
<1>1. PICK f \in Talks : \/ Relay!UdpPacket(f) \/ Relay!UdpFails(f) \/ Relay!UdpDialled(f)
                         \/ Relay!UdpPumpEnds(f) \/ Relay!UdpEnds(f)
  BY DEF Relay!UdpNext
<1>2. PICK at \in {"none", "dial", "run", "closing"} :
        /\ rFlow' = [rFlow EXCEPT ![f] = at]
        /\ \/ rFlow[f] = "none" /\ at # "none" /\ rSlots < Seats /\ rSlots' = rSlots + 1
           \/ rFlow[f] # "none" /\ at = "none" /\ rSlots' = rSlots - 1
           \/ rFlow[f] # "none" /\ at # "none" /\ rSlots' = rSlots
  BY <1>1 DEF Relay!UdpPacket, Relay!UdpFails, Relay!UdpDialled, Relay!UdpPumpEnds, Relay!UdpEnds, Relay!FreesSlot
<1>3. /\ rFlow' \in [Talks -> {"none", "dial", "run", "closing"}]
      /\ rFlow'[f] = at /\ \A g \in Talks : g # f => rFlow'[g] = rFlow[g]
  BY <1>2 DEF Counted
<1>4. IsFiniteSet(Alive) /\ Cardinality(Alive) \in Nat
  <2>1. Alive \subseteq Talks
    BY DEF Alive
  <2> QED BY <2>1, RelayAssumption, FS_Subset, FS_CardinalityType
<1>5. CASE rFlow[f] = "none" /\ at # "none" /\ rSlots < Seats /\ rSlots' = rSlots + 1
  <2>1. Alive' = Alive \cup {f} /\ f \notin Alive
    BY <1>3, <1>5 DEF Alive
  <2>2. Cardinality(Alive') = Cardinality(Alive) + 1
    BY <1>4, <2>1, FS_AddElement
  <2> QED BY <1>3, <1>4, <1>5, <2>2, RelayAssumption DEF Counted
<1>6. CASE rFlow[f] # "none" /\ at = "none" /\ rSlots' = rSlots - 1
  <2>1. Alive' = Alive \ {f} /\ f \in Alive
    BY <1>3, <1>6 DEF Alive
  <2>2. Cardinality(Alive') = Cardinality(Alive) - 1
    BY <1>4, <2>1, FS_RemoveElement
  <2> QED BY <1>3, <1>4, <1>6, <2>2, RelayAssumption DEF Counted
<1>7. CASE rFlow[f] # "none" /\ at # "none" /\ rSlots' = rSlots
  <2>1. Alive' = Alive
    BY <1>3, <1>7 DEF Alive
  <2> QED BY <1>3, <1>7, <2>1 DEF Counted
<1> QED BY <1>2, <1>5, <1>6, <1>7

LEMMA RelayAssoc == Plugged /\ Relay!AssocNext => Plugged'
<1> SUFFICES ASSUME Plugged, Relay!AssocNext PROVE Plugged'
  OBVIOUS
<1>a. PICK a \in Assocs :
        /\ a = rAssoc /\ a.open \subseteq 1..a.used
        /\ \A s \in a.open : a.map = s
        /\ a.closing => a.open = {}
        /\ a.at = "dial" => a.map = None /\ a.open = {}
  BY DEF Plugged
<1>n. None \notin Nat
  BY RelayAssumption
<1>u. a.used \in Nat /\ a.map \in {None} \cup Nat /\ a.open \in SUBSET Nat /\ a.answers \in SUBSET Nat
  BY DEF Assocs
<1>0. ASSUME NEW b, rAssoc' = b, b \in Assocs, b.open \subseteq 1..b.used,
             \A s \in b.open : b.map = s, b.closing => b.open = {},
             b.at = "dial" => b.map = None /\ b.open = {}
      PROVE  Plugged'
  BY <1>0 DEF Plugged
<1>1. ASSUME NEW from \in {"one", "two"}, Relay!Datagram(from) PROVE Plugged'
  <2>1. CASE a.map # None /\ rAssoc' = [a EXCEPT !.pinned = from, !.at = "write", !.hand = a.map]
    <3>1. PICK b : b = [a EXCEPT !.pinned = from, !.at = "write", !.hand = a.map]
      OBVIOUS
    <3>2. b \in Assocs /\ b.open = a.open /\ b.used = a.used /\ b.map = a.map /\ b.closing = a.closing /\ b.at = "write"
      BY <1>1, <1>u, <3>1 DEF Assocs
    <3> QED BY <1>0, <1>a, <2>1, <3>1, <3>2
  <2>2. CASE a.map = None /\ rAssoc' = [a EXCEPT !.pinned = from, !.at = "dial"]
    <3>1. PICK b : b = [a EXCEPT !.pinned = from, !.at = "dial"]
      OBVIOUS
    <3>2. b \in Assocs /\ b.open = a.open /\ b.used = a.used /\ b.map = a.map /\ b.closing = a.closing
      BY <1>1, <3>1 DEF Assocs
    <3>3. a.open = {}
      BY <1>a, <1>n, <1>u, <2>2
    <3> QED BY <1>0, <1>a, <2>2, <3>1, <3>2, <3>3
  <2> QED BY <1>1, <1>a, <2>1, <2>2 DEF Relay!Datagram, Relay!Assoc
<1>2. CASE Relay!AssocDialFails
  <2>1. PICK at \in {"ended", "open"} : at = IF a.closing THEN "ended" ELSE "open"
    BY DEF Assocs
  <2>2. PICK b : b = [a EXCEPT !.at = at]
    OBVIOUS
  <2>3. b \in Assocs /\ b.open = a.open /\ b.used = a.used /\ b.map = a.map /\ b.closing = a.closing /\ b.at # "dial"
    BY <2>2 DEF Assocs
  <2>4. rAssoc' = b
    BY <1>2, <1>a, <2>1, <2>2 DEF Relay!AssocDialFails, Relay!Assoc
  <2> QED BY <1>0, <1>a, <2>3, <2>4
<1>3. CASE Relay!AssocDialled
  <2>0. a.map = None /\ a.open = {}
    BY <1>3, <1>a DEF Relay!AssocDialled
  <2>1. PICK s \in Nat : s = a.used + 1
    BY <1>u
  <2>2. CASE ~a.closing
    <3>1. PICK O \in SUBSET Nat : O = a.open \cup {s}
      BY <1>u
    <3>2. PICK A \in SUBSET Nat : A = a.answers \cup {s}
      BY <1>u
    <3>3. PICK b : b = [a EXCEPT !.used = s, !.at = "write", !.hand = s, !.map = s, !.open = O, !.answers = A]
      OBVIOUS
    <3>4. b \in Assocs /\ b.open = O /\ b.used = s /\ b.map = s /\ b.closing = a.closing /\ b.at = "write"
      BY <3>3 DEF Assocs
    <3>5. rAssoc' = b
      BY <1>3, <1>a, <2>1, <2>2, <3>1, <3>2, <3>3 DEF Relay!AssocDialled, Relay!Assoc, Relay!Wanted
    <3>6. O = {s} /\ O \subseteq 1..s
      BY <1>u, <2>0, <2>1, <3>1
    <3> QED BY <1>0, <2>2, <3>4, <3>5, <3>6
  <2>3. CASE a.closing
    <3>1. PICK b : b = [a EXCEPT !.used = s, !.at = "ended"]
      OBVIOUS
    <3>2. b \in Assocs /\ b.open = a.open /\ b.used = s /\ b.map = a.map /\ b.closing = a.closing /\ b.at = "ended"
      BY <3>1 DEF Assocs
    <3>3. rAssoc' = b
      BY <1>3, <1>a, <2>1, <2>3, <3>1 DEF Relay!AssocDialled, Relay!Assoc, Relay!Wanted
    <3> QED BY <1>0, <1>a, <2>0, <3>2, <3>3
  <2> QED BY <2>2, <2>3
<1>4. ASSUME NEW ok \in BOOLEAN, Relay!AssocWrites(ok) PROVE Plugged'
  <2>1. PICK at \in {"ended", "open"} : at = IF a.closing THEN "ended" ELSE "open"
    BY DEF Assocs
  <2>2. CASE ok
    <3>1. PICK b : b = [a EXCEPT !.at = at, !.hand = None]
      OBVIOUS
    <3>2. b \in Assocs /\ b.open = a.open /\ b.used = a.used /\ b.map = a.map /\ b.closing = a.closing /\ b.at # "dial"
      BY <3>1 DEF Assocs
    <3>3. rAssoc' = b
      BY <1>4, <1>a, <2>1, <2>2, <3>1 DEF Relay!AssocWrites, Relay!Assoc
    <3> QED BY <1>0, <1>a, <3>2, <3>3
  <2>3. CASE ~ok
    <3>1. PICK O \in SUBSET Nat : O = a.open \ {a.hand}
      BY <1>u
    <3>2. PICK m \in {None} \cup Nat : m = IF a.map = a.hand THEN None ELSE a.map
      BY <1>u
    <3>3. PICK b : b = [a EXCEPT !.at = at, !.hand = None, !.open = O, !.map = m]
      OBVIOUS
    <3>4. b \in Assocs /\ b.open = O /\ b.used = a.used /\ b.map = m /\ b.closing = a.closing /\ b.at # "dial"
      BY <3>3 DEF Assocs
    <3>5. rAssoc' = b
      BY <1>4, <1>a, <2>1, <2>3, <3>1, <3>2, <3>3 DEF Relay!AssocWrites, Relay!Assoc, Relay!Without
    <3>6. O \subseteq a.open /\ \A s \in O : m = s
      BY <1>a, <3>1, <3>2
    <3> QED BY <1>0, <1>a, <3>4, <3>5, <3>6
  <2> QED BY <2>2, <2>3
<1>5. ASSUME NEW s \in 1..Plugs, Relay!AnswersClose(s) PROVE Plugged'
  <2>1. PICK O \in SUBSET Nat : O = a.open \ {s}
    BY <1>u
  <2>2. PICK b : b = [a EXCEPT !.open = O]
    OBVIOUS
  <2>3. b \in Assocs /\ b.open = O /\ b.used = a.used /\ b.map = a.map /\ b.closing = a.closing /\ b.at = a.at
    BY <2>2 DEF Assocs
  <2>4. rAssoc' = b
    BY <1>5, <1>a, <2>1, <2>2 DEF Relay!AnswersClose, Relay!Assoc
  <2> QED BY <1>0, <1>a, <2>1, <2>3, <2>4
<1>6. ASSUME NEW s \in 1..Plugs, Relay!AnswersEnd(s) PROVE Plugged'
  <2>0. s \notin a.open
    BY <1>6, <1>a DEF Relay!AnswersEnd
  <2>1. PICK A \in SUBSET Nat : A = a.answers \ {s}
    BY <1>u
  <2>2. PICK m \in {None} \cup Nat : m = IF a.map = s THEN None ELSE a.map
    BY <1>u
  <2>3. PICK b : b = [a EXCEPT !.answers = A, !.map = m]
    OBVIOUS
  <2>4. b \in Assocs /\ b.open = a.open /\ b.used = a.used /\ b.map = m /\ b.closing = a.closing /\ b.at = a.at
    BY <2>3 DEF Assocs
  <2>5. rAssoc' = b
    BY <1>6, <1>a, <2>1, <2>2, <2>3 DEF Relay!AnswersEnd, Relay!Assoc, Relay!Without
  <2>6. \A t \in a.open : m = t
    BY <1>a, <2>0, <2>2
  <2>7. a.at = "dial" => m = None
    BY <1>a, <2>2
  <2> QED BY <1>0, <1>a, <2>4, <2>5, <2>6, <2>7
<1>7. CASE Relay!AssocEnds
  <2>1. PICK O \in SUBSET Nat : O = a.open \ {a.map}
    BY <1>u
  <2>2. PICK at \in {"open", "dial", "write", "ended"} : at = IF a.at = "open" THEN "ended" ELSE a.at
    BY DEF Assocs
  <2>3. PICK b : b = [a EXCEPT !.closing = TRUE, !.open = O, !.at = at]
    OBVIOUS
  <2>4. b \in Assocs /\ b.open = O /\ b.used = a.used /\ b.map = a.map /\ b.at = at
    BY <2>3 DEF Assocs
  <2>5. rAssoc' = b
    BY <1>7, <1>a, <2>1, <2>2, <2>3 DEF Relay!AssocEnds, Relay!Assoc
  <2>6. O = {} /\ (at = "dial" => a.at = "dial")
    BY <1>a, <2>1, <2>2
  <2> QED BY <1>0, <1>a, <2>4, <2>5, <2>6
<1> QED BY <1>1, <1>2, <1>3, <1>4, <1>5, <1>6, <1>7 DEF Relay!AssocNext

-----------------------------------------------------------------------------
\* Fake addresses.

\* The next address is one further on; the one that comes round is the oldest.
LEMMA RelayFollowing ==
    ASSUME NEW i \in Relay!Indexes, NEW h \in Answers, Ago(i, h), h.index # i
    PROVE  /\ Relay!Following(i) \in Relay!Indexes
           /\ h.age + 1 < Addresses - 1
           /\ \A g \in Answers : g.index = h.index /\ g.age = h.age + 1 => Ago(Relay!Following(i), g)
<1>1. i \in 1..(Addresses - 1) /\ h.index \in 1..(Addresses - 1) /\ h.age \in Nat /\ Addresses \in Nat \ {0, 1}
  BY RelayAssumption DEF Relay!Indexes, Answers
<1>2. h.age + 1 < Addresses - 1
  BY <1>1 DEF Ago
<1>3. Relay!Following(i) = IF i + 1 >= Addresses THEN 1 ELSE i + 1
  BY DEF Relay!Following
<1>4. Relay!Following(i) \in 1..(Addresses - 1)
  BY <1>1, <1>3
<1>5. ASSUME NEW g \in Answers, g.index = h.index, g.age = h.age + 1
      PROVE  Ago(Relay!Following(i), g)
  BY <1>1, <1>2, <1>3, <1>5 DEF Ago
<1> QED BY <1>2, <1>4, <1>5 DEF Relay!Indexes

LEMMA RelayFirst ==
    ASSUME NEW i \in Relay!Indexes
    PROVE  /\ Relay!Following(i) \in Relay!Indexes
           /\ \A g \in Answers : g.index = i /\ g.age = 0 => Ago(Relay!Following(i), g)
<1>1. i \in 1..(Addresses - 1) /\ Addresses \in Nat \ {0, 1}
  BY RelayAssumption DEF Relay!Indexes
<1> QED BY <1>1 DEF Relay!Following, Relay!Indexes, Ago

LEMMA RelayDns ==
    ASSUME Sits, NEW n \in Hostnames, Relay!Query(n)
    PROVE  Sits'
<1>t. PICK t \in Tables : t = rDns /\ Fits(t)
  BY DEF Sits
<1>f. /\ t.byName \in [Hostnames -> {None} \cup Relay!Indexes] /\ t.names \in [Relay!Indexes -> {None} \cup Hostnames]
      /\ t.next \in Relay!Indexes /\ t.held \in SUBSET Answers
  BY DEF Tables
<1>n. None \notin Hostnames /\ None \notin Relay!Indexes
  BY RelayAssumption DEF Relay!Indexes
<1>0. ASSUME NEW B \in [Hostnames -> {None} \cup Relay!Indexes], NEW N \in [Relay!Indexes -> {None} \cup Hostnames],
             NEW x \in Relay!Indexes, NEW H \in SUBSET Answers,
             rDns' = [byName |-> B, names |-> N, next |-> x, held |-> H],
             \A m \in Hostnames : B[m] # None => N[B[m]] = m /\ \E h \in H : h.name = m,
             \A i \in Relay!Indexes : N[i] # None => B[N[i]] = i,
             \A h \in H : N[h.index] = h.name /\ Ago(x, h)
      PROVE  Sits'
  <2>1. PICK u : u = [byName |-> B, names |-> N, next |-> x, held |-> H]
    OBVIOUS
  <2>2. u \in Tables /\ u.byName = B /\ u.names = N /\ u.next = x /\ u.held = H
    BY <2>1 DEF Tables
  <2>3. Fits(u)
    BY <1>0, <2>2 DEF Fits
  <2> QED BY <1>0, <2>1, <2>2, <2>3 DEF Sits
<1>1. CASE t.byName[n] # None
  <2>1. PICK i \in Relay!Indexes : i = t.byName[n]
    BY <1>1, <1>f
  <2>2. PICK o \in t.held : o.name = n /\ o = CHOOSE h \in t.held : h.name = n
    BY <1>1, <1>t DEF Fits
  <2>3. o \in Answers /\ o.index = i /\ o.age \in Nat /\ Ago(t.next, o) /\ t.names[i] = n
    <3>1. o \in Answers /\ t.names[o.index] = n /\ Ago(t.next, o) /\ o.index \in Relay!Indexes /\ o.age \in Nat
      BY <1>f, <1>t, <2>2 DEF Fits, Answers
    <3>2. t.byName[n] = o.index
      BY <1>n, <1>t, <3>1 DEF Fits
    <3> QED BY <2>1, <3>1, <3>2
  <2>4. PICK r : r = [name |-> n, index |-> i, age |-> o.age]
    OBVIOUS
  <2>5. r \in Answers /\ r.name = n /\ r.index = i /\ r.age = o.age
    BY <2>3, <2>4 DEF Answers
  <2>6. Ago(t.next, r)
    BY <2>3, <2>5 DEF Ago
  <2>7. PICK H \in SUBSET Answers : H = {h \in t.held : h.name # n} \cup {r}
    BY <1>f, <2>5
  <2>8. rDns' = [byName |-> t.byName, names |-> t.names, next |-> t.next, held |-> H]
    <3> DEFINE Aged == IF rDns.byName[n] # None THEN rDns.held
                       ELSE {[h EXCEPT !.age = @ + 1] : h \in {y \in rDns.held : y.age + 1 < Addresses - 1}}
               Age(S) == IF \E h \in S : h.name = n THEN (CHOOSE h \in S : h.name = n).age ELSE 0
    <3>1. rDns' = [byName |-> rDns.byName, names |-> rDns.names, next |-> rDns.next,
                   held |-> {h \in Aged : h.name # n} \cup {[name |-> n, index |-> rDns.byName[n], age |-> Age(Aged)]}]
      <4>1. rDns.byName[n] # None
        BY <1>1, <1>t
      <4> QED BY <4>1 DEF Relay!Query
    <3>2. Aged = t.held
      BY <1>1, <1>t
    <3> HIDE DEF Aged
    <3>3. Age(Aged) = Age(t.held)
      BY <3>2
    <3>4. Age(t.held) = o.age
      BY <2>2
    <3> HIDE DEF Age
    <3> QED BY <1>t, <2>1, <2>4, <2>7, <3>1, <3>2, <3>3, <3>4
  <2>9. \A h \in H : t.names[h.index] = h.name /\ Ago(t.next, h)
    BY <1>t, <2>3, <2>5, <2>6, <2>7 DEF Fits
  <2>10. \A m \in Hostnames : t.byName[m] # None => t.names[t.byName[m]] = m /\ \E h \in H : h.name = m
    <3> SUFFICES ASSUME NEW m \in Hostnames, t.byName[m] # None
                 PROVE  t.names[t.byName[m]] = m /\ \E h \in H : h.name = m
      OBVIOUS
    <3>1. t.names[t.byName[m]] = m /\ \E h \in t.held : h.name = m
      BY <1>t DEF Fits
    <3>2. m = n => \E h \in H : h.name = m
      BY <2>5, <2>7
    <3> QED BY <2>7, <3>1, <3>2
  <2>11. \A j \in Relay!Indexes : t.names[j] # None => t.byName[t.names[j]] = j
    BY <1>t DEF Fits
  <2> QED BY <1>0, <1>f, <2>8, <2>9, <2>10, <2>11
<1>2. CASE t.byName[n] = None
  <2>1. PICK i \in Relay!Indexes : i = t.next
    BY <1>f
  <2>2. PICK F \in [Hostnames -> {None} \cup Relay!Indexes] :
          F = IF t.names[i] = None THEN t.byName ELSE [t.byName EXCEPT ![t.names[i]] = None]
    <3>1. CASE t.names[i] = None
      BY <1>f, <3>1
    <3>2. CASE t.names[i] # None
      <4>1. PICK m \in Hostnames : m = t.names[i]
        BY <1>f, <3>2
      <4>2. [t.byName EXCEPT ![m] = None] \in [Hostnames -> {None} \cup Relay!Indexes]
        BY <1>f
      <4> QED BY <3>2, <4>1, <4>2
    <3> QED BY <3>1, <3>2
  <2>3. \A m \in Hostnames : F[m] = IF m = t.names[i] THEN None ELSE t.byName[m]
    BY <1>f, <1>n, <2>2
  <2>4. PICK B \in [Hostnames -> {None} \cup Relay!Indexes] : B = [F EXCEPT ![n] = i]
    OBVIOUS
  <2>5. \A m \in Hostnames : B[m] = IF m = n THEN i ELSE IF m = t.names[i] THEN None ELSE t.byName[m]
    BY <2>3, <2>4
  <2>6. PICK N \in [Relay!Indexes -> {None} \cup Hostnames] : N = [t.names EXCEPT ![i] = n]
    BY <1>f
  <2>7. \A j \in Relay!Indexes : N[j] = IF j = i THEN n ELSE t.names[j]
    BY <1>f, <2>6
  <2>8. PICK x \in Relay!Indexes : x = Relay!Following(i)
    BY RelayFirst
  <2>9. PICK A : A = {[h EXCEPT !.age = @ + 1] : h \in {y \in t.held : y.age + 1 < Addresses - 1}}
    OBVIOUS
  \* Whoever has been given the address that comes round is not held any more.
  <2>10. ASSUME NEW h \in t.held, h.age + 1 < Addresses - 1 PROVE h.index # i
    <3>1. Ago(i, h) /\ h.age \in Nat /\ i \in 1..(Addresses - 1) /\ Addresses \in Nat
      BY <1>f, <1>t, <2>1, RelayAssumption DEF Fits, Answers, Relay!Indexes
    <3> QED BY <2>10, <3>1 DEF Ago
  <2>11. ASSUME NEW g \in A
         PROVE  \E h \in t.held : /\ g \in Answers /\ g.name = h.name /\ g.index = h.index /\ h.index # i
                                  /\ Ago(x, g)
    <3>1. PICK h \in t.held : h.age + 1 < Addresses - 1 /\ g = [h EXCEPT !.age = h.age + 1]
      BY <2>9
    <3>2. h \in Answers /\ h.index # i /\ Ago(i, h)
      BY <1>f, <1>t, <2>1, <2>10, <3>1 DEF Fits
    <3>3. g \in Answers /\ g.name = h.name /\ g.index = h.index /\ g.age = h.age + 1
      BY <3>1, <3>2 DEF Answers
    <3> QED BY <2>8, <3>2, <3>3, RelayFollowing
  <2>12. ASSUME NEW h \in t.held, h.index # i
         PROVE  \E g \in A : g.name = h.name
    <3>1. h \in Answers /\ Ago(i, h)
      BY <1>f, <1>t, <2>1 DEF Fits
    <3>2. h.age + 1 < Addresses - 1
      BY <2>12, <3>1, RelayFollowing
    <3>3. [h EXCEPT !.age = h.age + 1] \in A
      BY <2>9, <3>2
    <3>4. [h EXCEPT !.age = h.age + 1].name = h.name
      BY <3>1 DEF Answers
    <3> QED BY <3>3, <3>4
  <2>13. \A g \in A : g.name # n
    <3> SUFFICES ASSUME NEW g \in A, g.name = n PROVE FALSE
      OBVIOUS
    <3>1. PICK h \in t.held : h.name = n /\ h.index \in Relay!Indexes
      BY <1>f, <2>11 DEF Answers
    <3>2. t.names[h.index] = n
      BY <1>t, <3>1 DEF Fits
    <3>3. t.byName[n] = h.index
      BY <1>n, <1>t, <3>1, <3>2 DEF Fits
    <3> QED BY <1>2, <1>n, <3>1, <3>3
  <2>14. PICK r : r = [name |-> n, index |-> i, age |-> 0]
    OBVIOUS
  <2>15. r \in Answers /\ r.name = n /\ r.index = i /\ r.age = 0
    BY <2>14 DEF Answers
  <2>16. PICK H \in SUBSET Answers : H = {h \in A : h.name # n} \cup {r}
    BY <2>11, <2>15
  <2>17. rDns' = [byName |-> B, names |-> N, next |-> x, held |-> H]
    <3>1. ~\E h \in A : h.name = n
      BY <2>13
    <3>2. B = [Relay!Forgets(rDns.names[i]) EXCEPT ![n] = i]
      BY <1>t, <2>2, <2>4 DEF Relay!Forgets
    <3> QED BY <1>2, <1>t, <2>1, <2>6, <2>8, <2>9, <2>14, <2>16, <3>1, <3>2 DEF Relay!Query
  <2>18. \A h \in H : N[h.index] = h.name /\ Ago(x, h)
    <3>1. N[r.index] = r.name /\ Ago(x, r)
      BY <2>7, <2>8, <2>15, RelayFirst
    <3>2. ASSUME NEW g \in A PROVE N[g.index] = g.name /\ Ago(x, g)
      <4>1. PICK h \in t.held : g \in Answers /\ g.name = h.name /\ g.index = h.index /\ h.index # i /\ Ago(x, g)
        BY <2>11
      <4>2. t.names[h.index] = h.name /\ h.index \in Relay!Indexes
        BY <1>f, <1>t DEF Fits, Answers
      <4> QED BY <2>7, <4>1, <4>2
    <3> QED BY <2>16, <3>1, <3>2
  <2>19. ASSUME NEW m \in Hostnames, B[m] # None PROVE N[B[m]] = m /\ \E h \in H : h.name = m
    <3>1. CASE m = n
      BY <2>5, <2>7, <2>15, <2>16, <3>1
    <3>2. CASE m # n
      <4>1. B[m] = t.byName[m] /\ m # t.names[i] /\ t.byName[m] # None /\ t.byName[m] \in Relay!Indexes
        BY <1>f, <2>5, <2>19, <3>2
      <4>2. t.names[t.byName[m]] = m /\ \E h \in t.held : h.name = m
        BY <1>t, <4>1 DEF Fits
      <4>3. N[B[m]] = m
        BY <2>7, <4>1, <4>2
      <4>4. PICK h \in t.held : h.name = m
        BY <4>2
      <4>5. h.index # i
        BY <1>t, <4>1, <4>4 DEF Fits
      <4>6. \E g \in A : g.name = m
        BY <2>12, <4>4, <4>5
      <4> QED BY <2>16, <3>2, <4>3, <4>6
    <3> QED BY <3>1, <3>2
  <2>20. ASSUME NEW j \in Relay!Indexes, N[j] # None PROVE B[N[j]] = j
    <3>1. CASE j = i
      BY <2>5, <2>7, <3>1
    <3>2. CASE j # i
      <4>1. N[j] = t.names[j] /\ N[j] \in Hostnames /\ t.byName[t.names[j]] = j
        BY <1>f, <1>t, <2>7, <2>20, <3>2 DEF Fits
      <4>2. N[j] # n
        BY <1>2, <1>n, <4>1
      <4>3. N[j] # t.names[i]
        BY <1>n, <1>t, <2>1, <3>2, <4>1 DEF Fits
      <4> QED BY <2>5, <4>1, <4>2, <4>3
    <3> QED BY <3>1, <3>2
  <2> QED BY <1>0, <2>17, <2>18, <2>19, <2>20
<1> QED BY <1>1, <1>2

-----------------------------------------------------------------------------
\* The whole.

\* What the invariant speaks of stays when its variables do.
LEMMA RelayRests ==
    /\ Joined /\ UNCHANGED <<rScene, rConn>> => Joined'
    /\ Counted /\ UNCHANGED <<rFlow, rSlots>> => Counted'
    /\ Plugged /\ UNCHANGED rAssoc => Plugged'
    /\ Sits /\ UNCHANGED rDns => Sits'
BY DEF Joined, Sound, Relay!TakesFirst, Relay!Relay, Counted, Alive, Plugged, Sits

LEMMA RelayStep == RelayInv /\ (Relay!Next \/ UNCHANGED relayVars) => RelayInv'
<1> SUFFICES ASSUME RelayInv, Relay!Next \/ UNCHANGED relayVars PROVE RelayInv'
  OBVIOUS
<1>1. CASE UNCHANGED relayVars
  BY <1>1, RelayRests DEF RelayInv, relayVars
<1>2. CASE Relay!TcpNext
  <2>1. UNCHANGED <<rFlow, rSlots, rAssoc, rDns>>
    BY <1>2 DEF Relay!TcpNext, Relay!Close, Relay!Knock, Relay!GivesUp, Relay!DialFails, Relay!Dialled, Relay!Answered,
      Relay!AnswerFails, Relay!Sends, Relay!Finishes, Relay!Copies, Relay!CopierEnds, Relay!dataVars
  <2> QED BY <1>2, <2>1, RelayTcp, RelayRests DEF RelayInv
<1>3. CASE Relay!UdpNext
  <2>1. UNCHANGED <<rScene, rConn, rAssoc, rDns>>
    BY <1>3 DEF Relay!UdpNext, Relay!UdpPacket, Relay!UdpFails, Relay!UdpDialled, Relay!UdpPumpEnds, Relay!UdpEnds,
      Relay!udpRest
  <2> QED BY <1>3, <2>1, RelayUdp, RelayRests DEF RelayInv
<1>4. CASE Relay!AssocNext
  <2>1. UNCHANGED <<rScene, rConn, rFlow, rSlots, rDns>>
    BY <1>4 DEF Relay!AssocNext, Relay!Datagram, Relay!AssocDialFails, Relay!AssocDialled, Relay!AssocWrites,
      Relay!AnswersClose, Relay!AnswersEnd, Relay!AssocEnds, Relay!Assoc, Relay!assocRest
  <2> QED BY <1>4, <2>1, RelayAssoc, RelayRests DEF RelayInv
<1>5. ASSUME NEW n \in Hostnames, Relay!Query(n) PROVE RelayInv'
  <2>1. UNCHANGED <<rScene, rConn, rFlow, rSlots, rAssoc>>
    BY <1>5 DEF Relay!Query
  <2> QED BY <1>5, <2>1, RelayDns, RelayRests DEF RelayInv
<1> QED BY <1>1, <1>2, <1>3, <1>4, <1>5 DEF Relay!Next

LEMMA RelayPromise == RelayInv => Relay!TypeOK /\ Relay!RelaysRight
<1> SUFFICES ASSUME RelayInv PROVE Relay!TypeOK /\ Relay!RelaysRight
  OBVIOUS
<1>1. ASSUME NEW c \in Callers PROVE rConn[c] \in Conns /\ Sound(rConn[c])
  BY <1>1 DEF RelayInv, Joined
<1>2. rSlots \in 0..Seats /\ rSlots = Cardinality(Alive)
  <2>1. Cardinality(Alive) \in Nat
    <3>1. Alive \subseteq Talks
      BY DEF Alive
    <3> QED BY <3>1, RelayAssumption, FS_Subset, FS_CardinalityType
  <2> QED BY <2>1, RelayAssumption DEF RelayInv, Counted
<1>3. Relay!TypeOK
  BY <1>1, <1>2 DEF RelayInv, Plugged, Sits, Tables, Relay!TypeOK, Conns, Sound
<1>4. Relay!OpenMeansOpen
  BY <1>1 DEF Relay!OpenMeansOpen, Sound, Relay!TakesFirst
<1>5. Relay!EndedWhole
  <2>1. None \notin Relay!Dirs
    BY RelayAssumption DEF Relay!Dirs
  <2> QED BY <1>1, <2>1 DEF Relay!EndedWhole, Sound
<1>6. Relay!SlotsCounted
  <2>1. Relay!Cardinality(Alive) = Cardinality(Alive)
    BY DEF Relay!Cardinality, Cardinality
  <2> QED BY <1>2, <2>1 DEF Relay!SlotsCounted, Alive
<1>7. Relay!SocketsKept
  BY DEF RelayInv, Plugged, Relay!SocketsKept
<1>8. Relay!NamesHold
  BY DEF RelayInv, Sits, Fits, Relay!NamesHold
<1> QED BY <1>3, <1>4, <1>5, <1>6, <1>7, <1>8 DEF Relay!RelaysRight

\* Whatever is dialled, refused, copied and closed at the tunnel's ends,
\* and in whichever order: a connection is open on the device's side only
\* when it is on the other, what one end sent before it ended has all gone
\* through, every UDP slot belongs to a flow, an association's socket is
\* the one in its map and goes with it, and an answered name keeps its
\* address until all the others have been given out (tunnel.go, socks5.go,
\* fakedns.go).
THEOREM RelayHolds == Relay!Spec => [](Relay!TypeOK /\ Relay!RelaysRight)
<1>1. RelayInv /\ [Relay!Next]_(Relay!relayVars) => RelayInv'
  BY RelayStep DEF Relay!relayVars, relayVars
<1> QED BY RelayInit, <1>1, RelayPromise, PTL DEF Relay!Spec

-----------------------------------------------------------------------------
\* The lanes of a striped link (StripeLanes)

CONSTANTS
    \* of StripeLanes: its Lanes, Pieces, Unanswered, Outages, Scenes
    Tracks, Parcels, MostUnanswered, MostOutages, Lives

ASSUME StripeAssumption ==
    /\ Cardinality(Tracks) \in Nat \ {0} /\ Tracks = 1..Cardinality(Tracks)
    /\ MostUnanswered \in Nat

VARIABLES
    lScene, lList, lLane, lStarting, lWarm, lHeard, lWatched, lForwards,
    lOutages, lPiece, lTx, lDup, lUnanswered, lDelivered, lDue, lProbing,
    lCeiling, lAllDead, lStop, lSnap, lTired, lLate

stripeVars ==
    <<lScene, lList, lLane, lStarting, lWarm, lHeard, lWatched, lForwards,
    lOutages, lPiece, lTx, lDup, lUnanswered, lDelivered, lDue, lProbing,
    lCeiling, lAllDead, lStop, lSnap, lTired, lLate>>

Stripe == INSTANCE StripeLanes WITH
    scene <- lScene, list <- lList, lane <- lLane, starting <- lStarting,
    warm <- lWarm, heard <- lHeard, watched <- lWatched,
    forwards <- lForwards, outages <- lOutages, piece <- lPiece, tx <- lTx,
    dup <- lDup, unanswered <- lUnanswered, delivered <- lDelivered,
    due <- lDue, probing <- lProbing, ceiling <- lCeiling,
    allDead <- lAllDead, stop <- lStop, snap <- lSnap, tired <- lTired,
    late <- lLate, Lanes <- Tracks, Pieces <- Parcels,
    Unanswered <- MostUnanswered, Outages <- MostOutages, Scenes <- Lives

\* The lanes there are when Stop is called were all started; those it has been through,
\* and that were not started since, do not run.
Parked ==
    /\ lStop \in {"no", "stopping", "done"}
    /\ lStop = "done" => lSnap = {}
    /\ lStop # "no" => \A l \in 1..lList : l \in lLate \/ l \in lSnap \/ lLane[l] \in {"stopped", "failed"}
StripeInv == Stripe!TypeOK /\ Parked

LEMMA StripeLanesAll ==
    /\ Stripe!MaxLanes \in Nat \ {0} /\ Tracks = 1..Stripe!MaxLanes
    /\ Stripe!FirstLanes \in 0..Stripe!MaxLanes
<1>1. Stripe!MaxLanes = Cardinality(Tracks)
  BY DEF Stripe!MaxLanes, Stripe!Cardinality, Cardinality
<1> QED BY <1>1, StripeAssumption DEF Stripe!FirstLanes

LEMMA StripeInit == Stripe!Init => StripeInv
<1> SUFFICES ASSUME Stripe!Init PROVE StripeInv
  OBVIOUS
<1>1. Stripe!TypeOK
  BY StripeLanesAll, StripeAssumption DEF Stripe!Init, Stripe!TypeOK, Stripe!Stages
<1>2. Parked
  BY DEF Stripe!Init, Parked
<1> QED BY <1>1, <1>2 DEF StripeInv

\* Pieces, timers, the far side and the autoscaler's clock do not start a lane.
LEMMA StripeCarries ==
    ASSUME StripeInv, UNCHANGED <<lList, lStop, lSnap, lLate>>,
           lLane' \in [Tracks -> Stripe!Stages],
           \A l \in 1..lList : lLane[l] \in {"stopped", "failed"} => lLane'[l] = lLane[l],
           lPiece' \in [Parcels -> {"new", "flight", "queued", "acked", "given up"}],
           lUnanswered' \in [Tracks -> 0..MostUnanswered],
           lDelivered' \in [Tracks -> {"never", "once", "lately", "now"}]
    PROVE  StripeInv'
<1>1. Stripe!TypeOK'
  BY DEF StripeInv, Stripe!TypeOK, Stripe!MaxLanes
<1>2. Parked'
  BY DEF StripeInv, Parked
<1> QED BY <1>1, <1>2 DEF StripeInv

LEMMA StripeData ==
    ASSUME StripeInv,
           \/ \E l \in Tracks : Stripe!PullResend(l) \/ Stripe!PullNew(l) \/ Stripe!PullCopy(l)
           \/ \E p \in Parcels : Stripe!Acked(p) \/ Stripe!Overdue(p) \/ Stripe!GiveUp(p) \/ Stripe!Aged(p)
           \/ \E l \in Tracks : Stripe!Older(l) \/ Stripe!ProbeDue(l) \/ Stripe!Warms(l)
    PROVE  StripeInv'
<1>t. /\ lPiece \in [Parcels -> {"new", "flight", "queued", "acked", "given up"}]
      /\ lUnanswered \in [Tracks -> 0..MostUnanswered]
      /\ lDelivered \in [Tracks -> {"never", "once", "lately", "now"}]
      /\ lLane \in [Tracks -> Stripe!Stages]
  BY DEF StripeInv, Stripe!TypeOK
<1>m. ASSUME NEW l \in Tracks, Stripe!More(l) PROVE lUnanswered' \in [Tracks -> 0..MostUnanswered]
  <2>1. PICK n \in 0..MostUnanswered : n = IF lUnanswered[l] = MostUnanswered THEN lUnanswered[l] ELSE lUnanswered[l] + 1
    <3>1. lUnanswered[l] \in 0..MostUnanswered
      BY <1>t
    <3> QED BY <3>1, StripeAssumption
  <2>2. lUnanswered' = [lUnanswered EXCEPT ![l] = n]
    BY <1>m, <2>1 DEF Stripe!More
  <2> QED BY <1>t, <2>2
<1>0. UNCHANGED <<lList, lStop, lSnap, lLate, lLane>>
  BY DEF Stripe!PullResend, Stripe!PullNew, Stripe!PullCopy, Stripe!Acked, Stripe!Overdue, Stripe!GiveUp, Stripe!Aged,
    Stripe!Older, Stripe!ProbeDue, Stripe!Warms, Stripe!lifeVars
<1>1. ASSUME NEW l \in Tracks, Stripe!PullResend(l) \/ Stripe!PullNew(l) \/ Stripe!PullCopy(l)
      PROVE  StripeInv'
  <2>1. lUnanswered' \in [Tracks -> 0..MostUnanswered]
    BY <1>1, <1>m, <1>t DEF Stripe!PullResend, Stripe!PullNew, Stripe!PullCopy
  <2>2. lDelivered' = lDelivered
    BY <1>1 DEF Stripe!PullResend, Stripe!PullNew, Stripe!PullCopy
  <2>3. lPiece' = lPiece \/ \E p \in Parcels : lPiece' = [lPiece EXCEPT ![p] = "flight"]
    BY <1>1 DEF Stripe!PullResend, Stripe!PullNew, Stripe!PullCopy
  <2>4. lPiece' \in [Parcels -> {"new", "flight", "queued", "acked", "given up"}]
    BY <1>t, <2>3
  <2> QED BY <1>0, <1>t, <2>1, <2>2, <2>4, StripeCarries
<1>2. ASSUME NEW p \in Parcels, Stripe!Acked(p) PROVE StripeInv'
  <2>1. lPiece' = [lPiece EXCEPT ![p] = "acked"]
    BY <1>2 DEF Stripe!Acked
  <2>2. PICK m : m = lTx[p].lane
    OBVIOUS
  <2>3. \/ lDelivered' = [lDelivered EXCEPT ![m] = "now"] /\ lUnanswered' = [lUnanswered EXCEPT ![m] = 0]
        \/ UNCHANGED <<lDelivered, lUnanswered>>
    BY <1>2, <2>2 DEF Stripe!Acked
  <2>4. lPiece' \in [Parcels -> {"new", "flight", "queued", "acked", "given up"}]
    BY <1>t, <2>1
  <2>5. 0 \in 0..MostUnanswered
    BY StripeAssumption
  <2>6. lUnanswered' = lUnanswered \/ lUnanswered' = [lUnanswered EXCEPT ![m] = 0]
    BY <2>3
  <2>7. lDelivered' = lDelivered \/ lDelivered' = [lDelivered EXCEPT ![m] = "now"]
    BY <2>3
  <2>8. lUnanswered' \in [Tracks -> 0..MostUnanswered]
    BY <1>t, <2>5, <2>6
  <2>9. lDelivered' \in [Tracks -> {"never", "once", "lately", "now"}]
    BY <1>t, <2>7
  <2> QED BY <1>0, <1>t, <2>4, <2>8, <2>9, StripeCarries
<1>3. ASSUME NEW p \in Parcels, Stripe!Overdue(p) \/ Stripe!GiveUp(p) \/ Stripe!Aged(p) PROVE StripeInv'
  <2>1. lPiece' \in [Parcels -> {"new", "flight", "queued", "acked", "given up"}]
    <3>1. lPiece' = lPiece \/ \E s \in {"queued", "given up"} : lPiece' = [lPiece EXCEPT ![p] = s]
      BY <1>3 DEF Stripe!Overdue, Stripe!GiveUp, Stripe!Aged
    <3> QED BY <1>t, <3>1
  <2>2. UNCHANGED <<lUnanswered, lDelivered>>
    BY <1>3 DEF Stripe!Overdue, Stripe!GiveUp, Stripe!Aged, Stripe!laneVars
  <2> QED BY <1>0, <1>t, <2>1, <2>2, StripeCarries
<1>4. ASSUME NEW l \in Tracks, Stripe!Older(l) \/ Stripe!ProbeDue(l) \/ Stripe!Warms(l) PROVE StripeInv'
  <2>1. UNCHANGED <<lPiece, lUnanswered>>
    BY <1>4 DEF Stripe!Older, Stripe!ProbeDue, Stripe!Warms, Stripe!pieceVars, Stripe!laneVars
  <2>2. lDelivered' = lDelivered \/ \E s \in {"lately", "once"} : lDelivered' = [lDelivered EXCEPT ![l] = s]
    BY <1>4 DEF Stripe!Older, Stripe!ProbeDue, Stripe!Warms, Stripe!laneVars
  <2>3. lDelivered' \in [Tracks -> {"never", "once", "lately", "now"}]
    BY <1>t, <2>2
  <2> QED BY <1>0, <1>t, <2>1, <2>3, StripeCarries
<1> QED BY <1>1, <1>2, <1>3, <1>4

\* The autoscaler's decisions, and what the far side and the network turn to.
LEMMA StripeTurns ==
    ASSUME StripeInv, Stripe!Turns \/ Stripe!ScaleJoins \/ Stripe!ScaleSettles \/ Stripe!ScaleForgets
    PROVE  StripeInv'
<1>t. lLane \in [Tracks -> Stripe!Stages] /\ Stripe!TypeOK
  BY DEF StripeInv, Stripe!TypeOK
<1>0. UNCHANGED <<lList, lStop, lSnap, lLate, lPiece, lUnanswered, lDelivered>>
  BY DEF Stripe!Turns, Stripe!ScaleJoins, Stripe!ScaleSettles, Stripe!ScaleForgets, Stripe!lifeVars, Stripe!pieceVars,
    Stripe!laneVars
<1>1. \/ lLane' = lLane
      \/ \E l \in 1..lList, s \in {"up", "down"} : lLane[l] \in {"up", "down"} /\ lLane' = [lLane EXCEPT ![l] = s]
  BY DEF Stripe!Turns, Stripe!ScaleJoins, Stripe!ScaleSettles, Stripe!ScaleForgets, Stripe!lifeVars, Stripe!Present
<1>2. lLane' \in [Tracks -> Stripe!Stages]
  BY <1>t, <1>1 DEF Stripe!Stages
<1>3. 1..lList \subseteq Tracks
  <2>1. lList \in 0..Stripe!MaxLanes
    BY <1>t DEF Stripe!TypeOK
  <2>2. Stripe!MaxLanes \in Nat /\ Tracks = 1..Stripe!MaxLanes
    BY StripeLanesAll
  <2> QED BY <2>1, <2>2
<1>4. \A l \in 1..lList : lLane[l] \in {"stopped", "failed"} => lLane'[l] = lLane[l]
  BY <1>t, <1>1, <1>3
<1> QED BY <1>0, <1>2, <1>4, <1>t, StripeCarries DEF Stripe!TypeOK

\* A lane that is added, started or stopped.
LEMMA StripeLives ==
    ASSUME StripeInv,
           \/ Stripe!StartLane \/ Stripe!Grows \/ Stripe!ScaleUp \/ Stripe!Stop \/ Stripe!StopReturns \/ Stripe!StatsTick
           \/ \E l \in Tracks : Stripe!AddedStarts(l) \/ Stripe!StopLane(l)
    PROVE  StripeInv'
<1>t. /\ lLane \in [Tracks -> Stripe!Stages] /\ Stripe!TypeOK /\ Parked /\ lList \in 0..Stripe!MaxLanes
      /\ Stripe!MaxLanes \in Nat \ {0} /\ Tracks = 1..Stripe!MaxLanes
  BY StripeLanesAll DEF StripeInv, Stripe!TypeOK
<1>0. UNCHANGED <<lPiece, lUnanswered, lDelivered>>
  BY DEF Stripe!StartLane, Stripe!Grows, Stripe!ScaleUp, Stripe!Stop, Stripe!StopReturns, Stripe!StatsTick, Stripe!AddedStarts,
    Stripe!StopLane, Stripe!pieceVars, Stripe!laneVars
<1>y. ASSUME lLane' \in [Tracks -> Stripe!Stages], lList' \in 0..Stripe!MaxLanes PROVE Stripe!TypeOK'
  BY <1>0, <1>t, <1>y DEF Stripe!TypeOK, Stripe!MaxLanes
<1>1. ASSUME NEW l \in Tracks, NEW s \in {"up", "failed", "stopped"}, lLane' = [lLane EXCEPT ![l] = s],
             UNCHANGED <<lList, lStop>>, s = "stopped" \/ lSnap' = lSnap,
             s = "stopped" => lSnap' = lSnap \ {l} /\ lStop = "stopping",
             lLate' = IF lStop = "no" \/ s # "up" THEN lLate ELSE lLate \union {l}
      PROVE  StripeInv'
  <2>1. lLane' \in [Tracks -> Stripe!Stages] /\ \A m \in Tracks : lLane'[m] = IF m = l THEN s ELSE lLane[m]
    BY <1>1, <1>t DEF Stripe!Stages
  <2>2. 1..lList \subseteq Tracks
    BY <1>t
  <2>3. Parked'
    <3>1. lStop' = "done" => lSnap' = {}
      BY <1>1, <1>t DEF Parked
    <3>2. ASSUME lStop' # "no", NEW m \in 1..lList PROVE m \in lLate' \/ m \in lSnap' \/ lLane'[m] \in {"stopped", "failed"}
      BY <1>1, <1>t, <2>1, <2>2, <3>2 DEF Parked
    <3> QED BY <1>1, <1>t, <3>1, <3>2 DEF Parked
  <2> QED BY <1>1, <1>t, <1>y, <2>1, <2>3 DEF StripeInv
<1>2. CASE Stripe!StartLane
  <2>1. CASE lStarting = 0
    BY <1>0, <1>2, <1>t, <2>1, StripeCarries DEF Stripe!StartLane, Stripe!TypeOK
  <2>2. CASE lStarting # 0
    <3>1. CASE lStarting \in Tracks
      <4>1. PICK s \in {"up", "failed"} : /\ lLane' = [lLane EXCEPT ![lStarting] = s]
                                          /\ lLate' = IF lStop = "no" \/ s # "up" THEN lLate ELSE lLate \union {lStarting}
        BY <1>2, <2>2 DEF Stripe!StartLane
      <4> QED BY <1>1, <1>2, <3>1, <4>1 DEF Stripe!StartLane
    <3>2. CASE lStarting \notin Tracks
      <4>1. lLane' = lLane
        BY <1>2, <1>t, <2>2, <3>2 DEF Stripe!StartLane
      <4>2. UNCHANGED <<lList, lStop, lSnap>> /\ (lLate' = lLate \/ lLate' = lLate \cup {lStarting})
        BY <1>2, <2>2 DEF Stripe!StartLane
      <4>3. Parked'
        BY <1>t, <4>1, <4>2 DEF Parked
      <4> QED BY <1>t, <1>y, <4>1, <4>2, <4>3 DEF StripeInv
    <3> QED BY <3>1, <3>2
  <2> QED BY <2>1, <2>2
<1>3. CASE Stripe!Grows \/ Stripe!ScaleUp
  <2>1. /\ lList < Stripe!MaxLanes /\ lList' = lList + 1 /\ lLane' = [lLane EXCEPT ![lList + 1] = "made"]
        /\ lLate' = IF lStop = "no" THEN lLate ELSE lLate \union {lList + 1}
        /\ UNCHANGED <<lStop, lSnap>>
    BY <1>3 DEF Stripe!Grows, Stripe!ScaleUp, Stripe!Append, Stripe!LaneRoom
  <2>2. lList + 1 \in Tracks /\ lList' \in 0..Stripe!MaxLanes
    BY <1>t, <2>1
  <2>3. lLane' \in [Tracks -> Stripe!Stages] /\ \A m \in Tracks : m # lList + 1 => lLane'[m] = lLane[m]
    BY <1>t, <2>1, <2>2 DEF Stripe!Stages
  <2>4. \A m \in 1..lList' : m = lList + 1 \/ (m \in 1..lList /\ m \in Tracks /\ m # lList + 1)
    BY <1>t, <2>1
  <2>5. Parked'
    BY <1>t, <2>1, <2>3, <2>4 DEF Parked
  <2> QED BY <1>y, <2>2, <2>3, <2>5 DEF StripeInv
<1>4. CASE Stripe!Stop \/ Stripe!StatsTick
  <2>1. /\ UNCHANGED <<lList, lLane, lLate>>
        /\ \/ UNCHANGED <<lStop, lSnap>>
           \/ lStop' = "stopping" /\ lSnap' = 1..lList
    BY <1>4 DEF Stripe!Stop, Stripe!StatsTick, Stripe!Present
  <2>2. Parked'
    BY <1>t, <2>1 DEF Parked
  <2> QED BY <1>t, <1>y, <2>1, <2>2 DEF StripeInv
<1>5. CASE Stripe!StopReturns
  <2>1. UNCHANGED <<lList, lLane, lLate, lSnap>> /\ lStop = "stopping" /\ lStop' = "done" /\ lSnap = {}
    BY <1>5 DEF Stripe!StopReturns, Stripe!Stops
  <2>2. Parked'
    BY <1>t, <2>1 DEF Parked
  <2> QED BY <1>t, <1>y, <2>1, <2>2 DEF StripeInv
<1>6. ASSUME NEW l \in Tracks, Stripe!AddedStarts(l) PROVE StripeInv'
  <2>1. PICK s \in {"up", "failed"} : /\ lLane' = [lLane EXCEPT ![l] = s]
                                      /\ lLate' = IF lStop = "no" \/ s = "failed" THEN lLate ELSE lLate \union {l}
    BY <1>6 DEF Stripe!AddedStarts
  <2>2. UNCHANGED <<lList, lStop, lSnap>>
    BY <1>6 DEF Stripe!AddedStarts
  <2> QED BY <1>1, <2>1, <2>2
<1>7. ASSUME NEW l \in Tracks, Stripe!StopLane(l) PROVE StripeInv'
  BY <1>1, <1>7 DEF Stripe!StopLane
<1> QED BY <1>2, <1>3, <1>4, <1>5, <1>6, <1>7

LEMMA StripeStep == StripeInv /\ (Stripe!Next \/ UNCHANGED stripeVars) => StripeInv'
<1> SUFFICES ASSUME StripeInv, Stripe!Next \/ UNCHANGED stripeVars PROVE StripeInv'
  OBVIOUS
<1>1. CASE UNCHANGED stripeVars
  BY <1>1 DEF stripeVars, StripeInv, Parked, Stripe!TypeOK, Stripe!MaxLanes
<1>2. CASE Stripe!Next
  BY <1>2, StripeData, StripeTurns, StripeLives DEF Stripe!Next, Stripe!Carry, Stripe!Copy, Stripe!Timers, Stripe!Scale
<1> QED BY <1>1, <1>2

LEMMA StripePromise == StripeInv => Stripe!TypeOK /\ Stripe!LanesStopped
BY DEF StripeInv, Parked, Stripe!LanesStopped, Stripe!Present

\* Once Stop has returned, no lane runs that was there when it was called,
\* for any number of lanes, whatever the far side, the autoscaler and the
\* supervisor that may stop the link itself do meanwhile (striped.go:440).
THEOREM StripeHolds == Stripe!Spec => [](Stripe!TypeOK /\ Stripe!LanesStopped)
<1>1. StripeInv /\ [Stripe!Next]_(Stripe!stripeVars) => StripeInv'
  BY StripeStep DEF Stripe!stripeVars, Stripe!lifeVars, Stripe!envVars, Stripe!pieceVars, Stripe!laneVars, Stripe!scaleVars,
    stripeVars
<1> QED BY StripeInit, <1>1, StripePromise, PTL DEF Stripe!Spec

-----------------------------------------------------------------------------
\* A carrier written in JavaScript (ScriptCarrier)

CONSTANTS
    \* of ScriptCarrier: its Scenes, Packets, Room, Dials, Runs, Slots, Applies
    ScriptActs, ScriptPackets, ScriptRoom, ScriptDials, ScriptRuns, ScriptSlots, ScriptApplies

ASSUME ScriptAssumption == IsFiniteSet(ScriptRuns) /\ ScriptSlots \in Nat

VARIABLES
    sScene, sRunning, sConnected, sStart, sReady, sLoop, sJobs, sJob, sStuck,
    sInterrupted, sOpened, sAccepted, sWriteCh, sHand, sWriter, sResult,
    sWrote, sInfoReady, sPending, sTaken, sJar, sApplying, sApplied, sCrossed,
    sSock, sClosers, sLate, sRun, sStop, sHelpless

scriptVars ==
    <<sScene, sRunning, sConnected, sStart, sReady, sLoop, sJobs, sJob,
    sStuck, sInterrupted, sOpened, sAccepted, sWriteCh, sHand, sWriter,
    sResult, sWrote, sInfoReady, sPending, sTaken, sJar, sApplying, sApplied,
    sCrossed, sSock, sClosers, sLate, sRun, sStop, sHelpless>>

Script == INSTANCE ScriptCarrier WITH
    scene <- sScene, running <- sRunning, connected <- sConnected,
    start <- sStart, ready <- sReady, loop <- sLoop, jobs <- sJobs,
    job <- sJob, stuck <- sStuck, interrupted <- sInterrupted,
    opened <- sOpened, accepted <- sAccepted, writeCh <- sWriteCh,
    hand <- sHand, writer <- sWriter, result <- sResult, wrote <- sWrote,
    infoReady <- sInfoReady, pending <- sPending, taken <- sTaken,
    jar <- sJar, applying <- sApplying, applied <- sApplied,
    crossed <- sCrossed, sock <- sSock, closers <- sClosers, late <- sLate,
    run <- sRun, stop <- sStop, helpless <- sHelpless, Scenes <- ScriptActs,
    Packets <- ScriptPackets, Room <- ScriptRoom, Dials <- ScriptDials,
    Runs <- ScriptRuns, Slots <- ScriptSlots, Applies <- ScriptApplies

Tasks ==
    ({"eval", "info", "put", "open", "event", "close"} \X {0}) \cup ({"write"} \X Nat)
    \cup ({"dialled", "closed"} \X ScriptDials) \cup ({"pool"} \X ScriptRuns)

\* What is posted waits in a queue; a start, a write or a call of a pool is there once.
Lined ==
    /\ sJobs \in Seq(Tasks) /\ sJob \in Tasks \cup {Script!NoJob}
    /\ \A i, k \in 1..Len(sJobs) : sJobs[i] = sJobs[k] /\ sJobs[i][1] \in {"eval", "write", "pool"} => i = k
    /\ \A i \in 1..Len(sJobs) : sJobs[i] = sJob => sJob[1] \notin {"eval", "write", "pool"}
    /\ sStart = "none" => sJobs = <<>> /\ sJob = Script!NoJob /\ sLoop = "none"
    /\ sLoop = "gone" => sJobs = <<>> /\ sJob = Script!NoJob

\* The script starts once: its later stages are not posted, and follow one another.
Booted ==
    /\ \A i \in 1..Len(sJobs) : sJobs[i][1] \notin {"info", "put", "open"}
    /\ sInfoReady \/ sJob[1] \in {"eval", "info"}
         => /\ \A i \in 1..Len(sJobs) : sJobs[i][1] # "eval"
    /\ sInfoReady => sJob[1] \notin {"eval", "info"}
    /\ sJob[1] \in {"put", "open"} \/ sOpened => sInfoReady
    /\ sOpened => sJob[1] # "put"
    /\ sStart = "none" => ~sInfoReady

\* The newest cookies are kept until info() is read; then they are being written, on
\* their way from what was kept, or in the jar.
Jarred ==
    /\ sPending \in Nat /\ sTaken \in Nat /\ sJar \in Nat /\ sApplying \in Nat /\ sApplied \in Nat
    /\ ~sInfoReady => sApplying = 0 /\ sTaken = 0 /\ sJar = 0 /\ sPending = sApplied
    /\ sJob[1] # "put" => sTaken = 0
    /\ sInfoReady /\ ~sCrossed =>
         IF sApplying # 0 THEN sApplying = sApplied ELSE sApplied = (IF sTaken > 0 THEN sTaken ELSE sJar)

\* The packet in hand is the one after those written, or the last of them, of which the
\* writer has not heard; one that is asked for is the packet in hand.
Awaited == sResult = "none" /\ sWriter \in {"asked", "ended"} /\ sHand = Len(sWrote) + 1
InHand ==
    /\ sAccepted \in Nat /\ sHand \in Nat /\ sWriteCh \in Seq(Nat) /\ sWrote \in Seq(Nat)
    /\ sResult \in {"none", "ok", "failed"} /\ sWriter \in {"none", "idle", "asked", "ended"}
    /\ \A i \in 1..Len(sWrote) : sWrote[i] = i
    /\ \A i \in 1..Len(sWriteCh) : sWriteCh[i] = sAccepted - Len(sWriteCh) + i
    /\ \/ sHand = 0 /\ sResult = "none" /\ sAccepted = Len(sWrote) + Len(sWriteCh)
       \/ sHand = Len(sWrote) + 1 /\ sResult # "ok" /\ sAccepted = Len(sWrote) + 1 + Len(sWriteCh)
       \/ sHand = Len(sWrote) /\ sHand # 0 /\ sResult = "ok" /\ sAccepted = Len(sWrote) + Len(sWriteCh)
    /\ sWriter \in {"none", "idle"} => sResult = "none"
    /\ sStart \in {"none", "waits"} => sWriter = "none"
Asked ==
    /\ \A i \in 1..Len(sJobs) : sJobs[i][1] = "write" => sJobs[i][2] = sHand /\ Awaited
    /\ sJob[1] = "write" => sJob[2] = sHand /\ Awaited
Handed == InHand /\ Asked

\* A connection that was made is to be told to the script, or in the hands of the
\* closers, or late.
Closing ==
    /\ sSock \in [ScriptDials -> {"none", "dialing", "dialled", "open", "closed"}]
    /\ \A d \in ScriptDials \ sLate :
         /\ sSock[d] = "dialled" => sJob = <<"dialled", d>> \/ \E i \in 1..Len(sJobs) : sJobs[i] = <<"dialled", d>>
         /\ sSock[d] = "open" => d \in sClosers /\ sStop \notin {"ends", "done"}
    /\ sStop = "done" => sLoop = "gone"

\* A call of a pool that is posted has its slot.
Pooled ==
    /\ sRun \in [ScriptRuns -> {"none", "queued", "posted", "settling", "lost", "done"}]
    /\ Cardinality(Script!Holding) <= ScriptSlots
    /\ \A i \in 1..Len(sJobs) : sJobs[i][1] = "pool" => sRun[sJobs[i][2]] = "posted"
    /\ sJob[1] = "pool" => sRun[sJob[2]] = "posted"

Staged ==
    /\ sStart \in {"none", "waits", "ok", "failed"}
    /\ sLoop \in {"none", "up", "ending", "ended", "gone"}
    /\ sStop \in {"none", "asks", "closes", "ends", "done"}
    /\ sReady \in {"none", "ok", "failed"}

ScriptInv == Staged /\ Lined /\ Booted /\ Jarred /\ Handed /\ Closing /\ Pooled

LEMMA ScriptInit == Script!Init => ScriptInv
<1> SUFFICES ASSUME Script!Init PROVE ScriptInv
  OBVIOUS
<1>0. sJobs = <<>> /\ sJob = <<"none", 0>> /\ Script!NoJob = <<"none", 0>> /\ Len(sJobs) = 0 /\ sJob[1] = "none"
  BY DEF Script!Init, Script!NoJob
<1>1. Staged /\ Lined /\ Booted
  BY <1>0 DEF Script!Init, Staged, Lined, Booted
<1>2. Jarred /\ Handed
  BY <1>0 DEF Script!Init, Jarred, Handed, InHand, Asked, Awaited
<1>3. Closing
  BY <1>0 DEF Script!Init, Closing
<1>4. Pooled
  <2>1. Script!Holding = {}
    BY DEF Script!Init, Script!Holding
  <2> QED BY <1>0, <2>1, FS_EmptySet, ScriptAssumption DEF Script!Init, Pooled
<1> QED BY <1>1, <1>2, <1>3, <1>4 DEF ScriptInv

-----------------------------------------------------------------------------
\* What a step does to the queue.

Stands == sJobs' = sJobs /\ sJob' = sJob
Posts(e) ==
    /\ sJob' = sJob /\ sJobs' = Append(sJobs, e)
    /\ Len(sJobs') = Len(sJobs) + 1 /\ sJobs'[Len(sJobs) + 1] = e
    /\ \A i \in 1..Len(sJobs) : sJobs'[i] = sJobs[i]
Begun ==
    /\ sJob = Script!NoJob /\ Len(sJobs) > 0 /\ sJob' = sJobs[1] /\ Len(sJobs') = Len(sJobs) - 1
    /\ \A i \in 1..Len(sJobs') : sJobs'[i] = sJobs[i + 1]
Over == sJobs' = sJobs /\ sJob' = Script!NoJob
GoesOn(k) == sJobs' = sJobs /\ sJob' = <<k, 0>>

LEMMA ScriptPosting ==
    ASSUME Lined, NEW k, NEW a, <<k, a>> \in Tasks, Script!Post(k, a), sJob' = sJob
    PROVE  Posts(<<k, a>>) /\ sJobs' \in Seq(Tasks)
BY DEF Lined, Script!Post, Posts

LEMMA ScriptTaking ==
    ASSUME Lined, Script!NextJob
    PROVE  Begun /\ sJobs' \in Seq(Tasks) /\ sJob' \in Tasks
<1>1. sJobs \in Seq(Tasks) /\ sJobs # <<>> /\ sJob' = Head(sJobs) /\ sJobs' = Tail(sJobs) /\ sJob = Script!NoJob
  BY DEF Lined, Script!NextJob
<1>2. Len(sJobs) > 0 /\ sJobs[1] \in Tasks /\ Head(sJobs) = sJobs[1]
  BY <1>1
<1>3. Tail(sJobs) \in Seq(Tasks) /\ Len(Tail(sJobs)) = Len(sJobs) - 1
      /\ \A i \in 1..Len(Tail(sJobs)) : Tail(sJobs)[i] = sJobs[i + 1]
  BY <1>1, <1>2
<1> QED BY <1>1, <1>2, <1>3 DEF Begun

LEMMA ScriptKinds ==
    /\ \A t \in Tasks : t = <<t[1], t[2]>> /\ t[1] \in {"eval", "info", "put", "open", "event", "close", "write", "dialled", "closed", "pool"}
    /\ \A t \in Tasks : /\ t[1] = "pool" => t[2] \in ScriptRuns
                        /\ t[1] = "dialled" => t[2] \in ScriptDials
                        /\ t[1] \in {"eval", "info", "put", "open"} => t[2] = 0
    /\ Script!NoJob = <<"none", 0>> /\ Script!NoJob[1] = "none"
BY DEF Tasks, Script!NoJob

\* Where the queue is as it was.
LEMMA ScriptStays ==
    ASSUME ScriptInv, Stands, sStart' = "none" => sStart = "none" /\ sLoop' = sLoop,
           sLoop' = "gone" => sLoop = "gone" \/ (sJobs = <<>> /\ sJob = Script!NoJob)
    PROVE  Lined'
BY DEF ScriptInv, Lined, Stands, Script!NoJob

\* Where something is posted that is not there yet.
LEMMA ScriptPosted ==
    ASSUME ScriptInv, NEW e \in Tasks, Posts(e), sJobs' \in Seq(Tasks), sStart' # "none", sLoop' # "gone",
           e[1] \in {"eval", "write", "pool"} => sJob # e /\ \A i \in 1..Len(sJobs) : sJobs[i] # e
    PROVE  Lined'
<1>1. /\ sJobs \in Seq(Tasks) /\ sJob \in Tasks \cup {Script!NoJob} /\ Len(sJobs) \in Nat
      /\ \A i, k \in 1..Len(sJobs) : sJobs[i] = sJobs[k] /\ sJobs[i][1] \in {"eval", "write", "pool"} => i = k
      /\ \A i \in 1..Len(sJobs) : sJobs[i] = sJob => sJob[1] \notin {"eval", "write", "pool"}
  BY DEF ScriptInv, Lined
<1>2. \A i \in 1..Len(sJobs') : (i \in 1..Len(sJobs) /\ sJobs'[i] = sJobs[i]) \/ (i = Len(sJobs) + 1 /\ sJobs'[i] = e)
  BY <1>1 DEF Posts
<1>3. \A i, k \in 1..Len(sJobs') : sJobs'[i] = sJobs'[k] /\ sJobs'[i][1] \in {"eval", "write", "pool"} => i = k
  BY <1>1, <1>2
<1>4. \A i \in 1..Len(sJobs') : sJobs'[i] = sJob' => sJob'[1] \notin {"eval", "write", "pool"}
  BY <1>1, <1>2 DEF Posts
<1> QED BY <1>1, <1>3, <1>4 DEF Posts, Lined, Script!NoJob

\* Where the loop turns to what is next.
LEMMA ScriptTaken ==
    ASSUME ScriptInv, Begun, sJobs' \in Seq(Tasks), sJob' \in Tasks, sStart' # "none", sLoop' # "gone"
    PROVE  Lined'
<1>1. /\ Len(sJobs) \in Nat
      /\ \A i, k \in 1..Len(sJobs) : sJobs[i] = sJobs[k] /\ sJobs[i][1] \in {"eval", "write", "pool"} => i = k
  BY DEF ScriptInv, Lined
<1>2. \A i \in 1..Len(sJobs') : i + 1 \in 1..Len(sJobs) /\ sJobs'[i] = sJobs[i + 1] /\ i + 1 # 1
  BY <1>1 DEF Begun
<1>3. \A i, k \in 1..Len(sJobs') : sJobs'[i] = sJobs'[k] /\ sJobs'[i][1] \in {"eval", "write", "pool"} => i = k
  BY <1>1, <1>2
<1>4. 1 \in 1..Len(sJobs)
  BY <1>1 DEF Begun
<1>5. \A i \in 1..Len(sJobs') : sJobs'[i] = sJob' => sJob'[1] \notin {"eval", "write", "pool"}
  BY <1>1, <1>2, <1>4 DEF Begun
<1> QED BY <1>3, <1>5 DEF Lined

\* Where a job ends, or goes on as another.
LEMMA ScriptOver ==
    ASSUME ScriptInv, sJob # Script!NoJob, sStart' = sStart, sLoop' = sLoop,
           Over \/ \E k \in {"info", "put", "open"} : GoesOn(k)
    PROVE  Lined'
<1>1. sJob' = Script!NoJob \/ \E k \in {"info", "put", "open"} : sJob' = <<k, 0>>
  BY DEF Over, GoesOn
<1>2. sJob' \in Tasks \cup {Script!NoJob} /\ sJob'[1] \in {"none", "info", "put", "open"}
  BY <1>1, ScriptKinds DEF Tasks
<1>3. sJobs' = sJobs
  BY DEF Over, GoesOn
<1> QED BY <1>2, <1>3 DEF ScriptInv, Lined

-----------------------------------------------------------------------------
\* Each part, where the step is none of its own.

LEMMA ScriptBootStays ==
    ASSUME ScriptInv, UNCHANGED <<sInfoReady, sOpened>>, sStart' = "none" => sStart = "none",
           \/ Stands
           \/ \E e \in Tasks : Posts(e) /\ e[1] \notin {"eval", "info", "put", "open"}
           \/ Begun
           \/ Over
    PROVE  Booted'
<1>1. Booted /\ sJobs \in Seq(Tasks) /\ Len(sJobs) \in Nat
  BY DEF ScriptInv, Lined
<1>2. CASE Stands
  BY <1>1, <1>2 DEF Booted, Stands
<1>3. ASSUME NEW e \in Tasks, Posts(e), e[1] \notin {"eval", "info", "put", "open"} PROVE Booted'
  <2>1. \A i \in 1..Len(sJobs') : (i \in 1..Len(sJobs) /\ sJobs'[i] = sJobs[i]) \/ (i = Len(sJobs) + 1 /\ sJobs'[i] = e)
    BY <1>1, <1>3 DEF Posts
  <2> QED BY <1>1, <1>3, <2>1 DEF Booted, Posts
<1>4. CASE Begun
  <2>1. \A i \in 1..Len(sJobs') : i + 1 \in 1..Len(sJobs) /\ sJobs'[i] = sJobs[i + 1] /\ i + 1 # 1
    BY <1>1, <1>4 DEF Begun
  <2>2. 1 \in 1..Len(sJobs) /\ sJob' = sJobs[1]
    BY <1>1, <1>4 DEF Begun
  <2>3. sJobs[1][1] = "eval" => \A i \in 1..Len(sJobs') : sJobs'[i][1] # "eval"
    <3>1. ASSUME sJobs[1][1] = "eval", NEW i \in 1..Len(sJobs), i # 1, sJobs[i][1] = "eval" PROVE FALSE
      <4>1. sJobs[1] \in Tasks /\ sJobs[i] \in Tasks
        BY <1>1, <2>2, <3>1
      <4>2. sJobs[1] = sJobs[i]
        BY <3>1, <4>1, ScriptKinds
      <4> QED BY <2>2, <3>1, <4>2 DEF ScriptInv, Lined
    <3> QED BY <2>1, <3>1
  <2> QED BY <1>1, <2>1, <2>2, <2>3 DEF Booted
<1>5. CASE Over
  BY <1>1, <1>5, ScriptKinds DEF Booted, Over
<1> QED BY <1>2, <1>3, <1>4, <1>5

LEMMA ScriptJarStays ==
    ASSUME ScriptInv, UNCHANGED <<sInfoReady, sPending, sTaken, sJar, sApplying, sApplied, sCrossed>>,
           sJob' = sJob \/ Begun \/ (Over /\ sJob[1] # "put")
    PROVE  Jarred'
<1>1. sJob[1] # "put" => sTaken = 0
  BY DEF ScriptInv, Jarred
<1>2. Begun => sJob[1] # "put"
  BY ScriptKinds DEF Begun
<1>3. sJob'[1] # "put" => sTaken = 0
  BY <1>1, <1>2 DEF Begun
<1> QED BY <1>3 DEF ScriptInv, Jarred

LEMMA ScriptHandStays ==
    ASSUME ScriptInv, UNCHANGED <<sAccepted, sWriteCh, sHand, sWriter, sResult, sWrote>>,
           sStart' = sStart \/ (sStart = "none" /\ sStart' = "waits"),
           \/ Stands
           \/ \E e \in Tasks : Posts(e) /\ e[1] # "write"
           \/ Begun
           \/ Over
           \/ \E k \in {"info", "put", "open"} : GoesOn(k)
    PROVE  Handed'
<1>1. Handed /\ sJobs \in Seq(Tasks) /\ Len(sJobs) \in Nat
  BY DEF ScriptInv, Lined
<1>a. Awaited' = Awaited
  BY DEF Awaited
<1>2. ASSUME \A i \in 1..Len(sJobs') : sJobs'[i][1] = "write" => sJobs'[i][2] = sHand /\ Awaited,
             sJob'[1] = "write" => sJob'[2] = sHand /\ Awaited
      PROVE  Handed'
  BY <1>1, <1>a, <1>2 DEF Handed, InHand, Asked
<1>3. CASE Stands
  BY <1>1, <1>2, <1>3 DEF Handed, InHand, Asked, Stands
<1>4. ASSUME NEW e \in Tasks, Posts(e), e[1] # "write" PROVE Handed'
  <2>1. \A i \in 1..Len(sJobs') : (i \in 1..Len(sJobs) /\ sJobs'[i] = sJobs[i]) \/ (i = Len(sJobs) + 1 /\ sJobs'[i] = e)
    BY <1>1, <1>4 DEF Posts
  <2> QED BY <1>1, <1>2, <1>4, <2>1 DEF Handed, InHand, Asked, Posts
<1>5. CASE Begun
  <2>1. \A i \in 1..Len(sJobs') : i + 1 \in 1..Len(sJobs) /\ sJobs'[i] = sJobs[i + 1]
    BY <1>1, <1>5 DEF Begun
  <2>2. 1 \in 1..Len(sJobs) /\ sJob' = sJobs[1]
    BY <1>1, <1>5 DEF Begun
  <2> QED BY <1>1, <1>2, <2>1, <2>2 DEF Handed, InHand, Asked
<1>6. CASE sJobs' = sJobs /\ sJob'[1] # "write"
  BY <1>1, <1>2, <1>6 DEF Handed, InHand, Asked
<1>7. CASE Over
  BY <1>6, <1>7, ScriptKinds DEF Over
<1>8. ASSUME NEW k \in {"info", "put", "open"}, GoesOn(k) PROVE Handed'
  BY <1>6, <1>8 DEF GoesOn
<1> QED BY <1>3, <1>4, <1>5, <1>7, <1>8

LEMMA ScriptSocksStay ==
    ASSUME ScriptInv, UNCHANGED <<sSock, sClosers, sLate>>,
           sStop' = "ends" => sStop = "ends", sStop' = "done" => sLoop' = "gone" /\ sStop \in {"ends", "done"},
           \/ Stands
           \/ \E e \in Tasks : Posts(e)
           \/ Begun
           \/ Over /\ sJob[1] # "dialled"
           \/ (\E k \in {"info", "put", "open"} : GoesOn(k)) /\ sJob[1] # "dialled"
    PROVE  Closing'
<1>1. Closing /\ sJobs \in Seq(Tasks) /\ Len(sJobs) \in Nat
  BY DEF ScriptInv, Lined
<1>2. ASSUME \A d \in ScriptDials : sJob = <<"dialled", d>> \/ (\E i \in 1..Len(sJobs) : sJobs[i] = <<"dialled", d>>)
               => sJob' = <<"dialled", d>> \/ \E i \in 1..Len(sJobs') : sJobs'[i] = <<"dialled", d>>
      PROVE  Closing'
  BY <1>1, <1>2 DEF Closing
<1>3. CASE Stands
  BY <1>2, <1>3 DEF Stands
<1>4. ASSUME NEW e \in Tasks, Posts(e) PROVE Closing'
  <2>1. \A i \in 1..Len(sJobs) : i \in 1..Len(sJobs') /\ sJobs'[i] = sJobs[i]
    BY <1>1, <1>4 DEF Posts
  <2> QED BY <1>2, <1>4, <2>1 DEF Posts
<1>5. CASE Begun
  <2>1. \A i \in 1..Len(sJobs) : (i = 1 /\ sJob' = sJobs[i]) \/ (i - 1 \in 1..Len(sJobs') /\ sJobs'[i - 1] = sJobs[i])
    <3>1. \A i \in 1..Len(sJobs) : i = 1 \/ i - 1 \in 1..Len(sJobs')
      BY <1>1, <1>5 DEF Begun
    <3>2. \A i \in 1..Len(sJobs) : i - 1 \in 1..Len(sJobs') => sJobs'[i - 1] = sJobs[(i - 1) + 1] /\ (i - 1) + 1 = i
      BY <1>1, <1>5 DEF Begun
    <3> QED BY <1>5, <3>1, <3>2 DEF Begun
  <2>2. \A d \in ScriptDials : sJob # <<"dialled", d>>
    BY <1>5, ScriptKinds DEF Begun
  <2> QED BY <1>2, <2>1, <2>2
<1>6. CASE sJobs' = sJobs /\ sJob[1] # "dialled"
  BY <1>2, <1>6
<1> QED BY <1>3, <1>4, <1>5, <1>6 DEF Over, GoesOn

LEMMA ScriptPoolStays ==
    ASSUME ScriptInv, UNCHANGED sRun,
           \/ Stands
           \/ \E e \in Tasks : Posts(e) /\ e[1] # "pool"
           \/ Begun
           \/ Over
           \/ \E k \in {"info", "put", "open"} : GoesOn(k)
    PROVE  Pooled'
<1>1. Pooled /\ sJobs \in Seq(Tasks) /\ Len(sJobs) \in Nat
  BY DEF ScriptInv, Lined
<1>a. Script!Holding' = Script!Holding
  BY DEF Script!Holding
<1>2. ASSUME \A i \in 1..Len(sJobs') : sJobs'[i][1] = "pool" => sRun[sJobs'[i][2]] = "posted",
             sJob'[1] = "pool" => sRun[sJob'[2]] = "posted"
      PROVE  Pooled'
  BY <1>1, <1>a, <1>2 DEF Pooled
<1>3. CASE Stands
  BY <1>1, <1>2, <1>3 DEF Pooled, Stands
<1>4. ASSUME NEW e \in Tasks, Posts(e), e[1] # "pool" PROVE Pooled'
  <2>1. \A i \in 1..Len(sJobs') : (i \in 1..Len(sJobs) /\ sJobs'[i] = sJobs[i]) \/ (i = Len(sJobs) + 1 /\ sJobs'[i] = e)
    BY <1>1, <1>4 DEF Posts
  <2> QED BY <1>1, <1>2, <1>4, <2>1 DEF Pooled, Posts
<1>5. CASE Begun
  <2>1. \A i \in 1..Len(sJobs') : i + 1 \in 1..Len(sJobs) /\ sJobs'[i] = sJobs[i + 1]
    BY <1>1, <1>5 DEF Begun
  <2>2. 1 \in 1..Len(sJobs) /\ sJob' = sJobs[1]
    BY <1>1, <1>5 DEF Begun
  <2> QED BY <1>1, <1>2, <2>1, <2>2 DEF Pooled
<1>6. CASE sJobs' = sJobs /\ sJob'[1] # "pool"
  BY <1>1, <1>2, <1>6 DEF Pooled
<1>7. CASE Over
  BY <1>6, <1>7, ScriptKinds DEF Over
<1>8. ASSUME NEW k \in {"info", "put", "open"}, GoesOn(k) PROVE Pooled'
  BY <1>6, <1>8 DEF GoesOn
<1> QED BY <1>3, <1>4, <1>5, <1>7, <1>8

-----------------------------------------------------------------------------
\* The steps.

\* Steps that leave the queue alone.
Aside ==
    \/ Script!Sticks \/ Script!LoopEnds \/ Script!Terminated \/ Script!StartReturns \/ Script!SetState \/ Script!Send
    \/ Script!WriterTakes \/ Script!WriterHears \/ Script!WriterEnds \/ Script!ApplyCookies
    \/ \E d \in ScriptDials : Script!Opens(d)
    \/ \E r \in ScriptRuns : Script!RunAsked(r) \/ Script!Settles(r)
    \/ Script!StopTires \/ Script!StopCloses \/ Script!StopTerminates

LEMMA ScriptAside ==
    ASSUME ScriptInv, Aside
    PROVE  /\ Stands
           /\ sStart' = "none" => sStart = "none" /\ sLoop' = sLoop
           /\ sLoop' = "gone" => sLoop = "gone" \/ (sJobs = <<>> /\ sJob = Script!NoJob)
           /\ sStart' \in {"none", "waits", "ok", "failed"} /\ sReady' = sReady
           /\ sLoop' \in {"none", "up", "ending", "ended", "gone"}
           /\ sStop' \in {"none", "asks", "closes", "ends", "done"}
<1>1. Stands
  BY DEF Aside, Stands, Script!Sticks, Script!LoopEnds, Script!Terminated, Script!StartReturns, Script!SetState, Script!Send,
    Script!WriterTakes, Script!WriterHears, Script!WriterEnds, Script!ApplyCookies, Script!Opens, Script!RunAsked,
    Script!Settles, Script!StopTires, Script!StopCloses, Script!StopTerminates, Script!loopVars
<1>2. \/ UNCHANGED <<sStart, sLoop>>
      \/ sLoop = "ending" /\ sLoop' = "ended" /\ sStart' = sStart
      \/ sLoop = "ended" /\ sLoop' = "gone" /\ sJob = Script!NoJob /\ sJobs = <<>> /\ sStart' = sStart
      \/ sStart' = sReady /\ sReady # "none" /\ (sLoop' = sLoop \/ (sLoop = "up" /\ sLoop' = "ending"))
      \/ sLoop = "up" /\ sLoop' = "ending" /\ sStart' = sStart
  BY DEF Aside, Script!Sticks, Script!LoopEnds, Script!Terminated, Script!StartReturns, Script!SetState, Script!Send,
    Script!WriterTakes, Script!WriterHears, Script!WriterEnds, Script!ApplyCookies, Script!Opens, Script!RunAsked,
    Script!Settles, Script!StopTires, Script!StopCloses, Script!StopTerminates, Script!loopVars, Script!lifeVars
<1>3. sReady' = sReady /\ sStop' \in {sStop, "done", "closes", "ends"}
  BY DEF Aside, Script!Sticks, Script!LoopEnds, Script!Terminated, Script!StartReturns, Script!SetState, Script!Send,
    Script!WriterTakes, Script!WriterHears, Script!WriterEnds, Script!ApplyCookies, Script!Opens, Script!RunAsked,
    Script!Settles, Script!StopTires, Script!StopCloses, Script!StopTerminates, Script!lifeVars
<1>4. sReady \in {"none", "ok", "failed"} /\ (sStart = "none" => sLoop = "none")
      /\ sStart \in {"none", "waits", "ok", "failed"} /\ sLoop \in {"none", "up", "ending", "ended", "gone"}
      /\ sStop \in {"none", "asks", "closes", "ends", "done"}
  BY DEF ScriptInv, Staged, Lined
<1> QED BY <1>1, <1>2, <1>3, <1>4

\* Steps that post something, if the loop takes it.
Posting ==
    \/ Script!Start \/ Script!WriterPosts \/ Script!ApplyWrites \/ Script!Stop
    \/ \E d \in ScriptDials : Script!DialEnds(d) \/ Script!ReadEnds(d)
    \/ \E r \in ScriptRuns : Script!Acquires(r)

LEMMA ScriptPostings ==
    ASSUME ScriptInv, Posting
    PROVE  /\ \/ Stands /\ sStart' = sStart /\ sLoop' = sLoop
              \/ \E e \in Tasks :
                    /\ Posts(e) /\ sJobs' \in Seq(Tasks) /\ sStart' # "none" /\ sLoop' # "gone"
                    /\ e[1] = "eval" => Script!Start
                    /\ e[1] = "write" => Script!WriterPosts /\ e[2] = sHand
                    /\ e[1] = "pool" => \E r \in ScriptRuns : Script!Acquires(r) /\ e[2] = r
                    /\ e[1] \notin {"info", "put", "open"}
           /\ sReady' = sReady /\ sStart' \in {sStart, "waits"} /\ sLoop' \in {sLoop, "up"}
           /\ sStop' \in {sStop, "asks", "closes"}
<1>0. Lined /\ (Script!Takes => sStart # "none" /\ sLoop # "gone") /\ sHand \in Nat
  BY DEF ScriptInv, Lined, Handed, InHand, Asked, Script!Takes
<1>1. CASE Script!Start
  <2>1. Script!Post("eval", 0) /\ sJob' = sJob /\ sStart' = "waits" /\ sLoop' = "up" /\ UNCHANGED <<sReady, sStop>>
    BY <1>1 DEF Script!Start
  <2>2. <<"eval", 0>> \in Tasks
    BY DEF Tasks
  <2>3. Posts(<<"eval", 0>>) /\ sJobs' \in Seq(Tasks)
    BY <1>0, <2>1, <2>2, ScriptPosting
  <2> QED BY <1>1, <2>1, <2>2, <2>3
<1>2. CASE Script!WriterPosts
  <2>1. /\ sJob' = sJob /\ UNCHANGED <<sStart, sLoop, sReady, sStop>>
        /\ (Script!Takes /\ Script!Post("write", sHand)) \/ sJobs' = sJobs
    BY <1>2 DEF Script!WriterPosts, Script!lifeVars
  <2>2. <<"write", sHand>> \in Tasks
    BY <1>0 DEF Tasks
  <2>3. Script!Post("write", sHand) => Posts(<<"write", sHand>>) /\ sJobs' \in Seq(Tasks)
    BY <1>0, <2>1, <2>2, ScriptPosting
  <2>4. CASE sJobs' = sJobs
    BY <2>1, <2>4 DEF Stands
  <2>5. CASE Script!Takes /\ Script!Post("write", sHand)
    BY <1>0, <1>2, <2>1, <2>2, <2>3, <2>5
  <2> QED BY <2>1, <2>4, <2>5
<1>3. CASE Script!ApplyWrites
  <2>1. /\ sJob' = sJob /\ UNCHANGED <<sStart, sLoop, sReady, sStop>>
        /\ (Script!Takes /\ Script!Post("event", 0)) \/ sJobs' = sJobs
    BY <1>3 DEF Script!ApplyWrites, Script!lifeVars
  <2>2. <<"event", 0>> \in Tasks
    BY DEF Tasks
  <2>3. Script!Post("event", 0) => Posts(<<"event", 0>>) /\ sJobs' \in Seq(Tasks)
    BY <1>0, <2>1, <2>2, ScriptPosting
  <2>4. CASE sJobs' = sJobs
    BY <2>1, <2>4 DEF Stands
  <2>5. CASE Script!Takes /\ Script!Post("event", 0)
    BY <1>0, <2>1, <2>2, <2>3, <2>5
  <2> QED BY <2>1, <2>4, <2>5
<1>4. CASE Script!Stop
  <2>1. /\ sJob' = sJob /\ UNCHANGED <<sStart, sLoop, sReady>> /\ sStop' \in {"asks", "closes"}
        /\ (Script!Takes /\ Script!Post("close", 0)) \/ sJobs' = sJobs
    BY <1>4 DEF Script!Stop
  <2>2. <<"close", 0>> \in Tasks
    BY DEF Tasks
  <2>3. Script!Post("close", 0) => Posts(<<"close", 0>>) /\ sJobs' \in Seq(Tasks)
    BY <1>0, <2>1, <2>2, ScriptPosting
  <2>4. CASE sJobs' = sJobs
    BY <2>1, <2>4 DEF Stands
  <2>5. CASE Script!Takes /\ Script!Post("close", 0)
    BY <1>0, <2>1, <2>2, <2>3, <2>5
  <2> QED BY <2>1, <2>4, <2>5
<1>5. ASSUME NEW d \in ScriptDials, NEW k \in {"dialled", "closed"}, sJob' = sJob, UNCHANGED <<sStart, sLoop, sReady, sStop>>,
             (Script!Takes /\ Script!Post(k, d)) \/ sJobs' = sJobs
      PROVE  /\ \/ Stands
                \/ \E e \in Tasks :
                      /\ Posts(e) /\ sJobs' \in Seq(Tasks) /\ sStart # "none" /\ sLoop # "gone"
                      /\ e[1] \in {"dialled", "closed"}
  <2>2. <<k, d>> \in Tasks
    BY DEF Tasks
  <2>3. Script!Post(k, d) => Posts(<<k, d>>) /\ sJobs' \in Seq(Tasks)
    BY <1>0, <1>5, <2>2, ScriptPosting
  <2>4. CASE sJobs' = sJobs
    BY <1>5, <2>4 DEF Stands
  <2>5. CASE Script!Takes /\ Script!Post(k, d)
    BY <1>0, <2>2, <2>3, <2>5
  <2> QED BY <1>5, <2>4, <2>5
<1>6. ASSUME NEW d \in ScriptDials, Script!DialEnds(d) \/ Script!ReadEnds(d)
      PROVE  /\ \/ Stands
                \/ \E e \in Tasks :
                      /\ Posts(e) /\ sJobs' \in Seq(Tasks) /\ sStart # "none" /\ sLoop # "gone"
                      /\ e[1] \in {"dialled", "closed"}
             /\ UNCHANGED <<sStart, sLoop, sReady, sStop>>
  <2>1. sJob' = sJob /\ UNCHANGED <<sStart, sLoop, sReady, sStop>>
    BY <1>6 DEF Script!DialEnds, Script!ReadEnds, Script!lifeVars
  <2>2. \E k \in {"dialled", "closed"} : (Script!Takes /\ Script!Post(k, d)) \/ sJobs' = sJobs
    BY <1>6 DEF Script!DialEnds, Script!ReadEnds
  <2> QED BY <1>5, <2>1, <2>2
<1>7. ASSUME NEW r \in ScriptRuns, Script!Acquires(r)
      PROVE  /\ \/ Stands
                \/ \E e \in Tasks :
                      /\ Posts(e) /\ sJobs' \in Seq(Tasks) /\ sStart # "none" /\ sLoop # "gone"
                      /\ e = <<"pool", r>>
             /\ UNCHANGED <<sStart, sLoop, sReady, sStop>>
  <2>1. /\ sJob' = sJob /\ UNCHANGED <<sStart, sLoop, sReady, sStop>>
        /\ (Script!Takes /\ Script!Post("pool", r)) \/ sJobs' = sJobs
    BY <1>7 DEF Script!Acquires, Script!lifeVars
  <2>2. <<"pool", r>> \in Tasks
    BY DEF Tasks
  <2>3. Script!Post("pool", r) => Posts(<<"pool", r>>) /\ sJobs' \in Seq(Tasks)
    BY <1>0, <2>1, <2>2, ScriptPosting
  <2>4. CASE sJobs' = sJobs
    BY <2>1, <2>4 DEF Stands
  <2>5. CASE Script!Takes /\ Script!Post("pool", r)
    BY <1>0, <2>1, <2>2, <2>3, <2>5
  <2> QED BY <2>1, <2>4, <2>5
<1>8. CASE \E d \in ScriptDials : Script!DialEnds(d) \/ Script!ReadEnds(d)
  BY <1>6, <1>8
<1>9. CASE \E r \in ScriptRuns : Script!Acquires(r)
  BY <1>7, <1>9
<1> QED BY <1>1, <1>2, <1>3, <1>4, <1>8, <1>9 DEF Posting

\* Steps of the job that runs.
Ending ==
    \/ Script!BootFails \/ Script!BootEnds \/ Script!Written \/ Script!EventEnds \/ Script!Dialled \/ Script!Closed
    \/ Script!PoolRuns \/ Script!CloseEnds
Stage == Script!Evaluated \/ Script!InfoRead \/ Script!InfoWrites

LEMMA ScriptEndings ==
    ASSUME ScriptInv, Ending \/ Stage
    PROVE  /\ Ending => Over
           /\ Stage => \E k \in {"info", "put", "open"} : GoesOn(k)
           /\ sJob # Script!NoJob /\ UNCHANGED <<sStart, sLoop>> /\ sReady' \in {sReady, "ok", "failed"}
           /\ sStop' = sStop \/ (sStop = "asks" /\ sStop' = "closes")
BY DEF Ending, Stage, Over, GoesOn, Script!BootFails, Script!BootEnds, Script!Written, Script!EventEnds, Script!Dialled,
  Script!Closed, Script!PoolRuns, Script!CloseEnds, Script!Evaluated, Script!InfoRead, Script!InfoWrites, Script!Returns,
  Script!Throws, Script!Kind, Script!NoJob, Script!lifeVars

LEMMA ScriptSteps == Script!Next => Aside \/ Posting \/ Script!NextJob \/ Ending \/ Stage
BY DEF Script!Next, Aside, Posting, Ending, Stage, Script!ScriptJob, Script!Writer, Script!Stopping

LEMMA ScriptNextJob ==
    ASSUME ScriptInv, Script!NextJob
    PROVE  /\ Begun /\ sJobs' \in Seq(Tasks) /\ sJob' \in Tasks /\ sStart' # "none" /\ sLoop' # "gone"
           /\ UNCHANGED <<sStart, sLoop, sStop, sReady>>
<1>1. Begun /\ sJobs' \in Seq(Tasks) /\ sJob' \in Tasks
  BY ScriptTaking DEF ScriptInv
<1>2. sStart # "none" /\ sLoop # "gone" /\ UNCHANGED <<sStart, sLoop, sStop, sReady>>
  BY DEF ScriptInv, Lined, Script!NextJob, Script!lifeVars
<1> QED BY <1>1, <1>2

LEMMA ScriptQueue == ScriptInv /\ Script!Next => Lined' /\ Staged'
<1> SUFFICES ASSUME ScriptInv, Script!Next PROVE Lined' /\ Staged'
  OBVIOUS
<1>0. Staged /\ Lined
  BY DEF ScriptInv
<1>1. CASE Aside
  <2>1. Staged'
    BY <1>0, <1>1, ScriptAside DEF Staged
  <2> QED BY <1>1, <2>1, ScriptAside, ScriptStays
<1>2. CASE Posting
  <2>1. Staged'
    BY <1>0, <1>2, ScriptPostings DEF Staged
  <2>2. CASE Stands /\ sStart' = sStart /\ sLoop' = sLoop
    BY <2>1, <2>2, ScriptStays
  <2>3. ASSUME NEW e \in Tasks, Posts(e), sJobs' \in Seq(Tasks), sStart' # "none", sLoop' # "gone",
               e[1] = "eval" => Script!Start,
               e[1] = "write" => Script!WriterPosts /\ e[2] = sHand,
               e[1] = "pool" => \E r \in ScriptRuns : Script!Acquires(r) /\ e[2] = r
        PROVE  Lined'
    <3>0. Len(sJobs) \in Nat /\ sJobs \in Seq(Tasks) /\ sJob \in Tasks \cup {Script!NoJob}
      BY <1>0 DEF Lined
    <3>1. CASE e[1] = "eval"
      <4>1. sJobs = <<>> /\ sJob = Script!NoJob
        BY <1>0, <2>3, <3>1 DEF Script!Start, Lined
      <4>2. e # Script!NoJob /\ Len(sJobs) = 0
        BY <3>1, <4>1, ScriptKinds
      <4> QED BY <2>3, <4>1, <4>2, ScriptPosted
    <3>2. CASE e[1] = "write"
      <4>1. sWriter = "idle"
        BY <2>3, <3>2 DEF Script!WriterPosts
      <4>2. sJob # e /\ \A i \in 1..Len(sJobs) : sJobs[i] # e
        BY <3>2, <4>1 DEF ScriptInv, Handed, InHand, Asked, Awaited
      <4> QED BY <2>3, <4>2, ScriptPosted
    <3>3. CASE e[1] = "pool"
      <4>1. sRun[e[2]] = "queued"
        BY <2>3, <3>3 DEF Script!Acquires
      <4>2. sJob # e /\ \A i \in 1..Len(sJobs) : sJobs[i] # e
        BY <3>3, <4>1 DEF ScriptInv, Pooled
      <4> QED BY <2>3, <4>2, ScriptPosted
    <3> QED BY <2>3, <3>1, <3>2, <3>3, ScriptPosted
  <2> QED BY <1>2, <2>1, <2>2, <2>3, ScriptPostings
<1>3. CASE Script!NextJob
  BY <1>0, <1>3, ScriptNextJob, ScriptTaken DEF Staged
<1>4. CASE Ending \/ Stage
  <2>1. Staged'
    BY <1>0, <1>4, ScriptEndings DEF Staged
  <2> QED BY <1>4, <2>1, ScriptEndings, ScriptOver
<1> QED BY <1>1, <1>2, <1>3, <1>4, ScriptSteps

LEMMA ScriptBoot == ScriptInv /\ Script!Next => Booted'
<1> SUFFICES ASSUME ScriptInv, Script!Next PROVE Booted'
  OBVIOUS
<1>0. Booted /\ Lined
  BY DEF ScriptInv
<1>1. CASE Aside
  <2>1. UNCHANGED <<sInfoReady, sOpened>>
    BY <1>1 DEF Aside, Script!Sticks, Script!LoopEnds, Script!Terminated, Script!StartReturns, Script!SetState, Script!Send,
      Script!WriterTakes, Script!WriterHears, Script!WriterEnds, Script!ApplyCookies, Script!Opens, Script!RunAsked,
      Script!Settles, Script!StopTires, Script!StopCloses, Script!StopTerminates, Script!cookieVars, Script!lifeVars
  <2> QED BY <1>1, <2>1, ScriptAside, ScriptBootStays
<1>2. CASE Posting
  <2>1. UNCHANGED <<sInfoReady, sOpened>>
    BY <1>2 DEF Posting, Script!Start, Script!WriterPosts, Script!ApplyWrites, Script!Stop, Script!DialEnds, Script!ReadEnds,
      Script!Acquires, Script!cookieVars, Script!lifeVars
  <2>2. CASE Script!Start
    <3>1. sJobs = <<>> /\ sJob = <<"none", 0>> /\ ~sInfoReady /\ ~sOpened
      BY <1>0, <2>2, ScriptKinds DEF Script!Start, Lined, Booted
    <3>2. sJobs' = Append(<<>>, <<"eval", 0>>) /\ sJob' = sJob /\ sStart' = "waits"
      BY <2>2, <3>1 DEF Script!Start, Script!Post
    <3>3. Len(sJobs') = 1 /\ sJobs'[1] = <<"eval", 0>>
      BY <3>2
    <3> QED BY <2>1, <3>1, <3>2, <3>3 DEF Booted
  <2>3. CASE ~Script!Start
    BY <1>2, <2>1, <2>3, ScriptPostings, ScriptBootStays
  <2> QED BY <2>2, <2>3
<1>3. CASE Script!NextJob
  BY <1>3, ScriptNextJob, ScriptBootStays DEF Script!NextJob, Script!cookieVars, Script!lifeVars
<1>4. CASE Ending
  <2>1. UNCHANGED <<sInfoReady, sOpened>>
    BY <1>4 DEF Ending, Script!BootFails, Script!BootEnds, Script!Written, Script!EventEnds, Script!Dialled, Script!Closed,
      Script!PoolRuns, Script!CloseEnds, Script!cookieVars, Script!lifeVars
  <2> QED BY <1>4, <2>1, ScriptEndings, ScriptBootStays
<1>5. CASE Stage
  <2>1. sJobs' = sJobs /\ sStart' = sStart /\ sStart # "none"
    BY <1>0, <1>5, ScriptEndings DEF GoesOn, Lined
  <2>2. CASE Script!Evaluated
    BY <1>0, <2>1, <2>2 DEF Booted, Script!Evaluated, Script!Kind, Script!cookieVars, Script!lifeVars
  <2>3. CASE Script!InfoRead
    BY <1>0, <2>1, <2>3 DEF Booted, Script!InfoRead, Script!Kind, Script!lifeVars
  <2>4. CASE Script!InfoWrites
    BY <1>0, <2>1, <2>4 DEF Booted, Script!InfoWrites, Script!Kind
  <2> QED BY <1>5, <2>2, <2>3, <2>4 DEF Stage
<1> QED BY <1>1, <1>2, <1>3, <1>4, <1>5, ScriptSteps

LEMMA ScriptJar == ScriptInv /\ Script!Next => Jarred'
<1> SUFFICES ASSUME ScriptInv, Script!Next PROVE Jarred'
  OBVIOUS
<1>0. Booted /\ Lined /\ Jarred
  BY DEF ScriptInv
<1>c. CASE Script!ApplyCookies
  <2>1. sJob' = sJob
    BY <1>c DEF Script!ApplyCookies, Script!loopVars
  <2> QED BY <1>0, <1>c, <2>1 DEF Jarred, Script!ApplyCookies, Script!Kept
<1>w. CASE Script!ApplyWrites
  BY <1>0, <1>w DEF Jarred, Script!ApplyWrites
<1>1. CASE Aside /\ ~Script!ApplyCookies
  <2>1. UNCHANGED <<sInfoReady, sPending, sTaken, sJar, sApplying, sApplied, sCrossed>>
    BY <1>1 DEF Aside, Script!Sticks, Script!LoopEnds, Script!Terminated, Script!StartReturns, Script!SetState, Script!Send,
      Script!WriterTakes, Script!WriterHears, Script!WriterEnds, Script!Opens, Script!RunAsked, Script!Settles,
      Script!StopTires, Script!StopCloses, Script!StopTerminates, Script!cookieVars
  <2> QED BY <1>1, <2>1, ScriptAside, ScriptJarStays DEF Stands
<1>2. CASE Posting /\ ~Script!ApplyWrites
  <2>1. UNCHANGED <<sInfoReady, sPending, sTaken, sJar, sApplying, sApplied, sCrossed, sJob>>
    BY <1>2 DEF Posting, Script!Start, Script!WriterPosts, Script!Stop, Script!DialEnds, Script!ReadEnds, Script!Acquires,
      Script!cookieVars
  <2> QED BY <2>1, ScriptJarStays
<1>3. CASE Script!NextJob
  BY <1>3, ScriptNextJob, ScriptJarStays DEF Script!NextJob, Script!cookieVars
<1>4. CASE Ending
  <2>1. UNCHANGED <<sInfoReady, sPending, sTaken, sJar, sApplying, sApplied, sCrossed>> /\ sJob[1] # "put"
    BY <1>4 DEF Ending, Script!BootFails, Script!BootEnds, Script!Written, Script!EventEnds, Script!Dialled, Script!Closed,
      Script!PoolRuns, Script!CloseEnds, Script!cookieVars, Script!Kind
  <2> QED BY <1>4, <2>1, ScriptEndings, ScriptJarStays
<1>5. CASE Stage
  <2>1. CASE Script!Evaluated
    BY <1>0, <2>1 DEF Jarred, Script!Evaluated, Script!Kind, Script!cookieVars
  <2>2. CASE Script!InfoRead
    BY <1>0, <2>2 DEF Jarred, Booted, Script!InfoRead, Script!Kind
  <2>3. CASE Script!InfoWrites
    BY <1>0, <2>3 DEF Jarred, Booted, Script!InfoWrites, Script!Kind
  <2> QED BY <1>5, <2>1, <2>2, <2>3 DEF Stage
<1> QED BY <1>c, <1>w, <1>1, <1>2, <1>3, <1>4, <1>5, ScriptSteps

\* Sending a packet, and hearing of it.
LEMMA ScriptSends ==
    ASSUME ScriptInv, Script!Send \/ Script!WriterTakes \/ Script!WriterHears \/ Script!WriterEnds \/ Script!StartReturns
    PROVE  Handed'
<1>0. Handed /\ Stands
  BY ScriptAside DEF ScriptInv, Aside
<1>1. Len(sWrote) \in Nat /\ Len(sWriteCh) \in Nat /\ sHand \in Nat /\ sAccepted \in Nat
  BY <1>0 DEF Handed, InHand, Asked
<1>2. CASE Script!Send
  <2>1. sAccepted' = sAccepted + 1 /\ sWriteCh' = Append(sWriteCh, sAccepted + 1)
        /\ UNCHANGED <<sHand, sWriter, sResult, sWrote, sStart>>
    BY <1>2 DEF Script!Send, Script!lifeVars
  <2>2. /\ sWriteCh' \in Seq(Nat) /\ Len(sWriteCh') = Len(sWriteCh) + 1
        /\ \A i \in 1..Len(sWriteCh') : sWriteCh'[i] = IF i = Len(sWriteCh) + 1 THEN sAccepted + 1 ELSE sWriteCh[i]
    BY <1>0, <1>1, <2>1 DEF Handed, InHand, Asked
  <2>3. \A i \in 1..Len(sWriteCh') : sWriteCh'[i] = sAccepted' - Len(sWriteCh') + i
    <3>1. PICK n \in Nat : n = Len(sWriteCh) /\ \A i \in 1..n : sWriteCh[i] = sAccepted - n + i
      BY <1>0, <1>1 DEF Handed, InHand
    <3>2. Len(sWriteCh') = n + 1 /\ \A i \in 1..(n + 1) : sWriteCh'[i] = IF i = n + 1 THEN sAccepted + 1 ELSE sWriteCh[i]
      BY <2>2, <3>1
    <3>3. \A i \in 1..(n + 1) : sWriteCh'[i] = (sAccepted + 1) - (n + 1) + i
      BY <1>1, <3>1, <3>2
    <3> QED BY <2>1, <3>2, <3>3
  <2>4. Asked'
    BY <1>0, <2>1 DEF Handed, Asked, Awaited, Stands
  <2>5. InHand'
    <3>1. \/ sHand = 0 /\ sResult = "none" /\ sAccepted = Len(sWrote) + Len(sWriteCh)
          \/ sHand = Len(sWrote) + 1 /\ sResult # "ok" /\ sAccepted = Len(sWrote) + 1 + Len(sWriteCh)
          \/ sHand = Len(sWrote) /\ sHand # 0 /\ sResult = "ok" /\ sAccepted = Len(sWrote) + Len(sWriteCh)
      BY <1>0 DEF Handed, InHand
    <3>2. \/ sHand = 0 /\ sResult = "none" /\ sAccepted + 1 = Len(sWrote) + (Len(sWriteCh) + 1)
          \/ sHand = Len(sWrote) + 1 /\ sResult # "ok" /\ sAccepted + 1 = Len(sWrote) + 1 + (Len(sWriteCh) + 1)
          \/ sHand = Len(sWrote) /\ sHand # 0 /\ sResult = "ok" /\ sAccepted + 1 = Len(sWrote) + (Len(sWriteCh) + 1)
      BY <1>1, <3>1
    <3>3. sAccepted + 1 \in Nat
      BY <1>1
    <3> QED BY <1>0, <2>1, <2>2, <2>3, <3>2, <3>3 DEF Handed, InHand
  <2> QED BY <2>4, <2>5 DEF Handed
<1>3. CASE Script!WriterTakes
  <2>1. /\ sWriter = "idle" /\ sHand = 0 /\ sWriteCh # <<>> /\ sHand' = Head(sWriteCh) /\ sWriteCh' = Tail(sWriteCh)
        /\ UNCHANGED <<sAccepted, sWriter, sResult, sWrote, sStart>>
    BY <1>3 DEF Script!WriterTakes, Script!lifeVars
  <2>2. /\ sWriteCh' \in Seq(Nat) /\ Len(sWriteCh') = Len(sWriteCh) - 1 /\ Len(sWriteCh) > 0 /\ Head(sWriteCh) = sWriteCh[1]
        /\ \A i \in 1..Len(sWriteCh') : sWriteCh'[i] = sWriteCh[i + 1]
    BY <1>0, <2>1 DEF Handed, InHand, Asked
  <2>3. sResult = "none" /\ sAccepted = Len(sWrote) + Len(sWriteCh) /\ sWriteCh[1] = sAccepted - Len(sWriteCh) + 1
    BY <1>0, <1>1, <2>1, <2>2 DEF Handed, InHand, Asked
  <2>4. sHand' = Len(sWrote) + 1
    BY <1>1, <2>1, <2>2, <2>3
  <2>5. \A i \in 1..Len(sWriteCh') : sWriteCh'[i] = sAccepted' - Len(sWriteCh') + i
    BY <1>0, <1>1, <2>1, <2>2 DEF Handed, InHand, Asked
  <2>6. (\A i \in 1..Len(sJobs) : sJobs[i][1] # "write") /\ sJob[1] # "write"
    BY <1>0, <2>1 DEF Handed, InHand, Asked, Awaited
  <2>7. sAccepted = Len(sWrote) + 1 + Len(sWriteCh')
    BY <1>1, <2>2, <2>3
  <2> QED BY <1>0, <1>1, <2>1, <2>2, <2>3, <2>4, <2>5, <2>6, <2>7 DEF Handed, InHand, Asked, Stands
<1>4. CASE Script!WriterHears
  <2>1. /\ sWriter = "asked" /\ sResult # "none" /\ sWriter' = "idle" /\ sResult' = "none"
        /\ sHand' = IF sResult = "ok" THEN 0 ELSE sHand
        /\ UNCHANGED <<sAccepted, sWriteCh, sWrote, sStart>>
    BY <1>4 DEF Script!WriterHears, Script!KeepsPacket, Script!lifeVars
  <2>2. (\A i \in 1..Len(sJobs) : sJobs[i][1] # "write") /\ sJob[1] # "write"
    BY <1>0, <2>1 DEF Handed, InHand, Asked, Awaited
  <2> QED BY <1>0, <1>1, <2>1, <2>2 DEF Handed, InHand, Asked, Stands
<1>5. CASE Script!WriterEnds
  <2>1. sWriter \in {"idle", "asked"} /\ sWriter' = "ended" /\ UNCHANGED <<sAccepted, sWriteCh, sHand, sResult, sWrote, sStart>>
    BY <1>5 DEF Script!WriterEnds, Script!lifeVars
  <2>2. Awaited => Awaited'
    BY <2>1 DEF Awaited
  <2> QED BY <1>0, <2>1, <2>2 DEF Handed, InHand, Asked, Stands
<1>6. CASE Script!StartReturns
  <2>1. sStart = "waits" /\ sStart' = sReady /\ sReady # "none" /\ sReady \in {"none", "ok", "failed"}
        /\ sWriter' \in {sWriter, "idle"} /\ UNCHANGED <<sAccepted, sWriteCh, sHand, sResult, sWrote>>
    BY <1>6 DEF Script!StartReturns, ScriptInv, Staged
  <2>2. sWriter = "none" /\ sResult = "none"
    BY <1>0, <2>1 DEF Handed, InHand
  <2>3. InHand'
    BY <1>0, <2>1, <2>2 DEF Handed, InHand
  <2>4. Asked'
    BY <1>0, <2>1, <2>2 DEF Handed, Asked, Awaited, Stands
  <2> QED BY <2>3, <2>4 DEF Handed
<1> QED BY <1>2, <1>3, <1>4, <1>5, <1>6

\* The script's write is asked for, and ends.
LEMMA ScriptWrites ==
    ASSUME ScriptInv, Script!WriterPosts \/ Script!Written
    PROVE  Handed'
<1>0. Handed /\ sJobs \in Seq(Tasks) /\ Len(sJobs) \in Nat /\ sJob \in Tasks \cup {Script!NoJob} /\ Lined
  BY DEF ScriptInv, Lined
<1>1. Len(sWrote) \in Nat /\ Len(sWriteCh) \in Nat /\ sHand \in Nat /\ sAccepted \in Nat
  BY <1>0 DEF Handed, InHand, Asked
<1>2. CASE Script!WriterPosts
  <2>1. sWriter = "idle" /\ sHand # 0 /\ UNCHANGED <<sAccepted, sWriteCh, sHand, sResult, sWrote>>
    BY <1>2 DEF Script!WriterPosts
  <2>2. sResult = "none" /\ sHand = Len(sWrote) + 1
    BY <1>0, <2>1 DEF Handed, InHand, Asked
  <2>3. (\A i \in 1..Len(sJobs) : sJobs[i][1] # "write") /\ sJob[1] # "write"
    BY <1>0, <2>1 DEF Handed, InHand, Asked, Awaited
  <2>6. sStart' = sStart /\ sStart \notin {"none", "waits"}
    BY <1>0, <1>2, <2>1 DEF Handed, InHand, Script!WriterPosts, Script!lifeVars
  <2>4. CASE Script!Takes
    <3>1. Script!Post("write", sHand) /\ sWriter' = "asked" /\ sJob' = sJob
      BY <1>2, <2>4 DEF Script!WriterPosts
    <3>2. <<"write", sHand>> \in Tasks
      BY <1>1 DEF Tasks
    <3>3. Posts(<<"write", sHand>>)
      BY <1>0, <3>1, <3>2, ScriptPosting
    <3>4. \A i \in 1..Len(sJobs') :
             (i \in 1..Len(sJobs) /\ sJobs'[i] = sJobs[i]) \/ sJobs'[i] = <<"write", sHand>>
      BY <1>0, <3>3 DEF Posts
    <3>5. Awaited'
      BY <2>1, <2>2, <3>1 DEF Awaited
    <3>6. Asked'
      BY <2>1, <2>3, <3>1, <3>4, <3>5 DEF Asked
    <3>7. InHand'
      BY <1>0, <2>1, <2>6, <3>1 DEF Handed, InHand
    <3> QED BY <3>6, <3>7 DEF Handed
  <2>5. CASE ~Script!Takes
    <3>1. sJobs' = sJobs /\ sWriter' = "ended" /\ sJob' = sJob
      BY <1>2, <2>5 DEF Script!WriterPosts
    <3>2. Asked'
      BY <2>1, <2>3, <3>1 DEF Asked
    <3>3. InHand'
      BY <1>0, <2>1, <2>6, <3>1 DEF Handed, InHand
    <3> QED BY <3>2, <3>3 DEF Handed
  <2> QED BY <2>4, <2>5
<1>3. CASE Script!Written
  <2>1. /\ sJob[1] = "write" /\ sJobs' = sJobs /\ sJob' = Script!NoJob
        /\ UNCHANGED <<sAccepted, sWriteCh, sHand, sWriter, sStart>>
        /\ \/ sResult' = "ok" /\ sWrote' = Append(sWrote, sJob[2])
           \/ sResult' = "failed" /\ sWrote' = sWrote
    BY <1>3 DEF Script!Written, Script!Kind, Script!Returns, Script!lifeVars
  <2>2. sJob[2] = sHand /\ sResult = "none" /\ sWriter \in {"asked", "ended"} /\ sHand = Len(sWrote) + 1
    BY <1>0, <2>1 DEF Handed, InHand, Asked, Awaited
  <2>3. ASSUME NEW i \in 1..Len(sJobs), sJobs[i][1] = "write" PROVE FALSE
    <3>1. sJobs[i] \in Tasks /\ sJob \in Tasks
      BY <1>0, <2>1, <2>3, ScriptKinds
    <3>2. sJobs[i][2] = sJob[2]
      BY <1>0, <2>2, <2>3 DEF Handed, InHand, Asked
    <3>3. sJobs[i] = sJob
      BY <2>1, <2>3, <3>1, <3>2, ScriptKinds
    <3> QED BY <1>0, <2>1, <2>3, <3>3 DEF Lined
  <2>4. sJob'[1] # "write" /\ \A i \in 1..Len(sJobs') : sJobs'[i][1] # "write"
    BY <2>1, <2>3, ScriptKinds
  <2>a. Asked'
    BY <2>4 DEF Asked
  <2>b. sAccepted = Len(sWrote) + 1 + Len(sWriteCh) /\ (sStart \in {"none", "waits"} => sWriter = "none")
    BY <1>0, <1>1, <2>2 DEF Handed, InHand
  <2>5. CASE sResult' = "failed" /\ sWrote' = sWrote
    <3>1. InHand'
      BY <1>0, <2>1, <2>2, <2>5, <2>b DEF Handed, InHand
    <3> QED BY <2>a, <3>1 DEF Handed
  <2>6. CASE sResult' = "ok" /\ sWrote' = Append(sWrote, sHand)
    <3>0. PICK n \in Nat : n = Len(sWrote) /\ sWrote \in Seq(Nat) /\ \A i \in 1..n : sWrote[i] = i
      BY <1>0, <1>1 DEF Handed, InHand
    <3>1. /\ sWrote' \in Seq(Nat) /\ Len(sWrote') = n + 1
          /\ \A i \in 1..(n + 1) : sWrote'[i] = IF i = n + 1 THEN sHand ELSE sWrote[i]
      BY <1>1, <2>6, <3>0
    <3>2. \A i \in 1..(n + 1) : sWrote'[i] = i
      BY <2>2, <3>0, <3>1
    <3>3. sHand # 0 /\ sHand = n + 1 /\ sAccepted = (n + 1) + Len(sWriteCh)
      BY <1>1, <2>2, <2>b, <3>0
    <3>4. InHand'
      BY <1>0, <2>1, <2>2, <2>6, <2>b, <3>1, <3>2, <3>3 DEF Handed, InHand
    <3> QED BY <2>a, <3>4 DEF Handed
  <2> QED BY <2>1, <2>2, <2>5, <2>6
<1> QED BY <1>2, <1>3

LEMMA ScriptHand == ScriptInv /\ Script!Next => Handed'
<1> SUFFICES ASSUME ScriptInv, Script!Next PROVE Handed'
  OBVIOUS
<1>1. CASE Aside
  <2>1. CASE Script!Send \/ Script!WriterTakes \/ Script!WriterHears \/ Script!WriterEnds \/ Script!StartReturns
    BY <2>1, ScriptSends
  <2>2. CASE ~(Script!Send \/ Script!WriterTakes \/ Script!WriterHears \/ Script!WriterEnds \/ Script!StartReturns)
    <3>1. UNCHANGED <<sAccepted, sWriteCh, sHand, sWriter, sResult, sWrote>>
          /\ (sStart' = sStart \/ (sStart = "none" /\ sStart' = "waits"))
      BY <1>1, <2>2 DEF Aside, Script!Sticks, Script!LoopEnds, Script!Terminated, Script!SetState, Script!ApplyCookies,
        Script!Opens, Script!RunAsked, Script!Settles, Script!StopTires, Script!StopCloses, Script!StopTerminates,
        Script!packetVars, Script!lifeVars
    <3> QED BY <1>1, <3>1, ScriptAside, ScriptHandStays
  <2> QED BY <2>1, <2>2
<1>2. CASE Posting
  <2>1. CASE Script!WriterPosts
    BY <2>1, ScriptWrites
  <2>2. CASE ~Script!WriterPosts
    <3>1. UNCHANGED <<sAccepted, sWriteCh, sHand, sWriter, sResult, sWrote>>
          /\ (sStart' = sStart \/ (sStart = "none" /\ sStart' = "waits"))
      BY <1>2, <2>2 DEF Posting, Script!Start, Script!ApplyWrites, Script!Stop, Script!DialEnds, Script!ReadEnds,
        Script!Acquires, Script!packetVars, Script!lifeVars
    <3> QED BY <1>2, <2>2, <3>1, ScriptPostings, ScriptHandStays
  <2> QED BY <2>1, <2>2
<1>3. CASE Script!NextJob
  BY <1>3, ScriptNextJob, ScriptHandStays DEF Script!NextJob, Script!packetVars, Script!lifeVars
<1>4. CASE Ending
  <2>1. CASE Script!Written
    BY <2>1, ScriptWrites
  <2>2. CASE ~Script!Written
    <3>1. UNCHANGED <<sAccepted, sWriteCh, sHand, sWriter, sResult, sWrote>>
          /\ (sStart' = sStart \/ (sStart = "none" /\ sStart' = "waits"))
      BY <1>4, <2>2 DEF Ending, Script!BootFails, Script!BootEnds, Script!EventEnds, Script!Dialled, Script!Closed,
        Script!PoolRuns, Script!CloseEnds, Script!packetVars, Script!lifeVars
    <3> QED BY <1>4, <3>1, ScriptEndings, ScriptHandStays
  <2> QED BY <2>1, <2>2
<1>5. CASE Stage
  <2>1. UNCHANGED <<sAccepted, sWriteCh, sHand, sWriter, sResult, sWrote>>
          /\ (sStart' = sStart \/ (sStart = "none" /\ sStart' = "waits"))
    BY <1>5 DEF Stage, Script!Evaluated, Script!InfoRead, Script!InfoWrites, Script!packetVars, Script!lifeVars
  <2> QED BY <1>5, <2>1, ScriptEndings, ScriptHandStays
<1> QED BY <1>1, <1>2, <1>3, <1>4, <1>5, ScriptSteps

\* A connection is opened, made, told, ended or closed.
LEMMA ScriptDialled ==
    ASSUME ScriptInv, NEW d \in ScriptDials, Script!DialEnds(d)
    PROVE  Closing'
<1>0. Closing /\ Lined /\ sJobs \in Seq(Tasks) /\ Len(sJobs) \in Nat
  BY DEF ScriptInv, Lined
<1>1. sSock[d] = "dialing" /\ sJob' = sJob /\ UNCHANGED <<sClosers, sStop, sLoop>>
  BY DEF Script!DialEnds, Script!lifeVars
<1>2. CASE sSock' = [sSock EXCEPT ![d] = "none"] /\ UNCHANGED <<sJobs, sLate>>
  BY <1>0, <1>1, <1>2 DEF Closing
<1>3. CASE sSock' = [sSock EXCEPT ![d] = "dialled"]
  <2>1. /\ sSock' \in [ScriptDials -> {"none", "dialing", "dialled", "open", "closed"}]
        /\ sSock'[d] = "dialled" /\ \A b \in ScriptDials : b # d => sSock'[b] = sSock[b]
    BY <1>0, <1>3 DEF Closing
  <2>2. CASE Script!Takes
    <3>1. Script!Post("dialled", d) /\ sLate' = sLate
      BY <1>0, <1>1, <1>3, <2>1, <2>2 DEF Script!DialEnds
    <3>2. Posts(<<"dialled", d>>)
      <4>1. <<"dialled", d>> \in Tasks
        BY DEF Tasks
      <4> QED BY <1>0, <1>1, <3>1, <4>1, ScriptPosting
    <3>3. Len(sJobs) + 1 \in 1..Len(sJobs') /\ \A i \in 1..Len(sJobs) : i \in 1..Len(sJobs') /\ sJobs'[i] = sJobs[i]
      BY <1>0, <3>2 DEF Posts
    <3>4. \E i \in 1..Len(sJobs') : sJobs'[i] = <<"dialled", d>>
      BY <3>2, <3>3 DEF Posts
    <3>5. ASSUME NEW b \in ScriptDials \ sLate', sSock'[b] = "dialled"
          PROVE  sJob' = <<"dialled", b>> \/ \E i \in 1..Len(sJobs') : sJobs'[i] = <<"dialled", b>>
      BY <1>0, <1>1, <2>1, <3>1, <3>3, <3>4, <3>5 DEF Closing
    <3> QED BY <1>0, <1>1, <2>1, <3>1, <3>5 DEF Closing
  <2>3. CASE ~Script!Takes
    <3>1. sLate' = sLate \cup {d} /\ sJobs' = sJobs
      BY <1>0, <1>1, <1>3, <2>1, <2>3 DEF Script!DialEnds, Closing
    <3> QED BY <1>0, <1>1, <2>1, <3>1 DEF Closing
  <2> QED BY <2>2, <2>3
<1> QED BY <1>2, <1>3 DEF Script!DialEnds

LEMMA ScriptTold ==
    ASSUME ScriptInv, Script!Dialled
    PROVE  Closing'
<1>0. Closing /\ Lined /\ sJobs \in Seq(Tasks) /\ Len(sJobs) \in Nat
  BY DEF ScriptInv, Lined
<1>1. /\ sJob[1] = "dialled" /\ sJob' = Script!NoJob /\ sJobs' = sJobs /\ UNCHANGED <<sStop, sLoop>>
      /\ sSock' = [sSock EXCEPT ![sJob[2]] = "open"] /\ sClosers' = sClosers \cup {sJob[2]}
      /\ sLate' = IF sStop = "ends" THEN sLate \cup {sJob[2]} ELSE sLate
  BY DEF Script!Dialled, Script!Kind, Script!Returns, Script!lifeVars
<1>2. sJob \in Tasks /\ sLoop # "gone" /\ sStop # "done"
  BY <1>0, <1>1, ScriptKinds DEF Lined, Closing
<1>3. PICK d \in ScriptDials : d = sJob[2] /\ sJob = <<"dialled", d>>
  BY <1>1, <1>2, ScriptKinds
<1>4. /\ sSock' \in [ScriptDials -> {"none", "dialing", "dialled", "open", "closed"}]
      /\ sSock'[d] = "open" /\ \A b \in ScriptDials : b # d => sSock'[b] = sSock[b]
  BY <1>0, <1>1, <1>3 DEF Closing
<1>5. ASSUME NEW b \in ScriptDials \ sLate'
      PROVE  /\ sSock'[b] = "dialled" => \E i \in 1..Len(sJobs) : sJobs[i] = <<"dialled", b>>
             /\ sSock'[b] = "open" => b \in sClosers' /\ sStop \notin {"ends", "done"}
  <2>0. b \in ScriptDials \ sLate
    BY <1>1, <1>5
  <2>1. CASE b = d
    BY <1>1, <1>2, <1>3, <1>4, <1>5, <2>1
  <2>2. CASE b # d
    <3>1. sSock'[b] = sSock[b] /\ sJob # <<"dialled", b>>
      BY <1>3, <1>4, <2>2
    <3> QED BY <1>0, <1>1, <2>0, <3>1 DEF Closing
  <2> QED BY <2>1, <2>2
<1> QED BY <1>0, <1>1, <1>4, <1>5 DEF Closing

LEMMA ScriptCloses ==
    ASSUME ScriptInv, (\E d \in ScriptDials : Script!Opens(d) \/ Script!ReadEnds(d)) \/ Script!StopCloses
    PROVE  Closing'
<1>0. Closing /\ sJobs \in Seq(Tasks) /\ Len(sJobs) \in Nat
  BY DEF ScriptInv, Lined
<1>1. ASSUME NEW d \in ScriptDials, Script!Opens(d) PROVE Closing'
  <2>1. sSock' = [sSock EXCEPT ![d] = "dialing"] /\ UNCHANGED <<sClosers, sLate, sStop, sLoop, sJobs, sJob>>
    BY <1>1 DEF Script!Opens, Script!lifeVars, Script!loopVars
  <2> QED BY <1>0, <2>1 DEF Closing
<1>2. ASSUME NEW d \in ScriptDials, Script!ReadEnds(d) PROVE Closing'
  <2>1. /\ sSock' = [sSock EXCEPT ![d] = "closed"] /\ UNCHANGED <<sClosers, sLate, sStop, sLoop, sJob>>
        /\ sJobs' = sJobs \/ Script!Post("closed", d)
    BY <1>2 DEF Script!ReadEnds, Script!lifeVars
  <2>2. <<"closed", d>> \in Tasks
    BY DEF Tasks
  <2>3. \A i \in 1..Len(sJobs) : i \in 1..Len(sJobs') /\ sJobs'[i] = sJobs[i]
    <3>1. CASE sJobs' = sJobs
      BY <3>1
    <3>2. CASE Script!Post("closed", d)
      <4>1. Posts(<<"closed", d>>)
        BY <2>1, <2>2, <3>2, ScriptPosting DEF ScriptInv
      <4> QED BY <1>0, <4>1 DEF Posts
    <3> QED BY <2>1, <3>1, <3>2
  <2>4. /\ sSock' \in [ScriptDials -> {"none", "dialing", "dialled", "open", "closed"}]
        /\ sSock'[d] = "closed" /\ \A b \in ScriptDials : b # d => sSock'[b] = sSock[b]
    BY <1>0, <2>1 DEF Closing
  <2>5. ASSUME NEW b \in ScriptDials \ sLate'
        PROVE  /\ sSock'[b] = "dialled" => sJob' = <<"dialled", b>> \/ \E i \in 1..Len(sJobs') : sJobs'[i] = <<"dialled", b>>
               /\ sSock'[b] = "open" => b \in sClosers' /\ sStop' \notin {"ends", "done"}
    <3>1. CASE b = d
      BY <2>4, <3>1
    <3>2. CASE b # d
      <4>1. sSock'[b] = sSock[b] /\ b \in ScriptDials \ sLate
        BY <2>1, <2>4, <2>5, <3>2
      <4>2. sSock[b] = "open" => b \in sClosers /\ sStop \notin {"ends", "done"}
        BY <1>0, <4>1 DEF Closing
      <4>3. ASSUME sSock[b] = "dialled", sJob # <<"dialled", b>>
            PROVE  \E i \in 1..Len(sJobs') : sJobs'[i] = <<"dialled", b>>
        <5>1. PICK i \in 1..Len(sJobs) : sJobs[i] = <<"dialled", b>>
          BY <1>0, <4>1, <4>3 DEF Closing
        <5> QED BY <2>3, <5>1
      <4> QED BY <2>1, <4>1, <4>2, <4>3
    <3> QED BY <3>1, <3>2
  <2>6. sStop' = "done" => sLoop' = "gone"
    BY <1>0, <2>1 DEF Closing
  <2> QED BY <2>4, <2>5, <2>6 DEF Closing
<1>3. CASE Script!StopCloses
  <2>1. /\ sSock' = [b \in ScriptDials |-> IF b \in sClosers THEN "closed" ELSE sSock[b]]
        /\ UNCHANGED <<sLate, sLoop, sJobs, sJob>> /\ (sStop' = "done" => sLoop = "gone")
    BY <1>3 DEF Script!StopCloses, Script!loopVars
  <2>2. /\ sSock' \in [ScriptDials -> {"none", "dialing", "dialled", "open", "closed"}]
        /\ \A b \in ScriptDials : sSock'[b] = "closed" \/ (b \notin sClosers /\ sSock'[b] = sSock[b])
    BY <1>0, <2>1 DEF Closing
  <2>3. \A b \in ScriptDials \ sLate : sSock'[b] # "open"
    BY <1>0, <2>2 DEF Closing
  <2>4. \A b \in ScriptDials \ sLate : sSock'[b] = "dialled" => sSock[b] = "dialled"
    BY <2>2
  <2> QED BY <1>0, <2>1, <2>2, <2>3, <2>4 DEF Closing
<1> QED BY <1>1, <1>2, <1>3

LEMMA ScriptSock == ScriptInv /\ Script!Next => Closing'
<1> SUFFICES ASSUME ScriptInv, Script!Next PROVE Closing'
  OBVIOUS
<1>0. (sStop = "done" => sLoop = "gone") /\ (sStart = "none" => sLoop = "none")
  BY DEF ScriptInv, Closing, Lined
<1>1. CASE Aside
  <2>1. CASE (\E d \in ScriptDials : Script!Opens(d)) \/ Script!StopCloses
    BY <2>1, ScriptCloses
  <2>2. CASE ~((\E d \in ScriptDials : Script!Opens(d)) \/ Script!StopCloses)
    <3>1. UNCHANGED <<sSock, sClosers, sLate>>
      BY <1>1, <2>2 DEF Aside, Script!Sticks, Script!LoopEnds, Script!Terminated, Script!StartReturns, Script!SetState,
        Script!Send, Script!WriterTakes, Script!WriterHears, Script!WriterEnds, Script!ApplyCookies, Script!RunAsked,
        Script!Settles, Script!StopTires, Script!StopTerminates, Script!sockVars
    <3>2. /\ sStop' = sStop \/ sStop' = "closes" \/ (sStop = "ends" /\ sStop' = "done" /\ sLoop' = "gone")
          /\ sLoop = "gone" => sLoop' = "gone"
      BY <1>1, <2>2 DEF Aside, Script!Sticks, Script!LoopEnds, Script!Terminated, Script!StartReturns, Script!SetState,
        Script!Send, Script!WriterTakes, Script!WriterHears, Script!WriterEnds, Script!ApplyCookies, Script!RunAsked,
        Script!Settles, Script!StopTires, Script!StopTerminates, Script!loopVars, Script!lifeVars
    <3>3. (sStop' = "ends" => sStop = "ends") /\ (sStop' = "done" => sLoop' = "gone" /\ sStop \in {"ends", "done"})
      BY <1>0, <3>2
    <3> QED BY <1>1, <3>1, <3>3, ScriptAside, ScriptSocksStay
  <2> QED BY <2>1, <2>2
<1>2. CASE Posting
  <2>1. CASE \E d \in ScriptDials : Script!DialEnds(d) \/ Script!ReadEnds(d)
    BY <2>1, ScriptDialled, ScriptCloses
  <2>2. CASE ~\E d \in ScriptDials : Script!DialEnds(d) \/ Script!ReadEnds(d)
    <3>1. UNCHANGED <<sSock, sClosers, sLate>>
      BY <1>2, <2>2 DEF Posting, Script!Start, Script!WriterPosts, Script!ApplyWrites, Script!Stop, Script!Acquires,
        Script!sockVars
    <3>2. /\ sStop' = sStop \/ sStop' \in {"asks", "closes"}
          /\ sLoop' = sLoop \/ sStart = "none"
      BY <1>2, <2>2 DEF Posting, Script!Start, Script!WriterPosts, Script!ApplyWrites, Script!Stop, Script!Acquires,
        Script!lifeVars
    <3>3. (sStop' = "ends" => sStop = "ends") /\ (sStop' = "done" => sLoop' = "gone" /\ sStop \in {"ends", "done"})
      BY <1>0, <3>2
    <3> QED BY <1>2, <3>1, <3>3, ScriptPostings, ScriptSocksStay
  <2> QED BY <2>1, <2>2
<1>3. CASE Script!NextJob
  BY <1>0, <1>3, ScriptNextJob, ScriptSocksStay DEF Script!NextJob, Script!sockVars
<1>4. CASE Ending \/ Stage
  <2>1. CASE Script!Dialled
    BY <2>1, ScriptTold
  <2>2. CASE ~Script!Dialled
    <3>1. UNCHANGED <<sSock, sClosers, sLate>> /\ sJob[1] # "dialled"
      BY <1>4, <2>2 DEF Ending, Stage, Script!BootFails, Script!BootEnds, Script!Written, Script!EventEnds, Script!Closed,
        Script!PoolRuns, Script!CloseEnds, Script!Evaluated, Script!InfoRead, Script!InfoWrites, Script!sockVars, Script!Kind
    <3>2. (sStop' = "ends" => sStop = "ends") /\ (sStop' = "done" => sLoop' = "gone" /\ sStop \in {"ends", "done"})
      BY <1>0, <1>4, ScriptEndings
    <3> QED BY <1>4, <3>1, <3>2, ScriptEndings, ScriptSocksStay
  <2> QED BY <2>1, <2>2
<1> QED BY <1>1, <1>2, <1>3, <1>4, ScriptSteps

-----------------------------------------------------------------------------
\* The pool.

LEMMA ScriptHolding ==
    ASSUME ScriptInv, NEW r \in ScriptRuns, NEW s \in {"queued", "posted", "settling", "lost", "done"},
           sRun' = [sRun EXCEPT ![r] = s],
           \/ s \in {"queued", "done"}
           \/ sRun[r] = "posted"
           \/ Cardinality(Script!Holding) < ScriptSlots
    PROVE  /\ sRun' \in [ScriptRuns -> {"none", "queued", "posted", "settling", "lost", "done"}]
           /\ Cardinality(Script!Holding') <= ScriptSlots
<1>1. sRun \in [ScriptRuns -> {"none", "queued", "posted", "settling", "lost", "done"}]
      /\ Cardinality(Script!Holding) <= ScriptSlots
  BY DEF ScriptInv, Pooled
<1>2. /\ sRun' \in [ScriptRuns -> {"none", "queued", "posted", "settling", "lost", "done"}]
      /\ sRun'[r] = s /\ \A q \in ScriptRuns : q # r => sRun'[q] = sRun[q]
  BY <1>1
<1>3. Script!Holding \subseteq ScriptRuns /\ IsFiniteSet(Script!Holding)
  BY ScriptAssumption, FS_Subset DEF Script!Holding
<1>4. Cardinality(Script!Holding) \in Nat
  BY <1>3, FS_CardinalityType
<1>5. CASE s \in {"queued", "done"} \/ sRun[r] = "posted"
  <2>1. Script!Holding' \subseteq Script!Holding
    BY <1>2, <1>5 DEF Script!Holding
  <2>2. Cardinality(Script!Holding') <= Cardinality(Script!Holding) /\ Cardinality(Script!Holding') \in Nat
    <3>1. IsFiniteSet(Script!Holding') /\ Cardinality(Script!Holding') <= Cardinality(Script!Holding)
      BY <1>3, <2>1, FS_Subset
    <3> QED BY <3>1, FS_CardinalityType
  <2> QED BY <1>1, <1>2, <1>4, <2>2, ScriptAssumption
<1>6. CASE Cardinality(Script!Holding) < ScriptSlots
  <2>1. Script!Holding' \subseteq Script!Holding \cup {r}
    BY <1>2 DEF Script!Holding
  <2>2. IsFiniteSet(Script!Holding \cup {r})
        /\ (Cardinality(Script!Holding \cup {r}) = Cardinality(Script!Holding)
            \/ Cardinality(Script!Holding \cup {r}) = Cardinality(Script!Holding) + 1)
    BY <1>3, FS_AddElement
  <2>3. IsFiniteSet(Script!Holding') /\ Cardinality(Script!Holding') <= Cardinality(Script!Holding \cup {r})
    BY <2>1, <2>2, FS_Subset
  <2>4. Cardinality(Script!Holding') \in Nat /\ Cardinality(Script!Holding \cup {r}) \in Nat
    BY <2>2, <2>3, FS_CardinalityType
  <2> QED BY <1>2, <1>4, <1>6, <2>2, <2>3, <2>4, ScriptAssumption
<1> QED BY <1>5, <1>6

LEMMA ScriptPools ==
    ASSUME ScriptInv, (\E r \in ScriptRuns : Script!RunAsked(r) \/ Script!Acquires(r) \/ Script!Settles(r)) \/ Script!PoolRuns
    PROVE  Pooled'
<1>0. Pooled /\ Lined /\ sJobs \in Seq(Tasks) /\ Len(sJobs) \in Nat /\ sJob \in Tasks \cup {Script!NoJob}
  BY DEF ScriptInv, Lined
<1>r. \A i \in 1..Len(sJobs) : sJobs[i][1] = "pool" => sJobs[i][2] \in ScriptRuns
  <2>1. \A i \in 1..Len(sJobs) : sJobs[i] \in Tasks
    BY <1>0
  <2> QED BY <2>1, ScriptKinds
<1>j. sJob[1] = "pool" => sJob[2] \in ScriptRuns /\ sJob \in Tasks
  BY <1>0, ScriptKinds
<1>1. ASSUME NEW r \in ScriptRuns, NEW s \in {"queued", "done"}, sRun' = [sRun EXCEPT ![r] = s],
             sRun[r] \in {"none", "settling"}, Stands
      PROVE  Pooled'
  <2>1. \A q \in ScriptRuns : sRun[q] = "posted" => sRun'[q] = "posted"
    BY <1>0, <1>1 DEF Pooled
  <2>2. (\A i \in 1..Len(sJobs) : sJobs[i][1] = "pool" => sRun'[sJobs[i][2]] = "posted")
        /\ (sJob[1] = "pool" => sRun'[sJob[2]] = "posted")
    BY <1>0, <1>r, <1>j, <2>1 DEF Pooled
  <2>3. sRun' \in [ScriptRuns -> {"none", "queued", "posted", "settling", "lost", "done"}]
        /\ Cardinality(Script!Holding') <= ScriptSlots
    BY <1>1, ScriptHolding
  <2> QED BY <1>1, <2>2, <2>3 DEF Pooled, Stands
<1>2. ASSUME NEW r \in ScriptRuns, Script!RunAsked(r) \/ Script!Settles(r) PROVE Pooled'
  <2>1. Stands
    BY <1>2, ScriptAside DEF Aside
  <2>2. CASE Script!RunAsked(r)
    BY <1>1, <2>1, <2>2 DEF Script!RunAsked
  <2>3. CASE Script!Settles(r)
    BY <1>1, <2>1, <2>3 DEF Script!Settles
  <2> QED BY <1>2, <2>2, <2>3
<1>3. ASSUME NEW r \in ScriptRuns, Script!Acquires(r) PROVE Pooled'
  <2>1. sRun[r] = "queued" /\ Cardinality(Script!Holding) < ScriptSlots /\ sJob' = sJob
    BY <1>3 DEF Script!Acquires, Script!FreeSlot, Script!Cardinality, Cardinality
  <2>2. PICK s \in {"posted", "lost"} :
           /\ sRun' = [sRun EXCEPT ![r] = s]
           /\ (s = "posted" /\ Script!Post("pool", r)) \/ sJobs' = sJobs
    BY <1>3 DEF Script!Acquires
  <2>3. sRun' \in [ScriptRuns -> {"none", "queued", "posted", "settling", "lost", "done"}]
        /\ Cardinality(Script!Holding') <= ScriptSlots
    BY <2>1, <2>2, ScriptHolding
  <2>4. sRun'[r] = s /\ \A q \in ScriptRuns : sRun[q] = "posted" => sRun'[q] = "posted"
    BY <1>0, <2>1, <2>2 DEF Pooled
  <2>5. (\A i \in 1..Len(sJobs) : sJobs[i][1] = "pool" => sRun'[sJobs[i][2]] = "posted")
        /\ (sJob[1] = "pool" => sRun'[sJob[2]] = "posted")
    BY <1>0, <1>r, <1>j, <2>4 DEF Pooled
  <2>6. CASE sJobs' = sJobs
    BY <2>1, <2>3, <2>5, <2>6 DEF Pooled
  <2>7. CASE s = "posted" /\ Script!Post("pool", r)
    <3>1. <<"pool", r>> \in Tasks
      BY DEF Tasks
    <3>2. Posts(<<"pool", r>>)
      BY <1>0, <2>1, <2>7, <3>1, ScriptPosting
    <3>3. \A i \in 1..Len(sJobs') : (i \in 1..Len(sJobs) /\ sJobs'[i] = sJobs[i]) \/ sJobs'[i] = <<"pool", r>>
      BY <1>0, <3>2 DEF Posts
    <3> QED BY <2>1, <2>3, <2>4, <2>5, <2>7, <3>3 DEF Pooled
  <2> QED BY <2>2, <2>6, <2>7
<1>4. CASE Script!PoolRuns
  <2>1. PICK s \in {"done", "settling"} :
           sRun' = [sRun EXCEPT ![sJob[2]] = s] /\ sJob[1] = "pool" /\ sJob' = Script!NoJob /\ sJobs' = sJobs
    BY <1>4 DEF Script!PoolRuns, Script!Kind, Script!Returns
  <2>2. sJob \in Tasks /\ sJob[2] \in ScriptRuns /\ sRun[sJob[2]] = "posted"
    BY <1>0, <1>j, <2>1 DEF Pooled
  <2>3. sRun' \in [ScriptRuns -> {"none", "queued", "posted", "settling", "lost", "done"}]
        /\ Cardinality(Script!Holding') <= ScriptSlots
    BY <2>1, <2>2, ScriptHolding
  <2>4. ASSUME NEW i \in 1..Len(sJobs), sJobs[i][1] = "pool" PROVE sRun'[sJobs[i][2]] = "posted"
    <3>1. sJobs[i] # sJob
      BY <1>0, <2>1, <2>4 DEF Lined
    <3>2. sJobs[i] \in Tasks
      BY <1>0
    <3>3. sJobs[i][2] # sJob[2]
      BY <2>1, <2>2, <2>4, <3>1, <3>2, ScriptKinds
    <3>4. sJobs[i][2] \in ScriptRuns /\ sRun[sJobs[i][2]] = "posted"
      BY <1>0, <1>r, <2>4 DEF Pooled
    <3> QED BY <1>0, <2>1, <3>3, <3>4 DEF Pooled
  <2> QED BY <2>1, <2>3, <2>4, ScriptKinds DEF Pooled
<1> QED BY <1>2, <1>3, <1>4

LEMMA ScriptPool == ScriptInv /\ Script!Next => Pooled'
<1> SUFFICES ASSUME ScriptInv, Script!Next PROVE Pooled'
  OBVIOUS
<1>1. CASE (\E r \in ScriptRuns : Script!RunAsked(r) \/ Script!Acquires(r) \/ Script!Settles(r)) \/ Script!PoolRuns
  BY <1>1, ScriptPools
<1>2. CASE ~((\E r \in ScriptRuns : Script!RunAsked(r) \/ Script!Acquires(r) \/ Script!Settles(r)) \/ Script!PoolRuns)
  <2>1. CASE Aside
    <3>1. sRun' = sRun
      BY <1>2, <2>1 DEF Aside, Script!Sticks, Script!LoopEnds, Script!Terminated, Script!StartReturns, Script!SetState,
        Script!Send, Script!WriterTakes, Script!WriterHears, Script!WriterEnds, Script!ApplyCookies, Script!Opens,
        Script!StopTires, Script!StopCloses, Script!StopTerminates
    <3> QED BY <2>1, <3>1, ScriptAside, ScriptPoolStays
  <2>2. CASE Posting
    <3>1. sRun' = sRun
      BY <1>2, <2>2 DEF Posting, Script!Start, Script!WriterPosts, Script!ApplyWrites, Script!Stop, Script!DialEnds,
        Script!ReadEnds
    <3> QED BY <1>2, <2>2, <3>1, ScriptPostings, ScriptPoolStays
  <2>3. CASE Script!NextJob
    BY <2>3, ScriptNextJob, ScriptPoolStays DEF Script!NextJob
  <2>4. CASE Ending \/ Stage
    <3>1. sRun' = sRun
      BY <1>2, <2>4 DEF Ending, Stage, Script!BootFails, Script!BootEnds, Script!Written, Script!EventEnds, Script!Closed,
        Script!Dialled, Script!CloseEnds, Script!Evaluated, Script!InfoRead, Script!InfoWrites
    <3> QED BY <2>4, <3>1, ScriptEndings, ScriptPoolStays
  <2> QED BY <2>1, <2>2, <2>3, <2>4, ScriptSteps
<1> QED BY <1>1, <1>2

-----------------------------------------------------------------------------

LEMMA ScriptStep == ScriptInv /\ [Script!Next]_(Script!scriptVars) => ScriptInv'
<1> SUFFICES ASSUME ScriptInv, [Script!Next]_(Script!scriptVars) PROVE ScriptInv'
  OBVIOUS
<1>1. CASE Script!Next
  BY <1>1, ScriptQueue, ScriptBoot, ScriptJar, ScriptHand, ScriptSock, ScriptPool DEF ScriptInv
<1>2. CASE UNCHANGED Script!scriptVars
  <2>1. UNCHANGED scriptVars
    BY <1>2 DEF scriptVars, Script!scriptVars, Script!lifeVars, Script!flags, Script!loopVars, Script!packetVars,
      Script!cookieVars, Script!sockVars
  <2>2. Staged' /\ Lined'
    BY <2>1 DEF scriptVars, ScriptInv, Staged, Lined
  <2>3. Booted'
    BY <2>1 DEF scriptVars, ScriptInv, Booted
  <2>4. Jarred'
    BY <2>1 DEF scriptVars, ScriptInv, Jarred
  <2>5. Handed'
    BY <2>1 DEF scriptVars, ScriptInv, Handed, InHand, Asked, Awaited
  <2>6. Closing'
    BY <2>1 DEF scriptVars, ScriptInv, Closing
  <2>7. Pooled'
    BY <2>1 DEF scriptVars, ScriptInv, Pooled, Script!Holding
  <2> QED BY <2>2, <2>3, <2>4, <2>5, <2>6, <2>7 DEF ScriptInv
<1> QED BY <1>1, <1>2

\* Numbers that follow n, one by one.
Follow(s, n) == s \in Seq(Nat) /\ \A i \in 1..Len(s) : s[i] = n + i

LEMMA ScriptJoins ==
    ASSUME NEW a, NEW b, Follow(a, 0), Follow(b, Len(a))
    PROVE  Follow(a \o b, 0) /\ Len(a \o b) = Len(a) + Len(b)
<1>0. PICK n \in Nat, m \in Nat : n = Len(a) /\ m = Len(b)
  BY DEF Follow
<1>1. a \o b \in Seq(Nat) /\ Len(a \o b) = n + m
  BY <1>0, ConcatProperties DEF Follow
<1>2. ASSUME NEW i \in 1..(n + m) PROVE (a \o b)[i] = i
  <2>1. (a \o b)[i] = IF i <= Len(a) THEN a[i] ELSE b[i - Len(a)]
    BY <1>0, ConcatProperties DEF Follow
  <2>2. CASE i <= n
    BY <1>0, <2>1, <2>2 DEF Follow
  <2>3. CASE i > n
    <3>1. i - n \in 1..m
      BY <2>3
    <3> QED BY <1>0, <2>1, <2>3, <3>1 DEF Follow
  <2>4. i <= n \/ i > n
    OBVIOUS
  <2> QED BY <2>2, <2>3, <2>4
<1> QED BY <1>0, <1>1, <1>2 DEF Follow

LEMMA ScriptCounts ==
    ASSUME NEW s, Follow(s, 0)
    PROVE  s = [i \in 1..Len(s) |-> i]
<1>0. PICK k \in Nat : k = Len(s)
  BY DEF Follow
<1>1. PICK t : t = [i \in 1..k |-> i]
  OBVIOUS
<1>2. t \in Seq(Nat) /\ Len(t) = k /\ \A i \in 1..k : t[i] = i
  BY <1>1
<1>3. s = t
  <2>1. s \in Seq(Nat) /\ Len(s) = Len(t) /\ \A i \in 1..Len(s) : s[i] = t[i]
    BY <1>0, <1>2 DEF Follow
  <2> QED BY <1>2, <2>1, SeqEqual
<1> QED BY <1>0, <1>1, <1>3

LEMMA ScriptPromise ==
    ScriptInv => /\ Script!TypeOK /\ Script!PacketsInTurn /\ Script!CookiesReach /\ Script!NothingOpen
                 /\ Script!PoolBounded
<1> SUFFICES ASSUME ScriptInv
             PROVE  /\ Script!TypeOK /\ Script!PacketsInTurn /\ Script!CookiesReach /\ Script!NothingOpen
                    /\ Script!PoolBounded
  OBVIOUS
<1>1. Script!TypeOK
  BY DEF ScriptInv, Script!TypeOK, Staged, Handed, InHand, Closing, Pooled
<1>2. Script!CookiesReach
  BY DEF ScriptInv, Script!CookiesReach, Booted, Jarred
<1>3. Script!NothingOpen
  <2>1. ASSUME sStop = "done", sLoop = "gone", NEW d \in ScriptDials \ sLate PROVE sSock[d] \notin {"open", "dialled"}
    <3>1. sJob = <<"none", 0>> /\ Len(sJobs) = 0
      BY <2>1, ScriptKinds DEF ScriptInv, Lined
    <3> QED BY <2>1, <3>1 DEF ScriptInv, Closing
  <2> QED BY <2>1 DEF Script!NothingOpen
<1>4. Script!PoolBounded
  BY DEF ScriptInv, Script!PoolBounded, Pooled, Script!Cardinality, Cardinality
<1>5. Script!PacketsInTurn
  <2>0. InHand
    BY DEF ScriptInv, Handed
  <2>1. PICK n \in Nat, m \in Nat : n = Len(sWrote) /\ m = Len(sWriteCh)
    BY <2>0 DEF InHand
  <2>2. sWrote \in Seq(Nat) /\ sWriteCh \in Seq(Nat) /\ sHand \in Nat /\ sAccepted \in Nat
    BY <2>0 DEF InHand
  <2>a. (\A i \in 1..n : sWrote[i] = i) /\ (\A i \in 1..m : sWriteCh[i] = sAccepted - m + i)
    BY <2>0, <2>1 DEF InHand
  <2>b. Follow(sWrote, 0)
    BY <2>1, <2>2, <2>a DEF Follow
  <2>3. CASE sHand = n + 1 /\ sAccepted = n + 1 + m
    <3>1. Script!HandRest = <<sHand>>
      BY <2>1, <2>2, <2>3, <2>a DEF Script!HandRest
    <3>2. Follow(<<sHand>>, Len(sWrote)) /\ Len(<<sHand>>) = 1
      BY <2>1, <2>2, <2>3 DEF Follow
    <3>3. Follow(sWrote \o <<sHand>>, 0) /\ Len(sWrote \o <<sHand>>) = n + 1
      BY <2>1, <2>b, <3>2, ScriptJoins
    <3>4. Follow(sWriteCh, Len(sWrote \o <<sHand>>))
      BY <2>1, <2>2, <2>3, <2>a, <3>3 DEF Follow
    <3>5. Follow((sWrote \o <<sHand>>) \o sWriteCh, 0) /\ Len((sWrote \o <<sHand>>) \o sWriteCh) = n + 1 + m
      BY <2>1, <3>3, <3>4, ScriptJoins
    <3> QED BY <2>3, <3>1, <3>5, ScriptCounts DEF Script!PacketsInTurn
  <2>4. CASE sHand \in {0, n} /\ sAccepted = n + m
    <3>1. Script!HandRest = <<>>
      <4>1. sHand # 0 => n # 0 /\ sWrote # <<>> /\ sWrote[Len(sWrote)] = sHand
        BY <2>1, <2>2, <2>4, <2>a
      <4> QED BY <4>1 DEF Script!HandRest
    <3>2. sWrote \o <<>> = sWrote
      BY <2>2
    <3>3. Follow(sWriteCh, Len(sWrote))
      BY <2>1, <2>2, <2>4, <2>a DEF Follow
    <3>4. Follow(sWrote \o sWriteCh, 0) /\ Len(sWrote \o sWriteCh) = n + m
      BY <2>1, <2>b, <3>3, ScriptJoins
    <3> QED BY <2>4, <3>1, <3>2, <3>4, ScriptCounts DEF Script!PacketsInTurn
  <2>5. (sHand = n + 1 /\ sAccepted = n + 1 + m) \/ (sHand \in {0, n} /\ sAccepted = n + m)
    BY <2>0, <2>1 DEF InHand
  <2> QED BY <2>3, <2>4, <2>5
<1> QED BY <1>1, <1>2, <1>3, <1>4, <1>5

\* A packet that was taken is written once and in its turn, the newest
\* cookies are in the jar when the carrier opens, after Stop nothing is
\* open and a pool keeps its limit (transport.go:578, 392, host.go:755):
\* for any packets, connections, calls and slots, whatever the script and
\* the network do.
THEOREM ScriptHolds ==
    Script!Spec => [](/\ Script!TypeOK /\ Script!PacketsInTurn /\ Script!CookiesReach /\ Script!NothingOpen
                      /\ Script!PoolBounded)
BY ScriptInit, ScriptStep, ScriptPromise, PTL DEF Script!Spec

=============================================================================
