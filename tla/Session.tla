------------------------------ MODULE Session ------------------------------
\* The handshake, the peer replacement, the keepalive and the data path of
\* transport/session.go, between any number of clients and exits that hold
\* the same key.
\*
\* Every party runs one Session object.  What the parties write into a
\* carrier is kept in "net", one element per possible reader: a carrier is
\* a shared document, so every party of the other role can read it.  The
\* network reorders freely; it loses (Lose); and, when Replay holds, a
\* record stays readable after it was read, so anything ever written may
\* be read again at any later time, which is what a document that keeps
\* its history, or someone who re-posts recorded ciphertext, does.
\*
\* A Session handler changes its state under s.mu and answers after it
\* unlocked, one carrier at a time, with an envelope built from the state
\* at THAT moment (helloVia, sendControlVia).  "due" and "pongs" hold the
\* answers a goroutine still owes, so that every other step may come in
\* between.
\*
\* Time is abstract.  A carrier's lastHeard is inside the link timeout iff
\* the carrier is in heard[s].  Payloads, packet policy and capabilities
\* are left out, and so is the classic layering.  A carrier that is down
\* or refuses an envelope loses it.
\*
\* Definitions marked "mutant" are the slips that PROJECT.json puts in the
\* place of the definition after them, to show that a property sees them.
EXTENDS Naturals, FiniteSets

CONSTANTS
  Clients, Exits,   \* the processes, by role
  Links,            \* the carriers, the same on both sides
  Zero,             \* the all-zero challenge
  None,             \* no candidate
  Window,           \* replayWindowSize
  MaxSeq,           \* the value of "sequence" at which Send refuses
  ClientMints,      \* bound: how many challenges a client may draw,
  ExitMints,        \* and an exit
  NoPong,           \* parties that do not answer LinkPing (predate keepalive)
  Restarting,       \* parties whose process may end and start again
  Weathers          \* what the world around the sessions may be like

Parties == Clients \cup Exits

\* A challenge is 32 random bytes; who drew it and the how-many-th it was
\* stand for the bytes, so two draws are never equal.
Challenges == Parties \X (Nat \ {0})

ASSUME PartiesAssumption ==
  /\ Clients \cap Exits = {}
  /\ NoPong \subseteq Parties
  /\ Restarting \subseteq Parties
  /\ Zero \notin Challenges

ASSUME BoundsAssumption ==
  /\ Window \in Nat \ {0}
  /\ MaxSeq \in Nat
  /\ ClientMints \in Nat \ {0} /\ ExitMints \in Nat \ {0}
  /\ Weathers \subseteq SUBSET {"quiet", "lossy", "replay", "steady"}

ASSUME NoneAssumption == None \notin [sender : Challenges, local : Challenges]

VARIABLES
  local,      \* local[s]: own challenge of the current session
  peer,       \* peer[s]: the peer's challenge, or Zero
  ready,      \* ready[s]: the handshake completed
  keepalive,  \* peerKeepalive[s]: the peer has answered a LinkPing
  candidate,  \* candidate[s]: the replacement being challenged, or None
  heard,      \* heard[s]: carriers with lastHeard inside linkTimeout
  due,        \* due[s]: hellos a goroutine has still to send, <<goroutine, carrier>>
  pongs,      \* pongs[s]: carriers a LinkPong has still to be sent on
  sequence,   \* sequence[s]: last data sequence number sent
  highest,    \* highest[s]: newest data sequence number accepted
  got,        \* got[s]: the numbers the replay window has seen
  minted,     \* minted[s]: how many challenges s has drawn (model only)
  net,        \* what can be read: records [to, link, env]
  held,       \* history: every <<own, peer's>> pair a session was ever in
  offered,    \* history: every <<challenge, sender>> minted for a candidate
  delivered,  \* history: every data envelope handed to the data callback
  weather     \* what this behaviour's world is like; it does not change

sessionVars == <<local, peer, ready, keepalive, candidate, heard, due, pongs,
                 sequence, highest, got, minted>>
historyVars == <<held, offered, delivered, weather>>
vars == <<sessionVars, net, historyVars>>

-----------------------------------------------------------------------------
\* Envelopes (control.Envelope) and the network.

Quiet == "quiet" \in weather     \* some carrier is quiet for keepaliveInterval
Lossy == "lossy" \in weather     \* records may be lost
Replay == "replay" \in weather   \* records stay readable after they were read
Steady == "steady" \in weather   \* every timer is longer than an exchange takes

Kinds == {"hello", "ipv4", "ping", "pong"}

Envelope == [kind : Kinds, local : Challenges, peer : Challenges \cup {Zero},
             ready : BOOLEAN, seq : 0..MaxSeq]

Record == [to : Parties, link : Links, env : Envelope]

Candidate == [sender : Challenges, local : Challenges]

\* The parties that do not drop s's envelopes as "same role".
Opposite(s) == IF s \in Exits THEN Clients ELSE Exits

Posted(s, l, e) == {[to |-> r, link |-> l, env |-> e] : r \in Opposite(s)}

\* buildHello: the state at the moment it is called.
Hello(s) == [kind |-> "hello", local |-> local[s], peer |-> peer[s],
             ready |-> ready[s], seq |-> 0]

\* The hello of offerReplacementLocked: the candidate's own challenge.
Offer(c) == [kind |-> "hello", local |-> c.local, peer |-> c.sender,
             ready |-> FALSE, seq |-> 0]

Control(s, kind) == [kind |-> kind, local |-> local[s], peer |-> peer[s],
                     ready |-> FALSE, seq |-> 0]

Data(s, n) == [kind |-> "ipv4", local |-> local[s], peer |-> peer[s],
               ready |-> FALSE, seq |-> n]

\* What is left to read after m was read.
Rest(m) == IF Replay THEN net ELSE net \ {m}

-----------------------------------------------------------------------------
\* Session state.

MintNothing(s) == <<s, minted[s]>>                                \* mutant
Mint(s) == <<s, minted[s] + 1>>

Fresh(s) == minted[s] < (IF s \in Exits THEN ExitMints ELSE ClientMints)

\* receiveIPv4 and receiveControl: the envelope names both challenges.
Matches(s, e) == ready[s] /\ e.local = peer[s] /\ e.peer = local[s]

\* acceptSequenceLocked, on the set of numbers the window has seen.
InWindow(s, n) ==
  /\ n # 0
  /\ n > highest[s] \/ (highest[s] - n < Window /\ n \notin got[s])

Acceptable(s, e) == Matches(s, e) /\ InWindow(s, e.seq)

\* receiveHello, "echoed": the hello returns the own challenge.
AnyEcho(s, e) == e.peer # Zero                                    \* mutant
Echoes(s, e) == e.peer = local[s]

\* receiveHello, "answer": the sender learns something new, or says it does not
\* know yet that s is ready.
AnswersEchoOnly(s, e) ==                                          \* mutant
  (~ready[s] /\ Echoes(s, e)) \/ (ready[s] /\ ~e.ready)
Answers(s, e) ==
  e.local # peer[s] \/ (~ready[s] /\ Echoes(s, e)) \/ (ready[s] /\ ~e.ready)

\* offerReplacementLocked: the candidate echoes the challenge minted for it.
ConfirmsBySender(c, e) == c.sender = e.local                      \* mutant
Confirms(c, e) == c.sender = e.local /\ c.local = e.peer

\* peerSilentLocked, and keepaliveLoop's exception for a client whose exit never
\* answered a LinkPing.
SilentToClient(s) == keepalive[s] /\ heard[s] = {}                \* mutant
SilentToExit(s) == s \in Exits /\ heard[s] = {}                   \* mutant
PeerSilent(s) == (s \in Exits \/ keepalive[s]) /\ heard[s] = {}

\* Send, "sequence limit".
BelowLimitOrAt(s) == sequence[s] <= MaxSeq                        \* mutant
BelowLimit(s) == sequence[s] < MaxSeq

\* Two live sessions each of which names the other.
Paired(s, r) == /\ ready[s] /\ ready[r]
                /\ peer[s] = local[r] /\ peer[r] = local[s]

\* s owes nothing and what it wrote was read: what its own timers (helloInterval,
\* keepaliveInterval) find when they are Steady.
Answered(s) == /\ due[s] = {} /\ pongs[s] = {}
               /\ \A m \in net : m.to \notin Opposite(s)

\* Nothing is under way anywhere: what linkTimeout finds when it is Steady.
Settled == net = {} /\ \A s \in Parties : Answered(s)

\* The receive goroutine of carrier l is idle: it has sent all it owed.
Idle(s, g) == \A l \in Links : <<g, l>> \notin due[s]

Init ==
  /\ local = [s \in Parties |-> <<s, 1>>]
  /\ peer = [s \in Parties |-> Zero]
  /\ ready = [s \in Parties |-> FALSE]
  /\ keepalive = [s \in Parties |-> FALSE]
  /\ candidate = [s \in Parties |-> None]
  /\ heard = [s \in Parties |-> {}]
  /\ due = [s \in Parties |-> {}]
  /\ pongs = [s \in Parties |-> {}]
  /\ sequence = [s \in Parties |-> 0]
  /\ highest = [s \in Parties |-> 0]
  /\ got = [s \in Parties |-> {}]
  /\ minted = [s \in Parties |-> 1]
  /\ net = {}
  /\ held = {}
  /\ offered = {}
  /\ delivered = {}
  /\ weather \in Weathers

-----------------------------------------------------------------------------
\* Hello.

\* helloLoop: a client that is not ready owes a hello on every carrier.
HelloTick(s) ==
  /\ s \in Clients
  /\ ~ready[s]
  /\ Steady => Answered(s)
  /\ Idle(s, "loop")
  /\ due' = [due EXCEPT ![s] = @ \cup ({"loop"} \X Links)]
  /\ UNCHANGED <<local, peer, ready, keepalive, candidate, heard, pongs,
                 sequence, highest, got, minted, net, historyVars>>

\* helloVia: one owed hello goes out, with the state of this moment.
HelloVia(s) ==
  \E d \in due[s] :
    /\ due' = [due EXCEPT ![s] = @ \ {d}]
    /\ net' = net \cup Posted(s, d[2], Hello(s))
    /\ UNCHANGED <<local, peer, ready, keepalive, candidate, heard, pongs,
                   sequence, highest, got, minted, historyVars>>

\* receiveHello, the accepted case: from nobody in particular yet, or from the
\* established peer itself.  Readiness needs the echo.
AcceptHello(s, m) ==
  LET e == m.env IN
  /\ ~ready[s] \/ e.local = peer[s]
  /\ Echoes(s, e) \/ e.peer = Zero
  /\ peer' = [peer EXCEPT ![s] = e.local]
  /\ ready' = [ready EXCEPT ![s] = @ \/ Echoes(s, e)]
  /\ heard' = [heard EXCEPT ![s] = @ \cup {m.link}]
  /\ due' = IF Answers(s, e)
              THEN [due EXCEPT ![s] = @ \cup ({m.link} \X Links)]
              ELSE due
  /\ held' = held \cup {<<local[s], e.local>>}
  /\ net' = Rest(m)
  /\ UNCHANGED <<local, keepalive, candidate, pongs, sequence, highest, got,
                 minted, offered, delivered, weather>>

\* receiveHello, "stale peer echo".
RejectHello(s, m) ==
  /\ ~ready[s] \/ m.env.local = peer[s]
  /\ ~Echoes(s, m.env) /\ m.env.peer # Zero
  /\ net' = Rest(m)
  /\ UNCHANGED <<sessionVars, historyVars>>

\* offerReplacementLocked: the candidate echoed the challenge minted for it.
ReplacePeer(s, m) ==
  LET c == candidate[s] IN
  /\ ready[s] /\ m.env.local # peer[s]
  /\ c # None /\ Confirms(c, m.env)
  /\ local' = [local EXCEPT ![s] = c.local]
  /\ peer' = [peer EXCEPT ![s] = m.env.local]
  /\ sequence' = [sequence EXCEPT ![s] = 0]
  /\ highest' = [highest EXCEPT ![s] = 0]
  /\ got' = [got EXCEPT ![s] = {}]
  /\ keepalive' = [keepalive EXCEPT ![s] = FALSE]
  /\ candidate' = [candidate EXCEPT ![s] = None]
  /\ heard' = [heard EXCEPT ![s] = {m.link}]
  /\ due' = [due EXCEPT ![s] = @ \cup ({m.link} \X Links)]
  /\ held' = held \cup {<<c.local, m.env.local>>}
  /\ net' = Rest(m)
  /\ UNCHANGED <<ready, pongs, minted, offered, delivered, weather>>

\* offerReplacementLocked, the other answers to an initial hello of a stranger:
\* the candidate (new, or offered before) is sent its challenge on every
\* carrier.  An expired candidate counts as none.
OfferReplacement(s, m) ==
  LET c == candidate[s]
      known == c # None /\ c.sender = m.env.local
      minting == [sender |-> m.env.local, local |-> Mint(s)]
  IN
  /\ ready[s] /\ m.env.local # peer[s]
  /\ m.env.peer = Zero
  /\ \/ /\ known
        /\ net' = Rest(m) \cup UNION {Posted(s, l, Offer(c)) : l \in Links}
        /\ UNCHANGED <<candidate, minted, offered>>
     \/ /\ Fresh(s)
        /\ Steady => ~known
        /\ candidate' = [candidate EXCEPT ![s] = minting]
        /\ minted' = [minted EXCEPT ![s] = @ + 1]
        /\ offered' = offered \cup {<<minting.local, minting.sender>>}
        /\ net' = Rest(m) \cup UNION {Posted(s, l, Offer(minting)) : l \in Links}
  /\ UNCHANGED <<local, peer, ready, keepalive, heard, due, pongs, sequence,
                 highest, got, held, delivered, weather>>

\* offerReplacementLocked: an initial hello inside candidateInterval of the last
\* new candidate, from another sender than the present one.
RateLimit(s, m) ==
  /\ ready[s] /\ m.env.local # peer[s]
  /\ m.env.peer = Zero
  /\ candidate[s] # None => candidate[s].sender # m.env.local
  /\ \E o \in offered : o[1][1] = s
  /\ net' = Rest(m)
  /\ UNCHANGED <<sessionVars, historyVars>>

\* offerReplacementLocked: an echo of anything but the candidate's challenge.  An
\* expired candidate is forgotten first, so that its echo is refused as well.
RefuseEcho(s, m) ==
  LET c == candidate[s] IN
  /\ ready[s] /\ m.env.local # peer[s]
  /\ m.env.peer # Zero
  /\ \/ /\ c # None => ~Confirms(c, m.env)
        /\ UNCHANGED candidate
     \/ /\ ~Steady
        /\ candidate' = [candidate EXCEPT ![s] = None]
  /\ net' = Rest(m)
  /\ UNCHANGED <<local, peer, ready, keepalive, heard, due, pongs, sequence,
                 highest, got, minted, historyVars>>

HelloFor(s) ==
  {m \in net : m.to = s /\ m.env.kind = "hello" /\ Idle(s, m.link)}

ReceiveHello(s) ==
  \E m \in HelloFor(s) :
    \/ AcceptHello(s, m)
    \/ RejectHello(s, m)
    \/ ReplacePeer(s, m)
    \/ OfferReplacement(s, m)
    \/ RateLimit(s, m)
    \/ RefuseEcho(s, m)

-----------------------------------------------------------------------------
\* Data.

\* Send: the number is taken and the envelope built under the lock.
Send(s) ==
  /\ ready[s]
  /\ BelowLimit(s)
  /\ sequence' = [sequence EXCEPT ![s] = @ + 1]
  /\ \E l \in IF heard[s] # {} THEN heard[s] ELSE Links :
       net' = net \cup Posted(s, l, Data(s, sequence[s] + 1))
  /\ UNCHANGED <<local, peer, ready, keepalive, candidate, heard, due, pongs,
                 highest, got, minted, historyVars>>

ReceiveIPv4(s) ==
  \E m \in net :
    LET n == m.env.seq IN
    /\ m.to = s /\ m.env.kind = "ipv4"
    /\ Idle(s, m.link)
    /\ Acceptable(s, m.env)
    /\ highest' = [highest EXCEPT ![s] = IF n > @ THEN n ELSE @]
    /\ got' = [got EXCEPT ![s] = @ \cup {n}]
    /\ heard' = [heard EXCEPT ![s] = @ \cup {m.link}]
    /\ delivered' = delivered \cup {m.env}
    /\ net' = Rest(m)
    /\ UNCHANGED <<local, peer, ready, keepalive, candidate, due, pongs,
                   sequence, minted, held, offered, weather>>

-----------------------------------------------------------------------------
\* Keepalive.

\* keepaliveLoop, the tick that finds the peer silent: handshake again.
KeepaliveReset(s) ==
  /\ ready[s]
  /\ PeerSilent(s)
  /\ Fresh(s)
  /\ ready' = [ready EXCEPT ![s] = FALSE]
  /\ peer' = [peer EXCEPT ![s] = Zero]
  /\ sequence' = [sequence EXCEPT ![s] = 0]
  /\ highest' = [highest EXCEPT ![s] = 0]
  /\ got' = [got EXCEPT ![s] = {}]
  /\ keepalive' = [keepalive EXCEPT ![s] = FALSE]
  /\ candidate' = [candidate EXCEPT ![s] = None]
  /\ local' = [local EXCEPT ![s] = Mint(s)]
  /\ minted' = [minted EXCEPT ![s] = @ + 1]
  /\ UNCHANGED <<heard, due, pongs, net, historyVars>>

\* keepaliveLoop: a LinkPing on a quiet carrier (sendControlVia).
Ping(s) ==
  /\ Quiet
  /\ Steady => Answered(s)
  /\ ready[s]
  /\ \E l \in Links : net' = net \cup Posted(s, l, Control(s, "ping"))
  /\ UNCHANGED <<sessionVars, historyVars>>

\* receiveControl, LinkPing: the answer is left to a goroutine.
ReceivePing(s) ==
  \E m \in net :
    /\ m.to = s /\ m.env.kind = "ping"
    /\ Idle(s, m.link)
    /\ Matches(s, m.env)
    /\ heard' = [heard EXCEPT ![s] = @ \cup {m.link}]
    /\ pongs' = IF s \in NoPong THEN pongs
                ELSE [pongs EXCEPT ![s] = @ \cup {m.link}]
    /\ net' = Rest(m)
    /\ UNCHANGED <<local, peer, ready, keepalive, candidate, due, sequence,
                   highest, got, minted, historyVars>>

\* That goroutine: sendControlVia, refused unless ready at this moment.
SendPong(s) ==
  \E l \in pongs[s] :
    /\ pongs' = [pongs EXCEPT ![s] = @ \ {l}]
    /\ net' = IF ready[s] THEN net \cup Posted(s, l, Control(s, "pong")) ELSE net
    /\ UNCHANGED <<local, peer, ready, keepalive, candidate, heard, due,
                   sequence, highest, got, minted, historyVars>>

ReceivePong(s) ==
  \E m \in net :
    /\ m.to = s /\ m.env.kind = "pong"
    /\ Idle(s, m.link)
    /\ Matches(s, m.env)
    /\ heard' = [heard EXCEPT ![s] = @ \cup {m.link}]
    /\ keepalive' = [keepalive EXCEPT ![s] = TRUE]
    /\ net' = Rest(m)
    /\ UNCHANGED <<local, peer, ready, candidate, due, pongs, sequence,
                   highest, got, minted, historyVars>>

\* receiveIPv4, receiveControl: not ready, challenge mismatch or replay.
DropMismatched(s) ==
  \E m \in net :
    /\ m.to = s /\ m.env.kind # "hello"
    /\ Idle(s, m.link)
    /\ ~Matches(s, m.env) \/ (m.env.kind = "ipv4" /\ ~InWindow(s, m.env.seq))
    /\ net' = Rest(m)
    /\ UNCHANGED <<sessionVars, historyVars>>

\* A carrier was not heard for linkTimeout, or was reported stuck (MarkStalled).
\* With Steady, two sessions that name each other keep hearing each other, for a
\* carrier is pinged three times before it counts as silent.
Silence(s) ==
  /\ Steady => Settled /\ \A r \in Opposite(s) : ~Paired(s, r)
  /\ \E l \in heard[s] : heard' = [heard EXCEPT ![s] = @ \ {l}]
  /\ UNCHANGED <<local, peer, ready, keepalive, candidate, due, pongs,
                 sequence, highest, got, minted, net, historyVars>>

-----------------------------------------------------------------------------
\* The processes and the carriers around the Session.

\* The process ends at any point and is started again: a new Session object
\* with its own challenge (NewSession); the goroutines and their debts are gone.
Restart(s) ==
  /\ s \in Restarting
  /\ Fresh(s)
  /\ local' = [local EXCEPT ![s] = Mint(s)]
  /\ peer' = [peer EXCEPT ![s] = Zero]
  /\ ready' = [ready EXCEPT ![s] = FALSE]
  /\ keepalive' = [keepalive EXCEPT ![s] = FALSE]
  /\ candidate' = [candidate EXCEPT ![s] = None]
  /\ heard' = [heard EXCEPT ![s] = {}]
  /\ due' = [due EXCEPT ![s] = {}]
  /\ pongs' = [pongs EXCEPT ![s] = {}]
  /\ sequence' = [sequence EXCEPT ![s] = 0]
  /\ highest' = [highest EXCEPT ![s] = 0]
  /\ got' = [got EXCEPT ![s] = {}]
  /\ minted' = [minted EXCEPT ![s] = @ + 1]
  /\ UNCHANGED <<net, historyVars>>

Lose ==
  /\ Lossy
  /\ \E m \in net : net' = net \ {m}
  /\ UNCHANGED <<sessionVars, historyVars>>

Next ==
  \/ \E s \in Parties :
       \/ HelloTick(s) \/ HelloVia(s) \/ ReceiveHello(s)
       \/ Send(s) \/ ReceiveIPv4(s)
       \/ Ping(s) \/ ReceivePing(s) \/ SendPong(s) \/ ReceivePong(s)
       \/ DropMismatched(s)
       \/ KeepaliveReset(s) \/ Silence(s) \/ Restart(s)
  \/ Lose

Spec == Init /\ [][Next]_vars

\* Timers fire and goroutines run (weak fairness); a carrier that works now and
\* then gets each kind of record through now and then (strong fairness), and not
\* every hello comes within a second of a new candidate.  No party is made to
\* send data or to restart, and nothing has to be lost.
Fairness ==
  \A s \in Parties :
     /\ WF_vars(HelloTick(s)) /\ WF_vars(HelloVia(s))
     /\ WF_vars(Ping(s)) /\ WF_vars(SendPong(s))
     /\ SF_vars(Silence(s)) /\ WF_vars(KeepaliveReset(s))
     /\ SF_vars(ReceiveHello(s))
     /\ SF_vars(\E m \in HelloFor(s) : OfferReplacement(s, m))
     /\ SF_vars(ReceivePing(s)) /\ SF_vars(ReceivePong(s))
     /\ WF_vars(DropMismatched(s))

FairSpec == Spec /\ Fairness

-----------------------------------------------------------------------------
\* Properties.

TypeOK ==
  /\ local \in [Parties -> Challenges]
  /\ peer \in [Parties -> Challenges \cup {Zero}]
  /\ ready \in [Parties -> BOOLEAN]
  /\ keepalive \in [Parties -> BOOLEAN]
  /\ candidate \in [Parties -> Candidate \cup {None}]
  /\ heard \in [Parties -> SUBSET Links]
  /\ due \in [Parties -> SUBSET ((Links \cup {"loop"}) \X Links)]
  /\ pongs \in [Parties -> SUBSET Links]
  /\ sequence \in [Parties -> 0..MaxSeq]
  /\ highest \in [Parties -> 0..MaxSeq]
  /\ got \in [Parties -> SUBSET (1..MaxSeq)]
  /\ minted \in [Parties -> Nat \ {0}]
  /\ net \subseteq Record
  /\ held \subseteq Challenges \X Challenges
  /\ offered \subseteq Challenges \X Challenges
  /\ delivered \subseteq Envelope
  /\ weather \in Weathers

\* The parts of the inductive invariant IInv.

\* A challenge that was drawn already.
Drawn(ch) == ch[2] <= minted[ch[1]]

AllDrawn ==
  /\ \A s \in Parties : Drawn(local[s])
  /\ \A s \in Parties : candidate[s] # None => Drawn(candidate[s].local)
  /\ \A m \in net : Drawn(m.env.local)
  /\ \A p \in held : Drawn(p[1])
  /\ \A o \in offered : Drawn(o[1]) /\ Drawn(o[2])
  /\ \A e \in delivered : e.peer \in Challenges /\ Drawn(e.peer)

\* Each party uses challenges of its own drawing.
Owned ==
  \A s \in Parties :
    /\ local[s][1] = s
    /\ candidate[s] # None => candidate[s].local[1] = s

\* A candidate's challenge was offered, and has not been used in a session.
CandidateUnused ==
  \A s \in Parties : candidate[s] # None =>
    LET c == candidate[s] IN
    /\ <<c.local, c.sender>> \in offered
    /\ c.local # local[s]
    /\ \A p \in held : p[1] # c.local
    /\ \A e \in delivered : e.peer # c.local

\* Whoever names a peer is in a pair with it; whoever is ready names a peer.
PairHeld ==
  \A s \in Parties :
    /\ peer[s] # Zero => <<local[s], peer[s]>> \in held
    /\ ready[s] => peer[s] # Zero

\* Challenges minted for a candidate never open a handshake.
OfferedApart ==
  \A o \in offered :
    /\ \A q \in offered : q[2] # o[1]
    /\ \A m \in net : m.env.kind = "hello" /\ m.env.peer = Zero
                        => m.env.local # o[1]
    /\ \A s \in Parties : local[s] = o[1] => peer[s] # Zero

\* A hello that echoes a challenge was written in the pair it names.
HelloBacked ==
  \A m \in net :
    m.env.kind = "hello" /\ m.env.peer # Zero
      => <<m.env.local, m.env.peer>> \in held \cup offered

\* What was delivered to the current challenge is remembered by the window, and
\* nothing was delivered to a challenge before its session became ready.
DeliveredKnown ==
  \A s \in Parties :
    /\ got[s] \subseteq 1..highest[s]
    /\ \A e \in delivered : e.peer = local[s] => ready[s]
    /\ \A e \in delivered : Matches(s, e) => e.seq \in got[s]

\* No data packet is handed to a data callback a second time: whatever was
\* delivered, to whichever party, no Session would now accept it again, though
\* the network may show it again after resets, restarts and replacements.
\* (acceptSequenceLocked, resetLocked, offerReplacementLocked.)
DataOnce == \A s \in Parties : \A e \in delivered : ~Acceptable(s, e)

\* A session is established only with a peer that knew its challenge: the party
\* that drew peer[s] has been in, or has offered, the mirrored pair.  Recorded
\* hellos alone never make a session ready.  (receiveHello.)
EchoBacked ==
  \A s \in Parties : ready[s] => <<peer[s], local[s]>> \in held \cup offered

IInv ==
  /\ TypeOK /\ AllDrawn /\ Owned /\ CandidateUnused /\ PairHeld
  /\ OfferedApart /\ HelloBacked /\ EchoBacked /\ DeliveredKnown

\* An established session gives its peer up for another one only under a
\* challenge drawn for that other one alone, never used before, and only after
\* the other one has taken it up.  (offerReplacementLocked.)
Displacement ==
  [][\A s \in Parties :
       ready[s] /\ ready'[s] /\ peer'[s] # peer[s] =>
         /\ <<local'[s], peer'[s]>> \in offered
         /\ <<peer'[s], local'[s]>> \in held
         /\ \A p \in held : p[1] # local'[s]]_vars

\* A client that has seen its exit answer keepalives gets a session again after
\* the exit restarted.  (keepaliveLoop.)
Rehandshake ==
  \A c \in Clients : keepalive[c] ~> \E e \in Exits : Paired(c, e)

\* An exit does not keep a session whose client is gone or has moved on.
\* (keepaliveLoop, offerReplacementLocked.)
ExitLetsGo ==
  \A e \in Exits :
    ready[e] ~> ~ready[e] \/ \E c \in Clients : Paired(c, e)

\* docs/sessions.md:92: "A client whose exit went silent on every transport
\* starts a new handshake on its own".
SilenceNoticed ==
  \A c \in Clients :
    ready[c] ~> ~ready[c] \/ \E e \in Exits : Paired(c, e)

\* PROTOCOL_NEGOTIATION.md:63: "Retries with an unconfirmed ready bit receive a
\* fresh confirmation": a client that retries its hello gets through in the end.
RetriesConfirmed == \A c \in Clients : ~ready[c] ~> ready[c]

=============================================================================
