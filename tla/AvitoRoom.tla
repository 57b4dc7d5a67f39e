------------------------------ MODULE AvitoRoom ------------------------------
\* A room of the Avito carrier (Core/transport/avito/avito.go), seen from
\* the side that writes into it. The room is a shared document; a packet,
\* or a run of pieces of the stripe, replaces all of it in one operation
\* (delete so many characters, insert these) and the next one waits for
\* the reply. A reader sorts what the server says into operations of
\* others and replies, which it puts into a channel of a fixed size.
\*
\* The server applies an operation that deletes as many characters as the
\* document has and refuses the others; it may also say things the carrier
\* never asked for.
EXTENDS Naturals, Sequences

CONSTANTS
    MaxOps,     \* operations applied in a behaviour (a bound)
    MaxTurns,   \* sockets that break by themselves or by new cookies (a bound)
    MaxAsides,  \* messages of the server that answer nothing (a bound)
    AckRoom     \* capacity of avitoConn.ack

VARIABLES
    ctx,        \* the transport: "new", "up", "failed", "stopped"
    run,        \* run and connectAndServe
    sock,       \* the socket is open
    connected,
    reader, sender,     \* readLoop and sendLoop of this socket
    ack,        \* avitoConn.ack
    known,      \* the version docLen is right for
    doc,        \* the version of the document, which names its content
    flying,     \* operations on their way to the server: for what version, of this socket
    inbox,      \* what the server has said on this socket
    sent, turns, asides,
    lapped      \* history: an operation of a dead socket followed the snapshot of the next

lifeVars == <<ctx, turns>>
serverVars == <<doc, flying, inbox, asides>>
sendVars == <<known, sent, lapped>>
avitoVars == <<lifeVars, run, sock, connected, reader, sender, ack, serverVars, sendVars>>

Init ==
    /\ ctx = "new" /\ turns = 0
    /\ run = "off" /\ sock = FALSE /\ connected = FALSE
    /\ reader = "off" /\ sender = "off" /\ ack = <<>>
    /\ doc = 0 /\ flying = <<>> /\ inbox = <<>> /\ asides = 0
    /\ known = 0 /\ sent = 0 /\ lapped = FALSE

-----------------------------------------------------------------------------
\* The transport

\* The rooms of the list, or new ones; an exit that gets none has failed.
Start(entered) ==
    /\ ctx = "new"
    /\ ctx' = IF entered THEN "up" ELSE "failed"
    /\ run' = IF entered THEN "dial" ELSE "off"
    /\ UNCHANGED <<turns, sock, connected, reader, sender, ack, serverVars, sendVars>>

\* The context closes the socket, while one is open or being greeted.
Stop ==
    /\ ctx # "stopped"
    /\ ctx' = "stopped"
    /\ sock' = FALSE
    /\ UNCHANGED <<turns, run, connected, reader, sender, ack, serverVars, sendVars>>

\* The network or the server, ninety silent seconds, or ApplyCookies.
Break ==
    /\ sock /\ turns < MaxTurns
    /\ turns' = turns + 1
    /\ sock' = FALSE
    /\ UNCHANGED <<ctx, run, connected, reader, sender, ack, serverVars, sendVars>>

-----------------------------------------------------------------------------
\* run and connectAndServe

Up == ctx = "up"
Again == IF Up THEN "wait" ELSE "exit"

Dial ==
    /\ run = "dial"
    /\ IF Up THEN run' = "subscribe" /\ sock' = TRUE ELSE run' = "exit" /\ UNCHANGED sock
    /\ inbox' = <<>>
    /\ flying' = [i \in DOMAIN flying |-> [flying[i] EXCEPT !.own = FALSE]]
    /\ UNCHANGED <<lifeVars, connected, reader, sender, ack, doc, asides, sendVars>>

DialFails ==
    /\ run = "dial"
    /\ run' = Again
    /\ UNCHANGED <<lifeVars, sock, connected, reader, sender, ack, serverVars, sendVars>>

\* The snapshot of the document; it is made when there is none.
Subscribe ==
    /\ run = "subscribe" /\ sock
    /\ run' = "serve"
    /\ known' = doc
    /\ connected' = TRUE
    /\ reader' = "read" /\ sender' = "idle" /\ ack' = <<>>
    /\ UNCHANGED <<lifeVars, sock, serverVars, sent, lapped>>

SubscribeFails ==
    /\ run = "subscribe"
    /\ run' = Again
    /\ sock' = FALSE
    /\ UNCHANGED <<lifeVars, connected, reader, sender, ack, serverVars, sendVars>>

\* mutant
OneEnded == reader = "ended" \/ sender = "ended"
BothEnded == reader = "ended" /\ sender = "ended"

\* The first loop to end, or the context, ends the other.
Close ==
    /\ run = "serve"
    /\ reader = "ended" \/ sender = "ended" \/ ~Up
    /\ run' = "close"
    /\ connected' = FALSE
    /\ sock' = FALSE
    /\ UNCHANGED <<lifeVars, reader, sender, ack, serverVars, sendVars>>

Closed ==
    /\ run = "close" /\ BothEnded
    /\ run' = Again
    /\ UNCHANGED <<lifeVars, sock, connected, reader, sender, ack, serverVars, sendVars>>

WaitEnds ==
    /\ run = "wait"
    /\ run' = IF Up THEN "dial" ELSE "exit"
    /\ UNCHANGED <<lifeVars, sock, connected, reader, sender, ack, serverVars, sendVars>>

\* avitoConn.done is closed, or the context done.
Over == run # "serve" \/ ~Up

-----------------------------------------------------------------------------
\* readLoop

\* What is not somebody else's operation is taken for a reply.
IsReply(m) == m # "peer"
Blocked == inbox # <<>> /\ IsReply(Head(inbox)) /\ Len(ack) = AckRoom

\* handlePeerOp: the version moves on, the length of the document does not.
PeerOp ==
    /\ reader = "read" /\ inbox # <<>> /\ ~IsReply(Head(inbox))
    /\ inbox' = Tail(inbox)
    /\ UNCHANGED <<lifeVars, run, sock, connected, reader, sender, ack, doc, flying, asides, sendVars>>

Reply ==
    /\ reader = "read" /\ inbox # <<>> /\ IsReply(Head(inbox)) /\ ~Blocked
    /\ inbox' = Tail(inbox)
    /\ ack' = Append(ack, Head(inbox))
    /\ UNCHANGED <<lifeVars, run, sock, connected, reader, sender, doc, flying, asides, sendVars>>

\* It looks at the socket when it reads, at the end of everything while it waits.
ReaderEnds ==
    /\ reader = "read"
    /\ IF Blocked THEN Over ELSE ~sock
    /\ reader' = "ended"
    /\ UNCHANGED <<lifeVars, run, sock, connected, sender, ack, serverVars, sendVars>>

-----------------------------------------------------------------------------
\* sendLoop and sendOp

SendOp ==
    /\ sender = "idle" /\ sock /\ sent < MaxOps
    /\ sender' = "await"
    /\ flying' = Append(flying, [for |-> known, own |-> TRUE])
    /\ sent' = sent + 1
    /\ UNCHANGED <<lifeVars, run, sock, connected, reader, ack, doc, inbox, asides, known, lapped>>

\* mutant
KnowNothing == known
\* The document is as long as what was sent.
KnowNew == known + 1

\* Whatever is in the channel is the answer.
TakeReply ==
    /\ sender = "await" /\ ack # <<>>
    /\ ack' = Tail(ack)
    /\ IF Head(ack) = "error" THEN sender' = "ended" /\ UNCHANGED known
                              ELSE sender' = "idle" /\ known' = KnowNew
    /\ UNCHANGED <<lifeVars, run, sock, connected, reader, serverVars, sent, lapped>>

\* Nobody waits any more, or the packet cannot be written.
SenderEnds ==
    /\ sender \in {"idle", "await"}
    /\ Over \/ (sender = "idle" /\ ~sock)
    /\ sender' = "ended"
    /\ UNCHANGED <<lifeVars, run, sock, connected, reader, ack, serverVars, sendVars>>

-----------------------------------------------------------------------------
\* The server

\* Everybody hears of an operation; it is ours if it came on this socket.
Serve ==
    LET op == Head(flying)
        fits == op.for = doc
        subscribed == run = "serve" /\ sock IN
    /\ flying # <<>>
    /\ flying' = Tail(flying)
    /\ doc' = IF fits THEN doc + 1 ELSE doc
    /\ inbox' = IF subscribed /\ op.own THEN Append(inbox, IF fits THEN "ok" ELSE "error")
                ELSE IF subscribed /\ fits THEN Append(inbox, "peer")
                ELSE inbox
    /\ lapped' = (lapped \/ (fits /\ ~op.own /\ (subscribed \/ \E i \in DOMAIN flying : flying[i].own)))
    /\ UNCHANGED <<lifeVars, run, sock, connected, reader, sender, ack, asides, known, sent>>

Aside ==
    /\ asides < MaxAsides /\ sock /\ run = "serve"
    /\ asides' = asides + 1
    /\ inbox' = Append(inbox, "aside")
    /\ UNCHANGED <<lifeVars, run, sock, connected, reader, sender, ack, doc, flying, sendVars>>

-----------------------------------------------------------------------------
RunSteps ==
    /\ run # "off"
    /\ \/ Dial
       \/ DialFails
       \/ Subscribe
       \/ SubscribeFails
       \/ Close
       \/ Closed
       \/ WaitEnds

Next ==
    \/ \E entered \in BOOLEAN : Start(entered)
    \/ Stop
    \/ Break
    \/ RunSteps
    \/ PeerOp
    \/ Reply
    \/ ReaderEnds
    \/ SendOp
    \/ TakeReply
    \/ SenderEnds
    \/ Serve
    \/ Aside

Spec == Init /\ [][Next]_avitoVars

\* What works in the end when it is tried again and again.
Luck(i) == (i = 1 /\ run = "dial" /\ Dial) \/ (i = 2 /\ Subscribe)

\* The goroutines run and the server answers; a dial and a subscription
\* that are tried again and again work once. Nobody is made to send.
Scheduled ==
    /\ WF_avitoVars(RunSteps)
    /\ WF_avitoVars(PeerOp \/ Reply) /\ WF_avitoVars(ReaderEnds)
    /\ WF_avitoVars(TakeReply) /\ WF_avitoVars(SenderEnds)
    /\ WF_avitoVars(Serve)

FairSpec == Spec /\ Scheduled /\ \A i \in 1..2 : SF_avitoVars(Luck(i))

-----------------------------------------------------------------------------
Ops == [for : 0..MaxOps, own : BOOLEAN]
Flags == sock \in BOOLEAN /\ connected \in BOOLEAN /\ lapped \in BOOLEAN
Messages == {"ok", "error", "peer", "aside"}

TypeOK ==
    /\ ctx \in {"new", "up", "failed", "stopped"} /\ turns \in 0..MaxTurns
    /\ run \in {"off", "dial", "subscribe", "serve", "close", "wait", "exit"}
    /\ Flags
    /\ reader \in {"off", "read", "ended"} /\ sender \in {"off", "idle", "await", "ended"}
    /\ ack \in Seq(Messages) /\ Len(ack) <= AckRoom
    /\ inbox \in Seq(Messages) /\ asides \in 0..MaxAsides
    /\ flying \in Seq(Ops) /\ known \in 0..MaxOps /\ doc \in 0..MaxOps /\ sent \in 0..MaxOps

\* "a loop from a dead socket never takes the next one's acks or writes
\* into it with a stale version" (avito.go:343).
OneConnection ==
    run \in {"off", "dial", "subscribe", "wait", "exit"} =>
        ~connected /\ reader \in {"off", "ended"} /\ sender \in {"off", "ended"}

\* Every operation deletes the document there will be when it arrives, the
\* server's or the one its predecessor leaves, also where something else
\* was taken for its predecessor's answer; but not after one of a dead
\* socket came behind the snapshot of the next.
InStep ==
    ~lapped => \A i \in 1..Len(flying) :
        flying[i].own =>
            flying[i].for = IF i > 1 /\ flying[i - 1].own THEN flying[i - 1].for + 1 ELSE doc

\* A socket that broke is replaced, whatever the loops were doing, as long
\* as the server has not said more than the channel holds.
Severed == Up /\ ~(connected /\ sock) /\ asides <= AckRoom
Recovers == []<>~Severed

\* An operation that waits for its answer goes on: with one that was
\* refused the socket goes, and the next one begins with a new snapshot.
Unanswered == sender = "await"
Answered == []<>~Unanswered

\* After Stop all goroutines of the room end.
Winding == ctx = "stopped" /\ ~(run \in {"off", "exit"} /\ {reader, sender} \subseteq {"off", "ended"})
WindsDown == []<>~Winding
-----------------------------------------------------------------------------
\* What keeps one socket and the length: the inductive invariant.

\* Who has the socket, and whose operations are on their way: a dead socket's
\* first, then this one's.
Sockets ==
    /\ ctx = "new" => run = "off"
    /\ connected => run = "serve"
    /\ sock => run \in {"subscribe", "serve"}
    /\ run = "subscribe" => \A i \in 1..Len(flying) : ~flying[i].own
    /\ \A i, j \in 1..Len(flying) : i < j /\ flying[i].own => flying[j].own

\* The sender knows the document its last operation leaves, or the server's.
Waits == IF sender = "await" THEN 1 ELSE 0
Knows ==
    /\ doc + Len(flying) <= sent
    /\ known + Waits <= sent
    /\ ~lapped /\ run = "serve" /\ sock /\ sender \in {"idle", "await"} =>
           known + Waits = IF flying # <<>> /\ flying[Len(flying)].own
                           THEN flying[Len(flying)].for + 1 ELSE doc

IInv == TypeOK /\ OneConnection /\ Sockets /\ InStep /\ Knows
=============================================================================
