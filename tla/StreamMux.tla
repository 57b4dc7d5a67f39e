----------------------------- MODULE StreamMux -----------------------------
\* Streams over one carrier (Core/transport/phpbox/mux.go): the client's
\* Mux, and the exit it speaks to (Core/deploy/phpbox/lib/mux.php), which
\* is one loop.
\*
\* A DATA frame is the unit of everything counted in bytes.  A carrier
\* keeps the order of one stream's frames, except that the exit's outbox
\* sends OPEN_OK, OPEN_ERR and ACK ahead of DATA and CLOSE; when it
\* reconnects it loses what is under way.  Frames of different streams
\* share nothing on the way but the windows.
EXTENDS Integers, Sequences, FiniteSets

CONSTANTS
    Streams,      \* the ids Dial hands out
    Scenes,       \* what is to happen: a stream in use -> frames its application
                  \* writes (up) and its destination sends (down), OPENs sent for
                  \* one stream (opens), reconnections of the carrier (losses),
                  \* streams their caller may give up or close (quits)
    Window,       \* streamWindow, in frames, on both sides
    Total         \* totalWindow

VARIABLES
    scene,
    app,          \* what the caller of Dial has come to
    known,        \* streams, the map
    answer,       \* openRes
    closed, eof,  \* closed, rbuf.eof
    rbuf, got,    \* rbuf.buf; what the application has read
    writer,       \* where the application's Write is
    written,      \* frames it has handed to the carrier
    sent, acked, consumed, ackedSent,
    totalUp, ackQ, dead,
    up,           \* stream -> frames on their way to the exit
    ctl, bulk,    \* stream -> frames on their way to the client
    ex,           \* the exit's streams: unknown, pending or open
    dials,        \* how many times it dialled for a stream
    held,         \* wbuf: DATA for a dial under way
    dst,          \* what reached destinations
    fed,          \* frames read from the present destination
    exSent, exAcked, wrote, exAckedSent, inAll,
    opens, losses,\* OPENs sent; reconnections
    raced         \* somebody closed a stream while its Write was under way

clientVars ==
    <<scene, app, known, answer, closed, eof, rbuf, got, writer, written, sent, acked,
    consumed, ackedSent, totalUp, ackQ, dead, opens, raced>>
countVars == <<sent, acked, consumed, ackedSent, totalUp, ackQ>>
exitVars ==
    <<ex, dials, held, dst, fed, exSent, exAcked, wrote, exAckedSent, inAll>>
wire == <<up, ctl, bulk>>
muxVars == <<clientVars, wire, exitVars, losses>>

Each(x) == [i \in Streams |-> x]

Init ==
    /\ scene \in Scenes
    /\ app = Each("idle") /\ known = {} /\ answer = Each("none")
    /\ closed = Each(FALSE) /\ eof = Each(FALSE)
    /\ rbuf = Each(<<>>) /\ got = Each(<<>>)
    /\ writer = Each("none") /\ written = Each(0)
    /\ sent = Each(0) /\ acked = Each(0)
    /\ consumed = Each(0) /\ ackedSent = Each(0)
    /\ totalUp = 0 /\ ackQ = {} /\ dead = FALSE
    /\ up = Each(<<>>) /\ ctl = Each(<<>>) /\ bulk = Each(<<>>)
    /\ ex = Each("unknown") /\ dials = Each(0) /\ held = Each(<<>>)
    /\ dst = Each(<<>>) /\ fed = Each(0)
    /\ exSent = Each(0) /\ exAcked = Each(0)
    /\ wrote = Each(0) /\ exAckedSent = Each(0) /\ inAll = 0
    /\ opens = Each(0) /\ losses = 0 /\ raced = FALSE

Frame(type, val) == [type |-> type, val |-> val]
SendUp(i, f) == up' = [up EXCEPT ![i] = Append(@, f)]

-----------------------------------------------------------------------------
\* Dial

Dial(i) ==
    /\ app[i] = "idle" /\ i \in DOMAIN scene.up
    /\ IF dead
       THEN app' = [app EXCEPT ![i] = "failed"] /\ UNCHANGED <<known, opens, up>>
       ELSE /\ app' = [app EXCEPT ![i] = "dialing"]
            /\ known' = known \union {i}
            /\ opens' = [opens EXCEPT ![i] = 1]
            /\ SendUp(i, Frame("OPEN", 0))
    /\ UNCHANGED <<scene, answer, closed, eof, rbuf, got, writer, written,
                   countVars, dead, raced, ctl, bulk, exitVars, losses>>

\* No answer for openRetry.
OpenAgain(i) ==
    /\ app[i] = "dialing" /\ answer[i] = "none" /\ ~dead
    /\ opens[i] < scene.opens
    /\ opens' = [opens EXCEPT ![i] = @ + 1]
    /\ SendUp(i, Frame("OPEN", 0))
    /\ UNCHANGED <<scene, app, known, answer, closed, eof, rbuf, got, writer,
                   written, countVars, dead, raced, ctl, bulk, exitVars,
                   losses>>

\* shutdown: openOnce lets the first answer stand.
Shutdown(S) ==
    /\ closed' = [i \in Streams |-> closed[i] \/ i \in S]
    /\ eof' = [i \in Streams |-> eof[i] \/ i \in S]
    /\ answer' = [i \in Streams |->
                    IF i \in S /\ answer[i] = "none" THEN "ended" ELSE answer[i]]

InFlight(i) == sent[i] - acked[i]

\* mutant
ForgetNothing(i) == totalUp' = totalUp /\ acked' = [acked EXCEPT ![i] = sent[i]]
\* fcForget
Forget(i) ==
    /\ totalUp' = totalUp - InFlight(i)
    /\ acked' = [acked EXCEPT ![i] = sent[i]]

\* dropStream: nothing for a stream the map no longer has.
DropStream(i) ==
    IF i \in known
    THEN known' = known \ {i} /\ Forget(i) /\ Shutdown({i})
    ELSE UNCHANGED <<known, totalUp, acked, closed, eof, answer>>

DialReturns(i) ==
    /\ app[i] = "dialing" /\ answer[i] # "none"
    /\ IF answer[i] = "ok"
       THEN /\ app' = [app EXCEPT ![i] = "open"]
            /\ UNCHANGED <<known, totalUp, acked, closed, eof, answer>>
       ELSE /\ app' = [app EXCEPT ![i] = "failed"]
            /\ DropStream(i)
    /\ UNCHANGED <<scene, rbuf, got, writer, written, sent, consumed,
                   ackedSent, ackQ, dead, opens, raced, wire, exitVars,
                   losses>>

\* The caller's context ends; the exit is not told.
DialAbandoned(i) ==
    /\ app[i] = "dialing" /\ i \in scene.quits
    /\ app' = [app EXCEPT ![i] = "failed"]
    /\ DropStream(i)
    /\ UNCHANGED <<scene, rbuf, got, writer, written, sent, consumed,
                   ackedSent, ackQ, dead, opens, raced, wire, exitVars,
                   losses>>

-----------------------------------------------------------------------------
\* Write

WriterMoves(i, from, to) ==
    /\ writer[i] = from
    /\ writer' = [writer EXCEPT ![i] = to]

Write(i) ==
    /\ app[i] = "open" /\ ~closed[i]
    /\ written[i] < scene.up[i]
    /\ WriterMoves(i, "none", "waiting")
    /\ UNCHANGED <<scene, app, known, answer, closed, eof, rbuf, got, written,
                   countVars, dead, opens, raced, wire, exitVars, losses>>

\* mutant
FitsAlways(i) == TRUE
\* What waitWindow asks for a frame.
Fits(i) ==
    \/ InFlight(i) = 0
    \/ InFlight(i) + 1 <= Window /\ totalUp + 1 <= Total

WindowOpens(i) ==
    /\ Fits(i)
    /\ WriterMoves(i, "waiting", "free")
    /\ UNCHANGED <<scene, app, known, answer, closed, eof, rbuf, got, written,
                   countVars, dead, opens, raced, wire, exitVars, losses>>

\* No ack for ackStallAfter.
WriterStalled(i) ==
    /\ ~Fits(i)
    /\ WriterMoves(i, "waiting", "free")
    /\ Forget(i)
    /\ UNCHANGED <<scene, app, known, answer, closed, eof, rbuf, got, written,
                   sent, consumed, ackedSent, ackQ, dead, opens, raced, wire,
                   exitVars, losses>>

\* The stream or the mux was closed: the Write ends with an error.
WriteFails(i) ==
    /\ \/ closed[i] /\ WriterMoves(i, "waiting", "none")
       \/ dead /\ WriterMoves(i, "free", "none")
    /\ UNCHANGED <<scene, app, known, answer, closed, eof, rbuf, got, written,
                   countVars, dead, opens, raced, wire, exitVars, losses>>

SendData(i) ==
    /\ ~dead
    /\ WriterMoves(i, "free", "sent")
    /\ written' = [written EXCEPT ![i] = @ + 1]
    /\ SendUp(i, Frame("DATA", written[i] + 1))
    /\ UNCHANGED <<scene, app, known, answer, closed, eof, rbuf, got,
                   countVars, dead, opens, raced, ctl, bulk, exitVars, losses>>

\* fcSent, after the frame has gone.
CountSent(i) ==
    /\ WriterMoves(i, "sent", "none")
    /\ sent' = [sent EXCEPT ![i] = @ + 1]
    /\ totalUp' = totalUp + 1
    /\ UNCHANGED <<scene, app, known, answer, closed, eof, rbuf, got, written,
                   acked, consumed, ackedSent, ackQ, dead, opens, raced, wire,
                   exitVars, losses>>

-----------------------------------------------------------------------------
\* Read, acks and Close

\* read and noteConsumed: an ack is due when the buffer runs dry.
Read(i) ==
    /\ app[i] = "open" /\ rbuf[i] # <<>>
    /\ got' = [got EXCEPT ![i] = Append(@, Head(rbuf[i]))]
    /\ rbuf' = [rbuf EXCEPT ![i] = Tail(@)]
    /\ consumed' = [consumed EXCEPT ![i] = @ + 1]
    /\ IF Len(rbuf[i]) = 1
       THEN /\ ackedSent' = [ackedSent EXCEPT ![i] = consumed[i] + 1]
            /\ ackQ' = ackQ \union {i}
       ELSE UNCHANGED <<ackedSent, ackQ>>
    /\ UNCHANGED <<scene, app, known, answer, closed, eof, writer, written,
                   sent, acked, totalUp, dead, opens, raced, wire, exitVars,
                   losses>>

\* ackLoop: only the latest total of a stream is sent.
SendAcks ==
    /\ ackQ # {} /\ ~dead
    /\ up' = [i \in Streams |->
                IF i \in ackQ THEN Append(up[i], Frame("ACK", ackedSent[i])) ELSE up[i]]
    /\ ackQ' = {}
    /\ UNCHANGED <<scene, app, known, answer, closed, eof, rbuf, got, writer,
                   written, sent, acked, consumed, ackedSent, totalUp, dead,
                   opens, raced, ctl, bulk, exitVars, losses>>

Close(i) ==
    /\ app[i] = "open" /\ ~closed[i] /\ i \in scene.quits
    /\ app' = [app EXCEPT ![i] = "closing"]
    /\ closed' = [closed EXCEPT ![i] = TRUE]
    /\ raced' = (raced \/ writer[i] # "none")
    /\ UNCHANGED <<scene, known, answer, eof, rbuf, got, writer, written,
                   countVars, dead, opens, wire, exitVars, losses>>

CloseEnds(i) ==
    /\ app[i] = "closing"
    /\ app' = [app EXCEPT ![i] = "closed"]
    /\ IF dead THEN UNCHANGED up ELSE SendUp(i, Frame("CLOSE", 0))
    /\ DropStream(i)
    /\ UNCHANGED <<scene, rbuf, got, writer, written, sent, consumed,
                   ackedSent, ackQ, dead, opens, raced, ctl, bulk, exitVars,
                   losses>>

\* Close of the mux, or markClosed when its carrier ends.
MuxEnds ==
    /\ ~dead
    /\ dead' = TRUE
    /\ known' = {}
    /\ Shutdown(known)
    /\ UNCHANGED <<scene, app, rbuf, got, writer, written, countVars, opens,
                   raced, wire, exitVars, losses>>

-----------------------------------------------------------------------------
\* dispatch

OpenOK(i) == answer' = [answer EXCEPT ![i] = IF @ = "none" THEN "ok" ELSE @]
OpenErr(i) == answer' = [answer EXCEPT ![i] = IF @ = "none" THEN "refused" ELSE @]

\* onAck: "never beyond what was sent".
News(i, v) == v > acked[i] /\ v <= sent[i]

OnAck(i, v) ==
    IF News(i, v)
    THEN /\ acked' = [acked EXCEPT ![i] = v]
         /\ totalUp' = totalUp - (v - acked[i])
    ELSE UNCHANGED <<acked, totalUp>>

Control(i) ==
    /\ ctl[i] # <<>>
    /\ ctl' = [ctl EXCEPT ![i] = Tail(@)]
    /\ LET f == Head(ctl[i])
       IN  CASE i \notin known -> UNCHANGED <<answer, acked, totalUp>>
             [] i \in known /\ f.type = "OPEN_OK" -> OpenOK(i) /\ UNCHANGED <<acked, totalUp>>
             [] i \in known /\ f.type = "OPEN_ERR" -> OpenErr(i) /\ UNCHANGED <<acked, totalUp>>
             [] i \in known /\ f.type = "ACK" -> OnAck(i, f.val) /\ UNCHANGED answer
    /\ UNCHANGED <<scene, app, known, closed, eof, rbuf, got, writer, written,
                   sent, consumed, ackedSent, ackQ, dead, opens, raced, up,
                   bulk, exitVars, losses>>

Bulk(i) ==
    /\ bulk[i] # <<>>
    /\ bulk' = [bulk EXCEPT ![i] = Tail(@)]
    /\ LET f == Head(bulk[i])
       IN  /\ rbuf' = IF i \in known /\ f.type = "DATA" /\ ~eof[i]
                      THEN [rbuf EXCEPT ![i] = Append(@, f.val)] ELSE rbuf
           /\ eof' = [eof EXCEPT ![i] = @ \/ (i \in known /\ f.type = "CLOSE")]
    /\ UNCHANGED <<scene, app, known, answer, closed, got, writer, written,
                   countVars, dead, opens, raced, up, ctl, exitVars, losses>>

-----------------------------------------------------------------------------
\* The exit

SendCtl(i, f) == ctl' = [ctl EXCEPT ![i] = Append(@, f)]
SendBulk(i, f) == bulk' = [bulk EXCEPT ![i] = Append(@, f)]

\* "The same OPEN again: answer again, do not dial twice."
Dials(i) == ex[i] = "unknown"

ExitOpen(i) ==
    /\ IF Dials(i)
       THEN /\ ex' = [ex EXCEPT ![i] = "pending"]
            /\ dials' = [dials EXCEPT ![i] = @ + 1]
            /\ fed' = [fed EXCEPT ![i] = 0]
       ELSE UNCHANGED <<ex, dials, fed>>
    /\ IF ex[i] = "open" THEN SendCtl(i, Frame("OPEN_OK", 0)) ELSE UNCHANGED ctl
    /\ UNCHANGED <<bulk, held, dst, exSent, exAcked, wrote, exAckedSent,
                   inAll>>

Arrives(i, s) == [j \in 1..Len(s) |-> <<dials[i], s[j]>>]

\* DATA that comes before the dial has ended waits for it.
Kept(i, v) == Append(held[i], v)

ExitData(i, v) ==
    /\ IF ex[i] = "open"
       THEN /\ dst' = [dst EXCEPT ![i] = @ \o Arrives(i, <<v>>)]
            /\ wrote' = [wrote EXCEPT ![i] = @ + 1]
       ELSE UNCHANGED <<dst, wrote>>
    /\ held' = [held EXCEPT ![i] = IF ex[i] = "pending" THEN Kept(i, v) ELSE @]
    /\ UNCHANGED <<ctl, bulk, ex, dials, fed, exSent, exAcked, exAckedSent,
                   inAll>>

ExitInFlight(i) == exSent[i] - exAcked[i]

ExitAck(i, v) ==
    /\ IF ex[i] = "open" /\ v > exAcked[i] /\ v <= exSent[i]
       THEN /\ exAcked' = [exAcked EXCEPT ![i] = v]
            /\ inAll' = inAll - (v - exAcked[i])
       ELSE UNCHANGED <<exAcked, inAll>>
    /\ UNCHANGED <<ctl, bulk, ex, dials, held, dst, fed, exSent, wrote,
                   exAckedSent>>

\* closeStream: the stream's account goes with it.
CloseStream(i) ==
    /\ ex' = [ex EXCEPT ![i] = "unknown"]
    /\ held' = [held EXCEPT ![i] = <<>>]
    /\ inAll' = inAll - ExitInFlight(i)
    /\ exSent' = [exSent EXCEPT ![i] = 0] /\ exAcked' = [exAcked EXCEPT ![i] = 0]
    /\ wrote' = [wrote EXCEPT ![i] = 0] /\ exAckedSent' = [exAckedSent EXCEPT ![i] = 0]
    /\ UNCHANGED <<dials, dst, fed>>

\* "The client is done with it: what we still hold is for no one."
ExitClose(i) ==
    IF ex[i] = "unknown"
    THEN UNCHANGED <<exitVars, ctl, bulk>>
    ELSE CloseStream(i) /\ UNCHANGED <<ctl, bulk>>

ExitReceives(i) ==
    /\ up[i] # <<>>
    /\ up' = [up EXCEPT ![i] = Tail(@)]
    /\ LET f == Head(up[i])
       IN  \/ f.type = "OPEN" /\ ExitOpen(i)
           \/ f.type = "DATA" /\ ExitData(i, f.val)
           \/ f.type = "ACK" /\ ExitAck(i, f.val)
           \/ f.type = "CLOSE" /\ ExitClose(i)
    /\ UNCHANGED <<clientVars, losses>>

\* A dial ends well: what waited for it goes out.
Connects(i) ==
    /\ ex[i] = "pending"
    /\ ex' = [ex EXCEPT ![i] = "open"]
    /\ SendCtl(i, Frame("OPEN_OK", 0))
    /\ dst' = [dst EXCEPT ![i] = @ \o Arrives(i, held[i])]
    /\ wrote' = [wrote EXCEPT ![i] = Len(held[i])]
    /\ held' = [held EXCEPT ![i] = <<>>]
    /\ UNCHANGED <<clientVars, up, bulk, dials, fed, exSent, exAcked,
                   exAckedSent, inAll, losses>>

\* Every address refused, or timed out.
Refuses(i) ==
    /\ ex[i] = "pending"
    /\ ex' = [ex EXCEPT ![i] = "unknown"]
    /\ held' = [held EXCEPT ![i] = <<>>]
    /\ SendCtl(i, Frame("OPEN_ERR", 0))
    /\ UNCHANGED <<clientVars, up, bulk, dials, dst, fed, exSent, exAcked,
                   wrote, exAckedSent, inAll, losses>>

Blocked(i) ==
    ~(ExitInFlight(i) = 0 \/ (ExitInFlight(i) < Window /\ inAll < Total))

DstSends(i) ==
    /\ ex[i] = "open" /\ ~Blocked(i)
    /\ fed[i] < scene.down[i]
    /\ fed' = [fed EXCEPT ![i] = @ + 1]
    /\ exSent' = [exSent EXCEPT ![i] = @ + 1]
    /\ inAll' = inAll + 1
    /\ SendBulk(i, Frame("DATA", <<dials[i], fed[i] + 1>>))
    /\ UNCHANGED <<clientVars, up, ctl, ex, dials, held, dst, exAcked, wrote,
                   exAckedSent, losses>>

\* No ack for STALL_AFTER.
ExitStalled(i) ==
    /\ ex[i] = "open" /\ Blocked(i)
    /\ inAll' = inAll - ExitInFlight(i)
    /\ exAcked' = [exAcked EXCEPT ![i] = exSent[i]]
    /\ UNCHANGED <<clientVars, wire, ex, dials, held, dst, fed, exSent, wrote,
                   exAckedSent, losses>>

FlushAcks(i) ==
    /\ ex[i] = "open" /\ wrote[i] > exAckedSent[i]
    /\ exAckedSent' = [exAckedSent EXCEPT ![i] = wrote[i]]
    /\ SendCtl(i, Frame("ACK", wrote[i]))
    /\ UNCHANGED <<clientVars, up, bulk, ex, dials, held, dst, fed, exSent,
                   exAcked, wrote, inAll, losses>>

\* The destination ends the stream, or reapIdle does after idleTimeout.
ExitEnds(i) ==
    /\ ex[i] = "open"
    /\ CloseStream(i)
    /\ SendBulk(i, Frame("CLOSE", 0))
    /\ UNCHANGED <<clientVars, up, ctl, losses>>

-----------------------------------------------------------------------------
\* The carrier reconnects: what is under way is lost.
Reconnect ==
    /\ losses < scene.losses
    /\ losses' = losses + 1
    /\ up' = Each(<<>>) /\ ctl' = Each(<<>>) /\ bulk' = Each(<<>>)
    /\ UNCHANGED <<clientVars, exitVars>>

Caller(i) == \/ Dial(i) \/ OpenAgain(i) \/ DialReturns(i) \/ DialAbandoned(i)
             \/ Read(i) \/ Close(i) \/ CloseEnds(i)
Writer(i) == \/ Write(i) \/ WindowOpens(i) \/ WriterStalled(i) \/ WriteFails(i)
             \/ SendData(i) \/ CountSent(i)
Exit(i) == \/ ExitReceives(i) \/ Connects(i) \/ Refuses(i) \/ DstSends(i)
           \/ ExitStalled(i) \/ FlushAcks(i) \/ ExitEnds(i)

Next ==
    \/ SendAcks \/ MuxEnds \/ Reconnect
    \/ \E i \in Streams : Caller(i) \/ Writer(i) \/ Control(i) \/ Bulk(i) \/ Exit(i)

Spec == Init /\ [][Next]_muxVars

-----------------------------------------------------------------------------
TypeOK ==
    /\ app \in [Streams -> {"idle", "dialing", "open", "failed", "closing", "closed"}]
    /\ known \subseteq Streams /\ ackQ \subseteq Streams
    /\ writer \in [Streams -> {"none", "waiting", "free", "sent"}]
    /\ ex \in [Streams -> {"unknown", "pending", "open"}]
    /\ totalUp \in Nat /\ inAll \in Nat

Less(p, q) == p[1] < q[1] \/ (p[1] = q[1] /\ p[2] < q[2])
Rising(s) == \A j \in 1..Len(s), k \in 1..Len(s) : j < k => Less(s[j], s[k])
Whole(s) == \A j \in 1..Len(s) : s[j] = <<1, j>>

\* A stream is a stream: what its application reads, and what its
\* destination gets, comes once and in order, with no hole unless the
\* carrier lost something ("a lost byte inside a TLS record breaks the
\* handshake", mux.go:187), and is of one connection unless the exit was
\* made to dial again for a stream it had closed.
StreamsWhole ==
    \A i \in Streams :
        LET in == got[i] \o rbuf[i]
        IN  /\ Rising(in) /\ Rising(dst[i])
            /\ losses = 0 /\ dials[i] = 1 => Whole(in) /\ Whole(dst[i])

\* The frames of S sent and not acknowledged.
UnderWay(S, from, to) == UNION {{i} \X ((from[i] + 1)..to[i]) : i \in S}

\* No more is under way than the windows let, and what counts it is exact:
\* totalUp over the streams there are (mux.go:67), inAll at the exit.  A
\* Close that meets a Write under way leaves a frame in totalUp for ever:
\* fcSent counts it after fcForget has gone (mux.go:417, 440).
WindowsKept ==
    /\ \A i \in Streams : InFlight(i) <= Window /\ ExitInFlight(i) <= Window
    /\ ~raced /\ ~dead => totalUp = Cardinality(UnderWay(known, acked, sent))
    /\ inAll = Cardinality(UnderWay(Streams, exAcked, exSent))

-----------------------------------------------------------------------------
\* Why: what is under way continues what has come.  Each part is about one
\* direction of one stream.

Pairs == Nat \X Nat
UpFrames == [type : {"OPEN", "DATA", "ACK", "CLOSE"}, val : Nat]
CtlFrames == [type : {"OPEN_OK", "OPEN_ERR", "ACK"}, val : Nat]
BulkFrames == [type : {"DATA"}, val : Pairs] \union [type : {"CLOSE"}, val : {0}]

\* Frames b from the dth connection's destination, of which f were read, behind in.
Incoming(in, b, d, f) ==
    /\ in \in Seq(Pairs) /\ b \in Seq(BulkFrames) /\ d \in Nat /\ f \in Nat
    /\ Rising(in)
    /\ \A j \in 1..Len(in) : Less(in[j], <<d, f + 1>>)
    /\ \A k \in 1..Len(b) : b[k].type = "DATA" =>
           Less(b[k].val, <<d, f + 1>>) /\ \A j \in 1..Len(in) : Less(in[j], b[k].val)
    /\ \A j \in 1..Len(b), k \in 1..Len(b) :
           j < k /\ b[j].type = "DATA" /\ b[k].type = "DATA" => Less(b[j].val, b[k].val)

\* The numbers of held frames h and of DATA of u go on from those of out, up to w.
Outgoing(u, h, out, d, w) ==
    /\ u \in Seq(UpFrames) /\ h \in Seq(Nat) /\ out \in Seq(Pairs) /\ d \in Nat /\ w \in Nat
    /\ \A j \in 1..Len(u), k \in 1..Len(u) :
           j < k /\ u[j].type = "DATA" /\ u[k].type = "DATA" => u[j].val < u[k].val
    /\ \A k \in 1..Len(u) : u[k].type = "DATA" =>
           /\ u[k].val \in 1..w
           /\ \A j \in 1..Len(h) : h[j] < u[k].val
           /\ \A j \in 1..Len(out) : out[j][2] < u[k].val
    /\ \A j \in 1..Len(h), k \in 1..Len(h) : j < k => h[j] < h[k]
    /\ \A k \in 1..Len(h) : h[k] \in 1..w /\ \A j \in 1..Len(out) : out[j][2] < h[k]
    /\ Rising(out)
    /\ \A j \in 1..Len(out) : out[j][1] <= d /\ out[j][2] <= w

\* Nothing lost, one connection: a client that takes what comes misses nothing,
Follows(in, b, f, e) ==
    /\ \A j \in 1..Len(b) :
           \/ b[j].type = "DATA" /\ b[j].val = <<1, Len(in) + j>>
           \/ b[j].type = "CLOSE" /\ j = Len(b) /\ e = "unknown"
    /\ e # "unknown" => f = Len(in) + Len(b)
\* and no more does a destination there is.
Reaches(u, h, out, w) ==
    /\ Len(out) + Len(h) <= w
    /\ \A j \in 1..Len(h) : h[j] = Len(out) + j
    /\ \A k \in 1..Len(u) : u[k].type = "DATA" => Len(out) + Len(h) < u[k].val
    /\ \A n \in (Len(out) + Len(h) + 1)..w :
           \E k \in 1..Len(u) : u[k].type = "DATA" /\ u[k].val = n

\* Before the exit dials there is nothing but OPENs, before Dial not even these.
Begun(i) ==
    /\ app[i] = "idle" =>
           /\ dials[i] = 0 /\ up[i] = <<>> /\ i \notin ackQ
           /\ i \notin known /\ sent[i] = 0
    /\ dials[i] = 0 =>
           /\ ex[i] = "unknown" /\ ctl[i] = <<>> /\ bulk[i] = <<>>
           /\ got[i] \o rbuf[i] = <<>> /\ dst[i] = <<>> /\ fed[i] = 0
           /\ app[i] \in {"idle", "dialing", "failed"} /\ answer[i] # "ok"
           /\ writer[i] = "none" /\ written[i] = 0
Complete(i) ==
    losses = 0 /\ dials[i] = 1 =>
        /\ Whole(got[i] \o rbuf[i]) /\ Whole(dst[i])
        /\ i \in known /\ ~eof[i] =>
               Follows(got[i] \o rbuf[i], bulk[i], fed[i], ex[i])
        /\ ex[i] # "unknown" => Reaches(up[i], held[i], dst[i], written[i])
\* A Write that may go leaves room for its frame.
Windowed(i) ==
    /\ acked[i] <= sent[i] /\ sent[i] - acked[i] <= Window
    /\ writer[i] \in {"free", "sent"} => sent[i] - acked[i] + 1 <= Window
    /\ exAcked[i] <= exSent[i] /\ exSent[i] - exAcked[i] <= Window
\* Only a stream of the map writes.
Attended(i) ==
    /\ ~raced /\ app[i] # "open" => writer[i] = "none"
    /\ ~dead /\ app[i] \in {"dialing", "open"} => i \in known
    /\ ~raced /\ ~dead /\ i \notin known => acked[i] = sent[i]

Typed ==
    /\ app \in [Streams -> {"idle", "dialing", "open", "failed", "closing", "closed"}]
    /\ known \subseteq Streams /\ ackQ \subseteq Streams
    /\ writer \in [Streams -> {"none", "waiting", "free", "sent"}]
    /\ answer \in [Streams -> {"none", "ok", "refused", "ended"}]
    /\ closed \in [Streams -> BOOLEAN] /\ eof \in [Streams -> BOOLEAN]
    /\ got \in [Streams -> Seq(Pairs)] /\ rbuf \in [Streams -> Seq(Pairs)]
    /\ written \in [Streams -> Nat] /\ sent \in [Streams -> Nat] /\ acked \in [Streams -> Nat]
    /\ consumed \in [Streams -> Nat] /\ ackedSent \in [Streams -> Nat]
    /\ up \in [Streams -> Seq(UpFrames)] /\ ctl \in [Streams -> Seq(CtlFrames)]
    /\ bulk \in [Streams -> Seq(BulkFrames)]
    /\ ex \in [Streams -> {"unknown", "pending", "open"}]
    /\ dials \in [Streams -> Nat] /\ held \in [Streams -> Seq(Nat)]
    /\ dst \in [Streams -> Seq(Pairs)] /\ fed \in [Streams -> Nat]
    /\ exSent \in [Streams -> Nat] /\ exAcked \in [Streams -> Nat]
    /\ wrote \in [Streams -> Nat] /\ exAckedSent \in [Streams -> Nat]
    /\ losses \in Nat
Continues(i) ==
    /\ Incoming(got[i] \o rbuf[i], bulk[i], dials[i], fed[i])
    /\ Outgoing(up[i], held[i], dst[i], dials[i], written[i])
    /\ ex[i] # "pending" => held[i] = <<>>
Counted ==
    /\ totalUp = Cardinality(UnderWay(Streams, acked, sent))
    /\ inAll = Cardinality(UnderWay(Streams, exAcked, exSent))
Sound(i) == Continues(i) /\ Begun(i) /\ Complete(i) /\ Windowed(i) /\ Attended(i)

IInv == Typed /\ Counted /\ \A i \in Streams : Sound(i)

\* Dial and Write return: a lost OPEN or its answer is asked for again, a
\* lost ack is not waited for longer than the code's patience (mux.go:127,
\* 377); and the exit does not keep for ever a stream whose client is gone
\* (mux.php:656).
Hanging ==
    \E i \in Streams :
        \/ app[i] \in {"dialing", "closing"} /\ opens[i] < scene.opens
        \/ writer[i] # "none"
        \/ i \notin known /\ ex[i] # "unknown"
NoneHangs == []<>~Hanging

Fairness ==
    /\ WF_muxVars(SendAcks)
    /\ \A i \in Streams :
         /\ WF_muxVars(OpenAgain(i)) /\ WF_muxVars(DialReturns(i))
         /\ WF_muxVars(CloseEnds(i)) /\ WF_muxVars(Control(i)) /\ WF_muxVars(Bulk(i))
         /\ WF_muxVars(WindowOpens(i) \/ WriterStalled(i) \/ WriteFails(i))
         /\ WF_muxVars(SendData(i) \/ CountSent(i))
         /\ WF_muxVars(ExitReceives(i)) /\ WF_muxVars(Connects(i) \/ Refuses(i))
         /\ WF_muxVars(ExitEnds(i)) /\ WF_muxVars(FlushAcks(i))
=============================================================================
