-------------------------------- MODULE KeyRing --------------------------------
\* How two peers that were set up apart come to understand each other:
\* which KDF context a record is sealed under (encrypted.go, kdfcontext.go)
\* and, in classic mode, which framing it is put in (codec.go). A client
\* runs two pipelines over one carrier, each with its own search: the
\* Session's, whose records go out bare, and the classic one, whose
\* records go out in frames.
\*
\* A peer of an older build knows one context, or one framing. The exit
\* may be restarted with another set-up. The carrier loses records, may
\* give one of them again and sends a byte of its own.
\*
\* One tick is a second; a client sends something every second. Taking the
\* keys and using them is one step here.
EXTENDS Naturals, Sequences, FiniteSets, SequencesExt

CONSTANTS
    Scenes,         \* what a behaviour may be about: see Init
    FirstRotate, RotateEvery,       \* contextFirstRotate, contextRotateEvery
    FirstFallback, FallbackEvery,   \* codecFirstFallback, codecFallbackEvery
    Window,         \* maxSeenNonces
    None

VARIABLES
    scene,    \* the client, the exits it meets one after another, the pipelines, what the carrier adds
    era,      \* which of the exits it is
    mine,     \* side -> its contexts, in the order they are derived
    keys,     \* side -> how many of its contexts have keys
    hand,     \* side -> a context has been taken from the pending ones and is being derived
    ring,     \* side, pipeline -> its keyRing
    codec,    \* side -> the CodecTransport of the classic pipeline
    wire,     \* side, pipeline -> the record it sent last, or None
    asked,    \* pipeline -> the exit has something to answer
    learned,  \* pipeline -> the exit it was that the client's ring follows, or 0
    kept,     \* a record the carrier has kept
    age,      \* records accepted since the kept one was, or None: the seen nonces
    others,   \* records delivered since the kept one was
    twice,    \* the kept one was delivered again while its nonce should be known
    sent      \* the pipelines the client has sent on in this second

keyringVars == <<scene, era, mine, keys, hand, ring, codec, wire, asked, learned, kept, age, others, twice, sent>>
replayVars == <<kept, age, others, twice>>

Sides == {"client", "exit"}
Other(s) == IF s = "client" THEN "exit" ELSE "client"

-----------------------------------------------------------------------------
\* KDFContexts: a carrier is [type, url, prio]

Placeholder == "http"

ContextURL(c) == c.type \notin {"cupsonline", "direct", "oneme"} /\ c.url \notin {"", Placeholder}

IsCups(url, specs) ==
    \/ \E c \in ToSet(specs) : c.type = "cupsonline" /\ c.url # "" /\ c.url = url
    \/ Len(specs) = 1 /\ specs[1].type = "cupsonline"

\* The carriers by priority; equal ones keep their order.
ByPriority(specs) ==
    LET before(i, j) == specs[i].prio > specs[j].prio \/ (specs[i].prio = specs[j].prio /\ i < j)
        rank(i) == Cardinality({j \in DOMAIN specs : before(j, i)}) + 1
    IN [r \in DOMAIN specs |-> specs[CHOOSE i \in DOMAIN specs : rank(i) = r]]

Primary(peer) ==
    LET named == SelectSeq(ByPriority(peer.specs), ContextURL)
    IN  CASE peer.explicit # "" -> peer.explicit
          [] peer.explicit = "" /\ peer.url \notin {"", Placeholder} /\ ~IsCups(peer.url, peer.specs) -> peer.url
          [] OTHER -> IF named = <<>> THEN Placeholder ELSE named[1].url

\* mutant
NotPlaceholder(peer) ==
    LET by == ByPriority(peer.specs)
    IN <<peer.url>> \o [i \in DOMAIN by |-> by[i].url] \o [i \in DOMAIN by |-> by[i].type]
Alternates(peer) ==
    LET by == ByPriority(peer.specs)
        urls == [i \in DOMAIN by |-> IF by[i].type \in {"direct", "oneme"} THEN "" ELSE by[i].url]
    IN <<Placeholder, peer.url>> \o urls \o [i \in DOMAIN by |-> by[i].type]

MaxContexts == 8
\* An older peer derives its one context by its own rule.
Contexts(peer) ==
    LET told == <<Primary(peer)>> \o SelectSeq(Alternates(peer), LAMBDA c : c # "")
        first == SelectSeq([i \in DOMAIN told |-> [at |-> i, c |-> told[i]]],
                           LAMBDA x : \A j \in 1..(x.at - 1) : told[j] # x.c)
        all == [i \in DOMAIN first |-> first[i].c]
    IN IF peer.one THEN <<Primary(peer)>> ELSE SubSeq(all, 1, IF Len(all) < MaxContexts THEN Len(all) ELSE MaxContexts)

Peer(s) == IF s = "client" THEN scene.client ELSE scene.exits[era]
Derived(s) == {mine[s][i] : i \in 1..keys[s]}
Pending(s) == keys[s] + (IF hand[s] THEN 1 ELSE 0) < Len(mine[s])

NewRing == [send |-> 1, locked |-> FALSE, left |-> None]
NewCodec(peer) == [batch |-> peer.batched, heard |-> FALSE, peer |-> None, left |-> None]

Init ==
    /\ scene \in Scenes
    /\ era = 1
    /\ mine = [s \in Sides |-> Contexts(Peer(s))]
    /\ keys = [s \in Sides |-> 1] /\ hand = [s \in Sides |-> FALSE]
    /\ ring = [s \in Sides |-> [p \in scene.pipes |-> NewRing]]
    /\ codec = [s \in Sides |-> NewCodec(Peer(s))]
    /\ wire = [s \in Sides |-> [p \in scene.pipes |-> None]]
    /\ asked = [p \in scene.pipes |-> FALSE]
    /\ learned = [p \in scene.pipes |-> 0]
    /\ kept = None /\ age = None /\ others = Window /\ twice = FALSE
    /\ sent = {}

Pipes == scene.pipes

-----------------------------------------------------------------------------
\* keyStore

Derive(s) == hand' = [hand EXCEPT ![s] = @ \/ keys[s] < Len(mine[s])]

\* deriveMore's goroutine: a context is taken, its keys are appended, until none is pending.
DeriveMore(s) ==
    /\ hand[s]
    /\ keys' = [keys EXCEPT ![s] = @ + 1]
    /\ hand' = [hand EXCEPT ![s] = keys[s] + 1 < Len(mine[s])]
    /\ UNCHANGED <<scene, era, mine, ring, codec, wire, asked, learned, replayVars, sent>>

-----------------------------------------------------------------------------
\* keyRing.sendKeys, CodecTransport.sendBatch

\* mutant
AnyTime(r) == TRUE
\* A ring that searches: the peer has not been heard, and there is something to try.
Searches(r) == ~r.locked

\* The client's ring after a send: it moves on when its time has come.
SearchedRing(p) ==
    LET r == ring["client"][p]
        n == keys["client"]
    IN  IF ~Searches(r) \/ (n = 1 /\ ~Pending("client")) THEN r
        ELSE IF r.left = None THEN [r EXCEPT !.left = FirstRotate]
        ELSE IF r.left > 0 THEN r
        ELSE [r EXCEPT !.left = RotateEvery, !.send = IF n > 1 THEN (@ % n) + 1 ELSE @]

\* The search asks for the other contexts' keys when it moves on.
AsksForKeys(p) == Searches(ring["client"][p]) /\ ring["client"][p].left = 0 /\ Pending("client")

\* mutant
OwnFraming(c) == c.batch
Framing(c) == IF c.peer = None THEN c.batch ELSE c.peer = "batch"

\* A build with one framing sends and reads that one.
Frames(s) == Peer(s).frames

\* The client's codec after a frame: it changes over while nothing is heard.
SwitchedCodec ==
    LET c == codec["client"]
    IN  IF c.peer # None \/ c.heard \/ Cardinality(Frames("client")) = 1 THEN c
        ELSE IF c.left = None THEN [c EXCEPT !.left = FirstFallback]
        ELSE IF c.left > 0 THEN c
        ELSE [c EXCEPT !.left = FallbackEvery, !.batch = ~@]

\* The framing a side's next frame has.
FrameOf(s, c) == IF Cardinality(Frames(s)) = 1 THEN CHOOSE f \in Frames(s) : TRUE
                 ELSE IF Framing(c) THEN "batch" ELSE "legacy"

Record(s, p, r, c) ==
    [ctx |-> mine[s][r.send], era |-> era, kept |-> FALSE,
     frame |-> IF p = "classic" THEN FrameOf(s, c) ELSE None]

\* The client sends on p: a record that is still on the way is lost.
ClientSends(p) ==
    /\ p \notin sent
    /\ sent' = sent \cup {p}
    /\ ring' = [ring EXCEPT !["client"][p] = SearchedRing(p)]
    /\ codec' = IF p = "classic" THEN [codec EXCEPT !["client"] = SwitchedCodec] ELSE codec
    /\ IF AsksForKeys(p) THEN Derive("client") ELSE UNCHANGED hand
    /\ wire' = [wire EXCEPT !["client"][p] = Record("client", p, ring'["client"][p], codec'["client"])]
    /\ UNCHANGED <<scene, era, mine, keys, asked, learned, replayVars>>

\* The exit answers under the context the client used last; it never searches.
ExitSends(p) ==
    /\ asked[p]
    /\ asked' = [asked EXCEPT ![p] = FALSE]
    /\ wire' = [wire EXCEPT !["exit"][p] = Record("exit", p, ring["exit"][p], codec["exit"])]
    /\ UNCHANGED <<scene, era, mine, keys, hand, ring, codec, learned, replayVars, sent>>

Less(left) == IF left = None \/ left = 0 THEN left ELSE left - 1

\* A second passes; the client has sent in it.
Second ==
    /\ sent = Pipes
    /\ sent' = {}
    /\ ring' = [ring EXCEPT !["client"] = [p \in Pipes |-> [@[p] EXCEPT !.left = Less(@)]]]
    /\ codec' = [codec EXCEPT !["client"].left = Less(@)]
    /\ UNCHANGED <<scene, era, mine, keys, hand, wire, asked, learned, replayVars>>

\* contextUnlockAfter: a client that hears nothing for so long tries the others
\* again. Nothing is on its way for so long.
Silence(p) ==
    /\ ring["client"][p].locked /\ wire["exit"][p] = None /\ ~asked[p]
    /\ ring' = [ring EXCEPT !["client"][p] = [@ EXCEPT !.locked = FALSE, !.left = None]]
    /\ UNCHANGED <<scene, era, mine, keys, hand, codec, wire, asked, learned, replayVars, sent>>

-----------------------------------------------------------------------------
\* Receive

\* mutant
CountsAll(f) == f # None
\* A lone byte is the carrier's own and says nothing of the peer.
Counts(f) == f \in {"batch", "legacy"}

\* The codec of s has been given a frame.
Heard(s, f) ==
    IF Counts(f) /\ Cardinality(Frames(s)) > 1
    THEN [codec EXCEPT ![s].heard = TRUE, ![s].peer = IF f = "batch" \/ @ = "batch" THEN "batch" ELSE "legacy"]
    ELSE codec

Decodes(s, f) == f = None \/ f \in Frames(s)

\* mutant
ExitStays(s, r, i) == [r EXCEPT !.locked = TRUE, !.send = IF s = "exit" THEN @ ELSE i]
\* adopt
Adopt(s, r, i) == [r EXCEPT !.send = i, !.locked = TRUE]

\* The rings told by an accepted record: the client's pipelines reach one exit.
Told(s, p) == IF s = "client" THEN Pipes ELSE {p}

\* accepted
Accept(s, p, rec) ==
    LET i == CHOOSE j \in 1..keys[s] : mine[s][j] = rec.ctx
    IN  /\ ring' = [ring EXCEPT ![s] = [q \in Pipes |-> IF q \in Told(s, p) THEN Adopt(s, @[q], i) ELSE @[q]]]
        /\ IF s = "exit" THEN asked' = [asked EXCEPT ![p] = TRUE] /\ UNCHANGED learned
           ELSE learned' = [q \in Pipes |-> IF q \in Told(s, p) THEN rec.era ELSE learned[q]] /\ UNCHANGED asked

\* mutant
ForgetsOne(n) == n + 1 = Window
\* The oldest nonce goes when there are more of them than that.
Forgotten(n) == n = Window

\* rememberNonce of a record that is not the kept one
Remember ==
    /\ age' = IF age = None THEN None ELSE IF Forgotten(age + 1) THEN None ELSE age + 1
    /\ others' = IF others = Window THEN Window ELSE others + 1
    /\ UNCHANGED <<kept, twice>>

\* The ring the kept record is for remembers it; another ring has its own nonces.
ForKept(s, p) == kept # None /\ kept.side = Other(s) /\ kept.pipe = p

\* A record of the other side arrives at s.
Received(s, p, rec) ==
    /\ codec' = IF p = "classic" THEN Heard(s, rec.frame) ELSE codec
    /\ IF rec.frame = "alone" \/ ~Decodes(s, rec.frame) THEN UNCHANGED <<hand, ring, asked, learned, age, others, twice>>
       ELSE IF rec.ctx \notin Derived(s)
       THEN Derive(s) /\ UNCHANGED <<ring, asked, learned, age, others, twice>>
       ELSE IF rec.kept /\ age # None
       THEN UNCHANGED <<hand, ring, asked, learned, age, others, twice>>
       ELSE /\ Accept(s, p, rec)
            /\ IF rec.kept THEN age' = 0 /\ others' = 0 /\ twice' = (twice \/ others < Window)
               ELSE IF ForKept(s, p) THEN Remember ELSE UNCHANGED <<age, others, twice>>
            /\ UNCHANGED hand

Deliver(s, p) ==
    /\ wire[Other(s)][p] # None
    /\ Received(s, p, wire[Other(s)][p])
    /\ wire' = [wire EXCEPT ![Other(s)][p] = None]
    /\ UNCHANGED <<scene, era, mine, keys, kept, sent>>

-----------------------------------------------------------------------------
\* The carrier and the exit's operator

\* The carrier keeps a record it carries, and may give it at any later time.
Keep(s, p) ==
    /\ "replay" \in scene.extras /\ kept = None /\ wire[s][p] # None /\ wire[s][p].frame # "alone"
    /\ wire' = [wire EXCEPT ![s][p].kept = TRUE]
    /\ kept' = [side |-> s, pipe |-> p, rec |-> wire'[s][p]]
    /\ UNCHANGED <<scene, era, mine, keys, hand, ring, codec, asked, learned, age, others, twice, sent>>

Again ==
    /\ kept # None
    /\ Received(Other(kept.side), kept.pipe, kept.rec)
    /\ UNCHANGED <<scene, era, mine, keys, wire, kept, sent>>

\* A byte of the carrier's own (Volga sends one through its relay).
Keepalive(s) ==
    /\ "keepalive" \in scene.extras /\ "classic" \in Pipes /\ wire[s]["classic"] = None
    /\ wire' = [wire EXCEPT ![s]["classic"] = [ctx |-> Placeholder, era |-> era, kept |-> FALSE, frame |-> "alone"]]
    /\ UNCHANGED <<scene, era, mine, keys, hand, ring, codec, asked, learned, replayVars, sent>>

\* The exit's core ends and another comes up in its place.
Restart ==
    /\ era < Len(scene.exits)
    /\ era' = era + 1
    /\ mine' = [mine EXCEPT !["exit"] = Contexts(scene.exits[era + 1])]
    /\ keys' = [keys EXCEPT !["exit"] = 1] /\ hand' = [hand EXCEPT !["exit"] = FALSE]
    /\ ring' = [ring EXCEPT !["exit"] = [p \in Pipes |-> NewRing]]
    /\ codec' = [codec EXCEPT !["exit"] = NewCodec(scene.exits[era + 1])]
    /\ asked' = [p \in Pipes |-> FALSE]
    /\ IF kept # None /\ kept.side = "client" THEN age' = None /\ others' = Window ELSE UNCHANGED <<age, others>>
    /\ UNCHANGED <<scene, wire, learned, kept, twice, sent>>

Next ==
    \/ \E s \in Sides : DeriveMore(s) \/ Keepalive(s)
    \/ \E p \in Pipes : ClientSends(p) \/ ExitSends(p) \/ Silence(p)
    \/ \E s \in Sides, p \in Pipes : Deliver(s, p) \/ Keep(s, p)
    \/ Second \/ Again \/ Restart

\* What the exit can read is sent again and again, and one of them arrives; a client
\* that hears nothing from this exit comes to its two minutes.
Readable(p) ==
    LET rec == wire["client"][p]
    IN rec # None /\ rec.ctx \in ToSet(mine["exit"]) /\ Decodes("exit", rec.frame)
Unheard(p) == learned[p] # era /\ Silence(p)

Scheduled ==
    /\ \A s \in Sides : WF_keyringVars(DeriveMore(s))
    /\ WF_keyringVars(Second)
    /\ \A p \in {"session", "classic"} :
        /\ WF_keyringVars(p \in Pipes /\ ClientSends(p))
        /\ WF_keyringVars(p \in Pipes /\ ExitSends(p))
        /\ WF_keyringVars(p \in Pipes /\ Unheard(p))
        /\ WF_keyringVars(p \in Pipes /\ Deliver("client", p))
        /\ SF_keyringVars(p \in Pipes /\ Readable(p) /\ Deliver("exit", p))

Spec == Init /\ [][Next]_keyringVars /\ Scheduled

-----------------------------------------------------------------------------

TypeOK ==
    /\ era \in DOMAIN scene.exits
    /\ \A s \in Sides :
        /\ keys[s] \in 1..Len(mine[s]) /\ (hand[s] => keys[s] < Len(mine[s]))
        /\ \A p \in Pipes : ring[s][p].send \in 1..keys[s] /\ ring[s][p].left \in {None} \cup 0..FirstRotate
        /\ codec[s].peer \in {None, "batch", "legacy"} /\ codec[s].left \in {None} \cup 0..FirstFallback
    /\ age \in {None} \cup 0..Window /\ others \in 0..Window

\* What the exit that is there now has sent, the client has the keys for: it
\* answers under a context the client has spoken under, not under its own.
AnswersReadable ==
    \A p \in Pipes : LET a == wire["exit"][p]
                     IN a # None /\ a.era = era /\ a.frame # "alone" => a.ctx \in Derived("client") /\ Decodes("client", a.frame)

\* A client that has learned a context from this exit and is still locked to it
\* sends what this exit can open, on each of its pipelines.
LearnedHolds ==
    \A p \in Pipes : ring["client"][p].locked /\ learned[p] = era
                     => mine["client"][ring["client"][p].send] \in Derived("exit")

\* A pipeline of the client that heard the peer's frames sends frames the peer decodes.
FramingHolds == codec["client"].peer # None => FrameOf("client", codec["client"]) \in Frames("exit")

\* A nonce is known until Window others have been.
OnceEach == ~twice

Understandable == AnswersReadable /\ LearnedHolds /\ FramingHolds /\ OnceEach

\* The peers can understand each other: two of this build always do, one of an
\* older one must derive a context this one tries, and read one of its framings.
Match(p) ==
    LET c == scene.client
        x == scene.exits[era]
    IN  /\ (~c.one /\ ~x.one) \/ ToSet(mine["client"]) \cap ToSet(mine["exit"]) # {}
        /\ p = "classic" => c.frames \cap x.frames # {}

\* The client has not heard this exit on p, nor learned of it from its other pipeline.
Unknown == \E p \in Pipes : Match(p) /\ learned[p] # era

\* Peers that can understand each other come to do so.
Understood == []<>~Unknown

=============================================================================
