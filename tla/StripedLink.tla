---------------------------- MODULE StripedLink ----------------------------
\* One direction of a striped link (transport/striped.go): the sender cuts
\* frames into pieces, spreads them over lanes that lose packets, resends
\* what the receiver's acks do not cover; the receiver puts the pieces in
\* order, gives up on holes, and joins the pieces to frames again.
\*
\* Sequence numbers are counters modulo Modulus compared by the sign of
\* their difference, as uint32 are; both rings have Ring slots.  A lane is
\* a queue that loses what it likes; lanes overtake one another, and so do
\* acks.
\*
\* A pull of several pieces is several pulls in a row here.  Which lane a
\* lane's clock, pace, window and health let send is left open, as are the
\* times at which a piece counts as overdue; so which lane an ack credits
\* does not matter, and it is left out.  Frames that are dropped before
\* they are cut (queue limit, CoDel) are not handed to the link.
EXTENDS Integers, Sequences, SequencesExt, FiniteSetsExt

CONSTANTS
  Lanes,      \* the child transports
  Ring,       \* txRingSize, and reorderWindow
  Modulus,    \* how many sequence numbers there are (2^32)
  AckRuns,    \* ackMaxRuns
  Starts,     \* first sequence numbers of a sender (mrand.Uint32)
  Sizes,      \* Sizes[f]: how many pieces frame f is cut into
  Restarts,   \* how often the sender may be started anew (a bound)
  Patience,   \* may outages be short (TRUE), may they be long (FALSE)
  Laggards,   \* a lane may deliver a piece that Ring later ones have overtaken
  LaneBound,  \* pieces under way on a lane (a bound)
  AckBound,   \* acks under way (a bound)
  None        \* no piece, no frame

ASSUME RingAssumption ==
  /\ Ring \in Nat \ {0} /\ Modulus \in Nat
  /\ Modulus % Ring = 0 /\ Modulus >= 8 * Ring
  /\ Starts \subseteq 0..Modulus - 1
  /\ Sizes \in Seq(Nat \ {0})
  /\ AckRuns \in Nat /\ Patience \subseteq BOOLEAN /\ Laggards \in BOOLEAN

VARIABLES
  patient,    \* no outage outlasts a deadline in this behaviour
  taken,      \* frames cut so far
  cut,        \* pieces of the last of them that were sent
  first,      \* history: the first number of this run of the sender
  seq, low,   \* sender: last number handed out, lowest not acked
  tx,         \* sender.ring: tx[i] is a piece in flight, or None
  resend,     \* rtxQ: numbers to send again
  restarts,   \* how often the sender was started anew
  lanes,      \* lanes[l]: what is under way on lane l, oldest first
  acks,       \* acks under way
  started, next, hi,  \* reorderBuffer's fields of that name
  rx,         \* reorderBuffer.ring: rx[i] is a piece that waits, or None
  gap,        \* gapNext
  news,       \* gen # lastGen: something came in since the last ack
  asm,        \* the pieces of a frame that are there, or None
  out,        \* history: what was delivered, in order
  jumped      \* history: pieces were passed over without waiting for them

senderVars == <<taken, cut, first, seq, low, tx, resend, restarts>>
receiverVars == <<started, next, hi, rx, gap, news, asm, out, jumped>>
vars == <<patient, senderVars, lanes, acks, receiverVars>>

-----------------------------------------------------------------------------
\* Sequence numbers.

PlusUnbounded(a, k) == a + k                                      \* mutant
Plus(a, k) == (a + k) % Modulus

\* int32(a - b)
Diff(a, b) == LET d == (a - b) % Modulus
              IN IF d < Modulus \div 2 THEN d ELSE d - Modulus

\* uint32(a - b)
Ahead(a, b) == (a - b) % Modulus

Before(a, b) == Diff(a, b) < 0

\* from, from + 1, ... up to the one before to; none if to is not ahead.
Stretch(from, to) == {Plus(from, k) : k \in 0..Diff(to, from) - 1}

\* The first of the numbers in the set.
First(set) == CHOOSE s \in set : \A t \in set : ~Before(t, s)

Slot(s) == s % Ring

At(ring, s) == ring[Slot(s)] # None /\ ring[Slot(s)].seq = s

Empty == [i \in 0..Ring - 1 |-> None]

Init ==
  /\ patient \in Patience
  /\ taken = 0 /\ cut = 0
  /\ seq \in Starts /\ low = Plus(seq, 1) /\ first = low
  /\ tx = Empty /\ resend = {} /\ restarts = 0
  /\ lanes = [l \in Lanes |-> <<>>]
  /\ acks = {}
  /\ started = FALSE /\ next = 0 /\ hi = 0 /\ rx = Empty
  /\ gap = FALSE /\ news = FALSE
  /\ asm = None /\ out = <<>> /\ jumped = FALSE

-----------------------------------------------------------------------------
\* The sender.

InFlight == {s \in Stretch(low, Plus(seq, 1)) : At(tx, s)}

Room(l) == Len(lanes[l]) < LaneBound

\* The piece leaves; if the lane loses it, it does so here.
Put(l, p) == lanes' \in {lanes, [lanes EXCEPT ![l] = Append(@, p)]}

\* pull: first what has to be sent again ...
Resend(l) ==
  \E s \in resend :
    /\ Room(l)
    /\ At(tx, s)
    /\ Put(l, tx[Slot(s)])
    /\ resend' = resend \ {s}
    /\ UNCHANGED <<patient, taken, cut, first, seq, low, tx, restarts, acks, receiverVars>>

\* ... then new pieces, while the ring has room for them.
FullRingLate == Ahead(Plus(seq, 1), low) > Ring                   \* mutant
FullRing == Ahead(Plus(seq, 1), low) >= Ring

SendNew(l) ==
  LET whole == taken = 0 \/ cut = Sizes[taken]
      f == IF whole THEN taken + 1 ELSE taken
      k == IF whole THEN 1 ELSE cut + 1
      s == Plus(seq, 1)
      p == [seq |-> s, low |-> low, frame |-> f, part |-> k]
  IN
  /\ Room(l)
  /\ f \in DOMAIN Sizes
  /\ ~FullRing
  /\ taken' = f /\ cut' = k /\ seq' = s
  /\ tx' = [tx EXCEPT ![Slot(s)] = p]
  /\ Put(l, p)
  /\ UNCHANGED <<patient, first, low, resend, restarts, acks, receiverVars>>

\* duplicates and copies: a spare copy of a piece in flight.
Copy(l) ==
  \E s \in InFlight \ resend :
    /\ Room(l)
    /\ Put(l, tx[Slot(s)])
    /\ UNCHANGED <<patient, senderVars, acks, receiverVars>>

\* detectLocked, with what is left of tx: some pieces are given up, some are
\* overdue, and low moves to the first one in flight.
Detect(ring) ==
  \E given \in SUBSET (IF patient THEN {} ELSE {s \in InFlight : At(ring, s)}) :
    LET left == [i \in DOMAIN ring |->
                   IF ring[i] # None /\ ring[i].seq \in given THEN None ELSE ring[i]]
        live == {s \in InFlight : At(left, s)}
    IN
    /\ tx' = left
    /\ \E overdue \in SUBSET (live \ resend) : resend' = (resend \cap live) \cup overdue
    /\ low' = First(live \cup {Plus(seq, 1)})

DetectLoss ==
  /\ Detect(tx)
  /\ UNCHANGED <<patient, taken, cut, first, seq, restarts, lanes, acks, receiverVars>>

AnyAck(a) == TRUE                                                 \* mutant

\* onAck: an ack about other numbers than those in flight does not count.
Sane(a) ==
  /\ Diff(a.cum, low) >= -Ring /\ Diff(a.cum, low) <= Ahead(Plus(seq, 1), low)
  /\ Diff(a.hi, low) >= -Ring - 1 /\ Diff(a.hi, low) < Ahead(Plus(seq, 1), low)

CoverAll(a) == {s \in InFlight : ~Before(a.hi, s)}                \* mutant
Covered(a) == {s \in InFlight : Before(s, a.cum)
                                  \/ (~Before(a.hi, s) /\ s \notin a.missing)}

OnAck ==
  \E a \in acks :
    /\ acks' = acks \ {a}
    /\ IF Sane(a)
         THEN Detect([i \in DOMAIN tx |-> IF tx[i] # None /\ tx[i].seq \in Covered(a)
                                            THEN None ELSE tx[i]])
         ELSE UNCHANGED <<tx, resend, low>>
    /\ UNCHANGED <<patient, taken, cut, first, seq, restarts, lanes, receiverVars>>

\* The sender's process is started anew, at a number far from the last one. The
\* pieces that were under way are gone by then; acks of the old run are not.
Restart ==
  /\ restarts < Restarts
  /\ restarts' = restarts + 1
  /\ seq' = Plus(seq, Modulus \div 2)
  /\ low' = Plus(seq', 1) /\ first' = low'
  /\ tx' = Empty /\ resend' = {}
  /\ cut' = IF taken = 0 THEN 0 ELSE Sizes[taken]
  /\ lanes' = [l \in Lanes |-> <<>>]
  /\ UNCHANGED <<patient, taken, acks, receiverVars>>

-----------------------------------------------------------------------------
\* The receiver.

\* deliverPiece: a gap voids the frame that is being joined.
NotVoided(a, after) == a                                          \* mutant
Voided(a, after) == IF after THEN None ELSE a

DeliverPiece(d, p, after) ==
  LET a == Voided(d.asm, after)
      last == p.part = Sizes[p.frame]
  IN
  IF p.part = 1
    THEN IF last THEN [asm |-> a, out |-> Append(d.out, <<p>>)]
                 ELSE [asm |-> <<p>>, out |-> d.out]
  ELSE IF a = None THEN [asm |-> None, out |-> d.out]
  ELSE IF last THEN [asm |-> None, out |-> Append(d.out, Append(a, p))]
  ELSE [asm |-> Append(a, p), out |-> d.out]

\* The reorder buffer and what follows it, as a record.
Buffer == [started |-> started, next |-> next, hi |-> hi, rx |-> rx, gap |-> gap,
           news |-> news, asm |-> asm, out |-> out, jumped |-> jumped]

Becomes(r) ==
  /\ started' = r.started /\ next' = r.next /\ hi' = r.hi /\ rx' = r.rx
  /\ gap' = r.gap /\ news' = r.news
  /\ asm' = r.asm /\ out' = r.out /\ jumped' = r.jumped

\* drainLocked: the pieces from next on that are there are delivered.
Drain(r) ==
  LET n == Min({i \in 0..Ring : i = Ring \/ ~At(r.rx, Plus(r.next, i))})
      run == [i \in 1..n |-> r.rx[Slot(Plus(r.next, i - 1))]]
      Step(d, p) == DeliverPiece(d, p, r.gap /\ p = run[1])
      d == FoldLeft(Step, [asm |-> r.asm, out |-> r.out], run)
  IN [r EXCEPT !.rx = [i \in DOMAIN @ |-> IF @[i] \in ToSet(run) THEN None ELSE @[i]],
               !.next = Plus(@, n), !.gap = @ /\ n = 0,
               !.asm = d.asm, !.out = d.out]

\* lowestLocked: the first number that waits, or limit.
Lowest(r, limit) == First({s \in Stretch(r.next, limit) : At(r.rx, s)} \cup {limit})

\* skipToLocked
SkipTo(r, s) ==
  Drain(IF Before(r.next, s)
          THEN [r EXCEPT !.gap = TRUE, !.next = s, !.news = TRUE] ELSE r)

\* push: the oldest holes are given up until s fits into the window.
PassHole(b, s) == IF Ahead(s, b.next) >= Ring THEN SkipTo(b, Lowest(b, s)) ELSE b

MakeRoom(r, s) ==
  LET room[i \in 0..Ring + 1] == IF i = 0 THEN r ELSE PassHole(room[i - 1], s)
  IN room[Ring + 1]

\* startAt: at the sender's low mark, or, too far from it, where we are.
StartAt(r, p) ==
  LET from == IF Ahead(p.seq, p.low) < Ring \div 2 THEN p.low ELSE p.seq
  IN [r EXCEPT !.next = from, !.hi = Plus(from, Modulus - 1),
               !.jumped = @ \/ from # p.low]

\* push, a first piece, or one that is nowhere near the window (resyncLocked).
Started(r, p) ==
  IF ~r.started
    THEN StartAt([r EXCEPT !.started = TRUE], p)
  ELSE IF Diff(p.seq, r.next) \in -Ring .. 2 * Ring - 1
    THEN r
    ELSE StartAt([r EXCEPT !.rx = Empty, !.gap = TRUE], p)

NeverLate(p, r) == FALSE                                          \* mutant
Late(p, r) == Before(p.seq, r.next)

\* push: the piece is filed, unless it is late or there already.
File(r, p) ==
  IF Late(p, r) THEN r
  ELSE LET b == MakeRoom(r, p.seq)
       IN IF At(b.rx, p.seq) THEN b
          ELSE Drain([b EXCEPT !.rx[Slot(p.seq)] = p,
                               !.hi = IF Before(@, p.seq) THEN p.seq ELSE @])

\* gen counts every piece, the late and the double ones too.
HeardNew(r, p) == IF Late(p, r) THEN r ELSE [r EXCEPT !.news = TRUE] \* mutant
Heard(r, p) == [r EXCEPT !.news = TRUE]

\* onLane and push. A lane that does not lag has dropped a piece that Ring later
\* ones have overtaken.
Receive(l) ==
  /\ lanes[l] # <<>>
  /\ LET p == Head(lanes[l])
     IN IF Laggards \/ Ahead(seq, p.seq) < Ring
          THEN Becomes(File(Heard(Started(Buffer, p), p), p))
          ELSE UNCHANGED receiverVars
  /\ lanes' = [lanes EXCEPT ![l] = Tail(@)]
  /\ UNCHANGED <<patient, senderVars, acks>>

Holding == \E i \in DOMAIN rx : rx[i] # None

\* run: the piece after the oldest hole has waited longer than holeDeadline.
GiveUpHole ==
  /\ ~patient
  /\ Holding
  /\ Becomes(SkipTo(Buffer, Lowest(Buffer, Plus(next, Ring))))
  /\ UNCHANGED <<patient, senderVars, lanes, acks>>

\* ackFrame: no more than AckRuns runs of missing numbers are listed, and the
\* ack reports no further than they reach.
Missing == {s \in Stretch(next, hi) : ~At(rx, s)}
RunStarts == {s \in Missing : s = next \/ Plus(s, Modulus - 1) \notin Missing}
Unlisted == {s \in RunStarts : Cardinality({t \in RunStarts : Before(t, s)}) >= AckRuns}

ReachAll == IF Before(hi, next) THEN Plus(next, Modulus - 1) ELSE hi  \* mutant

Reach == IF Before(hi, next) THEN Plus(next, Modulus - 1)
         ELSE IF Unlisted = {} THEN hi
         ELSE Plus(First(Unlisted), Modulus - 1)

Ack == [cum |-> next, hi |-> Reach,
        missing |-> {s \in Missing : \A t \in Unlisted : Before(s, t)}]

\* ackLoop: when something came in, and now and then while a hole is open. The
\* ack may get lost.
SendAck ==
  /\ started
  /\ news \/ Holding
  /\ Cardinality(acks) < AckBound
  /\ acks' \in {acks, acks \cup {Ack}}
  /\ news' = FALSE
  /\ UNCHANGED <<patient, senderVars, lanes, started, next, hi, rx, gap, asm, out,
                 jumped>>

-----------------------------------------------------------------------------
Next ==
  \/ \E l \in Lanes : Resend(l) \/ SendNew(l) \/ Copy(l) \/ Receive(l)
  \/ DetectLoss \/ OnAck \/ Restart \/ GiveUpHole \/ SendAck

Spec == Init /\ [][Next]_vars

\* Lanes have their turns and lossLoop and ackLoop tick; no piece is lost every
\* time it is sent, nor is every ack. What is under way arrives, what is overdue is
\* noticed, and run looks at the oldest hole. Of the pieces it is enough to say this
\* of the oldest in flight, low. (The last four are said of what the step does: only
\* Receive shortens a lane while the sender runs, only OnAck takes an ack, only
\* Detect adds to resend, and only GiveUpHole moves next while the lanes rest.)
SentAgain == low \in resend /\ (\E l \in Lanes : Resend(l)) /\ low \notin resend' /\ lanes' # lanes
Arrival(l) == lanes[l] # <<>> /\ lanes' = [lanes EXCEPT ![l] = Tail(@)]
Answer == \E a \in acks : acks' = acks \ {a}
Noticed == low \in InFlight \ resend /\ resend' \in SUBSET InFlight /\ low \in resend'
HolePassed == ~patient /\ Holding /\ next' \in 0..Modulus - 1 /\ UNCHANGED lanes

FairSpec ==
  /\ Spec
  /\ WF_vars(\E l \in Lanes : SendNew(l)) /\ SF_vars(SentAgain)
  /\ SF_vars(SendAck /\ acks' # acks)
  /\ \A l \in Lanes : WF_lanes(Arrival(l))
  /\ WF_acks(Answer) /\ WF_resend(Noticed) /\ WF_next(HolePassed)

-----------------------------------------------------------------------------
\* Properties.

Numbers == 0..Modulus - 1

Piece == [seq : Numbers, low : Numbers, frame : DOMAIN Sizes, part : Nat \ {0}]

TypeOK ==
  /\ taken \in 0..Len(Sizes) /\ seq \in Numbers /\ low \in Numbers
  /\ tx \in [0..Ring - 1 -> Piece \cup {None}]
  /\ resend \subseteq InFlight
  /\ next \in Numbers /\ hi \in Numbers
  /\ rx \in [0..Ring - 1 -> Piece \cup {None}]
  /\ \A i \in 0..Ring - 1 : rx[i] # None => Ahead(rx[i].seq, next) \in 0..Ring - 1
  /\ gap \in BOOLEAN /\ news \in BOOLEAN /\ jumped \in BOOLEAN

\* What is handed up is whole frames: the pieces of one frame, all of them, in
\* order, whatever was lost, skipped or sent twice.  (deliverPiece, gapNext.)
FramesWhole ==
  \A i \in 1..Len(out) :
    /\ Len(out[i]) = Sizes[out[i][1].frame]
    /\ \A k \in 1..Len(out[i]) : /\ out[i][k].frame = out[i][1].frame
                                 /\ out[i][k].part = k

\* Frames come out in order, none twice: the link implements FrameLink.
Link == INSTANCE FrameLink WITH
          taken <- taken, out <- [i \in 1..Len(out) |-> out[i][1].frame]

InOrder == Link!Spec

\* A piece the sender has let go of arrived, unless somebody's patience ended:
\* acks never cover what they do not say they miss, however they are truncated,
\* delayed or overtaken.  (ackFrame, onAck.)
LetGo == Stretch(first, Plus(seq, 1)) \ InFlight

Arrived(s) == started /\ (Diff(s, next) \in -(Modulus \div 4)..-1 \/ At(rx, s))

AckedArrived == patient /\ ~jumped => \A s \in LetGo : Arrived(s)

\* A piece in flight keeps its slot until it was acked or given up.  (pull.)
NothingOverwritten ==
  [][\A i \in 0..Ring - 1 :
       tx[i] # None /\ tx'[i] # None /\ tx'[i] # tx[i] => restarts' # restarts]_vars

\* While no deadline passes, every frame gets through in the end.
Lossless ==
  \A f \in DOMAIN Sizes :
    patient /\ taken >= f ~> jumped \/ restarts > 0 \/ \E i \in 1..Len(out) : out[i][1].frame = f

\* What is in flight does not stay there for ever: the sender gets its answer, or
\* gives up.
Settles == InFlight # {} ~> InFlight = {}

-----------------------------------------------------------------------------
\* Values for TLC.

\* More pieces than the smaller ring has slots, frames that can get mixed up.
TwoFrames == <<2, 2>>

\* Two runs of missing numbers fit below the last of them.
FourPieces == <<1, 3>>

\* Enough pieces to overtake one by more than the larger ring.
SmallFrames == <<1, 1, 1, 1, 1, 1>>

\* The lanes are interchangeable.
Symmetric == Permutations(Lanes)
=============================================================================
