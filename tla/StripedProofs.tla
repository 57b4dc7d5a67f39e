--------------------------- MODULE StripedProofs ---------------------------
\* For any rings, lanes, frames and numbers of a link: what is in flight
\* keeps its slot, and the variables of both ends have their types, the
\* window of the receiver among them, whatever the lanes lose, double or
\* overtake and whichever end loses its patience.
EXTENDS StripedLink, TLAPS, FiniteSetTheorems, WellFoundedInduction

Half == Modulus \div 2

LEMMA Constants ==
  /\ Ring \in Nat /\ Ring >= 1 /\ Modulus \in Nat /\ Modulus >= 8 * Ring
  /\ Half \in Nat /\ Half >= 4 * Ring /\ Half <= Modulus - Half /\ Modulus - Half <= Half + 1
  /\ Numbers \subseteq Nat /\ \A a \in Int : a \in Numbers <=> a >= 0 /\ a < Modulus
BY RingAssumption DEF RingAssumption, Half, Numbers

LEMMA Amounts ==
  /\ Ring \in Int /\ Ring >= 1 /\ Modulus \in Int /\ Modulus >= 8 * Ring
  /\ Half \in Int /\ Half >= 4 * Ring /\ Ring < Half /\ Half < Modulus
BY Constants

\* What is left of a number that is at most one turn off.
LEMMA Turn ==
  ASSUME NEW x \in Int, -Modulus <= x, x < 2 * Modulus
  PROVE  x % Modulus = IF x < 0 THEN x + Modulus ELSE IF x < Modulus THEN x ELSE x - Modulus
<1> DEFINE q == x \div Modulus
           m == x % Modulus
<1>1. q \in Int /\ m \in Int /\ 0 <= m /\ m < Modulus /\ x = (Modulus * q) + m
  BY Constants
<1> HIDE DEF q, m
<1>2. CASE q <= -2
  <2>1. Modulus * q <= Modulus * (-2)
    BY <1>1, <1>2, Constants
  <2>. QED  BY <1>1, <2>1, Constants
<1>3. CASE q >= 2
  <2>1. Modulus * q >= Modulus * 2
    BY <1>1, <1>3, Constants
  <2>. QED  BY <1>1, <2>1, Constants
<1>4. CASE q \in {-1, 0, 1}
  <2>1. m = IF x < 0 THEN x + Modulus ELSE IF x < Modulus THEN x ELSE x - Modulus
    BY <1>1, <1>4, Constants
  <2>. QED  BY <2>1 DEF m
<1>. QED  BY <1>1, <1>2, <1>3, <1>4

LEMMA AheadIs ==
  ASSUME NEW a \in Numbers, NEW b \in Numbers
  PROVE  /\ Ahead(a, b) = IF b <= a THEN a - b ELSE a - b + Modulus
         /\ Ahead(a, b) \in Numbers /\ Ahead(a, b) \in Nat /\ Ahead(a, b) < Modulus
<1> DEFINE x == a - b
<1>1. a \in Int /\ b \in Int /\ 0 <= a /\ a < Modulus /\ 0 <= b /\ b < Modulus
  BY Constants
<1>2. x \in Int /\ -Modulus <= x /\ x < Modulus
  BY <1>1, Constants
<1>3. Ahead(a, b) = x % Modulus
  BY DEF Ahead
<1> HIDE DEF x
<1>4. Ahead(a, b) = IF x < 0 THEN x + Modulus ELSE IF x < Modulus THEN x ELSE x - Modulus
  BY <1>2, <1>3, Turn, Constants
<1>5. Ahead(a, b) = IF x < 0 THEN x + Modulus ELSE x
  BY <1>2, <1>4
<1>. QED  BY <1>1, <1>2, <1>5, Constants DEF x

LEMMA PlusIs ==
  ASSUME NEW a \in Numbers, NEW k \in Nat, k <= Modulus
  PROVE  /\ Plus(a, k) = IF a + k < Modulus THEN a + k ELSE a + k - Modulus
         /\ Plus(a, k) \in Numbers
<1> DEFINE x == a + k
<1>1. a \in Int /\ 0 <= a /\ a < Modulus
  BY Constants
<1>2. x \in Int /\ 0 <= x /\ x < 2 * Modulus
  BY <1>1, Constants
<1>3. Plus(a, k) = x % Modulus
  BY DEF Plus
<1> HIDE DEF x
<1>4. Plus(a, k) = IF x < 0 THEN x + Modulus ELSE IF x < Modulus THEN x ELSE x - Modulus
  BY <1>2, <1>3, Turn, Constants
<1>5. Plus(a, k) = IF x < Modulus THEN x ELSE x - Modulus
  BY <1>2, <1>4
<1>. QED  BY <1>1, <1>2, <1>5, Constants DEF x

LEMMA DiffIs ==
  ASSUME NEW a \in Numbers, NEW b \in Numbers
  PROVE  /\ Diff(a, b) = IF Ahead(a, b) < Half THEN Ahead(a, b) ELSE Ahead(a, b) - Modulus
         /\ Diff(a, b) \in Int
         /\ Before(a, b) <=> Ahead(a, b) >= Half
<1>1. Diff(a, b) = IF Ahead(a, b) < Half THEN Ahead(a, b) ELSE Ahead(a, b) - Modulus
  BY DEF Diff, Ahead, Half
<1>2. Ahead(a, b) \in Nat /\ Ahead(a, b) < Modulus
  BY AheadIs
<1>. QED  BY <1>1, <1>2, Constants DEF Before

LEMMA SelfAhead ==
  ASSUME NEW a \in Numbers
  PROVE  Ahead(a, a) = 0
<1>1. a <= a /\ a - a = 0
  BY Constants
<1>. QED  BY <1>1, AheadIs

LEMMA PlusAhead ==
  ASSUME NEW a \in Numbers, NEW k \in Nat, k < Modulus
  PROVE  Ahead(Plus(a, k), a) = k
<1>1. Plus(a, k) \in Numbers /\ Plus(a, k) = IF a + k < Modulus THEN a + k ELSE a + k - Modulus
  BY PlusIs, Constants
<1> DEFINE b == Plus(a, k)
<1> HIDE DEF b
<1>2. b \in Numbers /\ b = IF a + k < Modulus THEN a + k ELSE a + k - Modulus
  BY <1>1 DEF b
<1>3. Ahead(b, a) = IF a <= b THEN b - a ELSE b - a + Modulus
  BY <1>2, AheadIs
<1>4. Ahead(b, a) = k
  BY <1>2, <1>3, Constants
<1>. QED  BY <1>4 DEF b

LEMMA AheadPlus ==
  ASSUME NEW a \in Numbers, NEW b \in Numbers
  PROVE  Plus(b, Ahead(a, b)) = a
<1> DEFINE k == Ahead(a, b)
<1>1. k \in Nat /\ k < Modulus /\ k = IF b <= a THEN a - b ELSE a - b + Modulus
  BY AheadIs
<1> HIDE DEF k
<1>2. Plus(b, k) = IF b + k < Modulus THEN b + k ELSE b + k - Modulus
  BY <1>1, PlusIs, Constants
<1>3. Plus(b, k) = a
  BY <1>1, <1>2, Constants
<1>. QED  BY <1>3 DEF k

\* Seen from c, b is not behind a: then a is as far ahead of b as the distances say.
LEMMA AheadFrom ==
  ASSUME NEW a \in Numbers, NEW b \in Numbers, NEW c \in Numbers, Ahead(b, c) <= Ahead(a, c)
  PROVE  Ahead(a, b) = Ahead(a, c) - Ahead(b, c)
<1>1. /\ Ahead(a, b) = IF b <= a THEN a - b ELSE a - b + Modulus
      /\ Ahead(a, c) = IF c <= a THEN a - c ELSE a - c + Modulus
      /\ Ahead(b, c) = IF c <= b THEN b - c ELSE b - c + Modulus
  BY AheadIs
<1>2. a \in Int /\ b \in Int /\ c \in Int /\ 0 <= a /\ a < Modulus /\ 0 <= b /\ b < Modulus
      /\ 0 <= c /\ c < Modulus
  BY Constants
<1>. QED  BY <1>1, <1>2, Constants

LEMMA SameAhead ==
  ASSUME NEW a \in Numbers, NEW b \in Numbers, NEW c \in Numbers, Ahead(a, c) = Ahead(b, c)
  PROVE  a = b
<1>1. Plus(c, Ahead(a, c)) = a /\ Plus(c, Ahead(b, c)) = b
  BY AheadPlus
<1>. QED  BY <1>1

\* Numbers within half a turn of c are ordered as their distances from c are.
LEMMA BeforeFrom ==
  ASSUME NEW a \in Numbers, NEW b \in Numbers, NEW c \in Numbers,
         Ahead(a, c) < 4 * Ring, Ahead(b, c) < 4 * Ring
  PROVE  Before(a, b) <=> Ahead(a, c) < Ahead(b, c)
<1>1. Before(a, b) <=> Ahead(a, b) >= Half
  BY DiffIs
<1>5. Ahead(a, c) \in Nat /\ Ahead(b, c) \in Nat
  BY AheadIs
<1>7. /\ Ahead(a, b) = IF b <= a THEN a - b ELSE a - b + Modulus
      /\ Ahead(b, a) = IF a <= b THEN b - a ELSE b - a + Modulus
      /\ a \in Int /\ b \in Int
  BY AheadIs, Constants
<1>4. CASE Ahead(b, c) <= Ahead(a, c)
  <2>1. Ahead(a, b) = Ahead(a, c) - Ahead(b, c)
    BY <1>4, AheadFrom
  <2>. QED  BY <1>1, <1>4, <2>1, <1>5, Constants
<1>6. CASE Ahead(a, c) < Ahead(b, c)
  <2>1. Ahead(b, a) = Ahead(b, c) - Ahead(a, c)
    BY <1>5, <1>6, AheadFrom
  <2>2. Ahead(a, b) = Modulus - Ahead(b, a)
    BY <1>5, <1>6, <2>1, <1>7, Constants
  <2>. QED  BY <1>1, <1>5, <1>6, <2>1, <2>2, Constants
<1>. QED  BY <1>4, <1>5, <1>6

\* The numbers of a stretch are those less far ahead than its end.
LEMMA InStretch ==
  ASSUME NEW a \in Numbers, NEW b \in Numbers, Ahead(b, a) < Half
  PROVE  /\ Stretch(a, b) \subseteq Numbers
         /\ \A s \in Numbers : s \in Stretch(a, b) <=> Ahead(s, a) < Ahead(b, a)
<1>1. Diff(b, a) = Ahead(b, a) /\ Ahead(b, a) \in Nat /\ Ahead(b, a) < Modulus
  BY DiffIs, AheadIs, Constants
<1>2. ASSUME NEW k \in 0..Diff(b, a) - 1
      PROVE  Plus(a, k) \in Numbers /\ Ahead(Plus(a, k), a) = k
  BY <1>1, <1>2, PlusIs, PlusAhead, Constants
<1>3. ASSUME NEW s \in Numbers, Ahead(s, a) < Ahead(b, a)
      PROVE  s \in Stretch(a, b)
  <2>1. Ahead(s, a) \in 0..Diff(b, a) - 1
    BY <1>1, <1>3, AheadIs
  <2>2. s = Plus(a, Ahead(s, a))
    BY AheadPlus
  <2>. QED  BY <2>1, <2>2 DEF Stretch
<1>4. ASSUME NEW s \in Stretch(a, b)
      PROVE  s \in Numbers /\ Ahead(s, a) < Ahead(b, a)
  <2>1. PICK k \in 0..Diff(b, a) - 1 : s = Plus(a, k)
    BY DEF Stretch
  <2>. QED  BY <1>1, <1>2, <2>1
<1>. QED  BY <1>3, <1>4

\* Two numbers less than a ring's length ahead of a third have different slots.
LEMMA SlotsApart ==
  ASSUME NEW a \in Numbers, NEW b \in Numbers, NEW c \in Numbers,
         Ahead(a, c) < Ring, Ahead(b, c) < Ring, Slot(a) = Slot(b)
  PROVE  a = b
<1> DEFINE p == a \div Ring
           q == b \div Ring
           t == Modulus \div Ring
<1>0. a \in Int /\ b \in Int /\ c \in Int /\ 0 <= a /\ a < Modulus /\ 0 <= b /\ b < Modulus
      /\ 0 <= c /\ c < Modulus
  BY Constants
<1>1. p \in Int /\ q \in Int /\ t \in Int
  BY <1>0, Constants
<1>2. a = (Ring * p) + (a % Ring) /\ b = (Ring * q) + (b % Ring)
  BY Constants
<1>3. Modulus = Ring * t
  BY Constants, RingAssumption DEF RingAssumption
<1> HIDE DEF p, q, t
<1>4. a - b = Ring * (p - q)
  BY <1>1, <1>2, Constants DEF Slot
<1>5. a - b + Modulus = Ring * ((p - q) + t) /\ a - b - Modulus = Ring * ((p - q) - t)
  BY <1>1, <1>3, <1>4, Constants
<1>6. \/ a - b < Ring /\ -Ring < a - b
      \/ a - b + Modulus < Ring /\ -Ring < a - b + Modulus
      \/ a - b - Modulus < Ring /\ -Ring < a - b - Modulus
  <2>1. /\ Ahead(a, c) = IF c <= a THEN a - c ELSE a - c + Modulus
        /\ Ahead(b, c) = IF c <= b THEN b - c ELSE b - c + Modulus
    BY AheadIs
  <2>. QED  BY <1>0, <2>1, Constants
<1>7. ASSUME NEW k \in Int, Ring * k < Ring, -Ring < Ring * k PROVE k = 0
  <2>1. CASE k >= 1
    <3>1. Ring * k >= Ring
      BY <2>1, Constants
    <3>. QED  BY <1>7, <3>1, Constants
  <2>2. CASE k <= -1
    <3>1. Ring * k <= -Ring
      BY <2>2, Constants
    <3>. QED  BY <1>7, <3>1, Constants
  <2>. QED  BY <2>1, <2>2
<1>8. a - b = 0 \/ a - b + Modulus = 0 \/ a - b - Modulus = 0
  <2> DEFINE u == p - q
             v == (p - q) + t
             w == (p - q) - t
  <2>4. u \in Int /\ v \in Int /\ w \in Int
    BY <1>1
  <2>5. a - b = Ring * u /\ a - b + Modulus = Ring * v /\ a - b - Modulus = Ring * w
    BY <1>4, <1>5
  <2> HIDE DEF u, v, w
  <2>6. Ring * 0 = 0
    BY Constants
  <2>0. \A k \in Int : Ring * k < Ring /\ -Ring < Ring * k => k = 0
    BY <1>7
  <2>1. CASE a - b < Ring /\ -Ring < a - b
    BY <2>4, <2>5, <2>6, <2>0, <2>1
  <2>2. CASE a - b + Modulus < Ring /\ -Ring < a - b + Modulus
    BY <2>4, <2>5, <2>6, <2>0, <2>2
  <2>3. CASE a - b - Modulus < Ring /\ -Ring < a - b - Modulus
    BY <2>4, <2>5, <2>6, <2>0, <2>3
  <2>. QED  BY <1>6, <2>1, <2>2, <2>3
<1>. QED  BY <1>0, <1>8, Constants

LEMMA SlotInRing ==
  ASSUME NEW a \in Numbers
  PROVE  Slot(a) \in 0..Ring - 1
BY Constants DEF Slot

\* A set of natural numbers has a least one.
LEMMA Least ==
  ASSUME NEW S, S \subseteq Nat, S # {}
  PROVE  \E m \in S : \A k \in S : m <= k
<1> DEFINE R == OpToRel(<, Nat)
<1>1. \A x, y \in Nat : x < y => <<x, y>> \in R
  BY DEF OpToRel
<1>2. IsWellFoundedOn(R, Nat)
  BY NatLessThanWellFounded
<1> HIDE DEF R
<1>3. \E m \in S : \A k \in S : ~(<<k, m>> \in R)
  BY <1>2, WFMin
<1>4. PICK m \in S : \A k \in S : ~(<<k, m>> \in R)
  BY <1>3
<1>5. \A k \in S : ~(k < m)
  BY <1>1, <1>4
<1>. QED  BY <1>4, <1>5

\* Induction over the naturals, said of a set.
LEMMA Climb ==
  ASSUME NEW T, 0 \in T, \A n \in Nat : n \in T => n + 1 \in T
  PROVE  \A n \in Nat : n \in T
<1> SUFFICES ASSUME NEW n \in Nat, n \notin T PROVE FALSE
  OBVIOUS
<1>1. PICK m \in Nat \ T : \A k \in Nat \ T : m <= k
  BY Least
<1>2. m # 0 /\ m - 1 \in Nat
  BY <1>1
<1>3. m - 1 \in T
  BY <1>1, <1>2
<1>. QED  BY <1>1, <1>2, <1>3

\* The first of a set of numbers not far ahead of c is the one nearest to c.
LEMMA FirstIs ==
  ASSUME NEW S, S \subseteq Numbers, S # {}, NEW c \in Numbers,
         \A s \in S : Ahead(s, c) < 4 * Ring
  PROVE  First(S) \in S /\ \A t \in S : Ahead(First(S), c) <= Ahead(t, c)
<1> DEFINE D == {Ahead(s, c) : s \in S}
<1>1. \A s \in S : Ahead(s, c) \in Nat
  BY AheadIs
<1>2. PICK m \in D : \A k \in D : m <= k
  BY <1>1, Least
<1>3. PICK f \in S : m = Ahead(f, c)
  BY <1>2
<1>4. \A s, t \in S : Before(t, s) <=> Ahead(t, c) < Ahead(s, c)
  BY BeforeFrom
<1>5. ASSUME NEW t \in S PROVE ~Before(t, f)
  <2>1. Ahead(f, c) <= Ahead(t, c)
    BY <1>2, <1>3
  <2>. QED  BY <1>1, <1>4, <2>1
<1>6. First(S) \in S /\ \A t \in S : ~Before(t, First(S))
  BY <1>5 DEF First
<1>. QED  BY <1>1, <1>4, <1>6

-----------------------------------------------------------------------------
\* The invariant.

Span == Ahead(Plus(seq, 1), low)

\* The pieces of the sender's ring are numbered from low to seq, each in its slot.
Queued ==
  /\ taken \in 0..Len(Sizes) /\ cut \in Nat /\ restarts \in Nat
  /\ seq \in Numbers /\ low \in Numbers
  /\ tx \in [0..Ring - 1 -> Piece \cup {None}]
  /\ Span <= Ring
  /\ \A i \in 0..Ring - 1 : tx[i] # None => Slot(tx[i].seq) = i /\ Ahead(tx[i].seq, low) < Span

SenderInv == Queued /\ resend \subseteq InFlight

LanesInv == lanes \in [Lanes -> Seq(Piece)]

-----------------------------------------------------------------------------
\* The sender.

LEMMA NextAhead ==
  ASSUME NEW a \in Numbers, NEW c \in Numbers, Ahead(a, c) < Modulus - 1
  PROVE  Plus(a, 1) \in Numbers /\ Ahead(Plus(a, 1), c) = Ahead(a, c) + 1
<1> DEFINE b == Plus(a, 1)
<1>1. b \in Numbers /\ b = IF a + 1 < Modulus THEN a + 1 ELSE a + 1 - Modulus
  BY PlusIs, Constants
<1> HIDE DEF b
<1>2. /\ Ahead(b, c) = IF c <= b THEN b - c ELSE b - c + Modulus
      /\ Ahead(a, c) = IF c <= a THEN a - c ELSE a - c + Modulus
  BY <1>1, AheadIs
<1>4. a \in Int /\ b \in Int /\ c \in Int /\ 0 <= a /\ a < Modulus /\ 0 <= c /\ c < Modulus
  BY <1>1, Constants
<1>3. Ahead(b, c) = Ahead(a, c) + 1
  BY <1>1, <1>2, <1>4, Amounts
<1>. QED  BY <1>1, <1>3 DEF b

LEMMA SpanIs ==
  ASSUME Queued
  PROVE  /\ Plus(seq, 1) \in Numbers /\ Span \in Nat /\ Span <= Ring /\ Span < Half
         /\ Stretch(low, Plus(seq, 1)) \subseteq Numbers
         /\ \A s \in Numbers : s \in Stretch(low, Plus(seq, 1)) <=> Ahead(s, low) < Span
<1>1. seq \in Numbers /\ low \in Numbers /\ Span <= Ring
  BY DEF Queued
<1>2. Plus(seq, 1) \in Numbers
  BY <1>1, PlusIs, Constants
<1>3. Span \in Nat /\ Span < Half
  <2>1. Span \in Nat
    BY <1>1, <1>2, AheadIs DEF Span
  <2>. QED  BY <1>1, <2>1, Amounts
<1>. QED  BY <1>1, <1>2, <1>3, InStretch DEF Span

\* What is in flight is what the ring holds.
LEMMA FlightIs ==
  ASSUME Queued
  PROVE  /\ InFlight \subseteq Numbers
         /\ \A s \in Numbers : s \in InFlight <=> Ahead(s, low) < Span /\ At(tx, s)
         /\ \A i \in 0..Ring - 1 : tx[i] # None =>
              tx[i] \in Piece /\ tx[i].seq \in InFlight /\ Slot(tx[i].seq) = i
<1>1. /\ Stretch(low, Plus(seq, 1)) \subseteq Numbers
      /\ \A s \in Numbers : s \in Stretch(low, Plus(seq, 1)) <=> Ahead(s, low) < Span
  BY SpanIs
<1>2. InFlight \subseteq Numbers /\ \A s \in Numbers : s \in InFlight <=> Ahead(s, low) < Span /\ At(tx, s)
  BY <1>1 DEF InFlight
<1>3. ASSUME NEW i \in 0..Ring - 1, tx[i] # None
      PROVE  tx[i] \in Piece /\ tx[i].seq \in InFlight /\ Slot(tx[i].seq) = i
  <2>1. tx[i] \in Piece /\ Slot(tx[i].seq) = i /\ Ahead(tx[i].seq, low) < Span
    BY <1>3 DEF Queued
  <2>2. tx[i].seq \in Numbers
    BY <2>1 DEF Piece
  <2>3. At(tx, tx[i].seq)
    BY <1>3, <2>1 DEF At
  <2>. QED  BY <1>2, <2>1, <2>2, <2>3
<1>. QED  BY <1>2, <1>3

LEMMA FlightAfter ==
  ASSUME Queued'
  PROVE  \A s \in Numbers : Ahead(s, low') < Span' /\ At(tx', s) => s \in InFlight'
<1>1. seq' \in Numbers /\ low' \in Numbers /\ Span' <= Ring
  BY DEF Queued
<1> DEFINE end == Plus(seq', 1)
<1>2. end \in Numbers /\ Span' = Ahead(end, low')
  BY <1>1, PlusIs, Constants DEF Span
<1> HIDE DEF end
<1>3. Ahead(end, low') < Half
  <2>1. Ahead(end, low') \in Nat
    BY <1>1, <1>2, AheadIs
  <2>. QED  BY <1>1, <1>2, <2>1, Amounts
<1>4. \A s \in Numbers : s \in Stretch(low', end) <=> Ahead(s, low') < Span'
  BY <1>1, <1>2, <1>3, InStretch
<1>. QED  BY <1>4 DEF InFlight, end

\* Whatever is let go, low moves to the first piece in flight, and none moves.
LEMMA DetectKeeps ==
  ASSUME Queued, UNCHANGED <<taken, cut, seq, restarts>>,
         NEW ring \in [0..Ring - 1 -> Piece \cup {None}],
         \A i \in 0..Ring - 1 : ring[i] # None => ring[i] = tx[i],
         Detect(ring)
  PROVE  SenderInv' /\ \A i \in 0..Ring - 1 : tx'[i] # None => tx'[i] = tx[i]
<1> DEFINE Left(given) == [i \in DOMAIN ring |->
                             IF ring[i] # None /\ ring[i].seq \in given THEN None ELSE ring[i]]
           Live(given) == {s \in InFlight : At(Left(given), s)}
<1>1. PICK given : /\ tx' = Left(given)
                   /\ \E overdue \in SUBSET (Live(given) \ resend) :
                        resend' = (resend \cap Live(given)) \cup overdue
                   /\ low' = First(Live(given) \cup {Plus(seq, 1)})
  BY DEF Detect
<1> DEFINE live == Live(given)
           end == Plus(seq, 1)
<1>2. tx' \in [0..Ring - 1 -> Piece \cup {None}] /\ \A i \in 0..Ring - 1 : tx'[i] # None => tx'[i] = tx[i]
  BY <1>1
<1>3. live = {s \in InFlight : At(tx', s)} /\ resend' \subseteq live /\ low' = First(live \cup {end})
  BY <1>1
<1> HIDE DEF Left, Live, live
<1>4. end \in Numbers /\ low \in Numbers /\ seq \in Numbers /\ Ahead(end, low) = Span
  BY SpanIs DEF Queued, Span
<1>5. /\ live \subseteq Numbers /\ \A s \in live : Ahead(s, low) < Span /\ At(tx', s)
      /\ \A i \in 0..Ring - 1 : tx'[i] # None => tx'[i].seq \in live /\ Slot(tx'[i].seq) = i
  <2>1. live \subseteq Numbers /\ \A s \in live : Ahead(s, low) < Span /\ At(tx', s)
    BY <1>3, FlightIs
  <2>2. ASSUME NEW i \in 0..Ring - 1, tx'[i] # None
        PROVE  tx'[i].seq \in live /\ Slot(tx'[i].seq) = i
    <3>1. tx'[i] = tx[i] /\ tx[i].seq \in InFlight /\ Slot(tx[i].seq) = i
      BY <1>2, <2>2, FlightIs
    <3>. QED  BY <1>3, <2>2, <3>1 DEF At
  <2>. QED  BY <2>1, <2>2
<1>6. Span \in Nat /\ Span <= Ring
  BY SpanIs
<1>7. \A s \in live \cup {end} : s \in Numbers /\ Ahead(s, low) \in Nat /\ Ahead(s, low) <= Span
  BY <1>4, <1>5, <1>6, AheadIs
<1>8. low' \in Numbers /\ \A s \in live \cup {end} : Ahead(low', low) <= Ahead(s, low)
  <2>1. \A s \in live \cup {end} : Ahead(s, low) < 4 * Ring
    BY <1>6, <1>7, Constants
  <2>2. /\ low' \in live \cup {end}
        /\ \A s \in live \cup {end} : Ahead(low', low) <= Ahead(s, low)
    BY <1>3, <1>4, <1>7, <2>1, FirstIs
  <2>. QED  BY <1>7, <2>2
<1>9. Ahead(low', low) \in Nat
  BY <1>4, <1>8, AheadIs
<1>10. \A s \in live \cup {end} : Ahead(s, low') = Ahead(s, low) - Ahead(low', low)
  BY <1>4, <1>7, <1>8, AheadFrom
<1>11. Span' = Span - Ahead(low', low) /\ Span' \in Nat /\ Span' <= Ring
  <2>1. Span' = Ahead(end, low')
    BY DEF Span
  <2>2. Span' = Span - Ahead(low', low)
    BY <1>4, <1>10, <2>1
  <2>3. Ahead(low', low) <= Span
    BY <1>4, <1>8
  <2>. QED  BY <1>6, <1>9, <2>2, <2>3, Amounts
<1>12. Queued'
  <2>1. (taken \in 0..Len(Sizes) /\ cut \in Nat /\ restarts \in Nat /\ seq \in Numbers)'
    BY DEF Queued
  <2>2. ASSUME NEW i \in 0..Ring - 1, tx'[i] # None
        PROVE  Slot(tx'[i].seq) = i /\ Ahead(tx'[i].seq, low') < Span'
    <3>1. tx'[i].seq \in live /\ Slot(tx'[i].seq) = i
      BY <1>5, <2>2
    <3>. QED  BY <1>5, <1>7, <1>9, <1>10, <1>11, <1>6, <3>1
  <2>. QED  BY <1>2, <1>8, <1>11, <2>1, <2>2 DEF Queued
<1>13. resend' \subseteq InFlight'
  <2>1. ASSUME NEW s \in live PROVE s \in InFlight'
    <3>1. s \in Numbers /\ At(tx', s) /\ Ahead(s, low') < Span'
      BY <1>5, <1>6, <1>7, <1>9, <1>10, <1>11
    <3>. QED  BY <1>12, <3>1, FlightAfter
  <2>. QED  BY <1>3, <2>1
<1>. QED  BY <1>2, <1>12, <1>13 DEF SenderInv

LEMMA PutKeeps ==
  ASSUME LanesInv, NEW l \in Lanes, NEW p \in Piece, Put(l, p)
  PROVE  LanesInv'
<1>1. lanes[l] \in Seq(Piece)
  BY DEF LanesInv
<1>2. Append(lanes[l], p) \in Seq(Piece)
  BY <1>1
<1>. QED  BY <1>2 DEF LanesInv, Put

\* A new piece gets a slot that is free: fewer than Ring numbers are in flight.
LEMMA SendNewKeeps ==
  ASSUME SenderInv, LanesInv, NEW l \in Lanes, SendNew(l)
  PROVE  /\ SenderInv' /\ LanesInv'
         /\ \A i \in 0..Ring - 1 : tx[i] # None => tx'[i] = tx[i]
<1> DEFINE whole == taken = 0 \/ cut = Sizes[taken]
           f == IF whole THEN taken + 1 ELSE taken
           k == IF whole THEN 1 ELSE cut + 1
           s == Plus(seq, 1)
           p == [seq |-> s, low |-> low, frame |-> f, part |-> k]
<1>1. /\ f \in DOMAIN Sizes /\ ~FullRing
      /\ taken' = f /\ cut' = k /\ seq' = s /\ low' = low /\ resend' = resend
      /\ tx' = [tx EXCEPT ![Slot(s)] = p]
      /\ Put(l, p)
  BY DEF SendNew
<1>2. Queued /\ seq \in Numbers /\ low \in Numbers /\ taken \in Nat /\ cut \in Nat
  BY RingAssumption DEF SenderInv, Queued, RingAssumption
<1>3. s \in Numbers /\ Span \in Nat /\ Ahead(s, low) = Span /\ Span < Ring
  <2>1. Ring \in Int
    BY Amounts
  <2>. QED  BY <1>1, <1>2, <2>1, SpanIs DEF FullRing, Span
<1>4. f \in 1..Len(Sizes) /\ k \in Nat \ {0} /\ Len(Sizes) \in Nat
  <2>1. DOMAIN Sizes = 1..Len(Sizes) /\ Len(Sizes) \in Nat
    BY RingAssumption DEF RingAssumption
  <2>. QED  BY <1>1, <1>2, <2>1
<1>5. p \in Piece
  <2>1. f \in DOMAIN Sizes
    BY <1>1
  <2>. QED  BY <1>2, <1>3, <1>4, <2>1 DEF Piece
<1>6. Slot(s) \in 0..Ring - 1
  BY <1>3, SlotInRing
<1>7. p.seq = s
  OBVIOUS
<1> HIDE DEF whole, f, k, p
<1>8. Span' = Span + 1
  <2>1. Ahead(s, low) < Modulus - 1
    BY <1>3, Amounts
  <2>2. Ahead(Plus(s, 1), low) = Span + 1
    BY <1>2, <1>3, <2>1, NextAhead
  <2>. QED  BY <1>1, <2>2 DEF Span
<1> HIDE DEF s
<1>9. ASSUME NEW i \in 0..Ring - 1, tx[i] # None PROVE i # Slot(s)
  <2>1. /\ tx[i].seq \in Numbers /\ Slot(tx[i].seq) = i /\ Ahead(tx[i].seq, low) < Span
    BY <1>2, <1>9, FlightIs DEF Queued
  <2>2. Ahead(tx[i].seq, low) \in Nat /\ Ahead(tx[i].seq, low) < Ring /\ Ahead(s, low) < Ring
    BY <1>2, <1>3, <2>1, AheadIs, Amounts
  <2>3. tx[i].seq # s
    BY <1>3, <2>1
  <2>. QED  BY <1>2, <1>3, <2>1, <2>2, <2>3, SlotsApart
<1>10. \A i \in 0..Ring - 1 : tx[i] # None => tx'[i] = tx[i]
  BY <1>1, <1>2, <1>9 DEF Queued
<1>11. Queued'
  <2>1. taken' \in 0..Len(Sizes) /\ cut' \in Nat /\ restarts' \in Nat /\ seq' \in Numbers /\ low' \in Numbers
    BY <1>1, <1>2, <1>3, <1>4 DEF Queued, SendNew
  <2>2. tx' \in [0..Ring - 1 -> Piece \cup {None}]
    BY <1>1, <1>2, <1>5 DEF Queued
  <2>3. Span' <= Ring
    BY <1>3, <1>8, Amounts
  <2>4. ASSUME NEW i \in 0..Ring - 1, tx'[i] # None
        PROVE  Slot(tx'[i].seq) = i /\ Ahead(tx'[i].seq, low') < Span'
    <3>1. CASE i = Slot(s)
      <4>1. tx'[i] = p
        BY <1>1, <1>2, <1>6, <3>1 DEF Queued
      <4>. QED  BY <1>1, <1>3, <1>7, <1>8, <3>1, <4>1
    <3>2. CASE i # Slot(s)
      <4>1. tx'[i] = tx[i]
        BY <1>1, <1>2, <3>2 DEF Queued
      <4>2. Slot(tx[i].seq) = i /\ Ahead(tx[i].seq, low) < Span /\ tx[i].seq \in Numbers
        BY <1>2, <2>4, <4>1, FlightIs DEF Queued
      <4>3. Ahead(tx[i].seq, low) \in Nat
        BY <1>2, <4>2, AheadIs
      <4>. QED  BY <1>1, <1>3, <1>8, <4>1, <4>2, <4>3
    <3>. QED  BY <3>1, <3>2
  <2>. QED  BY <2>1, <2>2, <2>3, <2>4 DEF Queued
<1>12. resend' \subseteq InFlight'
  <2>1. ASSUME NEW t \in resend PROVE t \in InFlight'
    <3>1. t \in Numbers /\ Ahead(t, low) < Span /\ At(tx, t)
      BY <1>2, FlightIs DEF SenderInv
    <3>2. Slot(t) \in 0..Ring - 1 /\ Ahead(t, low) \in Nat
      BY <1>2, <3>1, SlotInRing, AheadIs
    <3>3. At(tx', t)
      BY <1>10, <3>1, <3>2 DEF At
    <3>4. Ahead(t, low') < Span'
      BY <1>1, <1>3, <1>8, <3>1, <3>2
    <3>. QED  BY <1>11, <3>1, <3>3, <3>4, FlightAfter
  <2>. QED  BY <1>1, <2>1
<1>13. LanesInv'
  BY <1>1, <1>5, PutKeeps
<1>. QED  BY <1>10, <1>11, <1>12, <1>13 DEF SenderInv

\* A piece that is sent again or copied is one in flight.
LEMMA FlightIsPiece ==
  ASSUME SenderInv, NEW s \in InFlight
  PROVE  tx[Slot(s)] \in Piece
<1>1. Queued /\ s \in Numbers /\ At(tx, s)
  BY FlightIs DEF SenderInv
<1>2. Slot(s) \in 0..Ring - 1
  BY <1>1, SlotInRing
<1>. QED  BY <1>1, <1>2 DEF Queued, At

LEMMA OnAckKeeps ==
  ASSUME SenderInv, OnAck
  PROVE  SenderInv' /\ \A i \in 0..Ring - 1 : tx'[i] # None => tx'[i] = tx[i]
<1>1. PICK a \in acks :
        /\ IF Sane(a)
             THEN Detect([i \in DOMAIN tx |-> IF tx[i] # None /\ tx[i].seq \in Covered(a)
                                                THEN None ELSE tx[i]])
             ELSE UNCHANGED <<tx, resend, low>>
        /\ UNCHANGED <<patient, taken, cut, first, seq, restarts, lanes, receiverVars>>
  BY DEF OnAck
<1>2. CASE Sane(a)
  <2> DEFINE ring == [i \in DOMAIN tx |-> IF tx[i] # None /\ tx[i].seq \in Covered(a)
                                            THEN None ELSE tx[i]]
  <2>1. ring \in [0..Ring - 1 -> Piece \cup {None}] /\ \A i \in 0..Ring - 1 : ring[i] # None => ring[i] = tx[i]
    BY DEF SenderInv, Queued
  <2>2. Detect(ring)
    BY <1>1, <1>2
  <2> HIDE DEF ring
  <2>3. Queued /\ UNCHANGED <<taken, cut, seq, restarts>>
    BY <1>1 DEF SenderInv
  <2>. QED  BY <2>1, <2>2, <2>3, DetectKeeps
<1>3. CASE ~Sane(a)
  <2>1. UNCHANGED <<tx, resend, low, taken, cut, seq, restarts>>
    BY <1>1, <1>3
  <2>. QED  BY <2>1 DEF SenderInv, Queued, Span, InFlight, At
<1>. QED  BY <1>2, <1>3

LEMMA DetectLossKeeps ==
  ASSUME SenderInv, DetectLoss
  PROVE  SenderInv' /\ \A i \in 0..Ring - 1 : tx'[i] # None => tx'[i] = tx[i]
<1>1. Queued /\ UNCHANGED <<taken, cut, seq, restarts>> /\ Detect(tx) /\ tx \in [0..Ring - 1 -> Piece \cup {None}]
  BY DEF SenderInv, DetectLoss, Queued
<1>. QED  BY <1>1, DetectKeeps

\* A sender that begins has nothing in flight.
LEMMA Fresh ==
  ASSUME NEW s \in Numbers
  PROVE  /\ Plus(s, 1) \in Numbers /\ Ahead(Plus(s, 1), Plus(s, 1)) = 0
         /\ Empty \in [0..Ring - 1 -> Piece \cup {None}]
         /\ \A i \in 0..Ring - 1 : Empty[i] = None
<1>1. Plus(s, 1) \in Numbers
  BY PlusIs, Constants
<1>. QED  BY <1>1, SelfAhead DEF Empty

LEMMA RestartKeeps ==
  ASSUME SenderInv, LanesInv, Restart
  PROVE  SenderInv' /\ LanesInv' /\ restarts' # restarts
<1>1. /\ taken' = taken /\ seq' = Plus(seq, Half) /\ low' = Plus(seq', 1) /\ tx' = Empty /\ resend' = {}
      /\ cut' = (IF taken = 0 THEN 0 ELSE Sizes[taken]) /\ lanes' = [l \in Lanes |-> <<>>]
      /\ restarts' = restarts + 1
  BY DEF Restart, Half
<1>2. seq' \in Numbers
  <2>1. seq \in Numbers /\ Half \in Nat /\ Half <= Modulus
    BY Constants DEF SenderInv, Queued
  <2>. QED  BY <1>1, <2>1, PlusIs
<1>3. low' \in Numbers /\ Span' = 0
  BY <1>1, <1>2, Fresh DEF Span
<1>4. taken \in 0..Len(Sizes) /\ cut' \in Nat /\ restarts \in Nat
  BY <1>1, RingAssumption DEF RingAssumption, SenderInv, Queued
<1>5. Queued'
  <2>1. /\ tx' \in [0..Ring - 1 -> Piece \cup {None}] /\ \A i \in 0..Ring - 1 : tx'[i] = None
    BY <1>1, <1>2, Fresh
  <2>. QED  BY <1>1, <1>2, <1>3, <1>4, <2>1, Amounts DEF Queued
<1>6. LanesInv' /\ resend' \subseteq InFlight'
  BY <1>1 DEF LanesInv
<1>7. restarts' # restarts
  BY <1>1, <1>4
<1>. QED  BY <1>5, <1>6, <1>7 DEF SenderInv

-----------------------------------------------------------------------------
\* The receiver.

Fields == {"started", "next", "hi", "rx", "gap", "news", "asm", "out", "jumped"}

\* Whatever waits lies in the window, in its slot; before the first piece nothing
\* waits.
Filed(r) ==
  /\ r.next \in Numbers /\ r.hi \in Numbers
  /\ r.rx \in [0..Ring - 1 -> Piece \cup {None}]
  /\ \A i \in 0..Ring - 1 : r.rx[i] # None =>
        r.started /\ Slot(r.rx[i].seq) = i /\ Ahead(r.rx[i].seq, r.next) < Ring

Flags(r) == r.started \in BOOLEAN /\ r.gap \in BOOLEAN /\ r.news \in BOOLEAN /\ r.jumped \in BOOLEAN

Sound(r) == DOMAIN r = Fields /\ Filed(r) /\ Flags(r)

LEMMA SumAhead ==
  ASSUME NEW a \in Numbers, NEW c \in Numbers, NEW k \in Nat, Ahead(a, c) + k < Modulus
  PROVE  Plus(a, k) \in Numbers /\ Ahead(Plus(a, k), c) = Ahead(a, c) + k
<1> DEFINE b == Plus(a, k)
<1>1. Ahead(a, c) \in Nat /\ Ahead(a, c) = IF c <= a THEN a - c ELSE a - c + Modulus
  BY AheadIs
<1>2. k <= Modulus
  BY <1>1, Amounts
<1>3. b \in Numbers /\ b = IF a + k < Modulus THEN a + k ELSE a + k - Modulus
  BY <1>2, PlusIs
<1> HIDE DEF b
<1>4. Ahead(b, c) = IF c <= b THEN b - c ELSE b - c + Modulus
  BY <1>3, AheadIs
<1>5. a \in Int /\ b \in Int /\ c \in Int /\ 0 <= a /\ a < Modulus /\ 0 <= c /\ c < Modulus
  BY <1>3, Constants
<1>6. Ahead(b, c) = Ahead(a, c) + k
  BY <1>1, <1>3, <1>4, <1>5, Amounts
<1>. QED  BY <1>3, <1>6 DEF b

\* A piece that waits is in the slot of its number, not far ahead.
LEMMA WaitingIs ==
  ASSUME NEW r, Filed(r)
  PROVE  /\ \A s \in Numbers : At(r.rx, s) => Ahead(s, r.next) < Ring /\ r.started
         /\ \A i \in 0..Ring - 1 : r.rx[i] # None =>
              r.rx[i] \in Piece /\ r.rx[i].seq \in Numbers /\ At(r.rx, r.rx[i].seq)
<1>1. ASSUME NEW s \in Numbers, At(r.rx, s) PROVE Ahead(s, r.next) < Ring /\ r.started
  BY <1>1, SlotInRing DEF Filed, At
<1>2. ASSUME NEW i \in 0..Ring - 1, r.rx[i] # None
      PROVE  r.rx[i] \in Piece /\ r.rx[i].seq \in Numbers /\ At(r.rx, r.rx[i].seq)
  BY <1>2 DEF Filed, At, Piece
<1>. QED  BY <1>1, <1>2

LEMMA RunLength ==
  ASSUME NEW r, r.next \in Numbers
  PROVE  LET n == Min({i \in 0..Ring : i = Ring \/ ~At(r.rx, Plus(r.next, i))})
         IN  n \in 0..Ring /\ (n = Ring \/ ~At(r.rx, Plus(r.next, n)))
             /\ \A i \in 0..n - 1 : At(r.rx, Plus(r.next, i))
<1> DEFINE S == {i \in 0..Ring : i = Ring \/ ~At(r.rx, Plus(r.next, i))}
<1>1. Ring \in S /\ S \subseteq Nat /\ S \subseteq 0..Ring
  BY Amounts
<1>2. \E m \in S : \A k \in S : m <= k
  BY <1>1, Least
<1>3. Min(S) \in S /\ \A k \in S : Min(S) <= k
  BY <1>2 DEF Min
<1>4. \A i \in 0..Ring : i \in S <=> i = Ring \/ ~At(r.rx, Plus(r.next, i))
  OBVIOUS
<1> HIDE DEF S
<1>5. ASSUME NEW i \in 0..Min(S) - 1 PROVE i \in 0..Ring /\ i \notin S
  <2>1. Min(S) \in 0..Ring
    BY <1>1, <1>3
  <2>2. i \in Nat /\ i < Min(S)
    BY <2>1
  <2>3. ~(Min(S) <= i)
    BY <2>1, <2>2
  <2>. QED  BY <1>3, <2>1, <2>2, <2>3, Amounts
<1>6. /\ Min(S) \in 0..Ring /\ (Min(S) = Ring \/ ~At(r.rx, Plus(r.next, Min(S))))
      /\ \A i \in 0..Min(S) - 1 : At(r.rx, Plus(r.next, i))
  BY <1>1, <1>3, <1>4, <1>5
<1>. QED  BY <1>6 DEF S

\* The pieces that follow one another are handed on, and no others.
LEMMA DrainKeeps ==
  ASSUME NEW r, Sound(r)
  PROVE  /\ Sound(Drain(r)) /\ Drain(r).started = r.started
         /\ \E n \in 0..Ring : /\ Drain(r).next = Plus(r.next, n)
                               /\ n = Ring \/ ~At(r.rx, Plus(r.next, n))
                               /\ \A i \in 0..n - 1 : At(r.rx, Plus(r.next, i))
<1> DEFINE n == Min({i \in 0..Ring : i = Ring \/ ~At(r.rx, Plus(r.next, i))})
           run == [i \in 1..n |-> r.rx[Slot(Plus(r.next, i - 1))]]
           Step(d, p) == DeliverPiece(d, p, r.gap /\ p = run[1])
           d == FoldLeft(Step, [asm |-> r.asm, out |-> r.out], run)
           q == Drain(r)
<1>1. q = [r EXCEPT !.rx = [i \in DOMAIN @ |-> IF @[i] \in ToSet(run) THEN None ELSE @[i]],
                    !.next = Plus(@, n), !.gap = @ /\ n = 0,
                    !.asm = d.asm, !.out = d.out]
  BY DEF Drain
<1>2. r.next \in Numbers /\ r.hi \in Numbers /\ DOMAIN r = Fields /\ Filed(r)
      /\ r.rx \in [0..Ring - 1 -> Piece \cup {None}]
  BY DEF Sound, Filed
<1>3. /\ n \in 0..Ring /\ (n = Ring \/ ~At(r.rx, Plus(r.next, n)))
      /\ \A i \in 0..n - 1 : At(r.rx, Plus(r.next, i))
  BY <1>2, RunLength
<1> HIDE DEF n, d
<1>4. \A x : x \in ToSet(run) <=> \E i \in 1..n : x = r.rx[Slot(Plus(r.next, i - 1))]
  BY DEF ToSet
<1> HIDE DEF run
<1>5. /\ DOMAIN q = Fields /\ q.next = Plus(r.next, n) /\ q.hi = r.hi /\ q.started = r.started
      /\ q.gap = (r.gap /\ n = 0) /\ q.news = r.news /\ q.jumped = r.jumped
      /\ q.rx = [i \in DOMAIN r.rx |-> IF r.rx[i] \in ToSet(run) THEN None ELSE r.rx[i]]
  BY <1>1, <1>2 DEF Fields
<1> HIDE DEF q
<1>6. q.rx \in [0..Ring - 1 -> Piece \cup {None}]
      /\ \A i \in 0..Ring - 1 : q.rx[i] # None => q.rx[i] = r.rx[i] /\ r.rx[i] \notin ToSet(run)
  BY <1>2, <1>5
<1>7. n \in Nat /\ n <= Ring /\ q.next \in Numbers /\ Ahead(q.next, r.next) = n
  <2>1. n \in Nat /\ n <= Ring /\ n < Modulus
    BY <1>3, Amounts
  <2>. QED  BY <1>2, <1>5, <2>1, PlusIs, PlusAhead, Amounts
<1>8. ASSUME NEW i \in 0..Ring - 1, q.rx[i] # None
      PROVE  q.started /\ Slot(q.rx[i].seq) = i /\ Ahead(q.rx[i].seq, q.next) < Ring
  <2> DEFINE s == r.rx[i].seq
             k == Ahead(s, r.next)
  <2>1. q.rx[i] = r.rx[i] /\ r.rx[i] # None /\ r.rx[i] \notin ToSet(run)
    BY <1>6, <1>8
  <2>2. s \in Numbers /\ Slot(s) = i /\ r.started /\ k < Ring /\ k \in Nat
    BY <1>2, <2>1, WaitingIs, AheadIs DEF Filed
  <2>3. Plus(r.next, k) = s
    BY <1>2, <2>2, AheadPlus
  <2> HIDE DEF k
  <2>4. n <= k
    <3>1. SUFFICES ASSUME k < n PROVE FALSE
      BY <1>7, <2>2
    <3>2. k + 1 \in 1..n /\ (k + 1) - 1 = k
      BY <1>7, <2>2, <3>1
    <3>3. r.rx[i] = r.rx[Slot(Plus(r.next, (k + 1) - 1))]
      BY <2>2, <2>3, <3>2
    <3>. QED  BY <1>4, <2>1, <3>2, <3>3
  <2>5. Ahead(s, q.next) = k - n
    BY <1>2, <1>7, <2>2, <2>4, AheadFrom DEF k
  <2>. QED  BY <1>5, <1>7, <2>1, <2>2, <2>4, <2>5, Amounts
<1>9. Filed(q)
  BY <1>2, <1>5, <1>6, <1>7, <1>8 DEF Filed
<1>10. Flags(q)
  BY <1>5 DEF Flags, Sound
<1>11. Sound(q)
  BY <1>5, <1>9, <1>10 DEF Sound
<1>. QED  BY <1>3, <1>5, <1>11 DEF q

\* Passing over the first hole brings the window nearer to the limit, not past it.
LEMMA SkipKeeps ==
  ASSUME NEW r, Sound(r), NEW limit \in Numbers,
         Ahead(limit, r.next) >= Ring, Ahead(limit, r.next) <= 2 * Ring
  PROVE  LET q == SkipTo(r, Lowest(r, limit))
         IN  Sound(q) /\ q.started = r.started /\ Ahead(limit, q.next) < Ahead(limit, r.next)
<1> DEFINE t == Lowest(r, limit)
           m == IF Before(r.next, t) THEN [r EXCEPT !.gap = TRUE, !.next = t, !.news = TRUE] ELSE r
           q == Drain(m)
           far == Ahead(limit, r.next)
           W == {s \in Stretch(r.next, limit) : At(r.rx, s)}
<1>1. Sound(r) /\ Filed(r) /\ Flags(r) /\ DOMAIN r = Fields /\ r.next \in Numbers
  BY DEF Sound, Filed
<1>2. far \in Nat /\ far >= Ring /\ far <= 2 * Ring /\ far < Half
  BY <1>1, AheadIs, Amounts
<1>3. W \subseteq Numbers /\ \A s \in Numbers : s \in W <=> At(r.rx, s)
  <2>1. /\ Stretch(r.next, limit) \subseteq Numbers
        /\ \A s \in Numbers : s \in Stretch(r.next, limit) <=> Ahead(s, r.next) < far
    BY <1>1, <1>2, InStretch
  <2>2. \A s \in Numbers : At(r.rx, s) => Ahead(s, r.next) < far
    <3>1. SUFFICES ASSUME NEW s \in Numbers, At(r.rx, s) PROVE Ahead(s, r.next) < far
      OBVIOUS
    <3>2. Ahead(s, r.next) < Ring /\ Ahead(s, r.next) \in Nat
      BY <1>1, <3>1, WaitingIs, AheadIs
    <3>. QED  BY <1>2, <3>2, Amounts
  <2>. QED  BY <2>1, <2>2
<1>4. /\ t = First(W \cup {limit})
      /\ \A s \in W : Ahead(s, r.next) \in Nat /\ Ahead(s, r.next) < Ring
  BY <1>1, <1>3, WaitingIs, AheadIs DEF Lowest
<1> HIDE DEF t, W
<1>5. t \in W \cup {limit} /\ \A s \in W \cup {limit} : Ahead(t, r.next) <= Ahead(s, r.next)
  <2>1. \A s \in W \cup {limit} : s \in Numbers /\ Ahead(s, r.next) < 4 * Ring
    BY <1>2, <1>3, <1>4, Amounts
  <2>. QED  BY <1>1, <1>4, <2>1, FirstIs
<1>6. t \in Numbers /\ Ahead(t, r.next) \in Nat /\ Ahead(t, r.next) <= far
  BY <1>1, <1>2, <1>3, <1>5, AheadIs
<1>7. /\ DOMAIN m = Fields /\ m.next = t /\ m.hi = r.hi /\ m.rx = r.rx /\ m.started = r.started
      /\ m.jumped = r.jumped /\ Flags(m)
  <2>1. Before(r.next, t) <=> Ahead(r.next, r.next) < Ahead(t, r.next)
    <3>1. Ahead(r.next, r.next) = 0
      BY <1>1, SelfAhead
    <3>2. Ahead(r.next, r.next) < 4 * Ring /\ Ahead(t, r.next) < 4 * Ring
      BY <1>2, <1>6, <3>1, Amounts
    <3>. QED  BY <1>1, <1>6, <3>2, BeforeFrom
  <2>2. Ahead(r.next, r.next) = 0
    BY <1>1, SelfAhead
  <2>3. ~Before(r.next, t) => r.next = t
    BY <1>1, <1>6, <2>1, <2>2, SameAhead
  <2>4. CASE Before(r.next, t)
    BY <1>1, <2>4 DEF Flags, Fields
  <2>5. CASE ~Before(r.next, t)
    BY <1>1, <2>3, <2>5
  <2>. QED  BY <2>4, <2>5
<1> HIDE DEF m
<1>8. \A s \in Numbers : At(m.rx, s) => Ahead(s, t) = Ahead(s, r.next) - Ahead(t, r.next)
  <2>1. \A s \in W : Ahead(t, r.next) <= Ahead(s, r.next)
    BY <1>5
  <2>. QED  BY <1>1, <1>3, <1>6, <1>7, <2>1, AheadFrom
<1>9. Sound(m)
  <2>1. ASSUME NEW i \in 0..Ring - 1, m.rx[i] # None
        PROVE  m.started /\ Slot(m.rx[i].seq) = i /\ Ahead(m.rx[i].seq, m.next) < Ring
    <3>1. /\ m.rx[i].seq \in Numbers /\ At(m.rx, m.rx[i].seq) /\ m.started
          /\ Slot(m.rx[i].seq) = i /\ Ahead(m.rx[i].seq, r.next) < Ring
      BY <1>1, <1>7, <2>1, WaitingIs DEF Filed
    <3>2. Ahead(m.rx[i].seq, r.next) \in Nat
      BY <1>1, <3>1, AheadIs
    <3>. QED  BY <1>6, <1>7, <1>8, <3>1, <3>2, Amounts
  <2>2. Filed(m)
    BY <1>1, <1>6, <1>7, <2>1 DEF Filed
  <2>. QED  BY <1>7, <2>2 DEF Sound
<1>10. Sound(q) /\ q.started = r.started
  BY <1>7, <1>9, DrainKeeps
<1>11. PICK n \in 0..Ring : /\ q.next = Plus(t, n)
                            /\ n = Ring \/ ~At(r.rx, Plus(t, n))
                            /\ \A i \in 0..n - 1 : At(r.rx, Plus(t, i))
  BY <1>7, <1>9, DrainKeeps
<1> HIDE DEF q
<1>12. n \in Nat /\ n <= Ring /\ far < Modulus /\ Ahead(t, r.next) + n < Modulus
  BY <1>2, <1>6, <1>11, Amounts
<1>13. q.next \in Numbers /\ Ahead(q.next, r.next) = Ahead(t, r.next) + n
  BY <1>1, <1>6, <1>11, <1>12, SumAhead
<1>14. Ahead(t, r.next) + n <= far /\ Ahead(t, r.next) + n >= 1
  <2>1. ASSUME n >= 1 PROVE Ahead(t, r.next) + n <= Ring
    <3>1. n - 1 \in 0..n - 1 /\ n - 1 \in Nat /\ Ahead(t, r.next) + (n - 1) < Modulus
      <4>1. n - 1 \in 0..n - 1 /\ n - 1 \in Nat
        BY <1>12, <2>1
      <4>. QED  BY <1>6, <1>12, <4>1, Amounts
    <3>2. At(r.rx, Plus(t, n - 1)) /\ Plus(t, n - 1) \in Numbers
          /\ Ahead(Plus(t, n - 1), r.next) = Ahead(t, r.next) + (n - 1)
      BY <1>1, <1>6, <1>11, <3>1, SumAhead
    <3>3. Ahead(t, r.next) + (n - 1) < Ring
      BY <1>1, <3>2, WaitingIs
    <3>. QED  BY <1>6, <1>12, <3>3, Amounts
  <2>2. ASSUME n = 0 PROVE Ahead(t, r.next) >= 1
    <3>1. Plus(t, 0) = t
      BY <1>6, PlusIs, Constants
    <3>2. t \notin W
      BY <1>3, <1>6, <1>11, <2>2, <3>1, Amounts
    <3>. QED  BY <1>2, <1>5, <3>2, Amounts
  <2>. QED  BY <1>2, <1>6, <1>12, <2>1, <2>2, Amounts
<1>15. Ahead(limit, q.next) = far - (Ahead(t, r.next) + n)
  BY <1>1, <1>13, <1>14, AheadFrom
<1>16. Ahead(limit, q.next) < far
  BY <1>2, <1>6, <1>12, <1>14, <1>15
<1>. QED  BY <1>10, <1>16 DEF SkipTo, q, m, t

\* After as many holes as the window has places the piece fits.
LEMMA MakeRoomKeeps ==
  ASSUME NEW r, Sound(r), r.started, NEW s \in Numbers, Ahead(s, r.next) <= 2 * Ring
  PROVE  Sound(MakeRoom(r, s)) /\ MakeRoom(r, s).started /\ Ahead(s, MakeRoom(r, s).next) < Ring
<1> DEFINE G(f) == [i \in 0..Ring + 1 |-> IF i = 0 THEN r ELSE PassHole(f[i - 1], s)]
           room == CHOOSE f : f = G(f)
<1>1. MakeRoom(r, s) = room[Ring + 1]
  BY DEF MakeRoom
<1>2. \E f : f = G(f)
  <2> DEFINE T == {n \in Nat : \E f : f = [i \in 0..n |-> IF i = 0 THEN r ELSE PassHole(f[i - 1], s)]}
  <2>1. 0 \in T
    <3>1. [i \in 0..0 |-> r] = [i \in 0..0 |-> IF i = 0 THEN r ELSE PassHole([j \in 0..0 |-> r][i - 1], s)]
      OBVIOUS
    <3>. QED  BY <3>1
  <2>2. ASSUME NEW n \in Nat, n \in T PROVE n + 1 \in T
    <3>1. PICK f : f = [i \in 0..n |-> IF i = 0 THEN r ELSE PassHole(f[i - 1], s)]
      BY <2>2
    <3> DEFINE g == [i \in 0..n + 1 |-> IF i <= n THEN f[i] ELSE PassHole(f[n], s)]
    <3>2. ASSUME NEW i \in 0..n + 1
          PROVE  g[i] = IF i = 0 THEN r ELSE PassHole(g[i - 1], s)
      <4>1. CASE i = 0
        BY <3>1, <4>1
      <4>2. CASE i \in 1..n
        <5>1. i - 1 \in 0..n /\ i - 1 <= n /\ i - 1 \in 0..n + 1 /\ i \in 0..n /\ i # 0
          BY <4>2
        <5>2. g[i - 1] = f[i - 1] /\ g[i] = f[i]
          BY <5>1
        <5>3. f[i] = PassHole(f[i - 1], s)
          BY <3>1, <5>1
        <5>. QED  BY <5>1, <5>2, <5>3
      <4>3. CASE i = n + 1
        <5>1. g[i] = PassHole(f[n], s) /\ g[i - 1] = f[n] /\ i # 0
          BY <4>3
        <5>. QED  BY <5>1
      <4>. QED  BY <4>1, <4>2, <4>3
    <3>3. g = [i \in 0..n + 1 |-> g[i]]
      OBVIOUS
    <3> HIDE DEF g
    <3>4. g = [i \in 0..n + 1 |-> IF i = 0 THEN r ELSE PassHole(g[i - 1], s)]
      BY <3>2, <3>3
    <3>. QED  BY <3>4
  <2> HIDE DEF T
  <2>3. Ring + 1 \in T
    BY <2>1, <2>2, Climb, Constants
  <2>. QED  BY <2>3 DEF T
<1>3. room = G(room)
  BY <1>2
<1> HIDE DEF room
<1>4. room[0] = r /\ \A i \in 1..Ring + 1 : room[i] = PassHole(room[i - 1], s)
  <2>1. 0 \in 0..Ring + 1 /\ \A i \in 1..Ring + 1 : i \in 0..Ring + 1 /\ i # 0
    BY Amounts
  <2>. QED  BY <1>3, <2>1
<1> DEFINE Fits(b, n) == /\ Sound(b) /\ b.started /\ Ahead(s, b.next) <= 2 * Ring
                         /\ Ahead(s, b.next) >= Ring => Ahead(s, b.next) + n <= 2 * Ring
           U == {n \in Nat : n <= Ring + 1 => Fits(room[n], n)}
<1>5. 0 \in U
  <2>1. Ahead(s, r.next) \in Nat
    BY AheadIs DEF Sound, Filed
  <2>. QED  BY <1>4, <2>1, Amounts
<1>6. ASSUME NEW n \in Nat, n \in U, n + 1 <= Ring + 1 PROVE Fits(room[n + 1], n + 1)
  <2> DEFINE b == room[n]
             q == SkipTo(b, Lowest(b, s))
  <2>1. Fits(b, n) /\ room[n + 1] = PassHole(b, s)
    <3>1. n + 1 \in 1..Ring + 1 /\ (n + 1) - 1 = n /\ n <= Ring + 1
      BY <1>6, Amounts
    <3>. QED  BY <1>4, <1>6, <3>1
  <2>2. Ahead(s, b.next) \in Nat
    BY <2>1, AheadIs DEF Sound, Filed
  <2>3. CASE Ahead(s, b.next) >= Ring
    <3>1. room[n + 1] = q
      BY <2>1, <2>3 DEF PassHole
    <3>2. Sound(q) /\ q.started = b.started /\ Ahead(s, q.next) < Ahead(s, b.next)
      BY <2>1, <2>3, SkipKeeps
    <3> HIDE DEF q, b
    <3>3. Ahead(s, q.next) \in Nat
      BY <3>2, AheadIs DEF Sound, Filed
    <3>4. Ahead(s, q.next) <= 2 * Ring /\ Ahead(s, q.next) + (n + 1) <= 2 * Ring
      BY <2>1, <2>2, <2>3, <3>2, <3>3, Amounts
    <3>5. q.started
      BY <2>1, <3>2
    <3>. QED  BY <3>1, <3>2, <3>4, <3>5
  <2>4. CASE ~(Ahead(s, b.next) >= Ring)
    <3>1. room[n + 1] = b
      BY <2>1, <2>4 DEF PassHole
    <3>. QED  BY <2>1, <2>4, <3>1
  <2>. QED  BY <2>3, <2>4
<1>7. \A n \in Nat : n \in U
  <2>1. \A n \in Nat : n \in U => n + 1 \in U
    BY <1>6
  <2> HIDE DEF U
  <2>. QED  BY <1>5, <2>1, Climb
<1>8. Fits(room[Ring + 1], Ring + 1)
  <2>1. Ring + 1 \in Nat
    BY Constants
  <2>. QED  BY <1>7, <2>1
<1> DEFINE b == room[Ring + 1]
<1>9. Ahead(s, b.next) \in Nat
  BY <1>8, AheadIs DEF Sound, Filed
<1>10. Ahead(s, b.next) < Ring
  BY <1>8, <1>9, Amounts
<1>. QED  BY <1>1, <1>8, <1>10

\* A piece that comes in is late, or less than two windows ahead.
LEMMA StartedKeeps ==
  ASSUME NEW r, Sound(r), NEW p \in Piece
  PROVE  LET q == Started(r, p)
         IN  Sound(q) /\ q.started /\ (~Before(p.seq, q.next) => Ahead(p.seq, q.next) <= 2 * Ring)
<1> DEFINE q == Started(r, p)
           from == IF Ahead(p.seq, p.low) < Ring \div 2 THEN p.low ELSE p.seq
<1>1. /\ DOMAIN r = Fields /\ Filed(r) /\ Flags(r)
      /\ p.seq \in Numbers /\ p.low \in Numbers
  BY DEF Sound, Piece
<1>2. from \in Numbers /\ Ahead(p.seq, from) <= 2 * Ring /\ Plus(from, Modulus - 1) \in Numbers
  <2>1. Ring \div 2 <= 2 * Ring /\ Modulus - 1 \in Nat /\ Modulus - 1 <= Modulus /\ Ring \div 2 \in Int
    BY Amounts
  <2>2. Ahead(p.seq, p.seq) = 0 /\ Ahead(p.seq, p.low) \in Nat
    BY <1>1, SelfAhead, AheadIs
  <2>3. from \in Numbers
    BY <1>1
  <2>4. Ahead(p.seq, from) <= 2 * Ring
    <3>1. CASE Ahead(p.seq, p.low) < Ring \div 2
      BY <2>1, <2>2, <3>1, Amounts
    <3>2. CASE ~(Ahead(p.seq, p.low) < Ring \div 2)
      BY <2>2, <3>2, Amounts
    <3>. QED  BY <3>1, <3>2
  <2> HIDE DEF from
  <2>. QED  BY <2>1, <2>3, <2>4, PlusIs
<1> HIDE DEF from
<1>3. ASSUME NEW b, DOMAIN b = Fields, Flags(b), b.started, b.rx \in [0..Ring - 1 -> Piece \cup {None}],
             \A i \in 0..Ring - 1 : b.rx[i] = None, q = StartAt(b, p)
      PROVE  Sound(q) /\ q.started /\ Ahead(p.seq, q.next) <= 2 * Ring
  <2>1. q = [b EXCEPT !.next = from, !.hi = Plus(from, Modulus - 1), !.jumped = @ \/ from # p.low]
    BY <1>3 DEF StartAt, from
  <2> HIDE DEF q
  <2>2. /\ DOMAIN q = Fields /\ q.next = from /\ q.hi = Plus(from, Modulus - 1) /\ q.rx = b.rx
        /\ q.started = b.started /\ q.gap = b.gap /\ q.news = b.news
        /\ q.jumped = (b.jumped \/ from # p.low)
    BY <1>3, <2>1 DEF Fields
  <2>3. Flags(q)
    BY <1>3, <2>2 DEF Flags
  <2>4. Filed(q)
    BY <1>2, <1>3, <2>2 DEF Filed
  <2>. QED  BY <1>2, <1>3, <2>2, <2>3, <2>4 DEF Sound
<1>4. CASE ~r.started
  <2> DEFINE b == [r EXCEPT !.started = TRUE]
  <2>1. DOMAIN b = Fields /\ b.started /\ b.rx = r.rx /\ b.gap = r.gap /\ b.news = r.news /\ b.jumped = r.jumped
    BY <1>1 DEF Fields
  <2>2. q = StartAt(b, p)
    BY <1>4 DEF Started
  <2> HIDE DEF b, q
  <2>3. Flags(b) /\ b.rx \in [0..Ring - 1 -> Piece \cup {None}]
    BY <1>1, <2>1 DEF Flags, Filed
  <2>4. \A i \in 0..Ring - 1 : b.rx[i] = None
    BY <1>1, <1>4, <2>1 DEF Filed
  <2>5. Sound(q) /\ q.started /\ Ahead(p.seq, q.next) <= 2 * Ring
    BY <1>3, <2>1, <2>2, <2>3, <2>4
  <2>. QED  BY <2>5 DEF q
<1>5. CASE r.started /\ ~(Diff(p.seq, r.next) \in -Ring .. 2 * Ring - 1)
  <2> DEFINE b == [r EXCEPT !.rx = Empty, !.gap = TRUE]
  <2>1. DOMAIN b = Fields /\ b.started /\ b.rx = Empty /\ b.gap = TRUE /\ b.news = r.news
        /\ b.jumped = r.jumped /\ b.started = r.started
    BY <1>1, <1>5 DEF Fields
  <2>2. q = StartAt(b, p)
    BY <1>5 DEF Started
  <2> HIDE DEF b, q
  <2>3. Flags(b)
    BY <1>1, <2>1 DEF Flags
  <2>4. b.rx \in [0..Ring - 1 -> Piece \cup {None}] /\ \A i \in 0..Ring - 1 : b.rx[i] = None
    BY <1>1, <2>1, Fresh
  <2>5. Sound(q) /\ q.started /\ Ahead(p.seq, q.next) <= 2 * Ring
    BY <1>3, <2>1, <2>2, <2>3, <2>4
  <2>. QED  BY <2>5 DEF q
<1>6. CASE r.started /\ Diff(p.seq, r.next) \in -Ring .. 2 * Ring - 1
  <2>1. q = r
    BY <1>6 DEF Started
  <2>2. ASSUME ~Before(p.seq, r.next) PROVE Ahead(p.seq, r.next) <= 2 * Ring
    <3>1. r.next \in Numbers
      BY <1>1 DEF Filed
    <3>2. /\ Diff(p.seq, r.next) = IF Ahead(p.seq, r.next) < Half THEN Ahead(p.seq, r.next)
                                                                ELSE Ahead(p.seq, r.next) - Modulus
          /\ ~(Ahead(p.seq, r.next) >= Half) /\ Ahead(p.seq, r.next) \in Nat
      BY <1>1, <2>2, <3>1, DiffIs, AheadIs
    <3>. QED  BY <1>6, <3>2, Amounts
  <2>. QED  BY <1>6, <2>1, <2>2
<1>. QED  BY <1>1, <1>4, <1>5, <1>6 DEF Flags

LEMMA HeardKeeps ==
  ASSUME NEW r, Sound(r), NEW p
  PROVE  Sound(Heard(r, p)) /\ Heard(r, p).next = r.next /\ Heard(r, p).started = r.started
<1> DEFINE q == Heard(r, p)
<1>1. /\ DOMAIN q = Fields /\ q.next = r.next /\ q.hi = r.hi /\ q.rx = r.rx /\ q.started = r.started
      /\ q.gap = r.gap /\ q.news = TRUE /\ q.jumped = r.jumped
  BY DEF Heard, Sound, Fields
<1> HIDE DEF q
<1>2. Filed(q)
  BY <1>1 DEF Sound, Filed
<1>3. Flags(q)
  BY <1>1 DEF Sound, Flags
<1>. QED  BY <1>1, <1>2, <1>3 DEF Sound, q

\* What is filed lies in the window.
LEMMA FileKeeps ==
  ASSUME NEW r, Sound(r), r.started, NEW p \in Piece,
         ~Before(p.seq, r.next) => Ahead(p.seq, r.next) <= 2 * Ring
  PROVE  Sound(File(r, p))
<1> DEFINE b == MakeRoom(r, p.seq)
           w == [b EXCEPT !.rx[Slot(p.seq)] = p, !.hi = IF Before(@, p.seq) THEN p.seq ELSE @]
<1>1. CASE Late(p, r)
  BY <1>1 DEF File
<1>2. CASE ~Late(p, r)
  <2>1. p.seq \in Numbers /\ Slot(p.seq) \in 0..Ring - 1
    BY SlotInRing DEF Piece
  <2>2. Sound(b) /\ b.started /\ Ahead(p.seq, b.next) < Ring
    BY <1>2, <2>1, MakeRoomKeeps DEF Late
  <2>3. File(r, p) = IF At(b.rx, p.seq) THEN b ELSE Drain(w)
    BY <1>2 DEF File
  <2> HIDE DEF b
  <2>4. DOMAIN b = Fields /\ Filed(b) /\ Flags(b)
    BY <2>2 DEF Sound
  <2>5. /\ DOMAIN w = Fields /\ w.next = b.next /\ w.started = b.started /\ w.gap = b.gap
        /\ w.news = b.news /\ w.jumped = b.jumped
        /\ w.hi = (IF Before(b.hi, p.seq) THEN p.seq ELSE b.hi)
        /\ w.rx = [b.rx EXCEPT ![Slot(p.seq)] = p]
    BY <2>4 DEF Fields
  <2> HIDE DEF w
  <2>6. Flags(w)
    BY <2>4, <2>5 DEF Flags
  <2>7. ASSUME NEW i \in 0..Ring - 1, w.rx[i] # None
        PROVE  w.started /\ Slot(w.rx[i].seq) = i /\ Ahead(w.rx[i].seq, w.next) < Ring
    <3>1. CASE i = Slot(p.seq)
      <4>1. w.rx[i] = p
        BY <2>1, <2>4, <2>5, <3>1 DEF Filed
      <4>. QED  BY <2>1, <2>2, <2>5, <3>1, <4>1
    <3>2. CASE i # Slot(p.seq)
      <4>1. w.rx[i] = b.rx[i]
        BY <2>4, <2>5, <3>2 DEF Filed
      <4>. QED  BY <2>4, <2>5, <2>7, <4>1 DEF Filed
    <3>. QED  BY <3>1, <3>2
  <2>8. Filed(w)
    <3>1. w.next \in Numbers /\ w.hi \in Numbers
      BY <2>1, <2>4, <2>5 DEF Filed
    <3>2. w.rx \in [0..Ring - 1 -> Piece \cup {None}]
      BY <2>4, <2>5 DEF Filed
    <3>. QED  BY <2>7, <3>1, <3>2 DEF Filed
  <2>9. Sound(Drain(w))
    BY <2>5, <2>6, <2>8, DrainKeeps DEF Sound
  <2>. QED  BY <2>2, <2>3, <2>9
<1>. QED  BY <1>1, <1>2

-----------------------------------------------------------------------------
\* Both ends.

ReceiverInv == Sound(Buffer)

IInv == SenderInv /\ LanesInv /\ ReceiverInv

LEMMA BufferIs ==
  /\ DOMAIN Buffer = Fields /\ Buffer.started = started /\ Buffer.next = next /\ Buffer.hi = hi
  /\ Buffer.rx = rx /\ Buffer.gap = gap /\ Buffer.news = news /\ Buffer.jumped = jumped
BY DEF Buffer, Fields

\* The same of the state that follows.
LEMMA BufferWillBe ==
  /\ DOMAIN Buffer' = Fields /\ Buffer'.started = started' /\ Buffer'.next = next' /\ Buffer'.hi = hi'
  /\ Buffer'.rx = rx' /\ Buffer'.gap = gap' /\ Buffer'.news = news' /\ Buffer'.jumped = jumped'
BY DEF Buffer, Fields

LEMMA BecomesSound ==
  ASSUME NEW r, Sound(r), Becomes(r)
  PROVE  ReceiverInv'
<1>1. /\ started' = r.started /\ next' = r.next /\ hi' = r.hi /\ rx' = r.rx
      /\ gap' = r.gap /\ news' = r.news /\ jumped' = r.jumped
  BY DEF Becomes
<1> DEFINE q == Buffer'
<1>2. /\ DOMAIN q = Fields /\ q.started = r.started /\ q.next = r.next /\ q.hi = r.hi /\ q.rx = r.rx
      /\ q.gap = r.gap /\ q.news = r.news /\ q.jumped = r.jumped
  BY <1>1, BufferWillBe
<1>3. ReceiverInv' <=> Sound(q)
  BY DEF ReceiverInv, Sound, Filed, Flags
<1> HIDE DEF q
<1>4. Filed(q)
  BY <1>2 DEF Sound, Filed
<1>5. Flags(q)
  BY <1>2 DEF Sound, Flags
<1>. QED  BY <1>2, <1>3, <1>4, <1>5 DEF Sound

LEMMA ReceiverStays ==
  ASSUME ReceiverInv, UNCHANGED receiverVars
  PROVE  ReceiverInv'
BY DEF ReceiverInv, receiverVars, Buffer, Sound, Filed, Flags

LEMMA SenderStays ==
  ASSUME SenderInv, UNCHANGED senderVars
  PROVE  SenderInv' /\ tx' = tx
BY DEF SenderInv, Queued, Span, InFlight, senderVars, At

LEMMA LanesStay ==
  ASSUME LanesInv, UNCHANGED lanes
  PROVE  LanesInv'
BY DEF LanesInv

LEMMA ReceiveKeeps ==
  ASSUME LanesInv, ReceiverInv, NEW l \in Lanes, Receive(l)
  PROVE  LanesInv' /\ ReceiverInv'
<1> DEFINE p == Head(lanes[l])
<1>1. lanes[l] \in Seq(Piece) /\ lanes[l] # <<>>
  BY DEF LanesInv, Receive
<1>2. p \in Piece /\ Tail(lanes[l]) \in Seq(Piece)
  BY <1>1
<1>3. LanesInv'
  BY <1>2 DEF LanesInv, Receive
<1>4. \/ Becomes(File(Heard(Started(Buffer, p), p), p))
      \/ UNCHANGED receiverVars
  BY DEF Receive
<1> HIDE DEF p
<1>5. Sound(File(Heard(Started(Buffer, p), p), p))
  <2> DEFINE q == Started(Buffer, p)
             h == Heard(q, p)
  <2>1. Sound(q) /\ q.started /\ (~Before(p.seq, q.next) => Ahead(p.seq, q.next) <= 2 * Ring)
    BY <1>2, StartedKeeps DEF ReceiverInv
  <2> HIDE DEF q
  <2>2. Sound(h) /\ h.next = q.next /\ h.started = q.started
    BY <2>1, HeardKeeps
  <2> HIDE DEF h
  <2>3. Sound(File(h, p))
    BY <1>2, <2>1, <2>2, FileKeeps
  <2>. QED  BY <2>3 DEF h, q
<1>6. ReceiverInv'
  BY <1>4, <1>5, BecomesSound, ReceiverStays
<1>. QED  BY <1>3, <1>6

LEMMA GiveUpHoleKeeps ==
  ASSUME ReceiverInv, GiveUpHole
  PROVE  ReceiverInv'
<1> DEFINE limit == Plus(next, Ring)
<1>1. next \in Numbers
  BY BufferIs DEF ReceiverInv, Sound, Filed
<1>2. limit \in Numbers /\ Ahead(limit, next) = Ring
  BY <1>1, PlusIs, PlusAhead, Constants
<1>3. Becomes(SkipTo(Buffer, Lowest(Buffer, limit)))
  BY DEF GiveUpHole
<1> HIDE DEF limit
<1>4. Sound(SkipTo(Buffer, Lowest(Buffer, limit)))
  <2>1. Ahead(limit, Buffer.next) >= Ring /\ Ahead(limit, Buffer.next) <= 2 * Ring
    BY <1>2, BufferIs, Amounts
  <2>. QED  BY <1>2, <2>1, SkipKeeps DEF ReceiverInv
<1>. QED  BY <1>3, <1>4, BecomesSound

LEMMA SendAckKeeps ==
  ASSUME ReceiverInv, SendAck
  PROVE  ReceiverInv'
<1> DEFINE r == [Buffer EXCEPT !.news = FALSE]
<1>1. /\ DOMAIN r = Fields /\ r.started = started /\ r.next = next /\ r.hi = hi
      /\ r.rx = rx /\ r.gap = gap /\ r.news = FALSE /\ r.jumped = jumped /\ r.asm = asm /\ r.out = out
  BY DEF Buffer, Fields
<1>2. Becomes(r)
  BY <1>1 DEF SendAck, Becomes
<1> HIDE DEF r
<1>3. Filed(r)
  BY <1>1, BufferIs DEF ReceiverInv, Sound, Filed
<1>4. Flags(r)
  BY <1>1, BufferIs DEF ReceiverInv, Sound, Flags
<1>. QED  BY <1>1, <1>2, <1>3, <1>4, BecomesSound DEF Sound

\* The invariant holds in the beginning ...
LEMMA InitIInv == Init => IInv
<1> SUFFICES ASSUME Init PROVE IInv
  OBVIOUS
<1>1. seq \in Numbers
  BY RingAssumption DEF Init, RingAssumption, Numbers
<1>2. /\ taken = 0 /\ cut = 0 /\ restarts = 0 /\ low = Plus(seq, 1) /\ tx = Empty /\ resend = {}
      /\ lanes = [l \in Lanes |-> <<>>]
  BY DEF Init
<1>3. SenderInv
  <2>1. /\ low \in Numbers /\ Span = 0 /\ tx \in [0..Ring - 1 -> Piece \cup {None}]
        /\ \A i \in 0..Ring - 1 : tx[i] = None
    BY <1>1, <1>2, Fresh DEF Span
  <2>2. taken \in 0..Len(Sizes)
    BY <1>2, RingAssumption DEF RingAssumption
  <2>. QED  BY <1>1, <1>2, <2>1, <2>2, Amounts DEF SenderInv, Queued
<1>4. LanesInv
  BY <1>2 DEF LanesInv
<1>5. ReceiverInv
  <2>1. next = 0 /\ hi = 0 /\ rx = Empty /\ started = FALSE /\ gap = FALSE /\ news = FALSE /\ jumped = FALSE
    BY DEF Init
  <2>2. 0 \in Numbers
    BY Constants
  <2>3. Filed(Buffer)
    BY <1>1, <2>1, <2>2, BufferIs, Fresh DEF Filed
  <2>4. Flags(Buffer)
    BY <2>1, BufferIs DEF Flags
  <2>. QED  BY <2>3, <2>4, BufferIs DEF ReceiverInv, Sound
<1>. QED  BY <1>3, <1>4, <1>5 DEF IInv

\* What a step leaves in a slot that was taken: the piece that was there, unless
\* the sender starts anew.
Kept == \A i \in 0..Ring - 1 :
          tx[i] # None /\ tx'[i] # None /\ tx'[i] # tx[i] => restarts' # restarts

\* ... and every step keeps it, and what is in flight in its place.
LEMMA StepIInv == IInv /\ [Next]_vars => IInv' /\ Kept
<1> SUFFICES ASSUME IInv, [Next]_vars PROVE IInv' /\ Kept
  OBVIOUS
<1> USE DEF IInv
<1>1. ASSUME NEW l \in Lanes, Resend(l) PROVE IInv' /\ Kept
  <2>1. PICK s \in resend :
          /\ At(tx, s) /\ Put(l, tx[Slot(s)]) /\ resend' = resend \ {s}
          /\ UNCHANGED <<patient, taken, cut, first, seq, low, tx, restarts, acks, receiverVars>>
    BY <1>1 DEF Resend
  <2>2. SenderInv'
    BY <2>1 DEF SenderInv, Queued, Span, InFlight, At
  <2>3. LanesInv'
    <3>1. s \in InFlight
      BY DEF SenderInv
    <3>. QED  BY <2>1, <3>1, FlightIsPiece, PutKeeps
  <2>4. ReceiverInv'
    BY <2>1, ReceiverStays
  <2>. QED  BY <2>1, <2>2, <2>3, <2>4 DEF Kept
<1>2. ASSUME NEW l \in Lanes, SendNew(l) PROVE IInv' /\ Kept
  <2>1. UNCHANGED receiverVars
    BY <1>2 DEF SendNew
  <2>. QED  BY <1>2, <2>1, SendNewKeeps, ReceiverStays DEF Kept
<1>3. ASSUME NEW l \in Lanes, Copy(l) PROVE IInv' /\ Kept
  <2>1. PICK s \in InFlight \ resend :
          Put(l, tx[Slot(s)]) /\ UNCHANGED <<patient, senderVars, acks, receiverVars>>
    BY <1>3 DEF Copy
  <2>2. LanesInv'
    BY <2>1, FlightIsPiece, PutKeeps
  <2>. QED  BY <2>1, <2>2, SenderStays, ReceiverStays DEF Kept
<1>4. ASSUME NEW l \in Lanes, Receive(l) PROVE IInv' /\ Kept
  <2>1. UNCHANGED senderVars
    BY <1>4 DEF Receive
  <2>. QED  BY <1>4, <2>1, ReceiveKeeps, SenderStays DEF Kept
<1>5. CASE DetectLoss
  <2>1. UNCHANGED lanes /\ UNCHANGED receiverVars
    BY <1>5 DEF DetectLoss
  <2>. QED  BY <1>5, <2>1, DetectLossKeeps, LanesStay, ReceiverStays DEF Kept
<1>6. CASE OnAck
  <2>1. UNCHANGED lanes /\ UNCHANGED receiverVars
    BY <1>6 DEF OnAck
  <2>. QED  BY <1>6, <2>1, OnAckKeeps, LanesStay, ReceiverStays DEF Kept
<1>7. CASE Restart
  <2>1. UNCHANGED receiverVars
    BY <1>7 DEF Restart
  <2>. QED  BY <1>7, <2>1, RestartKeeps, ReceiverStays DEF Kept
<1>8. CASE GiveUpHole
  <2>1. UNCHANGED lanes /\ UNCHANGED senderVars
    BY <1>8 DEF GiveUpHole
  <2>. QED  BY <1>8, <2>1, GiveUpHoleKeeps, LanesStay, SenderStays DEF Kept
<1>9. CASE SendAck
  <2>1. UNCHANGED lanes /\ UNCHANGED senderVars
    BY <1>9 DEF SendAck
  <2>. QED  BY <1>9, <2>1, SendAckKeeps, LanesStay, SenderStays DEF Kept
<1>10. CASE UNCHANGED vars
  <2>1. UNCHANGED lanes /\ UNCHANGED senderVars /\ UNCHANGED receiverVars
    BY <1>10 DEF vars
  <2>. QED  BY <2>1, LanesStay, SenderStays, ReceiverStays DEF Kept
<1>. QED  BY <1>1, <1>2, <1>3, <1>4, <1>5, <1>6, <1>7, <1>8, <1>9, <1>10 DEF Next

LEMMA IInvTypes == IInv => TypeOK
<1> SUFFICES ASSUME IInv PROVE TypeOK
  OBVIOUS
<1>1. /\ taken \in 0..Len(Sizes) /\ seq \in Numbers /\ low \in Numbers
      /\ tx \in [0..Ring - 1 -> Piece \cup {None}] /\ resend \subseteq InFlight
  BY DEF IInv, SenderInv, Queued
<1>2. Filed(Buffer) /\ Flags(Buffer)
  BY DEF IInv, ReceiverInv, Sound
<1>3. next \in Numbers /\ hi \in Numbers /\ rx \in [0..Ring - 1 -> Piece \cup {None}]
  BY <1>2, BufferIs DEF Filed
<1>4. ASSUME NEW i \in 0..Ring - 1, rx[i] # None PROVE Ahead(rx[i].seq, next) \in 0..Ring - 1
  <2>1. rx[i].seq \in Numbers /\ Ahead(rx[i].seq, next) < Ring
    BY <1>2, <1>4, BufferIs, WaitingIs DEF Filed
  <2>2. Ahead(rx[i].seq, next) \in Nat
    BY <1>3, <2>1, AheadIs
  <2>. QED  BY <2>1, <2>2, Amounts
<1>5. gap \in BOOLEAN /\ news \in BOOLEAN /\ jumped \in BOOLEAN
  BY <1>2, BufferIs DEF Flags
<1>. QED  BY <1>1, <1>3, <1>4, <1>5 DEF TypeOK

\* The variables of both ends have their types, and whatever waits at the receiver
\* is less than a window ahead of what comes next: however far ahead, late, often or
\* out of order pieces arrive, and wherever the sender starts anew (push, skipToLocked,
\* resyncLocked).
THEOREM LinkTypes == Spec => []TypeOK
<1>1. Spec => []IInv
  BY InitIInv, StepIInv, PTL DEF Spec
<1>. QED  BY <1>1, IInvTypes, PTL

\* A piece in flight keeps its slot of the sender's ring until it was acked or given
\* up, whatever acks come in whichever order and whatever the ring's size (pull).
THEOREM SlotsKept == Spec => NothingOverwritten
<1>1. Spec => []IInv
  BY InitIInv, StepIInv, PTL DEF Spec
<1>2. IInv /\ [Next]_vars => Kept
  BY StepIInv
<1>3. IInv /\ [Next]_vars => [Kept]_vars
  BY <1>2
<1>4. Spec => [][Kept]_vars
  BY <1>1, <1>3, PTL DEF Spec
<1>. QED  BY <1>4, PTL DEF NothingOverwritten, Kept
=============================================================================
