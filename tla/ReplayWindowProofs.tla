------------------------- MODULE ReplayWindowProofs -------------------------
\* For every ring size and every range of sequence numbers, the ring of
\* bits decides as the set of accepted numbers does.
EXTENDS ReplayWindow, TLAPS

\* Two numbers closer together than the ring is long have different slots.
LEMMA SlotsDiffer ==
  ASSUME NEW a \in Nat, NEW b \in Nat, a < b, b - a < Size
  PROVE  Slot(a) # Slot(b)
<1> USE SizeAssumption DEF SizeAssumption
<1> DEFINE p == a \div Size
           q == b \div Size
<1>1. p \in Int /\ q \in Int
  OBVIOUS
<1>2. a = (Size * p) + (a % Size) /\ b = (Size * q) + (b % Size)
  OBVIOUS
<1> HIDE DEF p, q
<1>3. SUFFICES ASSUME a % Size = b % Size PROVE FALSE
  BY DEF Slot
<1>4. b - a = Size * q - Size * p
  BY <1>1, <1>2, <1>3
<1>5. b - a = Size * (q - p)
  BY <1>1, <1>4
<1>6. CASE q <= p
  <2>1. Size * (q - p) <= 0
    BY <1>1, <1>6
  <2>. QED  BY <1>5, <2>1
<1>7. CASE q >= p + 1
  <2>1. Size * (q - p) >= Size
    BY <1>1, <1>7
  <2>. QED  BY <1>5, <2>1
<1>. QED  BY <1>1, <1>6, <1>7

\* A number has a slot of the ring.
LEMMA SlotInRing ==
  ASSUME NEW n \in Nat
  PROVE  Slot(n) \in Slots
BY SizeAssumption DEF SizeAssumption, Slot, Slots

\* The variables have their types in every reachable state.
THEOREM TypeCorrect == Spec => []TypeOK
<1>1. Init => TypeOK
  <2> SUFFICES ASSUME Init PROVE TypeOK
    OBVIOUS
  <2>1. highest \in 0..MaxSeq /\ accepted \subseteq 1..highest
    BY SizeAssumption DEF SizeAssumption, Init
  <2>2. window \in [Slots -> BOOLEAN]
    BY DEF Init, Blank
  <2>3. last \in (0..MaxSeq) \X {"accepted", "refused"}
    BY SizeAssumption DEF SizeAssumption, Init
  <2>. QED  BY <2>1, <2>2, <2>3 DEF TypeOK
<1>2. TypeOK /\ [Next]_vars => TypeOK'
  <2> SUFFICES ASSUME TypeOK, [Next]_vars PROVE TypeOK'
    OBVIOUS
  <2> USE SizeAssumption DEF SizeAssumption
  <2>1. CASE Reset
    <3>1. highest' \in 0..MaxSeq /\ accepted' \subseteq 1..highest'
      BY <2>1 DEF Reset
    <3>2. window' \in [Slots -> BOOLEAN]
      BY <2>1 DEF Reset, Blank
    <3>3. last' \in (0..MaxSeq) \X {"accepted", "refused"}
      BY <2>1 DEF Reset
    <3>. QED  BY <3>1, <3>2, <3>3 DEF TypeOK
  <2>2. ASSUME NEW n \in 0..MaxSeq, Advance(n) PROVE TypeOK'
    <3>1. window' \in [Slots -> BOOLEAN]
      BY <2>2 DEF TypeOK, Advance, Blank, Without
    <3>2. highest' \in 0..MaxSeq /\ accepted' \subseteq 1..highest'
      BY <2>2 DEF TypeOK, Advance
    <3>3. last' \in (0..MaxSeq) \X {"accepted", "refused"}
      BY <2>2 DEF TypeOK, Advance
    <3>. QED  BY <3>1, <3>2, <3>3 DEF TypeOK
  <2>3. ASSUME NEW n \in 0..MaxSeq, FillIn(n) PROVE TypeOK'
    <3>1. window' \in [Slots -> BOOLEAN]
      BY <2>3 DEF TypeOK, FillIn, Late
    <3>2. highest' \in 0..MaxSeq /\ accepted' \subseteq 1..highest'
      BY <2>3 DEF TypeOK, FillIn, Late
    <3>3. last' \in (0..MaxSeq) \X {"accepted", "refused"}
      BY <2>3 DEF FillIn, Late
    <3>. QED  BY <3>1, <3>2, <3>3 DEF TypeOK
  <2>4. ASSUME NEW n \in 0..MaxSeq, Refuse(n) PROVE TypeOK'
    BY <2>4 DEF TypeOK, Refuse, Late
  <2>5. CASE UNCHANGED vars
    BY <2>5 DEF TypeOK, vars
  <2>. QED  BY <2>1, <2>2, <2>3, <2>4, <2>5 DEF Next
<1>. QED  BY <1>1, <1>2, PTL DEF Spec

\* Clearing the skipped numbers leaves exactly the bits of the numbers that stay
\* in the window.
LEMMA AdvanceExact ==
  ASSUME TypeOK, RingExact, NEW n \in 0..MaxSeq, Advance(n)
  PROVE  RingExact'
<1> USE SizeAssumption DEF SizeAssumption
<1> SUFFICES ASSUME NEW m \in 1..n, n - m < Size
             PROVE  window'[Slot(m)] <=> m \in accepted'
  BY DEF RingExact, Advance
<1>0. highest \in Nat /\ n \in Nat /\ n > highest /\ m \in Nat
  BY DEF TypeOK, Advance
<1>1. Slot(m) \in Slots /\ Slot(n) \in Slots
  BY <1>0, SlotInRing
<1>2. CASE m = n
  <2>1. window'[Slot(n)] = TRUE
    BY <1>1 DEF Advance, Blank, Without
  <2>. QED  BY <1>2, <2>1 DEF Advance
<1>3. CASE m # n
  <2>1. Slot(m) # Slot(n)
    BY <1>0, <1>3, SlotsDiffer
  <2>2. m \in accepted' <=> m \in accepted
    BY <1>3 DEF Advance
  <2>3. CASE n - highest >= Size
    <3>1. ~ window'[Slot(m)]
      BY <1>1, <2>1, <2>3 DEF Advance, Blank
    <3>2. m \notin accepted
      BY <1>0, <2>3 DEF TypeOK
    <3>. QED  BY <2>2, <3>1, <3>2
  <2>4. CASE n - highest < Size
    <3>1. window'[Slot(m)] <=> Without(highest + 1, n)[Slot(m)]
      BY <1>0, <1>1, <2>1, <2>4 DEF Advance, Without
    <3>2. window'[Slot(m)]
            <=> window[Slot(m)] /\ \A k \in (highest + 1)..n : Slot(k) # Slot(m)
      BY <1>1, <3>1 DEF Without
    <3>3. CASE m > highest
      <4>1. m \in (highest + 1)..n
        BY <1>0, <3>3
      <4>2. m \notin accepted
        BY <1>0, <3>3 DEF TypeOK
      <4>. QED  BY <2>2, <3>2, <4>1, <4>2
    <3>4. CASE m <= highest
      <4>1. ASSUME NEW k \in (highest + 1)..n PROVE Slot(k) # Slot(m)
        <5>1. k \in Nat /\ m < k /\ k - m < Size
          BY <1>0, <3>4
        <5>. QED  BY <1>0, <5>1, SlotsDiffer
      <4>2. window[Slot(m)] <=> m \in accepted
        BY <1>0, <3>4 DEF RingExact
      <4>. QED  BY <2>2, <3>2, <4>1, <4>2
    <3>. QED  BY <1>0, <3>3, <3>4
  <2>. QED  BY <1>0, <2>3, <2>4
<1>. QED  BY <1>2, <1>3

\* Setting the bit of a late number disturbs no other number of the window.
LEMMA FillInExact ==
  ASSUME TypeOK, RingExact, NEW n \in 0..MaxSeq, FillIn(n)
  PROVE  RingExact'
<1> USE SizeAssumption DEF SizeAssumption
<1> SUFFICES ASSUME NEW m \in 1..highest, highest - m < Size
             PROVE  window'[Slot(m)] <=> m \in accepted'
  BY DEF RingExact, FillIn, Late
<1>0. highest \in Nat /\ n \in Nat /\ m \in Nat
  BY DEF TypeOK
<1>1. Slot(m) \in Slots /\ Slot(n) \in Slots
  BY <1>0, SlotInRing
<1>2. window[Slot(m)] <=> m \in accepted
  BY DEF RingExact
<1>3. CASE m = n
  BY <1>1, <1>3 DEF FillIn, Late, TypeOK
<1>4. CASE m # n
  <2>1. Slot(m) # Slot(n)
    <3>1. CASE m < n
      <4>1. n - m < Size
        BY <1>0, <3>1 DEF FillIn, Late
      <4>. QED  BY <1>0, <3>1, <4>1, SlotsDiffer
    <3>2. CASE n < m
      <4>1. m - n < Size
        BY <1>0, <3>2 DEF FillIn, Late
      <4>. QED  BY <1>0, <3>2, <4>1, SlotsDiffer
    <3>. QED  BY <1>0, <1>4, <3>1, <3>2
  <2>. QED  BY <1>1, <1>2, <1>4, <2>1 DEF FillIn, Late, TypeOK
<1>. QED  BY <1>3, <1>4

\* In every reachable state the ring agrees with the set of accepted numbers on
\* the whole window.
THEOREM RingIsExact == Spec => []RingExact
<1>1. Init => RingExact
  BY DEF Init, RingExact
<1>2. TypeOK /\ RingExact /\ [Next]_vars => RingExact'
  <2> SUFFICES ASSUME TypeOK, RingExact, [Next]_vars PROVE RingExact'
    OBVIOUS
  <2>1. CASE Reset
    BY <2>1 DEF RingExact, Reset
  <2>2. ASSUME NEW n \in 0..MaxSeq, Advance(n) PROVE RingExact'
    BY <2>2, AdvanceExact
  <2>3. ASSUME NEW n \in 0..MaxSeq, FillIn(n) PROVE RingExact'
    BY <2>3, FillInExact
  <2>4. ASSUME NEW n \in 0..MaxSeq, Refuse(n) PROVE RingExact'
    BY <2>4 DEF RingExact, Refuse, Late
  <2>5. CASE UNCHANGED vars
    BY <2>5 DEF RingExact, vars
  <2>. QED  BY <2>1, <2>2, <2>3, <2>4, <2>5 DEF Next
<1>. QED  BY <1>1, <1>2, TypeCorrect, PTL DEF Spec

\* Each decision of the ring is the one the abstract specification allows: a
\* number is accepted once, and none in the window is refused wrongly.
THEOREM RingRefinesSet == Spec => RefinesReplaySet
<1> USE SizeAssumption DEF SizeAssumption
<1>1. Init => Abstract!Init
  BY DEF Init, Abstract!Init
<1>2. TypeOK /\ RingExact /\ [Next]_vars => [Abstract!Next]_(Abstract!vars)
  <2> SUFFICES ASSUME TypeOK, RingExact, [Next]_vars
               PROVE  [Abstract!Next]_(Abstract!vars)
    OBVIOUS
  <2> USE DEF Abstract!Next, Abstract!vars
  <2>0. highest \in Nat
    BY DEF TypeOK
  <2>1. CASE Reset
    BY <2>1 DEF Reset, Abstract!Reset
  <2>2. ASSUME NEW n \in 0..MaxSeq, Advance(n)
        PROVE  Abstract!Accept(n)
    <3>1. n \notin accepted /\ n # 0 /\ n + Size > highest
      BY <2>0, <2>2 DEF Advance, TypeOK
    <3>. QED  BY <2>0, <2>2, <3>1 DEF Advance, Abstract!Accept, Abstract!Admissible
  <2>3. ASSUME NEW n \in 0..MaxSeq, FillIn(n)
        PROVE  Abstract!Accept(n)
    <3>1. n \in 1..highest /\ highest - n < Size
      BY <2>0, <2>3 DEF FillIn, Late
    <3>2. n \notin accepted
      BY <2>3, <3>1 DEF FillIn, Late, RingExact, Has
    <3>. QED  BY <2>0, <2>3, <3>1, <3>2 DEF FillIn, Late, Abstract!Accept, Abstract!Admissible
  <2>4. ASSUME NEW n \in 0..MaxSeq, Refuse(n)
        PROVE  Abstract!Refuse(n)
    <3>1. ~ Abstract!Admissible(n)
      <4>1. CASE n = 0
        BY <4>1 DEF Abstract!Admissible
      <4>2. CASE n # 0 /\ n <= highest /\ highest - n >= Size
        BY <2>0, <4>2 DEF Abstract!Admissible
      <4>3. CASE n # 0 /\ n <= highest /\ highest - n < Size /\ Has(n)
        <5>1. n \in 1..highest
          BY <2>0, <4>3
        <5>2. n \in accepted
          BY <4>3, <5>1 DEF RingExact, Has
        <5>. QED  BY <5>2 DEF Abstract!Admissible
      <4>. QED  BY <2>0, <2>4, <4>1, <4>2, <4>3 DEF Refuse, Late
    <3>. QED  BY <2>4, <3>1 DEF Refuse, Late, Abstract!Refuse, Late
  <2>5. CASE UNCHANGED vars
    BY <2>5 DEF vars
  <2>. QED  BY <2>1, <2>2, <2>3, <2>4, <2>5 DEF Next
<1>. QED BY <1>1, <1>2, TypeCorrect, RingIsExact, PTL DEF Spec, RefinesReplaySet, Abstract!Spec
=============================================================================
