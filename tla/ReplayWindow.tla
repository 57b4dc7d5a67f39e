---------------------------- MODULE ReplayWindow ----------------------------
\* The replay window of transport/session.go: a ring of bits, one slot for
\* every sequence number modulo its size, and the newest number accepted.
\* "accepted" and "last" record what was decided and have no counterpart
\* in the code.
EXTENDS Integers

CONSTANTS
  Size,    \* replayWindowSize
  MaxSeq   \* the largest sequence number (2^64 - 1 in the code)

ASSUME SizeAssumption == Size \in Nat \ {0} /\ MaxSeq \in Nat

VARIABLES
  highest,   \* Session.highest
  window,    \* Session.window: slot -> bit
  accepted,  \* history: the numbers accepted since the window was last reset
  last       \* history: the number decided last, and the decision

vars == <<highest, window, accepted, last>>

Slots == 0..(Size - 1)

Slot(n) == n % Size

Blank == [i \in Slots |-> FALSE]

\* replayWindow.has
Has(n) == window[Slot(n)]

\* acceptSequenceLocked: a number no newer than the newest, inside the window.
Late(n) == n # 0 /\ n <= highest /\ highest - n < Size

\* The window with the bits of the numbers from a to b taken out.
Uncleared(a, b) == window                                         \* mutant
Without(a, b) ==
  [i \in Slots |-> window[i] /\ \A m \in a..b : Slot(m) # i]

Init ==
  /\ highest = 0
  /\ window = Blank
  /\ accepted = {}
  /\ last = <<0, "refused">>

\* acceptSequenceLocked, a number above the newest one: the slots of the numbers
\* skipped over are cleared, or all of them when the ring has turned once.
Advance(n) ==
  /\ n > highest
  /\ window' = [IF n - highest >= Size THEN Blank ELSE Without(highest + 1, n)
                  EXCEPT ![Slot(n)] = TRUE]
  /\ highest' = n
  /\ accepted' = accepted \cup {n}
  /\ last' = <<n, "accepted">>

\* acceptSequenceLocked, a late number that is in the window and was not seen.
FillIn(n) ==
  /\ Late(n)
  /\ ~Has(n)
  /\ window' = [window EXCEPT ![Slot(n)] = TRUE]
  /\ accepted' = accepted \cup {n}
  /\ last' = <<n, "accepted">>
  /\ UNCHANGED highest

\* acceptSequenceLocked, the refusals.
Refuse(n) ==
  /\ \/ n = 0
     \/ n <= highest /\ (~Late(n) \/ Has(n))
  /\ last' = <<n, "refused">>
  /\ UNCHANGED <<highest, window, accepted>>

\* resetLocked and offerReplacementLocked start a new window.
Reset ==
  /\ highest' = 0
  /\ window' = Blank
  /\ accepted' = {}
  /\ last' = <<0, "refused">>

Next == Reset \/ \E n \in 0..MaxSeq : Advance(n) \/ FillIn(n) \/ Refuse(n)

Spec == Init /\ [][Next]_vars

-----------------------------------------------------------------------------
TypeOK ==
  /\ highest \in 0..MaxSeq
  /\ window \in [Slots -> BOOLEAN]
  /\ accepted \subseteq 1..highest
  /\ last \in (0..MaxSeq) \X {"accepted", "refused"}

\* Every slot tells the truth about the one number of the window it stands for:
\* no bit survives a full turn of the ring, and none is lost.  (the clearing
\* loop of acceptSequenceLocked.)
RingExact ==
  \A n \in 1..highest :
    highest - n < Size => (window[Slot(n)] <=> n \in accepted)

\* The decisions of the ring are those of the set of accepted numbers.
Abstract == INSTANCE ReplaySet

RefinesReplaySet == Abstract!Spec
=============================================================================
