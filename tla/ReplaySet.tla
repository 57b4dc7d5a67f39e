------------------------------ MODULE ReplaySet ------------------------------
\* What the replay protection of a Session promises, without the ring of
\* bits that implements it: a number is accepted iff it is not 0, was not
\* accepted before and is fewer than Size numbers behind the newest one.
EXTENDS Integers

CONSTANTS Size, MaxSeq

VARIABLES highest, accepted, last

vars == <<highest, accepted, last>>

Admissible(n) == /\ n # 0
                 /\ n \notin accepted
                 /\ n + Size > highest

Init == highest = 0 /\ accepted = {} /\ last = <<0, "refused">>

Accept(n) ==
  /\ Admissible(n)
  /\ highest' = IF n > highest THEN n ELSE highest
  /\ accepted' = accepted \cup {n}
  /\ last' = <<n, "accepted">>

Refuse(n) ==
  /\ ~Admissible(n)
  /\ last' = <<n, "refused">>
  /\ UNCHANGED <<highest, accepted>>

Reset == highest' = 0 /\ accepted' = {} /\ last' = <<0, "refused">>

Next == Reset \/ \E n \in 0..MaxSeq : Accept(n) \/ Refuse(n)

Spec == Init /\ [][Next]_vars
=============================================================================
