------------------------------ MODULE FrameLink ------------------------------
\* What a striped link promises to the tunnel above it: a frame handed to
\* it comes out at most once, after the frames handed over before it, or
\* not at all.  How frames are cut, sent, lost, resent and put back in
\* order is not visible.
EXTENDS Naturals, Sequences

VARIABLES
  taken,  \* frames handed over so far; they are numbered from 1
  out     \* the numbers of those that came out, in order

vars == <<taken, out>>

Newest == IF out = <<>> THEN 0 ELSE out[Len(out)]

Init == taken = 0 /\ out = <<>>

Take == taken' = taken + 1 /\ UNCHANGED out

\* One arrival may complete several frames.
Deliver ==
  /\ Len(out') > Len(out)
  /\ SubSeq(out', 1, Len(out)) = out
  /\ out'[Len(out) + 1] > Newest
  /\ \A i \in Len(out) + 2 .. Len(out') : out'[i] > out'[i - 1]
  /\ out'[Len(out')] <= taken
  /\ UNCHANGED taken

Next == Take \/ Deliver

Spec == Init /\ [][Next]_vars
=============================================================================
