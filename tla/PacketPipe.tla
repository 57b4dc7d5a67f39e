---------------------------- MODULE PacketPipe ----------------------------
\* What a batching layer promises its user, without queue or batches:
\* packets leave in the order in which they were let in, each at most
\* once, and only what was let in leaves.
EXTENDS Naturals, Sequences

CONSTANT Packets

VARIABLES
    in,     \* the packets let in, in that order
    out     \* how many of them have left

Init ==
    /\ in = <<>>
    /\ out = 0

Accept(p) ==
    /\ in' = Append(in, p)
    /\ UNCHANGED out

Leave(n) ==
    /\ out + n <= Len(in)
    /\ out' = out + n
    /\ UNCHANGED in

Next ==
    \/ \E p \in Packets : Accept(p)
    \/ \E n \in 1..Len(in) : Leave(n)

Spec == Init /\ [][Next]_<<in, out>>
============================================================================
