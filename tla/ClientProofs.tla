---------------------------- MODULE ClientProofs ----------------------------
\* What the users of a node have, each an instance with its variables told
\* apart by a letter, and what none of them ever breaks: streams over a
\* carrier, the locations of the subscription service, and its accounts.
EXTENDS Naturals, FiniteSets, Sequences, FiniteSetTheorems, SequenceTheorems, TLAPS

CONSTANT Nothing    \* what None is to the instances

-----------------------------------------------------------------------------
\* Streams over a carrier (StreamMux)

CONSTANTS
    \* of StreamMux: its Streams, Scenes, Window and Total
    Flows, Usages, PerFlow, AllFlows

\* A frame fits into an empty window.
ASSUME FlowsAssumption == IsFiniteSet(Flows) /\ PerFlow \in Nat \ {0} /\ AllFlows \in Nat

VARIABLES
    mScene, mApp, mKnown, mAnswer, mClosed, mEof, mRbuf, mGot, mWriter,
    mWritten, mSent, mAcked, mConsumed, mAckedSent, mTotalUp, mAckQ, mDead,
    mUp, mCtl, mBulk, mEx, mDials, mHeld, mDst, mFed, mExSent, mExAcked,
    mWrote, mExAckedSent, mInAll, mOpens, mLosses, mRaced

muxVars ==
    <<mScene, mApp, mKnown, mAnswer, mClosed, mEof, mRbuf, mGot, mWriter,
    mWritten, mSent, mAcked, mConsumed, mAckedSent, mTotalUp, mAckQ, mDead,
    mUp, mCtl, mBulk, mEx, mDials, mHeld, mDst, mFed, mExSent, mExAcked,
    mWrote, mExAckedSent, mInAll, mOpens, mLosses, mRaced>>

Mux == INSTANCE StreamMux WITH
    scene <- mScene, app <- mApp, known <- mKnown, answer <- mAnswer,
    closed <- mClosed, eof <- mEof, rbuf <- mRbuf, got <- mGot,
    writer <- mWriter, written <- mWritten, sent <- mSent, acked <- mAcked,
    consumed <- mConsumed, ackedSent <- mAckedSent, totalUp <- mTotalUp,
    ackQ <- mAckQ, dead <- mDead, up <- mUp, ctl <- mCtl, bulk <- mBulk,
    ex <- mEx, dials <- mDials, held <- mHeld, dst <- mDst, fed <- mFed,
    exSent <- mExSent, exAcked <- mExAcked, wrote <- mWrote,
    exAckedSent <- mExAckedSent, inAll <- mInAll, opens <- mOpens,
    losses <- mLosses, raced <- mRaced, Streams <- Flows,
    Scenes <- Usages, Window <- PerFlow, Total <- AllFlows

\* Lemmas about one direction of one stream.

LEMMA MuxAppended ==
    ASSUME NEW T, NEW s \in Seq(T), NEW x \in T
    PROVE  /\ Append(s, x) \in Seq(T) /\ Len(Append(s, x)) = Len(s) + 1 /\ Len(s) \in Nat
           /\ \A j \in 1..Len(s) : Append(s, x)[j] = s[j]
           /\ Append(s, x)[Len(s) + 1] = x
  BY AppendProperties, LenProperties

LEMMA MuxTailed ==
    ASSUME NEW T, NEW s \in Seq(T), s # <<>>
    PROVE  /\ Tail(s) \in Seq(T) /\ Len(Tail(s)) = Len(s) - 1 /\ Len(s) \in Nat /\ 1 <= Len(s)
           /\ Head(s) = s[1] /\ Head(s) \in T
           /\ \A j \in 1..Len(s) - 1 : Tail(s)[j] = s[j + 1]
<1>1. Head(s) \in T /\ Tail(s) \in Seq(T) /\ Len(Tail(s)) = Len(s) - 1
  BY HeadTailProperties
<1>2. \A j \in 1..Len(Tail(s)) : Tail(s)[j] = s[j + 1]
  BY HeadTailProperties
<1>3. Len(s) \in Nat /\ 1 <= Len(s) /\ Head(s) = s[1]
  BY EmptySeq, LenProperties
<1> QED BY <1>1, <1>2, <1>3

\* What is read goes on being what has come.
LEMMA MuxRead ==
    ASSUME NEW T, NEW g \in Seq(T), NEW r \in Seq(T), r # <<>>
    PROVE  Append(g, Head(r)) \o Tail(r) = g \o r
<1>1. /\ Tail(r) \in Seq(T) /\ Len(Tail(r)) = Len(r) - 1 /\ Len(r) \in Nat /\ 1 <= Len(r)
      /\ Head(r) = r[1] /\ Head(r) \in T
      /\ \A j \in 1..Len(r) - 1 : Tail(r)[j] = r[j + 1]
  BY MuxTailed
<1>2. PICK a : a = Append(g, Head(r))
  OBVIOUS
<1>3. PICK q : q = Tail(r)
  OBVIOUS
<1>4. /\ a \in Seq(T) /\ Len(a) = Len(g) + 1 /\ Len(g) \in Nat
      /\ \A j \in 1..Len(g) : a[j] = g[j]
      /\ a[Len(g) + 1] = Head(r)
  BY <1>1, <1>2, MuxAppended
<1>5. /\ q \in Seq(T) /\ Len(q) = Len(r) - 1 /\ \A j \in 1..Len(r) - 1 : q[j] = r[j + 1]
  BY <1>1, <1>3
<1>6. a \o q \in Seq(T) /\ g \o r \in Seq(T)
  BY <1>4, <1>5, ConcatProperties
<1>7. Len(a \o q) = Len(g) + Len(r) /\ Len(g \o r) = Len(g) + Len(r)
  <2>1. Len(a \o q) = Len(a) + Len(q) /\ Len(g \o r) = Len(g) + Len(r)
    BY <1>4, <1>5, ConcatProperties
  <2>2. Len(a) + Len(q) = Len(g) + Len(r)
    BY <1>1, <1>4, <1>5
  <2> QED BY <2>1, <2>2
<1>8. ASSUME NEW j \in 1..(Len(g) + Len(r)) PROVE (a \o q)[j] = (g \o r)[j]
  <2>1. (a \o q)[j] = IF j <= Len(a) THEN a[j] ELSE q[j - Len(a)]
    BY <1>1, <1>4, <1>5, ConcatProperties
  <2>2. (g \o r)[j] = IF j <= Len(g) THEN g[j] ELSE r[j - Len(g)]
    BY <1>1, <1>4, ConcatProperties
  <2>3. CASE j <= Len(g)
    BY <1>1, <1>4, <2>1, <2>2, <2>3
  <2>4. CASE j = Len(g) + 1
    BY <1>1, <1>4, <2>1, <2>2, <2>4
  <2>5. CASE j > Len(g) + 1
    <3>1. (a \o q)[j] = q[j - (Len(g) + 1)]
      BY <1>4, <2>1, <2>5
    <3>2. j - (Len(g) + 1) \in 1..Len(r) - 1
      BY <1>1, <1>4, <2>5
    <3>3. q[j - (Len(g) + 1)] = r[(j - (Len(g) + 1)) + 1]
      BY <1>5, <3>2
    <3>4. (j - (Len(g) + 1)) + 1 = j - Len(g)
      BY <1>4
    <3> QED BY <1>4, <2>2, <2>5, <3>1, <3>3, <3>4
  <2>6. j <= Len(g) \/ j = Len(g) + 1 \/ j > Len(g) + 1
    BY <1>1, <1>4
  <2> QED BY <2>3, <2>4, <2>5, <2>6
<1>9. a \o q = g \o r
  BY <1>6, <1>7, <1>8, SeqEqual
<1> QED BY <1>2, <1>3, <1>9

LEMMA MuxJoined ==
    ASSUME NEW T, NEW g \in Seq(T), NEW r \in Seq(T), NEW x \in T
    PROVE  g \o Append(r, x) = Append(g \o r, x)
<1>1. PICK q : q = Append(r, x)
  OBVIOUS
<1>2. /\ q \in Seq(T) /\ Len(q) = Len(r) + 1 /\ Len(r) \in Nat
      /\ \A j \in 1..Len(r) : q[j] = r[j]
      /\ q[Len(r) + 1] = x
  BY <1>1, MuxAppended
<1>3. PICK p : p = g \o r
  OBVIOUS
<1>4. /\ p \in Seq(T) /\ Len(p) = Len(g) + Len(r) /\ Len(g) \in Nat
      /\ \A j \in 1..(Len(g) + Len(r)) : p[j] = IF j <= Len(g) THEN g[j] ELSE r[j - Len(g)]
  BY <1>3, ConcatProperties, LenProperties
<1>5. PICK z : z = Append(p, x)
  OBVIOUS
<1>6. /\ z \in Seq(T) /\ Len(z) = Len(g) + Len(r) + 1
      /\ \A j \in 1..(Len(g) + Len(r)) : z[j] = p[j]
      /\ z[Len(g) + Len(r) + 1] = x
  BY <1>4, <1>5, MuxAppended
<1>7. /\ g \o q \in Seq(T) /\ Len(g \o q) = Len(g) + Len(r) + 1
      /\ \A j \in 1..(Len(g) + Len(r) + 1) : (g \o q)[j] = IF j <= Len(g) THEN g[j] ELSE q[j - Len(g)]
  BY <1>2, <1>4, ConcatProperties
<1>8. ASSUME NEW j \in 1..(Len(g) + Len(r) + 1) PROVE (g \o q)[j] = z[j]
  <2>1. CASE j <= Len(g)
    <3>1. j \in 1..(Len(g) + Len(r)) /\ j \in 1..(Len(g) + Len(r) + 1)
      <4>1. Len(g) \in Nat /\ Len(r) \in Nat
        BY <1>2, <1>4
      <4> QED BY <2>1, <4>1
    <3>2. (g \o q)[j] = g[j]
      BY <1>7, <2>1, <3>1
    <3>3. z[j] = p[j] /\ p[j] = g[j]
      BY <1>4, <1>6, <2>1, <3>1
    <3> QED BY <3>2, <3>3
  <2>2. CASE j > Len(g) /\ j <= Len(g) + Len(r)
    <3>1. j - Len(g) \in 1..Len(r)
      BY <1>2, <1>4, <2>2
    <3>2. ~(j <= Len(g)) /\ j \in 1..(Len(g) + Len(r))
      BY <1>2, <1>4, <2>2
    <3>3. (g \o q)[j] = q[j - Len(g)]
      BY <1>7, <3>2
    <3>4. z[j] = r[j - Len(g)]
      BY <1>4, <1>6, <3>2
    <3> QED BY <1>2, <3>1, <3>3, <3>4
  <2>3. CASE j = Len(g) + Len(r) + 1
    <3>1. j - Len(g) = Len(r) + 1 /\ ~(j <= Len(g))
      BY <1>2, <1>4, <2>3
    <3> QED BY <1>2, <1>6, <1>7, <2>3, <3>1
  <2>4. j <= Len(g) \/ (j > Len(g) /\ j <= Len(g) + Len(r)) \/ j = Len(g) + Len(r) + 1
    <3>1. j \in Nat /\ j <= Len(g) + Len(r) + 1
      BY <1>2, <1>4
    <3>2. Len(g) \in Nat /\ Len(r) \in Nat
      BY <1>2, <1>4
    <3> QED BY <3>1, <3>2
  <2> QED BY <2>1, <2>2, <2>3, <2>4
<1>9. g \o q = z
  BY <1>6, <1>7, <1>8, SeqEqual
<1> QED BY <1>1, <1>3, <1>5, <1>9

\* The frame the destination of the present connection gave last comes last.
LEMMA MuxFed ==
    ASSUME NEW in, NEW b, NEW d, NEW f, Mux!Incoming(in, b, d, f), NEW x,
           x = [type |-> "DATA", val |-> <<d, f + 1>>]
    PROVE  Mux!Incoming(in, Append(b, x), d, f + 1)
<1>1. /\ in \in Seq(Mux!Pairs) /\ b \in Seq(Mux!BulkFrames) /\ d \in Nat /\ f \in Nat
  BY DEF Mux!Incoming
<1>2. x \in Mux!BulkFrames /\ x.type = "DATA" /\ x.val = <<d, f + 1>>
  BY <1>1 DEF Mux!BulkFrames, Mux!Pairs
<1>3. PICK c : c = Append(b, x)
  OBVIOUS
<1>4. /\ c \in Seq(Mux!BulkFrames) /\ Len(c) = Len(b) + 1 /\ Len(b) \in Nat
      /\ \A j \in 1..Len(b) : c[j] = b[j]
      /\ c[Len(b) + 1] = x
  BY <1>1, <1>2, <1>3, MuxAppended
<1>5. \A j \in 1..Len(in) : in[j] \in Mux!Pairs
  BY <1>1, ElementOfSeq
<1>6. \A k \in 1..Len(b) : b[k].type = "DATA" => b[k].val \in Mux!Pairs
  <2>1. \A k \in 1..Len(b) : b[k] \in Mux!BulkFrames
    BY <1>1, ElementOfSeq
  <2> QED BY <2>1 DEF Mux!BulkFrames
<1>7. \A p \in Mux!Pairs : Mux!Less(p, <<d, f + 1>>) => Mux!Less(p, <<d, (f + 1) + 1>>)
  BY <1>1 DEF Mux!Less, Mux!Pairs
<1>8. Mux!Less(<<d, f + 1>>, <<d, (f + 1) + 1>>)
  BY <1>1 DEF Mux!Less
<1>9. \A j \in 1..Len(in) : Mux!Less(in[j], <<d, f + 1>>)
  BY DEF Mux!Incoming
<1>10. \A k \in 1..Len(c) : k \in 1..Len(b) \/ (k = Len(b) + 1 /\ c[k] = x)
  BY <1>4
<1>11. \A j \in 1..Len(in) : Mux!Less(in[j], <<d, (f + 1) + 1>>)
  BY <1>5, <1>7, <1>9
<1>12. \A k \in 1..Len(c) : c[k].type = "DATA" =>
           /\ Mux!Less(c[k].val, <<d, (f + 1) + 1>>)
           /\ \A j \in 1..Len(in) : Mux!Less(in[j], c[k].val)
  <2>1. ASSUME NEW k \in 1..Len(b), b[k].type = "DATA"
        PROVE  Mux!Less(b[k].val, <<d, (f + 1) + 1>>) /\ \A j \in 1..Len(in) : Mux!Less(in[j], b[k].val)
    <3>1. Mux!Less(b[k].val, <<d, f + 1>>) /\ \A j \in 1..Len(in) : Mux!Less(in[j], b[k].val)
      BY <2>1 DEF Mux!Incoming
    <3> QED BY <2>1, <3>1, <1>6, <1>7
  <2> QED BY <1>2, <1>4, <1>8, <1>9, <1>10, <2>1
<1>13. \A j \in 1..Len(c), k \in 1..Len(c) :
           j < k /\ c[j].type = "DATA" /\ c[k].type = "DATA" => Mux!Less(c[j].val, c[k].val)
  <2> SUFFICES ASSUME NEW j \in 1..Len(c), NEW k \in 1..Len(c),
                      j < k, c[j].type = "DATA", c[k].type = "DATA"
               PROVE  Mux!Less(c[j].val, c[k].val)
    OBVIOUS
  <2>1. j \in 1..Len(b) /\ c[j] = b[j]
    BY <1>4
  <2>2. CASE k \in 1..Len(b)
    BY <1>4, <2>1, <2>2 DEF Mux!Incoming
  <2>3. CASE k = Len(b) + 1
    <3>1. Mux!Less(b[j].val, <<d, f + 1>>)
      BY <2>1 DEF Mux!Incoming
    <3> QED BY <1>2, <1>4, <2>1, <2>3, <3>1
  <2> QED BY <1>4, <2>2, <2>3
<1>14. Mux!Rising(in) /\ f + 1 \in Nat
  BY <1>1 DEF Mux!Incoming
<1> QED BY <1>1, <1>3, <1>4, <1>11, <1>12, <1>13, <1>14 DEF Mux!Incoming

LEMMA MuxShut ==
    ASSUME NEW in, NEW b, NEW d, NEW f, Mux!Incoming(in, b, d, f), NEW x,
           x = [type |-> "CLOSE", val |-> 0]
    PROVE  Mux!Incoming(in, Append(b, x), d, f)
<1>1. /\ in \in Seq(Mux!Pairs) /\ b \in Seq(Mux!BulkFrames) /\ d \in Nat /\ f \in Nat
  BY DEF Mux!Incoming
<1>2. x \in Mux!BulkFrames /\ x.type # "DATA"
  BY DEF Mux!BulkFrames
<1>3. PICK c : c = Append(b, x)
  OBVIOUS
<1>4. /\ c \in Seq(Mux!BulkFrames) /\ Len(c) = Len(b) + 1 /\ Len(b) \in Nat
      /\ \A j \in 1..Len(b) : c[j] = b[j]
      /\ c[Len(b) + 1] = x
  BY <1>1, <1>2, <1>3, MuxAppended
<1>5. \A k \in 1..Len(c) : c[k].type = "DATA" => k \in 1..Len(b) /\ c[k] = b[k]
  BY <1>2, <1>4
<1>6. Mux!Rising(in) /\ \A j \in 1..Len(in) : Mux!Less(in[j], <<d, f + 1>>)
  BY DEF Mux!Incoming
<1>7. \A k \in 1..Len(c) : c[k].type = "DATA" =>
          Mux!Less(c[k].val, <<d, f + 1>>) /\ \A j \in 1..Len(in) : Mux!Less(in[j], c[k].val)
  BY <1>5 DEF Mux!Incoming
<1>8. \A j \in 1..Len(c), k \in 1..Len(c) :
          j < k /\ c[j].type = "DATA" /\ c[k].type = "DATA" => Mux!Less(c[j].val, c[k].val)
  BY <1>5 DEF Mux!Incoming
<1> QED BY <1>1, <1>3, <1>4, <1>6, <1>7, <1>8 DEF Mux!Incoming

\* All that came of earlier connections comes before the first frame of the next.
LEMMA MuxRedials ==
    ASSUME NEW in, NEW b, NEW d, NEW f, Mux!Incoming(in, b, d, f)
    PROVE  Mux!Incoming(in, b, d + 1, 0)
<1>1. /\ in \in Seq(Mux!Pairs) /\ b \in Seq(Mux!BulkFrames) /\ d \in Nat /\ f \in Nat
  BY DEF Mux!Incoming
<1>5. \A j \in 1..Len(in) : in[j] \in Mux!Pairs
  BY <1>1, ElementOfSeq
<1>6. \A k \in 1..Len(b) : b[k].type = "DATA" => b[k].val \in Mux!Pairs
  <2>1. \A k \in 1..Len(b) : b[k] \in Mux!BulkFrames
    BY <1>1, ElementOfSeq
  <2> QED BY <2>1 DEF Mux!BulkFrames
<1>7. \A p \in Mux!Pairs : Mux!Less(p, <<d, f + 1>>) => Mux!Less(p, <<d + 1, 0 + 1>>)
  BY <1>1 DEF Mux!Less, Mux!Pairs
<1>8. \A j \in 1..Len(in) : Mux!Less(in[j], <<d + 1, 0 + 1>>)
  BY <1>5, <1>7 DEF Mux!Incoming
<1>9. \A k \in 1..Len(b) : b[k].type = "DATA" =>
          Mux!Less(b[k].val, <<d + 1, 0 + 1>>) /\ \A j \in 1..Len(in) : Mux!Less(in[j], b[k].val)
  BY <1>6, <1>7 DEF Mux!Incoming
<1>10. d + 1 \in Nat /\ 0 \in Nat /\ Mux!Rising(in)
  BY <1>1 DEF Mux!Incoming
<1>11. \A j \in 1..Len(b), k \in 1..Len(b) :
          j < k /\ b[j].type = "DATA" /\ b[k].type = "DATA" => Mux!Less(b[j].val, b[k].val)
  BY DEF Mux!Incoming
<1> QED BY <1>1, <1>8, <1>9, <1>10, <1>11 DEF Mux!Incoming

\* The next frame taken, or let go.
LEMMA MuxTaken ==
    ASSUME NEW in, NEW b, NEW d, NEW f, Mux!Incoming(in, b, d, f), b # <<>>
    PROVE  /\ Mux!Incoming(in, Tail(b), d, f)
           /\ Head(b).type = "DATA" =>
                  Head(b).val \in Mux!Pairs /\ Mux!Incoming(Append(in, Head(b).val), Tail(b), d, f)
<1>1. /\ in \in Seq(Mux!Pairs) /\ b \in Seq(Mux!BulkFrames) /\ d \in Nat /\ f \in Nat
  BY DEF Mux!Incoming
<1>2. PICK c : c = Tail(b)
  OBVIOUS
<1>3. /\ c \in Seq(Mux!BulkFrames) /\ Len(c) = Len(b) - 1 /\ Len(b) \in Nat /\ 1 <= Len(b)
      /\ Head(b) = b[1] /\ Head(b) \in Mux!BulkFrames
      /\ \A j \in 1..Len(b) - 1 : c[j] = b[j + 1]
  BY <1>1, <1>2, MuxTailed
<1>4. \A k \in 1..Len(c) : k + 1 \in 1..Len(b) /\ c[k] = b[k + 1] /\ 1 < k + 1
  BY <1>3
<1>5. \A k \in 1..Len(c) : c[k].type = "DATA" =>
          Mux!Less(c[k].val, <<d, f + 1>>) /\ \A j \in 1..Len(in) : Mux!Less(in[j], c[k].val)
  BY <1>4 DEF Mux!Incoming
<1>6. \A j \in 1..Len(c), k \in 1..Len(c) :
          j < k /\ c[j].type = "DATA" /\ c[k].type = "DATA" => Mux!Less(c[j].val, c[k].val)
  <2> SUFFICES ASSUME NEW j \in 1..Len(c), NEW k \in 1..Len(c),
                      j < k, c[j].type = "DATA", c[k].type = "DATA"
               PROVE  Mux!Less(c[j].val, c[k].val)
    OBVIOUS
  <2>1. j + 1 \in 1..Len(b) /\ k + 1 \in 1..Len(b) /\ j + 1 < k + 1
    BY <1>3, <1>4
  <2>2. c[j] = b[j + 1] /\ c[k] = b[k + 1]
    BY <1>4
  <2> QED BY <2>1, <2>2 DEF Mux!Incoming
<1>7. Mux!Rising(in) /\ \A j \in 1..Len(in) : Mux!Less(in[j], <<d, f + 1>>)
  BY DEF Mux!Incoming
<1>8. Mux!Incoming(in, c, d, f)
  BY <1>1, <1>3, <1>5, <1>6, <1>7 DEF Mux!Incoming
<1>9. ASSUME Head(b).type = "DATA"
      PROVE  Head(b).val \in Mux!Pairs /\ Mux!Incoming(Append(in, Head(b).val), c, d, f)
  <2>1. PICK p : p = Head(b).val
    OBVIOUS
  <2>2. p \in Mux!Pairs /\ p = b[1].val /\ b[1].type = "DATA" /\ 1 \in 1..Len(b)
    BY <1>3, <1>9, <2>1 DEF Mux!BulkFrames
  <2>3. PICK z : z = Append(in, p)
    OBVIOUS
  <2>4. /\ z \in Seq(Mux!Pairs) /\ Len(z) = Len(in) + 1 /\ Len(in) \in Nat
        /\ \A j \in 1..Len(in) : z[j] = in[j]
        /\ z[Len(in) + 1] = p
    BY <1>1, <2>2, <2>3, MuxAppended
  <2>5. Mux!Less(p, <<d, f + 1>>) /\ \A j \in 1..Len(in) : Mux!Less(in[j], p)
    BY <2>2 DEF Mux!Incoming
  <2>6. \A k \in 1..Len(c) : c[k].type = "DATA" => Mux!Less(p, c[k].val)
    BY <1>4, <2>2 DEF Mux!Incoming
  <2>7. Mux!Rising(z)
    <3> SUFFICES ASSUME NEW j \in 1..Len(z), NEW k \in 1..Len(z), j < k
                 PROVE  Mux!Less(z[j], z[k])
      BY DEF Mux!Rising
    <3>1. j \in 1..Len(in) /\ z[j] = in[j]
      BY <2>4
    <3>2. CASE k \in 1..Len(in)
      BY <1>7, <2>4, <3>1, <3>2 DEF Mux!Rising
    <3>3. CASE k = Len(in) + 1
      BY <2>4, <2>5, <3>1, <3>3
    <3> QED BY <2>4, <3>2, <3>3
  <2>8. \A j \in 1..Len(z) : Mux!Less(z[j], <<d, f + 1>>)
    BY <1>7, <2>4, <2>5
  <2>9. \A k \in 1..Len(c) : c[k].type = "DATA" =>
            Mux!Less(c[k].val, <<d, f + 1>>) /\ \A j \in 1..Len(z) : Mux!Less(z[j], c[k].val)
    BY <1>5, <2>4, <2>6
  <2>10. Mux!Incoming(z, c, d, f)
    BY <1>1, <1>3, <1>6, <2>4, <2>7, <2>8, <2>9 DEF Mux!Incoming
  <2> QED BY <2>1, <2>2, <2>3, <2>10
<1> QED BY <1>2, <1>8, <1>9

LEMMA MuxInLost ==
    ASSUME NEW in, NEW b, NEW d, NEW f, Mux!Incoming(in, b, d, f)
    PROVE  Mux!Incoming(in, <<>>, d, f)
<1>1. <<>> \in Seq(Mux!BulkFrames)
  OBVIOUS
<1>2. PICK e : e = <<>>
  OBVIOUS
<1>3. Len(e) = 0 /\ e \in Seq(Mux!BulkFrames)
  BY <1>1, <1>2
<1>4. \A k \in 1..Len(e) : FALSE
  BY <1>3
<1>5. Mux!Incoming(in, e, d, f)
  BY <1>3, <1>4 DEF Mux!Incoming
<1> QED BY <1>2, <1>5

\* The next frame of a Write comes last.
LEMMA MuxSends ==
    ASSUME NEW u, NEW h, NEW o, NEW d, NEW w, Mux!Outgoing(u, h, o, d, w), NEW x,
           x = [type |-> "DATA", val |-> w + 1]
    PROVE  /\ Mux!Outgoing(Append(u, x), h, o, d, w + 1)
           /\ Mux!Reaches(u, h, o, w) => Mux!Reaches(Append(u, x), h, o, w + 1)
<1>1. /\ u \in Seq(Mux!UpFrames) /\ h \in Seq(Nat) /\ o \in Seq(Mux!Pairs) /\ d \in Nat /\ w \in Nat
  BY DEF Mux!Outgoing
<1>2. x \in Mux!UpFrames /\ x.type = "DATA" /\ x.val = w + 1
  BY <1>1 DEF Mux!UpFrames
<1>3. PICK c : c = Append(u, x)
  OBVIOUS
<1>4. /\ c \in Seq(Mux!UpFrames) /\ Len(c) = Len(u) + 1 /\ Len(u) \in Nat
      /\ \A j \in 1..Len(u) : c[j] = u[j]
      /\ c[Len(u) + 1] = x
  BY <1>1, <1>2, <1>3, MuxAppended
<1>5. \A k \in 1..Len(c) : k \in 1..Len(u) \/ (k = Len(u) + 1 /\ c[k] = x)
  BY <1>4
<1>6. \A k \in 1..Len(h) : h[k] \in 1..w
  BY DEF Mux!Outgoing
<1>7. \A j \in 1..Len(o) : o[j][1] <= d /\ o[j][2] <= w /\ o[j] \in Mux!Pairs
  <2>1. \A j \in 1..Len(o) : o[j] \in Mux!Pairs
    BY <1>1, ElementOfSeq
  <2> QED BY <2>1 DEF Mux!Outgoing
<1>8. \A k \in 1..Len(u) : u[k].type = "DATA" => u[k].val \in 1..w
  BY DEF Mux!Outgoing
<1>9. \A j \in 1..Len(c), k \in 1..Len(c) :
          j < k /\ c[j].type = "DATA" /\ c[k].type = "DATA" => c[j].val < c[k].val
  <2> SUFFICES ASSUME NEW j \in 1..Len(c), NEW k \in 1..Len(c),
                      j < k, c[j].type = "DATA", c[k].type = "DATA"
               PROVE  c[j].val < c[k].val
    OBVIOUS
  <2>1. j \in 1..Len(u) /\ c[j] = u[j]
    BY <1>4
  <2>2. CASE k \in 1..Len(u)
    BY <1>4, <2>1, <2>2 DEF Mux!Outgoing
  <2>3. CASE k = Len(u) + 1
    <3>1. u[j].val \in 1..w
      BY <1>8, <2>1
    <3> QED BY <1>1, <1>2, <1>4, <2>1, <2>3, <3>1
  <2> QED BY <1>4, <2>2, <2>3
<1>10. \A k \in 1..Len(c) : c[k].type = "DATA" =>
           /\ c[k].val \in 1..(w + 1)
           /\ \A j \in 1..Len(h) : h[j] < c[k].val
           /\ \A j \in 1..Len(o) : o[j][2] < c[k].val
  <2> SUFFICES ASSUME NEW k \in 1..Len(c), c[k].type = "DATA"
               PROVE  /\ c[k].val \in 1..(w + 1)
                      /\ \A j \in 1..Len(h) : h[j] < c[k].val
                      /\ \A j \in 1..Len(o) : o[j][2] < c[k].val
    OBVIOUS
  <2>1. CASE k \in 1..Len(u)
    <3>1. /\ u[k].val \in 1..w
          /\ \A j \in 1..Len(h) : h[j] < u[k].val
          /\ \A j \in 1..Len(o) : o[j][2] < u[k].val
      BY <1>4, <2>1 DEF Mux!Outgoing
    <3> QED BY <1>1, <1>4, <2>1, <3>1
  <2>2. CASE k = Len(u) + 1
    <3>1. c[k].val = w + 1
      BY <1>2, <1>4, <2>2
    <3>2. \A j \in 1..Len(h) : h[j] < w + 1
      BY <1>1, <1>6
    <3>3. \A j \in 1..Len(o) : o[j][2] < w + 1
      <4> TAKE j \in 1..Len(o)
      <4>1. o[j] \in Mux!Pairs /\ o[j][2] <= w
        BY <1>7
      <4>2. o[j][2] \in Nat
        BY <4>1 DEF Mux!Pairs
      <4> QED BY <1>1, <4>1, <4>2
    <3> QED BY <1>1, <3>1, <3>2, <3>3
  <2> QED BY <1>4, <2>1, <2>2
<1>11. /\ \A j \in 1..Len(h), k \in 1..Len(h) : j < k => h[j] < h[k]
       /\ \A k \in 1..Len(h) : h[k] \in 1..(w + 1) /\ \A j \in 1..Len(o) : o[j][2] < h[k]
       /\ Mux!Rising(o)
  <2>1. \A j \in 1..Len(h), k \in 1..Len(h) : j < k => h[j] < h[k]
    BY DEF Mux!Outgoing
  <2>2. \A k \in 1..Len(h) : \A j \in 1..Len(o) : o[j][2] < h[k]
    BY DEF Mux!Outgoing
  <2>3. \A k \in 1..Len(h) : h[k] \in 1..(w + 1)
    BY <1>1, <1>6
  <2>4. Mux!Rising(o)
    BY DEF Mux!Outgoing
  <2> QED BY <2>1, <2>2, <2>3, <2>4
<1>12. \A j \in 1..Len(o) : o[j][1] <= d /\ o[j][2] <= w + 1
  <2> TAKE j \in 1..Len(o)
  <2>1. o[j] \in Mux!Pairs /\ o[j][2] <= w /\ o[j][1] <= d
    BY <1>7
  <2>2. o[j][2] \in Nat
    BY <2>1 DEF Mux!Pairs
  <2> QED BY <1>1, <2>1, <2>2
<1>13. Mux!Outgoing(c, h, o, d, w + 1)
  BY <1>1, <1>4, <1>9, <1>10, <1>11, <1>12 DEF Mux!Outgoing
<1>14. ASSUME Mux!Reaches(u, h, o, w) PROVE Mux!Reaches(c, h, o, w + 1)
  <2>1. PICK n : n = Len(o) + Len(h)
    OBVIOUS
  <2>2. n \in Nat /\ n <= w
    BY <1>1, <1>14, <2>1, LenProperties DEF Mux!Reaches
  <2>3. \A k \in 1..Len(u) : u[k].type = "DATA" => n < u[k].val
    BY <1>14, <2>1 DEF Mux!Reaches
  <2>4. \A k \in 1..Len(c) : c[k].type = "DATA" => n < c[k].val
    <3> SUFFICES ASSUME NEW k \in 1..Len(c), c[k].type = "DATA" PROVE n < c[k].val
      OBVIOUS
    <3>1. CASE k \in 1..Len(u)
      BY <1>4, <2>3, <3>1
    <3>2. CASE k = Len(u) + 1 /\ c[k] = x
      <4>1. n < w + 1
        BY <1>1, <2>2
      <4> QED BY <1>2, <3>2, <4>1
    <3> QED BY <1>5, <3>1, <3>2
  <2>5. ASSUME NEW m \in (n + 1)..(w + 1)
        PROVE  \E k \in 1..Len(c) : c[k].type = "DATA" /\ c[k].val = m
    <3>1. CASE m = w + 1
      <4>1. Len(u) + 1 \in 1..Len(c)
        BY <1>4
      <4> QED BY <1>2, <1>4, <3>1, <4>1
    <3>2. CASE m # w + 1
      <4>1. m \in (n + 1)..w
        BY <1>1, <2>2, <3>2
      <4>2. PICK k \in 1..Len(u) : u[k].type = "DATA" /\ u[k].val = m
        BY <1>14, <2>1, <4>1 DEF Mux!Reaches
      <4> QED BY <1>4, <4>2
    <3> QED BY <3>1, <3>2
  <2>6. \A j \in 1..Len(h) : h[j] = Len(o) + j
    BY <1>14 DEF Mux!Reaches
  <2>7. n <= w + 1
    BY <1>1, <2>2
  <2> QED BY <2>1, <2>4, <2>5, <2>6, <2>7 DEF Mux!Reaches
<1> QED BY <1>3, <1>13, <1>14

LEMMA MuxSays ==
    ASSUME NEW u, NEW h, NEW o, NEW d, NEW w, Mux!Outgoing(u, h, o, d, w),
           NEW x \in Mux!UpFrames, x.type # "DATA"
    PROVE  /\ Mux!Outgoing(Append(u, x), h, o, d, w)
           /\ Mux!Reaches(u, h, o, w) => Mux!Reaches(Append(u, x), h, o, w)
<1>1. /\ u \in Seq(Mux!UpFrames) /\ h \in Seq(Nat) /\ o \in Seq(Mux!Pairs) /\ d \in Nat /\ w \in Nat
  BY DEF Mux!Outgoing
<1>3. PICK c : c = Append(u, x)
  OBVIOUS
<1>4. /\ c \in Seq(Mux!UpFrames) /\ Len(c) = Len(u) + 1 /\ Len(u) \in Nat
      /\ \A j \in 1..Len(u) : c[j] = u[j]
      /\ c[Len(u) + 1] = x
  BY <1>1, <1>3, MuxAppended
<1>5. \A k \in 1..Len(c) : c[k].type = "DATA" => k \in 1..Len(u) /\ c[k] = u[k]
  BY <1>4
<1>6. \A j \in 1..Len(c), k \in 1..Len(c) :
          j < k /\ c[j].type = "DATA" /\ c[k].type = "DATA" => c[j].val < c[k].val
  BY <1>5 DEF Mux!Outgoing
<1>7. \A k \in 1..Len(c) : c[k].type = "DATA" =>
           /\ c[k].val \in 1..w
           /\ \A j \in 1..Len(h) : h[j] < c[k].val
           /\ \A j \in 1..Len(o) : o[j][2] < c[k].val
  BY <1>5 DEF Mux!Outgoing
<1>8. Mux!Outgoing(c, h, o, d, w)
  BY <1>1, <1>4, <1>6, <1>7 DEF Mux!Outgoing
<1>9. ASSUME Mux!Reaches(u, h, o, w) PROVE Mux!Reaches(c, h, o, w)
  <2>1. \A k \in 1..Len(c) : c[k].type = "DATA" => Len(o) + Len(h) < c[k].val
    BY <1>5, <1>9 DEF Mux!Reaches
  <2>2. \A n \in (Len(o) + Len(h) + 1)..w : \E k \in 1..Len(c) : c[k].type = "DATA" /\ c[k].val = n
    <3>1. \A k \in 1..Len(u) : k \in 1..Len(c) /\ c[k] = u[k]
      BY <1>4
    <3> QED BY <1>9, <3>1 DEF Mux!Reaches
  <2> QED BY <1>9, <2>1, <2>2 DEF Mux!Reaches
<1> QED BY <1>3, <1>8, <1>9

\* The next frame, let go or (DATA) kept for the dial.
LEMMA MuxComes ==
    ASSUME NEW u, NEW h, NEW o, NEW d, NEW w, Mux!Outgoing(u, h, o, d, w), u # <<>>
    PROVE  /\ Mux!Outgoing(Tail(u), h, o, d, w) /\ Head(u) \in Mux!UpFrames
           /\ Mux!Reaches(u, h, o, w) /\ Head(u).type # "DATA" => Mux!Reaches(Tail(u), h, o, w)
           /\ Head(u).type = "DATA" =>
                 /\ Mux!Outgoing(Tail(u), Append(h, Head(u).val), o, d, w)
                 /\ Mux!Reaches(u, h, o, w) => Mux!Reaches(Tail(u), Append(h, Head(u).val), o, w)
<1>1. /\ u \in Seq(Mux!UpFrames) /\ h \in Seq(Nat) /\ o \in Seq(Mux!Pairs) /\ d \in Nat /\ w \in Nat
  BY DEF Mux!Outgoing
<1>2. PICK c : c = Tail(u)
  OBVIOUS
<1>3. /\ c \in Seq(Mux!UpFrames) /\ Len(c) = Len(u) - 1 /\ Len(u) \in Nat /\ 1 <= Len(u)
      /\ Head(u) = u[1] /\ Head(u) \in Mux!UpFrames
      /\ \A j \in 1..Len(u) - 1 : c[j] = u[j + 1]
  BY <1>1, <1>2, MuxTailed
<1>4. \A k \in 1..Len(c) : k + 1 \in 1..Len(u) /\ c[k] = u[k + 1] /\ 1 < k + 1
  BY <1>3
<1>5. \A j \in 1..Len(c), k \in 1..Len(c) :
          j < k /\ c[j].type = "DATA" /\ c[k].type = "DATA" => c[j].val < c[k].val
  <2> SUFFICES ASSUME NEW j \in 1..Len(c), NEW k \in 1..Len(c),
                      j < k, c[j].type = "DATA", c[k].type = "DATA"
               PROVE  c[j].val < c[k].val
    OBVIOUS
  <2>1. j + 1 \in 1..Len(u) /\ k + 1 \in 1..Len(u) /\ j + 1 < k + 1
    BY <1>3, <1>4
  <2>2. c[j] = u[j + 1] /\ c[k] = u[k + 1]
    BY <1>4
  <2> QED BY <2>1, <2>2 DEF Mux!Outgoing
<1>6. \A k \in 1..Len(c) : c[k].type = "DATA" =>
           /\ c[k].val \in 1..w
           /\ \A j \in 1..Len(h) : h[j] < c[k].val
           /\ \A j \in 1..Len(o) : o[j][2] < c[k].val
  BY <1>4 DEF Mux!Outgoing
<1>7. /\ \A j \in 1..Len(h), k \in 1..Len(h) : j < k => h[j] < h[k]
      /\ \A k \in 1..Len(h) : h[k] \in 1..w /\ \A j \in 1..Len(o) : o[j][2] < h[k]
      /\ Mux!Rising(o)
      /\ \A j \in 1..Len(o) : o[j][1] <= d /\ o[j][2] <= w
  BY DEF Mux!Outgoing
<1>8. Mux!Outgoing(c, h, o, d, w)
  BY <1>1, <1>3, <1>5, <1>6, <1>7 DEF Mux!Outgoing
<1>9. ASSUME Mux!Reaches(u, h, o, w), Head(u).type # "DATA" PROVE Mux!Reaches(c, h, o, w)
  <2>1. \A k \in 1..Len(c) : c[k].type = "DATA" => Len(o) + Len(h) < c[k].val
    <3>1. \A k \in 1..Len(u) : u[k].type = "DATA" => Len(o) + Len(h) < u[k].val
      BY <1>9 DEF Mux!Reaches
    <3> QED BY <1>4, <3>1
  <2>2. ASSUME NEW n \in (Len(o) + Len(h) + 1)..w
        PROVE  \E k \in 1..Len(c) : c[k].type = "DATA" /\ c[k].val = n
    <3>1. PICK k \in 1..Len(u) : u[k].type = "DATA" /\ u[k].val = n
      BY <1>9 DEF Mux!Reaches
    <3>2. k # 1
      BY <1>3, <1>9, <3>1
    <3>3. k - 1 \in 1..Len(c) /\ (k - 1) + 1 = k /\ k - 1 \in 1..Len(u) - 1
      BY <1>3, <3>2
    <3>4. c[k - 1] = u[k]
      BY <1>3, <3>3
    <3> QED BY <3>1, <3>3, <3>4
  <2> QED BY <1>9, <2>1, <2>2 DEF Mux!Reaches
<1>10. ASSUME Head(u).type = "DATA"
       PROVE  /\ Mux!Outgoing(c, Append(h, Head(u).val), o, d, w)
              /\ Mux!Reaches(u, h, o, w) => Mux!Reaches(c, Append(h, Head(u).val), o, w)
  <2>1. PICK v : v = Head(u).val
    OBVIOUS
  <2>2. v = u[1].val /\ u[1].type = "DATA" /\ 1 \in 1..Len(u) /\ v \in Nat
    BY <1>3, <1>10, <2>1 DEF Mux!UpFrames
  <2>3. PICK z : z = Append(h, v)
    OBVIOUS
  <2>4. /\ z \in Seq(Nat) /\ Len(z) = Len(h) + 1 /\ Len(h) \in Nat
        /\ \A j \in 1..Len(h) : z[j] = h[j]
        /\ z[Len(h) + 1] = v
    BY <1>1, <2>2, <2>3, MuxAppended
  <2>5. /\ v \in 1..w /\ \A j \in 1..Len(h) : h[j] < v
        /\ \A j \in 1..Len(o) : o[j][2] < v
    BY <2>2 DEF Mux!Outgoing
  <2>6. \A k \in 1..Len(c) : c[k].type = "DATA" => v < c[k].val
    BY <1>4, <2>2 DEF Mux!Outgoing
  <2>7. \A k \in 1..Len(z) : (k \in 1..Len(h) /\ z[k] = h[k]) \/ (k = Len(h) + 1 /\ z[k] = v)
    BY <2>4
  <2>8. \A k \in 1..Len(c) : c[k].type = "DATA" =>
           /\ c[k].val \in 1..w
           /\ \A j \in 1..Len(z) : z[j] < c[k].val
           /\ \A j \in 1..Len(o) : o[j][2] < c[k].val
    BY <1>6, <2>6, <2>7
  <2>9. \A j \in 1..Len(z), k \in 1..Len(z) : j < k => z[j] < z[k]
    <3> SUFFICES ASSUME NEW j \in 1..Len(z), NEW k \in 1..Len(z), j < k
                 PROVE  z[j] < z[k]
      OBVIOUS
    <3>1. j \in 1..Len(h) /\ z[j] = h[j]
      BY <2>4
    <3> QED BY <1>7, <2>5, <2>7, <3>1
  <2>10. \A k \in 1..Len(z) : z[k] \in 1..w /\ \A j \in 1..Len(o) : o[j][2] < z[k]
    BY <1>7, <2>5, <2>7
  <2>11. Mux!Outgoing(c, z, o, d, w)
    BY <1>1, <1>3, <1>5, <1>7, <2>4, <2>8, <2>9, <2>10 DEF Mux!Outgoing
  <2>12. ASSUME Mux!Reaches(u, h, o, w) PROVE Mux!Reaches(c, z, o, w)
    <3>1. PICK n : n = Len(o) + Len(h)
      OBVIOUS
    <3>2. n \in Nat /\ n < v /\ Len(o) + Len(z) = n + 1 /\ Len(o) \in Nat
      <4>1. Len(o) \in Nat
        BY <1>1, LenProperties
      <4>2. Len(o) + Len(h) < v
        BY <2>2, <2>12 DEF Mux!Reaches
      <4> QED BY <2>4, <3>1, <4>1, <4>2
    <3>3. v = n + 1
      <4>1. SUFFICES ASSUME v # n + 1 PROVE FALSE
        OBVIOUS
      <4>2. n + 1 \in (Len(o) + Len(h) + 1)..w
        BY <1>1, <2>5, <3>1, <3>2
      <4>3. PICK k \in 1..Len(u) : u[k].type = "DATA" /\ u[k].val = n + 1
        BY <2>12, <4>2 DEF Mux!Reaches
      <4>4. k # 1
        BY <2>2, <4>1, <4>3
      <4>5. 1 < k
        BY <4>4
      <4>6. u[1].val < u[k].val
        BY <2>2, <4>3, <4>5 DEF Mux!Outgoing
      <4> QED BY <2>2, <3>2, <4>3, <4>6
    <3>4. \A k \in 1..Len(c) : c[k].type = "DATA" => n + 1 < c[k].val
      BY <2>6, <3>3
    <3>5. ASSUME NEW m \in (n + 2)..w
          PROVE  \E k \in 1..Len(c) : c[k].type = "DATA" /\ c[k].val = m
      <4>1. m \in (Len(o) + Len(h) + 1)..w /\ m # v
        BY <1>1, <3>1, <3>2, <3>3
      <4>2. PICK k \in 1..Len(u) : u[k].type = "DATA" /\ u[k].val = m
        BY <2>12, <4>1 DEF Mux!Reaches
      <4>3. k # 1
        BY <2>2, <4>1, <4>2
      <4>4. k - 1 \in 1..Len(c) /\ (k - 1) + 1 = k /\ k - 1 \in 1..Len(u) - 1
        BY <1>3, <4>3
      <4>5. c[k - 1] = u[k]
        BY <1>3, <4>4
      <4> QED BY <4>2, <4>4, <4>5
    <3>6. \A j \in 1..Len(z) : z[j] = Len(o) + j
      <4>1. \A j \in 1..Len(h) : h[j] = Len(o) + j
        BY <2>12 DEF Mux!Reaches
      <4>2. v = Len(o) + (Len(h) + 1)
        BY <2>4, <3>1, <3>2, <3>3
      <4> QED BY <2>7, <4>1, <4>2
    <3>7. Len(o) + Len(z) <= w /\ (Len(o) + Len(z)) + 1 = n + 2
      BY <1>1, <2>5, <3>2, <3>3
    <3>8. \A k \in 1..Len(c) : c[k].type = "DATA" => Len(o) + Len(z) < c[k].val
      BY <3>2, <3>4
    <3>9. \A m \in (Len(o) + Len(z) + 1)..w : \E k \in 1..Len(c) : c[k].type = "DATA" /\ c[k].val = m
      BY <3>5, <3>7
    <3> QED BY <3>6, <3>7, <3>8, <3>9 DEF Mux!Reaches
  <2> QED BY <2>1, <2>3, <2>11, <2>12
<1> QED BY <1>2, <1>3, <1>8, <1>9, <1>10

\* What was kept goes out, and is of the present connection.
LEMMA MuxLetsGo ==
    ASSUME NEW u, NEW h, NEW o, NEW d, NEW w, Mux!Outgoing(u, h, o, d, w)
    PROVE  Mux!Outgoing(u, <<>>, o, d, w)
<1>1. /\ u \in Seq(Mux!UpFrames) /\ h \in Seq(Nat) /\ o \in Seq(Mux!Pairs) /\ d \in Nat /\ w \in Nat
  BY DEF Mux!Outgoing
<1>2. PICK e : e = <<>>
  OBVIOUS
<1>3. <<>> \in Seq(Nat)
  OBVIOUS
<1>4. Len(e) = 0 /\ e \in Seq(Nat)
  BY <1>2, <1>3
<1>5. \A k \in 1..Len(e) : FALSE
  BY <1>4
<1>6. \A k \in 1..Len(u) : u[k].type = "DATA" =>
           u[k].val \in 1..w /\ \A j \in 1..Len(o) : o[j][2] < u[k].val
  BY DEF Mux!Outgoing
<1>7. /\ \A j \in 1..Len(u), k \in 1..Len(u) :
             j < k /\ u[j].type = "DATA" /\ u[k].type = "DATA" => u[j].val < u[k].val
      /\ Mux!Rising(o)
      /\ \A j \in 1..Len(o) : o[j][1] <= d /\ o[j][2] <= w
  BY DEF Mux!Outgoing
<1>8. Mux!Outgoing(u, e, o, d, w)
  BY <1>1, <1>4, <1>5, <1>6, <1>7 DEF Mux!Outgoing
<1> QED BY <1>2, <1>8

LEMMA MuxConnects ==
    ASSUME NEW u, NEW h, NEW o, NEW d, NEW w, Mux!Outgoing(u, h, o, d, w),
           NEW a, a = [j \in 1..Len(h) |-> <<d, h[j]>>]
    PROVE  /\ Mux!Outgoing(u, <<>>, o \o a, d, w)
           /\ o \o a \in Seq(Mux!Pairs)
           /\ Mux!Reaches(u, h, o, w) => Mux!Reaches(u, <<>>, o \o a, w)
           /\ Mux!Reaches(u, h, o, w) /\ Mux!Whole(o) /\ d = 1 => Mux!Whole(o \o a)
<1>1. /\ u \in Seq(Mux!UpFrames) /\ h \in Seq(Nat) /\ o \in Seq(Mux!Pairs) /\ d \in Nat /\ w \in Nat
  BY DEF Mux!Outgoing
<1>2. PICK e : e = <<>>
  OBVIOUS
<1>3. <<>> \in Seq(Nat)
  OBVIOUS
<1>4. Len(e) = 0 /\ e \in Seq(Nat)
  BY <1>2, <1>3
<1>5. \A k \in 1..Len(e) : FALSE
  BY <1>4
<1>6. Len(h) \in Nat /\ Len(o) \in Nat /\ \A j \in 1..Len(h) : h[j] \in Nat
  BY <1>1, ElementOfSeq, LenProperties
<1>7. a \in [1..Len(h) -> Mux!Pairs]
  BY <1>1, <1>6 DEF Mux!Pairs
<1>8. a \in Seq(Mux!Pairs) /\ Len(a) = Len(h)
  <2>1. DOMAIN a = 1..Len(h)
    BY <1>7
  <2>2. a \in Seq(Mux!Pairs)
    BY <1>6, <1>7, <2>1, SeqDef
  <2>3. Len(a) \in Nat /\ 1..Len(a) = 1..Len(h)
    BY <2>1, <2>2, LenProperties
  <2> QED BY <1>6, <2>2, <2>3
<1>9. \A j \in 1..Len(h) : a[j] = <<d, h[j]>>
  OBVIOUS
<1>10. PICK z : z = o \o a
  OBVIOUS
<1>11. /\ z \in Seq(Mux!Pairs) /\ Len(z) = Len(o) + Len(h)
       /\ \A j \in 1..(Len(o) + Len(h)) : z[j] = IF j <= Len(o) THEN o[j] ELSE a[j - Len(o)]
  BY <1>1, <1>8, <1>10, ConcatProperties
<1>12. \A j \in 1..Len(z) :
          \/ j \in 1..Len(o) /\ z[j] = o[j]
          \/ j - Len(o) \in 1..Len(h) /\ z[j] = <<d, h[j - Len(o)]>> /\ Len(o) < j
  <2> SUFFICES ASSUME NEW j \in 1..Len(z)
               PROVE  \/ j \in 1..Len(o) /\ z[j] = o[j]
                      \/ j - Len(o) \in 1..Len(h) /\ z[j] = <<d, h[j - Len(o)]>> /\ Len(o) < j
    OBVIOUS
  <2>1. CASE j <= Len(o)
    BY <1>6, <1>11, <2>1
  <2>2. CASE ~(j <= Len(o))
    <3>1. j - Len(o) \in 1..Len(h) /\ Len(o) < j
      BY <1>6, <1>11, <2>2
    <3>2. z[j] = a[j - Len(o)]
      BY <1>11, <2>2
    <3> QED BY <1>9, <3>1, <3>2
  <2> QED BY <2>1, <2>2
<1>13. \A k \in 1..Len(h) : h[k] \in 1..w /\ \A j \in 1..Len(o) : o[j][2] < h[k]
  BY DEF Mux!Outgoing
<1>14. \A j \in 1..Len(o) : o[j][1] <= d /\ o[j][2] <= w /\ o[j] \in Mux!Pairs
  <2>1. \A j \in 1..Len(o) : o[j] \in Mux!Pairs
    BY <1>1, ElementOfSeq
  <2> QED BY <2>1 DEF Mux!Outgoing
<1>15. Mux!Rising(z)
  <2> SUFFICES ASSUME NEW j \in 1..Len(z), NEW k \in 1..Len(z), j < k
               PROVE  Mux!Less(z[j], z[k])
    BY DEF Mux!Rising
  <2>1. CASE k \in 1..Len(o)
    <3>1. j <= Len(o) /\ k <= Len(o) /\ j \in 1..Len(o)
      BY <1>6, <2>1
    <3>2. j \in 1..(Len(o) + Len(h)) /\ k \in 1..(Len(o) + Len(h))
      BY <1>6, <3>1
    <3>3. z[j] = o[j] /\ z[k] = o[k]
      BY <1>11, <3>1, <3>2
    <3> QED BY <2>1, <3>1, <3>3 DEF Mux!Outgoing, Mux!Rising
  <2>2. CASE k - Len(o) \in 1..Len(h) /\ z[k] = <<d, h[k - Len(o)]>> /\ Len(o) < k
    <3>1. PICK n \in 1..Len(h) : n = k - Len(o)
      BY <2>2
    <3>2. CASE j \in 1..Len(o) /\ z[j] = o[j]
      <4>1. o[j][1] <= d /\ o[j][2] < h[n] /\ o[j] \in Mux!Pairs
        BY <1>13, <1>14, <3>1, <3>2
      <4>2. h[n] \in Nat /\ z[k] = <<d, h[n]>>
        BY <1>6, <2>2, <3>1
      <4>3. o[j][1] \in Nat /\ o[j][2] \in Nat
        BY <4>1 DEF Mux!Pairs
      <4>4. PICK p : p = o[j][1]
        OBVIOUS
      <4>5. PICK q : q = o[j][2]
        OBVIOUS
      <4>6. p < d \/ (p = d /\ q < h[n])
        <5>1. p <= d /\ q < h[n] /\ p \in Nat
          BY <4>1, <4>3, <4>4, <4>5
        <5>2. d \in Nat
          BY <1>1
        <5>3. p < d \/ p = d
          BY <5>1, <5>2
        <5> QED BY <5>1, <5>3
      <4>7. z[j][1] = p /\ z[j][2] = q /\ z[k][1] = d /\ z[k][2] = h[n]
        BY <3>2, <4>2, <4>4, <4>5
      <4> QED BY <4>6, <4>7 DEF Mux!Less
    <3>3. CASE j - Len(o) \in 1..Len(h) /\ z[j] = <<d, h[j - Len(o)]>>
      <4>1. PICK m \in 1..Len(h) : m = j - Len(o)
        BY <3>3
      <4>2. m < n
        BY <1>6, <3>1, <4>1
      <4>3. h[m] < h[n]
        BY <4>2 DEF Mux!Outgoing
      <4> QED BY <2>2, <3>1, <3>3, <4>1, <4>3 DEF Mux!Less
    <3> QED BY <1>12, <3>2, <3>3
  <2> QED BY <1>12, <2>1, <2>2
<1>16. \A j \in 1..Len(z) : z[j][1] <= d /\ z[j][2] <= w
  <2> SUFFICES ASSUME NEW j \in 1..Len(z) PROVE z[j][1] <= d /\ z[j][2] <= w
    OBVIOUS
  <2>1. CASE j \in 1..Len(o) /\ z[j] = o[j]
    BY <1>14, <2>1
  <2>2. CASE j - Len(o) \in 1..Len(h) /\ z[j] = <<d, h[j - Len(o)]>>
    <3>1. h[j - Len(o)] \in 1..w
      BY <1>13, <2>2
    <3> QED BY <1>1, <2>2, <3>1
  <2> QED BY <1>12, <2>1, <2>2
<1>17. ASSUME NEW k \in 1..Len(u), u[k].type = "DATA"
       PROVE  u[k].val \in 1..w /\ \A j \in 1..Len(z) : z[j][2] < u[k].val
  <2>1. /\ u[k].val \in 1..w
        /\ \A j \in 1..Len(h) : h[j] < u[k].val
        /\ \A j \in 1..Len(o) : o[j][2] < u[k].val
    BY <1>17 DEF Mux!Outgoing
  <2>2. ASSUME NEW j \in 1..Len(z) PROVE z[j][2] < u[k].val
    <3>1. CASE j \in 1..Len(o) /\ z[j] = o[j]
      BY <2>1, <3>1
    <3>2. CASE j - Len(o) \in 1..Len(h) /\ z[j] = <<d, h[j - Len(o)]>>
      BY <2>1, <3>2
    <3> QED BY <1>12, <3>1, <3>2
  <2> QED BY <2>1, <2>2
<1>18. \A j \in 1..Len(u), k \in 1..Len(u) :
           j < k /\ u[j].type = "DATA" /\ u[k].type = "DATA" => u[j].val < u[k].val
  BY DEF Mux!Outgoing
<1>19. Mux!Outgoing(u, e, z, d, w)
  BY <1>1, <1>4, <1>5, <1>11, <1>15, <1>16, <1>17, <1>18 DEF Mux!Outgoing
<1>20. ASSUME Mux!Reaches(u, h, o, w) PROVE Mux!Reaches(u, e, z, w)
  <2>1. Len(z) + Len(e) = Len(o) + Len(h)
    BY <1>4, <1>6, <1>11
  <2> QED BY <1>5, <1>20, <2>1 DEF Mux!Reaches
<1>21. ASSUME Mux!Reaches(u, h, o, w), Mux!Whole(o), d = 1 PROVE Mux!Whole(z)
  <2> SUFFICES ASSUME NEW j \in 1..Len(z) PROVE z[j] = <<1, j>>
    BY DEF Mux!Whole
  <2>1. CASE j \in 1..Len(o) /\ z[j] = o[j]
    BY <1>21, <2>1 DEF Mux!Whole
  <2>2. CASE j - Len(o) \in 1..Len(h) /\ z[j] = <<d, h[j - Len(o)]>>
    <3>1. h[j - Len(o)] = Len(o) + (j - Len(o))
      BY <1>21, <2>2 DEF Mux!Reaches
    <3>2. Len(o) + (j - Len(o)) = j
      BY <1>6
    <3> QED BY <1>21, <2>2, <3>1, <3>2
  <2> QED BY <1>12, <2>1, <2>2
<1> QED BY <1>2, <1>10, <1>11, <1>19, <1>20, <1>21

LEMMA MuxOutRedials ==
    ASSUME NEW u, NEW h, NEW o, NEW d, NEW w, Mux!Outgoing(u, h, o, d, w)
    PROVE  Mux!Outgoing(u, h, o, d + 1, w)
<1>1. o \in Seq(Mux!Pairs) /\ d \in Nat
  BY DEF Mux!Outgoing
<1>2. \A j \in 1..Len(o) : o[j] \in Mux!Pairs
  BY <1>1, ElementOfSeq
<1>3. \A j \in 1..Len(o) : o[j][1] <= d + 1
  BY <1>1, <1>2 DEF Mux!Pairs, Mux!Outgoing
<1> QED BY <1>1, <1>3 DEF Mux!Outgoing

LEMMA MuxOutLost ==
    ASSUME NEW u, NEW h, NEW o, NEW d, NEW w, Mux!Outgoing(u, h, o, d, w)
    PROVE  Mux!Outgoing(<<>>, h, o, d, w)
<1>2. PICK e : e = <<>>
  OBVIOUS
<1>3. <<>> \in Seq(Mux!UpFrames)
  OBVIOUS
<1>4. Len(e) = 0 /\ e \in Seq(Mux!UpFrames)
  BY <1>2, <1>3
<1>5. \A k \in 1..Len(e) : FALSE
  BY <1>4
<1>6. Mux!Outgoing(e, h, o, d, w)
  BY <1>4, <1>5 DEF Mux!Outgoing
<1> QED BY <1>2, <1>6

\* A first dial: nothing is written yet.
LEMMA MuxFirst ==
    ASSUME NEW u, NEW d, Mux!Outgoing(u, <<>>, <<>>, d, 0)
    PROVE  Mux!Reaches(u, <<>>, <<>>, 0)
<1>1. \A k \in 1..Len(u) : u[k].type # "DATA"
  BY DEF Mux!Outgoing
<1>2. PICK e : e = <<>>
  OBVIOUS
<1>3. Len(e) = 0
  BY <1>2
<1>4. Mux!Reaches(u, e, e, 0)
  BY <1>1, <1>3 DEF Mux!Reaches
<1> QED BY <1>2, <1>4

\* One connection and nothing lost: what is read next goes on where the last ended.
LEMMA MuxGoesOn ==
    ASSUME NEW in \in Seq(Mux!Pairs), NEW b \in Seq(Mux!BulkFrames), NEW f \in Nat, NEW e,
           Mux!Follows(in, b, f, e), e # "unknown"
    PROVE  /\ \A x \in Mux!BulkFrames :
                 /\ x.type = "DATA" /\ x.val = <<1, f + 1>> => Mux!Follows(in, Append(b, x), f + 1, e)
                 /\ x.type = "CLOSE" => Mux!Follows(in, Append(b, x), f, "unknown")
           /\ Mux!Follows(in, b, f, "unknown")
<1>1. Len(in) \in Nat /\ Len(b) \in Nat /\ f = Len(in) + Len(b)
  BY LenProperties DEF Mux!Follows
<1>2. \A j \in 1..Len(b) : b[j].type = "DATA" /\ b[j].val = <<1, Len(in) + j>>
  BY DEF Mux!Follows
<1>3. ASSUME NEW x \in Mux!BulkFrames, x.type = "DATA", x.val = <<1, f + 1>>
      PROVE  Mux!Follows(in, Append(b, x), f + 1, e)
  <2>1. PICK c : c = Append(b, x)
    OBVIOUS
  <2>2. /\ Len(c) = Len(b) + 1
        /\ \A j \in 1..Len(b) : c[j] = b[j]
        /\ c[Len(b) + 1] = x
    BY <1>3, <2>1, MuxAppended
  <2>3. Len(in) + (Len(b) + 1) = f + 1
    BY <1>1
  <2>4. x.type = "DATA" /\ x.val = <<1, f + 1>>
    BY <1>3
  <2>5. c[Len(b) + 1].type = "DATA" /\ c[Len(b) + 1].val = <<1, Len(in) + (Len(b) + 1)>>
    BY <2>2, <2>3, <2>4
  <2>6. \A j \in 1..Len(c) : j \in 1..Len(b) \/ j = Len(b) + 1
    BY <1>1, <2>2
  <2>7. \A j \in 1..Len(c) : c[j].type = "DATA" /\ c[j].val = <<1, Len(in) + j>>
    BY <1>2, <2>2, <2>5, <2>6
  <2>8. Mux!Follows(in, c, f + 1, e)
    BY <2>2, <2>3, <2>7 DEF Mux!Follows
  <2> QED BY <2>1, <2>8
<1>4. ASSUME NEW x \in Mux!BulkFrames, x.type = "CLOSE"
      PROVE  Mux!Follows(in, Append(b, x), f, "unknown")
  <2>1. PICK c : c = Append(b, x)
    OBVIOUS
  <2>2. /\ Len(c) = Len(b) + 1
        /\ \A j \in 1..Len(b) : c[j] = b[j]
        /\ c[Len(b) + 1] = x
    BY <1>4, <2>1, MuxAppended
  <2>3. \A j \in 1..Len(c) : j \in 1..Len(b) \/ j = Len(c)
    BY <1>1, <2>2
  <2>4. \A j \in 1..Len(c) : \/ c[j].type = "DATA" /\ c[j].val = <<1, Len(in) + j>>
                             \/ c[j].type = "CLOSE" /\ j = Len(c)
    BY <1>2, <1>4, <2>2, <2>3
  <2>5. Mux!Follows(in, c, f, "unknown")
    BY <2>4 DEF Mux!Follows
  <2> QED BY <2>1, <2>5
<1>5. Mux!Follows(in, b, f, "unknown")
  BY <1>2 DEF Mux!Follows
<1> QED BY <1>3, <1>4, <1>5

LEMMA MuxReadsOn ==
    ASSUME NEW in \in Seq(Mux!Pairs), NEW b \in Seq(Mux!BulkFrames), NEW f \in Nat, NEW e,
           Mux!Follows(in, b, f, e), b # <<>>, Head(b).type = "DATA", Mux!Whole(in)
    PROVE  /\ Mux!Follows(Append(in, Head(b).val), Tail(b), f, e)
           /\ Mux!Whole(Append(in, Head(b).val))
<1>1. PICK c : c = Tail(b)
  OBVIOUS
<1>2. /\ Len(c) = Len(b) - 1 /\ Len(b) \in Nat /\ 1 <= Len(b)
      /\ Head(b) = b[1] /\ Head(b) \in Mux!BulkFrames
      /\ \A j \in 1..Len(b) - 1 : c[j] = b[j + 1]
  BY <1>1, MuxTailed
<1>3. PICK p : p = Head(b).val
  OBVIOUS
<1>4. p = <<1, Len(in) + 1>> /\ p \in Mux!Pairs
  <2>1. 1 \in 1..Len(b) /\ b[1].type = "DATA"
    BY <1>2
  <2> QED BY <1>2, <1>3, <2>1 DEF Mux!Follows, Mux!BulkFrames
<1>5. PICK z : z = Append(in, p)
  OBVIOUS
<1>6. /\ Len(z) = Len(in) + 1 /\ Len(in) \in Nat
      /\ \A j \in 1..Len(in) : z[j] = in[j]
      /\ z[Len(in) + 1] = p
  BY <1>4, <1>5, MuxAppended
<1>7. Mux!Whole(z)
  <2>1. \A j \in 1..Len(z) : j \in 1..Len(in) \/ j = Len(in) + 1
    BY <1>6
  <2> QED BY <1>4, <1>6, <2>1 DEF Mux!Whole
<1>8. ASSUME NEW j \in 1..Len(c)
      PROVE  \/ c[j].type = "DATA" /\ c[j].val = <<1, Len(z) + j>>
             \/ c[j].type = "CLOSE" /\ j = Len(c) /\ e = "unknown"
  <2>0. j \in Nat /\ j \in 1..Len(b) - 1
    BY <1>2
  <2>1. j + 1 \in 1..Len(b) /\ c[j] = b[j + 1] /\ Len(in) + (j + 1) = Len(z) + j
    <3>1. c[j] = b[j + 1]
      BY <1>2, <2>0
    <3>2. j + 1 \in 1..Len(b)
      BY <1>2, <2>0
    <3>3. Len(in) + (j + 1) = Len(z) + j
      BY <1>6, <2>0
    <3> QED BY <3>1, <3>2, <3>3
  <2>2. j + 1 = Len(b) => j = Len(c)
    BY <1>2
  <2>3. \/ b[j + 1].type = "DATA" /\ b[j + 1].val = <<1, Len(in) + (j + 1)>>
        \/ b[j + 1].type = "CLOSE" /\ j + 1 = Len(b) /\ e = "unknown"
    BY <2>1 DEF Mux!Follows
  <2> QED BY <2>1, <2>2, <2>3
<1>9. e # "unknown" => f = Len(z) + Len(c)
  <2>1. e # "unknown" => f = Len(in) + Len(b)
    BY DEF Mux!Follows
  <2>2. Len(in) + Len(b) = Len(z) + Len(c)
    BY <1>2, <1>6
  <2> QED BY <2>1, <2>2
<1>10. Mux!Follows(z, c, f, e)
  BY <1>8, <1>9 DEF Mux!Follows
<1> QED BY <1>1, <1>3, <1>5, <1>7, <1>10

LEMMA MuxBegins == \A e : Mux!Follows(<<>>, <<>>, 0, e) /\ Mux!Whole(<<>>)
<1>1. PICK s : s = <<>>
  OBVIOUS
<1>2. Len(s) = 0
  BY <1>1
<1>3. \A e : Mux!Follows(s, s, 0, e) /\ Mux!Whole(s)
  BY <1>2 DEF Mux!Follows, Mux!Whole
<1> QED BY <1>1, <1>3

\* What is under way, counted.

LEMMA MuxSizes == \A S : Mux!Cardinality(S) = Cardinality(S)
  BY DEF Mux!Cardinality, Cardinality

LEMMA MuxFinite ==
    ASSUME NEW S, IsFiniteSet(S), NEW from \in [S -> Nat], NEW to \in [S -> Nat]
    PROVE  IsFiniteSet(Mux!UnderWay(S, from, to)) /\ Cardinality(Mux!UnderWay(S, from, to)) \in Nat
<1>1. PICK h : h = [i \in S |-> {i} \X ((from[i] + 1)..to[i])]
  OBVIOUS
<1>2. PICK R : R = {{i} \X ((from[i] + 1)..to[i]) : i \in S}
  OBVIOUS
<1>3. h \in Surjection(S, R)
  BY <1>1, <1>2 DEF Surjection
<1>4. IsFiniteSet(R)
  BY <1>3, FS_Surjection
<1>5. ASSUME NEW i \in S PROVE IsFiniteSet({i} \X ((from[i] + 1)..to[i]))
  <2>0. from[i] + 1 \in Int /\ to[i] \in Int
    OBVIOUS
  <2>1. IsFiniteSet((from[i] + 1)..to[i]) /\ IsFiniteSet({i})
    BY <2>0, FS_Interval, FS_Singleton
  <2> QED BY <2>1, FS_Product
<1>6. \A T \in R : IsFiniteSet(T)
  BY <1>2, <1>5
<1>7. IsFiniteSet(UNION R)
  BY <1>4, <1>6, FS_UNION
<1>8. Mux!UnderWay(S, from, to) = UNION R
  BY <1>2 DEF Mux!UnderWay
<1> QED BY <1>7, <1>8, FS_CardinalityType

\* One more sent is one more under way.
LEMMA MuxCounts ==
    ASSUME NEW S, IsFiniteSet(S), NEW from \in [S -> Nat], NEW to \in [S -> Nat],
           NEW i \in S, from[i] <= to[i],
           NEW t \in [S -> Nat], t[i] = to[i] + 1, \A j \in S : j # i => t[j] = to[j]
    PROVE  Cardinality(Mux!UnderWay(S, from, t)) = Cardinality(Mux!UnderWay(S, from, to)) + 1
<1>1. PICK U : U = Mux!UnderWay(S, from, to)
  OBVIOUS
<1>2. PICK x : x = <<i, to[i] + 1>>
  OBVIOUS
<1>3. t \in [S -> Nat] /\ t[i] = to[i] + 1 /\ \A j \in S : j # i => t[j] = to[j]
  OBVIOUS
<1>4. \A j, n : <<j, n>> \in U <=> j \in S /\ n \in (from[j] + 1)..to[j]
  BY <1>1 DEF Mux!UnderWay
<1>5. \A j, n : <<j, n>> \in Mux!UnderWay(S, from, t) <=> j \in S /\ n \in (from[j] + 1)..t[j]
  BY DEF Mux!UnderWay
<1>6. (from[i] + 1)..(to[i] + 1) = ((from[i] + 1)..to[i]) \cup {to[i] + 1}
  <2>1. from[i] \in Nat /\ to[i] \in Nat
    OBVIOUS
  <2> QED BY <2>1
<1>7. ASSUME NEW j, NEW n
      PROVE  <<j, n>> \in Mux!UnderWay(S, from, t) <=> <<j, n>> \in U \/ <<j, n>> = x
  <2>1. CASE j = i
    <3>1. <<i, n>> \in Mux!UnderWay(S, from, t) <=> n \in (from[i] + 1)..(to[i] + 1)
      BY <1>3, <1>5
    <3>2. <<i, n>> \in U <=> n \in (from[i] + 1)..to[i]
      BY <1>4
    <3>3. n \in (from[i] + 1)..(to[i] + 1) <=> n \in (from[i] + 1)..to[i] \/ n = to[i] + 1
      BY <1>6
    <3>4. <<i, n>> = x <=> n = to[i] + 1
      BY <1>2
    <3> QED BY <2>1, <3>1, <3>2, <3>3, <3>4
  <2>2. CASE j # i
    BY <1>2, <1>3, <1>4, <1>5, <2>2
  <2> QED BY <2>1, <2>2
<1>8. /\ \A p \in Mux!UnderWay(S, from, t) : \E j, n : p = <<j, n>>
      /\ \A p \in U : \E j, n : p = <<j, n>>
  BY <1>1 DEF Mux!UnderWay
<1>9. Mux!UnderWay(S, from, t) = U \cup {x}
  <2>1. ASSUME NEW p \in Mux!UnderWay(S, from, t) PROVE p \in U \cup {x}
    <3>1. PICK j, n : p = <<j, n>>
      BY <1>8
    <3> QED BY <1>7, <3>1
  <2>2. ASSUME NEW p \in U \cup {x} PROVE p \in Mux!UnderWay(S, from, t)
    <3>1. PICK j, n : p = <<j, n>>
      BY <1>2, <1>8
    <3> QED BY <1>7, <3>1
  <2> QED BY <2>1, <2>2
<1>10. x \notin U
  <2>1. to[i] + 1 \notin (from[i] + 1)..to[i]
    OBVIOUS
  <2> QED BY <1>2, <1>4, <2>1
<1>11. IsFiniteSet(U)
  BY <1>1, MuxFinite
<1> QED BY <1>1, <1>9, <1>10, <1>11, FS_AddElement

\* What is acknowledged, or given up, is under way no more.
LEMMA MuxForgets ==
    ASSUME NEW S, IsFiniteSet(S), NEW from \in [S -> Nat], NEW to \in [S -> Nat],
           NEW i \in S, NEW v \in Nat, from[i] <= v, v <= to[i],
           NEW g \in [S -> Nat], g[i] = v, \A j \in S : j # i => g[j] = from[j]
    PROVE  Cardinality(Mux!UnderWay(S, g, to)) = Cardinality(Mux!UnderWay(S, from, to)) - (v - from[i])
<1>1. PICK U : U = Mux!UnderWay(S, from, to)
  OBVIOUS
<1>2. PICK R : R = {i} \X ((from[i] + 1)..v)
  OBVIOUS
<1>3. g \in [S -> Nat] /\ g[i] = v /\ \A j \in S : j # i => g[j] = from[j]
  OBVIOUS
<1>4. \A j, n : <<j, n>> \in U <=> j \in S /\ n \in (from[j] + 1)..to[j]
  BY <1>1 DEF Mux!UnderWay
<1>5. \A j, n : <<j, n>> \in Mux!UnderWay(S, g, to) <=> j \in S /\ n \in (g[j] + 1)..to[j]
  BY DEF Mux!UnderWay
<1>6. (v + 1)..to[i] = ((from[i] + 1)..to[i]) \ ((from[i] + 1)..v)
  <2>1. from[i] \in Nat /\ to[i] \in Nat
    OBVIOUS
  <2> QED BY <2>1
<1>7. \A j, n : <<j, n>> \in R <=> j = i /\ n \in (from[i] + 1)..v
  BY <1>2
<1>8. \A j, n : <<j, n>> \in Mux!UnderWay(S, g, to) <=> <<j, n>> \in U /\ <<j, n>> \notin R
  BY <1>3, <1>4, <1>5, <1>6, <1>7
<1>9. /\ \A p \in Mux!UnderWay(S, g, to) : \E j, n : p = <<j, n>>
      /\ \A p \in U : \E j, n : p = <<j, n>>
  BY <1>1 DEF Mux!UnderWay
<1>10. Mux!UnderWay(S, g, to) = U \ R
  <2>1. ASSUME NEW p \in Mux!UnderWay(S, g, to) PROVE p \in U \ R
    <3>1. PICK j, n : p = <<j, n>>
      BY <1>9
    <3> QED BY <1>8, <3>1
  <2>2. ASSUME NEW p \in U \ R PROVE p \in Mux!UnderWay(S, g, to)
    <3>1. PICK j, n : p = <<j, n>>
      BY <1>9
    <3> QED BY <1>8, <3>1
  <2> QED BY <2>1, <2>2
<1>11. R \subseteq U
  <2>1. \A n \in (from[i] + 1)..v : n \in (from[i] + 1)..to[i]
    OBVIOUS
  <2>2. \A p \in R : \E j, n : p = <<j, n>>
    BY <1>2
  <2> QED BY <1>4, <1>7, <2>1, <2>2
<1>12. IsFiniteSet(U) /\ Cardinality(U) \in Nat
  BY <1>1, MuxFinite
<1>13. IsFiniteSet(R) /\ Cardinality(R) = v - from[i]
  <2>1. from[i] \in Nat
    OBVIOUS
  <2>2. IsFiniteSet((from[i] + 1)..v) /\ Cardinality((from[i] + 1)..v) = v - from[i]
    <3>1. IsFiniteSet((from[i] + 1)..v) /\ Cardinality((from[i] + 1)..v) = IF from[i] + 1 > v THEN 0 ELSE (v - (from[i] + 1)) + 1
      <4>1. from[i] + 1 \in Int /\ v \in Int
        BY <2>1
      <4> QED BY <4>1, FS_Interval
    <3> QED BY <2>1, <3>1
  <2>3. IsFiniteSet({i}) /\ Cardinality({i}) = 1
    BY FS_Singleton
  <2>4. IsFiniteSet(R) /\ Cardinality(R) = 1 * (v - from[i])
    <3>1. PICK A : A = (from[i] + 1)..v
      OBVIOUS
    <3>2. IsFiniteSet(A) /\ Cardinality(A) = v - from[i]
      BY <2>2, <3>1
    <3>3. IsFiniteSet({i} \X A) /\ Cardinality({i} \X A) = Cardinality({i}) * Cardinality(A)
      BY <2>3, <3>2, FS_Product
    <3> QED BY <1>2, <2>3, <3>1, <3>2, <3>3
  <2> QED BY <2>1, <2>4
<1>14. U \cap R = R
  BY <1>11
<1>15. Cardinality(U \ R) = Cardinality(U) - Cardinality(R)
  BY <1>12, <1>14, FS_Difference
<1> QED BY <1>1, <1>10, <1>13, <1>15

\* Only the bounds that hold something between them count.
LEMMA MuxHolds ==
    ASSUME NEW S, NEW from \in [S -> Nat], NEW to \in [S -> Nat], NEW T \in SUBSET S,
           NEW g \in [S -> Nat], NEW t \in [S -> Nat],
           \A j \in S : (j \in T /\ g[j] = from[j] /\ t[j] = to[j]) \/ (from[j] = to[j] /\ (j \in T => g[j] = t[j]))
    PROVE  Mux!UnderWay(T, g, t) = Mux!UnderWay(S, from, to)
<1>1. ASSUME NEW j \in T PROVE (g[j] + 1)..t[j] = (from[j] + 1)..to[j]
  <2>1. CASE g[j] = from[j] /\ t[j] = to[j]
    BY <2>1
  <2>2. CASE from[j] = to[j] /\ g[j] = t[j]
    <3>1. (g[j] + 1)..t[j] = {} /\ (from[j] + 1)..to[j] = {}
      BY <2>2
    <3> QED BY <3>1
  <2> QED BY <2>1, <2>2
<1>2. ASSUME NEW j \in S, j \notin T PROVE (from[j] + 1)..to[j] = {}
  BY <1>2
<1>3. \A p : p \in Mux!UnderWay(T, g, t) <=> \E j \in T : p \in {j} \X ((g[j] + 1)..t[j])
  BY DEF Mux!UnderWay
<1>4. \A p : p \in Mux!UnderWay(S, from, to) <=> \E j \in S : p \in {j} \X ((from[j] + 1)..to[j])
  BY DEF Mux!UnderWay
<1>5. \A p : p \in Mux!UnderWay(T, g, t) <=> p \in Mux!UnderWay(S, from, to)
  <2>1. ASSUME NEW p, NEW j \in T, p \in {j} \X ((g[j] + 1)..t[j]) PROVE p \in Mux!UnderWay(S, from, to)
    BY <1>1, <1>4, <2>1
  <2>2. ASSUME NEW p, NEW j \in S, p \in {j} \X ((from[j] + 1)..to[j]) PROVE p \in Mux!UnderWay(T, g, t)
    <3>1. j \in T
      BY <1>2, <2>2
    <3> QED BY <1>1, <1>3, <2>2, <3>1
  <2> QED BY <1>3, <1>4, <2>1, <2>2
<1> QED BY <1>5

\* A step of a stream.  Others keep what they have.

MuxIn(j) == mGot[j] \o mRbuf[j]
MuxSameIn(j) ==
    /\ mGot'[j] = mGot[j] /\ mRbuf'[j] = mRbuf[j] /\ mBulk'[j] = mBulk[j]
    /\ mDials'[j] = mDials[j] /\ mFed'[j] = mFed[j]
MuxSameOut(j) ==
    /\ mUp'[j] = mUp[j] /\ mHeld'[j] = mHeld[j] /\ mDst'[j] = mDst[j]
    /\ mDials'[j] = mDials[j] /\ mWritten'[j] = mWritten[j] /\ mEx'[j] = mEx[j]
MuxSameLife(j) ==
    /\ mApp'[j] = mApp[j] /\ mAnswer'[j] = mAnswer[j] /\ mWriter'[j] = mWriter[j]
    /\ (j \in mKnown' <=> j \in mKnown)
MuxSameCounts(j) ==
    /\ mSent'[j] = mSent[j] /\ mAcked'[j] = mAcked[j]
    /\ mExSent'[j] = mExSent[j] /\ mExAcked'[j] = mExAcked[j]
MuxSameAcks(j) == mCtl'[j] = mCtl[j] /\ (j \in mAckQ' <=> j \in mAckQ)
MuxSameEnd(j) == mEof'[j] <=> mEof[j]
MuxOnward == mLosses' = mLosses /\ (mRaced => mRaced') /\ (mDead => mDead')

LEMMA MuxStillContinues ==
    ASSUME NEW j \in Flows, Mux!Continues(j), MuxSameIn(j), MuxSameOut(j)
    PROVE  Mux!Continues(j)'
  BY DEF Mux!Continues, MuxSameIn, MuxSameOut

LEMMA MuxStillBegun ==
    ASSUME NEW j \in Flows, Mux!Begun(j), MuxSameIn(j), MuxSameOut(j), MuxSameLife(j),
           MuxSameAcks(j), mSent'[j] = mSent[j]
    PROVE  Mux!Begun(j)'
<1>1. mGot'[j] \o mRbuf'[j] = mGot[j] \o mRbuf[j]
  BY DEF MuxSameIn
<1> QED BY <1>1 DEF Mux!Begun, MuxSameIn, MuxSameOut, MuxSameLife, MuxSameAcks

LEMMA MuxStillComplete ==
    ASSUME NEW j \in Flows, Mux!Complete(j), MuxSameIn(j), MuxSameOut(j),
           mLosses' = mLosses, j \in mKnown' => j \in mKnown, mEof[j] => mEof'[j]
    PROVE  Mux!Complete(j)'
<1>1. mGot'[j] \o mRbuf'[j] = mGot[j] \o mRbuf[j]
  BY DEF MuxSameIn
<1>2. ASSUME mLosses' = 0, mDials'[j] = 1
      PROVE  /\ Mux!Whole(mGot[j] \o mRbuf[j]) /\ Mux!Whole(mDst[j])
             /\ j \in mKnown /\ ~mEof[j] =>
                    Mux!Follows(mGot[j] \o mRbuf[j], mBulk[j], mFed[j], mEx[j])
             /\ mEx[j] # "unknown" => Mux!Reaches(mUp[j], mHeld[j], mDst[j], mWritten[j])
  BY <1>2 DEF Mux!Complete, MuxSameIn
<1> QED BY <1>1, <1>2 DEF Mux!Complete, MuxSameIn, MuxSameOut

LEMMA MuxStillWindowed ==
    ASSUME NEW j \in Flows, Mux!Windowed(j), MuxSameCounts(j), mWriter'[j] = mWriter[j]
    PROVE  Mux!Windowed(j)'
  BY DEF Mux!Windowed, MuxSameCounts

LEMMA MuxStillAttended ==
    ASSUME NEW j \in Flows, Mux!Attended(j), MuxSameLife(j), MuxSameCounts(j), MuxOnward
    PROVE  Mux!Attended(j)'
  BY DEF Mux!Attended, MuxSameLife, MuxSameCounts, MuxOnward

MuxStays(j) == MuxSameIn(j) /\ MuxSameOut(j) /\ MuxSameLife(j) /\ MuxSameCounts(j) /\ MuxSameAcks(j) /\ MuxSameEnd(j)

LEMMA MuxOthers ==
    ASSUME NEW j \in Flows, Mux!Sound(j), MuxStays(j), MuxOnward
    PROVE  Mux!Sound(j)'
<1>1. /\ MuxSameIn(j) /\ MuxSameOut(j) /\ MuxSameLife(j) /\ MuxSameCounts(j)
      /\ MuxSameAcks(j) /\ (mEof[j] => mEof'[j])
  BY DEF MuxStays, MuxSameEnd
<1>2. /\ Mux!Continues(j) /\ Mux!Begun(j) /\ Mux!Complete(j) /\ Mux!Windowed(j) /\ Mux!Attended(j)
  BY DEF Mux!Sound
<1>3. Mux!Continues(j)'
  BY <1>1, <1>2, MuxStillContinues
<1>4. mSent'[j] = mSent[j] /\ mWriter'[j] = mWriter[j] /\ (j \in mKnown' => j \in mKnown) /\ mLosses' = mLosses
  BY <1>1 DEF MuxSameCounts, MuxSameLife, MuxOnward
<1>5. Mux!Begun(j)'
  BY <1>1, <1>2, <1>4, MuxStillBegun
<1>6. Mux!Complete(j)'
  BY <1>1, <1>2, <1>4, MuxStillComplete
<1>7. Mux!Windowed(j)'
  BY <1>1, <1>2, <1>4, MuxStillWindowed
<1>8. Mux!Attended(j)'
  BY <1>1, <1>2, MuxStillAttended
<1> QED BY <1>3, <1>5, <1>6, <1>7, <1>8 DEF Mux!Sound

\* The totals stay when no window moves.
LEMMA MuxStillCounted ==
    ASSUME Mux!Counted, UNCHANGED <<mTotalUp, mAcked, mSent, mInAll, mExAcked, mExSent>>
    PROVE  Mux!Counted'
<1>1. mTotalUp = Mux!Cardinality(Mux!UnderWay(Flows, mAcked, mSent))
  BY DEF Mux!Counted
<1>2. mInAll = Mux!Cardinality(Mux!UnderWay(Flows, mExAcked, mExSent))
  BY DEF Mux!Counted
<1>3. mTotalUp' = Mux!Cardinality(Mux!UnderWay(Flows, mAcked', mSent'))
  BY <1>1
<1>4. mInAll' = Mux!Cardinality(Mux!UnderWay(Flows, mExAcked', mExSent'))
  BY <1>2
<1> QED BY <1>3, <1>4 DEF Mux!Counted

LEMMA MuxFrames ==
    /\ \A t \in {"OPEN", "DATA", "ACK", "CLOSE"}, v \in Nat :
           Mux!Frame(t, v) \in Mux!UpFrames /\ Mux!Frame(t, v).type = t /\ Mux!Frame(t, v).val = v
    /\ \A t \in {"OPEN_OK", "OPEN_ERR", "ACK"}, v \in Nat :
           Mux!Frame(t, v) \in Mux!CtlFrames /\ Mux!Frame(t, v).type = t /\ Mux!Frame(t, v).val = v
  BY DEF Mux!Frame, Mux!UpFrames, Mux!CtlFrames

LEMMA MuxFacts ==
    ASSUME Mux!IInv, NEW i \in Flows
    PROVE  /\ Mux!Typed /\ Mux!Counted /\ Mux!Sound(i)
           /\ Mux!Continues(i) /\ Mux!Begun(i) /\ Mux!Complete(i) /\ Mux!Windowed(i) /\ Mux!Attended(i)
  BY DEF Mux!IInv, Mux!Sound

\* One stream's step.
LEMMA MuxOne ==
    ASSUME Mux!IInv, NEW i \in Flows, Mux!Typed', Mux!Counted', MuxOnward,
           \A j \in Flows : j # i => MuxStays(j),
           Mux!Continues(i)', Mux!Begun(i)', Mux!Complete(i)', Mux!Windowed(i)', Mux!Attended(i)'
    PROVE  Mux!IInv'
<1>1. ASSUME NEW j \in Flows PROVE Mux!Sound(j)'
  <2>1. CASE j = i
    BY <2>1 DEF Mux!Sound
  <2>2. CASE j # i
    <3>1. Mux!Sound(j) /\ MuxStays(j)
      BY <2>2 DEF Mux!IInv
    <3> QED BY <3>1, MuxOthers
  <2> QED BY <2>1, <2>2
<1> QED BY <1>1 DEF Mux!IInv

\* The stream says something that is not of its contents.
LEMMA MuxSaid ==
    ASSUME NEW i \in Flows, Mux!Typed, Mux!Continues(i), Mux!Complete(i),
           NEW x \in Mux!UpFrames, x.type # "DATA",
           mUp' = [mUp EXCEPT ![i] = Append(@, x)], MuxSameIn(i),
           mHeld'[i] = mHeld[i], mDst'[i] = mDst[i], mWritten'[i] = mWritten[i], mEx'[i] = mEx[i],
           mLosses' = mLosses, i \in mKnown' => i \in mKnown \/ mDials[i] # 1, mEof[i] => mEof'[i]
    PROVE  Mux!Continues(i)' /\ Mux!Complete(i)' /\ mUp' \in [Flows -> Seq(Mux!UpFrames)]
<1>u. mUp[i] \in Seq(Mux!UpFrames) /\ mUp' \in [Flows -> Seq(Mux!UpFrames)] /\ mUp'[i] = Append(mUp[i], x)
  <2>1. mUp \in [Flows -> Seq(Mux!UpFrames)]
    BY DEF Mux!Typed
  <2>2. Append(mUp[i], x) \in Seq(Mux!UpFrames)
    BY <2>1, MuxAppended
  <2> QED BY <2>1, <2>2
<1>1. mGot'[i] \o mRbuf'[i] = mGot[i] \o mRbuf[i] /\ mDials'[i] = mDials[i]
  BY DEF MuxSameIn
<1>2. Mux!Outgoing(mUp[i], mHeld[i], mDst[i], mDials[i], mWritten[i])
  BY DEF Mux!Continues
<1>3. Mux!Outgoing(mUp'[i], mHeld'[i], mDst'[i], mDials'[i], mWritten'[i])
  <2>1. Mux!Outgoing(Append(mUp[i], x), mHeld[i], mDst[i], mDials[i], mWritten[i])
    BY <1>2, MuxSays
  <2> QED BY <1>u, <1>1, <2>1
<1>4. Mux!Incoming(mGot'[i] \o mRbuf'[i], mBulk'[i], mDials'[i], mFed'[i])
  BY <1>1 DEF MuxSameIn, Mux!Continues
<1>5. Mux!Continues(i)'
  BY <1>3, <1>4 DEF Mux!Continues
<1>6. ASSUME mLosses = 0, mDials[i] = 1
      PROVE  /\ Mux!Whole(mGot[i] \o mRbuf[i]) /\ Mux!Whole(mDst[i])
             /\ i \in mKnown /\ ~mEof[i] =>
                    Mux!Follows(mGot[i] \o mRbuf[i], mBulk[i], mFed[i], mEx[i])
             /\ mEx[i] # "unknown" => Mux!Reaches(mUp[i], mHeld[i], mDst[i], mWritten[i])
  BY <1>6 DEF Mux!Complete
<1>7. Mux!Reaches(mUp[i], mHeld[i], mDst[i], mWritten[i]) => Mux!Reaches(mUp'[i], mHeld[i], mDst[i], mWritten[i])
  BY <1>u, <1>2, MuxSays
<1>8. Mux!Complete(i)'
  <2> SUFFICES ASSUME mLosses' = 0, mDials'[i] = 1
               PROVE  /\ Mux!Whole(mGot'[i] \o mRbuf'[i]) /\ Mux!Whole(mDst'[i])
                      /\ i \in mKnown' /\ ~mEof'[i] =>
                             Mux!Follows(mGot'[i] \o mRbuf'[i], mBulk'[i], mFed'[i], mEx'[i])
                      /\ mEx'[i] # "unknown" => Mux!Reaches(mUp'[i], mHeld'[i], mDst'[i], mWritten'[i])
    BY DEF Mux!Complete
  <2> QED BY <1>1, <1>6, <1>7 DEF MuxSameIn
<1> QED BY <1>u, <1>5, <1>8

\* One window's bound moves up: what is given up, or acknowledged.
LEMMA MuxAcked ==
    ASSUME Mux!IInv, NEW i \in Flows, NEW v \in Nat, mAcked[i] <= v, v <= mSent[i],
           mAcked' = [mAcked EXCEPT ![i] = v], mTotalUp' = mTotalUp - (v - mAcked[i]),
           UNCHANGED <<mSent, mInAll, mExAcked, mExSent>>
    PROVE  Mux!Counted' /\ mAcked' \in [Flows -> Nat] /\ mAcked'[i] = v
<1>1. mAcked \in [Flows -> Nat] /\ mSent \in [Flows -> Nat]
  BY DEF Mux!IInv, Mux!Typed
<1>2. mTotalUp = Cardinality(Mux!UnderWay(Flows, mAcked, mSent))
      /\ mInAll = Mux!Cardinality(Mux!UnderWay(Flows, mExAcked, mExSent))
  BY MuxSizes DEF Mux!IInv, Mux!Counted
<1>3. PICK g : g = mAcked'
  OBVIOUS
<1>4. Cardinality(Mux!UnderWay(Flows, g, mSent)) = mTotalUp - (v - mAcked[i])
  <2>1. IsFiniteSet(Flows)
    BY FlowsAssumption
  <2>2. mAcked \in [Flows -> Nat]
    BY <1>1
  <2>3. mSent \in [Flows -> Nat]
    BY <1>1
  <2>4. g \in [Flows -> Nat]
    BY <1>1, <1>3
  <2>6. g[i] = v
    BY <1>1, <1>3
  <2>7. \A j \in Flows : j # i => g[j] = mAcked[j]
    BY <1>1, <1>3
  <2>5. Cardinality(Mux!UnderWay(Flows, g, mSent)) = Cardinality(Mux!UnderWay(Flows, mAcked, mSent)) - (v - mAcked[i])
    BY <2>1, <2>2, <2>3, <2>4, <2>6, <2>7, MuxForgets
  <2> QED BY <1>2, <2>5
<1>5. mTotalUp' = Mux!Cardinality(Mux!UnderWay(Flows, mAcked', mSent'))
  BY <1>3, <1>4, MuxSizes
<1>6. mInAll' = Mux!Cardinality(Mux!UnderWay(Flows, mExAcked', mExSent'))
  BY <1>2
<1> QED BY <1>1, <1>5, <1>6 DEF Mux!Counted

LEMMA MuxDrops ==
    ASSUME Mux!IInv, NEW i \in Flows, Mux!DropStream(i),
           UNCHANGED <<mSent, mInAll, mExAcked, mExSent>>
    PROVE  /\ Mux!Counted' /\ mAcked' \in [Flows -> Nat] /\ mKnown' = mKnown \ {i}
           /\ mClosed' \in [Flows -> BOOLEAN] /\ mEof' \in [Flows -> BOOLEAN]
           /\ mAnswer' \in [Flows -> {"none", "ok", "refused", "ended"}]
           /\ \A j \in Flows : j # i => mAcked'[j] = mAcked[j] /\ mAnswer'[j] = mAnswer[j] /\ (mEof'[j] <=> mEof[j])
           /\ mAnswer'[i] = "ok" => mAnswer[i] = "ok"
           /\ mAcked[i] <= mAcked'[i] /\ mAcked'[i] <= mSent[i]
           /\ i \in mKnown => mAcked'[i] = mSent[i]
           /\ i \notin mKnown => mAcked'[i] = mAcked[i]
           /\ mEof[i] => mEof'[i]
<1>1. /\ mAcked \in [Flows -> Nat] /\ mSent \in [Flows -> Nat] /\ mAcked[i] <= mSent[i]
      /\ mClosed \in [Flows -> BOOLEAN] /\ mEof \in [Flows -> BOOLEAN]
      /\ mAnswer \in [Flows -> {"none", "ok", "refused", "ended"}] /\ mKnown \subseteq Flows
      /\ Mux!Counted
  BY DEF Mux!IInv, Mux!Typed, Mux!Sound, Mux!Windowed
<1>2. CASE i \in mKnown
  <2>1. /\ mKnown' = mKnown \ {i} /\ mTotalUp' = mTotalUp - (mSent[i] - mAcked[i])
        /\ mAcked' = [mAcked EXCEPT ![i] = mSent[i]]
        /\ mEof' = [j \in Flows |-> mEof[j] \/ j \in {i}]
        /\ mClosed' = [j \in Flows |-> mClosed[j] \/ j \in {i}]
        /\ mAnswer' = [j \in Flows |-> IF j \in {i} /\ mAnswer[j] = "none" THEN "ended" ELSE mAnswer[j]]
    BY <1>2 DEF Mux!DropStream, Mux!Forget, Mux!InFlight, Mux!Shutdown
  <2>2. Mux!Counted' /\ mAcked' \in [Flows -> Nat] /\ mAcked'[i] = mSent[i]
    <3>1. mSent[i] \in Nat /\ mSent[i] <= mSent[i]
      BY <1>1
    <3> QED BY <1>1, <2>1, <3>1, MuxAcked
  <2>3. /\ mClosed' \in [Flows -> BOOLEAN] /\ mEof' \in [Flows -> BOOLEAN]
        /\ mAnswer' \in [Flows -> {"none", "ok", "refused", "ended"}]
    BY <1>1, <2>1
  <2>4. \A j \in Flows : j # i => mAcked'[j] = mAcked[j] /\ mAnswer'[j] = mAnswer[j]
    BY <1>1, <2>1
  <2>5. \A j \in Flows : j # i => (mEof'[j] <=> mEof[j])
    BY <1>1, <2>1
  <2>6. (mAnswer'[i] = "ok" => mAnswer[i] = "ok") /\ (mEof[i] => mEof'[i])
    BY <1>1, <2>1
  <2>7. mAcked[i] <= mAcked'[i] /\ mAcked'[i] <= mSent[i]
    BY <1>1, <2>2
  <2> QED BY <1>2, <2>1, <2>2, <2>3, <2>4, <2>5, <2>6, <2>7
<1>3. CASE i \notin mKnown
  <2>1. UNCHANGED <<mKnown, mTotalUp, mAcked, mClosed, mEof, mAnswer>>
    BY <1>3 DEF Mux!DropStream
  <2>2. Mux!Counted'
    BY <1>1, <2>1, MuxStillCounted
  <2>3. mKnown' = mKnown \ {i}
    BY <1>3, <2>1
  <2>4. mAcked[i] <= mAcked'[i] /\ mAcked'[i] <= mSent[i]
    BY <1>1, <2>1
  <2> QED BY <1>1, <1>3, <2>1, <2>2, <2>3, <2>4
<1> QED BY <1>2, <1>3

\* The caller's steps.

LEMMA MuxDial ==
    ASSUME Mux!IInv, NEW i \in Flows, Mux!Dial(i)
    PROVE  Mux!IInv'
<1>f. /\ Mux!Typed /\ Mux!Counted /\ Mux!Sound(i)
      /\ Mux!Continues(i) /\ Mux!Begun(i) /\ Mux!Complete(i) /\ Mux!Windowed(i) /\ Mux!Attended(i)
  BY MuxFacts
<1>e. /\ mApp[i] = "idle"
      /\ UNCHANGED <<mScene, mAnswer, mClosed, mEof, mRbuf, mGot, mWriter, mWritten,
                     mSent, mAcked, mConsumed, mAckedSent, mTotalUp, mAckQ, mDead, mRaced, mCtl, mBulk,
                     mEx, mDials, mHeld, mDst, mFed, mExSent, mExAcked, mWrote, mExAckedSent, mInAll, mLosses>>
  BY DEF Mux!Dial, Mux!countVars, Mux!exitVars
<1>b. /\ mDials[i] = 0 /\ mUp[i] = <<>> /\ i \notin mAckQ /\ i \notin mKnown /\ mSent[i] = 0
      /\ mEx[i] = "unknown" /\ mCtl[i] = <<>> /\ mBulk[i] = <<>>
      /\ mGot[i] \o mRbuf[i] = <<>> /\ mDst[i] = <<>> /\ mFed[i] = 0
      /\ mAnswer[i] # "ok" /\ mWriter[i] = "none" /\ mWritten[i] = 0
  BY <1>e, <1>f DEF Mux!Begun
<1>x. PICK x : x = Mux!Frame("OPEN", 0)
  OBVIOUS
<1>y. x \in Mux!UpFrames /\ x.type # "DATA"
  BY <1>x, MuxFrames
<1>1. CASE mDead
  <2>1. mApp' = [mApp EXCEPT ![i] = "failed"] /\ UNCHANGED <<mKnown, mUp>>
    BY <1>1 DEF Mux!Dial
  <2>2. Mux!Typed'
    BY <1>e, <1>f, <2>1 DEF Mux!Typed
  <2>3. Mux!Counted'
    BY <1>e, <1>f, MuxStillCounted
  <2>4. \A j \in Flows : j # i => MuxStays(j)
    BY <1>e, <1>f, <2>1 DEF MuxStays, MuxSameIn, MuxSameOut, MuxSameLife, MuxSameCounts, MuxSameAcks, MuxSameEnd, Mux!Typed
  <2>5. MuxSameIn(i) /\ MuxSameOut(i) /\ MuxSameCounts(i) /\ MuxOnward
    BY <1>e, <2>1 DEF MuxSameIn, MuxSameOut, MuxSameCounts, MuxOnward
  <2>6. Mux!Continues(i)'
    BY <1>f, <2>5, MuxStillContinues
  <2>7. Mux!Complete(i)'
    BY <1>b, <1>e DEF Mux!Complete
  <2>8. Mux!Windowed(i)'
    BY <1>e, <1>f, <2>5, MuxStillWindowed
  <2>9. mApp'[i] = "failed"
    BY <1>f, <2>1 DEF Mux!Typed
  <2>10. mGot'[i] \o mRbuf'[i] = <<>>
    BY <1>b, <1>e
  <2>11. Mux!Begun(i)'
    BY <1>b, <1>e, <2>9, <2>10 DEF Mux!Begun
  <2>12. Mux!Attended(i)'
    BY <1>1, <1>b, <1>e, <2>9 DEF Mux!Attended
  <2> QED BY <2>2, <2>3, <2>4, <2>5, <2>6, <2>7, <2>8, <2>11, <2>12, MuxOne
<1>2. CASE ~mDead
  <2>1. /\ mApp' = [mApp EXCEPT ![i] = "dialing"] /\ mKnown' = mKnown \cup {i}
        /\ mUp' = [mUp EXCEPT ![i] = Append(@, x)]
    BY <1>2, <1>x DEF Mux!Dial, Mux!SendUp
  <2>3. Mux!Counted'
    BY <1>e, <1>f, MuxStillCounted
  <2>4. \A j \in Flows : j # i => MuxStays(j)
    BY <1>e, <1>f, <2>1 DEF MuxStays, MuxSameIn, MuxSameOut, MuxSameLife, MuxSameCounts, MuxSameAcks, MuxSameEnd, Mux!Typed
  <2>5. MuxSameIn(i) /\ MuxSameCounts(i) /\ MuxOnward
    BY <1>e DEF MuxSameIn, MuxSameCounts, MuxOnward
  <2>6. Mux!Continues(i)' /\ Mux!Complete(i)' /\ mUp' \in [Flows -> Seq(Mux!UpFrames)]
    <3>1. mDials[i] # 1
      BY <1>b
    <3>2. i \in mKnown' => i \in mKnown \/ mDials[i] # 1
      BY <3>1
    <3>3. mHeld'[i] = mHeld[i] /\ mDst'[i] = mDst[i] /\ mWritten'[i] = mWritten[i] /\ mEx'[i] = mEx[i]
          /\ mLosses' = mLosses /\ (mEof[i] => mEof'[i])
      BY <1>e
    <3> QED BY <1>f, <1>y, <2>1, <2>5, <3>2, <3>3, MuxSaid
  <2>2. Mux!Typed'
    BY <1>e, <1>f, <2>1, <2>6 DEF Mux!Typed
  <2>8. Mux!Windowed(i)'
    BY <1>e, <1>f, <2>5, MuxStillWindowed
  <2>9. mApp'[i] = "dialing" /\ i \in mKnown'
    BY <1>f, <2>1 DEF Mux!Typed
  <2>10. mGot'[i] \o mRbuf'[i] = <<>>
    BY <1>b, <1>e
  <2>11. Mux!Begun(i)'
    BY <1>b, <1>e, <2>9, <2>10 DEF Mux!Begun
  <2>12. Mux!Attended(i)'
    BY <1>b, <1>e, <2>9 DEF Mux!Attended
  <2> QED BY <2>2, <2>3, <2>4, <2>5, <2>6, <2>8, <2>11, <2>12, MuxOne
<1> QED BY <1>1, <1>2

\* OPEN once more.
LEMMA MuxOpenAgain ==
    ASSUME Mux!IInv, NEW i \in Flows, Mux!OpenAgain(i)
    PROVE  Mux!IInv'
<1>f. /\ Mux!Typed /\ Mux!Counted /\ Mux!Sound(i)
      /\ Mux!Continues(i) /\ Mux!Begun(i) /\ Mux!Complete(i) /\ Mux!Windowed(i) /\ Mux!Attended(i)
  BY MuxFacts
<1>e. /\ mApp[i] = "dialing"
      /\ UNCHANGED <<mScene, mApp, mKnown, mAnswer, mClosed, mEof, mRbuf, mGot,
                     mWriter, mWritten, mSent, mAcked, mConsumed, mAckedSent,
                     mTotalUp, mAckQ, mDead, mRaced, mCtl, mBulk, mEx, mDials, mHeld,
                     mDst, mFed, mExSent, mExAcked, mWrote, mExAckedSent, mInAll,
                     mLosses>>
  BY DEF Mux!OpenAgain, Mux!countVars, Mux!clientVars, Mux!exitVars, Mux!wire
<1>c. /\ mUp' = [mUp EXCEPT ![i] = Append(@, Mux!Frame("OPEN", 0))]
  BY DEF Mux!OpenAgain, Mux!SendUp
<1>x. PICK x : x = Mux!Frame("OPEN", 0)
  OBVIOUS
<1>y. x \in Mux!UpFrames /\ x.type # "DATA"
  BY <1>x, MuxFrames
<1>o. \A j \in Flows : j # i => MuxStays(j)
  BY <1>e, <1>c, <1>f DEF MuxStays, MuxSameIn, MuxSameOut, MuxSameLife, MuxSameCounts, MuxSameAcks, MuxSameEnd, Mux!Typed
<1>s. MuxSameIn(i) /\ MuxSameLife(i) /\ MuxSameCounts(i) /\ MuxSameAcks(i) /\ MuxOnward
  BY <1>e DEF MuxSameIn, MuxSameLife, MuxSameCounts, MuxSameAcks, MuxOnward
<1>n. Mux!Counted'
  BY <1>e, <1>f, <1>s, MuxStillCounted
<1>m. Mux!Continues(i)' /\ Mux!Complete(i)' /\ mUp' \in [Flows -> Seq(Mux!UpFrames)]
  <2>1. mHeld'[i] = mHeld[i] /\ mDst'[i] = mDst[i] /\ mWritten'[i] = mWritten[i] /\ mEx'[i] = mEx[i]
        /\ mLosses' = mLosses /\ (mEof[i] => mEof'[i])
    BY <1>e
  <2>2. i \in mKnown' => i \in mKnown \/ mDials[i] # 1
    BY <1>e
  <2>3. mUp' = [mUp EXCEPT ![i] = Append(@, x)]
    BY <1>c, <1>x
  <2> QED BY <1>f, <1>s, <1>y, <2>1, <2>2, <2>3, MuxSaid
<1>3. Mux!Begun(i)'
  BY <1>e, <1>f, <1>s DEF Mux!Begun, MuxSameIn
<1>4. Mux!Windowed(i)'
  BY <1>e, <1>f, <1>s, MuxStillWindowed
<1>5. Mux!Attended(i)'
  BY <1>e, <1>f, <1>s, MuxStillAttended
<1>t. Mux!Typed'
  BY <1>e, <1>c, <1>f, <1>m DEF Mux!Typed
<1> QED BY <1>n, <1>o, <1>s, <1>m, <1>3, <1>4, <1>5, <1>t, MuxOne


\* Dial ends without a stream.
LEMMA MuxGivesUp ==
    ASSUME Mux!IInv, NEW i \in Flows, Mux!DialAbandoned(i)
    PROVE  Mux!IInv'
<1>f. /\ Mux!Typed /\ Mux!Counted /\ Mux!Sound(i)
      /\ Mux!Continues(i) /\ Mux!Begun(i) /\ Mux!Complete(i) /\ Mux!Windowed(i) /\ Mux!Attended(i)
  BY MuxFacts
<1>e. /\ mApp[i] = "dialing"
      /\ UNCHANGED <<mScene, mRbuf, mGot, mWriter, mWritten, mSent, mConsumed,
                     mAckedSent, mAckQ, mDead, mRaced, mUp, mCtl, mBulk, mEx, mDials,
                     mHeld, mDst, mFed, mExSent, mExAcked, mWrote, mExAckedSent,
                     mInAll, mOpens, mLosses>>
  BY DEF Mux!DialAbandoned, Mux!countVars, Mux!clientVars, Mux!exitVars, Mux!wire
<1>c. /\ mApp' = [mApp EXCEPT ![i] = "failed"]
      /\ Mux!DropStream(i)
  BY DEF Mux!DialAbandoned
<1>d. /\ Mux!Counted' /\ mAcked' \in [Flows -> Nat] /\ mKnown' = mKnown \ {i}
      /\ mClosed' \in [Flows -> BOOLEAN] /\ mEof' \in [Flows -> BOOLEAN]
      /\ mAnswer' \in [Flows -> {"none", "ok", "refused", "ended"}]
      /\ \A j \in Flows : j # i => mAcked'[j] = mAcked[j] /\ mAnswer'[j] = mAnswer[j] /\ (mEof'[j] <=> mEof[j])
      /\ mAnswer'[i] = "ok" => mAnswer[i] = "ok"
      /\ mAcked[i] <= mAcked'[i] /\ mAcked'[i] <= mSent[i]
      /\ i \in mKnown => mAcked'[i] = mSent[i]
      /\ i \notin mKnown => mAcked'[i] = mAcked[i]
      /\ mEof[i] => mEof'[i]
  BY <1>e, <1>c, MuxDrops
<1>o. \A j \in Flows : j # i => MuxStays(j)
  BY <1>c, <1>d, <1>e, <1>f DEF MuxStays, MuxSameIn, MuxSameOut, MuxSameLife, MuxSameCounts, MuxSameAcks, MuxSameEnd, Mux!Typed
<1>s. MuxSameIn(i) /\ MuxSameOut(i) /\ MuxSameAcks(i) /\ MuxOnward
  BY <1>e DEF MuxSameIn, MuxSameOut, MuxSameAcks, MuxOnward
<1>n. Mux!Counted'
  BY <1>d
<1>1. Mux!Continues(i)'
  BY <1>e, <1>f, <1>s, MuxStillContinues
<1>2. Mux!Complete(i)'
  <2>1. (i \in mKnown' => i \in mKnown) /\ (mEof[i] => mEof'[i]) /\ mLosses' = mLosses
    BY <1>d, <1>e
  <2> QED BY <1>f, <1>s, <2>1, MuxStillComplete
<1>3. Mux!Begun(i)'
  <2>1. mApp'[i] = "failed" /\ (mAnswer[i] # "ok" => mAnswer'[i] # "ok") /\ i \notin mKnown'
    BY <1>c, <1>d, <1>f DEF Mux!Typed
  <2>2. mGot'[i] \o mRbuf'[i] = mGot[i] \o mRbuf[i]
    BY <1>e
  <2> QED BY <1>e, <1>f, <2>1, <2>2 DEF Mux!Begun
<1>4. Mux!Windowed(i)'
  <2>1. mSent[i] \in Nat /\ mAcked[i] \in Nat /\ mAcked'[i] \in Nat
    BY <1>d, <1>f DEF Mux!Typed
  <2>2. mAcked'[i] <= mSent[i] /\ mSent[i] - mAcked'[i] <= mSent[i] - mAcked[i]
    BY <1>d, <2>1
  <2>3. mSent[i] - mAcked'[i] \in Int /\ PerFlow \in Nat
    BY <2>1, FlowsAssumption
  <2> QED BY <1>e, <1>f, <2>1, <2>2, <2>3 DEF Mux!Windowed
<1>5. Mux!Attended(i)'
  <2>1. mApp'[i] = "failed" /\ i \notin mKnown'
    BY <1>c, <1>d, <1>f DEF Mux!Typed
  <2>2. ~mRaced => mWriter[i] = "none"
    BY <1>e, <1>f DEF Mux!Attended
  <2>3. ~mRaced /\ ~mDead => mAcked'[i] = mSent[i]
    BY <1>d, <1>f DEF Mux!Attended
  <2> QED BY <1>e, <2>1, <2>2, <2>3 DEF Mux!Attended
<1>t. Mux!Typed'
  BY <1>c, <1>d, <1>e, <1>f DEF Mux!Typed
<1> QED BY <1>n, <1>o, <1>s, <1>1, <1>2, <1>3, <1>4, <1>5, <1>t, MuxOne


LEMMA MuxRefused ==
    ASSUME Mux!IInv, NEW i \in Flows, Mux!DialReturns(i), mAnswer[i] # "ok"
    PROVE  Mux!IInv'
<1>f. /\ Mux!Typed /\ Mux!Counted /\ Mux!Sound(i)
      /\ Mux!Continues(i) /\ Mux!Begun(i) /\ Mux!Complete(i) /\ Mux!Windowed(i) /\ Mux!Attended(i)
  BY MuxFacts
<1>e. /\ mApp[i] = "dialing"
      /\ UNCHANGED <<mScene, mRbuf, mGot, mWriter, mWritten, mSent, mConsumed,
                     mAckedSent, mAckQ, mDead, mRaced, mUp, mCtl, mBulk, mEx, mDials,
                     mHeld, mDst, mFed, mExSent, mExAcked, mWrote, mExAckedSent,
                     mInAll, mOpens, mLosses>>
  BY DEF Mux!DialReturns, Mux!countVars, Mux!clientVars, Mux!exitVars, Mux!wire
<1>c. /\ mApp' = [mApp EXCEPT ![i] = "failed"]
      /\ Mux!DropStream(i)
  BY DEF Mux!DialReturns
<1>d. /\ Mux!Counted' /\ mAcked' \in [Flows -> Nat] /\ mKnown' = mKnown \ {i}
      /\ mClosed' \in [Flows -> BOOLEAN] /\ mEof' \in [Flows -> BOOLEAN]
      /\ mAnswer' \in [Flows -> {"none", "ok", "refused", "ended"}]
      /\ \A j \in Flows : j # i => mAcked'[j] = mAcked[j] /\ mAnswer'[j] = mAnswer[j] /\ (mEof'[j] <=> mEof[j])
      /\ mAnswer'[i] = "ok" => mAnswer[i] = "ok"
      /\ mAcked[i] <= mAcked'[i] /\ mAcked'[i] <= mSent[i]
      /\ i \in mKnown => mAcked'[i] = mSent[i]
      /\ i \notin mKnown => mAcked'[i] = mAcked[i]
      /\ mEof[i] => mEof'[i]
  BY <1>e, <1>c, MuxDrops
<1>o. \A j \in Flows : j # i => MuxStays(j)
  BY <1>c, <1>d, <1>e, <1>f DEF MuxStays, MuxSameIn, MuxSameOut, MuxSameLife, MuxSameCounts, MuxSameAcks, MuxSameEnd, Mux!Typed
<1>s. MuxSameIn(i) /\ MuxSameOut(i) /\ MuxSameAcks(i) /\ MuxOnward
  BY <1>e DEF MuxSameIn, MuxSameOut, MuxSameAcks, MuxOnward
<1>n. Mux!Counted'
  BY <1>d
<1>1. Mux!Continues(i)'
  BY <1>e, <1>f, <1>s, MuxStillContinues
<1>2. Mux!Complete(i)'
  <2>1. (i \in mKnown' => i \in mKnown) /\ (mEof[i] => mEof'[i]) /\ mLosses' = mLosses
    BY <1>d, <1>e
  <2> QED BY <1>f, <1>s, <2>1, MuxStillComplete
<1>3. Mux!Begun(i)'
  <2>1. mApp'[i] = "failed" /\ (mAnswer[i] # "ok" => mAnswer'[i] # "ok") /\ i \notin mKnown'
    BY <1>c, <1>d, <1>f DEF Mux!Typed
  <2>2. mGot'[i] \o mRbuf'[i] = mGot[i] \o mRbuf[i]
    BY <1>e
  <2> QED BY <1>e, <1>f, <2>1, <2>2 DEF Mux!Begun
<1>4. Mux!Windowed(i)'
  <2>1. mSent[i] \in Nat /\ mAcked[i] \in Nat /\ mAcked'[i] \in Nat
    BY <1>d, <1>f DEF Mux!Typed
  <2>2. mAcked'[i] <= mSent[i] /\ mSent[i] - mAcked'[i] <= mSent[i] - mAcked[i]
    BY <1>d, <2>1
  <2>3. mSent[i] - mAcked'[i] \in Int /\ PerFlow \in Nat
    BY <2>1, FlowsAssumption
  <2> QED BY <1>e, <1>f, <2>1, <2>2, <2>3 DEF Mux!Windowed
<1>5. Mux!Attended(i)'
  <2>1. mApp'[i] = "failed" /\ i \notin mKnown'
    BY <1>c, <1>d, <1>f DEF Mux!Typed
  <2>2. ~mRaced => mWriter[i] = "none"
    BY <1>e, <1>f DEF Mux!Attended
  <2>3. ~mRaced /\ ~mDead => mAcked'[i] = mSent[i]
    BY <1>d, <1>f DEF Mux!Attended
  <2> QED BY <1>e, <2>1, <2>2, <2>3 DEF Mux!Attended
<1>t. Mux!Typed'
  BY <1>c, <1>d, <1>e, <1>f DEF Mux!Typed
<1> QED BY <1>n, <1>o, <1>s, <1>1, <1>2, <1>3, <1>4, <1>5, <1>t, MuxOne


\* Dial ends with one.
LEMMA MuxOpened ==
    ASSUME Mux!IInv, NEW i \in Flows, Mux!DialReturns(i), mAnswer[i] = "ok"
    PROVE  Mux!IInv'
<1>f. /\ Mux!Typed /\ Mux!Counted /\ Mux!Sound(i)
      /\ Mux!Continues(i) /\ Mux!Begun(i) /\ Mux!Complete(i) /\ Mux!Windowed(i) /\ Mux!Attended(i)
  BY MuxFacts
<1>e. /\ mApp[i] = "dialing"
      /\ UNCHANGED <<mScene, mKnown, mAnswer, mClosed, mEof, mRbuf, mGot, mWriter,
                     mWritten, mSent, mAcked, mConsumed, mAckedSent, mTotalUp, mAckQ,
                     mDead, mRaced, mUp, mCtl, mBulk, mEx, mDials, mHeld, mDst, mFed,
                     mExSent, mExAcked, mWrote, mExAckedSent, mInAll, mOpens, mLosses>>
  BY DEF Mux!DialReturns, Mux!countVars, Mux!clientVars, Mux!exitVars, Mux!wire
<1>c. /\ mApp' = [mApp EXCEPT ![i] = "open"]
  BY DEF Mux!DialReturns
<1>o. \A j \in Flows : j # i => MuxStays(j)
  BY <1>e, <1>c, <1>f DEF MuxStays, MuxSameIn, MuxSameOut, MuxSameLife, MuxSameCounts, MuxSameAcks, MuxSameEnd, Mux!Typed
<1>s. MuxSameIn(i) /\ MuxSameOut(i) /\ MuxSameCounts(i) /\ MuxSameAcks(i) /\ MuxOnward
  BY <1>e DEF MuxSameIn, MuxSameOut, MuxSameCounts, MuxSameAcks, MuxOnward
<1>n. Mux!Counted'
  BY <1>e, <1>f, <1>s, MuxStillCounted
<1>1. Mux!Continues(i)'
  BY <1>e, <1>f, <1>s, MuxStillContinues
<1>2. Mux!Complete(i)'
  BY <1>e, <1>f, <1>s, MuxStillComplete
<1>3. Mux!Begun(i)'
  <2>1. mApp'[i] = "open" /\ mDials[i] # 0
    BY <1>c, <1>f DEF Mux!Typed, Mux!Begun
  <2> QED BY <1>e, <2>1 DEF Mux!Begun
<1>4. Mux!Windowed(i)'
  BY <1>e, <1>f, <1>s, MuxStillWindowed
<1>5. Mux!Attended(i)'
  <2>1. mApp'[i] = "open"
    BY <1>c, <1>f DEF Mux!Typed
  <2> QED BY <1>e, <1>f, <2>1 DEF Mux!Attended
<1>t. Mux!Typed'
  BY <1>e, <1>c, <1>f DEF Mux!Typed
<1> QED BY <1>n, <1>o, <1>s, <1>1, <1>2, <1>3, <1>4, <1>5, <1>t, MuxOne

\* The steps of a Write.
LEMMA MuxWrite ==
    ASSUME Mux!IInv, NEW i \in Flows, Mux!Write(i)
    PROVE  Mux!IInv'
<1>f. /\ Mux!Typed /\ Mux!Counted /\ Mux!Sound(i)
      /\ Mux!Continues(i) /\ Mux!Begun(i) /\ Mux!Complete(i) /\ Mux!Windowed(i) /\ Mux!Attended(i)
  BY MuxFacts
<1>e. /\ mApp[i] = "open"
      /\ UNCHANGED <<mScene, mApp, mKnown, mAnswer, mClosed, mEof, mRbuf, mGot,
                     mWritten, mSent, mAcked, mConsumed, mAckedSent, mTotalUp, mAckQ,
                     mDead, mRaced, mUp, mCtl, mBulk, mEx, mDials, mHeld, mDst, mFed,
                     mExSent, mExAcked, mWrote, mExAckedSent, mInAll, mOpens, mLosses>>
  BY DEF Mux!Write, Mux!WriterMoves, Mux!countVars, Mux!clientVars, Mux!exitVars, Mux!wire
<1>c. /\ mWriter' = [mWriter EXCEPT ![i] = "waiting"]
  BY DEF Mux!Write, Mux!WriterMoves
<1>o. \A j \in Flows : j # i => MuxStays(j)
  BY <1>e, <1>c, <1>f DEF MuxStays, MuxSameIn, MuxSameOut, MuxSameLife, MuxSameCounts, MuxSameAcks, MuxSameEnd, Mux!Typed
<1>s. MuxSameIn(i) /\ MuxSameOut(i) /\ MuxSameCounts(i) /\ MuxSameAcks(i) /\ MuxOnward
  BY <1>e DEF MuxSameIn, MuxSameOut, MuxSameCounts, MuxSameAcks, MuxOnward
<1>n. Mux!Counted'
  BY <1>e, <1>f, <1>s, MuxStillCounted
<1>1. Mux!Continues(i)'
  BY <1>e, <1>f, <1>s, MuxStillContinues
<1>2. Mux!Complete(i)'
  BY <1>e, <1>f, <1>s, MuxStillComplete
<1>3. Mux!Begun(i)'
  <2>1. mDials[i] # 0 /\ mApp[i] # "idle"
    BY <1>e, <1>f DEF Mux!Begun
  <2> QED BY <1>e, <2>1 DEF Mux!Begun
<1>4. Mux!Windowed(i)'
  <2>1. mWriter'[i] = "waiting"
    BY <1>c, <1>f DEF Mux!Typed
  <2> QED BY <1>e, <1>f, <2>1 DEF Mux!Windowed
<1>5. Mux!Attended(i)'
  <2>1. mWriter'[i] = "waiting"
    BY <1>c, <1>f DEF Mux!Typed
  <2> QED BY <1>e, <1>f, <2>1 DEF Mux!Attended
<1>t. Mux!Typed'
  BY <1>e, <1>c, <1>f DEF Mux!Typed
<1> QED BY <1>n, <1>o, <1>s, <1>1, <1>2, <1>3, <1>4, <1>5, <1>t, MuxOne


LEMMA MuxWindowOpens ==
    ASSUME Mux!IInv, NEW i \in Flows, Mux!WindowOpens(i)
    PROVE  Mux!IInv'
<1>f. /\ Mux!Typed /\ Mux!Counted /\ Mux!Sound(i)
      /\ Mux!Continues(i) /\ Mux!Begun(i) /\ Mux!Complete(i) /\ Mux!Windowed(i) /\ Mux!Attended(i)
  BY MuxFacts
<1>e. /\ mWriter[i] = "waiting"
      /\ UNCHANGED <<mScene, mApp, mKnown, mAnswer, mClosed, mEof, mRbuf, mGot,
                     mWritten, mSent, mAcked, mConsumed, mAckedSent, mTotalUp, mAckQ,
                     mDead, mRaced, mUp, mCtl, mBulk, mEx, mDials, mHeld, mDst, mFed,
                     mExSent, mExAcked, mWrote, mExAckedSent, mInAll, mOpens, mLosses>>
  BY DEF Mux!WindowOpens, Mux!WriterMoves, Mux!countVars, Mux!clientVars, Mux!exitVars, Mux!wire
<1>c. /\ mWriter' = [mWriter EXCEPT ![i] = "free"]
      /\ Mux!Fits(i)
  BY DEF Mux!WindowOpens, Mux!WriterMoves
<1>o. \A j \in Flows : j # i => MuxStays(j)
  BY <1>e, <1>c, <1>f DEF MuxStays, MuxSameIn, MuxSameOut, MuxSameLife, MuxSameCounts, MuxSameAcks, MuxSameEnd, Mux!Typed
<1>s. MuxSameIn(i) /\ MuxSameOut(i) /\ MuxSameCounts(i) /\ MuxSameAcks(i) /\ MuxOnward
  BY <1>e DEF MuxSameIn, MuxSameOut, MuxSameCounts, MuxSameAcks, MuxOnward
<1>n. Mux!Counted'
  BY <1>e, <1>f, <1>s, MuxStillCounted
<1>1. Mux!Continues(i)'
  BY <1>e, <1>f, <1>s, MuxStillContinues
<1>2. Mux!Complete(i)'
  BY <1>e, <1>f, <1>s, MuxStillComplete
<1>3. Mux!Begun(i)'
  <2>1. mDials[i] # 0 /\ mApp[i] # "idle"
    BY <1>e, <1>f DEF Mux!Begun
  <2> QED BY <1>e, <2>1 DEF Mux!Begun
<1>4. Mux!Windowed(i)'
  <2>1. mWriter'[i] = "free"
    BY <1>c, <1>f DEF Mux!Typed
  <2>2. mSent[i] \in Nat /\ mAcked[i] \in Nat /\ PerFlow \in Nat /\ 1 <= PerFlow
    BY <1>f, FlowsAssumption DEF Mux!Typed
  <2>3. mSent[i] - mAcked[i] + 1 <= PerFlow
    BY <1>c, <2>2 DEF Mux!Fits, Mux!InFlight
  <2> QED BY <1>e, <1>f, <2>1, <2>3 DEF Mux!Windowed
<1>5. Mux!Attended(i)'
  <2>1. mWriter'[i] = "free"
    BY <1>c, <1>f DEF Mux!Typed
  <2> QED BY <1>e, <1>f, <2>1 DEF Mux!Attended
<1>t. Mux!Typed'
  BY <1>e, <1>c, <1>f DEF Mux!Typed
<1> QED BY <1>n, <1>o, <1>s, <1>1, <1>2, <1>3, <1>4, <1>5, <1>t, MuxOne


LEMMA MuxStalled ==
    ASSUME Mux!IInv, NEW i \in Flows, Mux!WriterStalled(i)
    PROVE  Mux!IInv'
<1>f. /\ Mux!Typed /\ Mux!Counted /\ Mux!Sound(i)
      /\ Mux!Continues(i) /\ Mux!Begun(i) /\ Mux!Complete(i) /\ Mux!Windowed(i) /\ Mux!Attended(i)
  BY MuxFacts
<1>e. /\ mWriter[i] = "waiting"
      /\ UNCHANGED <<mScene, mApp, mKnown, mAnswer, mClosed, mEof, mRbuf, mGot,
                     mWritten, mSent, mConsumed, mAckedSent, mAckQ, mDead, mRaced,
                     mUp, mCtl, mBulk, mEx, mDials, mHeld, mDst, mFed, mExSent,
                     mExAcked, mWrote, mExAckedSent, mInAll, mOpens, mLosses>>
  BY DEF Mux!WriterStalled, Mux!WriterMoves, Mux!countVars, Mux!clientVars, Mux!exitVars, Mux!wire
<1>c. /\ mWriter' = [mWriter EXCEPT ![i] = "free"]
      /\ mTotalUp' = mTotalUp - (mSent[i] - mAcked[i])
      /\ mAcked' = [mAcked EXCEPT ![i] = mSent[i]]
  BY DEF Mux!WriterStalled, Mux!WriterMoves, Mux!Forget, Mux!InFlight
<1>o. \A j \in Flows : j # i => MuxStays(j)
  BY <1>e, <1>c, <1>f DEF MuxStays, MuxSameIn, MuxSameOut, MuxSameLife, MuxSameCounts, MuxSameAcks, MuxSameEnd, Mux!Typed
<1>s. MuxSameIn(i) /\ MuxSameOut(i) /\ MuxSameAcks(i) /\ MuxOnward
  BY <1>e DEF MuxSameIn, MuxSameOut, MuxSameAcks, MuxOnward
<1>n. Mux!Counted'
  <2>1. mSent[i] \in Nat /\ mAcked[i] <= mSent[i] /\ mSent[i] <= mSent[i]
    BY <1>f DEF Mux!Typed, Mux!Windowed
  <2>2. UNCHANGED <<mSent, mInAll, mExAcked, mExSent>>
    BY <1>e
  <2> QED BY <1>c, <2>1, <2>2, MuxAcked
<1>1. Mux!Continues(i)'
  BY <1>e, <1>f, <1>s, MuxStillContinues
<1>2. Mux!Complete(i)'
  BY <1>e, <1>f, <1>s, MuxStillComplete
<1>3. Mux!Begun(i)'
  <2>1. mDials[i] # 0 /\ mApp[i] # "idle"
    BY <1>e, <1>f DEF Mux!Begun
  <2> QED BY <1>e, <2>1 DEF Mux!Begun
<1>4. Mux!Windowed(i)'
  <2>1. mWriter'[i] = "free" /\ mAcked'[i] = mSent[i] /\ mSent[i] \in Nat /\ 1 <= PerFlow /\ PerFlow \in Nat
    BY <1>c, <1>f, FlowsAssumption DEF Mux!Typed
  <2>2. mSent[i] - mSent[i] = 0 /\ 0 + 1 <= PerFlow
    BY <2>1
  <2> QED BY <1>e, <1>f, <2>1, <2>2 DEF Mux!Windowed
<1>5. Mux!Attended(i)'
  <2>1. mWriter'[i] = "free" /\ mAcked'[i] = mSent[i]
    BY <1>c, <1>f DEF Mux!Typed
  <2> QED BY <1>e, <1>f, <2>1 DEF Mux!Attended
<1>t. Mux!Typed'
  BY <1>e, <1>c, <1>f DEF Mux!Typed
<1> QED BY <1>n, <1>o, <1>s, <1>1, <1>2, <1>3, <1>4, <1>5, <1>t, MuxOne


LEMMA MuxWriteFails ==
    ASSUME Mux!IInv, NEW i \in Flows, Mux!WriteFails(i)
    PROVE  Mux!IInv'
<1>f. /\ Mux!Typed /\ Mux!Counted /\ Mux!Sound(i)
      /\ Mux!Continues(i) /\ Mux!Begun(i) /\ Mux!Complete(i) /\ Mux!Windowed(i) /\ Mux!Attended(i)
  BY MuxFacts
<1>e. /\ mWriter[i] # "none"
      /\ UNCHANGED <<mScene, mApp, mKnown, mAnswer, mClosed, mEof, mRbuf, mGot,
                     mWritten, mSent, mAcked, mConsumed, mAckedSent, mTotalUp, mAckQ,
                     mDead, mRaced, mUp, mCtl, mBulk, mEx, mDials, mHeld, mDst, mFed,
                     mExSent, mExAcked, mWrote, mExAckedSent, mInAll, mOpens, mLosses>>
  BY DEF Mux!WriteFails, Mux!WriterMoves, Mux!countVars, Mux!clientVars, Mux!exitVars, Mux!wire
<1>c. /\ mWriter' = [mWriter EXCEPT ![i] = "none"]
  BY DEF Mux!WriteFails, Mux!WriterMoves
<1>o. \A j \in Flows : j # i => MuxStays(j)
  BY <1>e, <1>c, <1>f DEF MuxStays, MuxSameIn, MuxSameOut, MuxSameLife, MuxSameCounts, MuxSameAcks, MuxSameEnd, Mux!Typed
<1>s. MuxSameIn(i) /\ MuxSameOut(i) /\ MuxSameCounts(i) /\ MuxSameAcks(i) /\ MuxOnward
  BY <1>e DEF MuxSameIn, MuxSameOut, MuxSameCounts, MuxSameAcks, MuxOnward
<1>n. Mux!Counted'
  BY <1>e, <1>f, <1>s, MuxStillCounted
<1>1. Mux!Continues(i)'
  BY <1>e, <1>f, <1>s, MuxStillContinues
<1>2. Mux!Complete(i)'
  BY <1>e, <1>f, <1>s, MuxStillComplete
<1>3. Mux!Begun(i)'
  <2>1. mDials[i] # 0 /\ mApp[i] # "idle"
    BY <1>e, <1>f DEF Mux!Begun
  <2> QED BY <1>e, <2>1 DEF Mux!Begun
<1>4. Mux!Windowed(i)'
  <2>1. mWriter'[i] = "none"
    BY <1>c, <1>f DEF Mux!Typed
  <2> QED BY <1>e, <1>f, <2>1 DEF Mux!Windowed
<1>5. Mux!Attended(i)'
  <2>1. mWriter'[i] = "none"
    BY <1>c, <1>f DEF Mux!Typed
  <2> QED BY <1>e, <1>f, <2>1 DEF Mux!Attended
<1>t. Mux!Typed'
  BY <1>e, <1>c, <1>f DEF Mux!Typed
<1> QED BY <1>n, <1>o, <1>s, <1>1, <1>2, <1>3, <1>4, <1>5, <1>t, MuxOne


LEMMA MuxSendsData ==
    ASSUME Mux!IInv, NEW i \in Flows, Mux!SendData(i)
    PROVE  Mux!IInv'
<1>f. /\ Mux!Typed /\ Mux!Counted /\ Mux!Sound(i)
      /\ Mux!Continues(i) /\ Mux!Begun(i) /\ Mux!Complete(i) /\ Mux!Windowed(i) /\ Mux!Attended(i)
  BY MuxFacts
<1>e. /\ mWriter[i] = "free"
      /\ UNCHANGED <<mScene, mApp, mKnown, mAnswer, mClosed, mEof, mRbuf, mGot, mSent,
                     mAcked, mConsumed, mAckedSent, mTotalUp, mAckQ, mDead, mRaced,
                     mCtl, mBulk, mEx, mDials, mHeld, mDst, mFed, mExSent, mExAcked,
                     mWrote, mExAckedSent, mInAll, mOpens, mLosses>>
  BY DEF Mux!SendData, Mux!WriterMoves, Mux!countVars, Mux!clientVars, Mux!exitVars, Mux!wire
<1>c. /\ mWriter' = [mWriter EXCEPT ![i] = "sent"]
      /\ mWritten' = [mWritten EXCEPT ![i] = @ + 1]
      /\ mUp' = [mUp EXCEPT ![i] = Append(@, Mux!Frame("DATA", mWritten[i] + 1))]
  BY DEF Mux!SendData, Mux!WriterMoves, Mux!SendUp
<1>x. PICK x : x = Mux!Frame("DATA", mWritten[i] + 1)
  OBVIOUS
<1>w. PICK w : w = mWritten[i]
  OBVIOUS
<1>y. w \in Nat /\ x \in Mux!UpFrames /\ x = [type |-> "DATA", val |-> w + 1]
  <2>1. w \in Nat /\ w + 1 \in Nat
    <3>1. mWritten \in [Flows -> Nat]
      BY <1>f DEF Mux!Typed
    <3>2. w \in Nat
      BY <1>w, <3>1
    <3> QED BY <3>2
  <2> QED BY <1>w, <1>x, <2>1, MuxFrames DEF Mux!Frame
<1>z. mUp[i] \in Seq(Mux!UpFrames) /\ Append(mUp[i], x) \in Seq(Mux!UpFrames)
  <2>1. mUp[i] \in Seq(Mux!UpFrames)
    BY <1>f DEF Mux!Typed
  <2> QED BY <1>y, <2>1, MuxAppended
<1>u. mUp'[i] = Append(mUp[i], x) /\ mUp' \in [Flows -> Seq(Mux!UpFrames)] /\ mWritten'[i] = w + 1
  BY <1>c, <1>f, <1>w, <1>x, <1>z DEF Mux!Typed
<1>g. Mux!Outgoing(mUp[i], mHeld[i], mDst[i], mDials[i], w)
  BY <1>f, <1>w DEF Mux!Continues
<1>o. \A j \in Flows : j # i => MuxStays(j)
  BY <1>e, <1>c, <1>f DEF MuxStays, MuxSameIn, MuxSameOut, MuxSameLife, MuxSameCounts, MuxSameAcks, MuxSameEnd, Mux!Typed
<1>s. MuxSameIn(i) /\ MuxSameCounts(i) /\ MuxSameAcks(i) /\ MuxOnward
  BY <1>e DEF MuxSameIn, MuxSameCounts, MuxSameAcks, MuxOnward
<1>n. Mux!Counted'
  BY <1>e, <1>f, <1>s, MuxStillCounted
<1>1. Mux!Continues(i)'
  <2>1. Mux!Outgoing(Append(mUp[i], x), mHeld[i], mDst[i], mDials[i], w + 1)
    BY <1>g, <1>y, MuxSends
  <2>2. Mux!Outgoing(mUp'[i], mHeld'[i], mDst'[i], mDials'[i], mWritten'[i])
    BY <1>e, <1>u, <2>1
  <2>3. Mux!Incoming(mGot'[i] \o mRbuf'[i], mBulk'[i], mDials'[i], mFed'[i])
    BY <1>e, <1>f DEF Mux!Continues
  <2> QED BY <1>e, <1>f, <2>2, <2>3 DEF Mux!Continues
<1>2. Mux!Complete(i)'
  <2>1. Mux!Reaches(mUp[i], mHeld[i], mDst[i], w) => Mux!Reaches(Append(mUp[i], x), mHeld[i], mDst[i], w + 1)
    BY <1>g, <1>y, MuxSends
  <2> QED BY <1>e, <1>f, <1>u, <1>w, <2>1 DEF Mux!Complete
<1>3. Mux!Begun(i)'
  <2>1. mDials[i] # 0 /\ mApp[i] # "idle"
    BY <1>e, <1>f DEF Mux!Begun
  <2> QED BY <1>e, <2>1 DEF Mux!Begun
<1>4. Mux!Windowed(i)'
  <2>1. mWriter'[i] = "sent"
    BY <1>c, <1>f DEF Mux!Typed
  <2> QED BY <1>e, <1>f, <2>1 DEF Mux!Windowed
<1>5. Mux!Attended(i)'
  <2>1. mWriter'[i] = "sent"
    BY <1>c, <1>f DEF Mux!Typed
  <2> QED BY <1>e, <1>f, <2>1 DEF Mux!Attended
<1>t. Mux!Typed'
  <2>1. mWriter' \in [Flows -> {"none", "waiting", "free", "sent"}]
    BY <1>c, <1>f DEF Mux!Typed
  <2>2. mWritten' \in [Flows -> Nat]
    <3>1. mWritten \in [Flows -> Nat]
      BY <1>f DEF Mux!Typed
    <3> QED BY <1>c, <3>1
  <2> QED BY <1>e, <1>f, <1>u, <2>1, <2>2 DEF Mux!Typed
<1> QED BY <1>n, <1>o, <1>s, <1>1, <1>2, <1>3, <1>4, <1>5, <1>t, MuxOne


LEMMA MuxCountSent ==
    ASSUME Mux!IInv, NEW i \in Flows, Mux!CountSent(i)
    PROVE  Mux!IInv'
<1>f. /\ Mux!Typed /\ Mux!Counted /\ Mux!Sound(i)
      /\ Mux!Continues(i) /\ Mux!Begun(i) /\ Mux!Complete(i) /\ Mux!Windowed(i) /\ Mux!Attended(i)
  BY MuxFacts
<1>e. /\ mWriter[i] = "sent"
      /\ UNCHANGED <<mScene, mApp, mKnown, mAnswer, mClosed, mEof, mRbuf, mGot,
                     mWritten, mAcked, mConsumed, mAckedSent, mAckQ, mDead, mRaced,
                     mUp, mCtl, mBulk, mEx, mDials, mHeld, mDst, mFed, mExSent,
                     mExAcked, mWrote, mExAckedSent, mInAll, mOpens, mLosses>>
  BY DEF Mux!CountSent, Mux!WriterMoves, Mux!countVars, Mux!clientVars, Mux!exitVars, Mux!wire
<1>c. /\ mWriter' = [mWriter EXCEPT ![i] = "none"]
      /\ mSent' = [mSent EXCEPT ![i] = @ + 1]
      /\ mTotalUp' = mTotalUp + 1
  BY DEF Mux!CountSent, Mux!WriterMoves
<1>o. \A j \in Flows : j # i => MuxStays(j)
  BY <1>e, <1>c, <1>f DEF MuxStays, MuxSameIn, MuxSameOut, MuxSameLife, MuxSameCounts, MuxSameAcks, MuxSameEnd, Mux!Typed
<1>s. MuxSameIn(i) /\ MuxSameOut(i) /\ MuxSameAcks(i) /\ MuxOnward
  BY <1>e DEF MuxSameIn, MuxSameOut, MuxSameAcks, MuxOnward
<1>n. Mux!Counted'
  <2>1. IsFiniteSet(Flows)
    BY FlowsAssumption
  <2>2. mAcked \in [Flows -> Nat]
    BY <1>f DEF Mux!Typed
  <2>3. mSent \in [Flows -> Nat]
    BY <1>f DEF Mux!Typed
  <2>4. mAcked[i] <= mSent[i]
    BY <1>f DEF Mux!Windowed
  <2>5. PICK t : t = mSent'
    OBVIOUS
  <2>6. t \in [Flows -> Nat]
    BY <1>c, <2>3, <2>5
  <2>7. t[i] = mSent[i] + 1
    BY <1>c, <2>3, <2>5
  <2>8. \A j \in Flows : j # i => t[j] = mSent[j]
    BY <1>c, <2>3, <2>5
  <2>9. Cardinality(Mux!UnderWay(Flows, mAcked, t)) = Cardinality(Mux!UnderWay(Flows, mAcked, mSent)) + 1
    BY <2>1, <2>2, <2>3, <2>4, <2>6, <2>7, <2>8, MuxCounts
  <2>10. mTotalUp = Cardinality(Mux!UnderWay(Flows, mAcked, mSent))
         /\ mInAll = Mux!Cardinality(Mux!UnderWay(Flows, mExAcked, mExSent))
    BY <1>f, MuxSizes DEF Mux!Counted
  <2>11. mTotalUp' = Mux!Cardinality(Mux!UnderWay(Flows, mAcked, mSent'))
    BY <1>c, <2>5, <2>9, <2>10, MuxSizes
  <2>12. mTotalUp' = Mux!Cardinality(Mux!UnderWay(Flows, mAcked', mSent'))
    BY <1>e, <2>11
  <2>13. mInAll' = Mux!Cardinality(Mux!UnderWay(Flows, mExAcked', mExSent'))
    BY <1>e, <2>10
  <2> QED BY <2>12, <2>13 DEF Mux!Counted
<1>1. Mux!Continues(i)'
  BY <1>e, <1>f, <1>s, MuxStillContinues
<1>2. Mux!Complete(i)'
  BY <1>e, <1>f, <1>s, MuxStillComplete
<1>3. Mux!Begun(i)'
  <2>1. mDials[i] # 0 /\ mApp[i] # "idle"
    BY <1>e, <1>f DEF Mux!Begun
  <2> QED BY <1>e, <2>1 DEF Mux!Begun
<1>4. Mux!Windowed(i)'
  <2>1. mWriter'[i] = "none" /\ mSent'[i] = mSent[i] + 1 /\ mSent[i] \in Nat /\ mAcked[i] \in Nat
    BY <1>c, <1>f DEF Mux!Typed
  <2>2. mSent[i] - mAcked[i] + 1 <= PerFlow /\ mAcked[i] <= mSent[i]
    BY <1>e, <1>f DEF Mux!Windowed
  <2>3. (mSent[i] + 1) - mAcked[i] <= PerFlow /\ mAcked[i] <= mSent[i] + 1
    BY <2>1, <2>2, FlowsAssumption
  <2> QED BY <1>e, <1>f, <2>1, <2>3 DEF Mux!Windowed
<1>5. Mux!Attended(i)'
  <2>1. mWriter'[i] = "none"
    BY <1>c, <1>f DEF Mux!Typed
  <2>2. mRaced \/ mDead \/ i \in mKnown
    BY <1>e, <1>f DEF Mux!Attended
  <2> QED BY <1>e, <1>f, <2>1, <2>2 DEF Mux!Attended
<1>t. Mux!Typed'
  <2>1. mWriter' \in [Flows -> {"none", "waiting", "free", "sent"}]
    BY <1>c, <1>f DEF Mux!Typed
  <2>2. mSent' \in [Flows -> Nat]
    <3>1. mSent \in [Flows -> Nat]
      BY <1>f DEF Mux!Typed
    <3> QED BY <1>c, <3>1
  <2> QED BY <1>e, <1>f, <2>1, <2>2 DEF Mux!Typed
<1> QED BY <1>n, <1>o, <1>s, <1>1, <1>2, <1>3, <1>4, <1>5, <1>t, MuxOne

\* Read, Close and acks.
LEMMA MuxReads ==
    ASSUME Mux!IInv, NEW i \in Flows, Mux!Read(i)
    PROVE  Mux!IInv'
<1>f. /\ Mux!Typed /\ Mux!Counted /\ Mux!Sound(i)
      /\ Mux!Continues(i) /\ Mux!Begun(i) /\ Mux!Complete(i) /\ Mux!Windowed(i) /\ Mux!Attended(i)
  BY MuxFacts
<1>e. /\ mApp[i] = "open"
      /\ UNCHANGED <<mScene, mApp, mKnown, mAnswer, mClosed, mEof, mWriter, mWritten,
                     mSent, mAcked, mTotalUp, mDead, mRaced, mUp, mCtl, mBulk, mEx,
                     mDials, mHeld, mDst, mFed, mExSent, mExAcked, mWrote,
                     mExAckedSent, mInAll, mOpens, mLosses>>
  BY DEF Mux!Read, Mux!countVars, Mux!clientVars, Mux!exitVars, Mux!wire
<1>c. /\ mRbuf[i] # <<>>
      /\ mGot' = [mGot EXCEPT ![i] = Append(@, Head(mRbuf[i]))]
      /\ mRbuf' = [mRbuf EXCEPT ![i] = Tail(@)]
      /\ mConsumed' = [mConsumed EXCEPT ![i] = @ + 1]
      /\ \/ mAckedSent' = [mAckedSent EXCEPT ![i] = mConsumed[i] + 1] /\ mAckQ' = mAckQ \cup {i}
         \/ UNCHANGED <<mAckedSent, mAckQ>>
  BY DEF Mux!Read
<1>g. mGot[i] \in Seq(Mux!Pairs) /\ mRbuf[i] \in Seq(Mux!Pairs)
  BY <1>f DEF Mux!Typed
<1>h. Head(mRbuf[i]) \in Mux!Pairs /\ Tail(mRbuf[i]) \in Seq(Mux!Pairs)
  BY <1>c, <1>g, MuxTailed
<1>i. Append(mGot[i], Head(mRbuf[i])) \in Seq(Mux!Pairs)
  BY <1>g, <1>h, MuxAppended
<1>j. Append(mGot[i], Head(mRbuf[i])) \o Tail(mRbuf[i]) = mGot[i] \o mRbuf[i]
  BY <1>c, <1>g, MuxRead
<1>k. mGot' \in [Flows -> Seq(Mux!Pairs)] /\ mGot'[i] = Append(mGot[i], Head(mRbuf[i]))
  BY <1>c, <1>f, <1>i DEF Mux!Typed
<1>l. mRbuf' \in [Flows -> Seq(Mux!Pairs)] /\ mRbuf'[i] = Tail(mRbuf[i])
  BY <1>c, <1>f, <1>h DEF Mux!Typed
<1>r. mGot'[i] \o mRbuf'[i] = mGot[i] \o mRbuf[i]
  BY <1>j, <1>k, <1>l
<1>q. mConsumed' \in [Flows -> Nat] /\ mAckedSent' \in [Flows -> Nat]
  <2>1. mConsumed \in [Flows -> Nat] /\ mAckedSent \in [Flows -> Nat]
    BY <1>f DEF Mux!Typed
  <2> QED BY <1>c, <2>1
<1>o. \A j \in Flows : j # i => MuxStays(j)
  <2>1. \A j \in Flows : j # i => mGot'[j] = mGot[j] /\ mRbuf'[j] = mRbuf[j]
    BY <1>c, <1>f DEF Mux!Typed
  <2>2. \A j \in Flows : j # i => (j \in mAckQ' <=> j \in mAckQ)
    BY <1>c
  <2> QED BY <1>e, <2>1, <2>2 DEF MuxStays, MuxSameIn, MuxSameOut, MuxSameLife, MuxSameCounts, MuxSameAcks, MuxSameEnd
<1>s. MuxSameOut(i) /\ MuxSameLife(i) /\ MuxSameCounts(i) /\ MuxOnward
  BY <1>e DEF MuxSameOut, MuxSameLife, MuxSameCounts, MuxOnward
<1>n. Mux!Counted'
  BY <1>e, <1>f, <1>s, MuxStillCounted
<1>1. Mux!Continues(i)'
  BY <1>e, <1>f, <1>r DEF Mux!Continues
<1>2. Mux!Complete(i)'
  BY <1>e, <1>f, <1>r DEF Mux!Complete
<1>3. Mux!Begun(i)'
  <2>1. mDials[i] # 0 /\ mApp[i] # "idle"
    BY <1>e, <1>f DEF Mux!Begun
  <2> QED BY <1>e, <2>1 DEF Mux!Begun
<1>4. Mux!Windowed(i)'
  BY <1>e, <1>f, <1>s, MuxStillWindowed
<1>5. Mux!Attended(i)'
  BY <1>e, <1>f, <1>s, MuxStillAttended
<1>t. Mux!Typed'
  BY <1>c, <1>e, <1>f, <1>k, <1>l, <1>q DEF Mux!Typed
<1> QED BY <1>n, <1>o, <1>s, <1>1, <1>2, <1>3, <1>4, <1>5, <1>t, MuxOne


LEMMA MuxCloses ==
    ASSUME Mux!IInv, NEW i \in Flows, Mux!Close(i)
    PROVE  Mux!IInv'
<1>f. /\ Mux!Typed /\ Mux!Counted /\ Mux!Sound(i)
      /\ Mux!Continues(i) /\ Mux!Begun(i) /\ Mux!Complete(i) /\ Mux!Windowed(i) /\ Mux!Attended(i)
  BY MuxFacts
<1>e. /\ mApp[i] = "open"
      /\ UNCHANGED <<mScene, mKnown, mAnswer, mEof, mRbuf, mGot, mWriter, mWritten,
                     mSent, mAcked, mConsumed, mAckedSent, mTotalUp, mAckQ, mDead,
                     mUp, mCtl, mBulk, mEx, mDials, mHeld, mDst, mFed, mExSent,
                     mExAcked, mWrote, mExAckedSent, mInAll, mOpens, mLosses>>
  BY DEF Mux!Close, Mux!countVars, Mux!clientVars, Mux!exitVars, Mux!wire
<1>c. /\ mApp' = [mApp EXCEPT ![i] = "closing"]
      /\ mClosed' = [mClosed EXCEPT ![i] = TRUE]
      /\ (mRaced => mRaced') /\ (mWriter[i] # "none" => mRaced')
  BY DEF Mux!Close
<1>o. \A j \in Flows : j # i => MuxStays(j)
  BY <1>e, <1>c, <1>f DEF MuxStays, MuxSameIn, MuxSameOut, MuxSameLife, MuxSameCounts, MuxSameAcks, MuxSameEnd, Mux!Typed
<1>s. MuxSameIn(i) /\ MuxSameOut(i) /\ MuxSameCounts(i) /\ MuxSameAcks(i) /\ MuxOnward
  BY <1>e, <1>c DEF MuxSameIn, MuxSameOut, MuxSameCounts, MuxSameAcks, MuxOnward
<1>n. Mux!Counted'
  BY <1>e, <1>f, <1>s, MuxStillCounted
<1>1. Mux!Continues(i)'
  BY <1>e, <1>f, <1>s, MuxStillContinues
<1>2. Mux!Complete(i)'
  BY <1>e, <1>f, <1>s, MuxStillComplete
<1>3. Mux!Begun(i)'
  <2>1. mDials[i] # 0 /\ mApp'[i] = "closing"
    BY <1>c, <1>e, <1>f DEF Mux!Begun, Mux!Typed
  <2> QED BY <1>e, <2>1 DEF Mux!Begun
<1>4. Mux!Windowed(i)'
  BY <1>e, <1>f, <1>s, MuxStillWindowed
<1>5. Mux!Attended(i)'
  <2>1. mApp'[i] = "closing"
    BY <1>c, <1>f DEF Mux!Typed
  <2> QED BY <1>c, <1>e, <1>f, <2>1 DEF Mux!Attended
<1>t. Mux!Typed'
  BY <1>e, <1>c, <1>f DEF Mux!Typed
<1> QED BY <1>n, <1>o, <1>s, <1>1, <1>2, <1>3, <1>4, <1>5, <1>t, MuxOne


LEMMA MuxCloseEnds ==
    ASSUME Mux!IInv, NEW i \in Flows, Mux!CloseEnds(i)
    PROVE  Mux!IInv'
<1>f. /\ Mux!Typed /\ Mux!Counted /\ Mux!Sound(i)
      /\ Mux!Continues(i) /\ Mux!Begun(i) /\ Mux!Complete(i) /\ Mux!Windowed(i) /\ Mux!Attended(i)
  BY MuxFacts
<1>e. /\ mApp[i] = "closing"
      /\ UNCHANGED <<mScene, mRbuf, mGot, mWriter, mWritten, mSent, mConsumed,
                     mAckedSent, mAckQ, mDead, mRaced, mCtl, mBulk, mEx, mDials,
                     mHeld, mDst, mFed, mExSent, mExAcked, mWrote, mExAckedSent,
                     mInAll, mOpens, mLosses>>
  BY DEF Mux!CloseEnds, Mux!countVars, Mux!clientVars, Mux!exitVars, Mux!wire
<1>c. /\ mApp' = [mApp EXCEPT ![i] = "closed"]
      /\ Mux!DropStream(i)
      /\ mUp' = mUp \/ mUp' = [mUp EXCEPT ![i] = Append(@, Mux!Frame("CLOSE", 0))]
  BY DEF Mux!CloseEnds, Mux!SendUp
<1>x. PICK x : x = Mux!Frame("CLOSE", 0)
  OBVIOUS
<1>y. x \in Mux!UpFrames /\ x.type # "DATA"
  BY <1>x, MuxFrames
<1>d. /\ Mux!Counted' /\ mAcked' \in [Flows -> Nat] /\ mKnown' = mKnown \ {i}
      /\ mClosed' \in [Flows -> BOOLEAN] /\ mEof' \in [Flows -> BOOLEAN]
      /\ mAnswer' \in [Flows -> {"none", "ok", "refused", "ended"}]
      /\ \A j \in Flows : j # i => mAcked'[j] = mAcked[j] /\ mAnswer'[j] = mAnswer[j] /\ (mEof'[j] <=> mEof[j])
      /\ mAnswer'[i] = "ok" => mAnswer[i] = "ok"
      /\ mAcked[i] <= mAcked'[i] /\ mAcked'[i] <= mSent[i]
      /\ i \in mKnown => mAcked'[i] = mSent[i]
      /\ i \notin mKnown => mAcked'[i] = mAcked[i]
      /\ mEof[i] => mEof'[i]
  BY <1>e, <1>c, MuxDrops
<1>o. \A j \in Flows : j # i => MuxStays(j)
  <2>1. \A j \in Flows : j # i => mUp'[j] = mUp[j]
    BY <1>c, <1>f DEF Mux!Typed
  <2>2. \A j \in Flows : j # i => mApp'[j] = mApp[j] /\ (j \in mKnown' <=> j \in mKnown)
    BY <1>c, <1>d, <1>f DEF Mux!Typed
  <2> QED BY <1>d, <1>e, <2>1, <2>2 DEF MuxStays, MuxSameIn, MuxSameOut, MuxSameLife, MuxSameCounts, MuxSameAcks, MuxSameEnd
<1>s. MuxSameIn(i) /\ MuxOnward
  BY <1>e DEF MuxSameIn, MuxOnward
<1>n. Mux!Counted'
  BY <1>d
<1>m. Mux!Continues(i)' /\ Mux!Complete(i)' /\ mUp' \in [Flows -> Seq(Mux!UpFrames)]
  <2>1. mHeld'[i] = mHeld[i] /\ mDst'[i] = mDst[i] /\ mWritten'[i] = mWritten[i] /\ mEx'[i] = mEx[i]
        /\ mLosses' = mLosses /\ (mEof[i] => mEof'[i])
    BY <1>d, <1>e
  <2>2. i \in mKnown' => i \in mKnown
    BY <1>d
  <2>3. CASE mUp' = [mUp EXCEPT ![i] = Append(@, Mux!Frame("CLOSE", 0))]
    <3>1. mUp' = [mUp EXCEPT ![i] = Append(@, x)]
      BY <1>x, <2>3
    <3>2. i \in mKnown' => i \in mKnown \/ mDials[i] # 1
      BY <2>2
    <3> QED BY <1>f, <1>s, <1>y, <2>1, <3>1, <3>2, MuxSaid
  <2>4. CASE mUp' = mUp
    <3>1. MuxSameOut(i)
      BY <1>s, <2>1, <2>4 DEF MuxSameIn, MuxSameOut
    <3>2. Mux!Continues(i)'
      BY <1>f, <1>s, <3>1, MuxStillContinues
    <3>3. Mux!Complete(i)'
      BY <1>f, <1>s, <2>1, <2>2, <3>1, MuxStillComplete
    <3> QED BY <1>f, <2>4, <3>2, <3>3 DEF Mux!Typed
  <2> QED BY <1>c, <2>3, <2>4
<1>3. Mux!Begun(i)'
  <2>1. mApp'[i] = "closed" /\ (mAnswer[i] # "ok" => mAnswer'[i] # "ok") /\ i \notin mKnown'
    BY <1>c, <1>d, <1>f DEF Mux!Typed
  <2>2. mGot'[i] \o mRbuf'[i] = mGot[i] \o mRbuf[i]
    BY <1>e
  <2> QED BY <1>e, <1>f, <2>1, <2>2 DEF Mux!Begun
<1>4. Mux!Windowed(i)'
  <2>1. mSent[i] \in Nat /\ mAcked[i] \in Nat /\ mAcked'[i] \in Nat
    BY <1>d, <1>f DEF Mux!Typed
  <2>2. mAcked'[i] <= mSent[i] /\ mSent[i] - mAcked'[i] <= mSent[i] - mAcked[i]
    BY <1>d, <2>1
  <2>3. mSent[i] - mAcked'[i] \in Int /\ PerFlow \in Nat
    BY <2>1, FlowsAssumption
  <2> QED BY <1>e, <1>f, <2>1, <2>2, <2>3 DEF Mux!Windowed
<1>5. Mux!Attended(i)'
  <2>1. mApp'[i] = "closed" /\ i \notin mKnown'
    BY <1>c, <1>d, <1>f DEF Mux!Typed
  <2>2. ~mRaced => mWriter[i] = "none"
    BY <1>e, <1>f DEF Mux!Attended
  <2>3. ~mRaced /\ ~mDead => mAcked'[i] = mSent[i]
    BY <1>d, <1>f DEF Mux!Attended
  <2> QED BY <1>e, <2>1, <2>2, <2>3 DEF Mux!Attended
<1>t. Mux!Typed'
  BY <1>c, <1>d, <1>e, <1>f, <1>m DEF Mux!Typed
<1> QED BY <1>n, <1>o, <1>s, <1>m, <1>3, <1>4, <1>5, <1>t, MuxOne

\* What the exit sends comes.

LEMMA MuxControl ==
    ASSUME Mux!IInv, NEW i \in Flows, Mux!Control(i)
    PROVE  Mux!IInv'
<1>f. /\ Mux!Typed /\ Mux!Counted /\ Mux!Sound(i)
      /\ Mux!Continues(i) /\ Mux!Begun(i) /\ Mux!Complete(i) /\ Mux!Windowed(i) /\ Mux!Attended(i)
  BY MuxFacts
<1>e. /\ UNCHANGED <<mScene, mApp, mKnown, mClosed, mEof, mRbuf, mGot, mWriter,
                     mWritten, mSent, mConsumed, mAckedSent, mAckQ, mDead, mRaced,
                     mUp, mBulk, mEx, mDials, mHeld, mDst, mFed, mExSent, mExAcked,
                     mWrote, mExAckedSent, mInAll, mOpens, mLosses>>
  BY DEF Mux!Control, Mux!countVars, Mux!clientVars, Mux!exitVars, Mux!wire
<1>0. mCtl[i] # <<>> => Head(mCtl[i]).type \in {"OPEN_OK", "OPEN_ERR", "ACK"}
  <2> SUFFICES ASSUME mCtl[i] # <<>> PROVE Head(mCtl[i]).type \in {"OPEN_OK", "OPEN_ERR", "ACK"}
    OBVIOUS
  <2>1. mCtl[i] \in Seq(Mux!CtlFrames)
    BY <1>f DEF Mux!Typed
  <2>2. Head(mCtl[i]) \in Mux!CtlFrames
    BY <2>1, MuxTailed
  <2> QED BY <2>2 DEF Mux!CtlFrames
<1>c. /\ mCtl[i] # <<>>
      /\ mCtl' = [mCtl EXCEPT ![i] = Tail(@)]
      /\ \/ UNCHANGED <<mAnswer, mAcked, mTotalUp>>
         \/ (Mux!OpenOK(i) \/ Mux!OpenErr(i)) /\ UNCHANGED <<mAcked, mTotalUp>>
         \/ i \in mKnown /\ Mux!OnAck(i, Head(mCtl[i]).val) /\ UNCHANGED mAnswer
  BY <1>0 DEF Mux!Control
<1>h. Head(mCtl[i]) \in Mux!CtlFrames /\ mCtl' \in [Flows -> Seq(Mux!CtlFrames)]
  <2>1. mCtl \in [Flows -> Seq(Mux!CtlFrames)]
    BY <1>f DEF Mux!Typed
  <2>2. Tail(mCtl[i]) \in Seq(Mux!CtlFrames) /\ Head(mCtl[i]) \in Mux!CtlFrames
    BY <1>c, <2>1, MuxTailed
  <2> QED BY <1>c, <2>1, <2>2
<1>g. mAcked \in [Flows -> Nat] /\ mSent \in [Flows -> Nat] /\ mAcked[i] <= mSent[i]
      /\ mAnswer \in [Flows -> {"none", "ok", "refused", "ended"}]
  BY <1>f DEF Mux!Typed, Mux!Windowed
<1>d. /\ Mux!Counted' /\ mAcked' \in [Flows -> Nat]
      /\ mAnswer' \in [Flows -> {"none", "ok", "refused", "ended"}]
      /\ \A j \in Flows : j # i => mAcked'[j] = mAcked[j] /\ mAnswer'[j] = mAnswer[j]
      /\ mAcked[i] <= mAcked'[i] /\ mAcked'[i] <= mSent[i]
      /\ i \notin mKnown => mAcked'[i] = mAcked[i]
  <2>1. CASE UNCHANGED <<mAcked, mTotalUp>>
    <3>1. Mux!Counted'
      BY <1>e, <1>f, <2>1, MuxStillCounted
    <3>2. /\ mAnswer' \in [Flows -> {"none", "ok", "refused", "ended"}]
          /\ \A j \in Flows : j # i => mAnswer'[j] = mAnswer[j]
      <4>1. CASE UNCHANGED mAnswer
        BY <1>g, <4>1
      <4>2. CASE Mux!OpenOK(i)
        BY <1>g, <4>2 DEF Mux!OpenOK
      <4>3. CASE Mux!OpenErr(i)
        BY <1>g, <4>3 DEF Mux!OpenErr
      <4> QED BY <1>c, <4>1, <4>2, <4>3
    <3>3. mAcked[i] <= mAcked'[i] /\ mAcked'[i] <= mSent[i]
      BY <1>g, <2>1
    <3> QED BY <1>g, <2>1, <3>1, <3>2, <3>3
  <2>2. CASE ~ UNCHANGED <<mAcked, mTotalUp>>
    <3>1. PICK v : v = Head(mCtl[i]).val
      OBVIOUS
    <3>2. i \in mKnown /\ Mux!OnAck(i, v) /\ UNCHANGED mAnswer /\ v \in Nat
      BY <1>c, <1>h, <2>2, <3>1 DEF Mux!CtlFrames
    <3>3. /\ v > mAcked[i] /\ v <= mSent[i]
          /\ mAcked' = [mAcked EXCEPT ![i] = v] /\ mTotalUp' = mTotalUp - (v - mAcked[i])
      BY <2>2, <3>2 DEF Mux!OnAck, Mux!News
    <3>4. mAcked[i] <= v
      BY <1>g, <3>2, <3>3
    <3>5. UNCHANGED <<mSent, mInAll, mExAcked, mExSent>>
      BY <1>e
    <3>6. Mux!Counted' /\ mAcked' \in [Flows -> Nat] /\ mAcked'[i] = v
      BY <3>2, <3>3, <3>4, <3>5, MuxAcked
    <3>7. \A j \in Flows : j # i => mAcked'[j] = mAcked[j]
      BY <1>g, <3>3
    <3> QED BY <1>g, <3>2, <3>3, <3>4, <3>6, <3>7
  <2> QED BY <2>1, <2>2
<1>o. \A j \in Flows : j # i => MuxStays(j)
  <2>1. \A j \in Flows : j # i => mCtl'[j] = mCtl[j]
    BY <1>c, <1>f DEF Mux!Typed
  <2> QED BY <1>d, <1>e, <2>1 DEF MuxStays, MuxSameIn, MuxSameOut, MuxSameLife, MuxSameCounts, MuxSameAcks, MuxSameEnd
<1>s. MuxSameIn(i) /\ MuxSameOut(i) /\ MuxOnward
  BY <1>e DEF MuxSameIn, MuxSameOut, MuxOnward
<1>n. Mux!Counted'
  BY <1>d
<1>1. Mux!Continues(i)'
  BY <1>e, <1>f, <1>s, MuxStillContinues
<1>2. Mux!Complete(i)'
  BY <1>e, <1>f, <1>s, MuxStillComplete
<1>3. Mux!Begun(i)'
  <2>1. mDials[i] # 0 /\ mApp[i] # "idle"
    BY <1>c, <1>f DEF Mux!Begun
  <2> QED BY <1>e, <2>1 DEF Mux!Begun
<1>4. Mux!Windowed(i)'
  <2>1. mSent[i] \in Nat /\ mAcked[i] \in Nat /\ mAcked'[i] \in Nat
    BY <1>d, <1>g
  <2>2. mAcked'[i] <= mSent[i] /\ mSent[i] - mAcked'[i] <= mSent[i] - mAcked[i]
    BY <1>d, <2>1
  <2>3. mSent[i] - mAcked'[i] \in Int /\ PerFlow \in Nat
    BY <2>1, FlowsAssumption
  <2> QED BY <1>e, <1>f, <2>1, <2>2, <2>3 DEF Mux!Windowed
<1>5. Mux!Attended(i)'
  <2>1. ~mRaced /\ ~mDead /\ i \notin mKnown => mAcked'[i] = mSent[i]
    BY <1>d, <1>f DEF Mux!Attended
  <2> QED BY <1>e, <1>f, <2>1 DEF Mux!Attended
<1>t. Mux!Typed'
  BY <1>d, <1>e, <1>f, <1>h DEF Mux!Typed
<1> QED BY <1>n, <1>o, <1>s, <1>1, <1>2, <1>3, <1>4, <1>5, <1>t, MuxOne


LEMMA MuxBulk ==
    ASSUME Mux!IInv, NEW i \in Flows, Mux!Bulk(i)
    PROVE  Mux!IInv'
<1>f. /\ Mux!Typed /\ Mux!Counted /\ Mux!Sound(i)
      /\ Mux!Continues(i) /\ Mux!Begun(i) /\ Mux!Complete(i) /\ Mux!Windowed(i) /\ Mux!Attended(i)
  BY MuxFacts
<1>e. /\ UNCHANGED <<mScene, mApp, mKnown, mAnswer, mClosed, mGot, mWriter, mWritten,
                     mSent, mAcked, mConsumed, mAckedSent, mTotalUp, mAckQ, mDead,
                     mRaced, mUp, mCtl, mEx, mDials, mHeld, mDst, mFed, mExSent,
                     mExAcked, mWrote, mExAckedSent, mInAll, mOpens, mLosses>>
  BY DEF Mux!Bulk, Mux!countVars, Mux!clientVars, Mux!exitVars, Mux!wire
<1>c. /\ mBulk[i] # <<>>
      /\ mBulk' = [mBulk EXCEPT ![i] = Tail(@)]
      /\ mRbuf' = IF i \in mKnown /\ Head(mBulk[i]).type = "DATA" /\ ~mEof[i]
                  THEN [mRbuf EXCEPT ![i] = Append(@, Head(mBulk[i]).val)] ELSE mRbuf
      /\ mEof' = [mEof EXCEPT ![i] = @ \/ (i \in mKnown /\ Head(mBulk[i]).type = "CLOSE")]
  BY DEF Mux!Bulk
<1>g. mGot[i] \in Seq(Mux!Pairs) /\ mRbuf[i] \in Seq(Mux!Pairs) /\ mBulk[i] \in Seq(Mux!BulkFrames)
  BY <1>f DEF Mux!Typed
<1>h. PICK h : h = Head(mBulk[i])
  OBVIOUS
<1>b. mBulk' \in [Flows -> Seq(Mux!BulkFrames)] /\ mBulk'[i] = Tail(mBulk[i]) /\ h \in Mux!BulkFrames
  <2>1. mBulk \in [Flows -> Seq(Mux!BulkFrames)]
    BY <1>f DEF Mux!Typed
  <2>2. Tail(mBulk[i]) \in Seq(Mux!BulkFrames) /\ h \in Mux!BulkFrames
    BY <1>c, <1>h, <2>1, MuxTailed
  <2> QED BY <1>c, <2>1, <2>2
<1>i. PICK in : in = mGot[i] \o mRbuf[i]
  OBVIOUS
<1>j. in \in Seq(Mux!Pairs) /\ Mux!Incoming(in, mBulk[i], mDials[i], mFed[i])
  <2>1. in \in Seq(Mux!Pairs)
    BY <1>g, <1>i, ConcatProperties
  <2> QED BY <1>f, <1>i, <2>1 DEF Mux!Continues
<1>k. /\ Mux!Incoming(in, mBulk'[i], mDials[i], mFed[i])
      /\ h.type = "DATA" => h.val \in Mux!Pairs /\ Mux!Incoming(Append(in, h.val), mBulk'[i], mDials[i], mFed[i])
  BY <1>b, <1>c, <1>h, <1>j, MuxTaken
<1>l. /\ mRbuf' \in [Flows -> Seq(Mux!Pairs)]
      /\ i \in mKnown /\ h.type = "DATA" /\ ~mEof[i] => mGot'[i] \o mRbuf'[i] = Append(in, h.val)
      /\ ~(i \in mKnown /\ h.type = "DATA" /\ ~mEof[i]) => mGot'[i] \o mRbuf'[i] = in
  <2>1. mRbuf \in [Flows -> Seq(Mux!Pairs)] /\ mGot' = mGot
    BY <1>e, <1>f DEF Mux!Typed
  <2>2. CASE i \in mKnown /\ h.type = "DATA" /\ ~mEof[i]
    <3>1. mRbuf' = [mRbuf EXCEPT ![i] = Append(@, h.val)] /\ h.val \in Mux!Pairs
      BY <1>c, <1>h, <1>k, <2>2
    <3>2. Append(mRbuf[i], h.val) \in Seq(Mux!Pairs)
      BY <2>1, <3>1, MuxAppended
    <3>3. mRbuf' \in [Flows -> Seq(Mux!Pairs)] /\ mRbuf'[i] = Append(mRbuf[i], h.val)
      BY <2>1, <3>1, <3>2
    <3>0. h.val \in Mux!Pairs
      BY <3>1
    <3>4. mGot[i] \o Append(mRbuf[i], h.val) = Append(in, h.val)
      <4>1. mGot[i] \in Seq(Mux!Pairs)
        BY <1>g
      <4>2. mRbuf[i] \in Seq(Mux!Pairs)
        BY <1>g
      <4>4. PICK v : v = h.val
        OBVIOUS
      <4>5. PICK r : r = mRbuf[i]
        OBVIOUS
      <4>6. PICK g : g = mGot[i]
        OBVIOUS
      <4>7. v \in Mux!Pairs /\ r \in Seq(Mux!Pairs) /\ g \in Seq(Mux!Pairs)
        BY <3>0, <4>1, <4>2, <4>4, <4>5, <4>6
      <4>8. g \o Append(r, v) = Append(g \o r, v)
        BY <4>7, MuxJoined
      <4>3. mGot[i] \o Append(mRbuf[i], h.val) = Append(mGot[i] \o mRbuf[i], h.val)
        BY <4>4, <4>5, <4>6, <4>8
      <4> QED BY <1>i, <4>3
    <3> QED BY <2>1, <2>2, <3>3, <3>4
  <2>3. CASE ~(i \in mKnown /\ h.type = "DATA" /\ ~mEof[i])
    <3>1. mRbuf' = mRbuf
      BY <1>c, <1>h, <2>3
    <3> QED BY <1>i, <2>1, <2>3, <3>1
  <2> QED BY <2>2, <2>3
<1>m. mEof' \in [Flows -> BOOLEAN] /\ (mEof'[i] <=> mEof[i] \/ (i \in mKnown /\ h.type = "CLOSE"))
  <2>1. mEof \in [Flows -> BOOLEAN]
    BY <1>f DEF Mux!Typed
  <2> QED BY <1>c, <1>h, <2>1
<1>p. \A j \in Flows : j # i => mBulk'[j] = mBulk[j] /\ mRbuf'[j] = mRbuf[j]
  <2>1. mRbuf \in [Flows -> Seq(Mux!Pairs)] /\ mBulk \in [Flows -> Seq(Mux!BulkFrames)]
    BY <1>f DEF Mux!Typed
  <2> QED BY <1>c, <2>1
<1>q. \A j \in Flows : j # i => (mEof'[j] <=> mEof[j])
  <2>1. mEof \in [Flows -> BOOLEAN]
    BY <1>f DEF Mux!Typed
  <2> QED BY <1>c, <2>1
<1>o. \A j \in Flows : j # i => MuxStays(j)
  BY <1>e, <1>p, <1>q DEF MuxStays, MuxSameIn, MuxSameOut, MuxSameLife, MuxSameCounts, MuxSameAcks, MuxSameEnd
<1>s. MuxSameOut(i) /\ MuxSameLife(i) /\ MuxSameCounts(i) /\ MuxSameAcks(i) /\ MuxOnward
  BY <1>e DEF MuxSameOut, MuxSameLife, MuxSameCounts, MuxSameAcks, MuxOnward
<1>n. Mux!Counted'
  BY <1>e, <1>f, <1>s, MuxStillCounted
<1>1. Mux!Continues(i)'
  <2>1. Mux!Incoming(mGot'[i] \o mRbuf'[i], mBulk'[i], mDials'[i], mFed'[i])
    BY <1>e, <1>k, <1>l
  <2>2. Mux!Outgoing(mUp'[i], mHeld'[i], mDst'[i], mDials'[i], mWritten'[i]) /\ (mEx'[i] # "pending" => mHeld'[i] = <<>>)
    BY <1>e, <1>f DEF Mux!Continues
  <2> QED BY <2>1, <2>2 DEF Mux!Continues
<1>2. Mux!Complete(i)'
  <2> SUFFICES ASSUME mLosses' = 0, mDials'[i] = 1
               PROVE  /\ Mux!Whole(mGot'[i] \o mRbuf'[i]) /\ Mux!Whole(mDst'[i])
                      /\ i \in mKnown' /\ ~mEof'[i] =>
                             Mux!Follows(mGot'[i] \o mRbuf'[i], mBulk'[i], mFed'[i], mEx'[i])
                      /\ mEx'[i] # "unknown" => Mux!Reaches(mUp'[i], mHeld'[i], mDst'[i], mWritten'[i])
    BY DEF Mux!Complete
  <2>1. /\ Mux!Whole(in) /\ Mux!Whole(mDst[i])
        /\ i \in mKnown /\ ~mEof[i] => Mux!Follows(in, mBulk[i], mFed[i], mEx[i])
        /\ mEx[i] # "unknown" => Mux!Reaches(mUp[i], mHeld[i], mDst[i], mWritten[i])
    BY <1>e, <1>f, <1>i DEF Mux!Complete
  <2>2. Mux!Whole(mDst'[i]) /\ (mEx'[i] # "unknown" => Mux!Reaches(mUp'[i], mHeld'[i], mDst'[i], mWritten'[i]))
    BY <1>e, <2>1
  <2>3. CASE i \in mKnown /\ h.type = "DATA" /\ ~mEof[i]
    <3>1. mFed[i] \in Nat
      BY <1>f DEF Mux!Typed
    <3>2. /\ Mux!Follows(Append(in, h.val), Tail(mBulk[i]), mFed[i], mEx[i])
          /\ Mux!Whole(Append(in, h.val))
      <4>1. Mux!Follows(in, mBulk[i], mFed[i], mEx[i]) /\ Head(mBulk[i]).type = "DATA" /\ mBulk[i] # <<>>
        BY <1>c, <1>h, <2>1, <2>3
      <4> QED BY <1>g, <1>h, <1>j, <2>1, <3>1, <4>1, MuxReadsOn
    <3> QED BY <1>b, <1>e, <1>l, <2>2, <2>3, <3>2
  <2>4. CASE ~(i \in mKnown /\ h.type = "DATA" /\ ~mEof[i])
    <3>1. ~(i \in mKnown' /\ ~mEof'[i])
      BY <1>b, <1>e, <1>m, <2>4 DEF Mux!BulkFrames
    <3> QED BY <1>l, <2>1, <2>2, <2>4, <3>1
  <2> QED BY <2>3, <2>4
<1>3. Mux!Begun(i)'
  <2>1. mDials[i] # 0 /\ mApp[i] # "idle"
    BY <1>c, <1>f DEF Mux!Begun
  <2> QED BY <1>e, <2>1 DEF Mux!Begun
<1>4. Mux!Windowed(i)'
  BY <1>e, <1>f, <1>s, MuxStillWindowed
<1>5. Mux!Attended(i)'
  BY <1>e, <1>f, <1>s, MuxStillAttended
<1>t. Mux!Typed'
  BY <1>b, <1>e, <1>f, <1>l, <1>m DEF Mux!Typed
<1> QED BY <1>n, <1>o, <1>s, <1>1, <1>2, <1>3, <1>4, <1>5, <1>t, MuxOne

\* What the exit receives.

LEMMA MuxExitOpen ==
    ASSUME Mux!IInv, NEW i \in Flows, mUp[i] # <<>>, mUp' = [mUp EXCEPT ![i] = Tail(mUp[i])],
           UNCHANGED <<Mux!clientVars, mLosses>>, Head(mUp[i]).type = "OPEN",
           Mux!ExitOpen(i)
    PROVE  Mux!IInv'
<1>f. /\ Mux!Typed /\ Mux!Counted /\ Mux!Sound(i)
      /\ Mux!Continues(i) /\ Mux!Begun(i) /\ Mux!Complete(i) /\ Mux!Windowed(i) /\ Mux!Attended(i)
  BY MuxFacts
<1>e. /\ UNCHANGED <<mScene, mApp, mKnown, mAnswer, mClosed, mEof, mRbuf, mGot,
                     mWriter, mWritten, mSent, mAcked, mConsumed, mAckedSent,
                     mTotalUp, mAckQ, mDead, mRaced, mBulk, mHeld, mDst, mExSent,
                     mExAcked, mWrote, mExAckedSent, mInAll, mOpens, mLosses>>
  BY DEF Mux!ExitOpen, Mux!countVars, Mux!clientVars, Mux!exitVars, Mux!wire
<1>c. /\ \/ /\ mEx[i] = "unknown" /\ mEx' = [mEx EXCEPT ![i] = "pending"] /\ mCtl' = mCtl
            /\ mDials' = [mDials EXCEPT ![i] = mDials[i] + 1] /\ mFed' = [mFed EXCEPT ![i] = 0]
         \/ mEx[i] # "unknown" /\ UNCHANGED <<mEx, mDials, mFed>>
      /\ mCtl' = mCtl \/ (mEx[i] = "open" /\ mCtl' = [mCtl EXCEPT ![i] = Append(@, Mux!Frame("OPEN_OK", 0))])
  BY DEF Mux!ExitOpen, Mux!Dials, Mux!SendCtl
<1>g. /\ mUp' \in [Flows -> Seq(Mux!UpFrames)] /\ mUp'[i] = Tail(mUp[i]) /\ Head(mUp[i]) \in Mux!UpFrames
      /\ \A j \in Flows : j # i => mUp'[j] = mUp[j]
  <2>1. mUp \in [Flows -> Seq(Mux!UpFrames)]
    BY <1>f DEF Mux!Typed
  <2>2. Tail(mUp[i]) \in Seq(Mux!UpFrames) /\ Head(mUp[i]) \in Mux!UpFrames
    BY <2>1, MuxTailed
  <2> QED BY <2>1, <2>2
<1>a. mApp[i] # "idle" /\ mApp'[i] = mApp[i]
  BY <1>e, <1>f DEF Mux!Begun
<1>b. /\ Mux!Incoming(mGot[i] \o mRbuf[i], mBulk[i], mDials[i], mFed[i])
      /\ Mux!Outgoing(mUp[i], mHeld[i], mDst[i], mDials[i], mWritten[i])
      /\ mEx[i] # "pending" => mHeld[i] = <<>>
  BY <1>f DEF Mux!Continues
<1>k. mCtl' \in [Flows -> Seq(Mux!CtlFrames)] /\ \A j \in Flows : j # i => mCtl'[j] = mCtl[j]
  <2>1. mCtl \in [Flows -> Seq(Mux!CtlFrames)]
    BY <1>f DEF Mux!Typed
  <2>2. PICK x : x = Mux!Frame("OPEN_OK", 0)
    OBVIOUS
  <2>3. x \in Mux!CtlFrames
    BY <2>2, MuxFrames
  <2>4. Append(mCtl[i], x) \in Seq(Mux!CtlFrames)
    BY <2>1, <2>3, MuxAppended
  <2>5. CASE mCtl' = [mCtl EXCEPT ![i] = Append(@, Mux!Frame("OPEN_OK", 0))]
    BY <2>1, <2>2, <2>4, <2>5
  <2>6. CASE mCtl' = mCtl
    BY <2>1, <2>6
  <2> QED BY <1>c, <2>5, <2>6
<1>h. /\ mEx' \in [Flows -> {"unknown", "pending", "open"}] /\ mFed' \in [Flows -> Nat]
      /\ \A j \in Flows : j # i => mEx'[j] = mEx[j] /\ mFed'[j] = mFed[j]
      /\ mEx[i] = "unknown" => mEx'[i] = "pending" /\ mFed'[i] = 0
      /\ mEx[i] # "unknown" => mEx'[i] = mEx[i] /\ mFed'[i] = mFed[i]
  <2>1. mEx \in [Flows -> {"unknown", "pending", "open"}] /\ mFed \in [Flows -> Nat]
    BY <1>f DEF Mux!Typed
  <2>2. 0 \in Nat
    OBVIOUS
  <2> QED BY <1>c, <2>1, <2>2
<1>i. /\ mDials' \in [Flows -> Nat] /\ \A j \in Flows : j # i => mDials'[j] = mDials[j]
      /\ mEx[i] = "unknown" => mDials'[i] = mDials[i] + 1
      /\ mEx[i] # "unknown" => mDials'[i] = mDials[i]
  <2>1. mDials \in [Flows -> Nat]
    BY <1>f DEF Mux!Typed
  <2>2. mDials[i] + 1 \in Nat
    BY <2>1
  <2> QED BY <1>c, <2>1, <2>2
<1>r. Mux!Outgoing(mUp'[i], mHeld[i], mDst[i], mDials[i], mWritten[i])
      /\ (Mux!Reaches(mUp[i], mHeld[i], mDst[i], mWritten[i]) => Mux!Reaches(mUp'[i], mHeld[i], mDst[i], mWritten[i]))
  BY <1>b, <1>g, MuxComes
<1>o. \A j \in Flows : j # i => MuxStays(j)
  BY <1>e, <1>g, <1>h, <1>i, <1>k DEF MuxStays, MuxSameIn, MuxSameOut, MuxSameLife, MuxSameCounts, MuxSameAcks, MuxSameEnd
<1>s. MuxSameLife(i) /\ MuxSameCounts(i) /\ MuxOnward
  BY <1>e DEF MuxSameLife, MuxSameCounts, MuxOnward
<1>n. Mux!Counted'
  BY <1>e, <1>f, <1>s, MuxStillCounted
<1>1. Mux!Continues(i)'
  <2>1. CASE mEx[i] = "unknown"
    <3>1. Mux!Incoming(mGot[i] \o mRbuf[i], mBulk[i], mDials[i] + 1, 0)
      BY <1>b, MuxRedials
    <3>2. Mux!Outgoing(mUp'[i], mHeld[i], mDst[i], mDials[i] + 1, mWritten[i])
      BY <1>r, MuxOutRedials
    <3> QED BY <1>b, <1>e, <1>h, <1>i, <2>1, <3>1, <3>2 DEF Mux!Continues
  <2>2. CASE mEx[i] # "unknown"
    BY <1>b, <1>e, <1>h, <1>i, <1>r, <2>2 DEF Mux!Continues
  <2> QED BY <2>1, <2>2
<1>2. Mux!Complete(i)'
  <2> SUFFICES ASSUME mLosses' = 0, mDials'[i] = 1
               PROVE  /\ Mux!Whole(mGot'[i] \o mRbuf'[i]) /\ Mux!Whole(mDst'[i])
                      /\ i \in mKnown' /\ ~mEof'[i] =>
                             Mux!Follows(mGot'[i] \o mRbuf'[i], mBulk'[i], mFed'[i], mEx'[i])
                      /\ mEx'[i] # "unknown" => Mux!Reaches(mUp'[i], mHeld'[i], mDst'[i], mWritten'[i])
    BY DEF Mux!Complete
  <2>1. CASE mEx[i] = "unknown"
    <3>1. mDials[i] = 0
      <4>1. mDials[i] \in Nat /\ mDials[i] + 1 = 1
        BY <1>f, <1>i, <2>1 DEF Mux!Typed
      <4> QED BY <4>1
    <3>2. /\ mBulk[i] = <<>> /\ mGot[i] \o mRbuf[i] = <<>> /\ mDst[i] = <<>> /\ mWritten[i] = 0
          /\ mHeld[i] = <<>>
      BY <1>b, <1>f, <2>1, <3>1 DEF Mux!Begun
    <3>3. Mux!Reaches(mUp'[i], <<>>, <<>>, 0)
      BY <1>r, <3>2, MuxFirst
    <3>4. Mux!Whole(<<>>) /\ Mux!Follows(<<>>, <<>>, 0, mEx'[i])
      BY MuxBegins
    <3>5. /\ mGot'[i] \o mRbuf'[i] = <<>> /\ mDst'[i] = <<>> /\ mBulk'[i] = <<>>
          /\ mHeld'[i] = <<>> /\ mWritten'[i] = 0 /\ mFed'[i] = 0
      BY <1>e, <1>h, <2>1, <3>2
    <3> QED BY <3>3, <3>4, <3>5
  <2>2. CASE mEx[i] # "unknown"
    <3>1. /\ Mux!Whole(mGot[i] \o mRbuf[i]) /\ Mux!Whole(mDst[i])
          /\ i \in mKnown /\ ~mEof[i] => Mux!Follows(mGot[i] \o mRbuf[i], mBulk[i], mFed[i], mEx[i])
          /\ Mux!Reaches(mUp'[i], mHeld[i], mDst[i], mWritten[i])
      BY <1>e, <1>f, <1>i, <1>r, <2>2 DEF Mux!Complete
    <3> QED BY <1>e, <1>h, <2>2, <3>1
  <2> QED BY <2>1, <2>2
<1>3. Mux!Begun(i)'
  <2>1. mDials'[i] # 0
    <3>1. mDials[i] \in Nat
      BY <1>f DEF Mux!Typed
    <3> QED BY <1>f, <1>i, <3>1 DEF Mux!Begun
  <2> QED BY <1>a, <2>1 DEF Mux!Begun
<1>4. Mux!Windowed(i)'
  BY <1>e, <1>f, <1>s, MuxStillWindowed
<1>5. Mux!Attended(i)'
  BY <1>e, <1>f, <1>s, MuxStillAttended
<1>t. Mux!Typed'
  BY <1>e, <1>f, <1>g, <1>h, <1>i, <1>k DEF Mux!Typed
<1> QED BY <1>n, <1>o, <1>s, <1>1, <1>2, <1>3, <1>4, <1>5, <1>t, MuxOne


LEMMA MuxExitData ==
    ASSUME Mux!IInv, NEW i \in Flows, mUp[i] # <<>>, mUp' = [mUp EXCEPT ![i] = Tail(mUp[i])],
           UNCHANGED <<Mux!clientVars, mLosses>>, Head(mUp[i]).type = "DATA",
           NEW v, v = Head(mUp[i]).val, Mux!ExitData(i, v)
    PROVE  Mux!IInv'
<1>f. /\ Mux!Typed /\ Mux!Counted /\ Mux!Sound(i)
      /\ Mux!Continues(i) /\ Mux!Begun(i) /\ Mux!Complete(i) /\ Mux!Windowed(i) /\ Mux!Attended(i)
  BY MuxFacts
<1>e. /\ UNCHANGED <<mScene, mApp, mKnown, mAnswer, mClosed, mEof, mRbuf, mGot,
                     mWriter, mWritten, mSent, mAcked, mConsumed, mAckedSent,
                     mTotalUp, mAckQ, mDead, mRaced, mCtl, mBulk, mEx, mDials, mFed,
                     mExSent, mExAcked, mExAckedSent, mInAll, mOpens, mLosses>>
  BY DEF Mux!ExitData, Mux!countVars, Mux!clientVars, Mux!exitVars, Mux!wire
<1>c. /\ \/ /\ mEx[i] = "open" /\ mDst' = [mDst EXCEPT ![i] = mDst[i] \o Mux!Arrives(i, <<v>>)]
            /\ mWrote' = [mWrote EXCEPT ![i] = mWrote[i] + 1]
         \/ mEx[i] # "open" /\ UNCHANGED <<mDst, mWrote>>
      /\ mHeld' = [mHeld EXCEPT ![i] = IF mEx[i] = "pending" THEN Append(mHeld[i], v) ELSE mHeld[i]]
  BY DEF Mux!ExitData, Mux!Kept
<1>g. /\ mUp' \in [Flows -> Seq(Mux!UpFrames)] /\ mUp'[i] = Tail(mUp[i]) /\ Head(mUp[i]) \in Mux!UpFrames
      /\ \A j \in Flows : j # i => mUp'[j] = mUp[j]
  <2>1. mUp \in [Flows -> Seq(Mux!UpFrames)]
    BY <1>f DEF Mux!Typed
  <2>2. Tail(mUp[i]) \in Seq(Mux!UpFrames) /\ Head(mUp[i]) \in Mux!UpFrames
    BY <2>1, MuxTailed
  <2> QED BY <2>1, <2>2
<1>a. mApp[i] # "idle" /\ mApp'[i] = mApp[i]
  BY <1>e, <1>f DEF Mux!Begun
<1>b. /\ Mux!Incoming(mGot[i] \o mRbuf[i], mBulk[i], mDials[i], mFed[i])
      /\ Mux!Outgoing(mUp[i], mHeld[i], mDst[i], mDials[i], mWritten[i])
      /\ mEx[i] # "pending" => mHeld[i] = <<>>
  BY <1>f DEF Mux!Continues
<1>h. /\ mHeld \in [Flows -> Seq(Nat)] /\ v \in Nat /\ Append(mHeld[i], v) \in Seq(Nat)
  <2>1. mHeld \in [Flows -> Seq(Nat)] /\ v \in Nat
    BY <1>f, <1>g DEF Mux!Typed, Mux!UpFrames
  <2> QED BY <2>1, MuxAppended
<1>i. /\ mHeld' \in [Flows -> Seq(Nat)] /\ \A j \in Flows : j # i => mHeld'[j] = mHeld[j]
      /\ mHeld'[i] = IF mEx[i] = "pending" THEN Append(mHeld[i], v) ELSE mHeld[i]
  BY <1>c, <1>h
<1>j. mWrote' \in [Flows -> Nat]
  <2>1. mWrote \in [Flows -> Nat]
    BY <1>f DEF Mux!Typed
  <2>2. mWrote[i] + 1 \in Nat
    BY <2>1
  <2> QED BY <1>c, <2>1, <2>2
<1>r. /\ Mux!Outgoing(mUp'[i], mHeld[i], mDst[i], mDials[i], mWritten[i])
      /\ Mux!Outgoing(mUp'[i], Append(mHeld[i], v), mDst[i], mDials[i], mWritten[i])
      /\ (Mux!Reaches(mUp[i], mHeld[i], mDst[i], mWritten[i]) => Mux!Reaches(mUp'[i], Append(mHeld[i], v), mDst[i], mWritten[i]))
  BY <1>b, <1>g, MuxComes
<1>d. /\ mDst' \in [Flows -> Seq(Mux!Pairs)] /\ \A j \in Flows : j # i => mDst'[j] = mDst[j]
      /\ Mux!Outgoing(mUp'[i], mHeld'[i], mDst'[i], mDials[i], mWritten[i])
      /\ mEx[i] # "pending" => mHeld'[i] = <<>>
      /\ mEx[i] = "unknown" => mDst'[i] = mDst[i]
      /\ mEx[i] # "unknown" /\ Mux!Reaches(mUp[i], mHeld[i], mDst[i], mWritten[i]) /\ mDials[i] = 1 /\ Mux!Whole(mDst[i]) =>
             Mux!Reaches(mUp'[i], mHeld'[i], mDst'[i], mWritten[i])
      /\ Mux!Whole(mDst[i]) /\ mDials[i] = 1 /\ (mEx[i] # "unknown" => Mux!Reaches(mUp[i], mHeld[i], mDst[i], mWritten[i]))
             => Mux!Whole(mDst'[i])
  <2>0. mDst \in [Flows -> Seq(Mux!Pairs)]
    BY <1>f DEF Mux!Typed
  <2>1. CASE mEx[i] = "open"
    <3>1. mHeld[i] = <<>> /\ mHeld'[i] = <<>>
      BY <1>b, <1>i, <2>1
    <3>2. PICK h : h = <<v>>
      OBVIOUS
    <3>3. Append(mHeld[i], v) = h
      BY <3>1, <3>2
    <3>4. PICK a : a = [j \in 1..Len(h) |-> <<mDials[i], h[j]>>]
      OBVIOUS
    <3>5. Mux!Arrives(i, <<v>>) = a
      BY <3>2, <3>4 DEF Mux!Arrives
    <3>6. Mux!Outgoing(mUp'[i], h, mDst[i], mDials[i], mWritten[i])
      BY <1>r, <3>3
    <3>7. /\ Mux!Outgoing(mUp'[i], <<>>, mDst[i] \o a, mDials[i], mWritten[i])
          /\ mDst[i] \o a \in Seq(Mux!Pairs)
          /\ Mux!Reaches(mUp'[i], h, mDst[i], mWritten[i]) => Mux!Reaches(mUp'[i], <<>>, mDst[i] \o a, mWritten[i])
          /\ Mux!Reaches(mUp'[i], h, mDst[i], mWritten[i]) /\ Mux!Whole(mDst[i]) /\ mDials[i] = 1 => Mux!Whole(mDst[i] \o a)
      BY <3>4, <3>6, MuxConnects
    <3>8. mDst' = [mDst EXCEPT ![i] = mDst[i] \o a]
      BY <1>c, <2>1, <3>5
    <3>9. mDst' \in [Flows -> Seq(Mux!Pairs)] /\ mDst'[i] = mDst[i] \o a /\ \A j \in Flows : j # i => mDst'[j] = mDst[j]
      BY <2>0, <3>7, <3>8
    <3>10. Mux!Reaches(mUp[i], mHeld[i], mDst[i], mWritten[i]) => Mux!Reaches(mUp'[i], h, mDst[i], mWritten[i])
      BY <1>r, <3>3
    <3> QED BY <2>1, <3>1, <3>7, <3>9, <3>10
  <2>2. CASE mEx[i] = "pending"
    <3>1. mDst' = mDst /\ mHeld'[i] = Append(mHeld[i], v)
      BY <1>c, <1>i, <2>2
    <3> QED BY <1>r, <2>0, <2>2, <3>1
  <2>3. CASE mEx[i] = "unknown"
    <3>1. mDst' = mDst /\ mHeld'[i] = mHeld[i] /\ mHeld[i] = <<>>
      BY <1>b, <1>c, <1>i, <2>3
    <3> QED BY <1>r, <2>0, <2>3, <3>1
  <2>4. mEx[i] \in {"unknown", "pending", "open"}
    BY <1>f DEF Mux!Typed
  <2> QED BY <2>1, <2>2, <2>3, <2>4
<1>o. \A j \in Flows : j # i => MuxStays(j)
  BY <1>e, <1>g, <1>d, <1>i DEF MuxStays, MuxSameIn, MuxSameOut, MuxSameLife, MuxSameCounts, MuxSameAcks, MuxSameEnd
<1>s. MuxSameIn(i) /\ MuxSameLife(i) /\ MuxSameCounts(i) /\ MuxSameAcks(i) /\ MuxOnward
  BY <1>e DEF MuxSameIn, MuxSameLife, MuxSameCounts, MuxSameAcks, MuxOnward
<1>n. Mux!Counted'
  BY <1>e, <1>f, <1>s, MuxStillCounted
<1>1. Mux!Continues(i)'
  BY <1>b, <1>d, <1>e DEF Mux!Continues
<1>2. Mux!Complete(i)'
  <2> SUFFICES ASSUME mLosses' = 0, mDials'[i] = 1
               PROVE  /\ Mux!Whole(mGot'[i] \o mRbuf'[i]) /\ Mux!Whole(mDst'[i])
                      /\ i \in mKnown' /\ ~mEof'[i] =>
                             Mux!Follows(mGot'[i] \o mRbuf'[i], mBulk'[i], mFed'[i], mEx'[i])
                      /\ mEx'[i] # "unknown" => Mux!Reaches(mUp'[i], mHeld'[i], mDst'[i], mWritten'[i])
    BY DEF Mux!Complete
  <2>1. /\ Mux!Whole(mGot[i] \o mRbuf[i]) /\ Mux!Whole(mDst[i])
        /\ i \in mKnown /\ ~mEof[i] => Mux!Follows(mGot[i] \o mRbuf[i], mBulk[i], mFed[i], mEx[i])
        /\ mEx[i] # "unknown" => Mux!Reaches(mUp[i], mHeld[i], mDst[i], mWritten[i])
    BY <1>e, <1>f DEF Mux!Complete
  <2>2. mDials[i] = 1
    BY <1>e
  <2>3. Mux!Whole(mDst'[i])
    BY <1>d, <2>1, <2>2
  <2>4. mEx'[i] # "unknown" => Mux!Reaches(mUp'[i], mHeld'[i], mDst'[i], mWritten'[i])
    BY <1>d, <1>e, <2>1, <2>2
  <2> QED BY <1>e, <2>1, <2>3, <2>4
<1>3. Mux!Begun(i)'
  <2>1. mGot'[i] \o mRbuf'[i] = mGot[i] \o mRbuf[i]
    BY <1>e
  <2>2. mDials[i] = 0 => mDst'[i] = mDst[i]
    BY <1>d, <1>f DEF Mux!Begun
  <2> QED BY <1>a, <1>e, <1>f, <2>1, <2>2 DEF Mux!Begun
<1>4. Mux!Windowed(i)'
  BY <1>e, <1>f, <1>s, MuxStillWindowed
<1>5. Mux!Attended(i)'
  BY <1>e, <1>f, <1>s, MuxStillAttended
<1>t. Mux!Typed'
  BY <1>d, <1>e, <1>f, <1>g, <1>i, <1>j DEF Mux!Typed
<1> QED BY <1>n, <1>o, <1>s, <1>1, <1>2, <1>3, <1>4, <1>5, <1>t, MuxOne

\* The exit's window: a bound moves up, or its account goes.
LEMMA MuxExAcked ==
    ASSUME Mux!IInv, NEW i \in Flows, NEW v \in Nat, mExAcked[i] <= v, v <= mExSent[i],
           NEW g \in [Flows -> Nat], g[i] = v, \A j \in Flows : j # i => g[j] = mExAcked[j]
    PROVE  mInAll - (v - mExAcked[i]) = Mux!Cardinality(Mux!UnderWay(Flows, g, mExSent))
<1>1. mInAll = Cardinality(Mux!UnderWay(Flows, mExAcked, mExSent))
  BY MuxSizes DEF Mux!IInv, Mux!Counted
<1>2. IsFiniteSet(Flows)
  BY FlowsAssumption
<1>3. mExAcked \in [Flows -> Nat]
  BY DEF Mux!IInv, Mux!Typed
<1>4. mExSent \in [Flows -> Nat]
  BY DEF Mux!IInv, Mux!Typed
<1>5. Cardinality(Mux!UnderWay(Flows, g, mExSent)) = Cardinality(Mux!UnderWay(Flows, mExAcked, mExSent)) - (v - mExAcked[i])
  BY <1>2, <1>3, <1>4, MuxForgets
<1> QED BY <1>1, <1>5, MuxSizes

LEMMA MuxGone ==
    ASSUME Mux!IInv, NEW i \in Flows, Mux!CloseStream(i), UNCHANGED <<mTotalUp, mAcked, mSent>>
    PROVE  /\ Mux!Counted'
           /\ mExAcked' \in [Flows -> Nat] /\ mExSent' \in [Flows -> Nat]
           /\ mWrote' \in [Flows -> Nat] /\ mExAckedSent' \in [Flows -> Nat]
           /\ mEx' \in [Flows -> {"unknown", "pending", "open"}] /\ mHeld' \in [Flows -> Seq(Nat)]
           /\ mEx'[i] = "unknown" /\ mHeld'[i] = <<>> /\ mExSent'[i] = 0 /\ mExAcked'[i] = 0
           /\ \A j \in Flows : j # i =>
                 /\ mEx'[j] = mEx[j] /\ mHeld'[j] = mHeld[j]
                 /\ mExSent'[j] = mExSent[j] /\ mExAcked'[j] = mExAcked[j]
<1>1. mExAcked \in [Flows -> Nat] /\ mExSent \in [Flows -> Nat]
      /\ mWrote \in [Flows -> Nat] /\ mExAckedSent \in [Flows -> Nat]
  BY DEF Mux!IInv, Mux!Typed
<1>2. /\ mInAll' = mInAll - (mExSent[i] - mExAcked[i])
      /\ mExSent' = [mExSent EXCEPT ![i] = 0] /\ mExAcked' = [mExAcked EXCEPT ![i] = 0]
      /\ mWrote' = [mWrote EXCEPT ![i] = 0] /\ mExAckedSent' = [mExAckedSent EXCEPT ![i] = 0]
      /\ mEx' = [mEx EXCEPT ![i] = "unknown"] /\ mHeld' = [mHeld EXCEPT ![i] = <<>>]
  BY DEF Mux!CloseStream, Mux!ExitInFlight
<1>3. PICK g : g = [mExAcked EXCEPT ![i] = mExSent[i]]
  OBVIOUS
<1>4. mExSent[i] \in Nat /\ mExAcked[i] <= mExSent[i] /\ mExSent[i] <= mExSent[i]
  BY <1>1 DEF Mux!IInv, Mux!Sound, Mux!Windowed
<1>5. /\ g \in [Flows -> Nat] /\ g[i] = mExSent[i] /\ \A j \in Flows : j # i => g[j] = mExAcked[j]
      /\ mInAll - (mExSent[i] - mExAcked[i]) = Mux!Cardinality(Mux!UnderWay(Flows, g, mExSent))
  <2>1. g \in [Flows -> Nat]
    BY <1>1, <1>3, <1>4
  <2>2. g[i] = mExSent[i]
    BY <1>1, <1>3
  <2>3. \A j \in Flows : j # i => g[j] = mExAcked[j]
    BY <1>1, <1>3
  <2>4. mExSent[i] \in Nat
    BY <1>4
  <2>5. mExAcked[i] <= mExSent[i]
    BY <1>4
  <2>6. mExSent[i] <= mExSent[i]
    BY <1>4
  <2>7. mInAll - (mExSent[i] - mExAcked[i]) = Mux!Cardinality(Mux!UnderWay(Flows, g, mExSent))
    BY <2>1, <2>2, <2>3, <2>4, <2>5, <2>6, MuxExAcked
  <2> QED BY <2>1, <2>2, <2>3, <2>7
<1>6. 0 \in Nat
  OBVIOUS
<1>7. mExAcked' \in [Flows -> Nat] /\ mExAcked'[i] = 0 /\ \A j \in Flows : j # i => mExAcked'[j] = mExAcked[j]
  BY <1>1, <1>2, <1>6
<1>8. mExSent' \in [Flows -> Nat] /\ mExSent'[i] = 0 /\ \A j \in Flows : j # i => mExSent'[j] = mExSent[j]
  BY <1>1, <1>2, <1>6
<1>9. mWrote' \in [Flows -> Nat] /\ mExAckedSent' \in [Flows -> Nat]
  BY <1>1, <1>2, <1>6
<1>10. PICK a : a = mExAcked'
  OBVIOUS
<1>11. PICK t : t = mExSent'
  OBVIOUS
<1>12. Mux!UnderWay(Flows, a, t) = Mux!UnderWay(Flows, g, mExSent)
  <2>1. \A j \in Flows : (j \in Flows /\ a[j] = g[j] /\ t[j] = mExSent[j])
                       \/ (g[j] = mExSent[j] /\ (j \in Flows => a[j] = t[j]))
    BY <1>5, <1>7, <1>8, <1>10, <1>11
  <2>2. a \in [Flows -> Nat]
    BY <1>7, <1>10
  <2>3. t \in [Flows -> Nat]
    BY <1>8, <1>11
  <2>4. g \in [Flows -> Nat]
    BY <1>5
  <2>5. mExSent \in [Flows -> Nat]
    BY <1>1
  <2>6. Flows \in SUBSET Flows
    OBVIOUS
  <2> QED BY <2>1, <2>2, <2>3, <2>4, <2>5, <2>6, MuxHolds
<1>13. mInAll' = Mux!Cardinality(Mux!UnderWay(Flows, mExAcked', mExSent'))
  BY <1>2, <1>5, <1>10, <1>11, <1>12
<1>14. mTotalUp' = Mux!Cardinality(Mux!UnderWay(Flows, mAcked', mSent'))
  BY DEF Mux!IInv, Mux!Counted
<1>15. Mux!Counted'
  BY <1>13, <1>14 DEF Mux!Counted
<1>16. /\ mEx' \in [Flows -> {"unknown", "pending", "open"}] /\ mEx'[i] = "unknown"
       /\ \A j \in Flows : j # i => mEx'[j] = mEx[j]
  BY <1>2 DEF Mux!IInv, Mux!Typed
<1>17. /\ mHeld' \in [Flows -> Seq(Nat)] /\ mHeld'[i] = <<>>
       /\ \A j \in Flows : j # i => mHeld'[j] = mHeld[j]
  <2>1. mHeld \in [Flows -> Seq(Nat)]
    BY DEF Mux!IInv, Mux!Typed
  <2>2. <<>> \in Seq(Nat)
    OBVIOUS
  <2> QED BY <1>2, <2>1, <2>2
<1> QED BY <1>7, <1>8, <1>9, <1>15, <1>16, <1>17

LEMMA MuxExitAck ==
    ASSUME Mux!IInv, NEW i \in Flows, mUp[i] # <<>>, mUp' = [mUp EXCEPT ![i] = Tail(mUp[i])],
           UNCHANGED <<Mux!clientVars, mLosses>>, Head(mUp[i]).type = "ACK",
           NEW v, v = Head(mUp[i]).val, Mux!ExitAck(i, v)
    PROVE  Mux!IInv'
<1>f. /\ Mux!Typed /\ Mux!Counted /\ Mux!Sound(i)
      /\ Mux!Continues(i) /\ Mux!Begun(i) /\ Mux!Complete(i) /\ Mux!Windowed(i) /\ Mux!Attended(i)
  BY MuxFacts
<1>e. /\ UNCHANGED <<mScene, mApp, mKnown, mAnswer, mClosed, mEof, mRbuf, mGot,
                     mWriter, mWritten, mSent, mAcked, mConsumed, mAckedSent,
                     mTotalUp, mAckQ, mDead, mRaced, mCtl, mBulk, mEx, mDials, mHeld,
                     mDst, mFed, mExSent, mWrote, mExAckedSent, mOpens, mLosses>>
  BY DEF Mux!ExitAck, Mux!countVars, Mux!clientVars, Mux!exitVars, Mux!wire
<1>c. /\ \/ UNCHANGED <<mExAcked, mInAll>>
         \/ /\ v > mExAcked[i] /\ v <= mExSent[i] /\ mExAcked' = [mExAcked EXCEPT ![i] = v]
            /\ mInAll' = mInAll - (v - mExAcked[i])
  BY DEF Mux!ExitAck
<1>g. /\ mUp' \in [Flows -> Seq(Mux!UpFrames)] /\ mUp'[i] = Tail(mUp[i]) /\ Head(mUp[i]) \in Mux!UpFrames
      /\ \A j \in Flows : j # i => mUp'[j] = mUp[j]
  <2>1. mUp \in [Flows -> Seq(Mux!UpFrames)]
    BY <1>f DEF Mux!Typed
  <2>2. Tail(mUp[i]) \in Seq(Mux!UpFrames) /\ Head(mUp[i]) \in Mux!UpFrames
    BY <2>1, MuxTailed
  <2> QED BY <2>1, <2>2
<1>a. mApp[i] # "idle" /\ mApp'[i] = mApp[i]
  BY <1>e, <1>f DEF Mux!Begun
<1>b. /\ Mux!Incoming(mGot[i] \o mRbuf[i], mBulk[i], mDials[i], mFed[i])
      /\ Mux!Outgoing(mUp[i], mHeld[i], mDst[i], mDials[i], mWritten[i])
      /\ mEx[i] # "pending" => mHeld[i] = <<>>
  BY <1>f DEF Mux!Continues
<1>r. Mux!Outgoing(mUp'[i], mHeld[i], mDst[i], mDials[i], mWritten[i])
      /\ (Mux!Reaches(mUp[i], mHeld[i], mDst[i], mWritten[i]) => Mux!Reaches(mUp'[i], mHeld[i], mDst[i], mWritten[i]))
  BY <1>b, <1>g, MuxComes
<1>h. mExAcked \in [Flows -> Nat] /\ mExSent \in [Flows -> Nat] /\ mExAcked[i] <= mExSent[i] /\ v \in Nat
  BY <1>f, <1>g DEF Mux!Typed, Mux!Windowed, Mux!UpFrames
<1>d. /\ Mux!Counted' /\ mExAcked' \in [Flows -> Nat]
      /\ \A j \in Flows : j # i => mExAcked'[j] = mExAcked[j]
      /\ mExAcked[i] <= mExAcked'[i] /\ mExAcked'[i] <= mExSent[i]
  <2>1. CASE UNCHANGED <<mExAcked, mInAll>>
    <3>1. Mux!Counted'
      BY <1>e, <1>f, <2>1, MuxStillCounted
    <3>2. mExAcked[i] <= mExAcked'[i] /\ mExAcked'[i] <= mExSent[i]
      BY <1>h, <2>1
    <3> QED BY <1>h, <2>1, <3>1, <3>2
  <2>2. CASE ~ UNCHANGED <<mExAcked, mInAll>>
    <3>1. v > mExAcked[i] /\ v <= mExSent[i] /\ mExAcked' = [mExAcked EXCEPT ![i] = v]
          /\ mInAll' = mInAll - (v - mExAcked[i])
      BY <1>c, <2>2
    <3>2. mExAcked[i] <= v
      BY <1>h, <3>1
    <3>3. PICK g : g = mExAcked'
      OBVIOUS
    <3>4. g = [mExAcked EXCEPT ![i] = v]
      BY <3>1, <3>3
    <3>5. v \in Nat /\ v <= mExSent[i]
      BY <1>h, <3>1
    <3>6. /\ g \in [Flows -> Nat] /\ g[i] = v /\ \A j \in Flows : j # i => g[j] = mExAcked[j]
          /\ mInAll - (v - mExAcked[i]) = Mux!Cardinality(Mux!UnderWay(Flows, g, mExSent))
      <4>1. g \in [Flows -> Nat]
        BY <1>h, <3>4
      <4>2. g[i] = v
        BY <1>h, <3>4
      <4>3. \A j \in Flows : j # i => g[j] = mExAcked[j]
        BY <1>h, <3>4
      <4>4. v \in Nat
        BY <3>5
      <4>5. v <= mExSent[i]
        BY <3>5
      <4>6. mInAll - (v - mExAcked[i]) = Mux!Cardinality(Mux!UnderWay(Flows, g, mExSent))
        BY <3>2, <4>1, <4>2, <4>3, <4>4, <4>5, MuxExAcked
      <4> QED BY <4>1, <4>2, <4>3, <4>6
    <3>7. mInAll' = Mux!Cardinality(Mux!UnderWay(Flows, mExAcked', mExSent'))
      BY <1>e, <3>1, <3>3, <3>6
    <3>8. mTotalUp' = Mux!Cardinality(Mux!UnderWay(Flows, mAcked', mSent'))
      BY <1>e, <1>f DEF Mux!Counted
    <3>9. Mux!Counted'
      BY <3>7, <3>8 DEF Mux!Counted
    <3> QED BY <3>2, <3>3, <3>5, <3>6, <3>9
  <2> QED BY <2>1, <2>2
<1>o. \A j \in Flows : j # i => MuxStays(j)
  BY <1>e, <1>g, <1>d DEF MuxStays, MuxSameIn, MuxSameOut, MuxSameLife, MuxSameCounts, MuxSameAcks, MuxSameEnd
<1>s. MuxSameIn(i) /\ MuxSameLife(i) /\ MuxSameAcks(i) /\ MuxOnward
  BY <1>e DEF MuxSameIn, MuxSameLife, MuxSameAcks, MuxOnward
<1>n. Mux!Counted'
  BY <1>d
<1>1. Mux!Continues(i)'
  BY <1>b, <1>e, <1>r DEF Mux!Continues
<1>2. Mux!Complete(i)'
  BY <1>e, <1>f, <1>r DEF Mux!Complete
<1>3. Mux!Begun(i)'
  <2>1. mGot'[i] \o mRbuf'[i] = mGot[i] \o mRbuf[i]
    BY <1>e
  <2> QED BY <1>a, <1>e, <1>f, <2>1 DEF Mux!Begun
<1>4. Mux!Windowed(i)'
  <2>1. mExSent[i] \in Nat /\ mExAcked[i] \in Nat /\ mExAcked'[i] \in Nat
    BY <1>d, <1>h
  <2>2. mExAcked'[i] <= mExSent[i] /\ mExSent[i] - mExAcked'[i] <= mExSent[i] - mExAcked[i]
    BY <1>d, <2>1
  <2>3. mExSent[i] - mExAcked'[i] \in Int /\ PerFlow \in Nat
    BY <2>1, FlowsAssumption
  <2>4. mExSent[i] - mExAcked'[i] <= PerFlow
    <3>1. mExSent[i] - mExAcked[i] <= PerFlow
      BY <1>f DEF Mux!Windowed
    <3> QED BY <2>1, <2>2, <2>3, <3>1
  <2> QED BY <1>e, <1>f, <2>2, <2>4 DEF Mux!Windowed
<1>5. Mux!Attended(i)'
  BY <1>e, <1>f DEF Mux!Attended
<1>t. Mux!Typed'
  BY <1>d, <1>e, <1>f, <1>g DEF Mux!Typed
<1> QED BY <1>n, <1>o, <1>s, <1>1, <1>2, <1>3, <1>4, <1>5, <1>t, MuxOne


LEMMA MuxExitClose ==
    ASSUME Mux!IInv, NEW i \in Flows, mUp[i] # <<>>, mUp' = [mUp EXCEPT ![i] = Tail(mUp[i])],
           UNCHANGED <<Mux!clientVars, mLosses>>, Head(mUp[i]).type = "CLOSE",
           Mux!ExitClose(i)
    PROVE  Mux!IInv'
<1>f. /\ Mux!Typed /\ Mux!Counted /\ Mux!Sound(i)
      /\ Mux!Continues(i) /\ Mux!Begun(i) /\ Mux!Complete(i) /\ Mux!Windowed(i) /\ Mux!Attended(i)
  BY MuxFacts
<1>e. /\ UNCHANGED <<mScene, mApp, mKnown, mAnswer, mClosed, mEof, mRbuf, mGot,
                     mWriter, mWritten, mSent, mAcked, mConsumed, mAckedSent,
                     mTotalUp, mAckQ, mDead, mRaced, mCtl, mBulk, mDials, mDst, mFed,
                     mOpens, mLosses>>
  BY DEF Mux!ExitClose, Mux!CloseStream, Mux!countVars, Mux!clientVars, Mux!exitVars, Mux!wire
<1>c. /\ \/ mEx[i] = "unknown" /\ UNCHANGED <<mEx, mHeld, mInAll, mExSent, mExAcked, mWrote, mExAckedSent>>
         \/ mEx[i] # "unknown" /\ Mux!CloseStream(i)
  BY DEF Mux!ExitClose, Mux!exitVars
<1>g. /\ mUp' \in [Flows -> Seq(Mux!UpFrames)] /\ mUp'[i] = Tail(mUp[i]) /\ Head(mUp[i]) \in Mux!UpFrames
      /\ \A j \in Flows : j # i => mUp'[j] = mUp[j]
  <2>1. mUp \in [Flows -> Seq(Mux!UpFrames)]
    BY <1>f DEF Mux!Typed
  <2>2. Tail(mUp[i]) \in Seq(Mux!UpFrames) /\ Head(mUp[i]) \in Mux!UpFrames
    BY <2>1, MuxTailed
  <2> QED BY <2>1, <2>2
<1>a. mApp[i] # "idle" /\ mApp'[i] = mApp[i]
  BY <1>e, <1>f DEF Mux!Begun
<1>b. /\ Mux!Incoming(mGot[i] \o mRbuf[i], mBulk[i], mDials[i], mFed[i])
      /\ Mux!Outgoing(mUp[i], mHeld[i], mDst[i], mDials[i], mWritten[i])
      /\ mEx[i] # "pending" => mHeld[i] = <<>>
  BY <1>f DEF Mux!Continues
<1>r. Mux!Outgoing(mUp'[i], mHeld[i], mDst[i], mDials[i], mWritten[i])
  BY <1>b, <1>g, MuxComes
<1>h. Mux!Outgoing(mUp'[i], <<>>, mDst[i], mDials[i], mWritten[i])
  BY <1>r, MuxLetsGo
<1>d. /\ Mux!Counted'
      /\ mExAcked' \in [Flows -> Nat] /\ mExSent' \in [Flows -> Nat]
      /\ mWrote' \in [Flows -> Nat] /\ mExAckedSent' \in [Flows -> Nat]
      /\ mEx' \in [Flows -> {"unknown", "pending", "open"}] /\ mHeld' \in [Flows -> Seq(Nat)]
      /\ mEx'[i] = "unknown" /\ mHeld'[i] = <<>>
      /\ \A j \in Flows : j # i =>
            /\ mEx'[j] = mEx[j] /\ mHeld'[j] = mHeld[j]
            /\ mExSent'[j] = mExSent[j] /\ mExAcked'[j] = mExAcked[j]
  <2>1. CASE mEx[i] = "unknown"
    <3>1. UNCHANGED <<mEx, mHeld, mInAll, mExSent, mExAcked, mWrote, mExAckedSent>>
      BY <1>c, <2>1
    <3>2. Mux!Counted'
      BY <1>e, <1>f, <3>1, MuxStillCounted
    <3> QED BY <1>b, <1>f, <2>1, <3>1, <3>2 DEF Mux!Typed
  <2>2. CASE mEx[i] # "unknown"
    <3>1. Mux!CloseStream(i) /\ UNCHANGED <<mTotalUp, mAcked, mSent>>
      BY <1>c, <1>e, <2>2
    <3> QED BY <3>1, MuxGone
  <2> QED BY <2>1, <2>2
<1>w. mExAcked'[i] <= mExSent'[i] /\ mExSent'[i] - mExAcked'[i] <= PerFlow
  <2>1. CASE mEx[i] = "unknown"
    BY <1>c, <1>f, <2>1 DEF Mux!Windowed
  <2>2. CASE mEx[i] # "unknown"
    <3>1. Mux!CloseStream(i) /\ UNCHANGED <<mTotalUp, mAcked, mSent>>
      BY <1>c, <1>e, <2>2
    <3>2. mExSent'[i] = 0 /\ mExAcked'[i] = 0
      BY <3>1, MuxGone
    <3> QED BY <3>2, FlowsAssumption
  <2> QED BY <2>1, <2>2
<1>o. \A j \in Flows : j # i => MuxStays(j)
  BY <1>e, <1>g, <1>d DEF MuxStays, MuxSameIn, MuxSameOut, MuxSameLife, MuxSameCounts, MuxSameAcks, MuxSameEnd
<1>s. MuxSameIn(i) /\ MuxSameLife(i) /\ MuxSameAcks(i) /\ MuxOnward
  BY <1>e DEF MuxSameIn, MuxSameLife, MuxSameAcks, MuxOnward
<1>n. Mux!Counted'
  BY <1>d
<1>1. Mux!Continues(i)'
  BY <1>b, <1>d, <1>e, <1>h DEF Mux!Continues
<1>2. Mux!Complete(i)'
  <2> SUFFICES ASSUME mLosses' = 0, mDials'[i] = 1
               PROVE  /\ Mux!Whole(mGot'[i] \o mRbuf'[i]) /\ Mux!Whole(mDst'[i])
                      /\ i \in mKnown' /\ ~mEof'[i] =>
                             Mux!Follows(mGot'[i] \o mRbuf'[i], mBulk'[i], mFed'[i], mEx'[i])
                      /\ mEx'[i] # "unknown" => Mux!Reaches(mUp'[i], mHeld'[i], mDst'[i], mWritten'[i])
    BY DEF Mux!Complete
  <2>1. /\ Mux!Whole(mGot[i] \o mRbuf[i]) /\ Mux!Whole(mDst[i])
        /\ i \in mKnown /\ ~mEof[i] => Mux!Follows(mGot[i] \o mRbuf[i], mBulk[i], mFed[i], mEx[i])
    BY <1>e, <1>f DEF Mux!Complete
  <2>2. Mux!Follows(mGot[i] \o mRbuf[i], mBulk[i], mFed[i], mEx[i]) => Mux!Follows(mGot[i] \o mRbuf[i], mBulk[i], mFed[i], "unknown")
    BY DEF Mux!Follows
  <2> QED BY <1>d, <1>e, <2>1, <2>2
<1>3. Mux!Begun(i)'
  <2>1. mGot'[i] \o mRbuf'[i] = mGot[i] \o mRbuf[i]
    BY <1>e
  <2> QED BY <1>a, <1>d, <1>e, <1>f, <2>1 DEF Mux!Begun
<1>4. Mux!Windowed(i)'
  BY <1>e, <1>f, <1>w DEF Mux!Windowed
<1>5. Mux!Attended(i)'
  BY <1>e, <1>f DEF Mux!Attended
<1>t. Mux!Typed'
  BY <1>d, <1>e, <1>f, <1>g DEF Mux!Typed
<1> QED BY <1>n, <1>o, <1>s, <1>1, <1>2, <1>3, <1>4, <1>5, <1>t, MuxOne

\* What the exit does of itself.

LEMMA MuxDialled ==
    ASSUME Mux!IInv, NEW i \in Flows, Mux!Connects(i)
    PROVE  Mux!IInv'
<1>f. /\ Mux!Typed /\ Mux!Counted /\ Mux!Sound(i)
      /\ Mux!Continues(i) /\ Mux!Begun(i) /\ Mux!Complete(i) /\ Mux!Windowed(i) /\ Mux!Attended(i)
  BY MuxFacts
<1>e. /\ mEx[i] = "pending"
      /\ UNCHANGED <<mScene, mApp, mKnown, mAnswer, mClosed, mEof, mRbuf, mGot,
                     mWriter, mWritten, mSent, mAcked, mConsumed, mAckedSent,
                     mTotalUp, mAckQ, mDead, mRaced, mUp, mBulk, mDials, mFed,
                     mExSent, mExAcked, mExAckedSent, mInAll, mOpens, mLosses>>
  BY DEF Mux!Connects, Mux!countVars, Mux!clientVars, Mux!exitVars, Mux!wire
<1>c. /\ mEx' = [mEx EXCEPT ![i] = "open"]
      /\ mCtl' = [mCtl EXCEPT ![i] = Append(@, Mux!Frame("OPEN_OK", 0))]
      /\ mDst' = [mDst EXCEPT ![i] = mDst[i] \o Mux!Arrives(i, mHeld[i])]
      /\ mWrote' = [mWrote EXCEPT ![i] = Len(mHeld[i])]
      /\ mHeld' = [mHeld EXCEPT ![i] = <<>>]
  BY DEF Mux!Connects, Mux!SendCtl
<1>b. /\ Mux!Incoming(mGot[i] \o mRbuf[i], mBulk[i], mDials[i], mFed[i])
      /\ Mux!Outgoing(mUp[i], mHeld[i], mDst[i], mDials[i], mWritten[i])
      /\ mEx[i] # "pending" => mHeld[i] = <<>>
  BY <1>f DEF Mux!Continues
<1>k. mCtl' \in [Flows -> Seq(Mux!CtlFrames)] /\ \A j \in Flows : j # i => mCtl'[j] = mCtl[j]
  <2>1. mCtl \in [Flows -> Seq(Mux!CtlFrames)]
    BY <1>f DEF Mux!Typed
  <2>2. PICK x : x = Mux!Frame("OPEN_OK", 0)
    OBVIOUS
  <2>3. x \in Mux!CtlFrames
    BY <2>2, MuxFrames
  <2>4. Append(mCtl[i], x) \in Seq(Mux!CtlFrames)
    BY <2>1, <2>3, MuxAppended
  <2> QED BY <1>c, <2>1, <2>2, <2>4
<1>h. /\ mHeld' \in [Flows -> Seq(Nat)] /\ mHeld'[i] = <<>> /\ mWrote' \in [Flows -> Nat]
      /\ \A j \in Flows : j # i => mHeld'[j] = mHeld[j]
  <2>1. mHeld \in [Flows -> Seq(Nat)] /\ mWrote \in [Flows -> Nat]
    BY <1>f DEF Mux!Typed
  <2>2. <<>> \in Seq(Nat)
    OBVIOUS
  <2>3. Len(mHeld[i]) \in Nat
    BY <2>1, LenProperties
  <2> QED BY <1>c, <2>1, <2>2, <2>3
<1>x. mEx' \in [Flows -> {"unknown", "pending", "open"}] /\ mEx'[i] = "open" /\ \A j \in Flows : j # i => mEx'[j] = mEx[j]
  BY <1>c, <1>f DEF Mux!Typed
<1>p. PICK a : a = [j \in 1..Len(mHeld[i]) |-> <<mDials[i], mHeld[i][j]>>]
  OBVIOUS
<1>a. a = Mux!Arrives(i, mHeld[i])
  BY <1>p DEF Mux!Arrives
<1>r. /\ Mux!Outgoing(mUp[i], <<>>, mDst[i] \o a, mDials[i], mWritten[i])
      /\ mDst[i] \o a \in Seq(Mux!Pairs)
      /\ Mux!Reaches(mUp[i], mHeld[i], mDst[i], mWritten[i]) => Mux!Reaches(mUp[i], <<>>, mDst[i] \o a, mWritten[i])
      /\ Mux!Reaches(mUp[i], mHeld[i], mDst[i], mWritten[i]) /\ Mux!Whole(mDst[i]) /\ mDials[i] = 1 => Mux!Whole(mDst[i] \o a)
  BY <1>b, <1>p, MuxConnects
<1>d. mDst' \in [Flows -> Seq(Mux!Pairs)] /\ mDst'[i] = mDst[i] \o a /\ \A j \in Flows : j # i => mDst'[j] = mDst[j]
  <2>1. mDst \in [Flows -> Seq(Mux!Pairs)]
    BY <1>f DEF Mux!Typed
  <2> QED BY <1>a, <1>c, <1>r, <2>1
<1>o. \A j \in Flows : j # i => MuxStays(j)
  BY <1>d, <1>e, <1>h, <1>k, <1>x DEF MuxStays, MuxSameIn, MuxSameOut, MuxSameLife, MuxSameCounts, MuxSameAcks, MuxSameEnd
<1>s. MuxSameIn(i) /\ MuxSameLife(i) /\ MuxSameCounts(i) /\ MuxOnward
  BY <1>e DEF MuxSameIn, MuxSameLife, MuxSameCounts, MuxOnward
<1>n. Mux!Counted'
  BY <1>e, <1>f, <1>s, MuxStillCounted
<1>1. Mux!Continues(i)'
  BY <1>b, <1>d, <1>e, <1>h, <1>r, <1>x DEF Mux!Continues
<1>2. Mux!Complete(i)'
  <2> SUFFICES ASSUME mLosses' = 0, mDials'[i] = 1
               PROVE  /\ Mux!Whole(mGot'[i] \o mRbuf'[i]) /\ Mux!Whole(mDst'[i])
                      /\ i \in mKnown' /\ ~mEof'[i] =>
                             Mux!Follows(mGot'[i] \o mRbuf'[i], mBulk'[i], mFed'[i], mEx'[i])
                      /\ mEx'[i] # "unknown" => Mux!Reaches(mUp'[i], mHeld'[i], mDst'[i], mWritten'[i])
    BY DEF Mux!Complete
  <2>1. /\ Mux!Whole(mGot[i] \o mRbuf[i]) /\ Mux!Whole(mDst[i])
        /\ i \in mKnown /\ ~mEof[i] => Mux!Follows(mGot[i] \o mRbuf[i], mBulk[i], mFed[i], mEx[i])
        /\ mEx[i] # "unknown" => Mux!Reaches(mUp[i], mHeld[i], mDst[i], mWritten[i])
    BY <1>e, <1>f DEF Mux!Complete
  <2>2. Mux!Follows(mGot[i] \o mRbuf[i], mBulk[i], mFed[i], mEx[i]) => Mux!Follows(mGot[i] \o mRbuf[i], mBulk[i], mFed[i], mEx'[i])
    BY <1>e DEF Mux!Follows
  <2>3. mDials[i] = 1 /\ mEx[i] # "unknown"
    BY <1>e
  <2>4. Mux!Whole(mDst'[i]) /\ Mux!Reaches(mUp[i], <<>>, mDst'[i], mWritten[i])
    BY <1>d, <1>r, <2>1, <2>3
  <2> QED BY <1>e, <1>h, <2>1, <2>2, <2>4
<1>3. Mux!Begun(i)'
  <2>1. mDials[i] # 0 /\ mApp[i] # "idle"
    BY <1>e, <1>f DEF Mux!Begun
  <2> QED BY <1>e, <2>1 DEF Mux!Begun
<1>4. Mux!Windowed(i)'
  BY <1>e, <1>f, <1>s, MuxStillWindowed
<1>5. Mux!Attended(i)'
  BY <1>e, <1>f, <1>s, MuxStillAttended
<1>t. Mux!Typed'
  BY <1>d, <1>e, <1>f, <1>h, <1>k, <1>x DEF Mux!Typed
<1> QED BY <1>n, <1>o, <1>s, <1>1, <1>2, <1>3, <1>4, <1>5, <1>t, MuxOne


LEMMA MuxDeclined ==
    ASSUME Mux!IInv, NEW i \in Flows, Mux!Refuses(i)
    PROVE  Mux!IInv'
<1>f. /\ Mux!Typed /\ Mux!Counted /\ Mux!Sound(i)
      /\ Mux!Continues(i) /\ Mux!Begun(i) /\ Mux!Complete(i) /\ Mux!Windowed(i) /\ Mux!Attended(i)
  BY MuxFacts
<1>e. /\ mEx[i] = "pending"
      /\ UNCHANGED <<mScene, mApp, mKnown, mAnswer, mClosed, mEof, mRbuf, mGot,
                     mWriter, mWritten, mSent, mAcked, mConsumed, mAckedSent,
                     mTotalUp, mAckQ, mDead, mRaced, mUp, mBulk, mDials, mDst, mFed,
                     mExSent, mExAcked, mWrote, mExAckedSent, mInAll, mOpens, mLosses>>
  BY DEF Mux!Refuses, Mux!countVars, Mux!clientVars, Mux!exitVars, Mux!wire
<1>c. /\ mEx' = [mEx EXCEPT ![i] = "unknown"]
      /\ mCtl' = [mCtl EXCEPT ![i] = Append(@, Mux!Frame("OPEN_ERR", 0))]
      /\ mHeld' = [mHeld EXCEPT ![i] = <<>>]
  BY DEF Mux!Refuses, Mux!SendCtl
<1>b. /\ Mux!Incoming(mGot[i] \o mRbuf[i], mBulk[i], mDials[i], mFed[i])
      /\ Mux!Outgoing(mUp[i], mHeld[i], mDst[i], mDials[i], mWritten[i])
      /\ mEx[i] # "pending" => mHeld[i] = <<>>
  BY <1>f DEF Mux!Continues
<1>k. mCtl' \in [Flows -> Seq(Mux!CtlFrames)] /\ \A j \in Flows : j # i => mCtl'[j] = mCtl[j]
  <2>1. mCtl \in [Flows -> Seq(Mux!CtlFrames)]
    BY <1>f DEF Mux!Typed
  <2>2. PICK x : x = Mux!Frame("OPEN_ERR", 0)
    OBVIOUS
  <2>3. x \in Mux!CtlFrames
    BY <2>2, MuxFrames
  <2>4. Append(mCtl[i], x) \in Seq(Mux!CtlFrames)
    BY <2>1, <2>3, MuxAppended
  <2> QED BY <1>c, <2>1, <2>2, <2>4
<1>h. /\ mHeld' \in [Flows -> Seq(Nat)] /\ mHeld'[i] = <<>> /\ \A j \in Flows : j # i => mHeld'[j] = mHeld[j]
  <2>1. mHeld \in [Flows -> Seq(Nat)]
    BY <1>f DEF Mux!Typed
  <2>2. <<>> \in Seq(Nat)
    OBVIOUS
  <2> QED BY <1>c, <2>1, <2>2
<1>x. mEx' \in [Flows -> {"unknown", "pending", "open"}] /\ mEx'[i] = "unknown" /\ \A j \in Flows : j # i => mEx'[j] = mEx[j]
  BY <1>c, <1>f DEF Mux!Typed
<1>r. Mux!Outgoing(mUp[i], <<>>, mDst[i], mDials[i], mWritten[i])
  BY <1>b, MuxLetsGo
<1>o. \A j \in Flows : j # i => MuxStays(j)
  BY <1>e, <1>h, <1>k, <1>x DEF MuxStays, MuxSameIn, MuxSameOut, MuxSameLife, MuxSameCounts, MuxSameAcks, MuxSameEnd
<1>s. MuxSameIn(i) /\ MuxSameLife(i) /\ MuxSameCounts(i) /\ MuxOnward
  BY <1>e DEF MuxSameIn, MuxSameLife, MuxSameCounts, MuxOnward
<1>n. Mux!Counted'
  BY <1>e, <1>f, <1>s, MuxStillCounted
<1>1. Mux!Continues(i)'
  BY <1>b, <1>e, <1>h, <1>r, <1>x DEF Mux!Continues
<1>2. Mux!Complete(i)'
  <2> SUFFICES ASSUME mLosses' = 0, mDials'[i] = 1
               PROVE  /\ Mux!Whole(mGot'[i] \o mRbuf'[i]) /\ Mux!Whole(mDst'[i])
                      /\ i \in mKnown' /\ ~mEof'[i] =>
                             Mux!Follows(mGot'[i] \o mRbuf'[i], mBulk'[i], mFed'[i], mEx'[i])
                      /\ mEx'[i] # "unknown" => Mux!Reaches(mUp'[i], mHeld'[i], mDst'[i], mWritten'[i])
    BY DEF Mux!Complete
  <2>1. /\ Mux!Whole(mGot[i] \o mRbuf[i]) /\ Mux!Whole(mDst[i])
        /\ i \in mKnown /\ ~mEof[i] => Mux!Follows(mGot[i] \o mRbuf[i], mBulk[i], mFed[i], mEx[i])
        /\ mEx[i] # "unknown" => Mux!Reaches(mUp[i], mHeld[i], mDst[i], mWritten[i])
    BY <1>e, <1>f DEF Mux!Complete
  <2>2. mEx[i] # "unknown" /\ Mux!Follows(mGot[i] \o mRbuf[i], mBulk[i], mFed[i], mEx[i]) => Mux!Follows(mGot[i] \o mRbuf[i], mBulk[i], mFed[i], "unknown")
    BY DEF Mux!Follows
  <2> QED BY <1>e, <1>x, <2>1, <2>2
<1>3. Mux!Begun(i)'
  <2>1. mDials[i] # 0 /\ mApp[i] # "idle"
    BY <1>e, <1>f DEF Mux!Begun
  <2> QED BY <1>e, <2>1 DEF Mux!Begun
<1>4. Mux!Windowed(i)'
  BY <1>e, <1>f, <1>s, MuxStillWindowed
<1>5. Mux!Attended(i)'
  BY <1>e, <1>f, <1>s, MuxStillAttended
<1>t. Mux!Typed'
  BY <1>e, <1>f, <1>h, <1>k, <1>x DEF Mux!Typed
<1> QED BY <1>n, <1>o, <1>s, <1>1, <1>2, <1>3, <1>4, <1>5, <1>t, MuxOne


LEMMA MuxAnswers ==
    ASSUME Mux!IInv, NEW i \in Flows, Mux!DstSends(i)
    PROVE  Mux!IInv'
<1>f. /\ Mux!Typed /\ Mux!Counted /\ Mux!Sound(i)
      /\ Mux!Continues(i) /\ Mux!Begun(i) /\ Mux!Complete(i) /\ Mux!Windowed(i) /\ Mux!Attended(i)
  BY MuxFacts
<1>e. /\ mEx[i] = "open"
      /\ UNCHANGED <<mScene, mApp, mKnown, mAnswer, mClosed, mEof, mRbuf, mGot,
                     mWriter, mWritten, mSent, mAcked, mConsumed, mAckedSent,
                     mTotalUp, mAckQ, mDead, mRaced, mUp, mCtl, mEx, mDials, mHeld,
                     mDst, mExAcked, mWrote, mExAckedSent, mOpens, mLosses>>
  BY DEF Mux!DstSends, Mux!countVars, Mux!clientVars, Mux!exitVars, Mux!wire
<1>c. /\ ~Mux!Blocked(i)
      /\ mFed' = [mFed EXCEPT ![i] = mFed[i] + 1]
      /\ mExSent' = [mExSent EXCEPT ![i] = mExSent[i] + 1]
      /\ mInAll' = mInAll + 1
      /\ mBulk' = [mBulk EXCEPT ![i] = Append(@, Mux!Frame("DATA", <<mDials[i], mFed[i] + 1>>))]
  BY DEF Mux!DstSends, Mux!SendBulk
<1>b. /\ Mux!Incoming(mGot[i] \o mRbuf[i], mBulk[i], mDials[i], mFed[i])
      /\ Mux!Outgoing(mUp[i], mHeld[i], mDst[i], mDials[i], mWritten[i])
      /\ mEx[i] # "pending" => mHeld[i] = <<>>
  BY <1>f DEF Mux!Continues
<1>g. mFed[i] \in Nat /\ mDials[i] \in Nat /\ mExSent[i] \in Nat /\ mExAcked[i] \in Nat /\ mExAcked[i] <= mExSent[i]
  BY <1>f DEF Mux!Typed, Mux!Windowed
<1>x. PICK x : x = [type |-> "DATA", val |-> <<mDials[i], mFed[i] + 1>>]
  OBVIOUS
<1>y. x \in Mux!BulkFrames /\ x.type = "DATA" /\ x.val = <<mDials[i], mFed[i] + 1>>
  <2>1. <<mDials[i], mFed[i] + 1>> \in Mux!Pairs
    BY <1>g DEF Mux!Pairs
  <2> QED BY <1>x, <2>1 DEF Mux!BulkFrames
<1>k. mBulk' \in [Flows -> Seq(Mux!BulkFrames)] /\ mBulk'[i] = Append(mBulk[i], x) /\ \A j \in Flows : j # i => mBulk'[j] = mBulk[j]
  <2>1. mBulk \in [Flows -> Seq(Mux!BulkFrames)]
    BY <1>f DEF Mux!Typed
  <2>2. Append(mBulk[i], x) \in Seq(Mux!BulkFrames)
    BY <1>y, <2>1, MuxAppended
  <2>3. mBulk' = [mBulk EXCEPT ![i] = Append(@, x)]
    BY <1>c, <1>x DEF Mux!Frame
  <2> QED BY <2>1, <2>2, <2>3
<1>h. mFed' \in [Flows -> Nat] /\ mFed'[i] = mFed[i] + 1 /\ \A j \in Flows : j # i => mFed'[j] = mFed[j]
  <2>1. mFed \in [Flows -> Nat]
    BY <1>f DEF Mux!Typed
  <2>2. mFed[i] + 1 \in Nat
    BY <1>g
  <2> QED BY <1>c, <2>1, <2>2
<1>w. mExSent' \in [Flows -> Nat] /\ mExSent'[i] = mExSent[i] + 1 /\ \A j \in Flows : j # i => mExSent'[j] = mExSent[j]
  <2>1. mExSent \in [Flows -> Nat]
    BY <1>f DEF Mux!Typed
  <2>2. mExSent[i] + 1 \in Nat
    BY <1>g
  <2> QED BY <1>c, <2>1, <2>2
<1>r. Mux!Incoming(mGot[i] \o mRbuf[i], mBulk'[i], mDials[i], mFed[i] + 1)
  <2>1. Mux!Incoming(mGot[i] \o mRbuf[i], Append(mBulk[i], x), mDials[i], mFed[i] + 1)
    BY <1>b, <1>x, MuxFed
  <2> QED BY <1>k, <2>1
<1>o. \A j \in Flows : j # i => MuxStays(j)
  BY <1>e, <1>h, <1>k, <1>w DEF MuxStays, MuxSameIn, MuxSameOut, MuxSameLife, MuxSameCounts, MuxSameAcks, MuxSameEnd
<1>s. MuxSameOut(i) /\ MuxSameLife(i) /\ MuxSameAcks(i) /\ MuxOnward
  BY <1>e DEF MuxSameOut, MuxSameLife, MuxSameAcks, MuxOnward
<1>n. Mux!Counted'
  <2>1. IsFiniteSet(Flows)
    BY FlowsAssumption
  <2>2. mExAcked \in [Flows -> Nat]
    BY <1>f DEF Mux!Typed
  <2>3. mExSent \in [Flows -> Nat]
    BY <1>f DEF Mux!Typed
  <2>4. mExAcked[i] <= mExSent[i]
    BY <1>g
  <2>5. PICK t : t = mExSent'
    OBVIOUS
  <2>6. t \in [Flows -> Nat]
    BY <1>w, <2>5
  <2>7. t[i] = mExSent[i] + 1
    BY <1>w, <2>5
  <2>8. \A j \in Flows : j # i => t[j] = mExSent[j]
    BY <1>w, <2>5
  <2>9. Cardinality(Mux!UnderWay(Flows, mExAcked, t)) = Cardinality(Mux!UnderWay(Flows, mExAcked, mExSent)) + 1
    BY <2>1, <2>2, <2>3, <2>4, <2>6, <2>7, <2>8, MuxCounts
  <2>10. mInAll = Cardinality(Mux!UnderWay(Flows, mExAcked, mExSent))
         /\ mTotalUp = Mux!Cardinality(Mux!UnderWay(Flows, mAcked, mSent))
    BY <1>f, MuxSizes DEF Mux!Counted
  <2>11. mInAll' = Mux!Cardinality(Mux!UnderWay(Flows, mExAcked, mExSent'))
    BY <1>c, <2>5, <2>9, <2>10, MuxSizes
  <2>12. mInAll' = Mux!Cardinality(Mux!UnderWay(Flows, mExAcked', mExSent'))
    BY <1>e, <2>11
  <2>13. mTotalUp' = Mux!Cardinality(Mux!UnderWay(Flows, mAcked', mSent'))
    BY <1>e, <2>10
  <2> QED BY <2>12, <2>13 DEF Mux!Counted
<1>1. Mux!Continues(i)'
  BY <1>b, <1>e, <1>h, <1>r DEF Mux!Continues
<1>2. Mux!Complete(i)'
  <2> SUFFICES ASSUME mLosses' = 0, mDials'[i] = 1
               PROVE  /\ Mux!Whole(mGot'[i] \o mRbuf'[i]) /\ Mux!Whole(mDst'[i])
                      /\ i \in mKnown' /\ ~mEof'[i] =>
                             Mux!Follows(mGot'[i] \o mRbuf'[i], mBulk'[i], mFed'[i], mEx'[i])
                      /\ mEx'[i] # "unknown" => Mux!Reaches(mUp'[i], mHeld'[i], mDst'[i], mWritten'[i])
    BY DEF Mux!Complete
  <2>1. /\ Mux!Whole(mGot[i] \o mRbuf[i]) /\ Mux!Whole(mDst[i])
        /\ i \in mKnown /\ ~mEof[i] => Mux!Follows(mGot[i] \o mRbuf[i], mBulk[i], mFed[i], mEx[i])
        /\ mEx[i] # "unknown" => Mux!Reaches(mUp[i], mHeld[i], mDst[i], mWritten[i])
    BY <1>e, <1>f DEF Mux!Complete
  <2>2. ASSUME i \in mKnown, ~mEof[i] PROVE Mux!Follows(mGot[i] \o mRbuf[i], Append(mBulk[i], x), mFed[i] + 1, mEx[i])
    <3>1. mGot[i] \o mRbuf[i] \in Seq(Mux!Pairs) /\ mBulk[i] \in Seq(Mux!BulkFrames)
      BY <1>b DEF Mux!Incoming
    <3>2. x.val = <<1, mFed[i] + 1>> /\ mEx[i] # "unknown"
      BY <1>e, <1>y
    <3>3. Mux!Follows(mGot[i] \o mRbuf[i], mBulk[i], mFed[i], mEx[i])
      BY <2>1, <2>2
    <3> QED BY <1>g, <1>y, <3>1, <3>2, <3>3, MuxGoesOn
  <2> QED BY <1>e, <1>h, <1>k, <2>1, <2>2
<1>3. Mux!Begun(i)'
  <2>1. mDials[i] # 0 /\ mApp[i] # "idle"
    BY <1>e, <1>f DEF Mux!Begun
  <2> QED BY <1>e, <2>1 DEF Mux!Begun
<1>4. Mux!Windowed(i)'
  <2>1. mExSent[i] - mExAcked[i] = 0 \/ mExSent[i] - mExAcked[i] < PerFlow
    BY <1>c DEF Mux!Blocked, Mux!ExitInFlight
  <2>2. PerFlow \in Nat /\ 1 <= PerFlow
    BY FlowsAssumption
  <2>3. (mExSent[i] + 1) - mExAcked[i] <= PerFlow /\ mExAcked[i] <= mExSent[i] + 1
    BY <1>g, <2>1, <2>2
  <2> QED BY <1>e, <1>f, <1>w, <2>3 DEF Mux!Windowed
<1>5. Mux!Attended(i)'
  BY <1>e, <1>f DEF Mux!Attended
<1>t. Mux!Typed'
  BY <1>e, <1>f, <1>h, <1>k, <1>w DEF Mux!Typed
<1> QED BY <1>n, <1>o, <1>s, <1>1, <1>2, <1>3, <1>4, <1>5, <1>t, MuxOne

LEMMA MuxExitStalls ==
    ASSUME Mux!IInv, NEW i \in Flows, Mux!ExitStalled(i)
    PROVE  Mux!IInv'
<1>f. /\ Mux!Typed /\ Mux!Counted /\ Mux!Sound(i)
      /\ Mux!Continues(i) /\ Mux!Begun(i) /\ Mux!Complete(i) /\ Mux!Windowed(i) /\ Mux!Attended(i)
  BY MuxFacts
<1>e. /\ mEx[i] = "open"
      /\ UNCHANGED <<mScene, mApp, mKnown, mAnswer, mClosed, mEof, mRbuf, mGot,
                     mWriter, mWritten, mSent, mAcked, mConsumed, mAckedSent,
                     mTotalUp, mAckQ, mDead, mRaced, mUp, mCtl, mBulk, mEx, mDials,
                     mHeld, mDst, mFed, mExSent, mWrote, mExAckedSent, mOpens, mLosses>>
  BY DEF Mux!ExitStalled, Mux!countVars, Mux!clientVars, Mux!exitVars, Mux!wire
<1>c. /\ mInAll' = mInAll - (mExSent[i] - mExAcked[i])
      /\ mExAcked' = [mExAcked EXCEPT ![i] = mExSent[i]]
  BY DEF Mux!ExitStalled, Mux!ExitInFlight
<1>g. mExAcked \in [Flows -> Nat] /\ mExSent \in [Flows -> Nat] /\ mExAcked[i] <= mExSent[i] /\ mExSent[i] <= mExSent[i]
  <2>1. mExAcked \in [Flows -> Nat] /\ mExSent \in [Flows -> Nat]
    BY <1>f DEF Mux!Typed
  <2>2. mExAcked[i] <= mExSent[i]
    BY <1>f DEF Mux!Windowed
  <2>3. mExSent[i] <= mExSent[i]
    BY <2>1
  <2> QED BY <2>1, <2>2, <2>3
<1>h. mExAcked' \in [Flows -> Nat] /\ mExAcked'[i] = mExSent[i] /\ \A j \in Flows : j # i => mExAcked'[j] = mExAcked[j]
  BY <1>c, <1>g
<1>o. \A j \in Flows : j # i => MuxStays(j)
  BY <1>e, <1>h DEF MuxStays, MuxSameIn, MuxSameOut, MuxSameLife, MuxSameCounts, MuxSameAcks, MuxSameEnd
<1>s. MuxSameIn(i) /\ MuxSameOut(i) /\ MuxSameLife(i) /\ MuxSameAcks(i) /\ MuxOnward
  BY <1>e DEF MuxSameIn, MuxSameOut, MuxSameLife, MuxSameAcks, MuxOnward
<1>n. Mux!Counted'
  <2>1. PICK g : g = mExAcked'
    OBVIOUS
  <2>2. g \in [Flows -> Nat]
    BY <1>h, <2>1
  <2>3. g[i] = mExSent[i]
    BY <1>h, <2>1
  <2>4. \A j \in Flows : j # i => g[j] = mExAcked[j]
    BY <1>h, <2>1
  <2>5. mExSent[i] \in Nat
    BY <1>g
  <2>6. mExAcked[i] <= mExSent[i]
    BY <1>g
  <2>7. mExSent[i] <= mExSent[i]
    BY <1>g
  <2>8. mInAll - (mExSent[i] - mExAcked[i]) = Mux!Cardinality(Mux!UnderWay(Flows, g, mExSent))
    BY <2>2, <2>3, <2>4, <2>5, <2>6, <2>7, MuxExAcked
  <2>9. mInAll' = Mux!Cardinality(Mux!UnderWay(Flows, mExAcked', mExSent'))
    BY <1>c, <1>e, <2>1, <2>8
  <2>10. mTotalUp' = Mux!Cardinality(Mux!UnderWay(Flows, mAcked', mSent'))
    BY <1>e, <1>f DEF Mux!Counted
  <2> QED BY <2>9, <2>10 DEF Mux!Counted
<1>1. Mux!Continues(i)'
  BY <1>e, <1>f, <1>s, MuxStillContinues
<1>2. Mux!Complete(i)'
  BY <1>e, <1>f, <1>s, MuxStillComplete
<1>3. Mux!Begun(i)'
  <2>1. mDials[i] # 0 /\ mApp[i] # "idle"
    BY <1>e, <1>f DEF Mux!Begun
  <2> QED BY <1>e, <2>1 DEF Mux!Begun
<1>4. Mux!Windowed(i)'
  <2>1. mExSent[i] \in Nat /\ PerFlow \in Nat
    BY <1>g, FlowsAssumption
  <2>2. mExSent[i] <= mExSent[i] /\ mExSent[i] - mExSent[i] <= PerFlow
    BY <2>1
  <2> QED BY <1>e, <1>f, <1>h, <2>2 DEF Mux!Windowed
<1>5. Mux!Attended(i)'
  BY <1>e, <1>f DEF Mux!Attended
<1>t. Mux!Typed'
  BY <1>e, <1>f, <1>h DEF Mux!Typed
<1> QED BY <1>n, <1>o, <1>s, <1>1, <1>2, <1>3, <1>4, <1>5, <1>t, MuxOne


LEMMA MuxFlushes ==
    ASSUME Mux!IInv, NEW i \in Flows, Mux!FlushAcks(i)
    PROVE  Mux!IInv'
<1>f. /\ Mux!Typed /\ Mux!Counted /\ Mux!Sound(i)
      /\ Mux!Continues(i) /\ Mux!Begun(i) /\ Mux!Complete(i) /\ Mux!Windowed(i) /\ Mux!Attended(i)
  BY MuxFacts
<1>e. /\ mEx[i] = "open"
      /\ UNCHANGED <<mScene, mApp, mKnown, mAnswer, mClosed, mEof, mRbuf, mGot,
                     mWriter, mWritten, mSent, mAcked, mConsumed, mAckedSent,
                     mTotalUp, mAckQ, mDead, mRaced, mUp, mBulk, mEx, mDials, mHeld,
                     mDst, mFed, mExSent, mExAcked, mWrote, mInAll, mOpens, mLosses>>
  BY DEF Mux!FlushAcks, Mux!countVars, Mux!clientVars, Mux!exitVars, Mux!wire
<1>c. /\ mExAckedSent' = [mExAckedSent EXCEPT ![i] = mWrote[i]]
      /\ mCtl' = [mCtl EXCEPT ![i] = Append(@, Mux!Frame("ACK", mWrote[i]))]
  BY DEF Mux!FlushAcks, Mux!SendCtl
<1>g. mWrote[i] \in Nat
  BY <1>f DEF Mux!Typed
<1>k. mCtl' \in [Flows -> Seq(Mux!CtlFrames)] /\ \A j \in Flows : j # i => mCtl'[j] = mCtl[j]
  <2>1. mCtl \in [Flows -> Seq(Mux!CtlFrames)]
    BY <1>f DEF Mux!Typed
  <2>2. PICK x : x = Mux!Frame("ACK", mWrote[i])
    OBVIOUS
  <2>3. x \in Mux!CtlFrames
    BY <1>g, <2>2, MuxFrames
  <2>4. Append(mCtl[i], x) \in Seq(Mux!CtlFrames)
    BY <2>1, <2>3, MuxAppended
  <2> QED BY <1>c, <2>1, <2>2, <2>4
<1>h. mExAckedSent' \in [Flows -> Nat]
  BY <1>c, <1>f, <1>g DEF Mux!Typed
<1>o. \A j \in Flows : j # i => MuxStays(j)
  BY <1>e, <1>k DEF MuxStays, MuxSameIn, MuxSameOut, MuxSameLife, MuxSameCounts, MuxSameAcks, MuxSameEnd
<1>s. MuxSameIn(i) /\ MuxSameOut(i) /\ MuxSameLife(i) /\ MuxSameCounts(i) /\ MuxOnward
  BY <1>e DEF MuxSameIn, MuxSameOut, MuxSameLife, MuxSameCounts, MuxOnward
<1>n. Mux!Counted'
  BY <1>e, <1>f, <1>s, MuxStillCounted
<1>1. Mux!Continues(i)'
  BY <1>e, <1>f, <1>s, MuxStillContinues
<1>2. Mux!Complete(i)'
  BY <1>e, <1>f, <1>s, MuxStillComplete
<1>3. Mux!Begun(i)'
  <2>1. mDials[i] # 0 /\ mApp[i] # "idle"
    BY <1>e, <1>f DEF Mux!Begun
  <2> QED BY <1>e, <2>1 DEF Mux!Begun
<1>4. Mux!Windowed(i)'
  BY <1>e, <1>f, <1>s, MuxStillWindowed
<1>5. Mux!Attended(i)'
  BY <1>e, <1>f, <1>s, MuxStillAttended
<1>t. Mux!Typed'
  BY <1>e, <1>f, <1>h, <1>k DEF Mux!Typed
<1> QED BY <1>n, <1>o, <1>s, <1>1, <1>2, <1>3, <1>4, <1>5, <1>t, MuxOne


LEMMA MuxExitEnds ==
    ASSUME Mux!IInv, NEW i \in Flows, Mux!ExitEnds(i)
    PROVE  Mux!IInv'
<1>f. /\ Mux!Typed /\ Mux!Counted /\ Mux!Sound(i)
      /\ Mux!Continues(i) /\ Mux!Begun(i) /\ Mux!Complete(i) /\ Mux!Windowed(i) /\ Mux!Attended(i)
  BY MuxFacts
<1>e. /\ mEx[i] = "open"
      /\ UNCHANGED <<mScene, mApp, mKnown, mAnswer, mClosed, mEof, mRbuf, mGot,
                     mWriter, mWritten, mSent, mAcked, mConsumed, mAckedSent,
                     mTotalUp, mAckQ, mDead, mRaced, mUp, mCtl, mDials, mDst, mFed,
                     mOpens, mLosses>>
  BY DEF Mux!ExitEnds, Mux!CloseStream, Mux!countVars, Mux!clientVars, Mux!exitVars, Mux!wire
<1>c. /\ Mux!CloseStream(i)
      /\ mBulk' = [mBulk EXCEPT ![i] = Append(@, Mux!Frame("CLOSE", 0))]
  BY DEF Mux!ExitEnds, Mux!SendBulk
<1>b. /\ Mux!Incoming(mGot[i] \o mRbuf[i], mBulk[i], mDials[i], mFed[i])
      /\ Mux!Outgoing(mUp[i], mHeld[i], mDst[i], mDials[i], mWritten[i])
      /\ mEx[i] # "pending" => mHeld[i] = <<>>
  BY <1>f DEF Mux!Continues
<1>x. PICK x : x = [type |-> "CLOSE", val |-> 0]
  OBVIOUS
<1>y. x \in Mux!BulkFrames /\ x.type = "CLOSE"
  BY <1>x DEF Mux!BulkFrames
<1>k. mBulk' \in [Flows -> Seq(Mux!BulkFrames)] /\ mBulk'[i] = Append(mBulk[i], x) /\ \A j \in Flows : j # i => mBulk'[j] = mBulk[j]
  <2>1. mBulk \in [Flows -> Seq(Mux!BulkFrames)]
    BY <1>f DEF Mux!Typed
  <2>2. Append(mBulk[i], x) \in Seq(Mux!BulkFrames)
    BY <1>y, <2>1, MuxAppended
  <2>3. mBulk' = [mBulk EXCEPT ![i] = Append(@, x)]
    BY <1>c, <1>x DEF Mux!Frame
  <2> QED BY <2>1, <2>2, <2>3
<1>v. UNCHANGED <<mTotalUp, mAcked, mSent>>
  BY <1>e
<1>d. /\ Mux!Counted'
      /\ mExAcked' \in [Flows -> Nat] /\ mExSent' \in [Flows -> Nat]
      /\ mWrote' \in [Flows -> Nat] /\ mExAckedSent' \in [Flows -> Nat]
      /\ mEx' \in [Flows -> {"unknown", "pending", "open"}] /\ mHeld' \in [Flows -> Seq(Nat)]
      /\ mEx'[i] = "unknown" /\ mHeld'[i] = <<>> /\ mExSent'[i] = 0 /\ mExAcked'[i] = 0
      /\ \A j \in Flows : j # i =>
            /\ mEx'[j] = mEx[j] /\ mHeld'[j] = mHeld[j]
            /\ mExSent'[j] = mExSent[j] /\ mExAcked'[j] = mExAcked[j]
  BY <1>c, <1>v, MuxGone
<1>r. Mux!Incoming(mGot[i] \o mRbuf[i], mBulk'[i], mDials[i], mFed[i])
  <2>1. Mux!Incoming(mGot[i] \o mRbuf[i], Append(mBulk[i], x), mDials[i], mFed[i])
    BY <1>b, <1>x, MuxShut
  <2> QED BY <1>k, <2>1
<1>o. \A j \in Flows : j # i => MuxStays(j)
  BY <1>d, <1>e, <1>k DEF MuxStays, MuxSameIn, MuxSameOut, MuxSameLife, MuxSameCounts, MuxSameAcks, MuxSameEnd
<1>s. MuxSameLife(i) /\ MuxSameAcks(i) /\ MuxOnward
  BY <1>e DEF MuxSameLife, MuxSameAcks, MuxOnward
<1>n. Mux!Counted'
  BY <1>d
<1>1. Mux!Continues(i)'
  BY <1>b, <1>d, <1>e, <1>r DEF Mux!Continues
<1>2. Mux!Complete(i)'
  <2> SUFFICES ASSUME mLosses' = 0, mDials'[i] = 1
               PROVE  /\ Mux!Whole(mGot'[i] \o mRbuf'[i]) /\ Mux!Whole(mDst'[i])
                      /\ i \in mKnown' /\ ~mEof'[i] =>
                             Mux!Follows(mGot'[i] \o mRbuf'[i], mBulk'[i], mFed'[i], mEx'[i])
                      /\ mEx'[i] # "unknown" => Mux!Reaches(mUp'[i], mHeld'[i], mDst'[i], mWritten'[i])
    BY DEF Mux!Complete
  <2>1. /\ Mux!Whole(mGot[i] \o mRbuf[i]) /\ Mux!Whole(mDst[i])
        /\ i \in mKnown /\ ~mEof[i] => Mux!Follows(mGot[i] \o mRbuf[i], mBulk[i], mFed[i], mEx[i])
        /\ mEx[i] # "unknown" => Mux!Reaches(mUp[i], mHeld[i], mDst[i], mWritten[i])
    BY <1>e, <1>f DEF Mux!Complete
  <2>2. ASSUME i \in mKnown, ~mEof[i] PROVE Mux!Follows(mGot[i] \o mRbuf[i], Append(mBulk[i], x), mFed[i], "unknown")
    <3>1. mGot[i] \o mRbuf[i] \in Seq(Mux!Pairs) /\ mBulk[i] \in Seq(Mux!BulkFrames) /\ mFed[i] \in Nat
      BY <1>b DEF Mux!Incoming
    <3>2. Mux!Follows(mGot[i] \o mRbuf[i], mBulk[i], mFed[i], mEx[i]) /\ mEx[i] # "unknown"
      BY <1>e, <2>1, <2>2
    <3> QED BY <1>y, <3>1, <3>2, MuxGoesOn
  <2> QED BY <1>d, <1>e, <1>k, <2>1, <2>2
<1>3. Mux!Begun(i)'
  <2>1. mDials[i] # 0 /\ mApp[i] # "idle"
    BY <1>e, <1>f DEF Mux!Begun
  <2> QED BY <1>e, <2>1 DEF Mux!Begun
<1>4. Mux!Windowed(i)'
  <2>1. 0 - 0 <= PerFlow
    BY FlowsAssumption
  <2> QED BY <1>d, <1>e, <1>f, <2>1 DEF Mux!Windowed
<1>5. Mux!Attended(i)'
  BY <1>e, <1>f DEF Mux!Attended
<1>t. Mux!Typed'
  BY <1>d, <1>e, <1>f, <1>k DEF Mux!Typed
<1> QED BY <1>n, <1>o, <1>s, <1>1, <1>2, <1>3, <1>4, <1>5, <1>t, MuxOne

\* Steps of all streams at once.

LEMMA MuxSendsAcks == ASSUME Mux!IInv, Mux!SendAcks PROVE Mux!IInv'
<1>e. /\ UNCHANGED <<mScene, mApp, mKnown, mAnswer, mClosed, mEof, mRbuf, mGot,
                     mWriter, mWritten, mSent, mAcked, mConsumed, mAckedSent,
                     mTotalUp, mDead, mRaced, mCtl, mBulk, mEx, mDials, mHeld,
                     mDst, mFed, mExSent, mExAcked, mWrote, mExAckedSent, mInAll,
                     mLosses>>
      /\ mAckQ' = {}
  BY DEF Mux!SendAcks, Mux!exitVars
<1>c. mUp' = [j \in Flows |-> IF j \in mAckQ THEN Append(mUp[j], Mux!Frame("ACK", mAckedSent[j])) ELSE mUp[j]]
  BY DEF Mux!SendAcks
<1>f. Mux!Typed /\ Mux!Counted
  BY DEF Mux!IInv
<1>1. ASSUME NEW j \in Flows
      PROVE  Mux!Sound(j)' /\ mUp'[j] \in Seq(Mux!UpFrames)
  <2>f. Mux!Continues(j) /\ Mux!Begun(j) /\ Mux!Complete(j) /\ Mux!Windowed(j) /\ Mux!Attended(j)
    BY MuxFacts
  <2>1. mAckedSent[j] \in Nat /\ mUp[j] \in Seq(Mux!UpFrames)
    BY <1>f DEF Mux!Typed
  <2>2. PICK x : x = Mux!Frame("ACK", mAckedSent[j])
    OBVIOUS
  <2>3. x \in Mux!UpFrames /\ x.type # "DATA"
    BY <2>1, <2>2, MuxFrames
  <2>4. mUp'[j] = IF j \in mAckQ THEN Append(mUp[j], x) ELSE mUp[j]
    BY <1>c, <2>2
  <2>5. mUp'[j] \in Seq(Mux!UpFrames)
    BY <2>1, <2>3, <2>4, MuxAppended
  <2>6. Mux!Outgoing(mUp[j], mHeld[j], mDst[j], mDials[j], mWritten[j])
    BY <2>f DEF Mux!Continues
  <2>7. Mux!Outgoing(mUp'[j], mHeld[j], mDst[j], mDials[j], mWritten[j])
        /\ (Mux!Reaches(mUp[j], mHeld[j], mDst[j], mWritten[j]) => Mux!Reaches(mUp'[j], mHeld[j], mDst[j], mWritten[j]))
    BY <2>3, <2>4, <2>6, MuxSays
  <2>8. Mux!Continues(j)'
    BY <1>e, <2>f, <2>7 DEF Mux!Continues
  <2>9. Mux!Complete(j)'
    BY <1>e, <2>f, <2>7 DEF Mux!Complete
  <2>10. Mux!Begun(j)'
    <3>1. mGot'[j] \o mRbuf'[j] = mGot[j] \o mRbuf[j] /\ j \notin mAckQ'
      BY <1>e
    <3>2. mApp[j] = "idle" => mUp'[j] = <<>>
      BY <2>f, <2>4 DEF Mux!Begun
    <3> QED BY <1>e, <2>f, <3>1, <3>2 DEF Mux!Begun
  <2>11. Mux!Windowed(j)' /\ Mux!Attended(j)'
    <3>1. Mux!Windowed(j)'
      BY <1>e, <2>f DEF Mux!Windowed
    <3>2. Mux!Attended(j)'
      BY <1>e, <2>f DEF Mux!Attended
    <3> QED BY <3>1, <3>2
  <2> QED BY <2>5, <2>8, <2>9, <2>10, <2>11 DEF Mux!Sound
<1>2. mUp' \in [Flows -> Seq(Mux!UpFrames)]
  <2>1. DOMAIN mUp' = Flows /\ mUp' = [j \in Flows |-> mUp'[j]]
    BY <1>c
  <2> QED BY <1>1, <2>1
<1>3. Mux!Typed'
  BY <1>e, <1>f, <1>2 DEF Mux!Typed
<1>4. Mux!Counted'
  BY <1>e, <1>f, MuxStillCounted
<1> QED BY <1>1, <1>3, <1>4 DEF Mux!IInv

LEMMA MuxDies == ASSUME Mux!IInv, Mux!MuxEnds PROVE Mux!IInv'
<1>e. /\ UNCHANGED <<mScene, mApp, mRbuf, mGot,
                     mWriter, mWritten, mSent, mAcked, mConsumed, mAckedSent,
                     mTotalUp, mAckQ, mRaced, mUp, mCtl, mBulk, mEx, mDials, mHeld,
                     mDst, mFed, mExSent, mExAcked, mWrote, mExAckedSent, mInAll,
                     mLosses>>
      /\ mDead' /\ mKnown' = {}
  BY DEF Mux!MuxEnds, Mux!exitVars, Mux!wire, Mux!countVars
<1>c. /\ mClosed' = [j \in Flows |-> mClosed[j] \/ j \in mKnown]
      /\ mEof' = [j \in Flows |-> mEof[j] \/ j \in mKnown]
      /\ mAnswer' = [j \in Flows |-> IF j \in mKnown /\ mAnswer[j] = "none" THEN "ended" ELSE mAnswer[j]]
  BY DEF Mux!MuxEnds, Mux!Shutdown
<1>f. Mux!Typed /\ Mux!Counted
  BY DEF Mux!IInv
<1>1. ASSUME NEW j \in Flows PROVE Mux!Sound(j)'
  <2>f. Mux!Continues(j) /\ Mux!Begun(j) /\ Mux!Complete(j) /\ Mux!Windowed(j) /\ Mux!Attended(j)
    BY MuxFacts
  <2>1. MuxSameIn(j) /\ MuxSameOut(j) /\ MuxSameCounts(j) /\ mWriter'[j] = mWriter[j] /\ mLosses' = mLosses
    BY <1>e DEF MuxSameIn, MuxSameOut, MuxSameCounts
  <2>2. j \notin mKnown' /\ (mEof[j] => mEof'[j]) /\ (mAnswer[j] # "ok" => mAnswer'[j] # "ok")
    BY <1>c, <1>e
  <2>3. Mux!Continues(j)'
    BY <2>f, <2>1, MuxStillContinues
  <2>4. Mux!Complete(j)'
    BY <2>f, <2>1, <2>2, MuxStillComplete
  <2>5. Mux!Windowed(j)'
    BY <2>f, <2>1, MuxStillWindowed
  <2>6. Mux!Attended(j)'
    BY <1>e, <2>f DEF Mux!Attended
  <2>7. Mux!Begun(j)'
    <3>1. mGot'[j] \o mRbuf'[j] = mGot[j] \o mRbuf[j]
      BY <1>e
    <3> QED BY <1>e, <2>f, <2>2, <3>1 DEF Mux!Begun
  <2> QED BY <2>3, <2>4, <2>5, <2>6, <2>7 DEF Mux!Sound
<1>2. /\ mClosed' \in [Flows -> BOOLEAN] /\ mEof' \in [Flows -> BOOLEAN]
      /\ mAnswer' \in [Flows -> {"none", "ok", "refused", "ended"}]
  <2>1. /\ mClosed \in [Flows -> BOOLEAN] /\ mEof \in [Flows -> BOOLEAN]
        /\ mAnswer \in [Flows -> {"none", "ok", "refused", "ended"}]
    BY <1>f DEF Mux!Typed
  <2> QED BY <1>c, <2>1
<1>3. Mux!Typed'
  BY <1>e, <1>f, <1>2 DEF Mux!Typed
<1>4. Mux!Counted'
  BY <1>e, <1>f, MuxStillCounted
<1> QED BY <1>1, <1>3, <1>4 DEF Mux!IInv

\* What is lost leaves a hole, and nothing out of order.
LEMMA MuxReconnects == ASSUME Mux!IInv, Mux!Reconnect PROVE Mux!IInv'
<1>e. /\ UNCHANGED <<mScene, mApp, mKnown, mAnswer, mClosed, mEof, mRbuf, mGot,
                     mWriter, mWritten, mSent, mAcked, mConsumed, mAckedSent,
                     mTotalUp, mAckQ, mDead, mRaced, mEx, mDials, mHeld,
                     mDst, mFed, mExSent, mExAcked, mWrote, mExAckedSent, mInAll>>
      /\ mLosses' = mLosses + 1
  BY DEF Mux!Reconnect, Mux!clientVars, Mux!exitVars
<1>c. /\ mUp' = [j \in Flows |-> <<>>] /\ mCtl' = [j \in Flows |-> <<>>] /\ mBulk' = [j \in Flows |-> <<>>]
  BY DEF Mux!Reconnect, Mux!Each
<1>f. Mux!Typed /\ Mux!Counted
  BY DEF Mux!IInv
<1>l. mLosses' \in Nat /\ mLosses' # 0
  <2>1. mLosses \in Nat
    BY <1>f DEF Mux!Typed
  <2> QED BY <1>e, <2>1
<1>1. ASSUME NEW j \in Flows PROVE Mux!Sound(j)'
  <2>f. Mux!Continues(j) /\ Mux!Begun(j) /\ Mux!Complete(j) /\ Mux!Windowed(j) /\ Mux!Attended(j)
    BY MuxFacts
  <2>1. mUp'[j] = <<>> /\ mCtl'[j] = <<>> /\ mBulk'[j] = <<>>
    BY <1>c
  <2>2. /\ Mux!Incoming(mGot[j] \o mRbuf[j], mBulk[j], mDials[j], mFed[j])
        /\ Mux!Outgoing(mUp[j], mHeld[j], mDst[j], mDials[j], mWritten[j])
        /\ mEx[j] # "pending" => mHeld[j] = <<>>
    BY <2>f DEF Mux!Continues
  <2>3. /\ Mux!Incoming(mGot[j] \o mRbuf[j], <<>>, mDials[j], mFed[j])
        /\ Mux!Outgoing(<<>>, mHeld[j], mDst[j], mDials[j], mWritten[j])
    BY <2>2, MuxInLost, MuxOutLost
  <2>4. Mux!Continues(j)'
    BY <1>e, <2>1, <2>2, <2>3 DEF Mux!Continues
  <2>5. Mux!Complete(j)'
    BY <1>l DEF Mux!Complete
  <2>6. Mux!Begun(j)'
    <3>1. mGot'[j] \o mRbuf'[j] = mGot[j] \o mRbuf[j]
      BY <1>e
    <3> QED BY <1>e, <2>f, <2>1, <3>1 DEF Mux!Begun
  <2>7. Mux!Windowed(j)'
    BY <1>e, <2>f DEF Mux!Windowed
  <2>8. Mux!Attended(j)'
    BY <1>e, <2>f DEF Mux!Attended
  <2> QED BY <2>4, <2>5, <2>6, <2>7, <2>8 DEF Mux!Sound
<1>2. /\ mUp' \in [Flows -> Seq(Mux!UpFrames)] /\ mCtl' \in [Flows -> Seq(Mux!CtlFrames)]
      /\ mBulk' \in [Flows -> Seq(Mux!BulkFrames)]
  <2>1. <<>> \in Seq(Mux!UpFrames) /\ <<>> \in Seq(Mux!CtlFrames) /\ <<>> \in Seq(Mux!BulkFrames)
    OBVIOUS
  <2> QED BY <1>c, <2>1
<1>3. Mux!Typed'
  BY <1>e, <1>f, <1>l, <1>2 DEF Mux!Typed
<1>4. Mux!Counted'
  BY <1>e, <1>f, MuxStillCounted
<1> QED BY <1>1, <1>3, <1>4 DEF Mux!IInv

\* The whole.

LEMMA MuxInit == Mux!Init => Mux!IInv
<1> SUFFICES ASSUME Mux!Init PROVE Mux!IInv
  OBVIOUS
<1>a. /\ mApp = [j \in Flows |-> "idle"] /\ mKnown = {} /\ mAnswer = [j \in Flows |-> "none"]
      /\ mWriter = [j \in Flows |-> "none"] /\ mWritten = [j \in Flows |-> 0]
      /\ mConsumed = [j \in Flows |-> 0] /\ mAckedSent = [j \in Flows |-> 0]
      /\ mTotalUp = 0 /\ mAckQ = {}
  BY DEF Mux!Init, Mux!Each
<1>b. /\ mClosed = [j \in Flows |-> FALSE] /\ mEof = [j \in Flows |-> FALSE]
      /\ mRbuf = [j \in Flows |-> <<>>] /\ mGot = [j \in Flows |-> <<>>]
      /\ mUp = [j \in Flows |-> <<>>] /\ mCtl = [j \in Flows |-> <<>>] /\ mBulk = [j \in Flows |-> <<>>]
      /\ mHeld = [j \in Flows |-> <<>>] /\ mDst = [j \in Flows |-> <<>>]
  BY DEF Mux!Init, Mux!Each
<1>c. /\ mSent = [j \in Flows |-> 0] /\ mAcked = [j \in Flows |-> 0]
      /\ mExSent = [j \in Flows |-> 0] /\ mExAcked = [j \in Flows |-> 0]
      /\ mInAll = 0 /\ mLosses = 0
      /\ mEx = [j \in Flows |-> "unknown"] /\ mDials = [j \in Flows |-> 0] /\ mFed = [j \in Flows |-> 0]
      /\ mWrote = [j \in Flows |-> 0] /\ mExAckedSent = [j \in Flows |-> 0]
  BY DEF Mux!Init, Mux!Each
<1>1. /\ mGot \in [Flows -> Seq(Mux!Pairs)] /\ mRbuf \in [Flows -> Seq(Mux!Pairs)]
      /\ mUp \in [Flows -> Seq(Mux!UpFrames)] /\ mCtl \in [Flows -> Seq(Mux!CtlFrames)]
      /\ mBulk \in [Flows -> Seq(Mux!BulkFrames)] /\ mHeld \in [Flows -> Seq(Nat)]
      /\ mDst \in [Flows -> Seq(Mux!Pairs)]
  <2>1. /\ <<>> \in Seq(Mux!Pairs) /\ <<>> \in Seq(Mux!UpFrames) /\ <<>> \in Seq(Mux!CtlFrames)
        /\ <<>> \in Seq(Mux!BulkFrames) /\ <<>> \in Seq(Nat)
    OBVIOUS
  <2> QED BY <1>b, <2>1
<1>2. Mux!Typed
  <2>1. mClosed \in [Flows -> BOOLEAN] /\ mEof \in [Flows -> BOOLEAN]
    BY <1>b
  <2>2. 0 \in Nat
    OBVIOUS
  <2> QED BY <1>1, <1>a, <1>c, <2>1, <2>2 DEF Mux!Typed
<1>3. Mux!Counted
  <2>1. PICK z : z = [j \in Flows |-> 0]
    OBVIOUS
  <2>2. Mux!UnderWay(Flows, z, z) = {}
    <3>1. \A j \in Flows : (z[j] + 1)..z[j] = {}
      BY <2>1
    <3> QED BY <3>1 DEF Mux!UnderWay
  <2>3. Mux!Cardinality(Mux!UnderWay(Flows, z, z)) = 0
    <3>1. Cardinality({}) = 0
      BY FS_EmptySet
    <3> QED BY <2>2, <3>1, MuxSizes
  <2>4. mTotalUp = Mux!Cardinality(Mux!UnderWay(Flows, mAcked, mSent))
    BY <1>a, <1>c, <2>1, <2>3
  <2>5. mInAll = Mux!Cardinality(Mux!UnderWay(Flows, mExAcked, mExSent))
    BY <1>c, <2>1, <2>3
  <2> QED BY <2>4, <2>5 DEF Mux!Counted
<1>4. ASSUME NEW j \in Flows PROVE Mux!Sound(j)
  <2>1. PICK s : s = <<>>
    OBVIOUS
  <2>2. /\ mGot[j] \o mRbuf[j] = s /\ mBulk[j] = s /\ mUp[j] = s /\ mCtl[j] = s /\ mHeld[j] = s /\ mDst[j] = s
    BY <1>b, <2>1
  <2>3. /\ s \in Seq(Mux!Pairs) /\ s \in Seq(Mux!UpFrames) /\ s \in Seq(Mux!BulkFrames) /\ s \in Seq(Nat)
        /\ Len(s) = 0
    BY <2>1
  <2>4. \A k \in 1..Len(s) : FALSE
    BY <2>3
  <2>5. mDials[j] = 0 /\ mFed[j] = 0 /\ mWritten[j] = 0 /\ 0 \in Nat
    BY <1>a, <1>c
  <2>6. Mux!Incoming(s, s, 0, 0)
    BY <2>3, <2>4 DEF Mux!Incoming, Mux!Rising
  <2>7. Mux!Outgoing(s, s, s, 0, 0)
    BY <2>3, <2>4 DEF Mux!Outgoing, Mux!Rising
  <2>8. Mux!Continues(j)
    BY <2>1, <2>2, <2>5, <2>6, <2>7 DEF Mux!Continues
  <2>9. Mux!Complete(j)
    BY <2>5 DEF Mux!Complete
  <2>10. Mux!Begun(j)
    BY <1>a, <1>c, <2>1, <2>2, <2>5 DEF Mux!Begun
  <2>11. Mux!Windowed(j)
    <3>1. 0 - 0 <= PerFlow /\ 0 <= 0
      BY FlowsAssumption
    <3>2. mSent[j] = 0 /\ mAcked[j] = 0 /\ mExSent[j] = 0 /\ mExAcked[j] = 0 /\ mWriter[j] = "none"
      BY <1>a, <1>c
    <3> QED BY <3>1, <3>2 DEF Mux!Windowed
  <2>12. Mux!Attended(j)
    BY <1>a, <1>c DEF Mux!Attended
  <2> QED BY <2>8, <2>9, <2>10, <2>11, <2>12 DEF Mux!Sound
<1> QED BY <1>2, <1>3, <1>4 DEF Mux!IInv

LEMMA MuxReceives == ASSUME Mux!IInv, NEW i \in Flows, Mux!ExitReceives(i) PROVE Mux!IInv'
<1>1. /\ mUp[i] # <<>> /\ UNCHANGED <<Mux!clientVars, mLosses>>
      /\ \/ Head(mUp[i]).type = "OPEN" /\ Mux!ExitOpen(i)
         \/ Head(mUp[i]).type = "DATA" /\ Mux!ExitData(i, Head(mUp[i]).val)
         \/ Head(mUp[i]).type = "ACK" /\ Mux!ExitAck(i, Head(mUp[i]).val)
         \/ Head(mUp[i]).type = "CLOSE" /\ Mux!ExitClose(i)
  BY DEF Mux!ExitReceives
<1>2. mUp' = [mUp EXCEPT ![i] = Tail(mUp[i])]
  BY DEF Mux!ExitReceives
<1>3. PICK v : v = Head(mUp[i]).val
  OBVIOUS
<1>4. CASE Head(mUp[i]).type = "OPEN" /\ Mux!ExitOpen(i)
  BY <1>1, <1>2, <1>4, MuxExitOpen
<1>5. CASE Head(mUp[i]).type = "DATA" /\ Mux!ExitData(i, v)
  BY <1>1, <1>2, <1>3, <1>5, MuxExitData
<1>6. CASE Head(mUp[i]).type = "ACK" /\ Mux!ExitAck(i, v)
  BY <1>1, <1>2, <1>3, <1>6, MuxExitAck
<1>7. CASE Head(mUp[i]).type = "CLOSE" /\ Mux!ExitClose(i)
  BY <1>1, <1>2, <1>7, MuxExitClose
<1> QED BY <1>1, <1>3, <1>4, <1>5, <1>6, <1>7

LEMMA MuxStep == ASSUME Mux!IInv, Mux!Next PROVE Mux!IInv'
<1>1. ASSUME NEW i \in Flows, Mux!Caller(i) PROVE Mux!IInv'
  <2>1. CASE Mux!DialReturns(i)
    <3>1. CASE mAnswer[i] = "ok"
      BY <2>1, <3>1, MuxOpened
    <3>2. CASE mAnswer[i] # "ok"
      BY <2>1, <3>2, MuxRefused
    <3> QED BY <3>1, <3>2
  <2> QED BY <1>1, <2>1, MuxDial, MuxOpenAgain, MuxGivesUp, MuxReads, MuxCloses, MuxCloseEnds DEF Mux!Caller
<1>2. ASSUME NEW i \in Flows, Mux!Writer(i) PROVE Mux!IInv'
  BY <1>2, MuxWrite, MuxWindowOpens, MuxStalled, MuxWriteFails, MuxSendsData, MuxCountSent DEF Mux!Writer
<1>3. ASSUME NEW i \in Flows, Mux!Exit(i) PROVE Mux!IInv'
  BY <1>3, MuxReceives, MuxDialled, MuxDeclined, MuxAnswers, MuxExitStalls, MuxFlushes, MuxExitEnds DEF Mux!Exit
<1> QED BY <1>1, <1>2, <1>3, MuxControl, MuxBulk, MuxSendsAcks, MuxDies, MuxReconnects DEF Mux!Next

LEMMA MuxRests == ASSUME Mux!IInv, UNCHANGED muxVars PROVE Mux!IInv'
<1>e. UNCHANGED <<mScene, mApp, mKnown, mAnswer, mClosed, mEof, mRbuf, mGot,
                     mWriter, mWritten, mSent, mAcked, mConsumed, mAckedSent,
                     mTotalUp, mAckQ, mDead, mRaced, mUp, mCtl, mBulk, mEx, mDials, mHeld,
                     mDst, mFed, mExSent, mExAcked, mWrote, mExAckedSent, mInAll,
                     mLosses>>
  BY DEF muxVars
<1>f. Mux!Typed /\ Mux!Counted
  BY DEF Mux!IInv
<1>1. ASSUME NEW j \in Flows PROVE Mux!Sound(j)'
  <2>1. MuxStays(j) /\ MuxOnward
    BY <1>e DEF MuxStays, MuxSameIn, MuxSameOut, MuxSameLife, MuxSameCounts, MuxSameAcks, MuxSameEnd, MuxOnward
  <2>2. Mux!Sound(j)
    BY DEF Mux!IInv
  <2> QED BY <2>1, <2>2, MuxOthers
<1>2. Mux!Typed'
  BY <1>e, <1>f DEF Mux!Typed
<1>3. Mux!Counted'
  BY <1>e, <1>f, MuxStillCounted
<1> QED BY <1>1, <1>2, <1>3 DEF Mux!IInv

LEMMA MuxPromise == ASSUME Mux!IInv PROVE Mux!TypeOK /\ Mux!StreamsWhole /\ Mux!WindowsKept
<1>f. Mux!Typed /\ Mux!Counted
  BY DEF Mux!IInv
<1>s. \A j \in Flows : Mux!Continues(j) /\ Mux!Complete(j) /\ Mux!Windowed(j) /\ Mux!Attended(j)
  BY DEF Mux!IInv, Mux!Sound
<1>1. mAcked \in [Flows -> Nat] /\ mSent \in [Flows -> Nat] /\ mExAcked \in [Flows -> Nat] /\ mExSent \in [Flows -> Nat]
      /\ mKnown \in SUBSET Flows
  BY <1>f DEF Mux!Typed
<1>2. /\ mTotalUp = Mux!Cardinality(Mux!UnderWay(Flows, mAcked, mSent))
      /\ mInAll = Mux!Cardinality(Mux!UnderWay(Flows, mExAcked, mExSent))
  BY <1>f DEF Mux!Counted
<1>3. mTotalUp \in Nat /\ mInAll \in Nat
  BY <1>1, <1>2, MuxFinite, MuxSizes, FlowsAssumption
<1>4. Mux!TypeOK
  BY <1>3, <1>f DEF Mux!TypeOK, Mux!Typed
<1>5. Mux!StreamsWhole
  <2>1. ASSUME NEW j \in Flows
        PROVE  /\ Mux!Rising(mGot[j] \o mRbuf[j]) /\ Mux!Rising(mDst[j])
               /\ mLosses = 0 /\ mDials[j] = 1 => Mux!Whole(mGot[j] \o mRbuf[j]) /\ Mux!Whole(mDst[j])
    <3>1. Mux!Incoming(mGot[j] \o mRbuf[j], mBulk[j], mDials[j], mFed[j])
          /\ Mux!Outgoing(mUp[j], mHeld[j], mDst[j], mDials[j], mWritten[j])
      BY <1>s DEF Mux!Continues
    <3>2. Mux!Rising(mGot[j] \o mRbuf[j]) /\ Mux!Rising(mDst[j])
      BY <3>1 DEF Mux!Incoming, Mux!Outgoing
    <3>3. mLosses = 0 /\ mDials[j] = 1 => Mux!Whole(mGot[j] \o mRbuf[j]) /\ Mux!Whole(mDst[j])
      BY <1>s DEF Mux!Complete
    <3> QED BY <3>2, <3>3
  <2> QED BY <2>1 DEF Mux!StreamsWhole
<1>6. Mux!WindowsKept
  <2>1. \A j \in Flows : mSent[j] - mAcked[j] <= PerFlow /\ mExSent[j] - mExAcked[j] <= PerFlow
    BY <1>s DEF Mux!Windowed
  <2>2. ASSUME ~mRaced, ~mDead PROVE mTotalUp = Mux!Cardinality(Mux!UnderWay(mKnown, mAcked, mSent))
    <3>1. \A j \in Flows : (j \in mKnown /\ mAcked[j] = mAcked[j] /\ mSent[j] = mSent[j])
                         \/ (mAcked[j] = mSent[j] /\ (j \in mKnown => mAcked[j] = mSent[j]))
      BY <1>s, <2>2 DEF Mux!Attended
    <3>2. mAcked \in [Flows -> Nat]
      BY <1>1
    <3>3. mSent \in [Flows -> Nat]
      BY <1>1
    <3>4. mKnown \in SUBSET Flows
      BY <1>1
    <3>5. Mux!UnderWay(mKnown, mAcked, mSent) = Mux!UnderWay(Flows, mAcked, mSent)
      BY <3>1, <3>2, <3>3, <3>4, MuxHolds
    <3> QED BY <1>2, <3>5
  <2> QED BY <1>2, <2>1, <2>2 DEF Mux!WindowsKept, Mux!InFlight, Mux!ExitInFlight
<1> QED BY <1>4, <1>5, <1>6

-----------------------------------------------------------------------------
\* The locations of the subscription service (SubChannels)

CONSTANTS
    \* of SubChannels: its Configs, Channels, Types, Apps, Owner, SelfMade and bounds
    Layouts, Named, Wires, Devices, Holder, Roomy, MaxLooks, MaxWritings,
    MaxLeft

\* Pools are of known transports; a location is numbered.
ASSUME LinksAssumption ==
    /\ Holder \in Named /\ Devices \subseteq SUBSET Wires /\ {"cupsonline", "avito"} \subseteq Wires
    /\ \A c \in Layouts :
        /\ Nothing \notin DOMAIN c
        /\ \A i \in DOMAIN c : \A j \in DOMAIN c[i].transports : c[i].transports[j].type \in Wires
    /\ MaxLooks \in Nat /\ MaxLeft \in Nat

VARIABLES
    cPools, cFiles, cCache, cAsks, cCacheLock, cWatchLock, cBusy, cAgain,
    cMakers, cGiven, cStale, cFaults

linksVars ==
    <<cPools, cFiles, cCache, cAsks, cCacheLock, cWatchLock, cBusy, cAgain,
    cMakers, cGiven, cStale, cFaults>>

Links == INSTANCE SubChannels WITH
    pools <- cPools, files <- cFiles, cache <- cCache, asks <- cAsks,
    cacheLock <- cCacheLock, watchLock <- cWatchLock, busy <- cBusy,
    again <- cAgain, makers <- cMakers, given <- cGiven, stale <- cStale,
    faults <- cFaults, Configs <- Layouts, Channels <- Named, Types <- Wires,
    Apps <- Devices, Owner <- Holder, SelfMade <- Roomy, MaxAsks <- MaxLooks,
    MaxStamp <- MaxWritings, MaxFaults <- MaxLeft,
    None <- Nothing

LEMMA LinksSizes ==
    \A S : (Links!IsFiniteSet(S) <=> IsFiniteSet(S)) /\ Links!Cardinality(S) = Cardinality(S)
BY DEF Links!IsFiniteSet, IsFiniteSet, Links!Cardinality, Cardinality

\* One call becomes at most one.
LEMMA LinksBecomes ==
    ASSUME NEW S, Links!IsFiniteSet(S), Links!Cardinality(S) <= MaxLooks,
           NEW a \in S, NEW b, NEW T, T = S \ {a} \/ T = (S \ {a}) \cup {b}
    PROVE  Links!IsFiniteSet(T) /\ Links!Cardinality(T) <= MaxLooks
<1>1. IsFiniteSet(S) /\ Cardinality(S) <= MaxLooks /\ Cardinality(S) \in Nat
  BY LinksSizes, FS_CardinalityType
<1>2. IsFiniteSet(S \ {a}) /\ Cardinality(S \ {a}) = Cardinality(S) - 1
  BY <1>1, FS_RemoveElement
<1>3. /\ IsFiniteSet((S \ {a}) \cup {b})
      /\ \/ Cardinality((S \ {a}) \cup {b}) = Cardinality(S \ {a})
         \/ Cardinality((S \ {a}) \cup {b}) = Cardinality(S \ {a}) + 1
  BY <1>2, FS_AddElement
<1>4. MaxLooks \in Nat
  BY LinksAssumption
<1>5. CASE T = S \ {a}
  <2>1. IsFiniteSet(T) /\ Cardinality(T) = Cardinality(S) - 1
    BY <1>2, <1>5
  <2> QED BY <1>1, <1>4, <2>1, LinksSizes
<1>6. CASE T = (S \ {a}) \cup {b}
  <2>1. IsFiniteSet(T) /\ (Cardinality(T) = Cardinality(S) - 1 \/ Cardinality(T) = Cardinality(S) - 1 + 1)
    BY <1>2, <1>3, <1>6
  <2> QED BY <1>1, <1>4, <2>1, LinksSizes
<1> QED BY <1>5, <1>6

\* A new call finds room.
LEMMA LinksAdds ==
    ASSUME NEW S, Links!IsFiniteSet(S), Links!Cardinality(S) < MaxLooks, NEW b
    PROVE  Links!IsFiniteSet(S \cup {b}) /\ Links!Cardinality(S \cup {b}) <= MaxLooks
<1>1. IsFiniteSet(S) /\ Cardinality(S) < MaxLooks /\ Cardinality(S) \in Nat /\ MaxLooks \in Nat
  BY LinksSizes, FS_CardinalityType, LinksAssumption
<1>2. IsFiniteSet(S \cup {b}) /\ (Cardinality(S \cup {b}) = Cardinality(S) \/ Cardinality(S \cup {b}) = Cardinality(S) + 1)
  BY <1>1, FS_AddElement
<1> QED BY <1>1, <1>2, LinksSizes

\* A pool is one channel's, or the owner's personal one.
LEMMA LinksChannel ==
    ASSUME Links!Shape, NEW i \in DOMAIN cPools
    PROVE  Links!ChannelOf(cPools[i]) \in Named /\ i # Nothing
<1>1. Links!PoolChecked(cPools[i]) /\ cPools \in Layouts
  BY DEF Links!Shape, Links!Checked
<1> QED BY <1>1, LinksAssumption DEF Links!PoolChecked, Links!ChannelOf

LEMMA LinksAsked ==
    ASSUME Links!Shape, NEW a \in cAsks
    PROVE  Links!ChannelAsked(a) \in Named /\ a.pool # Nothing /\ a \in Links!Calls /\ a.pool \in DOMAIN cPools
<1>1. a \in Links!Calls
  BY DEF Links!Shape
<1>2. a.pool \in DOMAIN cPools
  BY <1>1 DEF Links!Calls
<1> QED BY <1>1, <1>2, LinksChannel DEF Links!ChannelAsked

LEMMA LinksInit == Links!Init => Links!IInv
<1> SUFFICES ASSUME Links!Init PROVE Links!IInv
  OBVIOUS
<1>a. /\ cPools \in {c \in Layouts : Links!Checked(c)}
      /\ cFiles = [ch \in Named |-> Links!NoFiles] /\ cCache = [ch \in Named |-> Nothing]
      /\ cAsks = {} /\ cWatchLock = Nothing /\ cBusy = {} /\ cAgain = {} /\ cMakers = {}
      /\ cGiven = [ch \in Named |-> Nothing] /\ cStale = FALSE /\ cFaults = 0
  BY DEF Links!Init
<1>1. Links!NoFiles \in [conf : Nat, key : Nat, types : SUBSET Wires, stamp : Nat]
      /\ Links!NoFiles.conf = 0 /\ Links!NoFiles.key = 0 /\ Links!NoFiles.stamp = 0
  BY DEF Links!NoFiles
<1>2. Links!IsFiniteSet({}) /\ Links!Cardinality({}) = 0
  BY LinksSizes, FS_EmptySet
<1>3. Links!Shape
  BY <1>a, <1>1, <1>2, LinksAssumption DEF Links!Shape
<1>4. Links!Numbered
  BY <1>a, <1>1 DEF Links!Numbered
<1>5. Links!Seen /\ Links!Cached /\ Links!Handed /\ Links!OneStarts /\ Links!OneMaker /\ Links!LinksFresh
  BY <1>a DEF Links!Seen, Links!Cached, Links!Handed, Links!OneStarts, Links!OneMaker, Links!LinksFresh
<1> QED BY <1>3, <1>4, <1>5 DEF Links!IInv

\* While the files, the cache and what was given stay.
LEMMA LinksCarries ==
    ASSUME Links!IInv, cFiles' = cFiles, cCache' = cCache, cGiven' = cGiven, cStale' = cStale
    PROVE  Links!Numbered' /\ Links!Cached' /\ Links!Handed' /\ Links!LinksFresh'
<1>1. Links!Numbered' /\ Links!LinksFresh'
  BY DEF Links!IInv, Links!Numbered, Links!LinksFresh
<1>2. Links!Cached'
  BY DEF Links!IInv, Links!Cached, Links!Fits, Links!Current
<1>3. Links!Handed'
  BY DEF Links!IInv, Links!Handed
<1> QED BY <1>1, <1>2, <1>3

\* While the files stay and of the calls only one is new.
LEMMA LinksSees ==
    ASSUME Links!IInv, cFiles' = cFiles, cPools' = cPools,
           NEW b, cAsks' \subseteq cAsks \cup {b}, Links!SeenBy(b)
    PROVE  Links!Seen'
BY DEF Links!IInv, Links!Seen, Links!SeenBy, Links!ChannelAsked

\* While the lock and the creations stay: a call that was not of start stays one.
LEMMA LinksStarts ==
    ASSUME Links!IInv, cPools' = cPools, cWatchLock' = cWatchLock, cBusy' \subseteq cBusy,
           NEW a \in cAsks, NEW b, cAsks' \subseteq (cAsks \ {a}) \cup {b}, b.pool = a.pool,
           Links!Starting(b) => Links!Starting(a)
    PROVE  Links!OneStarts'
<1>1. /\ \A c, d \in cAsks : Links!Starting(c) /\ Links!Starting(d) => c = d
      /\ \A c \in cAsks : Links!Starting(c) => cWatchLock # Nothing /\ Links!ChannelAsked(c) \notin cBusy
  BY DEF Links!IInv, Links!OneStarts
<1>2. \A c, d \in cAsks' : Links!Starting(c) /\ Links!Starting(d) => c = d
  BY <1>1
<1>3. \A c \in cAsks' : Links!Starting(c) => cWatchLock' # Nothing /\ Links!ChannelAsked(c) \notin cBusy
  BY <1>1 DEF Links!ChannelAsked
<1>4. \A c \in cAsks' : Links!ChannelAsked(c)' = Links!ChannelAsked(c)
  BY DEF Links!ChannelAsked, Links!ChannelOf
<1> QED BY <1>2, <1>3, <1>4 DEF Links!OneStarts, Links!Starting, Links!ChannelAsked

\* The call of start that looks goes: nobody looks.
LEMMA LinksNobody ==
    ASSUME Links!IInv, NEW a \in cAsks, Links!Starting(a), cAsks' \subseteq cAsks \ {a}
    PROVE  Links!OneStarts'
BY DEF Links!IInv, Links!OneStarts, Links!Starting

\* A writing of a channel's files: what it leaves of each is what was there, nothing, or
\* a number no writing had.
LEMMA LinksWrites ==
    ASSUME Links!IInv, NEW ch \in Named,
           NEW g \in [conf : Nat, key : Nat, types : SUBSET Wires, stamp : Nat],
           cFiles' = [cFiles EXCEPT ![ch] = g],
           g.stamp >= cFiles[ch].stamp, g.conf <= g.stamp, g.key <= g.stamp,
           g.conf > cFiles[ch].stamp \/ g.conf = 0 \/ (g.conf = cFiles[ch].conf /\ g.types = cFiles[ch].types),
           g.key > cFiles[ch].stamp \/ g.key = 0 \/ g.key = cFiles[ch].key,
           cPools' = cPools, cAsks' = cAsks, cCache' = cCache, cGiven' = cGiven, cStale' = cStale
    PROVE  Links!Numbered' /\ Links!Seen' /\ Links!Cached' /\ Links!Handed' /\ Links!LinksFresh'
<1>a. /\ cFiles \in [Named -> [conf : Nat, key : Nat, types : SUBSET Wires, stamp : Nat]]
      /\ cCache \in [Named -> {Nothing} \cup [conf : Nat, key : Nat, info : Links!Infos]]
      /\ cAsks \subseteq Links!Calls
      /\ cGiven \in [Named -> {Nothing} \cup [conf : Nat, key : Nat, types : SUBSET Wires, context : SUBSET Wires]]
  BY DEF Links!IInv, Links!Shape
<1>b. cFiles'[ch] = g /\ \A c \in Named : c # ch => cFiles'[c] = cFiles[c]
  BY <1>a
<1>1. Links!Numbered'
  BY <1>b DEF Links!IInv, Links!Numbered
<1>2. ASSUME NEW a \in cAsks
      PROVE  Links!SeenBy(a)'
  <2>1. Links!ChannelAsked(a) \in Named /\ a \in Links!Calls /\ Links!ChannelAsked(a)' = Links!ChannelAsked(a)
    BY LinksAsked DEF Links!IInv, Links!ChannelAsked
  <2>2. Links!SeenBy(a)
    BY DEF Links!IInv, Links!Seen
  <2>3. CASE Links!ChannelAsked(a) # ch
    BY <1>b, <2>1, <2>2, <2>3 DEF Links!SeenBy
  <2>4. CASE Links!ChannelAsked(a) = ch
    <3>1. PICK f \in [conf : Nat, key : Nat, types : SUBSET Wires, stamp : Nat] : f = cFiles[ch]
      BY <1>a
    <3>2. a.conf \in Nat /\ a.key \in Nat /\ a.got \in Nat
      BY <2>1 DEF Links!Calls
    <3>3. /\ a.step \in {"key", "lock", "read"} => a.conf \in 1..f.stamp
          /\ a.step \in {"lock", "read"} => a.key \in 1..f.stamp /\ (f.key # 0 => a.key <= f.key)
          /\ a.step # "read" => a.got = 0
          /\ a.got # 0 => a.key <= a.got /\ a.got <= f.stamp /\ (f.key # 0 => a.got <= f.key)
      BY <2>2, <2>4, <3>1 DEF Links!SeenBy
    <3>4. /\ a.step \in {"key", "lock", "read"} => a.conf \in 1..g.stamp
          /\ a.step \in {"lock", "read"} => a.key \in 1..g.stamp /\ (g.key # 0 => a.key <= g.key)
          /\ a.got # 0 => a.key <= a.got /\ a.got <= g.stamp /\ (g.key # 0 => a.got <= g.key)
      BY <3>1, <3>2, <3>3
    <3> QED BY <1>b, <2>1, <2>4, <3>3, <3>4 DEF Links!SeenBy
  <2> QED BY <2>3, <2>4
<1>3. ASSUME NEW c \in Named, cCache[c] # Nothing
      PROVE  Links!Fits(cCache[c], c)'
  <2>1. Links!Fits(cCache[c], c)
    BY <1>3 DEF Links!IInv, Links!Cached
  <2>2. CASE c # ch
    BY <1>b, <2>1, <2>2 DEF Links!Fits, Links!Current
  <2>3. CASE c = ch
    <3>1. PICK e \in [conf : Nat, key : Nat, info : Links!Infos] : e = cCache[c]
      BY <1>a, <1>3
    <3>2. PICK f \in [conf : Nat, key : Nat, types : SUBSET Wires, stamp : Nat] : f = cFiles[ch]
      BY <1>a
    <3>3. e.info.conf \in Nat /\ e.conf \in Nat /\ e.key \in Nat
      BY <3>1 DEF Links!Infos
    <3>4. /\ e.conf \in 1..f.stamp /\ e.key \in 1..f.stamp /\ e.info.conf \in 1..f.stamp
          /\ e.conf = f.conf /\ e.key = f.key => e.info = [conf |-> f.conf, key |-> f.key, types |-> f.types]
          /\ e.info.conf = f.conf => e.info.types = f.types
      BY <2>1, <2>3, <3>1, <3>2 DEF Links!Fits, Links!Current
    <3>5. /\ e.conf \in 1..g.stamp /\ e.key \in 1..g.stamp /\ e.info.conf \in 1..g.stamp
          /\ e.conf = g.conf /\ e.key = g.key => g.conf = f.conf /\ g.key = f.key /\ g.types = f.types
          /\ e.info.conf = g.conf => g.conf = f.conf /\ g.types = f.types
      BY <3>2, <3>3, <3>4
    <3> QED BY <1>b, <2>3, <3>1, <3>4, <3>5 DEF Links!Fits, Links!Current
  <2> QED BY <2>2, <2>3
<1>4. ASSUME NEW c \in Named, cGiven[c] # Nothing
      PROVE  cGiven[c].conf \in 1..cFiles'[c].stamp /\ (cGiven[c].conf = cFiles'[c].conf => cGiven[c].context = cFiles'[c].types)
  <2>1. cGiven[c].conf \in 1..cFiles[c].stamp /\ (cGiven[c].conf = cFiles[c].conf => cGiven[c].context = cFiles[c].types)
    BY <1>4 DEF Links!IInv, Links!Handed
  <2>2. cFiles[c].stamp \in Nat /\ cFiles[c].conf \in Nat
    BY <1>a
  <2>3. PICK v \in Nat : v = cGiven[c].conf
    BY <2>1
  <2>4. CASE c # ch
    BY <1>b, <2>1, <2>4
  <2>5. CASE c = ch
    <3>1. v \in 1..g.stamp /\ (v = g.conf => g.conf = cFiles[ch].conf /\ g.types = cFiles[ch].types)
      BY <2>1, <2>2, <2>3, <2>5
    <3> QED BY <1>b, <2>1, <2>3, <2>5, <3>1
  <2> QED BY <2>4, <2>5
<1>5. Links!LinksFresh'
  BY DEF Links!IInv, Links!LinksFresh
<1> QED BY <1>1, <1>2, <1>3, <1>4, <1>5 DEF Links!Seen, Links!Cached, Links!Handed

\* A link is handed over that is of what the files held.
LEMMA LinksAnswers ==
    ASSUME Links!IInv, NEW a \in cAsks, NEW info \in Links!Infos, Links!Answered(a, info),
           a.step \in {"lock", "read"}, cPools' = cPools, cFiles' = cFiles, cBusy' = cBusy,
           info.conf \in 1..cFiles[Links!ChannelAsked(a)].stamp,
           info.conf = cFiles[Links!ChannelAsked(a)].conf => info.types = cFiles[Links!ChannelAsked(a)].types,
           a.conf = cFiles[Links!ChannelAsked(a)].conf /\ a.key = cFiles[Links!ChannelAsked(a)].key
               => info = Links!Current(Links!ChannelAsked(a))
    PROVE  /\ cAsks' = cAsks \ {a} /\ Links!Seen' /\ Links!Handed' /\ Links!OneStarts' /\ Links!LinksFresh'
           /\ cGiven' \in [Named -> {Nothing} \cup [conf : Nat, key : Nat, types : SUBSET Wires, context : SUBSET Wires]]
<1>a. /\ cGiven \in [Named -> {Nothing} \cup [conf : Nat, key : Nat, types : SUBSET Wires, context : SUBSET Wires]]
      /\ Links!ChannelAsked(a) \in Named /\ a \in Links!Calls
  BY LinksAsked DEF Links!IInv, Links!Shape
<1>b. PICK ch \in Named : ch = Links!ChannelAsked(a)
  BY <1>a
<1>e. /\ cAsks' = cAsks \ {a}
      /\ cWatchLock' = IF a.by = "start" THEN Nothing ELSE cWatchLock
      /\ cGiven' = IF info.types \cap a.set = {} THEN cGiven ELSE [cGiven EXCEPT ![ch] = Links!Link(info, a.set)]
      /\ cStale' = (cStale \/ (a.conf = cFiles[ch].conf /\ a.key = cFiles[ch].key /\ info # Links!Current(ch)))
  BY <1>b DEF Links!Answered, Links!Becomes, Links!Current
<1>1. Links!Seen'
  BY <1>e, LinksSees DEF Links!IInv, Links!Seen
<1>2. /\ Links!Link(info, a.set) \in [conf : Nat, key : Nat, types : SUBSET Wires, context : SUBSET Wires]
      /\ Links!Link(info, a.set).conf = info.conf /\ Links!Link(info, a.set).context = info.types
  BY DEF Links!Link, Links!Context, Links!Infos
<1>3. cGiven' \in [Named -> {Nothing} \cup [conf : Nat, key : Nat, types : SUBSET Wires, context : SUBSET Wires]]
  BY <1>a, <1>e, <1>2
<1>4. ASSUME NEW c \in Named, cGiven'[c] # Nothing
      PROVE  cGiven'[c].conf \in 1..cFiles[c].stamp /\ (cGiven'[c].conf = cFiles[c].conf => cGiven'[c].context = cFiles[c].types)
  <2>1. CASE cGiven'[c] = cGiven[c]
    BY <1>4, <2>1 DEF Links!IInv, Links!Handed
  <2>2. CASE c = ch /\ cGiven'[c] = Links!Link(info, a.set)
    BY <1>b, <1>2, <2>2
  <2> QED BY <1>a, <1>e, <2>1, <2>2
<1>5. Links!OneStarts'
  <2>1. CASE Links!Starting(a)
    BY <1>e, <2>1, LinksNobody
  <2>2. CASE ~Links!Starting(a)
    <3>1. cWatchLock' = cWatchLock
      BY <1>e, <2>2 DEF Links!Starting
    <3> QED BY <1>e, <2>2, <3>1, LinksStarts
  <2> QED BY <2>1, <2>2
<1>6. Links!LinksFresh'
  BY <1>b, <1>e DEF Links!IInv, Links!LinksFresh
<1> QED BY <1>e, <1>1, <1>3, <1>4, <1>5, <1>6 DEF Links!Handed

\* A call whose link could not be made goes on to start, ends, or has the channel made.
LEMMA LinksFails ==
    ASSUME Links!IInv, NEW a \in cAsks, a.step \in {"conf", "key", "read"}, Links!Fails(a),
           cPools' = cPools, cFiles' = cFiles, cCache' = cCache, cGiven' = cGiven, cStale' = cStale,
           cAgain' = cAgain, cFaults' = cFaults
    PROVE  Links!IInv'
<1>a. /\ cAsks \subseteq Links!Calls /\ Links!IsFiniteSet(cAsks) /\ Links!Cardinality(cAsks) <= MaxLooks
      /\ Links!Shape /\ Links!ChannelAsked(a) \in Named /\ a.pool # Nothing /\ a \in Links!Calls /\ a.pool \in DOMAIN cPools
      /\ cMakers \subseteq Links!Creations /\ cBusy = {m.channel : m \in cMakers}
  BY LinksAsked DEF Links!IInv, Links!Shape
<1>b. Links!Numbered' /\ Links!Cached' /\ Links!Handed' /\ Links!LinksFresh'
  BY LinksCarries
<1>c. a.by \in {"app", "start"}
  BY <1>a DEF Links!Calls
<1>d. Links!Calls' = Links!Calls /\ Links!Creations' = Links!Creations
  BY DEF Links!Calls, Links!Creations
<1>1. CASE a.by = "app"
  <2> DEFINE w == [Links!Asked("start", a.pool, Wires) EXCEPT !.step = "want"]
  <2>1. w = [by |-> "start", pool |-> a.pool, set |-> Wires, step |-> "want", conf |-> 0, key |-> 0, got |-> 0]
    BY DEF Links!Asked
  <2>2. w \in Links!Calls /\ Links!SeenBy(w) /\ ~Links!Starting(w)
    BY <1>a, <2>1 DEF Links!Calls, Links!SeenBy, Links!Starting
  <2>e. /\ cAsks' = (cAsks \ {a}) \cup {w} \/ cAsks' = cAsks \ {a}
        /\ UNCHANGED <<cWatchLock, cBusy, cMakers>>
    BY <1>1 DEF Links!Fails, Links!Becomes
  <2>3. w.pool = a.pool
    BY <2>1
  <2> HIDE DEF w
  <2>5. Links!IsFiniteSet(cAsks') /\ Links!Cardinality(cAsks') <= MaxLooks
    BY <1>a, <2>e, LinksBecomes
  <2>6. cAsks' \subseteq Links!Calls
    BY <1>a, <2>2, <2>e
  <2>7. Links!Shape'
    BY <1>a, <1>d, <2>e, <2>5, <2>6 DEF Links!Shape, Links!Checked, Links!PoolChecked, Links!TransportsChecked,
      Links!SelfMadeEntry, Links!Infos
  <2>8. Links!Seen'
    BY <2>2, <2>e, LinksSees
  <2>9. Links!OneStarts'
    BY <2>2, <2>3, <2>e, LinksStarts
  <2> QED BY <1>b, <2>e, <2>7, <2>8, <2>9 DEF Links!IInv, Links!OneMaker
<1>2. CASE a.by = "start"
  <2> DEFINE m == [channel |-> Links!ChannelAsked(a), pool |-> a.pool, step |-> "rooms", types |-> {},
                   n |-> Links!Cardinality({k \in cMakers : k.channel = Links!ChannelAsked(a)})]
  <2>e. /\ cAsks' = cAsks \ {a} /\ cWatchLock' = Nothing
        /\ cBusy' = cBusy \cup {Links!ChannelAsked(a)} /\ cMakers' = cMakers \cup {m}
    BY <1>2 DEF Links!Fails, Links!Becomes
  <2>1. Links!Starting(a)
    BY <1>2 DEF Links!Starting
  <2>2. Links!ChannelAsked(a) \notin cBusy
    BY <2>1 DEF Links!IInv, Links!OneStarts
  <2>3. {k \in cMakers : k.channel = Links!ChannelAsked(a)} = {}
    BY <1>a, <2>2
  <2>4. m = [channel |-> Links!ChannelAsked(a), pool |-> a.pool, step |-> "rooms", types |-> {}, n |-> 0]
    <3>1. Links!Cardinality({}) = 0
      BY LinksSizes, FS_EmptySet
    <3> QED BY <2>3, <3>1
  <2> HIDE DEF m
  <2>5. m \in Links!Creations /\ m.channel = Links!ChannelAsked(a)
    BY <1>a, <2>4 DEF Links!Creations
  <2>6. Links!IsFiniteSet(cAsks') /\ Links!Cardinality(cAsks') <= MaxLooks
    BY <1>a, <2>e, LinksBecomes
  <2>7. cMakers' \subseteq Links!Creations /\ cBusy' = {k.channel : k \in cMakers'} /\ cAsks' \subseteq Links!Calls
    BY <1>a, <2>5, <2>e
  <2>8. Links!Shape'
    BY <1>a, <1>d, <2>6, <2>7 DEF Links!Shape, Links!Checked, Links!PoolChecked, Links!TransportsChecked, Links!SelfMadeEntry,
      Links!Infos
  <2>9. Links!Seen'
    BY <2>e, LinksSees DEF Links!IInv, Links!Seen
  <2>10. Links!OneStarts'
    BY <2>1, <2>e, LinksNobody
  <2>11. Links!OneMaker'
    BY <1>a, <2>2, <2>5, <2>e DEF Links!IInv, Links!OneMaker
  <2> QED BY <1>b, <2>8, <2>9, <2>10, <2>11 DEF Links!IInv
<1> QED BY <1>c, <1>1, <1>2

\* A call goes on to its next step.
LEMMA LinksGoesOn ==
    ASSUME Links!IInv, NEW a \in cAsks, NEW b \in Links!Calls, Links!SeenBy(b), b.pool = a.pool,
           Links!Starting(b) => Links!Starting(a), cAsks' = (cAsks \ {a}) \cup {b},
           UNCHANGED <<cPools, cFiles, cCache, cWatchLock, cBusy, cAgain, cMakers, cGiven, cStale, cFaults>>
    PROVE  Links!IInv'
<1>a. /\ cAsks \subseteq Links!Calls /\ Links!IsFiniteSet(cAsks) /\ Links!Cardinality(cAsks) <= MaxLooks /\ Links!Shape
  BY DEF Links!IInv, Links!Shape
<1>1. Links!IsFiniteSet(cAsks') /\ Links!Cardinality(cAsks') <= MaxLooks
  BY <1>a, LinksBecomes
<1>2. Links!Calls' = Links!Calls /\ Links!Creations' = Links!Creations /\ cAsks' \subseteq Links!Calls
  BY <1>a DEF Links!Calls, Links!Creations
<1>3. Links!Shape'
  BY <1>a, <1>1, <1>2 DEF Links!Shape, Links!Checked, Links!PoolChecked, Links!TransportsChecked, Links!SelfMadeEntry,
    Links!Infos
<1>4. Links!Seen' /\ Links!OneStarts'
  BY LinksSees, LinksStarts
<1> QED BY <1>3, <1>4, LinksCarries DEF Links!IInv, Links!OneMaker

\* A new call.
LEMMA LinksCalled ==
    ASSUME Links!IInv, NEW b \in Links!Calls, Links!SeenBy(b), ~Links!Starting(b),
           Links!Cardinality(cAsks) < MaxLooks, cAsks' = cAsks \cup {b},
           UNCHANGED <<cPools, cFiles, cCache, cWatchLock, cBusy, cAgain, cMakers, cGiven, cStale, cFaults>>
    PROVE  Links!IInv'
<1>a. cAsks \subseteq Links!Calls /\ Links!IsFiniteSet(cAsks) /\ Links!Shape
  BY DEF Links!IInv, Links!Shape
<1>1. Links!IsFiniteSet(cAsks') /\ Links!Cardinality(cAsks') <= MaxLooks
  BY <1>a, LinksAdds
<1>2. Links!Calls' = Links!Calls /\ Links!Creations' = Links!Creations /\ cAsks' \subseteq Links!Calls
  BY <1>a DEF Links!Calls, Links!Creations
<1>3. Links!Shape'
  BY <1>a, <1>1, <1>2 DEF Links!Shape, Links!Checked, Links!PoolChecked, Links!TransportsChecked, Links!SelfMadeEntry,
    Links!Infos
<1>4. Links!Seen'
  BY LinksSees
<1>5. Links!OneStarts'
  BY DEF Links!IInv, Links!OneStarts, Links!Starting, Links!ChannelAsked, Links!ChannelOf
<1> QED BY <1>3, <1>4, <1>5, LinksCarries DEF Links!IInv, Links!OneMaker

\* start takes nodeWatch.mu: nobody looks while it is free.
LEMMA LinksTakes ==
    ASSUME Links!IInv, NEW a \in cAsks, Links!StartTakes(a)
    PROVE  Links!IInv'
<1>a. /\ cAsks \subseteq Links!Calls /\ Links!IsFiniteSet(cAsks) /\ Links!Cardinality(cAsks) <= MaxLooks
      /\ Links!Shape /\ Links!ChannelAsked(a) \in Named /\ a.pool # Nothing /\ a \in Links!Calls
  BY LinksAsked DEF Links!IInv, Links!Shape
<1>b. PICK b : b = [a EXCEPT !.step = "conf"]
  OBVIOUS
<1>c. b \in Links!Calls /\ b.step = "conf" /\ b.pool = a.pool /\ b.got = a.got
  BY <1>a, <1>b DEF Links!Calls
<1>e. /\ a.step = "want" /\ cWatchLock = Nothing
      /\ \/ cAsks' = cAsks \ {a} /\ cWatchLock' = cWatchLock
         \/ /\ Links!ChannelAsked(a) \notin cBusy
            /\ cAsks' = (cAsks \ {a}) \cup {b} /\ cWatchLock' = a.pool
      /\ UNCHANGED <<cPools, cFiles, cCache, cBusy, cAgain, cMakers, cGiven, cStale, cFaults>>
  BY <1>b DEF Links!StartTakes, Links!Becomes, Links!Busy
<1>1. Links!IsFiniteSet(cAsks') /\ Links!Cardinality(cAsks') <= MaxLooks
  BY <1>a, <1>e, LinksBecomes
<1>2. Links!Calls' = Links!Calls /\ Links!Creations' = Links!Creations /\ cAsks' \subseteq Links!Calls
  BY <1>a, <1>c, <1>e DEF Links!Calls, Links!Creations
<1>3. Links!Shape'
  BY <1>a, <1>e, <1>1, <1>2 DEF Links!Shape, Links!Checked, Links!PoolChecked, Links!TransportsChecked, Links!SelfMadeEntry,
    Links!Infos
<1>4. Links!Seen'
  <2>1. Links!SeenBy(a)
    BY DEF Links!IInv, Links!Seen
  <2>2. Links!SeenBy(b)
    BY <1>c, <1>e, <2>1 DEF Links!SeenBy
  <2> QED BY <1>e, <2>2, LinksSees
<1>5. Links!OneStarts'
  <2>1. \A c \in cAsks : ~Links!Starting(c)
    BY <1>e DEF Links!IInv, Links!OneStarts
  <2>2. \A c \in cAsks' : Links!Starting(c) => c = b /\ cWatchLock' = a.pool /\ Links!ChannelAsked(a) \notin cBusy
    BY <1>e, <2>1
  <2>3. Links!ChannelAsked(b)' = Links!ChannelAsked(a)
    BY <1>c, <1>e DEF Links!ChannelAsked
  <2> QED BY <1>a, <1>e, <2>2, <2>3 DEF Links!OneStarts, Links!Starting, Links!ChannelAsked
<1> QED BY <1>3, <1>4, <1>5, <1>e, LinksCarries DEF Links!IInv, Links!OneMaker

\* os.Stat of node.conf and of the key.
LEMMA LinksStats ==
    ASSUME Links!IInv, NEW a \in cAsks, Links!StatConf(a) \/ Links!StatKey(a)
    PROVE  Links!IInv'
<1>a. Links!ChannelAsked(a) \in Named /\ a \in Links!Calls /\ Links!SeenBy(a)
  BY LinksAsked DEF Links!IInv, Links!Seen
<1>b. PICK f \in [conf : Nat, key : Nat, types : SUBSET Wires, stamp : Nat] :
        f = cFiles[Links!ChannelAsked(a)] /\ f.conf <= f.stamp /\ f.key <= f.stamp
  BY <1>a DEF Links!IInv, Links!Shape, Links!Numbered
<1>1. CASE Links!StatConf(a)
  <2>1. CASE f.conf = 0
    BY <1>1, <1>b, <2>1, LinksFails DEF Links!StatConf
  <2>2. CASE f.conf # 0
    <3>1. PICK b : b = [a EXCEPT !.step = "key", !.conf = f.conf]
      OBVIOUS
    <3>2. /\ b \in Links!Calls /\ b.step = "key" /\ b.conf = f.conf /\ b.pool = a.pool /\ b.got = a.got /\ b.by = a.by
          /\ b.key = a.key
      BY <1>a, <3>1 DEF Links!Calls
    <3>e. /\ a.step = "conf" /\ cAsks' = (cAsks \ {a}) \cup {b}
          /\ UNCHANGED <<cPools, cFiles, cCache, cWatchLock, cBusy, cAgain, cMakers, cGiven, cStale, cFaults>>
      BY <1>1, <1>b, <2>2, <3>1 DEF Links!StatConf, Links!Becomes
    <3>3. Links!SeenBy(b)
      <4>1. Links!ChannelAsked(b) = Links!ChannelAsked(a)
        BY <3>2 DEF Links!ChannelAsked
      <4> QED BY <1>a, <1>b, <2>2, <3>2, <3>e, <4>1 DEF Links!SeenBy
    <3>4. Links!Starting(b) => Links!Starting(a)
      BY <3>2, <3>e DEF Links!Starting
    <3> QED BY <3>2, <3>e, <3>3, <3>4, LinksGoesOn
  <2> QED BY <2>1, <2>2
<1>2. CASE Links!StatKey(a)
  <2>1. CASE f.key = 0
    BY <1>2, <1>b, <2>1, LinksFails DEF Links!StatKey
  <2>2. CASE f.key # 0
    <3>1. PICK b : b = [a EXCEPT !.step = "lock", !.key = f.key]
      OBVIOUS
    <3>2. /\ b \in Links!Calls /\ b.step = "lock" /\ b.conf = a.conf /\ b.pool = a.pool /\ b.got = a.got /\ b.by = a.by
          /\ b.key = f.key
      BY <1>a, <3>1 DEF Links!Calls
    <3>e. /\ a.step = "key" /\ cAsks' = (cAsks \ {a}) \cup {b}
          /\ UNCHANGED <<cPools, cFiles, cCache, cWatchLock, cBusy, cAgain, cMakers, cGiven, cStale, cFaults>>
      BY <1>2, <1>b, <2>2, <3>1 DEF Links!StatKey, Links!Becomes
    <3>3. Links!SeenBy(b)
      <4>1. Links!ChannelAsked(b) = Links!ChannelAsked(a)
        BY <3>2 DEF Links!ChannelAsked
      <4> QED BY <1>a, <1>b, <2>2, <3>2, <3>e, <4>1 DEF Links!SeenBy
    <3>4. Links!Starting(b) => Links!Starting(a)
      BY <3>2, <3>e DEF Links!Starting
    <3> QED BY <3>2, <3>e, <3>3, <3>4, LinksGoesOn
  <2> QED BY <2>1, <2>2
<1> QED BY <1>1, <1>2

\* Under the cache's lock: what was read is used while the times are the same.
LEMMA LinksLooks ==
    ASSUME Links!IInv, NEW a \in cAsks, Links!Looks(a)
    PROVE  Links!IInv'
<1>a. /\ Links!ChannelAsked(a) \in Named /\ a \in Links!Calls /\ Links!SeenBy(a) /\ a.step = "lock"
      /\ cAsks \subseteq Links!Calls /\ Links!IsFiniteSet(cAsks) /\ Links!Cardinality(cAsks) <= MaxLooks /\ Links!Shape
      /\ UNCHANGED <<cPools, cFiles, cCache, cBusy, cAgain, cMakers, cFaults>>
  BY LinksAsked DEF Links!IInv, Links!Seen, Links!Shape, Links!Looks
<1>b. PICK ch \in Named : ch = Links!ChannelAsked(a)
  BY <1>a
<1>1. CASE cCache[ch] # Nothing /\ Links!Matches(cCache[ch], a)
  <2>1. Links!Answered(a, cCache[ch].info)
    BY <1>1, <1>b DEF Links!Looks
  <2>2. Links!Fits(cCache[ch], ch)
    BY <1>1 DEF Links!IInv, Links!Cached
  <2>3. cCache[ch].info \in Links!Infos
    BY <1>1 DEF Links!IInv, Links!Shape
  <2>4. a.conf = cCache[ch].conf /\ a.key = cCache[ch].key
    BY <1>1 DEF Links!Matches
  <2>5. /\ cAsks' = cAsks \ {a} /\ Links!Seen' /\ Links!Handed' /\ Links!OneStarts' /\ Links!LinksFresh'
        /\ cGiven' \in [Named -> {Nothing} \cup [conf : Nat, key : Nat, types : SUBSET Wires, context : SUBSET Wires]]
    BY <1>a, <1>b, <2>1, <2>2, <2>3, <2>4, LinksAnswers DEF Links!Fits
  <2>6. Links!IsFiniteSet(cAsks') /\ Links!Cardinality(cAsks') <= MaxLooks
    BY <1>a, <2>5, LinksBecomes
  <2>7. Links!Calls' = Links!Calls /\ Links!Creations' = Links!Creations /\ cAsks' \subseteq Links!Calls
    BY <1>a, <2>5 DEF Links!Calls, Links!Creations
  <2>8. Links!Shape'
    BY <1>a, <2>5, <2>6, <2>7 DEF Links!Shape, Links!Checked, Links!PoolChecked, Links!TransportsChecked, Links!SelfMadeEntry,
      Links!Infos
  <2>9. Links!Numbered' /\ Links!Cached' /\ Links!OneMaker'
    BY <1>a DEF Links!IInv, Links!Numbered, Links!Cached, Links!Fits, Links!Current, Links!OneMaker
  <2> QED BY <2>5, <2>8, <2>9 DEF Links!IInv
<1>2. CASE ~(cCache[ch] # Nothing /\ Links!Matches(cCache[ch], a))
  <2>1. PICK b : b = [a EXCEPT !.step = "read"]
    OBVIOUS
  <2>2. b \in Links!Calls /\ b.step = "read" /\ b.conf = a.conf /\ b.pool = a.pool /\ b.got = a.got /\ b.by = a.by /\ b.key = a.key
    BY <1>a, <2>1 DEF Links!Calls
  <2>e. /\ cAsks' = (cAsks \ {a}) \cup {b}
        /\ UNCHANGED <<cPools, cFiles, cCache, cWatchLock, cBusy, cAgain, cMakers, cGiven, cStale, cFaults>>
    BY <1>2, <1>b, <2>1 DEF Links!Looks, Links!Becomes
  <2>3. Links!SeenBy(b)
    <3>1. Links!ChannelAsked(b) = Links!ChannelAsked(a)
      BY <2>2 DEF Links!ChannelAsked
    <3> QED BY <1>a, <2>2, <3>1 DEF Links!SeenBy
  <2>4. Links!Starting(b) => Links!Starting(a)
    BY <1>a, <2>2 DEF Links!Starting
  <2> QED BY <2>2, <2>e, <2>3, <2>4, LinksGoesOn
<1> QED BY <1>1, <1>2

\* readChannel: the key, then node.conf.
LEMMA LinksReadsKey ==
    ASSUME Links!IInv, NEW a \in cAsks, Links!ReadKey(a)
    PROVE  Links!IInv'
<1>a. Links!ChannelAsked(a) \in Named /\ a \in Links!Calls /\ Links!SeenBy(a) /\ a.step = "read"
  BY LinksAsked DEF Links!IInv, Links!Seen, Links!ReadKey
<1>b. PICK f \in [conf : Nat, key : Nat, types : SUBSET Wires, stamp : Nat] :
        f = cFiles[Links!ChannelAsked(a)] /\ f.conf <= f.stamp /\ f.key <= f.stamp
  BY <1>a DEF Links!IInv, Links!Shape, Links!Numbered
<1>1. CASE f.key = 0
  BY <1>1, <1>a, <1>b, LinksFails DEF Links!ReadKey
<1>2. CASE f.key # 0
  <2>1. PICK b : b = [a EXCEPT !.got = f.key]
    OBVIOUS
  <2>2. b \in Links!Calls /\ b.step = "read" /\ b.conf = a.conf /\ b.pool = a.pool /\ b.got = f.key /\ b.by = a.by /\ b.key = a.key
    BY <1>a, <2>1 DEF Links!Calls
  <2>e. /\ cAsks' = (cAsks \ {a}) \cup {b}
        /\ UNCHANGED <<cPools, cFiles, cCache, cWatchLock, cBusy, cAgain, cMakers, cGiven, cStale, cFaults>>
    BY <1>2, <1>b, <2>1 DEF Links!ReadKey, Links!Becomes
  <2>3. Links!SeenBy(b)
    <3>1. Links!ChannelAsked(b) = Links!ChannelAsked(a)
      BY <2>2 DEF Links!ChannelAsked
    <3> QED BY <1>2, <1>a, <1>b, <2>2, <3>1 DEF Links!SeenBy
  <2>4. Links!Starting(b) => Links!Starting(a)
    BY <1>a, <2>2 DEF Links!Starting
  <2> QED BY <2>2, <2>e, <2>3, <2>4, LinksGoesOn
<1> QED BY <1>1, <1>2

LEMMA LinksReadsConf ==
    ASSUME Links!IInv, NEW a \in cAsks, Links!ReadConf(a)
    PROVE  Links!IInv'
<1>a. /\ Links!ChannelAsked(a) \in Named /\ a \in Links!Calls /\ Links!SeenBy(a) /\ a.step = "read" /\ a.got # 0
      /\ cAsks \subseteq Links!Calls /\ Links!IsFiniteSet(cAsks) /\ Links!Cardinality(cAsks) <= MaxLooks /\ Links!Shape
      /\ cCache \in [Named -> {Nothing} \cup [conf : Nat, key : Nat, info : Links!Infos]]
      /\ UNCHANGED <<cPools, cFiles, cAgain, cFaults>>
  BY LinksAsked DEF Links!IInv, Links!Seen, Links!Shape, Links!ReadConf
<1>b. PICK ch \in Named : ch = Links!ChannelAsked(a)
  BY <1>a
<1>f. PICK f \in [conf : Nat, key : Nat, types : SUBSET Wires, stamp : Nat] :
        f = cFiles[ch] /\ f.conf <= f.stamp /\ f.key <= f.stamp
  BY DEF Links!IInv, Links!Shape, Links!Numbered
<1>1. CASE f.conf = 0
  <2>1. Links!Fails(a) /\ UNCHANGED <<cCache, cGiven, cStale>>
    BY <1>1, <1>b, <1>f DEF Links!ReadConf
  <2> QED BY <1>a, <2>1, LinksFails
<1>2. CASE f.conf # 0
  <2>1. PICK info : info = [conf |-> f.conf, key |-> a.got, types |-> f.types]
    OBVIOUS
  <2>2. PICK e : e = [conf |-> a.conf, key |-> a.key, info |-> info]
    OBVIOUS
  <2>e. /\ cCache' = [cCache EXCEPT ![ch] = e] /\ Links!Answered(a, info)
        /\ UNCHANGED <<cBusy, cMakers>>
    BY <1>2, <1>b, <1>f, <2>1, <2>2 DEF Links!ReadConf
  <2>3. a.conf \in Nat /\ a.key \in Nat /\ a.got \in Nat
    BY <1>a DEF Links!Calls
  <2>4. info \in Links!Infos /\ e \in [conf : Nat, key : Nat, info : Links!Infos]
    BY <2>1, <2>2, <2>3 DEF Links!Infos
  <2>5. /\ a.conf \in 1..f.stamp /\ a.key \in 1..f.stamp /\ a.key <= a.got /\ a.got <= f.stamp /\ (f.key # 0 => a.got <= f.key)
    BY <1>a, <1>b, <1>f DEF Links!SeenBy
  <2>6. a.conf = f.conf /\ a.key = f.key => info = [conf |-> f.conf, key |-> f.key, types |-> f.types]
    BY <2>1, <2>3, <2>5
  <2>7. /\ cAsks' = cAsks \ {a} /\ Links!Seen' /\ Links!Handed' /\ Links!OneStarts' /\ Links!LinksFresh'
        /\ cGiven' \in [Named -> {Nothing} \cup [conf : Nat, key : Nat, types : SUBSET Wires, context : SUBSET Wires]]
    <3>1. info.conf \in 1..f.stamp /\ (info.conf = f.conf => info.types = f.types)
      BY <1>2, <1>f, <2>1
    <3> QED BY <1>a, <1>b, <1>f, <2>4, <2>6, <2>e, <3>1, LinksAnswers DEF Links!Current
  <2>8. Links!IsFiniteSet(cAsks') /\ Links!Cardinality(cAsks') <= MaxLooks
    BY <1>a, <2>7, LinksBecomes
  <2>9. Links!Calls' = Links!Calls /\ Links!Creations' = Links!Creations /\ cAsks' \subseteq Links!Calls
    BY <1>a, <2>7 DEF Links!Calls, Links!Creations
  <2>10. cCache' \in [Named -> {Nothing} \cup [conf : Nat, key : Nat, info : Links!Infos]]
    BY <1>a, <2>4, <2>e
  <2>11. Links!Shape'
    <3>1. /\ cPools' = cPools /\ cFiles' = cFiles /\ cBusy' = cBusy /\ cMakers' = cMakers
          /\ cAgain' = cAgain /\ cFaults' = cFaults
      BY <1>a, <2>e
    <3>2. cGiven' \in [Named -> {Nothing} \cup [conf : Nat, key : Nat, types : SUBSET Wires, context : SUBSET Wires]]
      BY <2>7
    <3>3. Links!Shape
      BY DEF Links!IInv
    <3> QED BY <3>1, <3>2, <3>3, <2>8, <2>9, <2>10 DEF Links!Shape, Links!Checked, Links!PoolChecked, Links!TransportsChecked,
      Links!SelfMadeEntry, Links!Infos
  <2>12. Links!Fits(e, ch)
    <3>1. e.conf = a.conf /\ e.key = a.key /\ e.info = info /\ info.conf = f.conf /\ info.types = f.types
      BY <2>1, <2>2
    <3>2. e.info.conf \in 1..f.stamp
      BY <1>2, <1>f, <3>1
    <3> QED BY <1>f, <2>5, <2>6, <3>1, <3>2 DEF Links!Fits, Links!Current
  <2>13. \A c \in Named : cCache'[c] # Nothing => Links!Fits(cCache'[c], c)
    BY <1>a, <2>e, <2>12 DEF Links!IInv, Links!Cached
  <2>14. Links!Cached'
    BY <1>a, <2>13 DEF Links!Cached, Links!Fits, Links!Current
  <2>15. Links!Numbered' /\ Links!OneMaker'
    BY <1>a, <2>e DEF Links!IInv, Links!Numbered, Links!OneMaker
  <2> QED BY <2>7, <2>11, <2>14, <2>15 DEF Links!IInv
<1> QED BY <1>1, <1>2

\* What a creation's step, or its end, leaves to be shown.
LEMMA LinksMakes ==
    ASSUME Links!IInv, NEW m \in cMakers,
           UNCHANGED <<cPools, cAsks, cCache, cWatchLock, cGiven, cStale>>,
           cFiles' \in [Named -> [conf : Nat, key : Nat, types : SUBSET Wires, stamp : Nat]],
           Links!Numbered', Links!Seen', Links!Cached', Links!Handed', Links!LinksFresh',
           cAgain' \subseteq Named, cFaults' \in 0..MaxLeft,
           NEW n \in Links!Creations, n.channel = m.channel,
           \/ cMakers' = (cMakers \ {m}) \cup {n} /\ cBusy' = cBusy
           \/ cMakers' = cMakers \ {m} /\ cBusy' = cBusy \ {m.channel}
    PROVE  Links!IInv'
<1>a. /\ cMakers \subseteq Links!Creations /\ cBusy = {k.channel : k \in cMakers} /\ Links!Shape
      /\ \A k, l \in cMakers : k.channel = l.channel => k = l
  BY DEF Links!IInv, Links!Shape, Links!OneMaker
<1>1. Links!Calls' = Links!Calls /\ Links!Creations' = Links!Creations /\ cMakers' \subseteq Links!Creations
  BY <1>a DEF Links!Calls, Links!Creations
<1>2. cBusy' = {k.channel : k \in cMakers'}
  <2>1. CASE cMakers' = (cMakers \ {m}) \cup {n} /\ cBusy' = cBusy
    BY <1>a, <2>1
  <2>2. CASE cMakers' = cMakers \ {m} /\ cBusy' = cBusy \ {m.channel}
    BY <1>a, <2>2
  <2> QED BY <2>1, <2>2
<1>3. Links!Shape'
  BY <1>a, <1>1, <1>2 DEF Links!Shape, Links!Checked, Links!PoolChecked, Links!TransportsChecked, Links!SelfMadeEntry,
    Links!Infos, Links!IsFiniteSet, Links!Cardinality
<1>4. Links!OneMaker'
  BY <1>a DEF Links!OneMaker
<1>5. Links!OneStarts'
  <2>1. cBusy' \subseteq cBusy
    OBVIOUS
  <2> QED BY <2>1 DEF Links!IInv, Links!OneStarts, Links!Starting, Links!ChannelAsked, Links!ChannelOf
<1> QED BY <1>3, <1>4, <1>5 DEF Links!IInv

\* A creation makes its rooms; one that fails is over.
LEMMA LinksMakers ==
    ASSUME Links!IInv, NEW m \in cMakers, Links!MakeRooms(m) \/ Links!MakeFails(m)
    PROVE  Links!IInv'
<1>a. /\ m \in Links!Creations /\ cFaults \in 0..MaxLeft /\ MaxLeft \in Nat /\ cAgain \subseteq Named
      /\ cFiles \in [Named -> [conf : Nat, key : Nat, types : SUBSET Wires, stamp : Nat]]
      /\ cPools \in Layouts
  BY LinksAssumption DEF Links!IInv, Links!Shape
<1>b. m.channel \in Named /\ m.pool \in DOMAIN cPools
  BY <1>a DEF Links!Creations
<1>1. CASE Links!MakeRooms(m)
  <2>1. PICK avito \in BOOLEAN : Links!Step(m, [m EXCEPT !.step = "apply", !.types = Links!Carriers(cPools[m.pool].transports, avito)])
    BY <1>1 DEF Links!MakeRooms
  <2>2. PICK ts : ts = Links!Carriers(cPools[m.pool].transports, avito)
    OBVIOUS
  <2>3. ts \in SUBSET Wires
    <3>1. PICK tr : tr = cPools[m.pool].transports
      OBVIOUS
    <3>2. \A j \in DOMAIN tr : tr[j].type \in Wires
      BY <1>a, <1>b, <3>1, LinksAssumption
    <3> DEFINE kept == {tr[i].type : i \in {j \in DOMAIN tr : ~tr[j].made}}
               rooms == {tr[i].type : i \in {j \in DOMAIN tr : Links!SelfMadeEntry(tr[j])}}
               can == IF avito THEN rooms ELSE rooms \cap {"cupsonline"}
    <3>3. kept \subseteq Wires /\ rooms \subseteq Wires
      BY <3>2
    <3>4. ts = IF kept \cup can # {} THEN kept \cup can ELSE {"cupsonline"} \cup (IF avito THEN {"avito"} ELSE {})
      BY <2>2, <3>1 DEF Links!Carriers
    <3> HIDE DEF kept, rooms
    <3> QED BY <3>3, <3>4, LinksAssumption
  <2>4. PICK n : n = [m EXCEPT !.step = "apply", !.types = ts]
    OBVIOUS
  <2>5. n \in Links!Creations /\ n.channel = m.channel
    BY <1>a, <2>3, <2>4 DEF Links!Creations
  <2>e. /\ cMakers' = (cMakers \ {m}) \cup {n}
        /\ UNCHANGED <<cPools, cFiles, cCache, cAsks, cWatchLock, cBusy, cAgain, cGiven, cStale, cFaults>>
    BY <1>1, <2>1, <2>2, <2>4 DEF Links!MakeRooms, Links!Step
  <2>6. Links!Seen'
    BY <2>e DEF Links!IInv, Links!Seen, Links!SeenBy, Links!ChannelAsked
  <2> QED BY <1>a, <2>5, <2>6, <2>e, LinksCarries, LinksMakes
<1>2. CASE Links!MakeFails(m)
  <2>e. /\ cMakers' = cMakers \ {m} /\ cBusy' = cBusy \ {m.channel} /\ cAgain' = cAgain \cup {m.channel}
        /\ cFaults < MaxLeft /\ cFaults' = cFaults + 1
        /\ UNCHANGED <<cPools, cFiles, cCache, cAsks, cWatchLock, cGiven, cStale>>
    BY <1>2 DEF Links!MakeFails, Links!Ends, Links!Over
  <2>1. Links!Seen'
    BY <2>e DEF Links!IInv, Links!Seen, Links!SeenBy, Links!ChannelAsked
  <2>2. cFaults' \in 0..MaxLeft /\ cAgain' \subseteq Named
    BY <1>a, <1>b, <2>e
  <2> QED BY <1>a, <2>1, <2>2, <2>e, LinksCarries, LinksMakes
<1> QED BY <1>1, <1>2

\* A part of the files is written with a number of its own.
LEMMA LinksWrote ==
    ASSUME Links!IInv, NEW ch \in Named, NEW part_ \in {"conf", "key"}, NEW ts \in SUBSET Wires,
           Links!Wrote(ch, part_, ts), UNCHANGED <<cPools, cAsks, cCache, cGiven, cStale>>
    PROVE  /\ Links!Numbered' /\ Links!Seen' /\ Links!Cached' /\ Links!Handed' /\ Links!LinksFresh'
           /\ cFiles' \in [Named -> [conf : Nat, key : Nat, types : SUBSET Wires, stamp : Nat]]
<1>a. /\ cFiles \in [Named -> [conf : Nat, key : Nat, types : SUBSET Wires, stamp : Nat]]
      /\ cFiles[ch].conf <= cFiles[ch].stamp /\ cFiles[ch].key <= cFiles[ch].stamp
  BY DEF Links!IInv, Links!Shape, Links!Numbered
<1>f. PICK f \in [conf : Nat, key : Nat, types : SUBSET Wires, stamp : Nat] : f = cFiles[ch]
  BY <1>a
<1>g. PICK g : g = [conf |-> IF part_ = "conf" THEN f.stamp + 1 ELSE f.conf,
                    key |-> IF part_ = "key" THEN f.stamp + 1 ELSE f.key,
                    types |-> IF part_ = "conf" THEN ts ELSE f.types,
                    stamp |-> f.stamp + 1]
  OBVIOUS
<1>1. /\ g \in [conf : Nat, key : Nat, types : SUBSET Wires, stamp : Nat]
      /\ g.stamp = f.stamp + 1
      /\ g.conf = f.stamp + 1 \/ (g.conf = f.conf /\ g.types = f.types)
      /\ g.key = f.stamp + 1 \/ g.key = f.key
  BY <1>g
<1>2. /\ g.stamp >= f.stamp /\ g.conf <= g.stamp /\ g.key <= g.stamp
      /\ g.conf > f.stamp \/ g.conf = 0 \/ (g.conf = f.conf /\ g.types = f.types)
      /\ g.key > f.stamp \/ g.key = 0 \/ g.key = f.key
  BY <1>1, <1>a, <1>f
<1>3. cFiles' = [cFiles EXCEPT ![ch] = g]
  BY <1>f, <1>g, <1>a DEF Links!Wrote
<1>4. cFiles' \in [Named -> [conf : Nat, key : Nat, types : SUBSET Wires, stamp : Nat]]
  BY <1>a, <1>1, <1>3
<1> QED BY <1>1, <1>2, <1>3, <1>4, <1>f, LinksWrites

\* node-install.sh writes the key, then node.conf.
LEMMA LinksApplies ==
    ASSUME Links!IInv, NEW m \in cMakers, Links!Applies(m)
    PROVE  Links!IInv'
<1>a. m \in Links!Creations /\ cAgain \subseteq Named /\ cFaults \in 0..MaxLeft
  BY DEF Links!IInv, Links!Shape
<1>b. m.channel \in Named /\ m.types \in SUBSET Wires
  BY <1>a DEF Links!Creations
<1>n. PICK n : n = [m EXCEPT !.step = "half"]
  OBVIOUS
<1>m. n \in Links!Creations /\ n.channel = m.channel
  BY <1>a, <1>n DEF Links!Creations
<1>e. /\ UNCHANGED <<cPools, cAsks, cCache, cWatchLock, cGiven, cStale, cFaults>>
      /\ \/ /\ Links!Wrote(m.channel, "key", m.types)
            /\ cMakers' = (cMakers \ {m}) \cup {n} /\ cBusy' = cBusy /\ cAgain' = cAgain
         \/ /\ Links!Wrote(m.channel, "conf", m.types)
            /\ cMakers' = cMakers \ {m} /\ cBusy' = cBusy \ {m.channel} /\ cAgain' = cAgain \ {m.channel}
  BY <1>n DEF Links!Applies, Links!Step, Links!Ends, Links!Over
<1>1. /\ Links!Numbered' /\ Links!Seen' /\ Links!Cached' /\ Links!Handed' /\ Links!LinksFresh'
      /\ cFiles' \in [Named -> [conf : Nat, key : Nat, types : SUBSET Wires, stamp : Nat]]
  <2>1. CASE Links!Wrote(m.channel, "key", m.types)
    BY <1>b, <1>e, <2>1, LinksWrote
  <2>2. CASE Links!Wrote(m.channel, "conf", m.types)
    BY <1>b, <1>e, <2>2, LinksWrote
  <2> QED BY <1>e, <2>1, <2>2
<1>2. cAgain' \subseteq Named /\ cFaults' \in 0..MaxLeft
  BY <1>a, <1>e
<1> QED BY <1>m, <1>e, <1>1, <1>2, LinksMakes

\* What the owner writes, what leaves, and the time that passes.
LEMMA LinksRest ==
    ASSUME Links!IInv,
           UNCHANGED <<cPools, cAsks, cCache, cWatchLock, cBusy, cMakers, cGiven, cStale>>,
           cFiles' \in [Named -> [conf : Nat, key : Nat, types : SUBSET Wires, stamp : Nat]],
           Links!Numbered', Links!Seen', Links!Cached', Links!Handed', Links!LinksFresh',
           cAgain' \subseteq Named, cFaults' \in 0..MaxLeft
    PROVE  Links!IInv'
<1>1. Links!Calls' = Links!Calls /\ Links!Creations' = Links!Creations
  BY DEF Links!Calls, Links!Creations
<1>2. Links!Shape'
  BY <1>1 DEF Links!IInv, Links!Shape, Links!Checked, Links!PoolChecked, Links!TransportsChecked, Links!SelfMadeEntry,
    Links!Infos, Links!IsFiniteSet, Links!Cardinality
<1>3. Links!OneMaker' /\ Links!OneStarts'
  BY DEF Links!IInv, Links!OneMaker, Links!OneStarts, Links!Starting, Links!ChannelAsked, Links!ChannelOf
<1> QED BY <1>2, <1>3 DEF Links!IInv

LEMMA LinksOwner ==
    ASSUME Links!IInv, NEW ch \in Named,
           \/ Links!MayAgain(ch) \/ Links!ChannelLeaves(ch)
           \/ \E part_ \in {"conf", "key"}, ts \in Devices : Links!OwnerWrites(ch, part_, ts)
    PROVE  Links!IInv'
<1>a. /\ cAgain \subseteq Named /\ cFaults \in 0..MaxLeft /\ MaxLeft \in Nat
      /\ cFiles \in [Named -> [conf : Nat, key : Nat, types : SUBSET Wires, stamp : Nat]]
      /\ cFiles[ch].conf <= cFiles[ch].stamp /\ cFiles[ch].key <= cFiles[ch].stamp
  BY LinksAssumption DEF Links!IInv, Links!Shape, Links!Numbered
<1>1. CASE Links!MayAgain(ch)
  <2>e. cAgain' = cAgain \ {ch} /\ UNCHANGED <<cPools, cFiles, cCache, cAsks, cWatchLock, cBusy, cMakers, cGiven, cStale, cFaults>>
    BY <1>1 DEF Links!MayAgain
  <2>1. Links!Seen'
    BY <2>e DEF Links!IInv, Links!Seen, Links!SeenBy, Links!ChannelAsked
  <2> QED BY <1>a, <2>e, <2>1, LinksCarries, LinksRest
<1>2. CASE Links!ChannelLeaves(ch)
  <2>f. PICK f \in [conf : Nat, key : Nat, types : SUBSET Wires, stamp : Nat] : f = cFiles[ch]
    BY <1>a
  <2>g. PICK g : g = [f EXCEPT !.conf = 0, !.key = 0, !.types = {}]
    OBVIOUS
  <2>e. /\ cFiles' = [cFiles EXCEPT ![ch] = g] /\ cFaults < MaxLeft /\ cFaults' = cFaults + 1
        /\ UNCHANGED <<cPools, cCache, cAsks, cWatchLock, cBusy, cAgain, cMakers, cGiven, cStale>>
    BY <1>2, <1>a, <2>f, <2>g DEF Links!ChannelLeaves
  <2>1. g \in [conf : Nat, key : Nat, types : SUBSET Wires, stamp : Nat] /\ g.conf = 0 /\ g.key = 0 /\ g.stamp = f.stamp
    BY <2>g
  <2>2. /\ Links!Numbered' /\ Links!Seen' /\ Links!Cached' /\ Links!Handed' /\ Links!LinksFresh'
    <3>1. g.stamp >= f.stamp /\ g.conf <= g.stamp /\ g.key <= g.stamp
      BY <2>1
    <3> QED BY <2>f, <2>e, <2>1, <3>1, LinksWrites
  <2>3. cFiles' \in [Named -> [conf : Nat, key : Nat, types : SUBSET Wires, stamp : Nat]] /\ cFaults' \in 0..MaxLeft
    BY <1>a, <2>e, <2>1
  <2> QED BY <1>a, <2>e, <2>2, <2>3, LinksRest
<1>3. ASSUME NEW part_ \in {"conf", "key"}, NEW ts \in Devices, Links!OwnerWrites(ch, part_, ts)
      PROVE  Links!IInv'
  <2>e. /\ Links!Wrote(ch, part_, ts)
        /\ UNCHANGED <<cPools, cCache, cAsks, cWatchLock, cBusy, cAgain, cMakers, cGiven, cStale, cFaults>>
    BY <1>3 DEF Links!OwnerWrites
  <2>1. ts \in SUBSET Wires
    BY LinksAssumption
  <2> QED BY <1>a, <2>e, <2>1, LinksWrote, LinksRest
<1> QED BY <1>1, <1>2, <1>3

LEMMA LinksStep == Links!IInv /\ Links!Next => Links!IInv'
<1> SUFFICES ASSUME Links!IInv, Links!Next PROVE Links!IInv'
  OBVIOUS
<1>1. ASSUME NEW i \in DOMAIN cPools, NEW set \in Devices, Links!Ask(i, set)
      PROVE  Links!IInv'
  <2> DEFINE b == Links!Asked("app", i, set)
  <2>1. b = [by |-> "app", pool |-> i, set |-> set, step |-> "conf", conf |-> 0, key |-> 0, got |-> 0]
    BY DEF Links!Asked
  <2>2. /\ Links!Cardinality(cAsks) < MaxLooks /\ cAsks' = cAsks \cup {b}
        /\ UNCHANGED <<cPools, cFiles, cCache, cWatchLock, cBusy, cAgain, cMakers, cGiven, cStale, cFaults>>
    BY <1>1 DEF Links!Ask
  <2> HIDE DEF b
  <2>3. b \in Links!Calls /\ Links!SeenBy(b) /\ ~Links!Starting(b)
    BY <2>1, LinksAssumption DEF Links!Calls, Links!SeenBy, Links!Starting
  <2> QED BY <2>2, <2>3, LinksCalled
<1>2. ASSUME NEW i \in DOMAIN cPools, Links!EnsureAll(i)
      PROVE  Links!IInv'
  <2> DEFINE b == [Links!Asked("start", i, Wires) EXCEPT !.step = "want"]
  <2>1. b = [by |-> "start", pool |-> i, set |-> Wires, step |-> "want", conf |-> 0, key |-> 0, got |-> 0]
    BY DEF Links!Asked
  <2>2. /\ Links!Cardinality(cAsks) < MaxLooks /\ cAsks' = cAsks \cup {b}
        /\ UNCHANGED <<cPools, cFiles, cCache, cWatchLock, cBusy, cAgain, cMakers, cGiven, cStale, cFaults>>
    BY <1>2 DEF Links!EnsureAll
  <2> HIDE DEF b
  <2>3. b \in Links!Calls /\ Links!SeenBy(b) /\ ~Links!Starting(b)
    BY <2>1 DEF Links!Calls, Links!SeenBy, Links!Starting
  <2> QED BY <2>2, <2>3, LinksCalled
<1>3. ASSUME NEW a \in cAsks, Links!Request(a)
      PROVE  Links!IInv'
  BY <1>3, LinksTakes, LinksStats, LinksLooks, LinksReadsKey, LinksReadsConf DEF Links!Request
<1>4. ASSUME NEW m \in cMakers, Links!Maker(m) \/ Links!MakeFails(m)
      PROVE  Links!IInv'
  BY <1>4, LinksMakers, LinksApplies DEF Links!Maker
<1>5. ASSUME NEW ch \in Named,
             \/ Links!MayAgain(ch) \/ Links!ChannelLeaves(ch)
             \/ \E part_ \in {"conf", "key"}, ts \in Devices : Links!OwnerWrites(ch, part_, ts)
      PROVE  Links!IInv'
  BY <1>5, LinksOwner
<1> QED BY <1>1, <1>2, <1>3, <1>4, <1>5 DEF Links!Next

LEMMA LinksRests == Links!IInv /\ UNCHANGED linksVars => Links!IInv'
<1> SUFFICES ASSUME Links!IInv, UNCHANGED linksVars PROVE Links!IInv'
  OBVIOUS
<1>e. UNCHANGED <<cPools, cFiles, cCache, cAsks, cWatchLock, cBusy, cAgain, cMakers, cGiven, cStale, cFaults>>
  BY DEF linksVars
<1>1. Links!Seen'
  BY <1>e DEF Links!IInv, Links!Seen, Links!SeenBy, Links!ChannelAsked
<1>2. /\ cAgain \subseteq Named /\ cFaults \in 0..MaxLeft
      /\ cFiles \in [Named -> [conf : Nat, key : Nat, types : SUBSET Wires, stamp : Nat]]
  BY DEF Links!IInv, Links!Shape
<1> QED BY <1>e, <1>1, <1>2, LinksCarries, LinksRest

\* What the module promises follows.
LEMMA LinksPromise == Links!IInv => Links!TypeOK /\ Links!ChannelsKept
<1> SUFFICES ASSUME Links!IInv PROVE Links!TypeOK /\ Links!ChannelsKept
  OBVIOUS
<1>a. /\ cAsks \subseteq Links!Calls /\ Links!IsFiniteSet(cAsks) /\ Links!Cardinality(cAsks) <= MaxLooks
      /\ cMakers \subseteq Links!Creations /\ cBusy = {m.channel : m \in cMakers}
      /\ cPools \in Layouts /\ cAgain \subseteq Named /\ cFaults \in 0..MaxLeft
      /\ DOMAIN cFiles = Named /\ DOMAIN cCache = Named
  BY DEF Links!IInv, Links!Shape
<1>1. Links!Cardinality(cAsks) <= MaxLooks + 1
  <2>1. Cardinality(cAsks) \in Nat /\ MaxLooks \in Nat
    BY <1>a, LinksSizes, FS_CardinalityType, LinksAssumption
  <2> QED BY <1>a, <2>1, LinksSizes
<1>2. cBusy \subseteq Named /\ \A m \in cMakers : m.channel \in cBusy
  BY <1>a DEF Links!Creations
<1>3. Links!TypeOK
  BY <1>a, <1>1, <1>2 DEF Links!TypeOK
<1>4. Links!SameContext
  BY DEF Links!IInv, Links!Handed, Links!SameContext
<1> QED BY <1>3, <1>4 DEF Links!IInv, Links!ChannelsKept

-----------------------------------------------------------------------------
\* The accounts of the subscription service (SubAccounts)

CONSTANTS
    \* of SubAccounts: its Accounts, Logins, Plans, FirstPlan, OrderIds, KeyIds, AutoTrial,
    \* Scenes and bounds
    People, Handles, Tariffs, Basic, Bills, Tickets, Gifted, Askings, MaxWrong,
    MaxOpen, MaxPhones, MaxSecrets, MaxDays, MaxEnd, MaxUnsaved

\* A plan gives days; a subscription that begins on the last day ends within the bound.
ASSUME AccountsAssumption ==
    /\ Nothing \notin People /\ Nothing \notin DOMAIN Tariffs /\ Basic \in DOMAIN Tariffs
    /\ \A p \in DOMAIN Tariffs : /\ Tariffs[p].days \in Nat /\ Tariffs[p].devices \in Nat
                                 /\ MaxDays + Tariffs[p].days <= MaxEnd
    /\ {MaxWrong, MaxOpen, MaxPhones, MaxSecrets, MaxDays, MaxEnd, MaxUnsaved} \subseteq Nat

VARIABLES
    aScene, aState, aDisk, aRequests, aLim, aSecrets, aMade, aNow, aFaults,
    aTold, aCrossed

subsVars ==
    <<aScene, aState, aDisk, aRequests, aLim, aSecrets, aMade, aNow, aFaults,
    aTold, aCrossed>>

Subs == INSTANCE SubAccounts WITH
    scene <- aScene, state <- aState, disk <- aDisk, requests <- aRequests,
    lim <- aLim, secrets <- aSecrets, made <- aMade, now <- aNow,
    faults <- aFaults, told <- aTold, crossed <- aCrossed,
    Accounts <- People, Logins <- Handles, Plans <- Tariffs,
    FirstPlan <- Basic, OrderIds <- Bills, KeyIds <- Tickets,
    AutoTrial <- Gifted, Scenes <- Askings, MaxFails <- MaxWrong,
    MaxRequests <- MaxOpen, MaxDevices <- MaxPhones, MaxSecret <- MaxSecrets,
    MaxNow <- MaxDays, MaxExpires <- MaxEnd, MaxFaults <- MaxUnsaved,
    None <- Nothing

LEMMA SubsNumbers ==
    /\ MaxWrong \in Nat /\ MaxOpen \in Nat /\ MaxPhones \in Nat /\ MaxSecrets \in Nat
    /\ MaxDays \in Nat /\ MaxEnd \in Nat /\ MaxUnsaved \in Nat
BY AccountsAssumption

LEMMA SubsSizes ==
    /\ \A S : Subs!Cardinality(S) = Cardinality(S)
    /\ \A S : Subs!IsFiniteSet(S) <=> IsFiniteSet(S)
BY DEF Subs!Cardinality, Cardinality, Subs!IsFiniteSet, IsFiniteSet

\* A map with one more entry, or another one, and a map with some gone.
LEMMA SubsPartly ==
    ASSUME NEW f, NEW S, NEW T, Subs!Partly(f, S, T), NEW x \in S, NEW v \in T,
           NEW g, g = Subs!With(f, x, v)
    PROVE  /\ Subs!Partly(g, S, T) /\ DOMAIN g = DOMAIN f \cup {x} /\ g[x] = v
           /\ \A y \in DOMAIN f : y # x => g[y] = f[y]
<1>1. g = [y \in DOMAIN f \cup {x} |-> IF y = x THEN v ELSE f[y]]
  BY DEF Subs!With
<1>2. /\ DOMAIN g = DOMAIN f \cup {x} /\ g[x] = v
      /\ \A y \in DOMAIN f : y # x => g[y] = f[y]
  BY <1>1
<1>3. g = [y \in DOMAIN g |-> g[y]]
  BY <1>1
<1> QED BY <1>2, <1>3 DEF Subs!Partly

LEMMA SubsWithout ==
    ASSUME NEW f, NEW S, NEW T, Subs!Partly(f, S, T), NEW gone,
           NEW g, g = Subs!WithoutKey(f, gone)
    PROVE  /\ Subs!Partly(g, S, T) /\ DOMAIN g = DOMAIN f \ gone
           /\ \A y \in DOMAIN g : g[y] = f[y]
<1>1. g = [y \in DOMAIN f \ gone |-> f[y]]
  BY DEF Subs!WithoutKey
<1>2. DOMAIN g = DOMAIN f \ gone /\ \A y \in DOMAIN g : g[y] = f[y]
  BY <1>1
<1>3. g = [y \in DOMAIN g |-> g[y]]
  BY <1>1
<1> QED BY <1>2, <1>3 DEF Subs!Partly

\* A store with another part.
LEMMA SubsParts ==
    ASSUME NEW s, Subs!Stored(s), NEW us, NEW os, NEW ks
    PROVE  /\ [s EXCEPT !.users = us] = [users |-> us, orders |-> s.orders, keys |-> s.keys]
           /\ [s EXCEPT !.orders = os] = [users |-> s.users, orders |-> os, keys |-> s.keys]
           /\ [s EXCEPT !.keys = ks] = [users |-> s.users, orders |-> s.orders, keys |-> ks]
BY DEF Subs!Stored

LEMMA SubsStored ==
    ASSUME NEW us, NEW os, NEW ks, NEW s, s = [users |-> us, orders |-> os, keys |-> ks],
           Subs!Partly(us, People, Subs!User), Subs!Partly(os, Bills, Subs!Order),
           Subs!Partly(ks, Tickets, Subs!Key)
    PROVE  Subs!Stored(s) /\ s.users = us /\ s.orders = os /\ s.keys = ks
BY DEF Subs!Stored

\* What is in order stays so when more is chosen and signed in, and less was answered.
LEMMA SubsLater ==
    ASSUME NEW s, NEW p \in Nat, NEW m \in Nat, NEW c, NEW t,
           NEW q \in Nat, NEW n \in Nat, NEW d, NEW w,
           Subs!Sound(s, p, m, c, t), p <= q, m <= n, c => d, w \subseteq t
    PROVE  Subs!Sound(s, q, n, d, w)
<1>1. ASSUME NEW rec, Subs!AccountOk(rec, p, m, c) PROVE Subs!AccountOk(rec, q, n, d)
  BY <1>1 DEF Subs!AccountOk
<1> QED BY <1>1 DEF Subs!Sound

\* An account changed.
LEMMA SubsUser ==
    ASSUME NEW s, NEW p, NEW m, NEW c, NEW t, Subs!Sound(s, p, m, c, t),
           NEW u \in DOMAIN s.users, NEW rec, Subs!AccountOk(rec, p, m, c),
           rec.login = s.users[u].login,
           NEW w, \A a \in w : a \in t \/ (a[1] = "banned" /\ a[2] = u),
           \A a \in w : a[1] = "banned" /\ a[2] = u => rec.banned,
           NEW z, z = [s EXCEPT !.users = Subs!With(@, u, rec)]
    PROVE  /\ Subs!Sound(z, p, m, c, w) /\ z.orders = s.orders /\ z.keys = s.keys
           /\ DOMAIN z.users = DOMAIN s.users /\ z.users[u] = rec
<1>a. Subs!Stored(s)
  BY DEF Subs!Sound
<1>c. u \in People
  BY <1>a DEF Subs!Stored, Subs!Partly
<1>d. rec \in Subs!User
  BY DEF Subs!AccountOk
<1>b. /\ Subs!Partly(s.users, People, Subs!User) /\ Subs!Partly(s.orders, Bills, Subs!Order)
      /\ Subs!Partly(s.keys, Tickets, Subs!Key)
  BY <1>a DEF Subs!Stored
<1>u. Subs!Partly(s.users, People, Subs!User)
  BY <1>b
<1>o. Subs!Partly(s.orders, Bills, Subs!Order)
  BY <1>b
<1>g. PICK g : g = Subs!With(s.users, u, rec)
  OBVIOUS
<1>1. /\ Subs!Partly(g, People, Subs!User) /\ DOMAIN g = DOMAIN s.users /\ g[u] = rec
      /\ \A y \in DOMAIN s.users : y # u => g[y] = s.users[y]
  <2>1. g = [y \in DOMAIN s.users \cup {u} |-> IF y = u THEN rec ELSE s.users[y]]
    BY <1>g DEF Subs!With
  <2>2. DOMAIN s.users \cup {u} = DOMAIN s.users
    OBVIOUS
  <2>3. DOMAIN g = DOMAIN s.users /\ g[u] = rec
        /\ \A y \in DOMAIN s.users : y # u => g[y] = s.users[y]
    BY <2>1, <2>2
  <2>4. g = [y \in DOMAIN g |-> g[y]]
    BY <2>1, <2>2
  <2> QED BY <1>c, <1>d, <1>u, <2>3, <2>4 DEF Subs!Partly
<1>2. z = [users |-> g, orders |-> s.orders, keys |-> s.keys]
  BY <1>a, <1>g, SubsParts
<1>3. Subs!Stored(z) /\ z.users = g /\ z.orders = s.orders /\ z.keys = s.keys
  BY <1>b, <1>1, <1>2, SubsStored
<1>4. \A v \in DOMAIN g : Subs!AccountOk(g[v], p, m, c)
  BY <1>1 DEF Subs!Sound
<1>5. \A v, x \in DOMAIN g : g[v].login = g[x].login => v = x
  BY <1>1 DEF Subs!Sound
<1>6. ASSUME NEW a \in w PROVE Subs!KeptIn(z, a)
  <2>1. a \in t => Subs!KeptIn(s, a)
    BY DEF Subs!Sound
  <2>2. a \in t \/ (a[1] = "banned" /\ a[2] = u)
    BY <1>6
  <2>3. a[1] = "banned" /\ a[2] = u => rec.banned
    BY <1>6
  <2>4. a[1] = "banned" /\ a[2] \in DOMAIN g => g[a[2]].banned
    BY <1>1, <2>1, <2>2, <2>3 DEF Subs!KeptIn
  <2>5. a[1] = "banned" => Subs!KeptIn(z, a)
    BY <1>3, <2>4 DEF Subs!KeptIn
  <2> QED BY <1>1, <1>3, <2>1, <2>2, <2>5 DEF Subs!KeptIn
<1> QED BY <1>1, <1>3, <1>4, <1>5, <1>6 DEF Subs!Sound

\* An account, with its orders, gone: the only one the answer says is.
LEMMA SubsGone ==
    ASSUME NEW s, NEW p, NEW m, NEW c, NEW t, Subs!Sound(s, p, m, c, t), NEW u,
           NEW z, z = [s EXCEPT !.users = Subs!WithoutKey(@, {u}),
                                !.orders = Subs!WithoutKey(@, {o \in DOMAIN @ : @[o].user = u})]
    PROVE  Subs!Sound(z, p, m, c, t \cup {<<"gone", u>>})
<1>a. Subs!Stored(s)
  BY DEF Subs!Sound
<1>b. /\ Subs!Partly(s.users, People, Subs!User) /\ Subs!Partly(s.orders, Bills, Subs!Order)
      /\ Subs!Partly(s.keys, Tickets, Subs!Key)
  BY <1>a DEF Subs!Stored
<1>u. Subs!Partly(s.users, People, Subs!User)
  BY <1>b
<1>o. Subs!Partly(s.orders, Bills, Subs!Order)
  BY <1>b
<1>g. PICK g : g = Subs!WithoutKey(s.users, {u})
  OBVIOUS
<1>d. PICK d : d = {o \in DOMAIN s.orders : s.orders[o].user = u}
  OBVIOUS
<1>h. PICK h : h = Subs!WithoutKey(s.orders, d)
  OBVIOUS
<1>1. /\ Subs!Partly(g, People, Subs!User) /\ DOMAIN g = DOMAIN s.users \ {u}
      /\ \A y \in DOMAIN g : g[y] = s.users[y]
  BY <1>u, <1>g, SubsWithout
<1>2. /\ Subs!Partly(h, Bills, Subs!Order)
      /\ DOMAIN h = DOMAIN s.orders \ d
      /\ \A y \in DOMAIN h : h[y] = s.orders[y]
  BY <1>o, <1>h, SubsWithout
<1>3. z = [users |-> g, orders |-> h, keys |-> s.keys]
  BY <1>a, <1>d, <1>g, <1>h DEF Subs!Stored
<1>4. Subs!Stored(z) /\ z.users = g /\ z.orders = h /\ z.keys = s.keys
  BY <1>b, <1>1, <1>2, <1>3, SubsStored
<1>5. \A v \in DOMAIN g : Subs!AccountOk(g[v], p, m, c)
  BY <1>1 DEF Subs!Sound
<1>6. \A v, w \in DOMAIN g : g[v].login = g[w].login => v = w
  BY <1>1 DEF Subs!Sound
<1>7. \A o \in DOMAIN h : Subs!OrderOk(h[o], DOMAIN g)
  BY <1>1, <1>2, <1>d DEF Subs!Sound, Subs!OrderOk
<1>8. ASSUME NEW a \in t \cup {<<"gone", u>>} PROVE Subs!KeptIn(z, a)
  <2>1. a \in t => Subs!KeptIn(s, a)
    BY DEF Subs!Sound
  <2>2. a = <<"gone", u>> => Subs!KeptIn(z, a)
    BY <1>1, <1>4 DEF Subs!KeptIn
  <2>3. DOMAIN z.users \subseteq DOMAIN s.users /\ \A y \in DOMAIN z.users : z.users[y] = s.users[y]
    BY <1>1, <1>4
  <2>4. DOMAIN z.orders \subseteq DOMAIN s.orders /\ \A y \in DOMAIN z.orders : z.orders[y] = s.orders[y]
    BY <1>2, <1>4
  <2>5. ASSUME Subs!KeptIn(s, a) PROVE Subs!KeptIn(z, a)
    <3>1. a[1] = "paid" /\ a[2] \in DOMAIN z.orders => z.orders[a[2]].status = "paid"
      BY <2>4, <2>5 DEF Subs!KeptIn
    <3>2. a[1] = "banned" /\ a[2] \in DOMAIN z.users => z.users[a[2]].banned
      BY <2>3, <2>5 DEF Subs!KeptIn
    <3>k. a[1] = "revoked" => a[2] \in DOMAIN s.keys /\ s.keys[a[2]].revoked
      BY <2>5 DEF Subs!KeptIn
    <3>z. z.keys = s.keys
      BY <1>4
    <3>3. a[1] = "revoked" => a[2] \in DOMAIN z.keys /\ z.keys[a[2]].revoked
      BY <3>k, <3>z
    <3>4. a[1] = "gone" => a[2] \notin DOMAIN z.users
      BY <2>3, <2>5 DEF Subs!KeptIn
    <3> QED BY <3>1, <3>2, <3>3, <3>4 DEF Subs!KeptIn
  <2> QED BY <2>1, <2>2, <2>5
<1> QED BY <1>4, <1>5, <1>6, <1>7, <1>8 DEF Subs!Sound

\* An account more, of a name nobody has, of whom nothing was answered.
LEMMA SubsNew ==
    ASSUME NEW s, NEW p, NEW m, NEW c, NEW t, Subs!Sound(s, p, m, c, t),
           NEW u \in People, u \notin DOMAIN s.users, NEW rec, Subs!AccountOk(rec, p, m, c),
           \A v \in DOMAIN s.users : s.users[v].login # rec.login,
           \A a \in t : a[1] \in {"gone", "banned"} => a[2] # u,
           NEW z, z = [s EXCEPT !.users = Subs!With(@, u, rec)]
    PROVE  Subs!Sound(z, p, m, c, t)
<1>a. Subs!Stored(s)
  BY DEF Subs!Sound
<1>d. rec \in Subs!User
  BY DEF Subs!AccountOk
<1>b. /\ Subs!Partly(s.users, People, Subs!User) /\ Subs!Partly(s.orders, Bills, Subs!Order)
      /\ Subs!Partly(s.keys, Tickets, Subs!Key)
  BY <1>a DEF Subs!Stored
<1>u. Subs!Partly(s.users, People, Subs!User)
  BY <1>b
<1>g. PICK g : g = Subs!With(s.users, u, rec)
  OBVIOUS
<1>1. /\ Subs!Partly(g, People, Subs!User) /\ DOMAIN g = DOMAIN s.users \cup {u} /\ g[u] = rec
      /\ \A y \in DOMAIN s.users : y # u => g[y] = s.users[y]
  <2>1. g = [y \in DOMAIN s.users \cup {u} |-> IF y = u THEN rec ELSE s.users[y]]
    BY <1>g DEF Subs!With
  <2>3. DOMAIN g = DOMAIN s.users \cup {u} /\ g[u] = rec
        /\ \A y \in DOMAIN s.users : y # u => g[y] = s.users[y]
    BY <2>1
  <2>4. g = [y \in DOMAIN g |-> g[y]]
    BY <2>1
  <2> QED BY <1>d, <1>u, <2>3, <2>4 DEF Subs!Partly
<1>2. z = [users |-> g, orders |-> s.orders, keys |-> s.keys]
  BY <1>a, <1>g, SubsParts
<1>3. Subs!Stored(z) /\ z.users = g /\ z.orders = s.orders /\ z.keys = s.keys
  BY <1>b, <1>1, <1>2, SubsStored
<1>4. \A v \in DOMAIN g : Subs!AccountOk(g[v], p, m, c)
  BY <1>1 DEF Subs!Sound
<1>5. \A v, w \in DOMAIN g : g[v].login = g[w].login => v = w
  <2>1. \A v \in DOMAIN s.users : v # u /\ g[v] = s.users[v] /\ g[v].login # g[u].login
    BY <1>1
  <2>2. \A v, w \in DOMAIN s.users : s.users[v].login = s.users[w].login => v = w
    BY DEF Subs!Sound
  <2> QED BY <1>1, <2>1, <2>2
<1>6. ASSUME NEW a \in t PROVE Subs!KeptIn(z, a)
  <2>1. Subs!KeptIn(s, a)
    BY DEF Subs!Sound
  <2>2. a[1] \in {"gone", "banned"} => a[2] # u
    BY <1>6
  <2> QED BY <1>1, <1>3, <2>1, <2>2 DEF Subs!KeptIn
<1>7. \A o \in DOMAIN s.orders : Subs!OrderOk(s.orders[o], DOMAIN g)
  BY <1>1 DEF Subs!Sound, Subs!OrderOk
<1> QED BY <1>1, <1>3, <1>4, <1>5, <1>6, <1>7 DEF Subs!Sound

\* An order, new or another than it was.
LEMMA SubsOrder ==
    ASSUME NEW s, NEW p, NEW m, NEW c, NEW t, Subs!Sound(s, p, m, c, t),
           NEW o \in Bills, NEW ord, ord \in Subs!Order, Subs!OrderOk(ord, DOMAIN s.users),
           NEW w, \A a \in w : a \in t \/ (a[1] = "paid" /\ a[2] = o),
           \A a \in w : a[1] = "paid" /\ a[2] = o => ord.status = "paid",
           NEW z, z = [s EXCEPT !.orders = Subs!With(@, o, ord)]
    PROVE  Subs!Sound(z, p, m, c, w) /\ z.users = s.users
<1>a. Subs!Stored(s)
  BY DEF Subs!Sound
<1>b. /\ Subs!Partly(s.users, People, Subs!User) /\ Subs!Partly(s.orders, Bills, Subs!Order)
      /\ Subs!Partly(s.keys, Tickets, Subs!Key)
  BY <1>a DEF Subs!Stored
<1>o. Subs!Partly(s.orders, Bills, Subs!Order)
  BY <1>b
<1>g. PICK g : g = Subs!With(s.orders, o, ord)
  OBVIOUS
<1>1. /\ Subs!Partly(g, Bills, Subs!Order) /\ DOMAIN g = DOMAIN s.orders \cup {o} /\ g[o] = ord
      /\ \A y \in DOMAIN s.orders : y # o => g[y] = s.orders[y]
  <2>1. g = [y \in DOMAIN s.orders \cup {o} |-> IF y = o THEN ord ELSE s.orders[y]]
    BY <1>g DEF Subs!With
  <2>3. DOMAIN g = DOMAIN s.orders \cup {o} /\ g[o] = ord
        /\ \A y \in DOMAIN s.orders : y # o => g[y] = s.orders[y]
    BY <2>1
  <2>4. g = [y \in DOMAIN g |-> g[y]]
    BY <2>1
  <2> QED BY <1>o, <2>3, <2>4 DEF Subs!Partly
<1>2. z = [users |-> s.users, orders |-> g, keys |-> s.keys]
  BY <1>a, <1>g, SubsParts
<1>3. Subs!Stored(z) /\ z.users = s.users /\ z.orders = g /\ z.keys = s.keys
  BY <1>b, <1>1, <1>2, SubsStored
<1>6. ASSUME NEW a \in w PROVE Subs!KeptIn(z, a)
  <2>1. a \in t => Subs!KeptIn(s, a)
    BY DEF Subs!Sound
  <2>2. a \in t \/ (a[1] = "paid" /\ a[2] = o)
    BY <1>6
  <2>3. a[1] = "paid" /\ a[2] = o => ord.status = "paid"
    BY <1>6
  <2>4. a[1] = "paid" /\ a[2] \in DOMAIN g => g[a[2]].status = "paid"
    BY <1>1, <2>1, <2>2, <2>3 DEF Subs!KeptIn
  <2>5. a[1] = "paid" => Subs!KeptIn(z, a)
    BY <1>3, <2>4 DEF Subs!KeptIn
  <2> QED BY <1>1, <1>3, <2>1, <2>2, <2>5 DEF Subs!KeptIn
<1>7. \A x \in DOMAIN g : Subs!OrderOk(g[x], DOMAIN s.users)
  BY <1>1 DEF Subs!Sound
<1>8. /\ \A u \in DOMAIN s.users : Subs!AccountOk(s.users[u], p, m, c)
      /\ \A u, v \in DOMAIN s.users : s.users[u].login = s.users[v].login => u = v
  BY DEF Subs!Sound
<1> QED BY <1>3, <1>6, <1>7, <1>8 DEF Subs!Sound

\* A key, new or another than it was.
LEMMA SubsKey ==
    ASSUME NEW s, NEW p, NEW m, NEW c, NEW t, Subs!Sound(s, p, m, c, t),
           NEW k \in Tickets, NEW key, key \in Subs!Key,
           NEW w, \A a \in w : a \in t \/ (a[1] = "revoked" /\ a[2] = k),
           \A a \in w : a[1] = "revoked" /\ a[2] = k => key.revoked,
           NEW z, z = [s EXCEPT !.keys = Subs!With(@, k, key)]
    PROVE  Subs!Sound(z, p, m, c, w)
<1>a. Subs!Stored(s)
  BY DEF Subs!Sound
<1>b. /\ Subs!Partly(s.users, People, Subs!User) /\ Subs!Partly(s.orders, Bills, Subs!Order)
      /\ Subs!Partly(s.keys, Tickets, Subs!Key)
  BY <1>a DEF Subs!Stored
<1>o. Subs!Partly(s.keys, Tickets, Subs!Key)
  BY <1>b
<1>g. PICK g : g = Subs!With(s.keys, k, key)
  OBVIOUS
<1>1. /\ Subs!Partly(g, Tickets, Subs!Key) /\ DOMAIN g = DOMAIN s.keys \cup {k} /\ g[k] = key
      /\ \A y \in DOMAIN s.keys : y # k => g[y] = s.keys[y]
  <2>1. g = [y \in DOMAIN s.keys \cup {k} |-> IF y = k THEN key ELSE s.keys[y]]
    BY <1>g DEF Subs!With
  <2>3. DOMAIN g = DOMAIN s.keys \cup {k} /\ g[k] = key
        /\ \A y \in DOMAIN s.keys : y # k => g[y] = s.keys[y]
    BY <2>1
  <2>4. g = [y \in DOMAIN g |-> g[y]]
    BY <2>1
  <2> QED BY <1>o, <2>3, <2>4 DEF Subs!Partly
<1>2. z = [users |-> s.users, orders |-> s.orders, keys |-> g]
  BY <1>a, <1>g, SubsParts
<1>3. Subs!Stored(z) /\ z.users = s.users /\ z.orders = s.orders /\ z.keys = g
  <2>1. Subs!Partly(s.users, People, Subs!User)
    BY <1>b
  <2>2. Subs!Partly(s.orders, Bills, Subs!Order)
    BY <1>b
  <2>3. Subs!Partly(g, Tickets, Subs!Key)
    BY <1>1
  <2>4. z.users = s.users /\ z.orders = s.orders /\ z.keys = g
    BY <1>2
  <2>5. z = [users |-> z.users, orders |-> z.orders, keys |-> z.keys]
    BY <1>2, <2>4
  <2>6. Subs!Stored(z)
    BY <2>1, <2>2, <2>3, <2>4, <2>5 DEF Subs!Stored
  <2> QED BY <2>4, <2>6
<1>6. ASSUME NEW a \in w PROVE Subs!KeptIn(z, a)
  <2>1. a \in t => Subs!KeptIn(s, a)
    BY DEF Subs!Sound
  <2>2. a \in t \/ (a[1] = "revoked" /\ a[2] = k)
    BY <1>6
  <2>3. a[1] = "revoked" /\ a[2] = k => key.revoked
    BY <1>6
  <2>4. a[1] = "revoked" => a[2] \in DOMAIN g /\ g[a[2]].revoked
    BY <1>1, <2>1, <2>2, <2>3 DEF Subs!KeptIn
  <2>5. a[1] = "revoked" => Subs!KeptIn(z, a)
    BY <1>3, <2>4 DEF Subs!KeptIn
  <2> QED BY <1>1, <1>3, <2>1, <2>2, <2>5 DEF Subs!KeptIn
<1>8. /\ \A u \in DOMAIN s.users : Subs!AccountOk(s.users[u], p, m, c)
      /\ \A u, v \in DOMAIN s.users : s.users[u].login = s.users[v].login => u = v
      /\ \A x \in DOMAIN s.orders : Subs!OrderOk(s.orders[x], DOMAIN s.users)
  BY DEF Subs!Sound
<1> QED BY <1>3, <1>6, <1>8 DEF Subs!Sound

\* What is saved, or not saved and undone or kept, is in order when both are.
LEMMA SubsSaves ==
    ASSUME NEW z, NEW undone, NEW answer, Subs!Saves(z, undone, answer), aFaults \in 0..MaxUnsaved,
           NEW p, NEW m, NEW c, Subs!Sound(aDisk, p, m, c, aTold),
           Subs!Sound(undone, p, m, c, aTold), Subs!Sound(z, p, m, c, aTold \cup answer)
    PROVE  /\ Subs!Sound(aState', p, m, c, aTold') /\ Subs!Sound(aDisk', p, m, c, aTold')
           /\ aFaults' \in 0..MaxUnsaved /\ aTold' \subseteq aTold \cup answer
<1>1. CASE aState' = z /\ aDisk' = z /\ aTold' = aTold \cup answer /\ aFaults' = aFaults
  BY <1>1
<1>2. CASE aFaults < MaxUnsaved /\ aFaults' = aFaults + 1 /\ aState' = undone
           /\ aDisk' = aDisk /\ aTold' = aTold
  BY <1>2, SubsNumbers
<1> QED BY <1>1, <1>2 DEF Subs!Saves

\* Devices: one cut out, one more.
LEMMA SubsCut ==
    ASSUME NEW T, NEW s \in Seq(T), NEW i \in 1..Len(s), NEW z, z = Subs!Cut(s, i)
    PROVE  /\ z \in Seq(T) /\ Len(z) = Len(s) - 1
           /\ \A x \in DOMAIN z : \E y \in DOMAIN s : z[x] = s[y]
<1>1. z = SubSeq(s, 1, i - 1) \o SubSeq(s, i + 1, Len(s))
  BY DEF Subs!Cut, Subs!RemoveAt
<1>a. PICK a : a = SubSeq(s, 1, i - 1)
  OBVIOUS
<1>b. PICK b : b = SubSeq(s, i + 1, Len(s))
  OBVIOUS
<1>2. a \in Seq(T) /\ Len(a) = i - 1 /\ \A x \in 1..Len(a) : a[x] = s[x]
  BY <1>a
<1>3. b \in Seq(T) /\ Len(b) = Len(s) - i /\ \A x \in 1..Len(b) : b[x] = s[i + x]
  BY <1>b
<1>4. z = a \o b
  BY <1>1, <1>a, <1>b
<1>5. z \in Seq(T) /\ Len(z) = Len(s) - 1
  <2>1. z \in Seq(T)
    BY <1>2, <1>3, <1>4
  <2>3. a \in Seq(T) /\ b \in Seq(T)
    BY <1>2, <1>3
  <2>2. Len(z) = Len(a) + Len(b)
    BY <1>4, <2>3
  <2> QED BY <2>1, <2>2, <1>2, <1>3
<1>7. \A x \in 1..(Len(a) + Len(b)) : z[x] = IF x <= Len(a) THEN a[x] ELSE b[x - Len(a)]
  <2>1. a \in Seq(T) /\ b \in Seq(T)
    BY <1>2, <1>3
  <2> QED BY <1>4, <2>1
<1>6. ASSUME NEW x \in DOMAIN z PROVE \E y \in DOMAIN s : z[x] = s[y]
  <2>1. x \in 1..Len(a) + Len(b) /\ Len(a) \in Nat /\ Len(b) \in Nat
    BY <1>2, <1>3, <1>4, <1>5
  <2>2. CASE x <= Len(a)
    <3>1. z[x] = a[x] /\ x \in 1..Len(a) /\ x \in DOMAIN s
      BY <1>2, <1>7, <2>1, <2>2
    <3> QED BY <1>2, <3>1
  <2>3. CASE x > Len(a)
    <3>0. x - Len(a) \in 1..Len(b)
      BY <2>1, <2>3
    <3>1. z[x] = b[x - Len(a)] /\ x - Len(a) \in 1..Len(b)
      BY <1>7, <2>1, <2>3, <3>0
    <3>2. i + (x - Len(a)) \in DOMAIN s
      BY <3>1, <1>2, <1>3
    <3> QED BY <3>1, <3>2, <1>3
  <2> QED BY <2>1, <2>2, <2>3
<1> QED BY <1>5, <1>6

LEMMA SubsDevice ==
    ASSUME NEW rec, NEW p \in Nat, NEW m \in Nat, NEW c, Subs!AccountOk(rec, p, m, c), ~rec.banned,
           aMade = m, NEW pass \in Nat, c \/ pass = rec.pass,
           NEW replaced, Subs!Full(rec) => replaced \in 1..Len(rec.devices),
           NEW z, z = Subs!WithDevice(rec, replaced, pass)
    PROVE  Subs!AccountOk(z, p, m + 1, c) /\ z.login = rec.login /\ z.banned = rec.banned
<1>1. rec \in Subs!User /\ rec.devices \in Seq(Subs!Device)
  BY DEF Subs!AccountOk, Subs!User
<1>d. PICK d : d = IF Subs!Full(rec) THEN Subs!Cut(rec.devices, replaced) ELSE rec.devices
  OBVIOUS
<1>2. d \in Seq(Subs!Device) /\ \A x \in DOMAIN d : \E y \in DOMAIN rec.devices : d[x] = rec.devices[y]
  <2>1. CASE Subs!Full(rec)
    BY <1>1, <1>d, <2>1, SubsCut
  <2>2. CASE ~Subs!Full(rec)
    BY <1>1, <1>d, <2>2
  <2> QED BY <2>1, <2>2
<1>n. PICK n : n = [id |-> m + 1, pass |-> pass]
  OBVIOUS
<1>3. n \in Subs!Device
  BY <1>n DEF Subs!Device
<1>e. PICK e : e = Append(d, n)
  OBVIOUS
<1>4. /\ e \in Seq(Subs!Device) /\ DOMAIN e = 1..Len(d) + 1 /\ e[Len(d) + 1] = n
      /\ DOMAIN d = 1..Len(d) /\ Len(d) \in Nat
      /\ \A x \in 1..Len(d) : e[x] = d[x]
  BY <1>2, <1>3, <1>e
<1>5. z = [rec EXCEPT !.devices = e]
  BY <1>d, <1>n, <1>e DEF Subs!WithDevice
<1>6. /\ z \in Subs!User /\ z.devices = e /\ z.pass = rec.pass
      /\ z.login = rec.login /\ z.banned = rec.banned
  BY <1>1, <1>4, <1>5 DEF Subs!User
<1>7. ASSUME NEW x \in DOMAIN e PROVE e[x].id \in 1..m + 1 /\ (~c => e[x].pass = rec.pass)
  <2>1. x = Len(d) + 1 \/ x \in 1..Len(d)
    BY <1>4
  <2>2. CASE x = Len(d) + 1
    BY <1>4, <1>n, <2>2
  <2>3. CASE x \in 1..Len(d)
    <3>1. PICK y \in DOMAIN rec.devices : e[x] = rec.devices[y]
      BY <1>2, <1>4, <2>3
    <3> QED BY <3>1 DEF Subs!AccountOk
  <2> QED BY <2>1, <2>2, <2>3
<1>8. z.pass \in 1..p /\ ~z.banned
  BY <1>6 DEF Subs!AccountOk
<1>9. z.banned = rec.banned
  BY <1>6
<1> QED BY <1>6, <1>7, <1>8, <1>9 DEF Subs!AccountOk

\* The requests under way and the wrong answers counted.
LEMMA SubsImage ==
    ASSUME NEW R, IsFiniteSet(R), NEW h, h = [x \in R |-> h[x]], NEW S, S = {h[x] : x \in R}
    PROVE  IsFiniteSet(S) /\ Cardinality(S) <= Cardinality(R)
<1>1. h \in Surjection(R, S)
  BY DEF Surjection
<1> QED BY <1>1, FS_Surjection

LEMMA SubsOf ==
    ASSUME NEW R, NEW f, Subs!Within(R, f)
    PROVE  /\ R \subseteq Subs!Request /\ IsFiniteSet(R)
           /\ Cardinality(R) \in Nat /\ Cardinality(R) <= MaxOpen
           /\ f \in [Handles -> Nat]
           /\ \A l : /\ Subs!Of(R, l) \subseteq R /\ IsFiniteSet(Subs!Of(R, l))
                     /\ Cardinality(Subs!Of(R, l)) \in Nat
           /\ \A l \in Handles : f[l] + Cardinality(Subs!Of(R, l)) <= MaxWrong + MaxOpen
<1>1. /\ R \subseteq Subs!Request /\ Subs!IsFiniteSet(R) /\ Subs!Cardinality(R) <= MaxOpen
      /\ f \in [Handles -> Nat]
      /\ \A l \in Handles : f[l] + Subs!Cardinality(Subs!Of(R, l)) <= MaxWrong + MaxOpen
  BY DEF Subs!Within
<1>2. IsFiniteSet(R) /\ Cardinality(R) <= MaxOpen
  BY <1>1, SubsSizes
<1>3. Cardinality(R) \in Nat
  BY <1>2, FS_CardinalityType
<1>4. ASSUME NEW l PROVE /\ Subs!Of(R, l) \subseteq R /\ IsFiniteSet(Subs!Of(R, l))
                         /\ Cardinality(Subs!Of(R, l)) \in Nat
  <2>1. Subs!Of(R, l) \subseteq R
    BY DEF Subs!Of
  <2>2. IsFiniteSet(Subs!Of(R, l))
    BY <1>2, <2>1, FS_Subset
  <2> QED BY <2>1, <2>2, FS_CardinalityType
<1>5. \A l \in Handles : f[l] + Cardinality(Subs!Of(R, l)) <= MaxWrong + MaxOpen
  BY <1>1, SubsSizes
<1> QED BY <1>1, <1>2, <1>3, <1>4, <1>5

LEMMA SubsIsWithin ==
    ASSUME NEW R, NEW f, R \subseteq Subs!Request, IsFiniteSet(R), Cardinality(R) <= MaxOpen,
           f \in [Handles -> Nat],
           \A l \in Handles : f[l] + Cardinality(Subs!Of(R, l)) <= MaxWrong + MaxOpen
    PROVE  Subs!Within(R, f)
<1>1. Subs!IsFiniteSet(R) /\ Subs!Cardinality(R) <= MaxOpen
  BY SubsSizes
<1>2. \A l \in Handles : f[l] + Subs!Cardinality(Subs!Of(R, l)) <= MaxWrong + MaxOpen
  BY SubsSizes
<1> QED BY <1>1, <1>2 DEF Subs!Within

\* Fewer requests, fewer wrong answers.
LEMMA SubsFewer ==
    ASSUME NEW R, NEW f, Subs!Within(R, f), NEW S, S \subseteq R,
           NEW g, g \in [Handles -> Nat], \A l \in Handles : g[l] <= f[l]
    PROVE  Subs!Within(S, g)
<1>1. S \subseteq Subs!Request /\ IsFiniteSet(S) /\ Cardinality(S) <= MaxOpen
  BY SubsOf, SubsNumbers, FS_Subset, FS_CardinalityType
<1>2. ASSUME NEW l \in Handles PROVE g[l] + Cardinality(Subs!Of(S, l)) <= MaxWrong + MaxOpen
  <2>1. Subs!Of(S, l) \subseteq Subs!Of(R, l)
    BY DEF Subs!Of
  <2>2. /\ IsFiniteSet(Subs!Of(R, l)) /\ Cardinality(Subs!Of(R, l)) \in Nat
        /\ f[l] + Cardinality(Subs!Of(R, l)) <= MaxWrong + MaxOpen /\ f[l] \in Nat
    BY SubsOf
  <2>3. IsFiniteSet(Subs!Of(S, l)) /\ Cardinality(Subs!Of(S, l)) <= Cardinality(Subs!Of(R, l))
    BY <2>1, <2>2, FS_Subset
  <2>4. Cardinality(Subs!Of(S, l)) \in Nat
    BY <2>3, FS_CardinalityType
  <2>5. g[l] <= f[l] /\ g[l] \in Nat
    OBVIOUS
  <2> QED BY <2>2, <2>3, <2>4, <2>5, SubsNumbers
<1> QED BY <1>1, <1>2, SubsIsWithin

\* A request more, while its login is looked at and there is room.
LEMMA SubsMore ==
    ASSUME NEW R, NEW f, Subs!Within(R, f), NEW r, r \in Subs!Request,
           f[r.login] < MaxWrong, Cardinality(R) < MaxOpen
    PROVE  Subs!Within(R \cup {r}, f)
<1>1. R \cup {r} \subseteq Subs!Request /\ IsFiniteSet(R \cup {r}) /\ Cardinality(R \cup {r}) <= MaxOpen
  <2>1. /\ R \subseteq Subs!Request /\ IsFiniteSet(R)
        /\ Cardinality(R) \in Nat /\ Cardinality(R) < MaxOpen
    BY SubsOf
  <2>2. IsFiniteSet(R \cup {r}) /\ Cardinality(R \cup {r}) <= Cardinality(R) + 1
    BY <2>1, FS_AddElement
  <2>3. Cardinality(R \cup {r}) \in Nat
    BY <2>2, FS_CardinalityType
  <2> QED BY <2>1, <2>2, <2>3, SubsNumbers
<1>2. ASSUME NEW l \in Handles PROVE f[l] + Cardinality(Subs!Of(R \cup {r}, l)) <= MaxWrong + MaxOpen
  <2>1. CASE r.login # l
    <3>1. Subs!Of(R \cup {r}, l) = Subs!Of(R, l)
      BY <2>1 DEF Subs!Of
    <3> QED BY <3>1, SubsOf
  <2>2. CASE r.login = l
    <3>1. Subs!Of(R \cup {r}, l) \subseteq R \cup {r}
      BY DEF Subs!Of
    <3>2. Cardinality(Subs!Of(R \cup {r}, l)) <= Cardinality(R \cup {r}) /\ IsFiniteSet(Subs!Of(R \cup {r}, l))
      BY <3>1, <1>1, FS_Subset
    <3>3. Cardinality(Subs!Of(R \cup {r}, l)) \in Nat /\ Cardinality(R \cup {r}) \in Nat
      BY <1>1, <3>2, FS_CardinalityType
    <3>4. f[l] \in Nat /\ f[l] < MaxWrong
      BY <2>2, SubsOf
    <3> QED BY <3>2, <3>3, <3>4, <1>1, SubsNumbers
  <2> QED BY <2>1, <2>2
<1> QED BY <1>1, <1>2, SubsOf, SubsIsWithin

\* A wrong answer more: of a request that ends with it, or of a login looked at.
LEMMA SubsAnswered ==
    ASSUME NEW R, NEW f, Subs!Within(R, f), NEW r \in R,
           NEW g, g = [f EXCEPT ![r.login] = @ + 1]
    PROVE  Subs!Within(R \ {r}, g)
<1>0. r.login \in Handles /\ g \in [Handles -> Nat]
  BY SubsOf DEF Subs!Request
<1>1. R \ {r} \subseteq Subs!Request /\ IsFiniteSet(R \ {r}) /\ Cardinality(R \ {r}) <= MaxOpen
  <2>1. /\ R \subseteq Subs!Request /\ IsFiniteSet(R)
        /\ Cardinality(R) \in Nat /\ Cardinality(R) <= MaxOpen
    BY SubsOf
  <2>2. IsFiniteSet(R \ {r}) /\ Cardinality(R \ {r}) <= Cardinality(R)
    BY <2>1, FS_Subset
  <2>3. Cardinality(R \ {r}) \in Nat
    BY <2>2, FS_CardinalityType
  <2> QED BY <2>1, <2>2, <2>3, SubsNumbers
<1>2. ASSUME NEW l \in Handles PROVE g[l] + Cardinality(Subs!Of(R \ {r}, l)) <= MaxWrong + MaxOpen
  <2>0. f[l] \in Nat /\ f[l] + Cardinality(Subs!Of(R, l)) <= MaxWrong + MaxOpen
        /\ IsFiniteSet(Subs!Of(R, l)) /\ Cardinality(Subs!Of(R, l)) \in Nat
    BY SubsOf
  <2>1. CASE r.login # l
    <3>1. Subs!Of(R \ {r}, l) = Subs!Of(R, l) /\ g[l] = f[l]
      BY <2>1, SubsOf DEF Subs!Of
    <3> QED BY <3>1, <2>0
  <2>2. CASE r.login = l
    <3>1. Subs!Of(R \ {r}, l) = Subs!Of(R, l) \ {r} /\ r \in Subs!Of(R, l)
      BY <2>2 DEF Subs!Of
    <3>2. Cardinality(Subs!Of(R \ {r}, l)) = Cardinality(Subs!Of(R, l)) - 1
      BY <3>1, <2>0, FS_RemoveElement
    <3>3. g[l] = f[l] + 1
      BY <1>0, <2>2, SubsOf
    <3> QED BY <2>0, <3>2, <3>3, SubsNumbers
  <2> QED BY <2>1, <2>2
<1> QED BY <1>0, <1>1, <1>2, SubsIsWithin

LEMMA SubsRefused ==
    ASSUME NEW R, NEW f, Subs!Within(R, f), NEW l \in Handles, f[l] < MaxWrong,
           NEW g, g = [f EXCEPT ![l] = @ + 1]
    PROVE  Subs!Within(R, g)
<1>1. g \in [Handles -> Nat] /\ g[l] = f[l] + 1 /\ \A h \in Handles \ {l} : g[h] = f[h]
  BY SubsOf
<1>2. ASSUME NEW h \in Handles PROVE g[h] + Cardinality(Subs!Of(R, h)) <= MaxWrong + MaxOpen
  <2>1. CASE h # l
    BY <2>1, <1>1, SubsOf
  <2>2. CASE h = l
    <3>1. Cardinality(Subs!Of(R, l)) <= Cardinality(R)
      BY SubsOf, FS_Subset
    <3>2. /\ Cardinality(R) \in Nat /\ Cardinality(R) <= MaxOpen /\ f[l] \in Nat
          /\ Cardinality(Subs!Of(R, l)) \in Nat
      BY SubsOf
    <3> QED BY <2>2, <3>1, <3>2, <1>1, SubsNumbers
  <2> QED BY <2>1, <2>2
<1> QED BY <1>1, <1>2, SubsOf, SubsIsWithin

\* Requests of the same logins, that see other devices.
LEMMA SubsSeeing ==
    ASSUME NEW R, NEW f, Subs!Within(R, f), NEW h, h = [x \in R |-> h[x]],
           \A x \in R : h[x] \in Subs!Request /\ h[x].login = x.login,
           NEW S, S = {h[x] : x \in R}
    PROVE  Subs!Within(S, f)
<1>0. IsFiniteSet(R) /\ Cardinality(R) \in Nat /\ Cardinality(R) <= MaxOpen
  BY SubsOf
<1>a. IsFiniteSet(S) /\ Cardinality(S) <= Cardinality(R)
  BY <1>0, SubsImage
<1>b. Cardinality(S) \in Nat
  BY <1>a, FS_CardinalityType
<1>1. S \subseteq Subs!Request /\ IsFiniteSet(S) /\ Cardinality(S) <= MaxOpen
  BY <1>0, <1>a, <1>b, SubsNumbers
<1>2. ASSUME NEW l \in Handles PROVE f[l] + Cardinality(Subs!Of(S, l)) <= MaxWrong + MaxOpen
  <2>1. PICK Q : Q = Subs!Of(R, l)
    OBVIOUS
  <2>2. PICK T : T = Subs!Of(S, l)
    OBVIOUS
  <2>3. PICK k : k = [x \in Q |-> h[x]]
    OBVIOUS
  <2>4. T = {k[x] : x \in Q}
    <3>1. Q = {x \in R : x.login = l} /\ T = {y \in S : y.login = l}
      BY <2>1, <2>2 DEF Subs!Of
    <3>2. \A x \in R : h[x].login = x.login
      OBVIOUS
    <3>3. Q \subseteq R /\ \A x \in Q : k[x] = h[x]
      BY <2>3, <3>1
    <3>4. \A y \in T : \E x \in Q : y = k[x]
      <4> TAKE y \in T
      <4>1. PICK x \in R : y = h[x]
        BY <3>1
      <4>2. x \in Q
        BY <3>1, <3>2, <4>1
      <4> QED BY <3>3, <4>1, <4>2
    <3>5. \A x \in Q : k[x] \in T
      BY <3>1, <3>2, <3>3
    <3> QED BY <3>4, <3>5
  <2>5. k = [x \in Q |-> k[x]]
    BY <2>3
  <2>6. /\ IsFiniteSet(Q) /\ Cardinality(Q) \in Nat
        /\ f[l] + Cardinality(Q) <= MaxWrong + MaxOpen /\ f[l] \in Nat
    BY <2>1, SubsOf
  <2>7. IsFiniteSet(T) /\ Cardinality(T) <= Cardinality(Q)
    BY <2>4, <2>5, <2>6, SubsImage
  <2>8. Cardinality(T) \in Nat
    BY <2>7, FS_CardinalityType
  <2> QED BY <2>2, <2>6, <2>7, <2>8, SubsNumbers
<1>3. f \in [Handles -> Nat]
  BY SubsOf
<1> QED BY <1>1, <1>2, <1>3, SubsIsWithin

LEMMA SubsDetached ==
    ASSUME NEW R, NEW f, Subs!Within(R, f), NEW u
    PROVE  Subs!Within(Subs!Detached(R, u), f)
<1>1. PICK h : h = [x \in R |-> IF x.user = u THEN [x EXCEPT !.slot = 0] ELSE x]
  OBVIOUS
<1>2. PICK S : S = Subs!Detached(R, u)
  OBVIOUS
<1>3. S = {h[x] : x \in R}
  BY <1>1, <1>2 DEF Subs!Detached
<1>4. h = [x \in R |-> h[x]]
  BY <1>1
<1>5. ASSUME NEW x \in R PROVE h[x] \in Subs!Request /\ h[x].login = x.login
  <2>1. x \in Subs!Request
    BY SubsOf
  <2> QED BY <1>1, <2>1 DEF Subs!Request
<1> QED BY <1>2, <1>3, <1>4, <1>5, SubsSeeing

LEMMA SubsAppended ==
    ASSUME NEW R, NEW f, Subs!Within(R, f), NEW u, NEW n, NEW id \in Nat
    PROVE  Subs!Within(Subs!AfterAppend(R, u, n, id), f)
<1>1. PICK h : h = [x \in R |-> IF x.user = u /\ x.slot = n THEN [x EXCEPT !.dev = id] ELSE x]
  OBVIOUS
<1>2. PICK S : S = Subs!AfterAppend(R, u, n, id)
  OBVIOUS
<1>3. S = {h[x] : x \in R}
  BY <1>1, <1>2 DEF Subs!AfterAppend
<1>4. h = [x \in R |-> h[x]]
  BY <1>1
<1>5. ASSUME NEW x \in R PROVE h[x] \in Subs!Request /\ h[x].login = x.login
  <2>1. x \in Subs!Request
    BY SubsOf
  <2> QED BY <1>1, <2>1 DEF Subs!Request
<1> QED BY <1>2, <1>3, <1>4, <1>5, SubsSeeing

LEMMA SubsCutOut ==
    ASSUME NEW R, NEW f, Subs!Within(R, f), NEW u, NEW i \in Nat \ {0},
           Subs!Stored(aState), u \in DOMAIN aState.users
    PROVE  Subs!Within(Subs!AfterCut(R, u, i), f)
<1>d. PICK d : d = aState.users[u].devices
  OBVIOUS
<1>0. d \in Seq(Subs!Device)
  BY <1>d DEF Subs!Stored, Subs!Partly, Subs!User
<1>1. PICK h : h = [x \in R |-> IF x.user = u /\ x.slot \in i..Len(d) - 1
                               THEN [x EXCEPT !.dev = d[x.slot + 1].id] ELSE x]
  OBVIOUS
<1>2. PICK S : S = Subs!AfterCut(R, u, i)
  OBVIOUS
<1>3. S = {h[x] : x \in R}
  BY <1>1, <1>2, <1>d DEF Subs!AfterCut, Subs!users
<1>4. h = [x \in R |-> h[x]]
  BY <1>1
<1>5. ASSUME NEW x \in R PROVE h[x] \in Subs!Request /\ h[x].login = x.login
  <2>1. x \in Subs!Request
    BY SubsOf
  <2>2. x.slot \in i..Len(d) - 1 => d[x.slot + 1].id \in Nat
    <3>1. x.slot \in i..Len(d) - 1 => x.slot + 1 \in 1..Len(d)
      BY <1>0, <2>1 DEF Subs!Request
    <3>2. \A y \in 1..Len(d) : d[y] \in Subs!Device
      BY <1>0
    <3>3. \A y \in 1..Len(d) : d[y].id \in Nat
      BY <3>2 DEF Subs!Device
    <3> QED BY <3>1, <3>3
  <2> QED BY <1>1, <2>1, <2>2 DEF Subs!Request
<1> QED BY <1>2, <1>3, <1>4, <1>5, SubsSeeing

LEMMA SubsAdds ==
    ASSUME NEW R, NEW f, Subs!Within(R, f), NEW u, u \in DOMAIN aState.users, Subs!Stored(aState),
           NEW rec, rec \in Subs!User, NEW replaced, Subs!AddDevice(R, u, rec, replaced),
           aMade \in 0..MaxPhones
    PROVE  /\ Subs!Within(aRequests', f) /\ aMade' = aMade + 1 /\ aMade < MaxPhones
           /\ Subs!Full(rec) => replaced \in 1..Len(rec.devices)
<1>n. PICK n : n = Len(rec.devices)
  OBVIOUS
<1>m. PICK m : m = aMade + 1
  OBVIOUS
<1>0. n \in Nat /\ m \in Nat
  BY <1>n, <1>m, SubsNumbers DEF Subs!User
<1>1. aMade' = aMade + 1 /\ aMade < MaxPhones
  BY DEF Subs!AddDevice
<1>2. CASE /\ Subs!Full(rec) /\ replaced \in 1..n
           /\ aRequests' = Subs!AfterAppend(Subs!AfterCut(R, u, replaced), u, n, m)
  <2>1. PICK Q : Q = Subs!AfterCut(R, u, replaced)
    OBVIOUS
  <2>2. replaced \in Nat \ {0}
    BY <1>0, <1>2
  <2>3. Subs!Within(Q, f)
    BY <2>1, <2>2, SubsCutOut
  <2>4. Subs!Within(Subs!AfterAppend(Q, u, n, m), f)
    BY <1>0, <2>3, SubsAppended
  <2> QED BY <1>1, <1>2, <1>n, <2>1, <2>4
<1>3. CASE ~Subs!Full(rec) /\ aRequests' = Subs!AfterAppend(R, u, n + 1, m)
  <2>1. Subs!Within(Subs!AfterAppend(R, u, n + 1, m), f)
    BY <1>0, SubsAppended
  <2> QED BY <1>1, <1>3, <2>1
<1>4. CASE ~Subs!Full(rec) /\ aRequests' = Subs!Detached(R, u)
  <2>1. Subs!Within(Subs!Detached(R, u), f)
    BY SubsDetached
  <2> QED BY <1>1, <1>4, <2>1
<1> QED BY <1>n, <1>m, <1>2, <1>3, <1>4 DEF Subs!AddDevice

-----------------------------------------------------------------------------
LEMMA SubsFacts ==
    ASSUME Subs!IInv
    PROVE  /\ aScene \in Askings /\ aSecrets \in 0..MaxSecrets /\ aMade \in 0..MaxPhones
           /\ aNow \in 0..MaxDays /\ aFaults \in 0..MaxUnsaved
           /\ aSecrets \in Nat /\ aMade \in Nat /\ aNow \in Nat
           /\ aTold \subseteq Subs!Told /\ aCrossed \in BOOLEAN
           /\ Subs!Within(aRequests, aLim) /\ Subs!Stored(aState)
           /\ Subs!Sound(aState, aSecrets, aMade, aCrossed, aTold)
           /\ Subs!Sound(aDisk, aSecrets, aMade, aCrossed, aTold)
<1>1. Subs!Stored(aState)
  BY DEF Subs!IInv, Subs!Sound
<1> QED BY <1>1, SubsNumbers DEF Subs!IInv, Subs!Counts

LEMMA SubsTogether ==
    ASSUME aScene' \in Askings, aSecrets' \in 0..MaxSecrets, aMade' \in 0..MaxPhones,
           aNow' \in 0..MaxDays, aFaults' \in 0..MaxUnsaved, aTold' \subseteq Subs!Told,
           aCrossed' \in BOOLEAN, Subs!Within(aRequests', aLim'),
           Subs!Sound(aState', aSecrets', aMade', aCrossed', aTold'),
           Subs!Sound(aDisk', aSecrets', aMade', aCrossed', aTold')
    PROVE  Subs!IInv'
<1>1. Subs!Counts'
  BY DEF Subs!Counts
<1> QED BY <1>1 DEF Subs!IInv

\* Only requests come and go, and wrong answers are counted.
LEMMA SubsQuiet ==
    ASSUME Subs!IInv, Subs!Within(aRequests', aLim'),
           UNCHANGED <<aScene, aState, aDisk, aSecrets, aMade, aNow, aFaults, aTold, aCrossed>>
    PROVE  Subs!IInv'
<1>1. /\ Subs!Sound(aState', aSecrets', aMade', aCrossed', aTold')
      /\ Subs!Sound(aDisk', aSecrets', aMade', aCrossed', aTold')
  BY SubsFacts
<1> QED BY <1>1, SubsFacts, SubsTogether

\* Something is saved, or not.
LEMMA SubsWrites ==
    ASSUME Subs!IInv, NEW z, NEW undone, NEW answer, Subs!Saves(z, undone, answer),
           undone = z \/ undone = aState, aScene' = aScene, aNow' = aNow,
           aSecrets' \in 0..MaxSecrets, aSecrets <= aSecrets',
           aMade' \in 0..MaxPhones, aMade <= aMade', aCrossed' \in BOOLEAN, aCrossed => aCrossed',
           answer \subseteq Subs!Told, Subs!Within(aRequests', aLim'),
           Subs!Sound(z, aSecrets', aMade', aCrossed', aTold \cup answer)
    PROVE  Subs!IInv'
<1>p. PICK p : p = aSecrets'
  OBVIOUS
<1>m. PICK m : m = aMade'
  OBVIOUS
<1>c. PICK c : c = aCrossed'
  OBVIOUS
<1>0. p \in Nat /\ m \in Nat /\ aSecrets \in Nat /\ aMade \in Nat
      /\ aSecrets <= p /\ aMade <= m
  BY <1>p, <1>m, SubsFacts, SubsNumbers
<1>1. aCrossed => c
  BY <1>c
<1>2. aTold \subseteq aTold \cup answer /\ aTold \subseteq aTold
  OBVIOUS
<1>3. Subs!Sound(aState, aSecrets, aMade, aCrossed, aTold)
  BY SubsFacts
<1>4. Subs!Sound(aDisk, aSecrets, aMade, aCrossed, aTold)
  BY SubsFacts
<1>5. Subs!Sound(aState, p, m, c, aTold)
  BY <1>0, <1>1, <1>2, <1>3, SubsLater
<1>6. Subs!Sound(aDisk, p, m, c, aTold)
  BY <1>0, <1>1, <1>2, <1>4, SubsLater
<1>7. Subs!Sound(z, p, m, c, aTold \cup answer)
  BY <1>p, <1>m, <1>c
<1>8. Subs!Sound(z, p, m, c, aTold)
  <2>1. c => c
    OBVIOUS
  <2>2. p <= p /\ m <= m
    BY <1>0
  <2> QED BY <1>0, <1>2, <1>7, <2>1, <2>2, SubsLater
<1>9. Subs!Sound(undone, p, m, c, aTold)
  BY <1>5, <1>8
<1>10. aFaults \in 0..MaxUnsaved
  BY SubsFacts
<1>11. /\ Subs!Sound(aState', p, m, c, aTold') /\ Subs!Sound(aDisk', p, m, c, aTold')
       /\ aFaults' \in 0..MaxUnsaved /\ aTold' \subseteq aTold \cup answer
  BY <1>6, <1>7, <1>9, <1>10, SubsSaves
<1>12. aTold' \subseteq Subs!Told
  BY <1>11, SubsFacts
<1>13. /\ Subs!Sound(aState', aSecrets', aMade', aCrossed', aTold')
       /\ Subs!Sound(aDisk', aSecrets', aMade', aCrossed', aTold')
  BY <1>11, <1>p, <1>m, <1>c
<1>14. aScene' \in Askings /\ aNow' \in 0..MaxDays
  BY SubsFacts
<1> QED BY <1>11, <1>12, <1>13, <1>14, SubsTogether

\* What is known of an account.
LEMMA SubsRecord ==
    ASSUME Subs!IInv, NEW u, u \in DOMAIN aState.users, NEW rec, rec = aState.users[u]
    PROVE  /\ u \in People /\ Subs!AccountOk(rec, aSecrets, aMade, aCrossed) /\ rec \in Subs!User
           /\ rec.login \in Handles /\ rec.pass \in Nat /\ rec.pass <= aSecrets
           /\ rec.expires \in Nat /\ rec.expires <= MaxEnd
<1>1. Subs!AccountOk(rec, aSecrets, aMade, aCrossed)
  BY DEF Subs!IInv, Subs!Sound
<1>2. u \in People
  BY DEF Subs!IInv, Subs!Sound, Subs!Stored, Subs!Partly
<1>3. rec \in Subs!User
  BY <1>1 DEF Subs!AccountOk
<1>4. rec.pass \in Nat /\ rec.pass <= aSecrets
  BY <1>1, SubsFacts DEF Subs!AccountOk
<1> QED BY <1>1, <1>2, <1>3, <1>4, SubsNumbers DEF Subs!User

LEMMA SubsOlder ==
    ASSUME NEW rec, NEW p \in Nat, NEW m \in Nat, NEW c, NEW q \in Nat, NEW n \in Nat, NEW d,
           Subs!AccountOk(rec, p, m, c), p <= q, m <= n, c => d
    PROVE  Subs!AccountOk(rec, q, n, d)
BY DEF Subs!AccountOk

\* One account is changed and saved.
LEMMA SubsChanges ==
    ASSUME Subs!IInv, NEW u, u \in DOMAIN aState.users, NEW rec,
           Subs!AccountOk(rec, aSecrets', aMade', aCrossed'), rec.login = aState.users[u].login,
           NEW answer, answer \subseteq {<<"banned", u>>},
           rec.banned \/ (rec.banned = aState.users[u].banned /\ answer = {}),
           NEW z, z = Subs!WithUser(u, rec), Subs!Saves(z, z, answer),
           aScene' = aScene, aNow' = aNow,
           aSecrets' \in 0..MaxSecrets, aSecrets <= aSecrets',
           aMade' \in 0..MaxPhones, aMade <= aMade', aCrossed' \in BOOLEAN, aCrossed => aCrossed',
           Subs!Within(aRequests', aLim')
    PROVE  Subs!IInv'
<1>p. PICK p : p = aSecrets'
  OBVIOUS
<1>m. PICK m : m = aMade'
  OBVIOUS
<1>c. PICK c : c = aCrossed'
  OBVIOUS
<1>s. PICK s : s = aState
  OBVIOUS
<1>w. PICK w : w = aTold \cup answer
  OBVIOUS
<1>0. p \in Nat /\ m \in Nat /\ aSecrets \in Nat /\ aMade \in Nat
      /\ aSecrets <= p /\ aMade <= m
  BY <1>p, <1>m, SubsFacts, SubsNumbers
<1>1. aCrossed => c
  BY <1>c
<1>2. Subs!Sound(s, aSecrets, aMade, aCrossed, aTold)
  BY <1>s, SubsFacts
<1>3. aTold \subseteq aTold
  OBVIOUS
<1>4. Subs!Sound(s, p, m, c, aTold)
  BY <1>0, <1>1, <1>2, <1>3, SubsLater
<1>5. \A a \in w : a \in aTold \/ (a[1] = "banned" /\ a[2] = u)
  BY <1>w
<1>6. \A a \in w : a[1] = "banned" /\ a[2] = u => rec.banned
  <2>1. CASE rec.banned
    BY <2>1
  <2>2. CASE rec.banned = aState.users[u].banned /\ answer = {}
    <3>1. \A a \in aTold : Subs!KeptIn(s, a)
      BY <1>4 DEF Subs!Sound
    <3>2. \A a \in aTold : a[1] = "banned" /\ a[2] = u => s.users[u].banned
      BY <1>s, <3>1 DEF Subs!KeptIn
    <3> QED BY <1>s, <1>w, <2>2, <3>2
  <2> QED BY <2>1, <2>2
<1>7. z = [s EXCEPT !.users = Subs!With(@, u, rec)]
  BY <1>s DEF Subs!WithUser
<1>8. Subs!AccountOk(rec, p, m, c)
  BY <1>p, <1>m, <1>c
<1>9. u \in DOMAIN s.users /\ rec.login = s.users[u].login
  BY <1>s
<1>10. u \in DOMAIN s.users
  BY <1>9
<1>11. rec.login = s.users[u].login
  BY <1>9
<1>12. Subs!Sound(z, p, m, c, w)
  BY <1>4, <1>5, <1>6, <1>7, <1>8, <1>10, <1>11, SubsUser
<1>13. Subs!Sound(z, aSecrets', aMade', aCrossed', aTold \cup answer)
  BY <1>12, <1>p, <1>m, <1>c, <1>w
<1>14. answer \subseteq Subs!Told
  BY SubsRecord DEF Subs!Told
<1> QED BY <1>13, <1>14, SubsWrites

-----------------------------------------------------------------------------
\* What begins and ends without the store.

LEMMA SubsRefuses ==
    ASSUME Subs!IInv, NEW l \in Handles, Subs!Refused(l) \/ Subs!WindowPasses(l)
    PROVE  Subs!IInv'
<1>1. CASE Subs!Refused(l)
  <2>1. PICK g : g = [aLim EXCEPT ![l] = @ + 1]
    OBVIOUS
  <2>2. aLim[l] < MaxWrong /\ aLim' = g /\ aRequests' = aRequests
    BY <1>1, <2>1 DEF Subs!Refused, Subs!Wrong
  <2>3. Subs!Within(aRequests, aLim)
    BY SubsFacts
  <2>4. Subs!Within(aRequests, g)
    BY <2>1, <2>2, <2>3, SubsRefused
  <2>5. Subs!Within(aRequests', aLim')
    BY <2>2, <2>4
  <2>6. UNCHANGED <<aScene, aState, aDisk, aSecrets, aMade, aNow, aFaults, aTold, aCrossed>>
    BY <1>1 DEF Subs!Refused
  <2> QED BY <2>5, <2>6, SubsQuiet
<1>2. CASE Subs!WindowPasses(l)
  <2>1. PICK g : g = [aLim EXCEPT ![l] = 0]
    OBVIOUS
  <2>2. aLim' = g /\ aRequests' = aRequests
    BY <1>2, <2>1 DEF Subs!WindowPasses
  <2>3. Subs!Within(aRequests, aLim)
    BY SubsFacts
  <2>4. g \in [Handles -> Nat] /\ \A k \in Handles : g[k] <= aLim[k]
    BY <2>1, <2>3, SubsOf
  <2>5. Subs!Within(aRequests, g)
    BY <2>3, <2>4, SubsFewer
  <2>6. Subs!Within(aRequests', aLim')
    BY <2>2, <2>5
  <2>7. UNCHANGED <<aScene, aState, aDisk, aSecrets, aMade, aNow, aFaults, aTold, aCrossed>>
    BY <1>2 DEF Subs!WindowPasses
  <2> QED BY <2>6, <2>7, SubsQuiet
<1> QED BY <1>1, <1>2

LEMMA SubsLoginBegins ==
    ASSUME Subs!IInv, NEW l \in Handles, NEW given \in 1..aSecrets, Subs!LoginBegins(l, given)
    PROVE  Subs!IInv'
<1>1. PICK u \in (IF Subs!ByLogin(l) = {} THEN {Nothing} ELSE Subs!ByLogin(l)) :
        aRequests' = aRequests \cup
            {[kind |-> "login", user |-> u, login |-> l, pass |-> given,
              right |-> u # Nothing /\ aState.users[u].pass = given, slot |-> 0, dev |-> 0]}
  BY DEF Subs!LoginBegins, Subs!users
<1>2. PICK b \in BOOLEAN : b = (u # Nothing /\ aState.users[u].pass = given)
  OBVIOUS
<1>3. PICK r : r = [kind |-> "login", user |-> u, login |-> l, pass |-> given,
                    right |-> b, slot |-> 0, dev |-> 0]
  OBVIOUS
<1>4. aRequests' = aRequests \cup {r}
  BY <1>1, <1>2, <1>3
<1>5. u \in People \cup {Nothing} /\ given \in Nat
  BY SubsRecord, SubsFacts DEF Subs!ByLogin, Subs!users
<1>6. r \in Subs!Request /\ r.login = l
  BY <1>3, <1>5 DEF Subs!Request
<1>7. aLim[l] < MaxWrong /\ Cardinality(aRequests) < MaxOpen /\ aLim' = aLim
  BY SubsSizes DEF Subs!LoginBegins
<1>8. Subs!Within(aRequests, aLim)
  BY SubsFacts
<1>9. r \in Subs!Request
  BY <1>6
<1>10. aLim[r.login] < MaxWrong
  BY <1>6, <1>7
<1>11. Cardinality(aRequests) < MaxOpen
  BY <1>7
<1>12. Subs!Within(aRequests \cup {r}, aLim)
  BY <1>8, <1>9, <1>10, <1>11, SubsMore
<1>13. Subs!Within(aRequests', aLim')
  BY <1>4, <1>7, <1>12
<1>14. UNCHANGED <<aScene, aState, aDisk, aSecrets, aMade, aNow, aFaults, aTold, aCrossed>>
  BY DEF Subs!LoginBegins
<1> QED BY <1>13, <1>14, SubsQuiet

LEMMA SubsBegins ==
    ASSUME Subs!IInv, NEW kind \in {"password", "delete"}, NEW u, NEW i, NEW right \in BOOLEAN,
           Subs!Begins(kind, u, i, right)
    PROVE  Subs!IInv'
<1>a. u \in DOMAIN aState.users /\ i \in 1..Len(aState.users[u].devices)
  BY DEF Subs!Begins, Subs!Authed, Subs!users
<1>b. PICK rec : rec = aState.users[u]
  OBVIOUS
<1>c. rec \in Subs!User /\ u \in People /\ rec.login \in Handles /\ rec.pass \in Nat
  BY <1>a, <1>b, SubsRecord
<1>d. PICK id : id = rec.devices[i].id
  OBVIOUS
<1>e. id \in Nat /\ i \in Nat
  <2>1. rec.devices \in Seq(Subs!Device)
    BY <1>c DEF Subs!User
  <2>2. rec.devices[i] \in Subs!Device
    BY <2>1, <1>a, <1>b
  <2> QED BY <2>1, <2>2, <1>a, <1>b, <1>d DEF Subs!Device
<1>3. PICK r : r = [kind |-> kind, user |-> u, login |-> rec.login, pass |-> rec.pass,
                    right |-> right, slot |-> i, dev |-> id]
  OBVIOUS
<1>4. aRequests' = aRequests \cup {r}
  BY <1>b, <1>d, <1>3 DEF Subs!Begins, Subs!users
<1>6. r \in Subs!Request /\ r.login = rec.login
  BY <1>3, <1>c, <1>e DEF Subs!Request
<1>7. aLim[rec.login] < MaxWrong /\ Cardinality(aRequests) < MaxOpen /\ aLim' = aLim
  BY <1>b, SubsSizes DEF Subs!Begins, Subs!users
<1>8. Subs!Within(aRequests, aLim)
  BY SubsFacts
<1>9. r \in Subs!Request
  BY <1>6
<1>10. aLim[r.login] < MaxWrong
  BY <1>6, <1>7
<1>11. Cardinality(aRequests) < MaxOpen
  BY <1>7
<1>12. Subs!Within(aRequests \cup {r}, aLim)
  BY <1>8, <1>9, <1>10, <1>11, SubsMore
<1>13. Subs!Within(aRequests', aLim')
  BY <1>4, <1>7, <1>12
<1>14. UNCHANGED <<aScene, aState, aDisk, aSecrets, aMade, aNow, aFaults, aTold, aCrossed>>
  BY DEF Subs!Begins
<1> QED BY <1>13, <1>14, SubsQuiet

\* A request ends with a wrong answer.
LEMMA SubsWrongEnds ==
    ASSUME Subs!IInv, NEW r \in aRequests, Subs!Wrong(r.login), aRequests' = aRequests \ {r},
           UNCHANGED <<aScene, aState, aDisk, aSecrets, aMade, aNow, aFaults, aTold, aCrossed>>
    PROVE  Subs!IInv'
<1>1. PICK g : g = [aLim EXCEPT ![r.login] = @ + 1]
  OBVIOUS
<1>2. aLim' = g
  BY <1>1 DEF Subs!Wrong
<1>3. Subs!Within(aRequests, aLim)
  BY SubsFacts
<1>4. Subs!Within(aRequests \ {r}, g)
  BY <1>1, <1>3, SubsAnswered
<1>5. Subs!Within(aRequests', aLim')
  BY <1>2, <1>4
<1> QED BY <1>5, SubsQuiet

\* Requests that go, and logins that are looked at anew.
LEMMA SubsLess ==
    ASSUME Subs!IInv, NEW R, R \subseteq aRequests, NEW h,
           NEW g, g = [aLim EXCEPT ![h] = 0] \/ g = aLim
    PROVE  Subs!Within(R, g)
<1>1. Subs!Within(aRequests, aLim)
  BY SubsFacts
<1>2. g \in [Handles -> Nat] /\ \A l \in Handles : g[l] <= aLim[l]
  BY <1>1, SubsOf
<1> QED BY <1>1, <1>2, SubsFewer

-----------------------------------------------------------------------------
\* Accounts.

LEMMA SubsTrialOk ==
    ASSUME Subs!IInv, NEW rec, NEW p, NEW m, NEW c, Subs!AccountOk(rec, p, m, c), Subs!TrialPlans # {},
           NEW z, z = Subs!StartTrial(rec)
    PROVE  Subs!AccountOk(z, p, m, c) /\ z.login = rec.login /\ z.banned = rec.banned
<1>1. PICK t : t = CHOOSE q \in Subs!TrialPlans : TRUE
  OBVIOUS
<1>2. t \in DOMAIN Tariffs
  BY <1>1 DEF Subs!TrialPlans
<1>3. PICK e : e = aNow + Tariffs[t].days
  OBVIOUS
<1>4. e \in 0..MaxEnd
  <2>1. Tariffs[t].days \in Nat /\ MaxDays + Tariffs[t].days <= MaxEnd
    BY <1>2, AccountsAssumption
  <2> QED BY <1>3, <2>1, SubsFacts, SubsNumbers
<1>5. z = [rec EXCEPT !.trial = TRUE, !.plan = t, !.expires = e]
  BY <1>1, <1>3 DEF Subs!StartTrial
<1>6. rec \in Subs!User
  BY DEF Subs!AccountOk
<1>7. /\ z \in Subs!User /\ z.devices = rec.devices /\ z.pass = rec.pass
      /\ z.login = rec.login
  BY <1>2, <1>4, <1>5, <1>6 DEF Subs!User
<1>8. z.banned = rec.banned
  BY <1>5, <1>6 DEF Subs!User
<1>9. z.banned => z.devices = <<>>
  BY <1>7, <1>8 DEF Subs!AccountOk
<1> QED BY <1>7, <1>8, <1>9 DEF Subs!AccountOk

LEMMA SubsExtendOk ==
    ASSUME Subs!IInv, NEW rec, NEW p, NEW m, NEW c, Subs!AccountOk(rec, p, m, c),
           NEW t \in DOMAIN Tariffs, NEW z, z = Subs!Extend(rec, t), z.expires <= MaxEnd
    PROVE  Subs!AccountOk(z, p, m, c) /\ z.login = rec.login /\ z.banned = rec.banned
<1>3. PICK e : e = Subs!MaxOf(aNow, rec.expires) + Tariffs[t].days
  OBVIOUS
<1>5. z = [rec EXCEPT !.expires = e, !.plan = t]
  BY <1>3 DEF Subs!Extend
<1>6. rec \in Subs!User
  BY DEF Subs!AccountOk
<1>4. e \in 0..MaxEnd
  <2>1. Tariffs[t].days \in Nat
    BY AccountsAssumption
  <2>2. rec.expires \in Nat
    BY <1>6, SubsNumbers DEF Subs!User
  <2>3. z.expires = e
    BY <1>5, <1>6 DEF Subs!User
  <2>4. e \in Nat
    BY <1>3, <2>1, <2>2, SubsFacts DEF Subs!MaxOf
  <2> QED BY <2>3, <2>4, SubsNumbers
<1>7. /\ z \in Subs!User /\ z.devices = rec.devices /\ z.pass = rec.pass
      /\ z.login = rec.login
  BY <1>4, <1>5, <1>6 DEF Subs!User
<1>8. z.banned = rec.banned
  BY <1>5, <1>6 DEF Subs!User
<1>9. z.banned => z.devices = <<>>
  BY <1>7, <1>8 DEF Subs!AccountOk
<1> QED BY <1>7, <1>8, <1>9 DEF Subs!AccountOk

LEMMA SubsTrial ==
    ASSUME Subs!IInv, NEW u, NEW i, Subs!Trial(u, i)
    PROVE  Subs!IInv'
<1>1. u \in DOMAIN aState.users /\ Subs!TrialPlans # {}
  BY DEF Subs!Trial, Subs!Authed, Subs!users, Subs!HasTrial
<1>2. PICK old : old = aState.users[u]
  OBVIOUS
<1>3. Subs!AccountOk(old, aSecrets, aMade, aCrossed)
  BY <1>1, <1>2, SubsRecord
<1>4. PICK rec : rec = Subs!StartTrial(old)
  OBVIOUS
<1>5. Subs!AccountOk(rec, aSecrets, aMade, aCrossed) /\ rec.login = old.login /\ rec.banned = old.banned
  BY <1>1, <1>3, <1>4, SubsTrialOk
<1>6. PICK z : z = Subs!WithUser(u, rec)
  OBVIOUS
<1>7. /\ Subs!Saves(z, z, {})
      /\ UNCHANGED <<aScene, aRequests, aLim, aSecrets, aMade, aNow, aCrossed>>
  BY <1>2, <1>4, <1>6 DEF Subs!Trial, Subs!users
<1>8. Subs!AccountOk(rec, aSecrets', aMade', aCrossed')
  BY <1>5, <1>7
<1>9. rec.banned \/ (rec.banned = aState.users[u].banned /\ {} = {})
  BY <1>2, <1>5
<1>10. /\ aSecrets' \in 0..MaxSecrets /\ aSecrets <= aSecrets' /\ aMade' \in 0..MaxPhones /\ aMade <= aMade'
       /\ aCrossed' \in BOOLEAN /\ aCrossed' = aCrossed /\ Subs!Within(aRequests', aLim')
  BY <1>7, SubsFacts
<1>11. rec.login = aState.users[u].login
  BY <1>2, <1>5
<1> QED BY <1>1, <1>6, <1>7, <1>8, <1>9, <1>10, <1>11, SubsChanges

LEMMA SubsGrant ==
    ASSUME Subs!IInv, NEW u, NEW p \in DOMAIN Tariffs, Subs!AdminGrant(u, p)
    PROVE  Subs!IInv'
<1>1. u \in DOMAIN aState.users /\ aState.users[u].expires + Tariffs[p].days <= MaxEnd
  BY DEF Subs!AdminGrant, Subs!users
<1>2. PICK old : old = aState.users[u]
  OBVIOUS
<1>3. Subs!AccountOk(old, aSecrets, aMade, aCrossed) /\ old \in Subs!User /\ old.expires \in Nat
  BY <1>1, <1>2, SubsRecord
<1>4. PICK rec : rec = Subs!Extend(old, p)
  OBVIOUS
<1>a. rec.expires <= MaxEnd
  <2>1. Tariffs[p].days \in Nat /\ MaxDays + Tariffs[p].days <= MaxEnd
    BY AccountsAssumption
  <2>2. PICK e : e = Subs!MaxOf(aNow, old.expires) + Tariffs[p].days
    OBVIOUS
  <2>3. rec.expires = e
    BY <1>3, <1>4, <2>2 DEF Subs!Extend, Subs!User
  <2>4. e <= MaxEnd
    BY <1>1, <1>2, <1>3, <2>1, <2>2, SubsFacts, SubsNumbers DEF Subs!MaxOf
  <2> QED BY <2>3, <2>4
<1>5. Subs!AccountOk(rec, aSecrets, aMade, aCrossed) /\ rec.login = old.login /\ rec.banned = old.banned
  BY <1>3, <1>4, <1>a, SubsExtendOk
<1>6. PICK z : z = Subs!WithUser(u, rec)
  OBVIOUS
<1>7. /\ Subs!Saves(z, z, {})
      /\ UNCHANGED <<aScene, aRequests, aLim, aSecrets, aMade, aNow, aCrossed>>
  BY <1>2, <1>4, <1>6 DEF Subs!AdminGrant, Subs!users
<1>8. Subs!AccountOk(rec, aSecrets', aMade', aCrossed')
  BY <1>5, <1>7
<1>9. rec.banned \/ (rec.banned = aState.users[u].banned /\ {} = {})
  BY <1>2, <1>5
<1>10. /\ aSecrets' \in 0..MaxSecrets /\ aSecrets <= aSecrets' /\ aMade' \in 0..MaxPhones /\ aMade <= aMade'
       /\ aCrossed' \in BOOLEAN /\ aCrossed' = aCrossed /\ Subs!Within(aRequests', aLim')
  BY <1>7, SubsFacts
<1>11. rec.login = aState.users[u].login
  BY <1>2, <1>5
<1> QED BY <1>1, <1>6, <1>7, <1>8, <1>9, <1>10, <1>11, SubsChanges

\* An account with no devices, and another password perhaps.
Bare(rec, q) == [rec EXCEPT !.pass = q, !.devices = <<>>]
LEMMA SubsBare ==
    ASSUME NEW old, NEW p \in Nat, NEW m, NEW c, Subs!AccountOk(old, p, m, c), NEW q \in Nat, 1 <= q,
           NEW z, z = Bare(old, q)
    PROVE  Subs!AccountOk(z, q, m, c) /\ z.login = old.login
           /\ z.banned = old.banned /\ z.pass = q /\ z.devices = <<>>
<1>1. old \in Subs!User
  BY DEF Subs!AccountOk
<1>0. <<>> \in Seq(Subs!Device) /\ DOMAIN <<>> = {}
  OBVIOUS
<1>a. z \in Subs!User
  BY <1>0, <1>1 DEF Subs!User, Bare
<1>b. z.login = old.login /\ z.pass = q /\ z.devices = <<>>
  BY <1>1 DEF Subs!User, Bare
<1>2. /\ z \in Subs!User /\ z.login = old.login /\ z.pass = q /\ z.devices = <<>>
      /\ DOMAIN z.devices = {}
  BY <1>0, <1>a, <1>b
<1>3. z.banned = old.banned
  BY <1>1 DEF Subs!User, Bare
<1> QED BY <1>2, <1>3 DEF Subs!AccountOk

LEMMA SubsReset ==
    ASSUME Subs!IInv, NEW u, Subs!AdminResetPassword(u)
    PROVE  Subs!IInv'
<1>1. u \in DOMAIN aState.users /\ aSecrets < MaxSecrets /\ aSecrets' = aSecrets + 1
      /\ UNCHANGED <<aScene, aMade, aNow, aCrossed>>
  BY DEF Subs!AdminResetPassword, Subs!users
<1>2. PICK old : old = aState.users[u]
  OBVIOUS
<1>3. Subs!AccountOk(old, aSecrets, aMade, aCrossed)
  BY <1>1, <1>2, SubsRecord
<1>4. PICK rec : rec = [old EXCEPT !.pass = aSecrets + 1, !.devices = <<>>]
  OBVIOUS
<1>n. aSecrets \in Nat /\ aSecrets + 1 \in Nat \ {0} /\ aSecrets + 1 \in 0..MaxSecrets /\ aSecrets <= aSecrets + 1
  BY <1>1, SubsFacts, SubsNumbers
<1>5. Subs!AccountOk(rec, aSecrets + 1, aMade, aCrossed) /\ rec.login = old.login /\ rec.banned = old.banned
  <2>1. PICK q : q = aSecrets + 1
    OBVIOUS
  <2>2. q \in Nat
    BY <1>n, <2>1
  <2>a. 1 <= q
    BY <1>n, <2>1
  <2>3. aSecrets \in Nat
    BY <1>n
  <2>4. rec = Bare(old, q)
    BY <1>4, <2>1 DEF Bare
  <2>5. Subs!AccountOk(rec, q, aMade, aCrossed) /\ rec.login = old.login /\ rec.banned = old.banned
    BY <1>3, <2>2, <2>a, <2>3, <2>4, SubsBare
  <2> QED BY <2>1, <2>5
<1>6. PICK z : z = Subs!WithUser(u, rec)
  OBVIOUS
<1>7. Subs!Saves(z, z, {})
  BY <1>2, <1>4, <1>6 DEF Subs!AdminResetPassword, Subs!users, Subs!SignedOut
<1>8. Subs!AccountOk(rec, aSecrets', aMade', aCrossed')
  BY <1>1, <1>5
<1>9. rec.banned \/ (rec.banned = aState.users[u].banned /\ {} = {})
  BY <1>2, <1>5
<1>10. /\ aSecrets' \in 0..MaxSecrets /\ aSecrets <= aSecrets' /\ aMade' \in 0..MaxPhones /\ aMade <= aMade'
       /\ aCrossed' \in BOOLEAN /\ aCrossed' = aCrossed
  BY <1>1, <1>n, SubsFacts
<1>11. rec.login = aState.users[u].login
  BY <1>2, <1>5
<1>12. PICK g : g = [aLim EXCEPT ![old.login] = 0]
  OBVIOUS
<1>13. Subs!Within(aRequests, g)
  BY <1>12, SubsLess
<1>14. Subs!Within(Subs!Detached(aRequests, u), g)
  BY <1>13, SubsDetached
<1>15. Subs!Within(aRequests', aLim')
  BY <1>2, <1>12, <1>14 DEF Subs!AdminResetPassword, Subs!users
<1> QED BY <1>1, <1>6, <1>7, <1>8, <1>9, <1>10, <1>11, <1>15, SubsChanges

LEMMA SubsRecovers ==
    ASSUME Subs!IInv, NEW u, Subs!Recover(u)
    PROVE  Subs!IInv'
<1>1. u \in DOMAIN aState.users /\ aSecrets < MaxSecrets /\ aSecrets' = aSecrets + 1
      /\ UNCHANGED <<aScene, aNow, aCrossed>>
  BY DEF Subs!Recover, Subs!users
<1>2. PICK old : old = aState.users[u]
  OBVIOUS
<1>3. Subs!AccountOk(old, aSecrets, aMade, aCrossed)
  BY <1>1, <1>2, SubsRecord
<1>a. ~old.banned
  BY <1>2 DEF Subs!Recover, Subs!users, Subs!Admits
<1>q. PICK q : q = aSecrets + 1
  OBVIOUS
<1>n. aSecrets \in Nat /\ q \in Nat /\ 1 <= q /\ q \in 0..MaxSecrets /\ aSecrets <= q
  BY <1>1, <1>q, SubsFacts, SubsNumbers
<1>4. PICK rec : rec = Bare(old, q)
  OBVIOUS
<1>5. Subs!AccountOk(rec, q, aMade, aCrossed) /\ rec.login = old.login /\ rec.banned = old.banned
      /\ rec.pass = q
  <2>1. aSecrets \in Nat
    BY <1>n
  <2>2. q \in Nat
    BY <1>n
  <2>3. 1 <= q
    BY <1>n
  <2> QED BY <1>3, <1>4, <2>1, <2>2, <2>3, SubsBare
<1>6. PICK f : f = [aLim EXCEPT ![old.login] = 0]
  OBVIOUS
<1>7. PICK R : R = Subs!Detached(aRequests, u)
  OBVIOUS
<1>8. Subs!AddDevice(R, u, rec, 0) /\ aLim' = f
  BY <1>2, <1>q, <1>4, <1>6, <1>7 DEF Subs!Recover, Subs!users, Subs!SignedOut, Bare
<1>9. Subs!Within(aRequests, f)
  BY <1>6, SubsLess
<1>10. Subs!Within(R, f)
  BY <1>7, <1>9, SubsDetached
<1>11. rec \in Subs!User
  BY <1>5 DEF Subs!AccountOk
<1>12. aMade \in 0..MaxPhones /\ Subs!Stored(aState) /\ aMade \in Nat
  BY SubsFacts
<1>13. /\ Subs!Within(aRequests', f) /\ aMade' = aMade + 1 /\ aMade < MaxPhones
       /\ Subs!Full(rec) => 0 \in 1..Len(rec.devices)
  BY <1>1, <1>8, <1>10, <1>11, <1>12, SubsAdds
<1>14. PICK new : new = Subs!WithDevice(rec, 0, q)
  OBVIOUS
<1>15. Subs!AccountOk(new, q, aMade + 1, aCrossed) /\ new.login = rec.login /\ new.banned = rec.banned
  <2>1. aCrossed \/ q = rec.pass
    BY <1>5
  <2>2. ~rec.banned
    BY <1>5, <1>a
  <2>3. aMade \in Nat
    BY <1>12
  <2>4. q \in Nat
    BY <1>n
  <2>5. Subs!Full(rec) => 0 \in 1..Len(rec.devices)
    BY <1>13
  <2>6. Subs!AccountOk(rec, q, aMade, aCrossed)
    BY <1>5
  <2> QED BY <1>14, <2>1, <2>2, <2>3, <2>4, <2>5, <2>6, SubsDevice
<1>16. PICK z : z = Subs!WithUser(u, new)
  OBVIOUS
<1>17. Subs!Saves(z, z, {})
  BY <1>2, <1>q, <1>4, <1>14, <1>16 DEF Subs!Recover, Subs!users, Subs!SignedOut, Bare
<1>18. Subs!AccountOk(new, aSecrets', aMade', aCrossed')
  BY <1>1, <1>q, <1>13, <1>15
<1>19. new.banned \/ (new.banned = aState.users[u].banned /\ {} = {})
  BY <1>2, <1>5, <1>15
<1>20. /\ aSecrets' \in 0..MaxSecrets /\ aSecrets <= aSecrets' /\ aMade' \in 0..MaxPhones /\ aMade <= aMade'
       /\ aCrossed' \in BOOLEAN /\ aCrossed' = aCrossed /\ Subs!Within(aRequests', aLim')
  BY <1>1, <1>q, <1>n, <1>8, <1>12, <1>13, SubsFacts, SubsNumbers
<1>21. new.login = aState.users[u].login
  BY <1>2, <1>5, <1>15
<1> QED BY <1>1, <1>16, <1>17, <1>18, <1>19, <1>20, <1>21, SubsChanges

\* Bans as well as lifts.
Barred(rec, b) == [rec EXCEPT !.banned = b, !.devices = IF b THEN <<>> ELSE @]
LEMMA SubsBannedOk ==
    ASSUME NEW old, NEW p, NEW m, NEW c, Subs!AccountOk(old, p, m, c),
           NEW b \in BOOLEAN,
           NEW z, z = Barred(old, b)
    PROVE  Subs!AccountOk(z, p, m, c) /\ z.login = old.login /\ z.banned = b
<1>1. old \in Subs!User
  BY DEF Subs!AccountOk
<1>0. <<>> \in Seq(Subs!Device) /\ DOMAIN <<>> = {}
  OBVIOUS
<1>2. z \in Subs!User
  BY <1>0, <1>1 DEF Subs!User, Barred
<1>3. z.login = old.login /\ z.pass = old.pass
      /\ z.devices = IF b THEN <<>> ELSE old.devices
  BY <1>1 DEF Subs!User, Barred
<1>4. z.banned = b
  BY <1>1 DEF Subs!User, Barred
<1> QED BY <1>0, <1>2, <1>3, <1>4 DEF Subs!AccountOk

LEMMA SubsBan ==
    ASSUME Subs!IInv, NEW u, Subs!AdminBan(u, TRUE)
    PROVE  Subs!IInv'
<1>1. u \in DOMAIN aState.users /\ UNCHANGED <<aScene, aLim, aSecrets, aMade, aNow, aCrossed>>
  BY DEF Subs!AdminBan, Subs!users
<1>2. PICK old : old = aState.users[u]
  OBVIOUS
<1>3. Subs!AccountOk(old, aSecrets, aMade, aCrossed)
  BY <1>1, <1>2, SubsRecord
<1>4. PICK rec : rec = [old EXCEPT !.banned = TRUE, !.devices = <<>>]
  OBVIOUS
<1>5. Subs!AccountOk(rec, aSecrets, aMade, aCrossed) /\ rec.login = old.login /\ rec.banned
  <2>1. PICK b \in BOOLEAN : b = TRUE
    OBVIOUS
  <2>2. rec = Barred(old, b)
    BY <1>4, <2>1 DEF Barred
  <2>3. Subs!AccountOk(rec, aSecrets, aMade, aCrossed) /\ rec.login = old.login /\ rec.banned = b
    BY <1>3, <2>2, SubsBannedOk
  <2> QED BY <2>1, <2>3
<1>6. PICK z : z = Subs!WithUser(u, rec)
  OBVIOUS
<1>7. Subs!Saves(z, z, {<<"banned", u>>}) /\ aRequests' = Subs!Detached(aRequests, u)
  BY <1>2, <1>4, <1>6 DEF Subs!AdminBan, Subs!users
<1>8. Subs!AccountOk(rec, aSecrets', aMade', aCrossed')
  BY <1>1, <1>5
<1>9. rec.banned \/ (rec.banned = aState.users[u].banned /\ {<<"banned", u>>} = {})
  BY <1>5
<1>a. Subs!Within(aRequests, aLim)
  BY SubsFacts
<1>b. Subs!Within(Subs!Detached(aRequests, u), aLim)
  BY <1>a, SubsDetached
<1>10. /\ aSecrets' \in 0..MaxSecrets /\ aSecrets <= aSecrets' /\ aMade' \in 0..MaxPhones /\ aMade <= aMade'
       /\ aCrossed' \in BOOLEAN /\ aCrossed' = aCrossed /\ Subs!Within(aRequests', aLim')
  BY <1>1, <1>7, <1>b, SubsFacts
<1>11. rec.login = aState.users[u].login
  BY <1>2, <1>5
<1> QED BY <1>1, <1>6, <1>7, <1>8, <1>9, <1>10, <1>11, SubsChanges

LEMMA SubsUnban ==
    ASSUME Subs!IInv, NEW u, Subs!AdminBan(u, FALSE)
    PROVE  Subs!IInv'
<1>1. u \in DOMAIN aState.users
      /\ UNCHANGED <<aScene, aRequests, aLim, aSecrets, aMade, aNow, aCrossed>>
  BY DEF Subs!AdminBan, Subs!users
<1>2. PICK old : old = aState.users[u]
  OBVIOUS
<1>3. Subs!AccountOk(old, aSecrets, aMade, aCrossed)
  BY <1>1, <1>2, SubsRecord
<1>4. PICK rec : rec = [old EXCEPT !.banned = FALSE, !.devices = old.devices]
  OBVIOUS
<1>5. Subs!AccountOk(rec, aSecrets, aMade, aCrossed) /\ rec.login = old.login
  <2>1. PICK b \in BOOLEAN : b = FALSE
    OBVIOUS
  <2>2. rec = Barred(old, b)
    BY <1>4, <2>1 DEF Barred
  <2>3. Subs!AccountOk(rec, aSecrets, aMade, aCrossed) /\ rec.login = old.login /\ rec.banned = b
    BY <1>3, <2>2, SubsBannedOk
  <2> QED BY <2>3
<1>6. PICK z : z = Subs!WithUser(u, rec)
  OBVIOUS
<1>t. PICK t : t = aTold \ {<<"banned", u>>}
  OBVIOUS
<1>7. aState' = z /\ aTold' = t /\ (aDisk' = z \/ aDisk' = aDisk)
      /\ aFaults' \in 0..MaxUnsaved
  BY <1>2, <1>4, <1>6, <1>t, SubsFacts, SubsNumbers DEF Subs!AdminBan, Subs!users
<1>s. PICK s : s = aState
  OBVIOUS
<1>8. Subs!Sound(s, aSecrets, aMade, aCrossed, aTold)
  BY <1>s, SubsFacts
<1>9. aTold \subseteq Subs!Told
  BY SubsFacts
<1>10. \A a \in t : a \in aTold \/ (a[1] = "banned" /\ a[2] = u)
  BY <1>t
<1>11. \A a \in t : a[1] = "banned" /\ a[2] = u => rec.banned
  <2>1. \A a \in t : a[1] = "banned" /\ a[2] = u => a = <<"banned", u>>
    BY <1>9, <1>t DEF Subs!Told
  <2> QED BY <1>t, <2>1
<1>12. z = [s EXCEPT !.users = Subs!With(@, u, rec)]
  BY <1>6, <1>s DEF Subs!WithUser
<1>13. u \in DOMAIN s.users
  BY <1>1, <1>s
<1>14. rec.login = s.users[u].login
  BY <1>2, <1>5, <1>s
<1>e. Subs!AccountOk(rec, aSecrets, aMade, aCrossed)
  BY <1>5
<1>15. Subs!Sound(z, aSecrets, aMade, aCrossed, t)
  BY <1>8, <1>10, <1>11, <1>12, <1>13, <1>14, <1>e, SubsUser
<1>16. Subs!Sound(aDisk, aSecrets, aMade, aCrossed, t)
  <2>1. Subs!Sound(aDisk, aSecrets, aMade, aCrossed, aTold)
    BY SubsFacts
  <2>2. aSecrets \in Nat /\ aMade \in Nat /\ aSecrets <= aSecrets /\ aMade <= aMade
    BY SubsFacts
  <2>3. t \subseteq aTold /\ (aCrossed => aCrossed)
    BY <1>t
  <2> QED BY <2>1, <2>2, <2>3, SubsLater
<1>17. /\ Subs!Sound(aState', aSecrets', aMade', aCrossed', aTold')
       /\ Subs!Sound(aDisk', aSecrets', aMade', aCrossed', aTold')
  BY <1>1, <1>7, <1>15, <1>16
<1>18. /\ aScene' \in Askings /\ aSecrets' \in 0..MaxSecrets /\ aMade' \in 0..MaxPhones
       /\ aNow' \in 0..MaxDays /\ aCrossed' \in BOOLEAN /\ Subs!Within(aRequests', aLim')
       /\ aTold' \subseteq Subs!Told
  BY <1>1, <1>7, <1>9, <1>t, SubsFacts
<1> QED BY <1>7, <1>17, <1>18, SubsTogether

-----------------------------------------------------------------------------
\* What was begun before.

LEMMA SubsEnters ==
    ASSUME Subs!IInv, NEW r \in aRequests,
           r.user \in DOMAIN aState.users, ~aState.users[r.user].banned,
           aCrossed' = (aCrossed \/ aState.users[r.user].pass # r.pass),
           aLim' = [aLim EXCEPT ![r.login] = 0],
           UNCHANGED <<aScene, aSecrets, aNow>>,
           NEW replaced, Subs!AddDevice(aRequests \ {r}, r.user, aState.users[r.user], replaced),
           NEW z, z = Subs!WithUser(r.user, Subs!WithDevice(aState.users[r.user], replaced, r.pass)),
           Subs!Saves(z, z, {})
    PROVE  Subs!IInv'
<1>u. PICK u : u = r.user
  OBVIOUS
<1>1. u \in DOMAIN aState.users
  BY <1>u
<1>2. PICK rec : rec = aState.users[u]
  OBVIOUS
<1>3. Subs!AccountOk(rec, aSecrets, aMade, aCrossed) /\ rec \in Subs!User
  BY <1>1, <1>2, SubsRecord
<1>c. PICK c : c = aCrossed'
  OBVIOUS
<1>a. aCrossed' \in BOOLEAN /\ (aCrossed => c) /\ (c \/ r.pass = rec.pass)
  BY <1>c, <1>u, <1>2
<1>p. r.pass \in Nat
  <2>1. Subs!Within(aRequests, aLim)
    BY SubsFacts
  <2>2. r \in Subs!Request
    BY <2>1, SubsOf
  <2> QED BY <2>2 DEF Subs!Request
<1>n. aSecrets \in Nat /\ aMade \in Nat /\ aMade \in 0..MaxPhones /\ Subs!Stored(aState)
  BY SubsFacts
<1>6. PICK f : f = [aLim EXCEPT ![r.login] = 0]
  OBVIOUS
<1>7. PICK R : R = aRequests \ {r}
  OBVIOUS
<1>8. Subs!Within(R, f)
  BY <1>6, <1>7, SubsLess
<1>9. Subs!AddDevice(R, u, rec, replaced)
  BY <1>u, <1>2, <1>7
<1>13. /\ Subs!Within(aRequests', f) /\ aMade' = aMade + 1 /\ aMade < MaxPhones
       /\ Subs!Full(rec) => replaced \in 1..Len(rec.devices)
  BY <1>1, <1>3, <1>8, <1>9, <1>n, SubsAdds
<1>14. PICK new : new = Subs!WithDevice(rec, replaced, r.pass)
  OBVIOUS
<1>15. Subs!AccountOk(new, aSecrets, aMade + 1, c) /\ new.login = rec.login /\ new.banned = rec.banned
  <2>1. c \/ r.pass = rec.pass
    BY <1>a
  <2>2. ~rec.banned
    BY <1>u, <1>2
  <2>3. aMade \in Nat
    BY <1>n
  <2>4. aSecrets \in Nat
    BY <1>n
  <2>5. Subs!Full(rec) => replaced \in 1..Len(rec.devices)
    BY <1>13
  <2>6. Subs!AccountOk(rec, aSecrets, aMade, aCrossed)
    BY <1>3
  <2>7. aCrossed => c
    BY <1>a
  <2>8. aSecrets <= aSecrets /\ aMade <= aMade
    BY <1>n
  <2>9. Subs!AccountOk(rec, aSecrets, aMade, c)
    BY <2>3, <2>4, <2>6, <2>7, <2>8, SubsOlder
  <2> QED BY <1>14, <1>p, <2>1, <2>2, <2>3, <2>4, <2>5, <2>9, SubsDevice
<1>16. z = Subs!WithUser(u, new)
  BY <1>u, <1>2, <1>14
<1>18. Subs!AccountOk(new, aSecrets', aMade', aCrossed')
  BY <1>c, <1>13, <1>15
<1>19. new.banned \/ (new.banned = aState.users[u].banned /\ {} = {})
  BY <1>2, <1>15
<1>20. /\ aSecrets' \in 0..MaxSecrets /\ aSecrets <= aSecrets' /\ aMade' \in 0..MaxPhones /\ aMade <= aMade'
       /\ Subs!Within(aRequests', aLim')
  BY <1>6, <1>13, SubsFacts, SubsNumbers
<1>22. aCrossed' \in BOOLEAN /\ (aCrossed => aCrossed')
  BY <1>a
<1>21. new.login = aState.users[u].login
  BY <1>2, <1>15
<1> QED BY <1>1, <1>16, <1>18, <1>19, <1>20, <1>21, <1>22, SubsChanges

LEMMA SubsLoginEnds ==
    ASSUME Subs!IInv, NEW r \in aRequests, Subs!LoginEnds(r)
    PROVE  Subs!IInv'
<1>0. UNCHANGED <<aScene, aSecrets, aNow>>
  BY DEF Subs!LoginEnds
<1>1. CASE /\ Subs!Wrong(r.login) /\ aRequests' = aRequests \ {r}
           /\ UNCHANGED <<aState, aDisk, aMade, aFaults, aTold, aCrossed>>
  BY <1>0, <1>1, SubsWrongEnds
<1>2. CASE /\ aLim' = [aLim EXCEPT ![r.login] = 0] /\ aRequests' = aRequests \ {r}
           /\ UNCHANGED <<aState, aDisk, aMade, aFaults, aTold, aCrossed>>
  <2>1. PICK f : f = [aLim EXCEPT ![r.login] = 0]
    OBVIOUS
  <2>2. aRequests \ {r} \subseteq aRequests
    OBVIOUS
  <2>3. Subs!Within(aRequests \ {r}, f)
    BY <2>1, <2>2, SubsLess
  <2>4. Subs!Within(aRequests', aLim')
    BY <1>2, <2>1, <2>3
  <2> QED BY <1>0, <1>2, <2>4, SubsQuiet
<1>3. CASE /\ aLim' = [aLim EXCEPT ![r.login] = 0] /\ Subs!Enters(r)
           /\ aCrossed' = (aCrossed \/ Subs!users[r.user].pass # r.pass)
           /\ \E replaced \in 0..Len(Subs!users[r.user].devices) :
                /\ Subs!AddDevice(aRequests \ {r}, r.user, Subs!users[r.user], replaced)
                /\ LET s == Subs!WithUser(r.user,
                                Subs!WithDevice(Subs!users[r.user], replaced, r.pass))
                   IN  Subs!Saves(s, s, {})
  <2>1. PICK replaced \in 0..Len(Subs!users[r.user].devices) :
                /\ Subs!AddDevice(aRequests \ {r}, r.user, Subs!users[r.user], replaced)
                /\ LET s == Subs!WithUser(r.user,
                                Subs!WithDevice(Subs!users[r.user], replaced, r.pass))
                   IN  Subs!Saves(s, s, {})
    BY <1>3
  <2>2. PICK z : z = Subs!WithUser(r.user, Subs!WithDevice(aState.users[r.user], replaced, r.pass))
    OBVIOUS
  <2>3. Subs!Saves(z, z, {})
    BY <2>1, <2>2 DEF Subs!users
  <2>4. Subs!AddDevice(aRequests \ {r}, r.user, aState.users[r.user], replaced)
    BY <2>1 DEF Subs!users
  <2>5. r.user \in DOMAIN aState.users /\ ~aState.users[r.user].banned
    BY <1>3 DEF Subs!Enters, Subs!Admits, Subs!users
  <2>6. aCrossed' = (aCrossed \/ aState.users[r.user].pass # r.pass)
    BY <1>3 DEF Subs!users
  <2> QED BY <1>0, <1>3, <2>2, <2>3, <2>4, <2>5, <2>6, SubsEnters
<1> QED BY <1>1, <1>2, <1>3 DEF Subs!LoginEnds

\* The devices a change of the password leaves.
LEMMA SubsKept ==
    ASSUME Subs!IInv, NEW r, NEW d \in Seq(Subs!Device), NEW z, z = Subs!KeptBy(r, d)
    PROVE  /\ z \in Seq(Subs!Device) /\ \A i \in DOMAIN z : \E j \in DOMAIN d : z[i].id = d[j].id
           /\ d = <<>> => z = <<>>
           /\ (\E i \in DOMAIN d : d[i].id = r.dev) => \A i \in DOMAIN z : z[i].pass = aSecrets + 1
<1>1. PICK mine : mine = {i \in DOMAIN d : d[i].id = r.dev}
  OBVIOUS
<1>2. CASE mine = {}
  <2>1. z = d
    BY <1>1, <1>2 DEF Subs!KeptBy
  <2>2. ~ \E i \in DOMAIN d : d[i].id = r.dev
    BY <1>1, <1>2
  <2> QED BY <2>1, <2>2
<1>3. CASE mine # {}
  <2>1. PICK it : it = CHOOSE i \in mine : TRUE
    OBVIOUS
  <2>2. it \in DOMAIN d
    BY <1>1, <1>3, <2>1
  <2>3. PICK e : e = [d[it] EXCEPT !.pass = aSecrets + 1]
    OBVIOUS
  <2>4. z = <<e>>
    BY <1>1, <1>3, <2>1, <2>3 DEF Subs!KeptBy
  <2>5. d[it] \in Subs!Device
    BY <2>2
  <2>6. aSecrets + 1 \in Nat
    BY SubsFacts
  <2>7. e \in Subs!Device /\ e.id = d[it].id /\ e.pass = aSecrets + 1
    BY <2>3, <2>5, <2>6 DEF Subs!Device
  <2>8. z \in Seq(Subs!Device) /\ DOMAIN z = {1} /\ z[1] = e
    BY <2>4, <2>7
  <2>9. d # <<>>
    BY <2>2
  <2> QED BY <2>2, <2>7, <2>8, <2>9
<1> QED BY <1>2, <1>3

Repassed(rec, q, d) == [rec EXCEPT !.pass = q, !.devices = d]
LEMMA SubsPasswordChanges ==
    ASSUME Subs!IInv, NEW r \in aRequests, r.user \in DOMAIN aState.users,
           NEW rec, rec = Repassed(aState.users[r.user], aSecrets + 1,
                                   Subs!KeptBy(r, aState.users[r.user].devices)),
           NEW c, aCrossed => c, c \/ Subs!Undisturbed(r)
    PROVE  /\ Subs!AccountOk(rec, aSecrets + 1, aMade, c)
           /\ rec.login = aState.users[r.user].login /\ rec.banned = aState.users[r.user].banned
<1>1. PICK old : old = aState.users[r.user]
  OBVIOUS
<1>2. Subs!AccountOk(old, aSecrets, aMade, aCrossed) /\ old \in Subs!User
  BY <1>1, SubsRecord
<1>d. PICK d : d = old.devices
  OBVIOUS
<1>3. PICK e : e = Subs!KeptBy(r, d)
  OBVIOUS
<1>4. d \in Seq(Subs!Device)
  BY <1>2, <1>d DEF Subs!User
<1>5. /\ e \in Seq(Subs!Device) /\ \A i \in DOMAIN e : \E j \in DOMAIN d : e[i].id = d[j].id
      /\ d = <<>> => e = <<>>
      /\ (\E i \in DOMAIN d : d[i].id = r.dev) => \A i \in DOMAIN e : e[i].pass = aSecrets + 1
  BY <1>3, <1>4, SubsKept
<1>6. aSecrets \in Nat /\ aSecrets + 1 \in Nat /\ aSecrets + 1 \in 1..aSecrets + 1
  BY SubsFacts
<1>7. rec = Repassed(old, aSecrets + 1, e)
  BY <1>1, <1>d, <1>3
<1>8. rec \in Subs!User
  BY <1>2, <1>5, <1>6, <1>7 DEF Subs!User, Repassed
<1>9. rec.login = old.login /\ rec.pass = aSecrets + 1 /\ rec.devices = e
  BY <1>2, <1>7 DEF Subs!User, Repassed
<1>10. rec.banned = old.banned
  BY <1>2, <1>7 DEF Subs!User, Repassed
<1>11. \A i \in DOMAIN e : e[i].id \in 1..aMade
  BY <1>2, <1>5, <1>d DEF Subs!AccountOk
<1>12. rec.banned => rec.devices = <<>>
  BY <1>2, <1>5, <1>9, <1>10, <1>d DEF Subs!AccountOk
<1>13. ~c => \A i \in DOMAIN e : e[i].pass = aSecrets + 1
  <2>1. ~c => Subs!Undisturbed(r)
    OBVIOUS
  <2>2. Subs!Undisturbed(r) => \E i \in DOMAIN d : d[i].id = r.dev
    BY <1>1, <1>d DEF Subs!Undisturbed, Subs!users, Subs!Range
  <2> QED BY <2>1, <2>2, <1>5
<1> QED BY <1>1, <1>6, <1>8, <1>9, <1>10, <1>11, <1>12, <1>13 DEF Subs!AccountOk

LEMMA SubsPasswordEnds ==
    ASSUME Subs!IInv, NEW r \in aRequests, Subs!PasswordEnds(r)
    PROVE  Subs!IInv'
<1>0. UNCHANGED <<aScene, aNow, aMade>>
  BY DEF Subs!PasswordEnds
<1>1. CASE ~r.right
  <2>1. /\ Subs!Wrong(r.login) /\ aRequests' = aRequests \ {r}
        /\ UNCHANGED <<aState, aDisk, aSecrets, aFaults, aTold, aCrossed>>
    BY <1>1 DEF Subs!PasswordEnds
  <2> QED BY <1>0, <2>1, SubsWrongEnds
<1>2. CASE r.right
  <2>h. PICK here \in BOOLEAN : here <=> r.user \in DOMAIN aState.users
    <3>1. CASE r.user \in DOMAIN aState.users
      BY <3>1
    <3>2. CASE r.user \notin DOMAIN aState.users
      BY <3>2
    <3> QED BY <3>1, <3>2
  <2>d. PICK rec : rec = Repassed(aState.users[r.user], aSecrets + 1,
                                  Subs!KeptBy(r, aState.users[r.user].devices))
    OBVIOUS
  <2>s. PICK z : z = IF here THEN Subs!WithUser(r.user, rec) ELSE aState
    OBVIOUS
  <2>1. /\ aSecrets < MaxSecrets /\ aSecrets' = aSecrets + 1
        /\ Subs!Saves(z, z, {})
        /\ aRequests' = Subs!Detached(aRequests \ {r}, r.user) /\ aLim' = aLim
    BY <1>2, <2>h, <2>d, <2>s DEF Subs!PasswordEnds, Subs!users, Repassed
  <2>2. aCrossed' = (aCrossed \/ (here /\ ~Subs!Undisturbed(r)))
    BY <1>2, <2>h DEF Subs!PasswordEnds, Subs!users
  <2>3. aCrossed' \in BOOLEAN /\ (aCrossed => aCrossed')
    BY <2>2
  <2>4. PICK R : R = aRequests \ {r}
    OBVIOUS
  <2>5. R \subseteq aRequests
    BY <2>4
  <2>6. Subs!Within(R, aLim)
    BY <2>5, SubsLess
  <2>7. Subs!Within(Subs!Detached(R, r.user), aLim)
    BY <2>6, SubsDetached
  <2>8. Subs!Within(aRequests', aLim')
    BY <2>1, <2>4, <2>7
  <2>9. /\ aSecrets' \in 0..MaxSecrets /\ aSecrets <= aSecrets' /\ aMade' \in 0..MaxPhones /\ aMade <= aMade'
    BY <1>0, <2>1, SubsFacts, SubsNumbers
  <2>10. CASE here
    <3>1. PICK u : u = r.user
      OBVIOUS
    <3>2. PICK c : c = aCrossed'
      OBVIOUS
    <3>3. aCrossed => c
      BY <2>3, <3>2
    <3>4. c \/ Subs!Undisturbed(r)
      BY <2>2, <2>10, <3>2
    <3>5. r.user \in DOMAIN aState.users
      BY <2>h, <2>10
    <3>6. /\ Subs!AccountOk(rec, aSecrets + 1, aMade, c)
          /\ rec.login = aState.users[r.user].login /\ rec.banned = aState.users[r.user].banned
      BY <2>d, <3>3, <3>4, <3>5, SubsPasswordChanges
    <3>7. Subs!AccountOk(rec, aSecrets', aMade', aCrossed')
      BY <1>0, <2>1, <3>2, <3>6
    <3>8. z = Subs!WithUser(u, rec) /\ u \in DOMAIN aState.users
      BY <2>s, <2>10, <3>1, <3>5
    <3>9. rec.banned \/ (rec.banned = aState.users[u].banned /\ {} = {})
      BY <3>1, <3>6
    <3>10. rec.login = aState.users[u].login
      BY <3>1, <3>6
    <3> QED BY <1>0, <2>1, <2>3, <2>8, <2>9, <3>7, <3>8, <3>9, <3>10, SubsChanges
  <2>11. CASE ~here
    <3>1. z = aState
      BY <2>s, <2>11
    <3>2. PICK p : p = aSecrets'
      OBVIOUS
    <3>3. PICK c : c = aCrossed'
      OBVIOUS
    <3>4. p \in Nat /\ aSecrets \in Nat /\ aMade \in Nat /\ aSecrets <= p /\ aMade <= aMade /\ (aCrossed => c)
      BY <2>1, <2>3, <3>2, <3>3, SubsFacts
    <3>5. Subs!Sound(aState, aSecrets, aMade, aCrossed, aTold) /\ aTold \cup {} \subseteq aTold
      BY SubsFacts
    <3>6. Subs!Sound(aState, p, aMade, c, aTold \cup {})
      BY <3>4, <3>5, SubsLater
    <3>7. Subs!Sound(z, aSecrets', aMade', aCrossed', aTold \cup {})
      BY <1>0, <3>1, <3>2, <3>3, <3>6
    <3> QED BY <1>0, <2>1, <2>3, <2>8, <2>9, <3>7, SubsWrites
  <2> QED BY <2>10, <2>11
<1> QED BY <1>1, <1>2

LEMMA SubsDeletes ==
    ASSUME Subs!IInv, NEW u \in People, NEW z, z = Subs!WithoutUser(u),
           Subs!Saves(z, z, {<<"gone", u>>}),
           UNCHANGED <<aScene, aSecrets, aMade, aNow, aCrossed>>, Subs!Within(aRequests', aLim')
    PROVE  Subs!IInv'
<1>1. PICK s : s = aState
  OBVIOUS
<1>2. Subs!Sound(s, aSecrets, aMade, aCrossed, aTold)
  BY <1>1, SubsFacts
<1>3. z = [s EXCEPT !.users = Subs!WithoutKey(@, {u}),
                    !.orders = Subs!WithoutKey(@, {o \in DOMAIN @ : @[o].user = u})]
  BY <1>1 DEF Subs!WithoutUser
<1>4. Subs!Sound(z, aSecrets, aMade, aCrossed, aTold \cup {<<"gone", u>>})
  BY <1>2, <1>3, SubsGone
<1>5. Subs!Sound(z, aSecrets', aMade', aCrossed', aTold \cup {<<"gone", u>>})
  BY <1>4
<1>6. {<<"gone", u>>} \subseteq Subs!Told
  BY DEF Subs!Told
<1>7. /\ aSecrets' \in 0..MaxSecrets /\ aSecrets <= aSecrets' /\ aMade' \in 0..MaxPhones /\ aMade <= aMade'
      /\ aCrossed' \in BOOLEAN /\ (aCrossed => aCrossed')
  BY SubsFacts
<1> QED BY <1>5, <1>6, <1>7, SubsWrites

LEMMA SubsDeleteEnds ==
    ASSUME Subs!IInv, NEW r \in aRequests, Subs!DeleteEnds(r)
    PROVE  Subs!IInv'
<1>0. UNCHANGED <<aScene, aSecrets, aMade, aNow, aCrossed>> /\ aRequests' = aRequests \ {r}
  BY DEF Subs!DeleteEnds
<1>1. CASE Subs!Wrong(r.login) /\ UNCHANGED <<aState, aDisk, aFaults, aTold>>
  BY <1>0, <1>1, SubsWrongEnds
<1>2. CASE r.right /\ aLim' = aLim /\ LET s == Subs!WithoutUser(r.user) IN Subs!Saves(s, s, {<<"gone", r.user>>})
  <2>1. PICK z : z = Subs!WithoutUser(r.user)
    OBVIOUS
  <2>2. Subs!Saves(z, z, {<<"gone", r.user>>})
    BY <1>2, <2>1
  <2>3. PICK R : R = aRequests \ {r}
    OBVIOUS
  <2>4. R \subseteq aRequests
    BY <2>3
  <2>5. Subs!Within(R, aLim)
    BY <2>4, SubsLess
  <2>6. Subs!Within(aRequests', aLim')
    BY <1>0, <1>2, <2>3, <2>5
  <2>a. Subs!Within(aRequests, aLim)
    BY SubsFacts
  <2>b. r \in Subs!Request
    BY <2>a, SubsOf
  <2>7. r.user \in People
    BY <2>b DEF Subs!DeleteEnds, Subs!Request
  <2> QED BY <1>0, <2>1, <2>2, <2>6, <2>7, SubsDeletes
<1> QED BY <1>1, <1>2 DEF Subs!DeleteEnds

LEMMA SubsAdminDeletes ==
    ASSUME Subs!IInv, NEW u, Subs!AdminDeleteUser(u)
    PROVE  Subs!IInv'
<1>1. /\ u \in DOMAIN aState.users
      /\ UNCHANGED <<aScene, aRequests, aLim, aSecrets, aMade, aNow, aCrossed>>
  BY DEF Subs!AdminDeleteUser, Subs!users
<1>2. u \in People
  BY <1>1, SubsRecord
<1>3. PICK z : z = Subs!WithoutUser(u)
  OBVIOUS
<1>4. Subs!Saves(z, z, {<<"gone", u>>})
  BY <1>3 DEF Subs!AdminDeleteUser
<1>5. Subs!Within(aRequests', aLim')
  BY <1>1, SubsFacts
<1> QED BY <1>1, <1>2, <1>3, <1>4, <1>5, SubsDeletes

\* One device goes.
WithOnly(rec, d) == [rec EXCEPT !.devices = d]
LEMMA SubsLost ==
    ASSUME NEW old, NEW p, NEW m, NEW c, Subs!AccountOk(old, p, m, c),
           NEW j \in 1..Len(old.devices), NEW z, z = WithOnly(old, Subs!Cut(old.devices, j))
    PROVE  Subs!AccountOk(z, p, m, c) /\ z.login = old.login /\ z.banned = old.banned
<1>1. old \in Subs!User /\ old.devices \in Seq(Subs!Device)
  BY DEF Subs!AccountOk, Subs!User
<1>2. PICK e : e = Subs!Cut(old.devices, j)
  OBVIOUS
<1>3. e \in Seq(Subs!Device) /\ \A x \in DOMAIN e : \E y \in DOMAIN old.devices : e[x] = old.devices[y]
  BY <1>1, <1>2, SubsCut
<1>4. z \in Subs!User
  BY <1>1, <1>2, <1>3 DEF Subs!User, WithOnly
<1>5. z.login = old.login /\ z.pass = old.pass /\ z.devices = e
  BY <1>1, <1>2 DEF Subs!User, WithOnly
<1>6. z.banned = old.banned
  BY <1>1, <1>2 DEF Subs!User, WithOnly
<1>7. old.devices # <<>>
  BY <1>1
<1>8. ~z.banned
  BY <1>6, <1>7 DEF Subs!AccountOk
<1>9. \A i \in DOMAIN e : e[i].id \in 1..m /\ (~c => e[i].pass = old.pass)
  BY <1>3 DEF Subs!AccountOk
<1>10. z.pass \in 1..p
  BY <1>5 DEF Subs!AccountOk
<1> QED BY <1>4, <1>5, <1>6, <1>8, <1>9, <1>10 DEF Subs!AccountOk

LEMMA SubsRemoves ==
    ASSUME Subs!IInv, NEW u, NEW i, NEW j, Subs!RemoveDevice(u, i, j)
    PROVE  Subs!IInv'
<1>1. /\ u \in DOMAIN aState.users /\ j \in 1..Len(aState.users[u].devices)
      /\ aRequests' = Subs!AfterCut(aRequests, u, j)
      /\ UNCHANGED <<aScene, aLim, aSecrets, aMade, aNow, aCrossed>>
  BY DEF Subs!RemoveDevice, Subs!Authed, Subs!users
<1>2. PICK old : old = aState.users[u]
  OBVIOUS
<1>3. Subs!AccountOk(old, aSecrets, aMade, aCrossed) /\ old \in Subs!User
  BY <1>1, <1>2, SubsRecord
<1>4. PICK rec : rec = WithOnly(old, Subs!Cut(old.devices, j))
  OBVIOUS
<1>j. j \in 1..Len(old.devices)
  BY <1>1, <1>2
<1>a. Subs!AccountOk(old, aSecrets, aMade, aCrossed)
  BY <1>3
<1>5. Subs!AccountOk(rec, aSecrets, aMade, aCrossed) /\ rec.login = old.login /\ rec.banned = old.banned
  BY <1>a, <1>j, <1>4, SubsLost
<1>6. PICK z : z = Subs!WithUser(u, rec)
  OBVIOUS
<1>7. Subs!Saves(z, z, {})
  BY <1>2, <1>4, <1>6 DEF Subs!RemoveDevice, Subs!users, WithOnly
<1>8. Subs!AccountOk(rec, aSecrets', aMade', aCrossed')
  BY <1>1, <1>5
<1>9. rec.banned \/ (rec.banned = aState.users[u].banned /\ {} = {})
  BY <1>2, <1>5
<1>10. /\ aSecrets' \in 0..MaxSecrets /\ aSecrets <= aSecrets' /\ aMade' \in 0..MaxPhones /\ aMade <= aMade'
       /\ aCrossed' \in BOOLEAN /\ aCrossed' = aCrossed
  BY <1>1, SubsFacts
<1>11. rec.login = aState.users[u].login
  BY <1>2, <1>5
<1>b. j \in Nat \ {0}
  <2>1. Len(old.devices) \in Nat
    BY <1>3 DEF Subs!User
  <2> QED BY <2>1, <1>j
<1>c. Subs!Within(aRequests, aLim) /\ Subs!Stored(aState)
  BY SubsFacts
<1>d. Subs!Within(Subs!AfterCut(aRequests, u, j), aLim)
  BY <1>1, <1>b, <1>c, SubsCutOut
<1>12. Subs!Within(aRequests', aLim')
  BY <1>1, <1>d
<1> QED BY <1>1, <1>6, <1>7, <1>8, <1>9, <1>10, <1>11, <1>12, SubsChanges

LEMMA SubsRegisters ==
    ASSUME Subs!IInv, NEW u \in People, NEW l \in Handles, Subs!Register(u, l)
    PROVE  Subs!IInv'
<1>1. /\ u \notin DOMAIN aState.users /\ {<<"gone", u>>, <<"banned", u>>} \cap aTold = {}
      /\ ~Subs!Taken(l) /\ aSecrets < MaxSecrets /\ aMade < MaxPhones
      /\ aSecrets' = aSecrets + 1 /\ aMade' = aMade + 1
      /\ UNCHANGED <<aScene, aRequests, aLim, aNow, aCrossed>>
  BY DEF Subs!Register, Subs!users
<1>p. PICK p : p = aSecrets + 1
  OBVIOUS
<1>m. PICK m : m = aMade + 1
  OBVIOUS
<1>n. /\ p \in Nat /\ m \in Nat /\ aSecrets \in Nat /\ aMade \in Nat /\ 1 <= p /\ 1 <= m
      /\ aSecrets <= p /\ aMade <= m /\ p \in 0..MaxSecrets /\ m \in 0..MaxPhones
  BY <1>1, <1>p, <1>m, SubsFacts, SubsNumbers
<1>d. PICK d : d = <<[id |-> m, pass |-> p]>>
  OBVIOUS
<1>e. d \in Seq(Subs!Device) /\ DOMAIN d = {1} /\ d[1].id = m /\ d[1].pass = p
  <2>1. [id |-> m, pass |-> p] \in Subs!Device
    BY <1>n DEF Subs!Device
  <2> QED BY <1>d, <2>1
<1>b. PICK bare : bare = [login |-> l, pass |-> p, plan |-> Nothing, expires |-> 0, trial |-> FALSE,
                          banned |-> FALSE, devices |-> d]
  OBVIOUS
<1>2. Subs!AccountOk(bare, p, m, aCrossed) /\ bare.login = l /\ ~bare.banned
  <2>1. bare \in Subs!User
    BY <1>b, <1>e, <1>n, SubsNumbers DEF Subs!User
  <2>2. bare.login = l /\ bare.pass = p /\ bare.devices = d
    BY <1>b
  <2>3. ~bare.banned
    BY <1>b
  <2>4. p \in 1..p /\ m \in 1..m
    BY <1>n
  <2> QED BY <1>e, <2>1, <2>2, <2>3, <2>4 DEF Subs!AccountOk
<1>r. PICK rec : rec = IF Gifted /\ Subs!HasTrial(bare) THEN Subs!StartTrial(bare) ELSE bare
  OBVIOUS
<1>3. Subs!AccountOk(rec, p, m, aCrossed) /\ rec.login = l
  <2>1. CASE Gifted /\ Subs!HasTrial(bare)
    <3>1. rec = Subs!StartTrial(bare) /\ Subs!TrialPlans # {}
      BY <1>r, <2>1 DEF Subs!HasTrial
    <3>2. Subs!AccountOk(bare, p, m, aCrossed)
      BY <1>2
    <3>3. Subs!AccountOk(rec, p, m, aCrossed) /\ rec.login = bare.login
      BY <3>1, <3>2, SubsTrialOk
    <3> QED BY <1>2, <3>3
  <2>2. CASE ~(Gifted /\ Subs!HasTrial(bare))
    BY <1>r, <1>2, <2>2
  <2> QED BY <2>1, <2>2
<1>z. PICK z : z = Subs!WithUser(u, rec)
  OBVIOUS
<1>4. Subs!Saves(z, aState, {})
  BY <1>p, <1>m, <1>d, <1>b, <1>r, <1>z DEF Subs!Register
<1>s. PICK s : s = aState
  OBVIOUS
<1>t. PICK t : t = aTold
  OBVIOUS
<1>5. Subs!Sound(s, p, m, aCrossed, t)
  <2>1. Subs!Sound(s, aSecrets, aMade, aCrossed, t)
    BY <1>s, <1>t, SubsFacts
  <2>2. t \subseteq t /\ (aCrossed => aCrossed)
    OBVIOUS
  <2> QED BY <1>n, <2>1, <2>2, SubsLater
<1>6. \A v \in DOMAIN s.users : s.users[v].login # rec.login
  BY <1>1, <1>3, <1>s DEF Subs!Taken, Subs!ByLogin, Subs!users
<1>7. \A a \in t : a[1] \in {"gone", "banned"} => a[2] # u
  <2>1. t \subseteq Subs!Told
    BY <1>t, SubsFacts
  <2>2. \A a \in t : (a[1] = "gone" => a = <<"gone", a[2]>>) /\ (a[1] = "banned" => a = <<"banned", a[2]>>)
    BY <2>1 DEF Subs!Told
  <2> QED BY <1>1, <1>t, <2>2
<1>8. z = [s EXCEPT !.users = Subs!With(@, u, rec)]
  BY <1>z, <1>s DEF Subs!WithUser
<1>9. u \notin DOMAIN s.users
  BY <1>1, <1>s
<1>a. Subs!AccountOk(rec, p, m, aCrossed)
  BY <1>3
<1>10. Subs!Sound(z, p, m, aCrossed, t)
  BY <1>5, <1>6, <1>7, <1>8, <1>9, <1>a, SubsNew
<1>11. Subs!Sound(z, aSecrets', aMade', aCrossed', aTold \cup {})
  <2>1. aTold \cup {} = t
    BY <1>t
  <2> QED BY <1>1, <1>10, <1>p, <1>m, <2>1
<1>12. /\ aSecrets' \in 0..MaxSecrets /\ aSecrets <= aSecrets' /\ aMade' \in 0..MaxPhones /\ aMade <= aMade'
       /\ aCrossed' \in BOOLEAN /\ (aCrossed => aCrossed') /\ Subs!Within(aRequests', aLim')
  BY <1>1, <1>n, <1>p, <1>m, SubsFacts
<1>13. aScene' = aScene /\ aNow' = aNow /\ {} \subseteq Subs!Told
  BY <1>1
<1> QED BY <1>4, <1>11, <1>12, <1>13, SubsWrites

-----------------------------------------------------------------------------
\* Orders, keys and time.

LEMMA SubsStill ==
    ASSUME Subs!IInv, UNCHANGED <<aScene, aRequests, aLim, aSecrets, aMade, aNow, aCrossed>>
    PROVE  /\ aScene' = aScene /\ aNow' = aNow
           /\ aSecrets' \in 0..MaxSecrets /\ aSecrets <= aSecrets' /\ aMade' \in 0..MaxPhones /\ aMade <= aMade'
           /\ aCrossed' \in BOOLEAN /\ (aCrossed => aCrossed') /\ Subs!Within(aRequests', aLim')
BY SubsFacts

LEMMA SubsCheckout ==
    ASSUME Subs!IInv, NEW u, NEW i, NEW p \in DOMAIN Tariffs, NEW o \in Bills, Subs!Checkout(u, i, p, o)
    PROVE  Subs!IInv'
<1>1. /\ u \in DOMAIN aState.users /\ <<"paid", o>> \notin aTold
      /\ UNCHANGED <<aScene, aRequests, aLim, aSecrets, aMade, aNow, aCrossed>>
  BY DEF Subs!Checkout, Subs!Authed, Subs!users
<1>2. PICK ord : ord = [user |-> u, plan |-> p, status |-> "pending", credits |-> 0]
  OBVIOUS
<1>s. PICK s : s = aState
  OBVIOUS
<1>t. PICK t : t = aTold
  OBVIOUS
<1>z. PICK z : z = [s EXCEPT !.orders = Subs!With(@, o, ord)]
  OBVIOUS
<1>3. Subs!Saves(z, aState, {})
  BY <1>2, <1>s, <1>z DEF Subs!Checkout
<1>u. u \in People
  BY <1>1, SubsRecord
<1>4. ord \in Subs!Order
  BY <1>2, <1>u DEF Subs!Order
<1>5. Subs!OrderOk(ord, DOMAIN s.users)
  BY <1>1, <1>2, <1>s DEF Subs!OrderOk
<1>6. Subs!Sound(s, aSecrets, aMade, aCrossed, t)
  BY <1>s, <1>t, SubsFacts
<1>7. \A a \in t : a \in t \/ (a[1] = "paid" /\ a[2] = o)
  OBVIOUS
<1>8. \A a \in t : a[1] = "paid" /\ a[2] = o => ord.status = "paid"
  <2>1. t \subseteq Subs!Told
    BY <1>t, SubsFacts
  <2>2. \A a \in t : a[1] = "paid" => a = <<"paid", a[2]>>
    BY <2>1 DEF Subs!Told
  <2> QED BY <1>1, <1>t, <2>2
<1>9. Subs!Sound(z, aSecrets, aMade, aCrossed, t)
  BY <1>4, <1>5, <1>6, <1>7, <1>8, <1>z, SubsOrder
<1>10. Subs!Sound(z, aSecrets', aMade', aCrossed', aTold \cup {})
  <2>1. aTold \cup {} = t
    BY <1>t
  <2> QED BY <1>1, <1>9, <2>1
<1>11. {} \subseteq Subs!Told
  OBVIOUS
<1> QED BY <1>1, <1>3, <1>10, <1>11, SubsStill, SubsWrites

LEMMA SubsSameBan ==
    ASSUME NEW s, NEW p, NEW m, NEW c, NEW t, Subs!Sound(s, p, m, c, t),
           NEW u \in DOMAIN s.users, NEW rec, Subs!AccountOk(rec, p, m, c),
           rec.login = s.users[u].login, rec.banned = s.users[u].banned
    PROVE  LET z == [s EXCEPT !.users = Subs!With(@, u, rec)]
           IN  /\ Subs!Sound(z, p, m, c, t) /\ z.orders = s.orders
               /\ DOMAIN z.users = DOMAIN s.users /\ z.users[u] = rec
<1>z. PICK z : z = [s EXCEPT !.users = Subs!With(@, u, rec)]
  OBVIOUS
<1>a. Subs!Stored(s)
  BY DEF Subs!Sound
<1>c. u \in People
  BY <1>a DEF Subs!Stored, Subs!Partly
<1>d. rec \in Subs!User
  BY DEF Subs!AccountOk
<1>b. /\ Subs!Partly(s.users, People, Subs!User) /\ Subs!Partly(s.orders, Bills, Subs!Order)
      /\ Subs!Partly(s.keys, Tickets, Subs!Key)
  BY <1>a DEF Subs!Stored
<1>u. Subs!Partly(s.users, People, Subs!User)
  BY <1>b
<1>o. Subs!Partly(s.orders, Bills, Subs!Order)
  BY <1>b
<1>g. PICK g : g = Subs!With(s.users, u, rec)
  OBVIOUS
<1>1. /\ Subs!Partly(g, People, Subs!User) /\ DOMAIN g = DOMAIN s.users /\ g[u] = rec
      /\ \A y \in DOMAIN s.users : y # u => g[y] = s.users[y]
  <2>1. g = [y \in DOMAIN s.users \cup {u} |-> IF y = u THEN rec ELSE s.users[y]]
    BY <1>g DEF Subs!With
  <2>2. DOMAIN s.users \cup {u} = DOMAIN s.users
    OBVIOUS
  <2>3. DOMAIN g = DOMAIN s.users /\ g[u] = rec
        /\ \A y \in DOMAIN s.users : y # u => g[y] = s.users[y]
    BY <2>1, <2>2
  <2>4. g = [y \in DOMAIN g |-> g[y]]
    BY <2>1, <2>2
  <2> QED BY <1>c, <1>d, <1>u, <2>3, <2>4 DEF Subs!Partly
<1>2. z = [users |-> g, orders |-> s.orders, keys |-> s.keys]
  BY <1>a, <1>g, <1>z, SubsParts
<1>3. Subs!Stored(z) /\ z.users = g /\ z.orders = s.orders /\ z.keys = s.keys
  BY <1>b, <1>1, <1>2, SubsStored
<1>4. \A v \in DOMAIN g : Subs!AccountOk(g[v], p, m, c)
  BY <1>1 DEF Subs!Sound
<1>5. \A v, x \in DOMAIN g : g[v].login = g[x].login => v = x
  BY <1>1 DEF Subs!Sound
<1>6. ASSUME NEW a \in t PROVE Subs!KeptIn(z, a)
  <2>1. a \in t => Subs!KeptIn(s, a)
    BY DEF Subs!Sound
  <2>2. a \in t
    BY <1>6
  <2>3. a[1] = "banned" /\ a[2] = u => rec.banned
    BY <2>1, <2>2 DEF Subs!KeptIn
  <2>4. a[1] = "banned" /\ a[2] \in DOMAIN g => g[a[2]].banned
    BY <1>1, <2>1, <2>2, <2>3 DEF Subs!KeptIn
  <2>5. a[1] = "banned" => Subs!KeptIn(z, a)
    BY <1>3, <2>4 DEF Subs!KeptIn
  <2> QED BY <1>1, <1>3, <2>1, <2>2, <2>5 DEF Subs!KeptIn
<1>7. Subs!Sound(z, p, m, c, t)
  BY <1>1, <1>3, <1>4, <1>5, <1>6 DEF Subs!Sound
<1> QED BY <1>z, <1>1, <1>3, <1>7

LEMMA SubsPaid ==
    ASSUME Subs!IInv, NEW o \in Bills, Subs!AdminPaid(o)
    PROVE  Subs!IInv'
<1>s. PICK s : s = aState
  OBVIOUS
<1>o. PICK old : old = s.orders[o]
  OBVIOUS
<1>1. /\ o \in DOMAIN s.orders /\ old.user \in DOMAIN s.users
      /\ UNCHANGED <<aScene, aRequests, aLim, aSecrets, aMade, aNow, aCrossed>>
  BY <1>s, <1>o DEF Subs!AdminPaid, Subs!users
<1>z. PICK z : z = Subs!MarkPaid(o)
  OBVIOUS
<1>2. Subs!Saves(z, z, {<<"paid", o>>}) /\ z.users[old.user].expires <= MaxEnd
  BY <1>s, <1>o, <1>z DEF Subs!AdminPaid
<1>t. PICK t : t = aTold
  OBVIOUS
<1>w. PICK w : w = aTold \cup {<<"paid", o>>}
  OBVIOUS
<1>3. Subs!Sound(s, aSecrets, aMade, aCrossed, t)
  BY <1>s, <1>t, SubsFacts
<1>4. old \in Subs!Order /\ Subs!OrderOk(old, DOMAIN s.users)
  <2>1. Subs!Partly(s.orders, Bills, Subs!Order)
    BY <1>3 DEF Subs!Sound, Subs!Stored
  <2> QED BY <1>1, <1>3, <1>o, <2>1 DEF Subs!Sound, Subs!Partly
<1>a. \A a \in w : a \in t \/ (a[1] = "paid" /\ a[2] = o)
  BY <1>t, <1>w
<1>5. CASE Subs!Unpaid(o)
  <2>1. PICK u : u = old.user
    OBVIOUS
  <2>2. PICK acc : acc = s.users[u]
    OBVIOUS
  <2>3. PICK rec : rec = Subs!Extend(acc, old.plan)
    OBVIOUS
  <2>4. PICK y : y = Subs!WithUser(u, rec)
    OBVIOUS
  <2>5. PICK ord : ord = [old EXCEPT !.status = "paid", !.credits = @ + 1]
    OBVIOUS
  <2>6. z = [y EXCEPT !.orders = Subs!With(@, o, ord)]
    BY <1>s, <1>o, <1>z, <1>5, <2>1, <2>2, <2>3, <2>4, <2>5 DEF Subs!MarkPaid, Subs!users
  <2>7. y = [s EXCEPT !.users = Subs!With(@, u, rec)]
    BY <1>s, <2>4 DEF Subs!WithUser
  <2>8. u \in DOMAIN s.users /\ u \in DOMAIN aState.users
    BY <1>1, <1>s, <2>1
  <2>9. Subs!AccountOk(acc, aSecrets, aMade, aCrossed) /\ acc \in Subs!User
    BY <1>s, <2>2, <2>8, SubsRecord
  <2>10. old.plan \in DOMAIN Tariffs
    BY <1>4 DEF Subs!Order
  <2>11. z.users = y.users /\ z.users[u] = rec
    <3>1. Subs!Stored(s)
      BY <1>3 DEF Subs!Sound
    <3>2. PICK g : g = Subs!With(s.users, u, rec)
      OBVIOUS
    <3>3. y = [users |-> g, orders |-> s.orders, keys |-> s.keys]
      BY <2>7, <3>1, <3>2, SubsParts
    <3>4. g[u] = rec
      BY <3>2 DEF Subs!With
    <3> QED BY <2>6, <3>3, <3>4
  <2>12. rec.expires <= MaxEnd
    BY <1>2, <2>1, <2>11
  <2>13. Subs!AccountOk(acc, aSecrets, aMade, aCrossed)
    BY <2>9
  <2>14. Subs!AccountOk(rec, aSecrets, aMade, aCrossed) /\ rec.login = acc.login /\ rec.banned = acc.banned
    BY <2>3, <2>10, <2>12, <2>13, SubsExtendOk
  <2>15. Subs!AccountOk(rec, aSecrets, aMade, aCrossed)
    BY <2>14
  <2>16. rec.login = s.users[u].login
    BY <2>2, <2>14
  <2>17. u \in DOMAIN s.users
    BY <2>8
  <2>18. rec.banned = s.users[u].banned
    BY <2>2, <2>14
  <2>19. Subs!Sound(y, aSecrets, aMade, aCrossed, t) /\ DOMAIN y.users = DOMAIN s.users
    BY <1>3, <2>7, <2>15, <2>16, <2>17, <2>18, SubsSameBan
  <2>20. old.status # "paid"
    BY <1>5, <1>s, <1>o DEF Subs!Unpaid
  <2>a. old.credits = 0
    BY <1>4, <2>20 DEF Subs!OrderOk
  <2>b. old \in Subs!Order
    BY <1>4
  <2>21. ord \in Subs!Order
    <3>1. ord = [old EXCEPT !.status = "paid", !.credits = 1]
      <4>1. old.credits + 1 = 1
        BY <2>a
      <4> QED BY <4>1, <2>5
    <3> QED BY <2>b, <3>1 DEF Subs!Order
  <2>22. Subs!OrderOk(ord, DOMAIN y.users) /\ ord.status = "paid"
    BY <1>4, <2>5, <2>19, <2>20 DEF Subs!Order, Subs!OrderOk
  <2>23. \A a \in w : a[1] = "paid" /\ a[2] = o => ord.status = "paid"
    BY <2>22
  <2>24. Subs!Sound(y, aSecrets, aMade, aCrossed, t)
    BY <2>19
  <2>25. Subs!OrderOk(ord, DOMAIN y.users)
    BY <2>22
  <2>26. Subs!Sound(z, aSecrets, aMade, aCrossed, w)
    BY <1>a, <2>6, <2>21, <2>23, <2>24, <2>25, SubsOrder
  <2>27. Subs!Sound(z, aSecrets', aMade', aCrossed', aTold \cup {<<"paid", o>>})
    BY <1>1, <1>w, <2>26
  <2>28. {<<"paid", o>>} \subseteq Subs!Told
    BY DEF Subs!Told
  <2> QED BY <1>1, <1>2, <2>27, <2>28, SubsStill, SubsWrites
<1>6. CASE ~Subs!Unpaid(o)
  <2>1. z = s
    BY <1>s, <1>z, <1>6 DEF Subs!MarkPaid
  <2>2. old.status = "paid"
    BY <1>6, <1>s, <1>o DEF Subs!Unpaid
  <2>3. \A a \in w : Subs!KeptIn(s, a)
    <3>1. \A a \in t : Subs!KeptIn(s, a)
      BY <1>3 DEF Subs!Sound
    <3>2. Subs!KeptIn(s, <<"paid", o>>)
      BY <1>o, <2>2 DEF Subs!KeptIn
    <3> QED BY <1>t, <1>w, <3>1, <3>2
  <2>4. Subs!Sound(s, aSecrets, aMade, aCrossed, w)
    BY <1>3, <2>3 DEF Subs!Sound
  <2>27. Subs!Sound(z, aSecrets', aMade', aCrossed', aTold \cup {<<"paid", o>>})
    BY <1>1, <1>w, <2>1, <2>4
  <2>28. {<<"paid", o>>} \subseteq Subs!Told
    BY DEF Subs!Told
  <2> QED BY <1>1, <1>2, <2>27, <2>28, SubsStill, SubsWrites
<1> QED BY <1>5, <1>6

LEMMA SubsAddsKey ==
    ASSUME Subs!IInv, NEW k \in Tickets, Subs!AdminAddKey(k)
    PROVE  Subs!IInv'
<1>1. /\ k \notin DOMAIN aState.keys
      /\ UNCHANGED <<aScene, aRequests, aLim, aSecrets, aMade, aNow, aCrossed>>
  BY DEF Subs!AdminAddKey
<1>2. PICK e \in {0, aNow + 1} :
        Subs!Saves([aState EXCEPT !.keys = Subs!With(@, k, [expires |-> e, revoked |-> FALSE])], aState, {})
  BY DEF Subs!AdminAddKey
<1>3. PICK key : key = [expires |-> e, revoked |-> FALSE]
  OBVIOUS
<1>s. PICK s : s = aState
  OBVIOUS
<1>t. PICK t : t = aTold
  OBVIOUS
<1>z. PICK z : z = [s EXCEPT !.keys = Subs!With(@, k, key)]
  OBVIOUS
<1>4. Subs!Saves(z, aState, {})
  BY <1>2, <1>3, <1>s, <1>z
<1>5. key \in Subs!Key
  BY <1>2, <1>3, SubsFacts DEF Subs!Key
<1>6. Subs!Sound(s, aSecrets, aMade, aCrossed, t)
  BY <1>s, <1>t, SubsFacts
<1>7. \A a \in t : a \in t \/ (a[1] = "revoked" /\ a[2] = k)
  OBVIOUS
<1>8. \A a \in t : a[1] = "revoked" /\ a[2] = k => key.revoked
  <2>1. \A a \in t : Subs!KeptIn(s, a)
    BY <1>6 DEF Subs!Sound
  <2> QED BY <1>1, <1>s, <2>1 DEF Subs!KeptIn
<1>9. Subs!Sound(z, aSecrets, aMade, aCrossed, t)
  BY <1>5, <1>6, <1>7, <1>8, <1>z, SubsKey
<1>10. Subs!Sound(z, aSecrets', aMade', aCrossed', aTold \cup {})
  <2>1. aTold \cup {} = t
    BY <1>t
  <2> QED BY <1>1, <1>9, <2>1
<1>11. {} \subseteq Subs!Told
  OBVIOUS
<1> QED BY <1>1, <1>4, <1>10, <1>11, SubsStill, SubsWrites

LEMMA SubsKeyOf ==
    ASSUME Subs!IInv, NEW k \in DOMAIN aState.keys, NEW key, key = aState.keys[k]
    PROVE  key \in Subs!Key /\ k \in Tickets
BY DEF Subs!IInv, Subs!Sound, Subs!Stored, Subs!Partly

LEMMA SubsRevokes ==
    ASSUME Subs!IInv, NEW k, Subs!AdminRevokeKey(k)
    PROVE  Subs!IInv'
<1>1. /\ k \in DOMAIN aState.keys
      /\ UNCHANGED <<aScene, aRequests, aLim, aSecrets, aMade, aNow, aCrossed>>
  BY DEF Subs!AdminRevokeKey
<1>2. PICK old : old = aState.keys[k]
  OBVIOUS
<1>o. old \in Subs!Key /\ k \in Tickets
  BY <1>1, <1>2, SubsKeyOf
<1>3. PICK key : key = [old EXCEPT !.revoked = TRUE]
  OBVIOUS
<1>s. PICK s : s = aState
  OBVIOUS
<1>w. PICK w : w = aTold \cup {<<"revoked", k>>}
  OBVIOUS
<1>z. PICK z : z = [s EXCEPT !.keys = Subs!With(@, k, key)]
  OBVIOUS
<1>4. Subs!Saves(z, z, {<<"revoked", k>>})
  BY <1>2, <1>3, <1>s, <1>z DEF Subs!AdminRevokeKey
<1>5. key \in Subs!Key
  BY <1>o, <1>3 DEF Subs!Key
<1>r. key.revoked
  BY <1>o, <1>3 DEF Subs!Key
<1>6. Subs!Sound(s, aSecrets, aMade, aCrossed, aTold)
  BY <1>s, SubsFacts
<1>7. \A a \in w : a \in aTold \/ (a[1] = "revoked" /\ a[2] = k)
  BY <1>w
<1>8. \A a \in w : a[1] = "revoked" /\ a[2] = k => key.revoked
  BY <1>r
<1>9. Subs!Sound(z, aSecrets, aMade, aCrossed, w)
  BY <1>o, <1>5, <1>6, <1>7, <1>8, <1>z, SubsKey
<1>10. Subs!Sound(z, aSecrets', aMade', aCrossed', aTold \cup {<<"revoked", k>>})
  BY <1>1, <1>9, <1>w
<1>11. {<<"revoked", k>>} \subseteq Subs!Told
  BY <1>o DEF Subs!Told
<1> QED BY <1>1, <1>4, <1>10, <1>11, SubsStill, SubsWrites

LEMMA SubsExtendsKey ==
    ASSUME Subs!IInv, NEW k, Subs!AdminExtendKey(k)
    PROVE  Subs!IInv'
<1>1. /\ k \in DOMAIN aState.keys
      /\ UNCHANGED <<aScene, aRequests, aLim, aSecrets, aMade, aNow, aCrossed>>
  BY DEF Subs!AdminExtendKey
<1>2. PICK old : old = aState.keys[k]
  OBVIOUS
<1>o. old \in Subs!Key /\ k \in Tickets
  BY <1>1, <1>2, SubsKeyOf
<1>e. PICK e : e = Subs!MaxOf(aNow, old.expires) + 1
  OBVIOUS
<1>3. PICK key : key = [expires |-> e, revoked |-> FALSE]
  OBVIOUS
<1>s. PICK s : s = aState
  OBVIOUS
<1>w. PICK w : w = aTold \ {<<"revoked", k>>}
  OBVIOUS
<1>z. PICK z : z = [s EXCEPT !.keys = Subs!With(@, k, key)]
  OBVIOUS
<1>4. /\ aState' = z /\ aTold' = w /\ (aDisk' = z \/ aDisk' = aDisk)
      /\ aFaults' \in 0..MaxUnsaved
  BY <1>2, <1>3, <1>e, <1>s, <1>z, <1>w, SubsFacts, SubsNumbers DEF Subs!AdminExtendKey
<1>5. key \in Subs!Key
  <2>1. e \in Nat
    BY <1>e, <1>o, SubsFacts DEF Subs!Key, Subs!MaxOf
  <2> QED BY <2>1, <1>3 DEF Subs!Key
<1>6. Subs!Sound(s, aSecrets, aMade, aCrossed, aTold)
  BY <1>s, SubsFacts
<1>t. aTold \subseteq Subs!Told
  BY SubsFacts
<1>7. \A a \in w : a \in aTold \/ (a[1] = "revoked" /\ a[2] = k)
  BY <1>w
<1>8. \A a \in w : a[1] = "revoked" /\ a[2] = k => key.revoked
  <2>1. \A a \in w : a[1] = "revoked" /\ a[2] = k => a = <<"revoked", k>>
    BY <1>t, <1>w DEF Subs!Told
  <2> QED BY <1>w, <2>1
<1>9. Subs!Sound(z, aSecrets, aMade, aCrossed, w)
  BY <1>o, <1>5, <1>6, <1>7, <1>8, <1>z, SubsKey
<1>10. Subs!Sound(aDisk, aSecrets, aMade, aCrossed, w)
  <2>1. Subs!Sound(aDisk, aSecrets, aMade, aCrossed, aTold)
    BY SubsFacts
  <2>2. aSecrets \in Nat /\ aMade \in Nat /\ aSecrets <= aSecrets /\ aMade <= aMade
    BY SubsFacts
  <2>3. w \subseteq aTold /\ (aCrossed => aCrossed)
    BY <1>w
  <2> QED BY <2>1, <2>2, <2>3, SubsLater
<1>17. /\ Subs!Sound(aState', aSecrets', aMade', aCrossed', aTold')
       /\ Subs!Sound(aDisk', aSecrets', aMade', aCrossed', aTold')
  BY <1>1, <1>4, <1>9, <1>10
<1>18. /\ aScene' \in Askings /\ aSecrets' \in 0..MaxSecrets /\ aMade' \in 0..MaxPhones
       /\ aNow' \in 0..MaxDays /\ aCrossed' \in BOOLEAN /\ Subs!Within(aRequests', aLim')
       /\ aTold' \subseteq Subs!Told
  BY <1>1, <1>4, <1>t, <1>w, SubsFacts
<1> QED BY <1>4, <1>17, <1>18, SubsTogether

LEMMA SubsSeen ==
    ASSUME Subs!IInv, NEW u, NEW i, Subs!Seen(u, i)
    PROVE  Subs!IInv'
<1>1. /\ aDisk' = aState
      /\ UNCHANGED <<aScene, aState, aRequests, aLim, aSecrets, aMade, aNow, aFaults, aTold, aCrossed>>
  BY DEF Subs!Seen
<1>2. /\ Subs!Sound(aState', aSecrets', aMade', aCrossed', aTold')
      /\ Subs!Sound(aDisk', aSecrets', aMade', aCrossed', aTold')
  BY <1>1, SubsFacts
<1>3. /\ aScene' \in Askings /\ aSecrets' \in 0..MaxSecrets /\ aMade' \in 0..MaxPhones
      /\ aNow' \in 0..MaxDays /\ aCrossed' \in BOOLEAN /\ Subs!Within(aRequests', aLim')
      /\ aTold' \subseteq Subs!Told /\ aFaults' \in 0..MaxUnsaved
  BY <1>1, SubsFacts
<1> QED BY <1>2, <1>3, SubsTogether

LEMMA SubsDay ==
    ASSUME Subs!IInv, Subs!DayPasses
    PROVE  Subs!IInv'
<1>1. /\ aNow < MaxDays /\ aNow' = aNow + 1
      /\ UNCHANGED <<aScene, aState, aDisk, aRequests, aLim, aSecrets, aMade, aFaults, aTold, aCrossed>>
  BY DEF Subs!DayPasses
<1>2. /\ Subs!Sound(aState', aSecrets', aMade', aCrossed', aTold')
      /\ Subs!Sound(aDisk', aSecrets', aMade', aCrossed', aTold')
  BY <1>1, SubsFacts
<1>3. /\ aScene' \in Askings /\ aSecrets' \in 0..MaxSecrets /\ aMade' \in 0..MaxPhones
      /\ aCrossed' \in BOOLEAN /\ Subs!Within(aRequests', aLim')
      /\ aTold' \subseteq Subs!Told /\ aFaults' \in 0..MaxUnsaved
  BY <1>1, SubsFacts
<1>4. aNow' \in 0..MaxDays
  BY <1>1, SubsFacts, SubsNumbers
<1> QED BY <1>2, <1>3, <1>4, SubsTogether

LEMMA SubsNone ==
    ASSUME NEW f, f = [l \in Handles |-> 0]
    PROVE  Subs!Within({}, f)
<1>1. \A l : Subs!Of({}, l) = {}
  BY DEF Subs!Of
<1>2. IsFiniteSet({}) /\ Cardinality({}) = 0
  BY FS_EmptySet
<1> QED BY <1>1, <1>2, SubsNumbers, SubsIsWithin

LEMMA SubsRestarts ==
    ASSUME Subs!IInv, Subs!Restart
    PROVE  Subs!IInv'
<1>1. /\ aFaults < MaxUnsaved /\ aFaults' = aFaults + 1 /\ aState' = aDisk
      /\ aRequests' = {} /\ aLim' = [l \in Handles |-> 0]
      /\ UNCHANGED <<aScene, aDisk, aSecrets, aMade, aNow, aTold, aCrossed>>
  BY DEF Subs!Restart
<1>2. /\ Subs!Sound(aState', aSecrets', aMade', aCrossed', aTold')
      /\ Subs!Sound(aDisk', aSecrets', aMade', aCrossed', aTold')
  BY <1>1, SubsFacts
<1>3. /\ aScene' \in Askings /\ aSecrets' \in 0..MaxSecrets /\ aMade' \in 0..MaxPhones
      /\ aNow' \in 0..MaxDays /\ aCrossed' \in BOOLEAN
      /\ aTold' \subseteq Subs!Told
  BY <1>1, SubsFacts
<1>4. aFaults' \in 0..MaxUnsaved
  BY <1>1, SubsFacts, SubsNumbers
<1>5. Subs!Within(aRequests', aLim')
  <2>1. PICK f : f = [l \in Handles |-> 0]
    OBVIOUS
  <2>2. Subs!Within({}, f)
    BY <2>1, SubsNone
  <2> QED BY <1>1, <2>1, <2>2
<1> QED BY <1>2, <1>3, <1>4, <1>5, SubsTogether

-----------------------------------------------------------------------------
LEMMA SubsInit == Subs!Init => Subs!IInv
<1> SUFFICES ASSUME Subs!Init PROVE Subs!IInv
  OBVIOUS
<1> USE DEF Subs!Init
<1>1. Subs!Counts
  <2>1. aCrossed \in BOOLEAN
    OBVIOUS
  <2>2. /\ aScene \in Askings /\ aSecrets \in 0..MaxSecrets /\ aMade \in 0..MaxPhones
        /\ aNow \in 0..MaxDays /\ aFaults \in 0..MaxUnsaved /\ aTold \subseteq Subs!Told
    BY SubsNumbers
  <2> QED BY <2>1, <2>2 DEF Subs!Counts
<1>2. Subs!Within(aRequests, aLim)
  <2>1. PICK f : f = [l \in Handles |-> 0]
    OBVIOUS
  <2>2. Subs!Within({}, f)
    BY <2>1, SubsNone
  <2> QED BY <2>1, <2>2
<1>3. aState = [users |-> <<>>, orders |-> <<>>, keys |-> <<>>] /\ aDisk = aState
      /\ aTold = {}
  OBVIOUS
<1>4. DOMAIN aState.users = {} /\ DOMAIN aState.orders = {} /\ DOMAIN aState.keys = {}
  BY <1>3
<1>5. Subs!Stored(aState)
  <2>1. \A S, T : Subs!Partly(<<>>, S, T)
    BY DEF Subs!Partly
  <2>2. /\ Subs!Partly(aState.users, People, Subs!User) /\ Subs!Partly(aState.orders, Bills, Subs!Order)
        /\ Subs!Partly(aState.keys, Tickets, Subs!Key)
    BY <1>3, <2>1
  <2>3. aState = [users |-> aState.users, orders |-> aState.orders, keys |-> aState.keys]
    BY <1>3
  <2> QED BY <2>2, <2>3 DEF Subs!Stored
<1>6. Subs!Sound(aState, aSecrets, aMade, aCrossed, aTold)
  BY <1>3, <1>4, <1>5 DEF Subs!Sound
<1> QED BY <1>1, <1>2, <1>3, <1>6 DEF Subs!IInv

LEMMA SubsStep == Subs!IInv /\ Subs!Next => Subs!IInv'
<1> SUFFICES ASSUME Subs!IInv, Subs!Next PROVE Subs!IInv'
  OBVIOUS
<1>1. CASE \E u \in People, l \in Handles : Subs!Register(u, l)
  BY <1>1, SubsRegisters
<1>2. CASE \E l \in Handles : Subs!Refused(l) \/ Subs!WindowPasses(l)
  BY <1>2, SubsRefuses
<1>3. CASE \E l \in Handles, p \in 1..aSecrets : Subs!LoginBegins(l, p)
  BY <1>3, SubsLoginBegins
<1>4. CASE \E u \in People, i \in 1..MaxPhones : Subs!Seen(u, i)
  BY <1>4, SubsSeen
<1>5. CASE \E u \in People, i \in 1..MaxPhones : Subs!Trial(u, i)
  BY <1>5, SubsTrial
<1>6. CASE \E u \in People, i \in 1..MaxPhones : \E right \in BOOLEAN : Subs!PasswordBegins(u, i, right)
  <2>1. PICK u, i : \E right \in BOOLEAN : Subs!PasswordBegins(u, i, right)
    BY <1>6
  <2>2. PICK right \in BOOLEAN : Subs!Begins("password", u, i, right)
    BY <2>1 DEF Subs!PasswordBegins
  <2> QED BY <2>2, SubsBegins
<1>7. CASE \E u \in People, i \in 1..MaxPhones : \E right \in BOOLEAN : Subs!DeleteBegins(u, i, right)
  <2>1. PICK u, i : \E right \in BOOLEAN : Subs!DeleteBegins(u, i, right)
    BY <1>7
  <2>2. PICK right \in BOOLEAN : Subs!Begins("delete", u, i, right)
    BY <2>1 DEF Subs!DeleteBegins
  <2> QED BY <2>2, SubsBegins
<1>8. CASE \E u \in People, i \in 1..MaxPhones : \E j \in 1..MaxPhones : Subs!RemoveDevice(u, i, j)
  BY <1>8, SubsRemoves
<1>9. CASE \E u \in People, i \in 1..MaxPhones : \E p \in DOMAIN Tariffs, o \in Bills : Subs!Checkout(u, i, p, o)
  BY <1>9, SubsCheckout
<1>10. CASE \E r \in aRequests : Subs!LoginEnds(r)
  BY <1>10, SubsLoginEnds
<1>11. CASE \E r \in aRequests : Subs!PasswordEnds(r)
  BY <1>11, SubsPasswordEnds
<1>12. CASE \E r \in aRequests : Subs!DeleteEnds(r)
  BY <1>12, SubsDeleteEnds
<1>13. CASE \E u \in People : Subs!Recover(u)
  BY <1>13, SubsRecovers
<1>14. CASE \E u \in People : Subs!AdminResetPassword(u)
  BY <1>14, SubsReset
<1>15. CASE \E u \in People : Subs!AdminDeleteUser(u)
  BY <1>15, SubsAdminDeletes
<1>16. CASE \E u \in People : \E b \in BOOLEAN : Subs!AdminBan(u, b)
  <2>1. PICK u \in People, b \in BOOLEAN : Subs!AdminBan(u, b)
    BY <1>16
  <2>2. b = TRUE \/ b = FALSE
    OBVIOUS
  <2>3. Subs!AdminBan(u, TRUE) \/ Subs!AdminBan(u, FALSE)
    BY <2>1, <2>2
  <2> QED BY <2>3, SubsBan, SubsUnban
<1>17. CASE \E u \in People : \E p \in DOMAIN Tariffs : Subs!AdminGrant(u, p)
  BY <1>17, SubsGrant
<1>18. CASE \E o \in Bills : Subs!AdminPaid(o)
  BY <1>18, SubsPaid
<1>19. CASE \E k \in Tickets : Subs!AdminAddKey(k) \/ Subs!AdminExtendKey(k) \/ Subs!AdminRevokeKey(k)
  BY <1>19, SubsAddsKey, SubsExtendsKey, SubsRevokes
<1>20. CASE Subs!DayPasses
  BY <1>20, SubsDay
<1>21. CASE Subs!Restart
  BY <1>21, SubsRestarts
<1> QED BY <1>1, <1>2, <1>3, <1>4, <1>5, <1>6, <1>7, <1>8, <1>9, <1>10, <1>11, <1>12, <1>13, <1>14, <1>15,
           <1>16, <1>17, <1>18, <1>19, <1>20, <1>21 DEF Subs!Next

LEMMA SubsRests == Subs!IInv /\ UNCHANGED subsVars => Subs!IInv'
<1> SUFFICES ASSUME Subs!IInv, UNCHANGED subsVars PROVE Subs!IInv'
  OBVIOUS
<1>1. UNCHANGED <<aScene, aState, aDisk, aRequests, aLim, aSecrets, aMade, aNow, aFaults, aTold, aCrossed>>
  BY DEF subsVars
<1>2. Subs!Within(aRequests', aLim')
  BY <1>1, SubsFacts
<1> QED BY <1>1, <1>2, SubsQuiet

LEMMA SubsPromise == Subs!IInv => Subs!TypeOK /\ Subs!AccountsKept
<1> SUFFICES ASSUME Subs!IInv PROVE Subs!TypeOK /\ Subs!AccountsKept
  OBVIOUS
<1>1. ASSUME NEW s, Subs!Sound(s, aSecrets, aMade, aCrossed, aTold)
      PROVE  /\ DOMAIN s.users \subseteq People /\ DOMAIN s.orders \subseteq Bills
             /\ \A u \in DOMAIN s.users :
                 /\ s.users[u].pass \in 1..aSecrets /\ s.users[u].expires \in 0..MaxEnd
                 /\ \A d \in Subs!Range(s.users[u].devices) : d.id \in 1..aMade
             /\ \A u, v \in DOMAIN s.users : s.users[u].login = s.users[v].login => u = v
             /\ \A o \in DOMAIN s.orders :
                 /\ s.orders[o].credits = (IF s.orders[o].status = "paid" THEN 1 ELSE 0)
                 /\ s.orders[o].user \in DOMAIN s.users
             /\ \A u \in DOMAIN s.users : s.users[u].banned => s.users[u].devices = <<>>
             /\ ~aCrossed => \A u \in DOMAIN s.users :
                    \A d \in Subs!Range(s.users[u].devices) : d.pass = s.users[u].pass
  <2>1. DOMAIN s.users \subseteq People /\ DOMAIN s.orders \subseteq Bills
    BY <1>1 DEF Subs!Sound, Subs!Stored, Subs!Partly
  <2>2. ASSUME NEW u \in DOMAIN s.users
        PROVE  /\ s.users[u].pass \in 1..aSecrets /\ s.users[u].expires \in 0..MaxEnd
               /\ \A d \in Subs!Range(s.users[u].devices) : d.id \in 1..aMade
               /\ s.users[u].banned => s.users[u].devices = <<>>
               /\ ~aCrossed => \A d \in Subs!Range(s.users[u].devices) : d.pass = s.users[u].pass
    <3>1. PICK rec : rec = s.users[u]
      OBVIOUS
    <3>2. Subs!AccountOk(rec, aSecrets, aMade, aCrossed)
      BY <1>1, <3>1 DEF Subs!Sound
    <3>3. rec.expires \in 0..MaxEnd
      BY <3>2 DEF Subs!AccountOk, Subs!User
    <3>4. /\ rec.pass \in 1..aSecrets
          /\ \A d \in Subs!Range(rec.devices) : d.id \in 1..aMade
          /\ rec.banned => rec.devices = <<>>
          /\ ~aCrossed => \A d \in Subs!Range(rec.devices) : d.pass = rec.pass
      BY <3>2 DEF Subs!AccountOk, Subs!Range
    <3> QED BY <3>1, <3>3, <3>4
  <2>3. \A u, v \in DOMAIN s.users : s.users[u].login = s.users[v].login => u = v
    BY <1>1 DEF Subs!Sound
  <2>4. \A o \in DOMAIN s.orders : Subs!OrderOk(s.orders[o], DOMAIN s.users)
    BY <1>1 DEF Subs!Sound
  <2> QED BY <2>1, <2>2, <2>3, <2>4 DEF Subs!OrderOk
<1>2. Subs!Sound(aState, aSecrets, aMade, aCrossed, aTold)
  BY SubsFacts
<1>3. Subs!Sound(aDisk, aSecrets, aMade, aCrossed, aTold)
  BY SubsFacts
<1>4. Subs!TypeOK
  <2>1. aLim \in [Handles -> 0..MaxWrong + MaxOpen]
    <3>1. Subs!Within(aRequests, aLim)
      BY SubsFacts
    <3>2. \A l \in Handles : /\ aLim[l] \in Nat /\ Cardinality(Subs!Of(aRequests, l)) \in Nat
                             /\ aLim[l] + Cardinality(Subs!Of(aRequests, l)) <= MaxWrong + MaxOpen
      BY <3>1, SubsOf
    <3>3. \A l \in Handles : aLim[l] \in 0..MaxWrong + MaxOpen
      BY <3>2, SubsNumbers
    <3>4. aLim \in [Handles -> Nat]
      BY <3>1, SubsOf
    <3> QED BY <3>3, <3>4
  <2>2. Subs!Cardinality(aRequests) <= MaxOpen
    BY SubsFacts DEF Subs!Within
  <2> QED BY <1>1, <1>2, <1>3, <2>1, <2>2, SubsFacts DEF Subs!TypeOK
<1>5. Subs!LoginsUnique /\ Subs!PaidOnce /\ Subs!BannedOut /\ Subs!SameSecret
  BY <1>1, <1>2, <1>3 DEF Subs!LoginsUnique, Subs!PaidOnce, Subs!BannedOut, Subs!SameSecret, Subs!users
<1>6. Subs!AnswersKept
  <2>1. \A a \in aTold : Subs!KeptIn(aDisk, a)
    BY <1>3 DEF Subs!Sound
  <2>2. \A a \in aTold : a[1] \in {"paid", "banned", "gone", "revoked"}
    BY SubsFacts DEF Subs!Told
  <2> QED BY <2>1, <2>2 DEF Subs!AnswersKept, Subs!KeptIn
<1> QED BY <1>4, <1>5, <1>6 DEF Subs!AccountsKept

=============================================================================
