------------------------------ MODULE BitrixChat ------------------------------
\* The Bitrix24 carrier (Core/transport/bitrix24/bitrix24.go): writers
\* take packets from one queue, one or a few at a time, and post them into
\* a chat; a poller asks for the messages after the last it has seen, and
\* puts what they carry into a queue for the callback.
\*
\* Packets are numbered in the order of the calls of Send. The chat gives
\* every message the next id; a page of messages is the first ones after
\* the id asked for. Both ends write into one chat and each reads all of
\* it: here only one writes.
EXTENDS Naturals, Sequences, FiniteSets, SequencesExt

CONSTANTS
    Packets,    \* number of calls of Send (a bound)
    NumWriters, \* numWriters
    BatchSize,  \* batchSize
    MaxQueued,  \* capacity of writeQueue
    MaxUnread,  \* recvQueue
    Page,       \* LIMIT
    MaxTries,   \* attempts of sendWithRetry
    None

VARIABLES
    life,       \* "new", "failed" without a chat, "running", "stopped"
    offered,    \* calls of Send so far
    queue,
    hand, tries,    \* writer -> packets it is posting, and attempts for them
    gone,       \* writers that ended
    chat,       \* the messages, each the packet it carries; ids are indices
    asked,      \* the poller's page: messages from ... to, or None while it waits
    lastMsgID, polling,
    unread,     \* recvCh
    got,        \* what the callback has got
    dropped     \* packets the code gave up: queue full, refused, receive queue full

Writers == 1..NumWriters

sendVars == <<offered, queue>>
writerVars == <<hand, tries, gone>>
readVars == <<asked, lastMsgID, polling, unread>>
bitrixVars == <<life, sendVars, writerVars, chat, readVars, got, dropped>>

Init ==
    /\ life = "new"
    /\ offered = 0 /\ queue = <<>>
    /\ hand = [w \in Writers |-> <<>>] /\ tries = [w \in Writers |-> 0] /\ gone = Writers
    /\ chat = <<>>
    /\ asked = None /\ lastMsgID = 0 /\ polling = FALSE /\ unread = <<>>
    /\ got = <<>> /\ dropped = {}

-----------------------------------------------------------------------------
\* What creates the chat may fail, and is tried again by the session.
Start(created) ==
    /\ life \in {"new", "failed"}
    /\ IF created
       THEN life' = "running" /\ gone' = {} /\ polling' = TRUE
       ELSE life' = "failed" /\ UNCHANGED <<gone, polling>>
    /\ UNCHANGED <<sendVars, hand, tries, chat, asked, lastMsgID, unread, got, dropped>>

Stop ==
    /\ life = "running"
    /\ life' = "stopped"
    /\ UNCHANGED <<sendVars, writerVars, chat, readVars, got, dropped>>

Send ==
    /\ life = "running" /\ offered < Packets
    /\ offered' = offered + 1
    /\ IF Len(queue) < MaxQueued
       THEN queue' = Append(queue, offered + 1) /\ UNCHANGED dropped
       ELSE dropped' = dropped \cup {offered + 1} /\ UNCHANGED queue
    /\ UNCHANGED <<life, writerVars, chat, readVars, got>>

-----------------------------------------------------------------------------
\* writerLoop, sendFrame, sendBatch, sendWithRetry

Idle(w) == w \notin gone /\ hand[w] = <<>>

\* One packet, and more if they are there.
Take(w) ==
    /\ Idle(w) /\ queue # <<>>
    /\ \E n \in 1..BatchSize :
         /\ n <= Len(queue)
         /\ hand' = [hand EXCEPT ![w] = SubSeq(queue, 1, n)]
         /\ queue' = SubSeq(queue, n + 1, Len(queue))
    /\ UNCHANGED <<life, offered, tries, gone, chat, readVars, got, dropped>>

Empty(w) ==
    /\ hand' = [hand EXCEPT ![w] = <<>>]
    /\ tries' = [tries EXCEPT ![w] = 0]

\* The server takes some of a batch and refuses others; places says which of
\* the batch it takes.
Places(s) ==
    UNION {{f \in [1..n -> 1..Len(s)] : \A i, j \in 1..n : i < j => f[i] < f[j]} : n \in 0..Len(s)}
Taken(w, places) == [i \in DOMAIN places |-> hand[w][places[i]]]

Post(w, places) ==
    /\ hand[w] # <<>>
    /\ chat' = chat \o Taken(w, places)
    /\ dropped' = dropped \cup (ToSet(hand[w]) \ ToSet(Taken(w, places)))
    /\ Empty(w)
    /\ UNCHANGED <<life, sendVars, gone, readVars, got>>

\* An answer that is lost or cannot be read: it may have been posted.
PostFails(w, posted) ==
    /\ hand[w] # <<>>
    /\ chat' = IF posted THEN chat \o hand[w] ELSE chat
    /\ dropped' = dropped \cup ToSet(hand[w])
    /\ Empty(w)
    /\ UNCHANGED <<life, sendVars, gone, readVars, got>>

\* Too many requests: two seconds, and again, some times; Stop ends it.
RateLimited(w) ==
    /\ hand[w] # <<>>
    /\ IF tries[w] + 1 < MaxTries /\ life = "running"
       THEN tries' = [tries EXCEPT ![w] = @ + 1] /\ UNCHANGED <<hand, dropped>>
       ELSE Empty(w) /\ dropped' = dropped \cup ToSet(hand[w])
    /\ UNCHANGED <<life, sendVars, gone, chat, readVars, got>>

WriterEnds(w) ==
    /\ Idle(w) /\ life = "stopped"
    /\ gone' = gone \cup {w}
    /\ UNCHANGED <<life, sendVars, hand, tries, chat, readVars, got, dropped>>

-----------------------------------------------------------------------------
\* pollLoop

\* The request carries lastMsgID; a failed one changes nothing.
Poll ==
    /\ polling /\ life = "running" /\ asked = None
    /\ asked' = SubSeq(chat, lastMsgID + 1, IF Len(chat) < lastMsgID + Page THEN Len(chat) ELSE lastMsgID + Page)
    /\ UNCHANGED <<life, sendVars, writerVars, chat, lastMsgID, polling, unread, got, dropped>>

\* mutant
LeaveLast == lastMsgID
LastSeen == lastMsgID + Len(asked)

\* mutant
WholePage == asked
\* What does not fit into the receive queue is dropped.
Fits == SubSeq(asked, 1, IF Len(asked) <= MaxUnread - Len(unread) THEN Len(asked) ELSE MaxUnread - Len(unread))

GotPage ==
    /\ asked # None
    /\ lastMsgID' = LastSeen
    /\ unread' = unread \o Fits
    /\ dropped' = dropped \cup (ToSet(asked) \ ToSet(Fits))
    /\ asked' = None
    /\ UNCHANGED <<life, sendVars, writerVars, chat, polling, got>>

PollEnds ==
    /\ polling /\ life = "stopped" /\ asked = None
    /\ polling' = FALSE
    /\ UNCHANGED <<life, sendVars, writerVars, chat, asked, lastMsgID, unread, got, dropped>>

Deliver ==
    /\ life = "running" /\ unread # <<>>
    /\ got' = Append(got, Head(unread))
    /\ unread' = Tail(unread)
    /\ UNCHANGED <<life, sendVars, writerVars, chat, asked, lastMsgID, polling, dropped>>

-----------------------------------------------------------------------------
Posts(w) ==
    \/ \E places \in Places(hand[w]) : Post(w, places)
    \/ \E posted \in BOOLEAN : PostFails(w, posted)
    \/ RateLimited(w)

Next ==
    \/ \E created \in BOOLEAN : Start(created)
    \/ Stop
    \/ Send
    \/ \E w \in Writers :
         \/ Take(w)
         \/ Posts(w)
         \/ WriterEnds(w)
    \/ Poll
    \/ GotPage
    \/ PollEnds
    \/ Deliver

Spec == Init /\ [][Next]_bitrixVars

\* The goroutines run and requests end. Nobody is made to Start, Stop or
\* send.
Scheduled ==
    /\ \A w \in Writers : WF_bitrixVars(Take(w) \/ WriterEnds(w)) /\ WF_bitrixVars(Posts(w))
    /\ WF_bitrixVars(Poll /\ asked' # <<>>) /\ WF_bitrixVars(GotPage) /\ WF_bitrixVars(PollEnds)
    /\ WF_bitrixVars(Deliver)

FairSpec == Spec /\ Scheduled

-----------------------------------------------------------------------------
Numbers == 1..Packets
Flags == polling \in BOOLEAN

TypeOK ==
    /\ life \in {"new", "failed", "running", "stopped"}
    /\ offered \in 0..Packets
    /\ queue \in Seq(Numbers) /\ Len(queue) <= MaxQueued
    /\ hand \in [Writers -> Seq(Numbers)] /\ tries \in [Writers -> 0..MaxTries]
    /\ \A w \in Writers : Len(hand[w]) <= BatchSize
    /\ gone \subseteq Writers /\ Flags
    /\ chat \in Seq(Numbers) /\ got \in Seq(Numbers) /\ asked \in Seq(Numbers) \cup {None}
    /\ lastMsgID \in 0..Len(chat)
    /\ unread \in Seq(Numbers) /\ Len(unread) <= MaxUnread
    /\ dropped \subseteq Numbers

\* A packet reaches the callback at most once and in the order of the
\* chat, although a post whose answer was lost may have been posted, pages
\* overlap in time with posts, and requests are tried again when the chat
\* says it has had too many (bitrix24.go:331, :379).
Position(p) == CHOOSE i \in DOMAIN chat : chat[i] = p
OnceInChatOrder ==
    /\ IsInjective(got)
    /\ \A i, j \in DOMAIN got : i < j => Position(got[i]) < Position(got[j])

\* Every packet is somewhere or was given up.
InHand == {p \in Numbers : \E w \in Writers : p \in ToSet(hand[w])}
Accounted == 1..offered = dropped \cup ToSet(queue) \cup InHand \cup ToSet(chat)

\* While the carrier runs what is sent is heard or given up.
Unanswered == life = "running" /\ 1..offered # dropped \cup ToSet(got)
Heard == []<>~Unanswered

\* After Stop the writers and the poller end, also one that waits for the
\* chat to take more.
Winding == life = "stopped" /\ (gone # Writers \/ polling)
WindsDown == []<>~Winding
-----------------------------------------------------------------------------
\* What keeps a packet from being heard twice: the inductive invariant.

\* A packet is in one place on its way into the chat, and there once.
Distinct ==
    /\ IsInjective(queue) /\ IsInjective(chat)
    /\ ToSet(queue) \cap ToSet(chat) = {}
    /\ \A w \in Writers :
         /\ IsInjective(hand[w])
         /\ ToSet(hand[w]) \cap ToSet(queue) = {} /\ ToSet(hand[w]) \cap ToSet(chat) = {}
         /\ \A v \in Writers : v # w => ToSet(hand[v]) \cap ToSet(hand[w]) = {}

\* The page that was asked for is what follows the last message seen.
PageFollows ==
    asked # None =>
        /\ lastMsgID + Len(asked) <= Len(chat)
        /\ \A i \in 1..Len(asked) : asked[i] = chat[lastMsgID + i]

\* What was received stands in the chat up to the last message seen, in this order.
Received == got \o unread
ReceivedInOrder ==
    /\ \A i \in 1..Len(Received) : \E k \in 1..lastMsgID : Received[i] = chat[k]
    /\ \A i, j \in 1..Len(Received), k, l \in 1..Len(chat) :
         i < j /\ Received[i] = chat[k] /\ Received[j] = chat[l] => k < l

IInv == TypeOK /\ Accounted /\ Distinct /\ PageFollows /\ ReceivedInOrder
=============================================================================
