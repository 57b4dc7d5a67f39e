---------------------------- MODULE SubChannels ----------------------------
\* The locations of the subscription service: the links it makes of the
\* node channels on its disk, and the channels it makes itself when one is
\* missing (subscription/server/links.go, watch.go, node.go, config.go).
\*
\* A request stats the channel's two files before it takes the cache's
\* lock and reads them under it, while the owner or the installer writes
\* them.  A channel that is missing is made by one goroutine at a time;
\* requests of the apps, of the owner and the timer's pass all ask for it.
EXTENDS Naturals, FiniteSets, Sequences

CONSTANTS
    Configs,        \* sequences of pools a config file may hold
    Channels,       \* names of channels, the personal ones included
    Types,          \* the transports of links
    Apps,           \* sets of Types the apps run
    Owner,          \* the account or key that asks; its personal channel
    SelfMade,       \* types the service makes without a sign-in
    MaxAsks,        \* requests at once (a bound of the model)
    MaxStamp,       \* times a channel's file is written (a bound)
    MaxFaults,      \* creations that fail and channels that leave (a bound)
    None

VARIABLES
    pools,          \* the config's pools
    files,          \* channel -> what is on the disk
    cache,          \* channel -> what was read of it
    asks,           \* the link calls under way
    cacheLock,      \* holds linkCache.mu over a read
    watchLock,      \* holds nodeWatch.mu over a look at the channel
    busy,           \* channels being created
    again,          \* channels whose creation failed lately
    makers,         \* the goroutines that create
    given,          \* history: the last link of each channel
    stale,          \* history: a link was not of the files as they were from
                    \* the request's stats to its answer
    faults

channelVars == <<pools, files, cache, asks, cacheLock, watchLock, busy,
    again, makers, given, faults>>

\* The config (Config.Check).  A pool's transports are records
\* [type, made]: made is one the service makes (an empty url).
SelfMadeEntry(t) == t.type \in SelfMade /\ t.made

\* checkAutoTransports and provision.CheckTransports
TransportsChecked(ts) ==
    /\ \A i \in DOMAIN ts : SelfMadeEntry(ts[i]) \/ ~ts[i].made
    /\ \A i, j \in DOMAIN ts : ts[i].type = ts[j].type => i = j

PoolChecked(p) ==
    IF p.perUser THEN TransportsChecked(p.transports)
    ELSE /\ p.channel \in Channels
         /\ IF p.auto THEN TransportsChecked(p.transports)
            ELSE \A i \in DOMAIN p.transports : ~SelfMadeEntry(p.transports[i])

Checked(ps) ==
    /\ ps # <<>>
    /\ \A i \in DOMAIN ps : PoolChecked(ps[i])
    /\ \A i, j \in DOMAIN ps : ps[i].id = ps[j].id => i = j

\* profiles: a personal channel for each owner of a perUser pool
ChannelOf(p) == IF p.perUser THEN Owner ELSE p.channel

\* Files and links.  A file is the number of its last writing, 0 when it
\* is not there; types are what node.conf lists.
NoFiles == [conf |-> 0, key |-> 0, types |-> {}, stamp |-> 0]
Complete(ch) == files[ch].conf # 0 /\ files[ch].key # 0

\* A mutant: the context is made of what this app gets.
OwnContext(info, ts) == ts
\* The encryption context is the channel's, whichever documents the app gets.
Context(info, ts) == info.types

Link(info, set) ==
    LET ts == info.types \cap set
    IN  [conf |-> info.conf, key |-> info.key, types |-> ts,
         context |-> Context(info, ts)]

TypeOK ==
    /\ \E c \in Configs : pools = c
    /\ DOMAIN files = Channels /\ DOMAIN cache = Channels
    /\ Cardinality(asks) <= MaxAsks + 1
    /\ busy \subseteq Channels /\ again \subseteq Channels
    /\ \A m \in makers : m.channel \in busy
    /\ faults \in 0..MaxFaults

Init ==
    /\ pools \in {c \in Configs : Checked(c)}
    /\ files = [ch \in Channels |-> NoFiles]
    /\ cache = [ch \in Channels |-> None]
    /\ asks = {} /\ cacheLock = None /\ watchLock = None
    /\ busy = {} /\ again = {} /\ makers = {}
    /\ given = [ch \in Channels |-> None] /\ stale = FALSE /\ faults = 0

\* linkCache.link, for an app's request, or under nodeWatch.mu with every
\* transport.
Asked(by, i, set) ==
    [by |-> by, pool |-> i, set |-> set, step |-> "conf", conf |-> 0, key |-> 0,
     got |-> 0]
ChannelAsked(a) == ChannelOf(pools[a.pool])
Makes(p) == p.auto \/ p.perUser

\* handleKey, handleSubscription and document: an active owner asks
Ask(i, set) ==
    /\ i \in DOMAIN pools
    /\ Cardinality(asks) < MaxAsks
    /\ asks' = asks \cup {Asked("app", i, set)}
    /\ UNCHANGED <<pools, files, cache, cacheLock, watchLock, busy, again,
                   makers, given, stale, faults>>

\* ensureAll at the start and every nodeCheckEvery, and adminInfo: the pools
\* that are one channel for all
EnsureAll(i) ==
    /\ i \in DOMAIN pools /\ pools[i].auto /\ ~pools[i].perUser
    /\ Cardinality(asks) < MaxAsks
    /\ ~Complete(ChannelOf(pools[i]))
    /\ asks' = asks \cup {[Asked("start", i, Types) EXCEPT !.step = "want"]}
    /\ UNCHANGED <<pools, files, cache, cacheLock, watchLock, busy, again,
                   makers, given, stale, faults>>

Becomes(a, b) == asks' = (asks \ {a}) \cup b

\* a link that could not be made: an app's request goes on to start, which
\* creates the channel if it may; start itself now does so.
Fails(a) ==
    LET ch == ChannelAsked(a)
    IN  IF a.by = "app"
        THEN /\ Becomes(a, IF Makes(pools[a.pool])
                           THEN {[Asked("start", a.pool, Types)
                                  EXCEPT !.step = "want"]} ELSE {})
             /\ UNCHANGED <<watchLock, busy, makers>>
        ELSE /\ Becomes(a, {})
             /\ watchLock' = None
             /\ busy' = busy \cup {ch}
             /\ makers' = makers \cup
                    {[channel |-> ch, pool |-> a.pool, step |-> "rooms",
                      types |-> {},
                      n |-> Cardinality({m \in makers : m.channel = ch})]}

\* A mutant: the channels being created are not looked at.
NeverBusy(ch) == FALSE
Busy(ch) == ch \in busy

\* start takes nodeWatch.mu: nothing to do for a channel being created or one
\* that failed less than nodeRetryAfter ago.
StartTakes(a) ==
    /\ a \in asks /\ a.step = "want" /\ watchLock = None
    /\ IF Busy(ChannelAsked(a)) \/ ChannelAsked(a) \in again
       THEN Becomes(a, {}) /\ UNCHANGED watchLock
       ELSE /\ Becomes(a, {[a EXCEPT !.step = "conf"]})
            /\ watchLock' = a.pool
    /\ UNCHANGED <<pools, files, cache, cacheLock, busy, again, makers, given,
                   stale, faults>>

\* os.Stat of node.conf, then of the key
StatConf(a) ==
    /\ a \in asks /\ a.step = "conf"
    /\ IF files[ChannelAsked(a)].conf = 0 THEN Fails(a)
       ELSE /\ Becomes(a, {[a EXCEPT !.step = "key",
                                     !.conf = files[ChannelAsked(a)].conf]})
            /\ UNCHANGED <<watchLock, busy, makers>>
    /\ UNCHANGED <<pools, files, cache, cacheLock, again, given, stale, faults>>

StatKey(a) ==
    /\ a \in asks /\ a.step = "key"
    /\ IF files[ChannelAsked(a)].key = 0 THEN Fails(a)
       ELSE /\ Becomes(a, {[a EXCEPT !.step = "lock",
                                     !.key = files[ChannelAsked(a)].key]})
            /\ UNCHANGED <<watchLock, busy, makers>>
    /\ UNCHANGED <<pools, files, cache, cacheLock, again, given, stale, faults>>

\* the caller has its link, or hears that the app runs none of the transports
Answered(a, info) ==
    /\ Becomes(a, {})
    /\ watchLock' = IF a.by = "start" THEN None ELSE watchLock
    /\ given' = IF info.types \cap a.set = {} THEN given
                ELSE [given EXCEPT ![ChannelAsked(a)] = Link(info, a.set)]
    /\ LET f == files[ChannelAsked(a)]
       IN  stale' = (stale \/ (/\ a.conf = f.conf /\ a.key = f.key
                              /\ info # [conf |-> f.conf, key |-> f.key,
                                         types |-> f.types]))

\* A mutant: only node.conf's time is compared.
ConfAlone(e, a) == e.conf = a.conf
Matches(e, a) == e.conf = a.conf /\ e.key = a.key

\* The lock: what was read is used while the times are the same.
Looks(a) ==
    /\ a \in asks /\ a.step = "lock" /\ cacheLock = None
    /\ LET e == cache[ChannelAsked(a)]
       IN  IF e # None /\ (e # None => Matches(e, a))
           THEN Answered(a, e.info) /\ UNCHANGED cacheLock
           ELSE /\ Becomes(a, {[a EXCEPT !.step = "read"]})
                /\ cacheLock' = a.pool
                /\ UNCHANGED <<watchLock, given, stale>>
    /\ UNCHANGED <<pools, files, cache, busy, again, makers, faults>>

\* readChannel: the key, then node.conf
ReadKey(a) ==
    /\ a \in asks /\ a.step = "read" /\ a.got = 0
    /\ IF files[ChannelAsked(a)].key = 0
       THEN Fails(a) /\ cacheLock' = None
       ELSE /\ Becomes(a, {[a EXCEPT !.got = files[ChannelAsked(a)].key]})
            /\ UNCHANGED <<cacheLock, watchLock, busy, makers>>
    /\ UNCHANGED <<pools, files, cache, again, given, stale, faults>>

ReadConf(a) ==
    /\ a \in asks /\ a.step = "read" /\ a.got # 0
    /\ LET ch == ChannelAsked(a)
           info == [conf |-> files[ch].conf, key |-> a.got,
                    types |-> files[ch].types]
       IN  IF info.conf = 0
           THEN Fails(a) /\ UNCHANGED <<cache, given, stale>>
           ELSE /\ cache' = [cache EXCEPT ![ch] =
                        [conf |-> a.conf, key |-> a.key, info |-> info]]
                /\ Answered(a, info)
                /\ UNCHANGED <<busy, makers>>
    /\ cacheLock' = None
    /\ UNCHANGED <<pools, files, again, faults>>

\* scriptProvisioner.Ensure, by the goroutine of start.
Step(m, n) == makers' = (makers \ {m}) \cup {n}

\* A mutant: a creation that failed is not over.
StillBusy(ch) == busy
Over(ch) == busy \ {ch}

Ends(m, failed) ==
    /\ makers' = makers \ {m}
    /\ busy' = Over(m.channel)
    /\ again' = IF failed THEN again \cup {m.channel}
                ELSE again \ {m.channel}

\* channelTransports: rooms are made for a room carrier without any, a
\* document carrier is left out without an office account, and a pool that
\* has no carrier left gets the rooms anyone can make.
Carriers(ts, avito) ==
    LET kept == {ts[i].type : i \in {j \in DOMAIN ts : ~ts[j].made}}
        rooms == {ts[i].type : i \in {j \in DOMAIN ts : SelfMadeEntry(ts[j])}}
        can == IF avito THEN rooms ELSE rooms \cap {"cupsonline"}
    IN  IF kept \cup can # {} THEN kept \cup can
        ELSE {"cupsonline"} \cup (IF avito THEN {"avito"} ELSE {})

MakeRooms(m) ==
    /\ m \in makers /\ m.step = "rooms"
    /\ \E avito \in BOOLEAN :
        Step(m, [m EXCEPT !.step = "apply",
                    !.types = Carriers(pools[m.pool].transports, avito)])
    /\ UNCHANGED <<pools, files, cache, asks, cacheLock, watchLock, busy, again,
                   given, stale, faults>>

\* rooms that cannot be made, no port, or the script fails or takes too long
MakeFails(m) ==
    /\ m \in makers
    /\ faults < MaxFaults /\ faults' = faults + 1
    /\ Ends(m, TRUE)
    /\ UNCHANGED <<pools, files, cache, asks, cacheLock, watchLock, given, stale>>

\* node-install.sh writes the key, then node.conf (see Wrote)
Wrote(ch, part, types) ==
    files' = [files EXCEPT ![ch] =
        [conf |-> IF part = "conf" THEN @.stamp + 1 ELSE @.conf,
         key |-> IF part = "key" THEN @.stamp + 1 ELSE @.key,
         types |-> IF part = "conf" THEN types ELSE @.types,
         stamp |-> @.stamp + 1]]

Applies(m) ==
    /\ m \in makers /\ m.step \in {"apply", "half"}
    /\ Wrote(m.channel, IF m.step = "apply" THEN "key" ELSE "conf", m.types)
    /\ IF m.step = "apply"
       THEN Step(m, [m EXCEPT !.step = "half"]) /\ UNCHANGED <<busy, again>>
       ELSE Ends(m, FALSE)
    /\ UNCHANGED <<pools, cache, asks, cacheLock, watchLock, given, stale,
                   faults>>

\* nodeRetryAfter passes
MayAgain(ch) ==
    /\ ch \in again /\ again' = again \ {ch}
    /\ UNCHANGED <<pools, files, cache, asks, cacheLock, watchLock, busy,
                   makers, given, stale, faults>>

\* The owner: other transports, a new key, a channel that is removed.
OwnerWrites(ch, part, types) ==
    /\ Complete(ch) /\ files[ch].stamp < MaxStamp
    /\ types # {}
    /\ Wrote(ch, part, types)
    /\ UNCHANGED <<pools, cache, asks, cacheLock, watchLock, busy, again,
                   makers, given, stale, faults>>

ChannelLeaves(ch) ==
    /\ Complete(ch) /\ faults < MaxFaults /\ faults' = faults + 1
    /\ files' = [files EXCEPT ![ch] = [@ EXCEPT !.conf = 0, !.key = 0, !.types = {}]]
    /\ UNCHANGED <<pools, cache, asks, cacheLock, watchLock, busy, again,
                   makers, given, stale>>

Request(a) ==
    StartTakes(a) \/ StatConf(a) \/ StatKey(a) \/ Looks(a) \/ ReadKey(a)
        \/ ReadConf(a)
Maker(m) == MakeRooms(m) \/ Applies(m)

Next ==
    \/ \E i \in DOMAIN pools : EnsureAll(i) \/ \E set \in Apps : Ask(i, set)
    \/ \E a \in asks : Request(a)
    \/ \E m \in makers : Maker(m) \/ MakeFails(m)
    \/ \E ch \in Channels :
        \/ MayAgain(ch) \/ ChannelLeaves(ch)
        \/ \E part \in {"conf", "key"}, types \in Apps :
            OwnerWrites(ch, part, types)

\* The requests and the goroutines run on, the clock passes, and the ticker
\* of startNodeWatch comes round.
Scheduled ==
    /\ \A by \in {"app", "start"}, i \in 1..2 :
        SF_channelVars(\E a \in asks : a.by = by /\ a.pool = i /\ Request(a))
    /\ WF_channelVars(\E m \in makers : Maker(m))
    /\ WF_channelVars(\E ch \in Channels : MayAgain(ch))
    /\ \A i \in 1..2 : SF_channelVars(EnsureAll(i))

Spec == Init /\ [][Next]_channelVars /\ Scheduled

\* Properties.
\* A request that found the files as they are now is answered with what they
\* hold, however they were written between its stats and its read and whatever
\* the requests before it left in the cache: a rotated key or a changed
\* transport reaches subscribers on their next refresh.
LinksFresh == ~stale

\* One goroutine at a time makes a channel, whoever asked for it.
OneMaker == \A m, n \in makers : m.channel = n.channel => m = n

\* The apps of one channel compute one encryption context, whatever set of
\* transports each runs.
SameContext ==
    \A ch \in Channels :
        given[ch] # None =>
            (given[ch].conf = files[ch].conf
                => given[ch].context = files[ch].types)

ChannelsKept == LinksFresh /\ OneMaker /\ SameContext

\* A channel the service makes itself is there again and again.
Missing == \E i \in DOMAIN pools :
    pools[i].auto /\ ~pools[i].perUser /\ ~Complete(ChannelOf(pools[i]))
Healed == []<>~Missing
\* The invariant that makes ChannelsKept inductive.
\* What the files hold now, as readChannel would return it.
Current(ch) == [conf |-> files[ch].conf, key |-> files[ch].key, types |-> files[ch].types]

Infos == [conf : Nat, key : Nat, types : SUBSET Types]
Calls == [by : {"app", "start"}, pool : DOMAIN pools, set : SUBSET Types,
          step : {"want", "conf", "key", "lock", "read"},
          conf : Nat, key : Nat, got : Nat]
Creations == [channel : Channels, pool : DOMAIN pools, step : {"rooms", "apply", "half"},
              types : SUBSET Types, n : Nat]

Shape ==
    /\ pools \in Configs /\ Checked(pools)
    /\ files \in [Channels -> [conf : Nat, key : Nat, types : SUBSET Types, stamp : Nat]]
    /\ cache \in [Channels -> {None} \cup [conf : Nat, key : Nat, info : Infos]]
    /\ asks \subseteq Calls /\ IsFiniteSet(asks) /\ Cardinality(asks) <= MaxAsks
    /\ makers \subseteq Creations /\ busy = {m.channel : m \in makers}
    /\ again \subseteq Channels /\ faults \in 0..MaxFaults
    /\ given \in [Channels -> {None} \cup [conf : Nat, key : Nat, types : SUBSET Types, context : SUBSET Types]]

\* A writing has a number no earlier one of the channel had, so that a number seen
\* before and seen again is one writing.
Numbered ==
    \A ch \in Channels : files[ch].conf <= files[ch].stamp /\ files[ch].key <= files[ch].stamp

\* What a call has seen of the files is not later than what they are.
SeenBy(a) ==
    LET f == files[ChannelAsked(a)]
    IN  /\ a.step \in {"key", "lock", "read"} => a.conf \in 1..f.stamp
        /\ a.step \in {"lock", "read"} => a.key \in 1..f.stamp /\ (f.key # 0 => a.key <= f.key)
        /\ a.step # "read" => a.got = 0
        /\ a.got # 0 => a.key <= a.got /\ a.got <= f.stamp /\ (f.key # 0 => a.got <= f.key)
Seen == \A a \in asks : SeenBy(a)

\* What the cache keeps of the files as they are is what they hold.
Fits(e, ch) ==
    /\ e.conf \in 1..files[ch].stamp /\ e.key \in 1..files[ch].stamp
    /\ e.info.conf \in 1..files[ch].stamp
    /\ e.conf = files[ch].conf /\ e.key = files[ch].key => e.info = Current(ch)
    /\ e.info.conf = files[ch].conf => e.info.types = files[ch].types
Cached == \A ch \in Channels : cache[ch] # None => Fits(cache[ch], ch)

\* So of the link that was given last.
Handed ==
    \A ch \in Channels :
        given[ch] # None =>
            /\ given[ch].conf \in 1..files[ch].stamp
            /\ given[ch].conf = files[ch].conf => given[ch].context = files[ch].types

\* One call of start looks, under nodeWatch.mu, at a channel nobody makes.
Starting(a) == a.by = "start" /\ a.step # "want"
OneStarts ==
    /\ \A a, b \in asks : Starting(a) /\ Starting(b) => a = b
    /\ \A a \in asks : Starting(a) => watchLock # None /\ ChannelAsked(a) \notin busy

IInv == Shape /\ Numbered /\ Seen /\ Cached /\ Handed /\ OneStarts /\ OneMaker /\ LinksFresh
=============================================================================
