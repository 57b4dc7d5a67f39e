---------------------------- MODULE ServerProofs ----------------------------
\* What the panel runs and sets up, for any profiles, packages, requests,
\* hosts, servers and failures: its tunnels (the module this one extends),
\* a node's packages, its settings, what it runs beside its requests, and the
\* exits on web hosts and servers; each of the others is an instance, its
\* variables told apart by a letter.
EXTENDS TunnelManager, Sequences, FiniteSetTheorems, SequenceTheorems, TLAPS

-----------------------------------------------------------------------------
\* The tunnels: the invariant, in parts.

\* A panel that does not run has nothing in memory.
Down ==
  ~up => /\ op = Idle
         /\ \A t \in Tunnels : /\ core[t] = "none" /\ ~enabled[t]
                               /\ status[t] = "Stopped"

\* A core that is wanted belongs to an enabled profile shown running, which has
\* attempts left; without a core nothing is shown running or stopping.
CoresFit ==
  \A t \in Tunnels :
    /\ core[t] = "wanted" => /\ enabled[t] /\ status[t] = "Running"
                             /\ attempts[t] < MaxAttempts
    /\ core[t] = "none" => status[t] \notin {"Running", "Stopping"}

\* What an operation is still to start is known and was asked for; it waits for
\* one of those it stops; only a tick has something to note.
OpSound ==
  /\ op.at # None => op.at \in op.stops
  /\ op.starts \subseteq known
  /\ op.starts \cap halted = {}
  /\ op.kind \in {"stop", "delete"} => op.starts = {}
  /\ op.noted # None => op.kind = "tick"

\* A tick stops and starts different profiles; those it starts have no core and
\* attempts left, also while their failure is not yet noted.
TickSound ==
  op.kind = "tick" =>
    /\ op.stops \subseteq op.about
    /\ op.starts \cap op.about = {} /\ op.noted \notin op.starts
    /\ \A t \in op.starts : core[t] = "none" /\ attempts[t] < MaxAttempts
    /\ \A t \in op.about : enabled[t] \/ disk[t] # "enabled"
    /\ op.noted \in Tunnels \ op.about => core[op.noted] = "none" /\ op.seen < MaxAttempts

\* Stop and Delete: a profile whose core is marked is disabled, in the file too,
\* and one that is done with has no core either.
StopDone ==
  op.kind \in {"stop", "delete"} =>
    \A t \in op.about :
      /\ t \notin op.stops \/ op.at = t => ~enabled[t] /\ disk[t] # "enabled"
      /\ t \notin op.stops => core[t] = "none"

\* Upsert and Import, once they are past the stops, find no core that is wanted.
PutSafe ==
  op.kind \in {"create", "update", "import"} =>
    \A t \in op.about \ op.stops : core[t] # "wanted"

Parts == Down /\ CoresFit /\ OpSound /\ TickSound /\ StopDone /\ PutSafe /\ StopSticks /\ Durable

IInv == TypeOK /\ Parts

-----------------------------------------------------------------------------
\* Operations and files, well-formed.

\* A new operation on some profiles.
LEMMA DoingType ==
  ASSUME NEW kind \in Kinds, NEW stops \in SUBSET Tunnels, NEW starts \in SUBSET Tunnels,
         NEW about \in SUBSET Tunnels
  PROVE  Doing(kind, stops, starts, about) \in Operation
<1>1. Idle \in [kind : {"none"}, stops : SUBSET Tunnels, at : Tunnels \cup {None},
                starts : SUBSET Tunnels, noted : Tunnels \cup {None},
                seen : 0..MaxAttempts, about : SUBSET Tunnels]
  BY ConstantsAssumption DEF Idle
<1> QED BY <1>1 DEF Doing, Operation

LEMMA DoingFields ==
  ASSUME NEW kind, NEW stops, NEW starts, NEW about
  PROVE  LET o == Doing(kind, stops, starts, about)
         IN  /\ o.kind = kind /\ o.stops = stops /\ o.starts = starts /\ o.about = about
             /\ o.at = None /\ o.noted = None
BY DEF Doing, Idle

LEMMA OpTyped ==
  ASSUME TypeOK
  PROVE  /\ op.starts \subseteq Tunnels /\ op.stops \subseteq Tunnels /\ op.about \subseteq Tunnels
         /\ op.at \in Tunnels \cup {None} /\ op.noted \in Tunnels \cup {None}
         /\ op.seen \in 0..MaxAttempts
BY ConstantsAssumption DEF TypeOK, Operation, Idle

\* An operation after a stop.
LEMMA ReturnType ==
  ASSUME op \in Operation \cup {Idle}, NEW t \in Tunnels, t \in op.stops \/ op.at = t,
         NEW ok \in BOOLEAN, Return(t, ok)
  PROVE  op' \in Operation \cup {Idle}
<1>1. op \in Operation
  BY ConstantsAssumption DEF Idle
<1> QED BY <1>1 DEF Return, Operation

\* An operation after a start.
LEMMA StartedType ==
  ASSUME TypeOK, NEW t \in Tunnels, t \in op.starts, NEW ok \in BOOLEAN, Started(t, ok)
  PROVE  op' \in Operation \cup {Idle}
<1>1. op \in Operation
  BY DEF Idle, TypeOK
<1>2. attempts[t] \in 0..MaxAttempts
  BY DEF TypeOK
<1> QED BY <1>1, <1>2 DEF Started, Operation

\* A file that was written ...
LEMMA SnapshotType ==
  ASSUME NEW kn, NEW en
  PROVE  Snapshot(kn, en) \in [Tunnels -> {"absent", "enabled", "disabled"}]
BY DEF Snapshot

\* ... or not.
LEMMA SaveType ==
  ASSUME disk \in [Tunnels -> {"absent", "enabled", "disabled"}], NEW ok \in BOOLEAN, Save(ok)
  PROVE  disk' \in [Tunnels -> {"absent", "enabled", "disabled"}]
BY SnapshotType DEF Save

\* No attempt to write enables in the file what is disabled in memory and was
\* disabled in the file.
LEMMA SaveKeepsDisabled ==
  ASSUME NEW ok \in BOOLEAN, Save(ok), NEW t \in Tunnels, ~enabled'[t], disk[t] # "enabled"
  PROVE  disk'[t] # "enabled"
BY DEF Save, Snapshot

-----------------------------------------------------------------------------
\* Every action keeps the invariant.

\* What changes nothing of it: cores' processes, traffic, time, Restore's list.
LEMMA OthersKeep ==
  ASSUME IInv, UNCHANGED <<up, closed, known, enabled, status, attempts, core, disk, op, halted>>,
         over' \in [Tunnels -> BOOLEAN], later' \in [Tunnels -> BOOLEAN],
         alive' \in [Tunnels -> BOOLEAN], restoring' \subseteq Tunnels \cup {None}
  PROVE  IInv'
<1>1. TypeOK'
  BY DEF IInv, TypeOK
<1>2. Down' /\ CoresFit'
  BY DEF IInv, Parts, Down, CoresFit
<1>3. OpSound' /\ TickSound'
  BY DEF IInv, Parts, OpSound, TickSound
<1>4. StopDone' /\ PutSafe'
  BY DEF IInv, Parts, StopDone, PutSafe
<1>5. StopSticks' /\ Durable'
  BY DEF IInv, Parts, StopSticks, Durable
<1> QED BY <1>1, <1>2, <1>3, <1>4, <1>5 DEF IInv, Parts

LEMMA BesideKeeps ==
  ASSUME IInv,
         \/ \E t \in Tunnels : CoreExits(t) \/ Exceed(t) \/ RetryDue(t)
         \/ RestoreList \/ UNCHANGED vars
  PROVE  IInv'
<1>0. TypeOK
  BY DEF IInv
<1>1. ASSUME NEW t \in Tunnels, CoreExits(t) PROVE IInv'
  <2>1. alive' \in [Tunnels -> BOOLEAN]
    BY <1>0, <1>1 DEF TypeOK, CoreExits
  <2> QED BY <1>0, <1>1, <2>1, OthersKeep DEF CoreExits, TypeOK, profileVars
<1>2. ASSUME NEW t \in Tunnels, Exceed(t) PROVE IInv'
  <2>1. over' \in [Tunnels -> BOOLEAN]
    BY <1>0, <1>2 DEF TypeOK, Exceed
  <2> QED BY <1>0, <1>2, <2>1, OthersKeep DEF Exceed, TypeOK, coreVars
<1>3. ASSUME NEW t \in Tunnels, RetryDue(t) PROVE IInv'
  <2>1. later' \in [Tunnels -> BOOLEAN]
    BY <1>0, <1>3 DEF TypeOK, RetryDue
  <2> QED BY <1>0, <1>3, <2>1, OthersKeep DEF RetryDue, TypeOK, coreVars
<1>4. CASE RestoreList
  BY <1>0, <1>4, OthersKeep DEF RestoreList, TypeOK, profileVars, coreVars
<1>5. CASE UNCHANGED vars
  BY <1>0, <1>5, OthersKeep DEF vars, TypeOK, profileVars, coreVars
<1> QED BY <1>1, <1>2, <1>3, <1>4, <1>5

\* Profiles put into the map, once their cores are stopped.
LEMMA PutKeeps ==
  ASSUME IInv, up, Stopped, op.kind \in {"create", "update", "import"}, Put(op.about)
  PROVE  IInv'
<1>0. TypeOK /\ Parts
  BY DEF IInv
<1>1. /\ op' = Idle /\ op'.kind = "none" /\ op'.at = None /\ op'.noted = None /\ op'.starts = {}
      /\ UNCHANGED <<up, closed, later, core, alive, restoring, halted>>
  BY DEF Put, End, Idle, coreVars
<1>2. CASE UNCHANGED <<known, enabled, status, attempts, over, disk>>
  <2>1. TypeOK'
    BY <1>0, <1>1, <1>2 DEF TypeOK
  <2>2. Down' /\ CoresFit' /\ StopSticks' /\ Durable'
    BY <1>0, <1>1, <1>2 DEF Parts, Down, CoresFit, StopSticks, Durable
  <2>3. OpSound' /\ TickSound' /\ StopDone' /\ PutSafe'
    BY <1>1 DEF OpSound, TickSound, StopDone, PutSafe
  <2> QED BY <2>1, <2>2, <2>3 DEF IInv, Parts
<1>3. CASE ~UNCHANGED <<known, enabled, status, attempts, over, disk>>
  <2>1. PICK high \in SUBSET (op.about \cap Limited) :
          /\ known' = known \cup op.about
          /\ enabled' = [t \in Tunnels |-> enabled[t] /\ t \in known]
          /\ status' = [t \in Tunnels |-> IF t \in op.about THEN "Stopped" ELSE status[t]]
          /\ attempts' = [t \in Tunnels |-> IF t \in op.about THEN 0 ELSE attempts[t]]
          /\ over' = [t \in Tunnels |-> IF t \in op.about THEN t \in high ELSE over[t]]
          /\ disk' = Snapshot(known', enabled')
    BY <1>3 DEF Put, Save
  <2>2. TypeOK'
    <3>1. known' \subseteq Tunnels /\ attempts' \in [Tunnels -> 0..MaxAttempts]
      BY <1>0, <2>1, OpTyped, ConstantsAssumption DEF TypeOK
    <3>2. enabled' \in [Tunnels -> BOOLEAN]
      BY <1>0, <2>1, Zenon DEF TypeOK
    <3>5. over' \in [Tunnels -> BOOLEAN]
      <4>1. \A t \in Tunnels : (IF t \in op.about THEN t \in high ELSE over[t]) \in BOOLEAN
        <5>1. \A t \in Tunnels : over[t] \in BOOLEAN /\ (t \in high) \in BOOLEAN
          BY <1>0 DEF TypeOK
        <5> QED BY <5>1
      <4> QED BY <2>1, <4>1, Zenon
    <3>3. status' \in [Tunnels -> {"Stopped", "Running", "Stopping", "Failed"}]
      BY <1>0, <2>1 DEF TypeOK
    <3>4. disk' \in [Tunnels -> {"absent", "enabled", "disabled"}]
      BY <2>1, SnapshotType
    <3> QED BY <1>0, <1>1, <3>1, <3>2, <3>3, <3>4, <3>5 DEF TypeOK
  <2>3. Down' /\ StopSticks' /\ Durable'
    BY <1>0, <1>1, <2>1, OpTyped DEF TypeOK, Snapshot, Parts, Down, StopSticks, Durable
  <2>4. CoresFit'
    <3>1. \A t \in op.about : core[t] # "wanted"
      BY <1>0 DEF Stopped, Ready, Parts, PutSafe
    <3>2. \A t \in Tunnels : enabled[t] => t \in known
      BY <1>0 DEF Parts, Durable
    <3> QED BY <1>0, <1>1, <2>1, <3>1, <3>2 DEF TypeOK, Parts, CoresFit
  <2>5. OpSound' /\ TickSound' /\ StopDone' /\ PutSafe'
    BY <1>1 DEF OpSound, TickSound, StopDone, PutSafe
  <2> QED BY <2>2, <2>3, <2>4, <2>5 DEF IInv, Parts
<1> QED BY <1>2, <1>3


LEMMA BeginStartKeeps == ASSUME IInv, NEW t \in Tunnels, BeginStart(t) PROVE IInv'
<1>0. TypeOK /\ Parts
  BY DEF IInv
<1>op. /\ op'.kind = "start" /\ op'.stops = {} /\ op'.starts = {t} /\ op'.about = {t}
      /\ op'.at = None /\ op'.noted = None
      /\ op = Idle /\ up
  BY DoingFields DEF BeginStart, Begin, Free
<1>1. TypeOK'
  <2>1. op' \in Operation \cup {Idle}
    BY <1>0, DoingType DEF BeginStart, Begin, Free, Wanted, TypeOK, Kinds
  <2> QED BY <1>0, <2>1 DEF BeginStart, Begin, Free, Wanted, profileVars, coreVars, TypeOK
<1>2. Down'
  BY <1>0, <1>op DEF BeginStart, Begin, Free, Wanted, profileVars, coreVars, TypeOK, Parts, Down
<1>3. CoresFit'
  BY <1>0, OpTyped, <1>op DEF BeginStart, Begin, Free, Wanted, profileVars, coreVars, TypeOK, Parts, CoresFit
<1>4. OpSound'
  BY <1>0, OpTyped, <1>op DEF BeginStart, Begin, Free, Wanted, profileVars, coreVars, TypeOK, Parts, OpSound
<1>5. TickSound'
  BY <1>0, OpTyped, <1>op DEF BeginStart, Begin, Free, Wanted, profileVars, coreVars, TypeOK, Parts, TickSound
<1>6. StopDone'
  BY <1>0, OpTyped, <1>op DEF BeginStart, Begin, Free, Wanted, profileVars, coreVars, TypeOK, Parts, StopDone
<1>7. PutSafe'
  BY <1>0, OpTyped, <1>op DEF BeginStart, Begin, Free, Wanted, profileVars, coreVars, TypeOK, Parts, PutSafe
<1>8. StopSticks'
  BY <1>0, OpTyped, <1>op DEF BeginStart, Begin, Free, Wanted, profileVars, coreVars, TypeOK, Parts, StopSticks
<1>9. Durable'
  BY <1>0, OpTyped, <1>op DEF BeginStart, Begin, Free, Wanted, profileVars, coreVars, TypeOK, Parts, Durable
<1> QED BY <1>1, <1>2, <1>3, <1>4, <1>5, <1>6, <1>7, <1>8, <1>9 DEF IInv, Parts

LEMMA BeginRestartKeeps == ASSUME IInv, NEW t \in Tunnels, BeginRestart(t) PROVE IInv'
<1>0. TypeOK /\ Parts
  BY DEF IInv
<1>op. /\ op'.kind = "restart" /\ op'.stops = {t} /\ op'.starts = {t} /\ op'.about = {t}
      /\ op'.at = None /\ op'.noted = None
      /\ op = Idle /\ up
  BY DoingFields DEF BeginRestart, Begin, Free
<1>1. TypeOK'
  <2>1. op' \in Operation \cup {Idle}
    BY <1>0, DoingType DEF BeginRestart, Begin, Free, Wanted, TypeOK, Kinds
  <2> QED BY <1>0, <2>1 DEF BeginRestart, Begin, Free, Wanted, profileVars, coreVars, TypeOK
<1>2. Down'
  BY <1>0, <1>op DEF BeginRestart, Begin, Free, Wanted, profileVars, coreVars, TypeOK, Parts, Down
<1>3. CoresFit'
  BY <1>0, OpTyped, <1>op DEF BeginRestart, Begin, Free, Wanted, profileVars, coreVars, TypeOK, Parts, CoresFit
<1>4. OpSound'
  BY <1>0, OpTyped, <1>op DEF BeginRestart, Begin, Free, Wanted, profileVars, coreVars, TypeOK, Parts, OpSound
<1>5. TickSound'
  BY <1>0, OpTyped, <1>op DEF BeginRestart, Begin, Free, Wanted, profileVars, coreVars, TypeOK, Parts, TickSound
<1>6. StopDone'
  BY <1>0, OpTyped, <1>op DEF BeginRestart, Begin, Free, Wanted, profileVars, coreVars, TypeOK, Parts, StopDone
<1>7. PutSafe'
  BY <1>0, OpTyped, <1>op DEF BeginRestart, Begin, Free, Wanted, profileVars, coreVars, TypeOK, Parts, PutSafe
<1>8. StopSticks'
  BY <1>0, OpTyped, <1>op DEF BeginRestart, Begin, Free, Wanted, profileVars, coreVars, TypeOK, Parts, StopSticks
<1>9. Durable'
  BY <1>0, OpTyped, <1>op DEF BeginRestart, Begin, Free, Wanted, profileVars, coreVars, TypeOK, Parts, Durable
<1> QED BY <1>1, <1>2, <1>3, <1>4, <1>5, <1>6, <1>7, <1>8, <1>9 DEF IInv, Parts

LEMMA BeginStopKeeps == ASSUME IInv, NEW t \in Tunnels, BeginStop(t) PROVE IInv'
<1>0. TypeOK /\ Parts
  BY DEF IInv
<1>op. /\ op'.kind = "stop" /\ op'.stops = {t} /\ op'.starts = {} /\ op'.about = {t}
      /\ op'.at = None /\ op'.noted = None
      /\ op = Idle /\ up
  BY DoingFields DEF BeginStop, Begin, Free
<1>1. TypeOK'
  <2>1. op' \in Operation \cup {Idle}
    BY <1>0, DoingType DEF BeginStop, Begin, Free, TypeOK, Kinds
  <2> QED BY <1>0, <2>1 DEF BeginStop, Begin, Free, profileVars, coreVars, TypeOK
<1>2. Down'
  BY <1>0, <1>op DEF BeginStop, Begin, Free, profileVars, coreVars, TypeOK, Parts, Down
<1>3. CoresFit'
  BY <1>0, OpTyped, <1>op DEF BeginStop, Begin, Free, profileVars, coreVars, TypeOK, Parts, CoresFit
<1>4. OpSound'
  BY <1>0, OpTyped, <1>op DEF BeginStop, Begin, Free, profileVars, coreVars, TypeOK, Parts, OpSound
<1>5. TickSound'
  BY <1>0, OpTyped, <1>op DEF BeginStop, Begin, Free, profileVars, coreVars, TypeOK, Parts, TickSound
<1>6. StopDone'
  BY <1>op, ConstantsAssumption DEF StopDone
<1>7. PutSafe'
  BY <1>0, OpTyped, <1>op DEF BeginStop, Begin, Free, profileVars, coreVars, TypeOK, Parts, PutSafe
<1>8. StopSticks'
  BY <1>0, OpTyped, <1>op DEF BeginStop, Begin, Free, profileVars, coreVars, TypeOK, Parts, StopSticks
<1>9. Durable'
  BY <1>0, OpTyped, <1>op DEF BeginStop, Begin, Free, profileVars, coreVars, TypeOK, Parts, Durable
<1> QED BY <1>1, <1>2, <1>3, <1>4, <1>5, <1>6, <1>7, <1>8, <1>9 DEF IInv, Parts

LEMMA BeginDeleteKeeps == ASSUME IInv, NEW t \in Tunnels, BeginDelete(t) PROVE IInv'
<1>0. TypeOK /\ Parts
  BY DEF IInv
<1>op. /\ op'.kind = "delete" /\ op'.stops = {t} /\ op'.starts = {} /\ op'.about = {t}
      /\ op'.at = None /\ op'.noted = None
      /\ op = Idle /\ up
  BY DoingFields DEF BeginDelete, Begin, Free
<1>1. TypeOK'
  <2>1. op' \in Operation \cup {Idle}
    BY <1>0, DoingType DEF BeginDelete, Begin, Free, TypeOK, Kinds
  <2> QED BY <1>0, <2>1 DEF BeginDelete, Begin, Free, profileVars, coreVars, TypeOK
<1>2. Down'
  BY <1>0, <1>op DEF BeginDelete, Begin, Free, profileVars, coreVars, TypeOK, Parts, Down
<1>3. CoresFit'
  BY <1>0, OpTyped, <1>op DEF BeginDelete, Begin, Free, profileVars, coreVars, TypeOK, Parts, CoresFit
<1>4. OpSound'
  BY <1>0, OpTyped, <1>op DEF BeginDelete, Begin, Free, profileVars, coreVars, TypeOK, Parts, OpSound
<1>5. TickSound'
  BY <1>0, OpTyped, <1>op DEF BeginDelete, Begin, Free, profileVars, coreVars, TypeOK, Parts, TickSound
<1>6. StopDone'
  BY <1>op, ConstantsAssumption DEF StopDone
<1>7. PutSafe'
  BY <1>0, OpTyped, <1>op DEF BeginDelete, Begin, Free, profileVars, coreVars, TypeOK, Parts, PutSafe
<1>8. StopSticks'
  BY <1>0, OpTyped, <1>op DEF BeginDelete, Begin, Free, profileVars, coreVars, TypeOK, Parts, StopSticks
<1>9. Durable'
  BY <1>0, OpTyped, <1>op DEF BeginDelete, Begin, Free, profileVars, coreVars, TypeOK, Parts, Durable
<1> QED BY <1>1, <1>2, <1>3, <1>4, <1>5, <1>6, <1>7, <1>8, <1>9 DEF IInv, Parts

LEMMA BeginCookiesKeeps == ASSUME IInv, NEW t \in Tunnels, BeginCookies(t) PROVE IInv'
<1>0. TypeOK /\ Parts
  BY DEF IInv
<1>op. /\ op'.kind = "cookies" /\ op'.stops = {t} /\ op'.starts = {u \in {t} : enabled[u]} /\ op'.about = {t}
      /\ op'.at = None /\ op'.noted = None
      /\ op = Idle /\ up
  BY DoingFields DEF BeginCookies, Begin, Free
<1>1. TypeOK'
  <2>1. op' \in Operation \cup {Idle}
    BY <1>0, DoingType DEF BeginCookies, Begin, Free, TypeOK, Kinds
  <2> QED BY <1>0, <2>1 DEF BeginCookies, Begin, Free, profileVars, coreVars, TypeOK
<1>2. Down'
  BY <1>0, <1>op DEF BeginCookies, Begin, Free, profileVars, coreVars, TypeOK, Parts, Down
<1>3. CoresFit'
  BY <1>0, OpTyped, <1>op DEF BeginCookies, Begin, Free, profileVars, coreVars, TypeOK, Parts, CoresFit
<1>4. OpSound'
  <2>1. op'.starts \subseteq known' /\ op'.starts \cap halted' = {}
    BY <1>0, <1>op DEF BeginCookies, Begin, profileVars, TypeOK, Parts, StopSticks
  <2> QED BY <1>op, <2>1 DEF OpSound
<1>5. TickSound'
  BY <1>0, OpTyped, <1>op DEF BeginCookies, Begin, Free, profileVars, coreVars, TypeOK, Parts, TickSound
<1>6. StopDone'
  BY <1>0, OpTyped, <1>op DEF BeginCookies, Begin, Free, profileVars, coreVars, TypeOK, Parts, StopDone
<1>7. PutSafe'
  BY <1>0, OpTyped, <1>op DEF BeginCookies, Begin, Free, profileVars, coreVars, TypeOK, Parts, PutSafe
<1>8. StopSticks'
  BY <1>0, OpTyped, <1>op DEF BeginCookies, Begin, Free, profileVars, coreVars, TypeOK, Parts, StopSticks
<1>9. Durable'
  BY <1>0, OpTyped, <1>op DEF BeginCookies, Begin, Free, profileVars, coreVars, TypeOK, Parts, Durable
<1> QED BY <1>1, <1>2, <1>3, <1>4, <1>5, <1>6, <1>7, <1>8, <1>9 DEF IInv, Parts

LEMMA BeginRestoreKeeps == ASSUME IInv, BeginRestore PROVE IInv'
<1>0. TypeOK /\ Parts
  BY DEF IInv
<1>op. /\ op = Idle /\ up
      /\ \/ op' = Idle
         \/ /\ op'.kind = "restore" /\ op'.at = None /\ op'.noted = None
            /\ op'.starts \subseteq known \ halted'
  <2> PICK t \in restoring \ {None} :
        /\ op = Idle /\ up
        /\ op' = IF t \in known THEN Doing("restore", {}, {t}, {t}) ELSE Idle
        /\ halted' = halted \ {t}
    BY DEF BeginRestore, Free, Wanted
  <2> QED BY DoingFields
<1>1. TypeOK'
  <2>1. op' \in Operation \cup {Idle}
    BY <1>0, DoingType DEF BeginRestore, Free, Wanted, TypeOK, Kinds
  <2> QED BY <1>0, <2>1 DEF BeginRestore, Free, Wanted, profileVars, coreVars, TypeOK
<1>2. Down'
  BY <1>0, <1>op DEF BeginRestore, Free, Wanted, profileVars, coreVars, TypeOK, Parts, Down
<1>3. CoresFit'
  BY <1>0, OpTyped, <1>op DEF BeginRestore, Free, Wanted, profileVars, coreVars, TypeOK, Parts, CoresFit
<1>4. OpSound'
  BY <1>0, OpTyped, <1>op DEF BeginRestore, Free, Wanted, profileVars, coreVars, TypeOK, Parts, OpSound
<1>5. TickSound'
  <2>1. op'.kind # "tick"
    BY <1>op DEF Idle
  <2> QED BY <2>1 DEF TickSound
<1>6. StopDone'
  BY <1>0, OpTyped, <1>op DEF BeginRestore, Free, Wanted, profileVars, coreVars, TypeOK, Parts, StopDone
<1>7. PutSafe'
  BY <1>0, OpTyped, <1>op DEF BeginRestore, Free, Wanted, profileVars, coreVars, TypeOK, Parts, PutSafe
<1>8. StopSticks'
  BY <1>0, OpTyped, <1>op DEF BeginRestore, Free, Wanted, profileVars, coreVars, TypeOK, Parts, StopSticks
<1>9. Durable'
  BY <1>0, OpTyped, <1>op DEF BeginRestore, Free, Wanted, profileVars, coreVars, TypeOK, Parts, Durable
<1> QED BY <1>1, <1>2, <1>3, <1>4, <1>5, <1>6, <1>7, <1>8, <1>9 DEF IInv, Parts

LEMMA TickKeeps == ASSUME IInv, Tick PROVE IInv'
<1>0. TypeOK /\ Parts
  BY DEF IInv
<1>op. /\ op'.kind = "tick" /\ op'.stops = OverLimit /\ op'.starts = Restartable /\ op'.about = OverLimit
      /\ op'.at = None /\ op'.noted = None
      /\ op = Idle /\ up
  BY DoingFields DEF Tick, Begin, Free
<1>1. TypeOK'
  <2>1. op' \in Operation \cup {Idle}
    BY <1>0, DoingType DEF Tick, Begin, Free, OverLimit, Restartable, Tries, TypeOK, Kinds
  <2> QED BY <1>0, <2>1 DEF Tick, Begin, Free, OverLimit, Restartable, Tries, profileVars, coreVars, TypeOK
<1>2. Down'
  BY <1>0, <1>op DEF Tick, Begin, Free, OverLimit, Restartable, Tries, profileVars, coreVars, TypeOK, Parts, Down
<1>3. CoresFit'
  BY <1>0, OpTyped, <1>op DEF Tick, Begin, Free, OverLimit, Restartable, Tries, profileVars, coreVars, TypeOK, Parts, CoresFit
<1>4. OpSound'
  BY <1>0, OpTyped, <1>op, ConstantsAssumption DEF Tick, Begin, Free, OverLimit, Restartable, Tries, profileVars, coreVars,
    TypeOK, Parts, Down, CoresFit, OpSound, TickSound, StopDone, PutSafe, StopSticks, Durable
<1>5. TickSound'
  BY <1>0, OpTyped, <1>op, ConstantsAssumption DEF Tick, Begin, Free, OverLimit, Restartable, Tries, profileVars, coreVars,
    TypeOK, Parts, Down, CoresFit, OpSound, TickSound, StopDone, PutSafe, StopSticks, Durable
<1>6. StopDone'
  BY <1>0, OpTyped, <1>op DEF Tick, Begin, Free, OverLimit, Restartable, Tries, profileVars, coreVars, TypeOK, Parts, StopDone
<1>7. PutSafe'
  BY <1>0, OpTyped, <1>op DEF Tick, Begin, Free, OverLimit, Restartable, Tries, profileVars, coreVars, TypeOK, Parts, PutSafe
<1>8. StopSticks'
  BY <1>0, OpTyped, <1>op DEF Tick, Begin, Free, OverLimit, Restartable, Tries, profileVars, coreVars, TypeOK, Parts, StopSticks
<1>9. Durable'
  BY <1>0, OpTyped, <1>op DEF Tick, Begin, Free, OverLimit, Restartable, Tries, profileVars, coreVars, TypeOK, Parts, Durable
<1> QED BY <1>1, <1>2, <1>3, <1>4, <1>5, <1>6, <1>7, <1>8, <1>9 DEF IInv, Parts

LEMMA SaveTickKeeps == ASSUME IInv, SaveTick PROVE IInv'
<1>0. TypeOK /\ Parts
  BY DEF IInv
<1>disk. \A u \in Tunnels : ~enabled'[u] /\ disk[u] # "enabled" => disk'[u] # "enabled"
  BY SaveKeepsDisabled DEF SaveTick, Saves, profileVars
<1>1. TypeOK'
  <2>1. op' = op
    BY <1>0 DEF SaveTick
  <2>2. disk' \in [Tunnels -> {"absent", "enabled", "disabled"}]
    BY <1>0, SaveType DEF SaveTick, Free, TypeOK, Saves
  <2> QED BY <1>0, <2>1, <2>2 DEF SaveTick, Free, profileVars, coreVars, TypeOK
<1>2. Down'
  BY <1>0 DEF SaveTick, Free, profileVars, coreVars, Save, Saves, Snapshot, TypeOK, Parts, Down
<1>3. CoresFit'
  BY <1>0, OpTyped DEF SaveTick, Free, profileVars, coreVars, Save, Saves, Snapshot, TypeOK, Parts, CoresFit
<1>4. OpSound'
  BY <1>0, OpTyped DEF SaveTick, Free, profileVars, coreVars, Save, Saves, Snapshot, TypeOK, Parts, OpSound
<1>5. TickSound'
  BY <1>0, OpTyped, <1>disk DEF SaveTick, Free, profileVars, coreVars, TypeOK, Parts, TickSound
<1>6. StopDone'
  BY <1>0, OpTyped, <1>disk DEF SaveTick, Free, profileVars, coreVars, TypeOK, Parts, StopDone
<1>7. PutSafe'
  BY <1>0, OpTyped DEF SaveTick, Free, profileVars, coreVars, Save, Saves, Snapshot, TypeOK, Parts, PutSafe
<1>8. StopSticks'
  BY <1>0, OpTyped DEF SaveTick, Free, profileVars, coreVars, Save, Saves, Snapshot, TypeOK, Parts, StopSticks
<1>9. Durable'
  BY <1>0, OpTyped DEF SaveTick, Free, profileVars, coreVars, Save, Saves, Snapshot, TypeOK, Parts, Durable
<1> QED BY <1>1, <1>2, <1>3, <1>4, <1>5, <1>6, <1>7, <1>8, <1>9 DEF IInv, Parts

LEMMA BeginCloseKeeps == ASSUME IInv, BeginClose PROVE IInv'
<1>0. TypeOK /\ Parts
  BY DEF IInv
<1>op. /\ op'.kind = "close" /\ op'.stops = {t \in Tunnels : core[t] # "none"} /\ op'.starts = {} /\ op'.about = {}
      /\ op'.at = None /\ op'.noted = None
      /\ op = Idle /\ up
  BY DoingFields DEF BeginClose, Free
<1>1. TypeOK'
  <2>1. op' \in Operation \cup {Idle}
    BY <1>0, DoingType DEF BeginClose, Free, TypeOK, Kinds
  <2> QED BY <1>0, <2>1 DEF BeginClose, Free, profileVars, coreVars, TypeOK
<1>2. Down'
  BY <1>0, <1>op DEF BeginClose, Free, profileVars, coreVars, TypeOK, Parts, Down
<1>3. CoresFit'
  BY <1>0, OpTyped, <1>op DEF BeginClose, Free, profileVars, coreVars, TypeOK, Parts, CoresFit
<1>4. OpSound'
  BY <1>0, OpTyped, <1>op DEF BeginClose, Free, profileVars, coreVars, TypeOK, Parts, OpSound
<1>5. TickSound'
  BY <1>0, OpTyped, <1>op DEF BeginClose, Free, profileVars, coreVars, TypeOK, Parts, TickSound
<1>6. StopDone'
  BY <1>0, OpTyped, <1>op DEF BeginClose, Free, profileVars, coreVars, TypeOK, Parts, StopDone
<1>7. PutSafe'
  BY <1>0, OpTyped, <1>op DEF BeginClose, Free, profileVars, coreVars, TypeOK, Parts, PutSafe
<1>8. StopSticks'
  BY <1>0, OpTyped, <1>op DEF BeginClose, Free, profileVars, coreVars, TypeOK, Parts, StopSticks
<1>9. Durable'
  BY <1>0, OpTyped, <1>op DEF BeginClose, Free, profileVars, coreVars, TypeOK, Parts, Durable
<1> QED BY <1>1, <1>2, <1>3, <1>4, <1>5, <1>6, <1>7, <1>8, <1>9 DEF IInv, Parts

LEMMA StopUnsavedKeeps == ASSUME IInv, NEW t \in Tunnels, StopUnsaved(t) PROVE IInv'
<1>0. TypeOK /\ Parts
  BY DEF IInv
<1>1. TypeOK'
  <2>1. op' \in Operation \cup {Idle}
    BY <1>0, ReturnType DEF StopUnsaved, Return, Ready, TypeOK
  <2> QED BY <1>0, <2>1 DEF StopUnsaved, Return, Ready, profileVars, coreVars, TypeOK
<1>2. Down'
  BY <1>0 DEF StopUnsaved, Return, Ready, profileVars, coreVars, Idle, TypeOK, Parts, Down
<1>3. CoresFit'
  BY <1>0, OpTyped DEF StopUnsaved, Return, Ready, profileVars, coreVars, Idle, TypeOK, Parts, CoresFit
<1>4. OpSound'
  BY <1>0, OpTyped DEF StopUnsaved, Return, Ready, profileVars, coreVars, Idle, TypeOK, Parts, OpSound
<1>5. TickSound'
  BY <1>0, OpTyped DEF StopUnsaved, Return, Ready, profileVars, coreVars, Idle, TypeOK, Parts, TickSound
<1>6. StopDone'
  BY <1>0, OpTyped DEF StopUnsaved, Return, Ready, profileVars, coreVars, Idle, TypeOK, Parts, StopDone
<1>7. PutSafe'
  BY <1>0, OpTyped DEF StopUnsaved, Return, Ready, profileVars, coreVars, Idle, TypeOK, Parts, PutSafe
<1>8. StopSticks'
  BY <1>0, OpTyped DEF StopUnsaved, Return, Ready, profileVars, coreVars, Idle, TypeOK, Parts, StopSticks
<1>9. Durable'
  BY <1>0, OpTyped DEF StopUnsaved, Return, Ready, profileVars, coreVars, Idle, TypeOK, Parts, Durable
<1> QED BY <1>1, <1>2, <1>3, <1>4, <1>5, <1>6, <1>7, <1>8, <1>9 DEF IInv, Parts

LEMMA StopMarkKeeps == ASSUME IInv, NEW t \in Tunnels, StopMark(t) PROVE IInv'
<1>0. TypeOK /\ Parts
  BY DEF IInv
<1>disk. \A u \in Tunnels : ~enabled'[u] /\ disk[u] # "enabled" => disk'[u] # "enabled"
  BY SaveKeepsDisabled DEF StopMark, Saves, profileVars
<1>ops. op \in Operation
  BY <1>0 DEF StopMark, TypeOK, Idle
<1>same. op'.kind = op.kind /\ op'.starts = op.starts /\ op'.about = op.about
  BY <1>ops DEF StopMark, Return, Operation
<1>op. \/ /\ core[t] = "none" /\ op.kind = "tick"
          /\ op' = [op EXCEPT !.stops = @ \ {t}, !.at = None, !.noted = t]
       \/ core[t] = "none" /\ op' = [op EXCEPT !.stops = @ \ {t}, !.at = None]
       \/ core[t] # "none" /\ op' = [op EXCEPT !.at = t]
  BY DEF StopMark, Return
<1>next. \/ /\ core[t] = "none" /\ op'.at = None /\ op'.stops = op.stops \ {t}
            /\ op'.noted = None \/ (op.kind = "tick" /\ op'.noted = t)
         \/ /\ core[t] # "none" /\ op'.at = t /\ op'.stops = op.stops /\ op'.noted = None
  <2>1. op.at = None /\ op.noted = None
    BY DEF StopMark, Ready
  <2>2. ASSUME core[t] = "none", op.kind = "tick",
               op' = [op EXCEPT !.stops = @ \ {t}, !.at = None, !.noted = t]
        PROVE  op'.at = None /\ op'.stops = op.stops \ {t} /\ op'.noted = t
    BY <1>ops, <2>2 DEF Operation
  <2>3. ASSUME op' = [op EXCEPT !.stops = @ \ {t}, !.at = None]
        PROVE  op'.at = None /\ op'.stops = op.stops \ {t} /\ op'.noted = None
    BY <1>ops, <2>1, <2>3 DEF Operation
  <2>4. ASSUME op' = [op EXCEPT !.at = t]
        PROVE  op'.at = t /\ op'.stops = op.stops /\ op'.noted = None
    BY <1>ops, <2>1, <2>4 DEF Operation
  <2> QED BY <1>op, <2>2, <2>3, <2>4
<1>t. /\ core'[t] # "wanted" /\ (core[t] = "none" => core'[t] = "none")
      /\ Disabling => ~enabled'[t] /\ disk'[t] # "enabled"
      /\ t \in op.stops
  BY <1>0 DEF StopMark, Disable, MarkIntentional, Save, Snapshot, TypeOK
<1>u. \A u \in Tunnels \ {t} : core'[u] = core[u] /\ enabled'[u] = enabled[u]
  BY <1>0 DEF StopMark, Disable, MarkIntentional, TypeOK
<1>1. TypeOK'
  <2>1. op' \in Operation
    BY <1>ops, <1>op DEF Operation
  <2>2. disk' \in [Tunnels -> {"absent", "enabled", "disabled"}]
    BY <1>0, SaveType DEF StopMark, TypeOK
  <2>3. /\ enabled' \in [Tunnels -> BOOLEAN]
        /\ later' \in [Tunnels -> BOOLEAN]
    BY <1>0 DEF StopMark, Disable, TypeOK
  <2>4. /\ status' \in [Tunnels -> {"Stopped", "Running", "Stopping", "Failed"}]
        /\ core' \in [Tunnels -> {"none", "wanted", "intentional"}]
    BY <1>0 DEF StopMark, MarkIntentional, TypeOK
  <2> QED BY <1>0, <2>1, <2>2, <2>3, <2>4 DEF StopMark, TypeOK
<1>2. Down'
  BY <1>0 DEF StopMark, Return, Ready, Disabling, Disable, MarkIntentional, profileVars, coreVars, Save, Saves, Snapshot, Idle,
    TypeOK, Parts, Down
<1>3. CoresFit'
  BY <1>0, OpTyped DEF StopMark, Return, Ready, Disabling, Disable, MarkIntentional, profileVars, coreVars, Save, Saves,
    Snapshot, Idle, TypeOK, Parts, CoresFit
<1>4. OpSound'
  BY <1>0, <1>same, <1>next, <1>t DEF StopMark, Parts, OpSound
<1>5. TickSound'
  <2>1. UNCHANGED attempts
    BY DEF StopMark
  <2>2. op.kind = "tick" => Disabling
    BY DEF Disabling
  <2> QED BY <1>0, <1>same, <1>next, <1>t, <1>u, <1>disk, <2>1, <2>2, OpTyped, ConstantsAssumption DEF Parts, OpSound, TickSound
<1>6. StopDone'
  <2>1. op.kind \in {"stop", "delete"} => Disabling
    BY DEF Disabling
  <2>2. op.at = None
    BY DEF StopMark, Ready
  <2> QED BY <1>0, <1>same, <1>next, <1>t, <1>u, <1>disk, <2>1, <2>2, OpTyped, ConstantsAssumption DEF Parts, StopDone
<1>7. PutSafe'
  BY <1>0, <1>same, <1>next, <1>t, <1>u, OpTyped DEF Parts, PutSafe
<1>8. StopSticks'
  BY <1>0, OpTyped DEF StopMark, Return, Ready, Disabling, Disable, MarkIntentional, profileVars, coreVars, Save, Saves,
    Snapshot, Idle, TypeOK, Parts, StopSticks
<1>9. Durable'
  BY <1>0, OpTyped DEF StopMark, Return, Ready, Disabling, Disable, MarkIntentional, profileVars, coreVars, Save, Saves,
    Snapshot, Idle, TypeOK, Parts, Durable
<1> QED BY <1>1, <1>2, <1>3, <1>4, <1>5, <1>6, <1>7, <1>8, <1>9 DEF IInv, Parts

LEMMA AwaitedKeeps == ASSUME IInv, NEW t \in Tunnels, Awaited(t) PROVE IInv'
<1>0. TypeOK /\ Parts
  BY DEF IInv
<1>1. TypeOK'
  <2>1. op' \in Operation \cup {Idle}
    BY <1>0, ReturnType DEF Awaited, Return, TypeOK
  <2> QED BY <1>0, <2>1 DEF Awaited, Return, profileVars, coreVars, TypeOK
<1>2. Down'
  BY <1>0 DEF Awaited, Return, profileVars, coreVars, Idle, TypeOK, Parts, Down
<1>3. CoresFit'
  BY <1>0, OpTyped DEF Awaited, Return, profileVars, coreVars, Idle, TypeOK, Parts, CoresFit
<1>4. OpSound'
  BY <1>0, OpTyped DEF Awaited, Return, profileVars, coreVars, Idle, TypeOK, Parts, OpSound
<1>5. TickSound'
  BY <1>0, OpTyped, ConstantsAssumption DEF Awaited, Return, profileVars, coreVars, Idle, TypeOK, Parts, Down, CoresFit,
    OpSound, TickSound, StopDone, PutSafe, StopSticks, Durable
<1>6. StopDone'
  BY <1>0, OpTyped, ConstantsAssumption DEF Awaited, Return, profileVars, coreVars, Idle, TypeOK, Parts, Down, CoresFit,
    OpSound, TickSound, StopDone, PutSafe, StopSticks, Durable
<1>7. PutSafe'
  BY <1>0, OpTyped DEF Awaited, Return, profileVars, coreVars, Idle, TypeOK, Parts, PutSafe
<1>8. StopSticks'
  BY <1>0, OpTyped DEF Awaited, Return, profileVars, coreVars, Idle, TypeOK, Parts, StopSticks
<1>9. Durable'
  BY <1>0, OpTyped DEF Awaited, Return, profileVars, coreVars, Idle, TypeOK, Parts, Durable
<1> QED BY <1>1, <1>2, <1>3, <1>4, <1>5, <1>6, <1>7, <1>8, <1>9 DEF IInv, Parts

LEMMA TimedOutKeeps == ASSUME IInv, NEW t \in Tunnels, TimedOut(t) PROVE IInv'
<1>0. TypeOK /\ Parts
  BY DEF IInv
<1>1. TypeOK'
  <2>1. op' \in Operation \cup {Idle}
    BY <1>0, ReturnType DEF TimedOut, Return, TypeOK
  <2> QED BY <1>0, <2>1 DEF TimedOut, Return, profileVars, coreVars, TypeOK
<1>2. Down'
  BY <1>0 DEF TimedOut, Return, profileVars, coreVars, Idle, TypeOK, Parts, Down
<1>3. CoresFit'
  BY <1>0, OpTyped DEF TimedOut, Return, profileVars, coreVars, Idle, TypeOK, Parts, CoresFit
<1>4. OpSound'
  BY <1>0, OpTyped DEF TimedOut, Return, profileVars, coreVars, Idle, TypeOK, Parts, OpSound
<1>5. TickSound'
  BY <1>0, OpTyped, ConstantsAssumption DEF TimedOut, Return, profileVars, coreVars, Idle, TypeOK, Parts, Down, CoresFit,
    OpSound, TickSound, StopDone, PutSafe, StopSticks, Durable
<1>6. StopDone'
  BY <1>0, OpTyped DEF TimedOut, Return, profileVars, coreVars, Idle, TypeOK, Parts, StopDone
<1>7. PutSafe'
  BY <1>0, OpTyped DEF TimedOut, Return, profileVars, coreVars, Idle, TypeOK, Parts, PutSafe
<1>8. StopSticks'
  BY <1>0, OpTyped DEF TimedOut, Return, profileVars, coreVars, Idle, TypeOK, Parts, StopSticks
<1>9. Durable'
  BY <1>0, OpTyped DEF TimedOut, Return, profileVars, coreVars, Idle, TypeOK, Parts, Durable
<1> QED BY <1>1, <1>2, <1>3, <1>4, <1>5, <1>6, <1>7, <1>8, <1>9 DEF IInv, Parts

LEMMA NoteLimitKeeps == ASSUME IInv, NEW t \in Tunnels, NoteLimit(t) PROVE IInv'
<1>0. TypeOK /\ Parts
  BY DEF IInv
<1>disk. \A u \in Tunnels : ~enabled'[u] /\ disk[u] # "enabled" => disk'[u] # "enabled"
  BY SaveKeepsDisabled DEF NoteLimit, Saves, profileVars
<1>1. TypeOK'
  <2>1. op' \in Operation \cup {Idle}
    BY <1>0 DEF NoteLimit, TypeOK, Operation, Idle
  <2>2. disk' \in [Tunnels -> {"absent", "enabled", "disabled"}]
    BY <1>0, SaveType DEF NoteLimit, TypeOK, Saves
  <2> QED BY <1>0, <2>1, <2>2 DEF NoteLimit, profileVars, coreVars, TypeOK
<1>2. Down'
  BY <1>0 DEF NoteLimit, profileVars, coreVars, Save, Saves, Snapshot, TypeOK, Parts, Down
<1>3. CoresFit'
  BY <1>0, OpTyped DEF NoteLimit, profileVars, coreVars, Save, Saves, Snapshot, TypeOK, Parts, CoresFit
<1>4. OpSound'
  BY <1>0, OpTyped, ConstantsAssumption DEF NoteLimit, profileVars, coreVars, Save, Saves, Snapshot, TypeOK, Parts, Down,
    CoresFit, OpSound, TickSound, StopDone, PutSafe, StopSticks, Durable
<1>5. TickSound'
  BY <1>0, OpTyped, <1>disk, ConstantsAssumption DEF NoteLimit, profileVars, coreVars, TypeOK, Parts, Down, CoresFit, OpSound,
    TickSound, StopDone, PutSafe, StopSticks, Durable
<1>6. StopDone'
  BY <1>0, OpTyped, <1>disk, ConstantsAssumption DEF NoteLimit, profileVars, coreVars, TypeOK, Parts, Down, CoresFit, OpSound,
    TickSound, StopDone, PutSafe, StopSticks, Durable
<1>7. PutSafe'
  BY <1>0, OpTyped DEF NoteLimit, profileVars, coreVars, Save, Saves, Snapshot, TypeOK, Parts, PutSafe
<1>8. StopSticks'
  BY <1>0, OpTyped, ConstantsAssumption DEF NoteLimit, profileVars, coreVars, Save, Saves, Snapshot, TypeOK, Parts, Down,
    CoresFit, OpSound, TickSound, StopDone, PutSafe, StopSticks, Durable
<1>9. Durable'
  BY <1>0, OpTyped DEF NoteLimit, profileVars, coreVars, Save, Saves, Snapshot, TypeOK, Parts, Durable
<1> QED BY <1>1, <1>2, <1>3, <1>4, <1>5, <1>6, <1>7, <1>8, <1>9 DEF IInv, Parts

LEMMA StartHasCoreKeeps == ASSUME IInv, NEW t \in Tunnels, StartHasCore(t) PROVE IInv'
<1>0. TypeOK /\ Parts
  BY DEF IInv
<1>1. TypeOK'
  <2>1. op' \in Operation \cup {Idle}
    BY <1>0, StartedType DEF StartHasCore, Starting, Stopped, Ready, Started, TypeOK
  <2> QED BY <1>0, <2>1 DEF StartHasCore, Starting, Stopped, Ready, Started, profileVars, coreVars, TypeOK
<1>2. Down'
  BY <1>0 DEF StartHasCore, Starting, Stopped, Ready, Started, profileVars, coreVars, Idle, TypeOK, Parts, Down
<1>3. CoresFit'
  BY <1>0, OpTyped DEF StartHasCore, Starting, Stopped, Ready, Started, profileVars, coreVars, Idle, TypeOK, Parts, CoresFit
<1>4. OpSound'
  BY <1>0, OpTyped DEF StartHasCore, Starting, Stopped, Ready, Started, profileVars, coreVars, Idle, TypeOK, Parts, OpSound
<1>5. TickSound'
  BY <1>0, OpTyped DEF StartHasCore, Starting, Stopped, Ready, Started, profileVars, coreVars, Idle, TypeOK, Parts, TickSound
<1>6. StopDone'
  BY <1>0, OpTyped DEF StartHasCore, Starting, Stopped, Ready, Started, profileVars, coreVars, Idle, TypeOK, Parts, StopDone
<1>7. PutSafe'
  BY <1>0, OpTyped DEF StartHasCore, Starting, Stopped, Ready, Started, profileVars, coreVars, Idle, TypeOK, Parts, PutSafe
<1>8. StopSticks'
  BY <1>0, OpTyped DEF StartHasCore, Starting, Stopped, Ready, Started, profileVars, coreVars, Idle, TypeOK, Parts, StopSticks
<1>9. Durable'
  BY <1>0, OpTyped DEF StartHasCore, Starting, Stopped, Ready, Started, profileVars, coreVars, Idle, TypeOK, Parts, Durable
<1> QED BY <1>1, <1>2, <1>3, <1>4, <1>5, <1>6, <1>7, <1>8, <1>9 DEF IInv, Parts

LEMMA StartRefusedKeeps == ASSUME IInv, NEW t \in Tunnels, StartRefused(t) PROVE IInv'
<1>0. TypeOK /\ Parts
  BY DEF IInv
<1>1. TypeOK'
  <2>1. op' \in Operation \cup {Idle}
    BY <1>0, StartedType DEF StartRefused, Starting, Stopped, Ready, Started, TypeOK
  <2> QED BY <1>0, <2>1 DEF StartRefused, Starting, Stopped, Ready, Started, profileVars, coreVars, TypeOK
<1>2. Down'
  BY <1>0 DEF StartRefused, Starting, Stopped, Ready, Started, profileVars, coreVars, Idle, TypeOK, Parts, Down
<1>3. CoresFit'
  BY <1>0, OpTyped DEF StartRefused, Starting, Stopped, Ready, Started, profileVars, coreVars, Idle, TypeOK, Parts, CoresFit
<1>4. OpSound'
  BY <1>0, OpTyped DEF StartRefused, Starting, Stopped, Ready, Started, profileVars, coreVars, Idle, TypeOK, Parts, OpSound
<1>5. TickSound'
  BY <1>0, OpTyped DEF StartRefused, Starting, Stopped, Ready, Started, profileVars, coreVars, Idle, TypeOK, Parts, TickSound
<1>6. StopDone'
  BY <1>0, OpTyped DEF StartRefused, Starting, Stopped, Ready, Started, profileVars, coreVars, Idle, TypeOK, Parts, StopDone
<1>7. PutSafe'
  BY <1>0, OpTyped DEF StartRefused, Starting, Stopped, Ready, Started, profileVars, coreVars, Idle, TypeOK, Parts, PutSafe
<1>8. StopSticks'
  BY <1>0, OpTyped DEF StartRefused, Starting, Stopped, Ready, Started, profileVars, coreVars, Idle, TypeOK, Parts, StopSticks
<1>9. Durable'
  BY <1>0, OpTyped DEF StartRefused, Starting, Stopped, Ready, Started, profileVars, coreVars, Idle, TypeOK, Parts, Durable
<1> QED BY <1>1, <1>2, <1>3, <1>4, <1>5, <1>6, <1>7, <1>8, <1>9 DEF IInv, Parts

LEMMA StartUnsavedKeeps == ASSUME IInv, NEW t \in Tunnels, StartUnsaved(t) PROVE IInv'
<1>0. TypeOK /\ Parts
  BY DEF IInv
<1>1. TypeOK'
  <2>1. op' \in Operation \cup {Idle}
    BY <1>0, StartedType DEF StartUnsaved, Allowed, Starting, Stopped, Ready, Started, Revert, Failing, Base, Manual, TypeOK
  <2>2. enabled' \in [Tunnels -> BOOLEAN]
    BY <1>0, OpTyped, ConstantsAssumption DEF StartUnsaved, Allowed, Starting, Stopped, Ready, Started, Revert, Failing, Base,
      Manual, TypeOK
  <2>3. status' \in [Tunnels -> {"Stopped", "Running", "Stopping", "Failed"}]
    BY <1>0, OpTyped, ConstantsAssumption DEF StartUnsaved, Allowed, Starting, Stopped, Ready, Started, Revert, Failing, Base,
      Manual, TypeOK
  <2>4. attempts' \in [Tunnels -> 0..MaxAttempts]
    BY <1>0, OpTyped, ConstantsAssumption DEF StartUnsaved, Allowed, Starting, Stopped, Ready, Started, Revert, Failing, Base,
      Manual, TypeOK
  <2> QED BY <1>0, <2>1, <2>2, <2>3, <2>4 DEF StartUnsaved, Allowed, Starting, Stopped, Ready, Started, Revert, Failing, Base,
    Manual, profileVars, coreVars, TypeOK
<1>2. Down'
  BY <1>0 DEF StartUnsaved, Allowed, Starting, Stopped, Ready, Started, Revert, Failing, Base, Manual, profileVars, coreVars,
    Idle, TypeOK, Parts, Down
<1>3. CoresFit'
  BY <1>0, OpTyped DEF StartUnsaved, Allowed, Starting, Stopped, Ready, Started, Revert, Failing, Base, Manual, profileVars,
    coreVars, Idle, TypeOK, Parts, CoresFit
<1>4. OpSound'
  BY <1>0, OpTyped DEF StartUnsaved, Allowed, Starting, Stopped, Ready, Started, Revert, Failing, Base, Manual, profileVars,
    coreVars, Idle, TypeOK, Parts, OpSound
<1>5. TickSound'
  BY <1>0, OpTyped DEF StartUnsaved, Allowed, Starting, Stopped, Ready, Started, Revert, Failing, Base, Manual, profileVars,
    coreVars, Idle, TypeOK, Parts, TickSound
<1>6. StopDone'
  BY <1>0, OpTyped DEF StartUnsaved, Allowed, Starting, Stopped, Ready, Started, Revert, Failing, Base, Manual, profileVars,
    coreVars, Idle, TypeOK, Parts, StopDone
<1>7. PutSafe'
  BY <1>0, OpTyped DEF StartUnsaved, Allowed, Starting, Stopped, Ready, Started, Revert, Failing, Base, Manual, profileVars,
    coreVars, Idle, TypeOK, Parts, PutSafe
<1>8. StopSticks'
  BY <1>0, OpTyped DEF StartUnsaved, Allowed, Starting, Stopped, Ready, Started, Revert, Failing, Base, Manual, profileVars,
    coreVars, Idle, TypeOK, Parts, StopSticks
<1>9. Durable'
  BY <1>0, OpTyped DEF StartUnsaved, Allowed, Starting, Stopped, Ready, Started, Revert, Failing, Base, Manual, profileVars,
    coreVars, Idle, TypeOK, Parts, Durable
<1> QED BY <1>1, <1>2, <1>3, <1>4, <1>5, <1>6, <1>7, <1>8, <1>9 DEF IInv, Parts

LEMMA StartNoArgsKeeps == ASSUME IInv, NEW t \in Tunnels, StartNoArgs(t) PROVE IInv'
<1>0. TypeOK /\ Parts
  BY DEF IInv
<1>disk. \A u \in Tunnels : ~enabled'[u] /\ disk[u] # "enabled" => disk'[u] # "enabled"
  BY SaveKeepsDisabled DEF StartNoArgs, Saves, profileVars
<1>1. TypeOK'
  <2>1. op' \in Operation \cup {Idle}
    BY <1>0, StartedType DEF StartNoArgs, Allowed, Starting, Stopped, Ready, Started, Failing, Base, Manual, TypeOK
  <2>2. disk' \in [Tunnels -> {"absent", "enabled", "disabled"}]
    BY <1>0, SaveType DEF StartNoArgs, Allowed, Starting, Stopped, Ready, Started, Failing, Base, Manual, TypeOK, Saves
  <2>3. enabled' \in [Tunnels -> BOOLEAN]
    BY <1>0, OpTyped, ConstantsAssumption DEF StartNoArgs, Allowed, Starting, Stopped, Ready, Started, Failing, Base, Manual,
      TypeOK
  <2>4. status' \in [Tunnels -> {"Stopped", "Running", "Stopping", "Failed"}]
    BY <1>0, OpTyped, ConstantsAssumption DEF StartNoArgs, Allowed, Starting, Stopped, Ready, Started, Failing, Base, Manual,
      TypeOK
  <2>5. attempts' \in [Tunnels -> 0..MaxAttempts]
    BY <1>0, OpTyped, ConstantsAssumption DEF StartNoArgs, Allowed, Starting, Stopped, Ready, Started, Failing, Base, Manual,
      TypeOK
  <2> QED BY <1>0, <2>1, <2>2, <2>3, <2>4, <2>5 DEF StartNoArgs, Allowed, Starting, Stopped, Ready, Started, Failing, Base,
    Manual, profileVars, coreVars, TypeOK
<1>2. Down'
  BY <1>0 DEF StartNoArgs, Allowed, Starting, Stopped, Ready, Started, Failing, Base, Manual, profileVars, coreVars, Save,
    Saves, Snapshot, Idle, TypeOK, Parts, Down
<1>3. CoresFit'
  BY <1>0, OpTyped DEF StartNoArgs, Allowed, Starting, Stopped, Ready, Started, Failing, Base, Manual, profileVars, coreVars,
    Save, Saves, Snapshot, Idle, TypeOK, Parts, CoresFit
<1>4. OpSound'
  BY <1>0, OpTyped DEF StartNoArgs, Allowed, Starting, Stopped, Ready, Started, Failing, Base, Manual, profileVars, coreVars,
    Save, Saves, Snapshot, Idle, TypeOK, Parts, OpSound
<1>5. TickSound'
  BY <1>0, OpTyped, <1>disk, ConstantsAssumption DEF StartNoArgs, Allowed, Starting, Stopped, Ready, Started, Failing, Base,
    Manual, profileVars, coreVars, Idle, TypeOK, Parts, Down, CoresFit, OpSound, TickSound, StopDone, PutSafe, StopSticks,
    Durable
<1>6. StopDone'
  BY <1>0, OpTyped, <1>disk DEF StartNoArgs, Allowed, Starting, Stopped, Ready, Started, Failing, Base, Manual, profileVars,
    coreVars, Idle, TypeOK, Parts, StopDone
<1>7. PutSafe'
  BY <1>0, OpTyped DEF StartNoArgs, Allowed, Starting, Stopped, Ready, Started, Failing, Base, Manual, profileVars, coreVars,
    Save, Saves, Snapshot, Idle, TypeOK, Parts, PutSafe
<1>8. StopSticks'
  BY <1>0, OpTyped, ConstantsAssumption DEF StartNoArgs, Allowed, Starting, Stopped, Ready, Started, Failing, Base, Manual,
    profileVars, coreVars, Save, Saves, Snapshot, Idle, TypeOK, Parts, Down, CoresFit, OpSound, TickSound, StopDone, PutSafe,
    StopSticks, Durable
<1>9. Durable'
  BY <1>0, OpTyped, ConstantsAssumption DEF StartNoArgs, Allowed, Starting, Stopped, Ready, Started, Failing, Base, Manual,
    profileVars, coreVars, Save, Saves, Snapshot, Idle, TypeOK, Parts, Down, CoresFit, OpSound, TickSound, StopDone, PutSafe,
    StopSticks, Durable
<1> QED BY <1>1, <1>2, <1>3, <1>4, <1>5, <1>6, <1>7, <1>8, <1>9 DEF IInv, Parts

LEMMA StartNoFirewallKeeps == ASSUME IInv, NEW t \in Tunnels, StartNoFirewall(t) PROVE IInv'
<1>0. TypeOK /\ Parts
  BY DEF IInv
<1>1. TypeOK'
  <2>1. op' \in Operation \cup {Idle}
    BY <1>0, StartedType DEF StartNoFirewall, Allowed, Starting, Stopped, Ready, Started, Failing, Base, Manual, TypeOK
  <2>2. disk' \in [Tunnels -> {"absent", "enabled", "disabled"}]
    BY <1>0, SnapshotType DEF StartNoFirewall, Allowed, Starting, Stopped, Ready, Started, Failing, Base, Manual, TypeOK, Saves
  <2>3. enabled' \in [Tunnels -> BOOLEAN]
    BY <1>0, OpTyped, ConstantsAssumption DEF StartNoFirewall, Allowed, Starting, Stopped, Ready, Started, Failing, Base,
      Manual, TypeOK
  <2>4. status' \in [Tunnels -> {"Stopped", "Running", "Stopping", "Failed"}]
    BY <1>0, OpTyped, ConstantsAssumption DEF StartNoFirewall, Allowed, Starting, Stopped, Ready, Started, Failing, Base,
      Manual, TypeOK
  <2>5. attempts' \in [Tunnels -> 0..MaxAttempts]
    BY <1>0, OpTyped, ConstantsAssumption DEF StartNoFirewall, Allowed, Starting, Stopped, Ready, Started, Failing, Base,
      Manual, TypeOK
  <2> QED BY <1>0, <2>1, <2>2, <2>3, <2>4, <2>5 DEF StartNoFirewall, Allowed, Starting, Stopped, Ready, Started, Failing, Base,
    Manual, profileVars, coreVars, TypeOK
<1>2. Down'
  BY <1>0 DEF StartNoFirewall, Allowed, Starting, Stopped, Ready, Started, Failing, Base, Manual, profileVars, coreVars, Saves,
    Snapshot, Idle, TypeOK, Parts, Down
<1>3. CoresFit'
  BY <1>0, OpTyped DEF StartNoFirewall, Allowed, Starting, Stopped, Ready, Started, Failing, Base, Manual, profileVars,
    coreVars, Saves, Snapshot, Idle, TypeOK, Parts, CoresFit
<1>4. OpSound'
  BY <1>0, OpTyped DEF StartNoFirewall, Allowed, Starting, Stopped, Ready, Started, Failing, Base, Manual, profileVars,
    coreVars, Saves, Snapshot, Idle, TypeOK, Parts, OpSound
<1>5. TickSound'
  BY <1>0, OpTyped, ConstantsAssumption DEF StartNoFirewall, Allowed, Starting, Stopped, Ready, Started, Failing, Base, Manual,
    profileVars, coreVars, Saves, Snapshot, Idle, TypeOK, Parts, Down, CoresFit, OpSound, TickSound, StopDone, PutSafe,
    StopSticks, Durable
<1>6. StopDone'
  BY <1>0, OpTyped DEF StartNoFirewall, Allowed, Starting, Stopped, Ready, Started, Failing, Base, Manual, profileVars,
    coreVars, Saves, Snapshot, Idle, TypeOK, Parts, StopDone
<1>7. PutSafe'
  BY <1>0, OpTyped DEF StartNoFirewall, Allowed, Starting, Stopped, Ready, Started, Failing, Base, Manual, profileVars,
    coreVars, Saves, Snapshot, Idle, TypeOK, Parts, PutSafe
<1>8. StopSticks'
  BY <1>0, OpTyped, ConstantsAssumption DEF StartNoFirewall, Allowed, Starting, Stopped, Ready, Started, Failing, Base, Manual,
    profileVars, coreVars, Saves, Snapshot, Idle, TypeOK, Parts, Down, CoresFit, OpSound, TickSound, StopDone, PutSafe,
    StopSticks, Durable
<1>9. Durable'
  BY <1>0, OpTyped DEF StartNoFirewall, Allowed, Starting, Stopped, Ready, Started, Failing, Base, Manual, profileVars,
    coreVars, Saves, Snapshot, Idle, TypeOK, Parts, Durable
<1> QED BY <1>1, <1>2, <1>3, <1>4, <1>5, <1>6, <1>7, <1>8, <1>9 DEF IInv, Parts

LEMMA StartNoCoreKeeps == ASSUME IInv, NEW t \in Tunnels, StartNoCore(t) PROVE IInv'
<1>0. TypeOK /\ Parts
  BY DEF IInv
<1>disk. \A u \in Tunnels : ~enabled'[u] /\ disk[u] # "enabled" => disk'[u] # "enabled"
  BY SaveKeepsDisabled DEF StartNoCore, Saves, profileVars
<1>1. TypeOK'
  <2>1. op' \in Operation \cup {Idle}
    BY <1>0, StartedType DEF StartNoCore, Allowed, Starting, Stopped, Ready, Started, Failing, Base, Manual, TypeOK
  <2>2. disk' \in [Tunnels -> {"absent", "enabled", "disabled"}]
    BY <1>0, SaveType DEF StartNoCore, Allowed, Starting, Stopped, Ready, Started, Failing, Base, Manual, TypeOK, Saves
  <2>3. enabled' \in [Tunnels -> BOOLEAN]
    BY <1>0, OpTyped, ConstantsAssumption DEF StartNoCore, Allowed, Starting, Stopped, Ready, Started, Failing, Base, Manual,
      TypeOK
  <2>4. status' \in [Tunnels -> {"Stopped", "Running", "Stopping", "Failed"}]
    BY <1>0, OpTyped, ConstantsAssumption DEF StartNoCore, Allowed, Starting, Stopped, Ready, Started, Failing, Base, Manual,
      TypeOK
  <2>5. attempts' \in [Tunnels -> 0..MaxAttempts]
    BY <1>0, OpTyped, ConstantsAssumption DEF StartNoCore, Allowed, Starting, Stopped, Ready, Started, Failing, Base, Manual,
      TypeOK, Parts, TickSound
  <2>6. later' \in [Tunnels -> BOOLEAN]
    BY <1>0, OpTyped, ConstantsAssumption DEF StartNoCore, Allowed, Starting, Stopped, Ready, Started, Failing, Base, Manual,
      TypeOK
  <2> QED BY <1>0, <2>1, <2>2, <2>3, <2>4, <2>5, <2>6 DEF StartNoCore, Allowed, Starting, Stopped, Ready, Started, Failing,
    Base, Manual, profileVars, coreVars, TypeOK
<1>2. Down'
  BY <1>0 DEF StartNoCore, Allowed, Starting, Stopped, Ready, Started, Failing, Base, Manual, profileVars, coreVars, Save,
    Saves, Snapshot, Idle, TypeOK, Parts, Down
<1>3. CoresFit'
  BY <1>0, OpTyped DEF StartNoCore, Allowed, Starting, Stopped, Ready, Started, Failing, Base, Manual, profileVars, coreVars,
    Save, Saves, Snapshot, Idle, TypeOK, Parts, CoresFit
<1>4. OpSound'
  BY <1>0, OpTyped DEF StartNoCore, Allowed, Starting, Stopped, Ready, Started, Failing, Base, Manual, profileVars, coreVars,
    Save, Saves, Snapshot, Idle, TypeOK, Parts, OpSound
<1>5. TickSound'
  BY <1>0, OpTyped, <1>disk, ConstantsAssumption DEF StartNoCore, Allowed, Starting, Stopped, Ready, Started, Failing, Base,
    Manual, profileVars, coreVars, Idle, TypeOK, Parts, Down, CoresFit, OpSound, TickSound, StopDone, PutSafe, StopSticks,
    Durable
<1>6. StopDone'
  BY <1>0, OpTyped, <1>disk DEF StartNoCore, Allowed, Starting, Stopped, Ready, Started, Failing, Base, Manual, profileVars,
    coreVars, Idle, TypeOK, Parts, StopDone
<1>7. PutSafe'
  BY <1>0, OpTyped DEF StartNoCore, Allowed, Starting, Stopped, Ready, Started, Failing, Base, Manual, profileVars, coreVars,
    Save, Saves, Snapshot, Idle, TypeOK, Parts, PutSafe
<1>8. StopSticks'
  BY <1>0, OpTyped, ConstantsAssumption DEF StartNoCore, Allowed, Starting, Stopped, Ready, Started, Failing, Base, Manual,
    profileVars, coreVars, Save, Saves, Snapshot, Idle, TypeOK, Parts, Down, CoresFit, OpSound, TickSound, StopDone, PutSafe,
    StopSticks, Durable
<1>9. Durable'
  BY <1>0, OpTyped, ConstantsAssumption DEF StartNoCore, Allowed, Starting, Stopped, Ready, Started, Failing, Base, Manual,
    profileVars, coreVars, Save, Saves, Snapshot, Idle, TypeOK, Parts, Down, CoresFit, OpSound, TickSound, StopDone, PutSafe,
    StopSticks, Durable
<1> QED BY <1>1, <1>2, <1>3, <1>4, <1>5, <1>6, <1>7, <1>8, <1>9 DEF IInv, Parts

LEMMA StartCoreKeeps == ASSUME IInv, NEW t \in Tunnels, StartCore(t) PROVE IInv'
<1>0. TypeOK /\ Parts
  BY DEF IInv
<1>disk. \A u \in Tunnels : ~enabled'[u] /\ disk[u] # "enabled" => disk'[u] # "enabled"
  BY SaveKeepsDisabled DEF StartCore, Saves, profileVars
<1>1. TypeOK'
  <2>1. op' \in Operation \cup {Idle}
    BY <1>0, StartedType DEF StartCore, Allowed, Starting, Stopped, Ready, Started, Base, Manual, TypeOK
  <2>2. disk' \in [Tunnels -> {"absent", "enabled", "disabled"}]
    BY <1>0, SaveType DEF StartCore, Allowed, Starting, Stopped, Ready, Started, Base, Manual, TypeOK, Saves
  <2>3. enabled' \in [Tunnels -> BOOLEAN]
    BY <1>0, OpTyped, ConstantsAssumption DEF StartCore, Allowed, Starting, Stopped, Ready, Started, Base, Manual, TypeOK
  <2>4. status' \in [Tunnels -> {"Stopped", "Running", "Stopping", "Failed"}]
    BY <1>0, OpTyped, ConstantsAssumption DEF StartCore, Allowed, Starting, Stopped, Ready, Started, Base, Manual, TypeOK
  <2>5. attempts' \in [Tunnels -> 0..MaxAttempts]
    BY <1>0, OpTyped, ConstantsAssumption DEF StartCore, Allowed, Starting, Stopped, Ready, Started, Base, Manual, TypeOK
  <2>6. later' \in [Tunnels -> BOOLEAN]
    BY <1>0, OpTyped, ConstantsAssumption DEF StartCore, Allowed, Starting, Stopped, Ready, Started, Base, Manual, TypeOK
  <2>7. core' \in [Tunnels -> {"none", "wanted", "intentional"}]
    BY <1>0, OpTyped, ConstantsAssumption DEF StartCore, Allowed, Starting, Stopped, Ready, Started, Base, Manual, TypeOK
  <2>8. alive' \in [Tunnels -> BOOLEAN]
    BY <1>0, OpTyped, ConstantsAssumption DEF StartCore, Allowed, Starting, Stopped, Ready, Started, Base, Manual, TypeOK
  <2> QED BY <1>0, <2>1, <2>2, <2>3, <2>4, <2>5, <2>6, <2>7, <2>8 DEF StartCore, Allowed, Starting, Stopped, Ready, Started,
    Base, Manual, profileVars, coreVars, TypeOK
<1>2. Down'
  BY <1>0 DEF StartCore, Allowed, Starting, Stopped, Ready, Started, Base, Manual, profileVars, coreVars, Save, Saves, Snapshot,
    Idle, TypeOK, Parts, Down
<1>3. CoresFit'
  BY <1>0, OpTyped, ConstantsAssumption DEF StartCore, Allowed, Starting, Stopped, Ready, Started, Base, Manual, profileVars,
    coreVars, Save, Saves, Snapshot, Idle, TypeOK, Parts, Down, CoresFit, OpSound, TickSound, StopDone, PutSafe, StopSticks,
    Durable
<1>4. OpSound'
  BY <1>0, OpTyped DEF StartCore, Allowed, Starting, Stopped, Ready, Started, Base, Manual, profileVars, coreVars, Save, Saves,
    Snapshot, Idle, TypeOK, Parts, OpSound
<1>5. TickSound'
  BY <1>0, OpTyped, <1>disk, ConstantsAssumption DEF StartCore, Allowed, Starting, Stopped, Ready, Started, Base, Manual,
    profileVars, coreVars, Idle, TypeOK, Parts, Down, CoresFit, OpSound, TickSound, StopDone, PutSafe, StopSticks, Durable
<1>6. StopDone'
  BY <1>0, OpTyped, <1>disk DEF StartCore, Allowed, Starting, Stopped, Ready, Started, Base, Manual, profileVars, coreVars,
    Idle, TypeOK, Parts, StopDone
<1>7. PutSafe'
  BY <1>0, OpTyped DEF StartCore, Allowed, Starting, Stopped, Ready, Started, Base, Manual, profileVars, coreVars, Save, Saves,
    Snapshot, Idle, TypeOK, Parts, PutSafe
<1>8. StopSticks'
  BY <1>0, OpTyped, ConstantsAssumption DEF StartCore, Allowed, Starting, Stopped, Ready, Started, Base, Manual, profileVars,
    coreVars, Save, Saves, Snapshot, Idle, TypeOK, Parts, Down, CoresFit, OpSound, TickSound, StopDone, PutSafe, StopSticks,
    Durable
<1>9. Durable'
  BY <1>0, OpTyped, ConstantsAssumption DEF StartCore, Allowed, Starting, Stopped, Ready, Started, Base, Manual, profileVars,
    coreVars, Save, Saves, Snapshot, Idle, TypeOK, Parts, Down, CoresFit, OpSound, TickSound, StopDone, PutSafe, StopSticks,
    Durable
<1> QED BY <1>1, <1>2, <1>3, <1>4, <1>5, <1>6, <1>7, <1>8, <1>9 DEF IInv, Parts

LEMMA NoteFailureKeeps == ASSUME IInv, NEW t \in Tunnels, NoteFailure(t) PROVE IInv'
<1>0. TypeOK /\ Parts
  BY DEF IInv
<1>disk. \A u \in Tunnels : ~enabled'[u] /\ disk[u] # "enabled" => disk'[u] # "enabled"
  BY SaveKeepsDisabled DEF NoteFailure, Saves, profileVars
<1>1. TypeOK'
  <2>0. op \in Operation
    BY <1>0, ConstantsAssumption DEF NoteFailure, TypeOK, Idle
  <2>1. op' \in Operation
    BY <2>0, ConstantsAssumption DEF NoteFailure, Operation
  <2>2. disk' \in [Tunnels -> {"absent", "enabled", "disabled"}]
    BY <1>0, SaveType DEF NoteFailure, TypeOK, Saves
  <2>3. attempts' \in [Tunnels -> 0..MaxAttempts]
    BY <1>0, OpTyped, ConstantsAssumption DEF NoteFailure, TypeOK, Parts, TickSound, OpSound
  <2>4. /\ status' \in [Tunnels -> {"Stopped", "Running", "Stopping", "Failed"}]
        /\ later' \in [Tunnels -> BOOLEAN]
    BY <1>0 DEF NoteFailure, TypeOK
  <2> QED BY <1>0, <2>1, <2>2, <2>3, <2>4 DEF NoteFailure, coreVars, TypeOK
<1>2. Down'
  BY <1>0 DEF NoteFailure, profileVars, coreVars, Save, Saves, Snapshot, TypeOK, Parts, Down
<1>3. CoresFit'
  BY <1>0, OpTyped, ConstantsAssumption DEF NoteFailure, profileVars, coreVars, Save, Saves, Snapshot, TypeOK, Parts, Down,
    CoresFit, OpSound, TickSound, StopDone, PutSafe, StopSticks, Durable
<1>4. OpSound'
  BY <1>0, OpTyped DEF NoteFailure, profileVars, coreVars, Save, Saves, Snapshot, TypeOK, Parts, OpSound
<1>5. TickSound'
  <2>1. /\ op'.kind = op.kind /\ op'.stops = op.stops /\ op'.starts = op.starts
        /\ op'.about = op.about /\ op'.noted = None
    BY ConstantsAssumption DEF NoteFailure
  <2>2. /\ UNCHANGED <<core, enabled>>
        /\ \A u \in Tunnels \ {t} : attempts'[u] = attempts[u]
        /\ op.noted = t
    BY <1>0 DEF NoteFailure, coreVars, TypeOK
  <2> QED BY <1>0, <1>disk, OpTyped, <2>1, <2>2, ConstantsAssumption DEF Parts, TickSound
<1>6. StopDone'
  BY <1>0, OpTyped, <1>disk, ConstantsAssumption DEF NoteFailure, profileVars, coreVars, TypeOK, Parts, Down, CoresFit, OpSound,
    TickSound, StopDone, PutSafe, StopSticks, Durable
<1>7. PutSafe'
  BY <1>0, OpTyped DEF NoteFailure, profileVars, coreVars, Save, Saves, Snapshot, TypeOK, Parts, PutSafe
<1>8. StopSticks'
  BY <1>0, OpTyped DEF NoteFailure, profileVars, coreVars, Save, Saves, Snapshot, TypeOK, Parts, StopSticks
<1>9. Durable'
  BY <1>0, OpTyped DEF NoteFailure, profileVars, coreVars, Save, Saves, Snapshot, TypeOK, Parts, Durable
<1> QED BY <1>1, <1>2, <1>3, <1>4, <1>5, <1>6, <1>7, <1>8, <1>9 DEF IInv, Parts

LEMMA EndStopKeeps == ASSUME IInv, NEW t \in Tunnels, EndStop(t) PROVE IInv'
<1>0. TypeOK /\ Parts
  BY DEF IInv
<1>1. TypeOK'
  <2>1. op' \in Operation \cup {Idle}
    BY <1>0 DEF EndStop, Stopped, Ready, End, TypeOK
  <2> QED BY <1>0, <2>1 DEF EndStop, Stopped, Ready, End, profileVars, coreVars, TypeOK
<1>2. Down'
  BY <1>0 DEF EndStop, Stopped, Ready, End, profileVars, coreVars, Idle, TypeOK, Parts, Down
<1>3. CoresFit'
  BY <1>0, OpTyped DEF EndStop, Stopped, Ready, End, profileVars, coreVars, Idle, TypeOK, Parts, CoresFit
<1>4. OpSound'
  BY <1>0, OpTyped DEF EndStop, Stopped, Ready, End, profileVars, coreVars, Idle, TypeOK, Parts, OpSound
<1>5. TickSound'
  BY <1>0, OpTyped DEF EndStop, Stopped, Ready, End, profileVars, coreVars, Idle, TypeOK, Parts, TickSound
<1>6. StopDone'
  BY <1>0, OpTyped DEF EndStop, Stopped, Ready, End, profileVars, coreVars, Idle, TypeOK, Parts, StopDone
<1>7. PutSafe'
  BY <1>0, OpTyped DEF EndStop, Stopped, Ready, End, profileVars, coreVars, Idle, TypeOK, Parts, PutSafe
<1>8. StopSticks'
  BY <1>0, OpTyped, ConstantsAssumption DEF EndStop, Stopped, Ready, End, profileVars, coreVars, Idle, TypeOK, Parts, Down,
    CoresFit, OpSound, TickSound, StopDone, PutSafe, StopSticks, Durable
<1>9. Durable'
  BY <1>0, OpTyped DEF EndStop, Stopped, Ready, End, profileVars, coreVars, Idle, TypeOK, Parts, Durable
<1> QED BY <1>1, <1>2, <1>3, <1>4, <1>5, <1>6, <1>7, <1>8, <1>9 DEF IInv, Parts

LEMMA EraseKeeps == ASSUME IInv, NEW t \in Tunnels, Erase(t) PROVE IInv'
<1>0. TypeOK /\ Parts
  BY DEF IInv
<1>disk. \A u \in Tunnels : ~enabled'[u] /\ disk[u] # "enabled" => disk'[u] # "enabled"
  BY SaveKeepsDisabled DEF Erase, Saves, profileVars
<1>1. TypeOK'
  <2>1. op' \in Operation \cup {Idle} /\ halted' \subseteq Tunnels
    BY <1>0 DEF Erase, End, TypeOK
  <2>2. disk' \in [Tunnels -> {"absent", "enabled", "disabled"}]
    BY <1>0, SaveType DEF Erase, TypeOK
  <2>3. /\ known' \subseteq Tunnels /\ enabled' \in [Tunnels -> BOOLEAN]
        /\ status' \in [Tunnels -> {"Stopped", "Running", "Stopping", "Failed"}]
        /\ over' \in [Tunnels -> BOOLEAN] /\ later' \in [Tunnels -> BOOLEAN]
    BY <1>0 DEF Erase, TypeOK
  <2>4. attempts' \in [Tunnels -> 0..MaxAttempts]
    <3>1. attempts' = [attempts EXCEPT ![t] = 0] \/ attempts' = attempts
      BY DEF Erase
    <3> QED BY <1>0, <3>1, ConstantsAssumption DEF TypeOK
  <2> QED BY <1>0, <2>1, <2>2, <2>3, <2>4 DEF Erase, coreVars, TypeOK
<1>2. Down'
  BY <1>0 DEF Erase, Stopped, Ready, End, profileVars, coreVars, Save, Saves, Snapshot, Idle, TypeOK, Parts, Down
<1>3. CoresFit'
  BY <1>0, OpTyped, ConstantsAssumption DEF Erase, Stopped, Ready, End, profileVars, coreVars, Save, Saves, Snapshot, Idle,
    TypeOK, Parts, Down, CoresFit, OpSound, TickSound, StopDone, PutSafe, StopSticks, Durable
<1>4. OpSound'
  BY <1>0, OpTyped DEF Erase, Stopped, Ready, End, profileVars, coreVars, Save, Saves, Snapshot, Idle, TypeOK, Parts, OpSound
<1>5. TickSound'
  BY <1>0, OpTyped, <1>disk DEF Erase, Stopped, Ready, End, profileVars, coreVars, Idle, TypeOK, Parts, TickSound
<1>6. StopDone'
  BY <1>0, OpTyped, <1>disk DEF Erase, Stopped, Ready, End, profileVars, coreVars, Idle, TypeOK, Parts, StopDone
<1>7. PutSafe'
  BY <1>0, OpTyped DEF Erase, Stopped, Ready, End, profileVars, coreVars, Save, Saves, Snapshot, Idle, TypeOK, Parts, PutSafe
<1>8. StopSticks'
  BY <1>0, OpTyped, ConstantsAssumption DEF Erase, Stopped, Ready, End, profileVars, coreVars, Save, Saves, Snapshot, Idle,
    TypeOK, Parts, Down, CoresFit, OpSound, TickSound, StopDone, PutSafe, StopSticks, Durable
<1>9. Durable'
  BY <1>0, OpTyped, ConstantsAssumption DEF Erase, Stopped, Ready, End, profileVars, coreVars, Save, Saves, Snapshot, Idle,
    TypeOK, Parts, Down, CoresFit, OpSound, TickSound, StopDone, PutSafe, StopSticks, Durable
<1> QED BY <1>1, <1>2, <1>3, <1>4, <1>5, <1>6, <1>7, <1>8, <1>9 DEF IInv, Parts

LEMMA StoreKeeps == ASSUME IInv, Store PROVE IInv'
BY PutKeeps DEF Store

LEMMA MergeKeeps == ASSUME IInv, Merge PROVE IInv'
BY PutKeeps DEF Merge

LEMMA ReleaseKeeps == ASSUME IInv, Release PROVE IInv'
<1>0. TypeOK /\ Parts
  BY DEF IInv
<1>1. TypeOK'
  <2>1. op' \in Operation \cup {Idle}
    BY <1>0 DEF Release, Stopped, Ready, AllDone, End, TypeOK
  <2> QED BY <1>0, <2>1 DEF Release, Stopped, Ready, AllDone, End, profileVars, coreVars, TypeOK
<1>2. Down'
  BY <1>0 DEF Release, Stopped, Ready, AllDone, End, profileVars, coreVars, Idle, TypeOK, Parts, Down
<1>3. CoresFit'
  BY <1>0, OpTyped DEF Release, Stopped, Ready, AllDone, End, profileVars, coreVars, Idle, TypeOK, Parts, CoresFit
<1>4. OpSound'
  BY <1>0, OpTyped DEF Release, Stopped, Ready, AllDone, End, profileVars, coreVars, Idle, TypeOK, Parts, OpSound
<1>5. TickSound'
  BY <1>0, OpTyped DEF Release, Stopped, Ready, AllDone, End, profileVars, coreVars, Idle, TypeOK, Parts, TickSound
<1>6. StopDone'
  BY <1>0, OpTyped DEF Release, Stopped, Ready, AllDone, End, profileVars, coreVars, Idle, TypeOK, Parts, StopDone
<1>7. PutSafe'
  BY <1>0, OpTyped DEF Release, Stopped, Ready, AllDone, End, profileVars, coreVars, Idle, TypeOK, Parts, PutSafe
<1>8. StopSticks'
  BY <1>0, OpTyped DEF Release, Stopped, Ready, AllDone, End, profileVars, coreVars, Idle, TypeOK, Parts, StopSticks
<1>9. Durable'
  BY <1>0, OpTyped DEF Release, Stopped, Ready, AllDone, End, profileVars, coreVars, Idle, TypeOK, Parts, Durable
<1> QED BY <1>1, <1>2, <1>3, <1>4, <1>5, <1>6, <1>7, <1>8, <1>9 DEF IInv, Parts

LEMMA ReapKeeps == ASSUME IInv, NEW t \in Tunnels, Reap(t) PROVE IInv'
<1>0. TypeOK /\ Parts
  BY DEF IInv
<1>disk. \A u \in Tunnels : ~enabled'[u] /\ disk[u] # "enabled" => disk'[u] # "enabled"
  BY SaveKeepsDisabled DEF Reap, Saves, profileVars
<1>1. TypeOK'
  <2>1. op' = op
    BY <1>0 DEF Reap
  <2>2. disk' \in [Tunnels -> {"absent", "enabled", "disabled"}]
    BY <1>0, SaveType DEF Reap, Unexpected, TypeOK, Saves
  <2>3. status' \in [Tunnels -> {"Stopped", "Running", "Stopping", "Failed"}]
    BY <1>0, OpTyped, ConstantsAssumption DEF Reap, Unexpected, TypeOK
  <2>4. attempts' \in [Tunnels -> 0..MaxAttempts]
    BY <1>0, OpTyped, ConstantsAssumption DEF Reap, Unexpected, TypeOK, Parts, CoresFit
  <2>5. later' \in [Tunnels -> BOOLEAN]
    BY <1>0, OpTyped, ConstantsAssumption DEF Reap, Unexpected, TypeOK
  <2>6. core' \in [Tunnels -> {"none", "wanted", "intentional"}]
    BY <1>0, OpTyped, ConstantsAssumption DEF Reap, Unexpected, TypeOK
  <2> QED BY <1>0, <2>1, <2>2, <2>3, <2>4, <2>5, <2>6 DEF Reap, Unexpected, profileVars, coreVars, TypeOK
<1>2. Down'
  BY <1>0 DEF Reap, Unexpected, profileVars, coreVars, Save, Saves, Snapshot, TypeOK, Parts, Down
<1>3. CoresFit'
  BY <1>0, OpTyped DEF Reap, Unexpected, profileVars, coreVars, Save, Saves, Snapshot, TypeOK, Parts, CoresFit
<1>4. OpSound'
  BY <1>0, OpTyped DEF Reap, Unexpected, profileVars, coreVars, Save, Saves, Snapshot, TypeOK, Parts, OpSound
<1>5. TickSound'
  BY <1>0, OpTyped, <1>disk, ConstantsAssumption DEF Reap, Unexpected, profileVars, coreVars, TypeOK, Parts, Down, CoresFit,
    OpSound, TickSound, StopDone, PutSafe, StopSticks, Durable
<1>6. StopDone'
  BY <1>0, OpTyped, <1>disk DEF Reap, Unexpected, profileVars, coreVars, TypeOK, Parts, StopDone
<1>7. PutSafe'
  BY <1>0, OpTyped DEF Reap, Unexpected, profileVars, coreVars, Save, Saves, Snapshot, TypeOK, Parts, PutSafe
<1>8. StopSticks'
  BY <1>0, OpTyped DEF Reap, Unexpected, profileVars, coreVars, Save, Saves, Snapshot, TypeOK, Parts, StopSticks
<1>9. Durable'
  BY <1>0, OpTyped DEF Reap, Unexpected, profileVars, coreVars, Save, Saves, Snapshot, TypeOK, Parts, Durable
<1> QED BY <1>1, <1>2, <1>3, <1>4, <1>5, <1>6, <1>7, <1>8, <1>9 DEF IInv, Parts

LEMMA ResetStatsKeeps == ASSUME IInv, NEW t \in Tunnels, ResetStats(t) PROVE IInv'
<1>0. TypeOK /\ Parts
  BY DEF IInv
<1>disk. \A u \in Tunnels : ~enabled'[u] /\ disk[u] # "enabled" => disk'[u] # "enabled"
  BY SaveKeepsDisabled DEF ResetStats, Saves, profileVars
<1>1. TypeOK'
  <2>1. op' = op
    BY <1>0 DEF ResetStats
  <2>2. disk' \in [Tunnels -> {"absent", "enabled", "disabled"}]
    BY <1>0, SaveType DEF ResetStats, TypeOK, Saves
  <2> QED BY <1>0, <2>1, <2>2 DEF ResetStats, profileVars, coreVars, TypeOK
<1>2. Down'
  BY <1>0 DEF ResetStats, profileVars, coreVars, Save, Saves, Snapshot, TypeOK, Parts, Down
<1>3. CoresFit'
  BY <1>0, OpTyped DEF ResetStats, profileVars, coreVars, Save, Saves, Snapshot, TypeOK, Parts, CoresFit
<1>4. OpSound'
  BY <1>0, OpTyped DEF ResetStats, profileVars, coreVars, Save, Saves, Snapshot, TypeOK, Parts, OpSound
<1>5. TickSound'
  BY <1>0, OpTyped, <1>disk DEF ResetStats, profileVars, coreVars, TypeOK, Parts, TickSound
<1>6. StopDone'
  BY <1>0, OpTyped, <1>disk DEF ResetStats, profileVars, coreVars, TypeOK, Parts, StopDone
<1>7. PutSafe'
  BY <1>0, OpTyped DEF ResetStats, profileVars, coreVars, Save, Saves, Snapshot, TypeOK, Parts, PutSafe
<1>8. StopSticks'
  BY <1>0, OpTyped DEF ResetStats, profileVars, coreVars, Save, Saves, Snapshot, TypeOK, Parts, StopSticks
<1>9. Durable'
  BY <1>0, OpTyped DEF ResetStats, profileVars, coreVars, Save, Saves, Snapshot, TypeOK, Parts, Durable
<1> QED BY <1>1, <1>2, <1>3, <1>4, <1>5, <1>6, <1>7, <1>8, <1>9 DEF IInv, Parts

LEMMA CloseDoneKeeps == ASSUME IInv, CloseDone PROVE IInv'
<1>0. TypeOK /\ Parts
  BY DEF IInv
<1>1. TypeOK'
  <2>1. op' \in Operation \cup {Idle}
    BY <1>0 DEF CloseDone, Gone, TypeOK
  <2>2. disk' \in [Tunnels -> {"absent", "enabled", "disabled"}]
    BY <1>0, SnapshotType DEF CloseDone, Gone, TypeOK, Saves
  <2>3. enabled' \in [Tunnels -> BOOLEAN]
    BY <1>0, OpTyped, ConstantsAssumption DEF CloseDone, Gone, TypeOK
  <2>4. status' \in [Tunnels -> {"Stopped", "Running", "Stopping", "Failed"}]
    BY <1>0, OpTyped, ConstantsAssumption DEF CloseDone, Gone, TypeOK
  <2>5. attempts' \in [Tunnels -> 0..MaxAttempts]
    BY <1>0, OpTyped, ConstantsAssumption DEF CloseDone, Gone, TypeOK
  <2>6. over' \in [Tunnels -> BOOLEAN]
    BY <1>0, OpTyped, ConstantsAssumption DEF CloseDone, Gone, TypeOK
  <2>7. later' \in [Tunnels -> BOOLEAN]
    BY <1>0, OpTyped, ConstantsAssumption DEF CloseDone, Gone, TypeOK
  <2>8. core' \in [Tunnels -> {"none", "wanted", "intentional"}]
    BY <1>0, OpTyped, ConstantsAssumption DEF CloseDone, Gone, TypeOK
  <2>9. alive' \in [Tunnels -> BOOLEAN]
    BY <1>0, OpTyped, ConstantsAssumption DEF CloseDone, Gone, TypeOK
  <2> QED BY <1>0, <2>1, <2>2, <2>3, <2>4, <2>5, <2>6, <2>7, <2>8, <2>9 DEF CloseDone, Gone, profileVars, coreVars, TypeOK
<1>2. Down'
  BY <1>0 DEF CloseDone, Gone, profileVars, coreVars, Saves, Snapshot, Idle, TypeOK, Parts, Down
<1>3. CoresFit'
  BY <1>0, OpTyped DEF CloseDone, Gone, profileVars, coreVars, Saves, Snapshot, Idle, TypeOK, Parts, CoresFit
<1>4. OpSound'
  BY <1>0, OpTyped DEF CloseDone, Gone, profileVars, coreVars, Saves, Snapshot, Idle, TypeOK, Parts, OpSound
<1>5. TickSound'
  BY <1>0, OpTyped DEF CloseDone, Gone, profileVars, coreVars, Saves, Snapshot, Idle, TypeOK, Parts, TickSound
<1>6. StopDone'
  BY <1>0, OpTyped DEF CloseDone, Gone, profileVars, coreVars, Saves, Snapshot, Idle, TypeOK, Parts, StopDone
<1>7. PutSafe'
  BY <1>0, OpTyped DEF CloseDone, Gone, profileVars, coreVars, Saves, Snapshot, Idle, TypeOK, Parts, PutSafe
<1>8. StopSticks'
  BY <1>0, OpTyped DEF CloseDone, Gone, profileVars, coreVars, Saves, Snapshot, Idle, TypeOK, Parts, StopSticks
<1>9. Durable'
  BY <1>0, OpTyped DEF CloseDone, Gone, profileVars, coreVars, Saves, Snapshot, Idle, TypeOK, Parts, Durable
<1> QED BY <1>1, <1>2, <1>3, <1>4, <1>5, <1>6, <1>7, <1>8, <1>9 DEF IInv, Parts

LEMMA CrashKeeps == ASSUME IInv, Crash PROVE IInv'
<1>0. TypeOK /\ Parts
  BY DEF IInv
<1>1. TypeOK'
  <2>1. op' \in Operation \cup {Idle}
    BY <1>0 DEF Crash, Gone, TypeOK
  <2>2. enabled' \in [Tunnels -> BOOLEAN]
    BY <1>0, OpTyped, ConstantsAssumption DEF Crash, Gone, TypeOK
  <2>3. status' \in [Tunnels -> {"Stopped", "Running", "Stopping", "Failed"}]
    BY <1>0, OpTyped, ConstantsAssumption DEF Crash, Gone, TypeOK
  <2>4. attempts' \in [Tunnels -> 0..MaxAttempts]
    BY <1>0, OpTyped, ConstantsAssumption DEF Crash, Gone, TypeOK
  <2>5. over' \in [Tunnels -> BOOLEAN]
    BY <1>0, OpTyped, ConstantsAssumption DEF Crash, Gone, TypeOK
  <2>6. later' \in [Tunnels -> BOOLEAN]
    BY <1>0, OpTyped, ConstantsAssumption DEF Crash, Gone, TypeOK
  <2>7. core' \in [Tunnels -> {"none", "wanted", "intentional"}]
    BY <1>0, OpTyped, ConstantsAssumption DEF Crash, Gone, TypeOK
  <2>8. alive' \in [Tunnels -> BOOLEAN]
    BY <1>0, OpTyped, ConstantsAssumption DEF Crash, Gone, TypeOK
  <2> QED BY <1>0, <2>1, <2>2, <2>3, <2>4, <2>5, <2>6, <2>7, <2>8 DEF Crash, Gone, profileVars, coreVars, TypeOK
<1>2. Down'
  BY <1>0 DEF Crash, Gone, profileVars, coreVars, Idle, TypeOK, Parts, Down
<1>3. CoresFit'
  BY <1>0, OpTyped DEF Crash, Gone, profileVars, coreVars, Idle, TypeOK, Parts, CoresFit
<1>4. OpSound'
  BY <1>0, OpTyped DEF Crash, Gone, profileVars, coreVars, Idle, TypeOK, Parts, OpSound
<1>5. TickSound'
  BY <1>0, OpTyped DEF Crash, Gone, profileVars, coreVars, Idle, TypeOK, Parts, TickSound
<1>6. StopDone'
  BY <1>0, OpTyped DEF Crash, Gone, profileVars, coreVars, Idle, TypeOK, Parts, StopDone
<1>7. PutSafe'
  BY <1>0, OpTyped DEF Crash, Gone, profileVars, coreVars, Idle, TypeOK, Parts, PutSafe
<1>8. StopSticks'
  BY <1>0, OpTyped DEF Crash, Gone, profileVars, coreVars, Idle, TypeOK, Parts, StopSticks
<1>9. Durable'
  BY <1>0, OpTyped DEF Crash, Gone, profileVars, coreVars, Idle, TypeOK, Parts, Durable
<1> QED BY <1>1, <1>2, <1>3, <1>4, <1>5, <1>6, <1>7, <1>8, <1>9 DEF IInv, Parts

LEMMA BootKeeps == ASSUME IInv, Boot PROVE IInv'
<1>0. TypeOK /\ Parts
  BY DEF IInv
<1>1. TypeOK'
  <2>1. op' = op
    BY <1>0 DEF Boot
  <2>2. known' \subseteq Tunnels
    BY <1>0, OpTyped, ConstantsAssumption DEF Boot, TypeOK
  <2>3. enabled' \in [Tunnels -> BOOLEAN]
    BY <1>0, OpTyped, ConstantsAssumption DEF Boot, TypeOK
  <2>4. over' \in [Tunnels -> BOOLEAN]
    BY <1>0, OpTyped, ConstantsAssumption DEF Boot, TypeOK
  <2> QED BY <1>0, <2>1, <2>2, <2>3, <2>4 DEF Boot, profileVars, coreVars, TypeOK
<1>2. Down'
  BY <1>0 DEF Boot, profileVars, coreVars, TypeOK, Parts, Down
<1>3. CoresFit'
  BY <1>0, OpTyped, ConstantsAssumption DEF Boot, profileVars, coreVars, TypeOK, Parts, Down, CoresFit, OpSound, TickSound,
    StopDone, PutSafe, StopSticks, Durable
<1>4. OpSound'
  BY <1>0 DEF Boot, Parts, Down, OpSound, Idle
<1>5. TickSound'
  BY <1>0, OpTyped, ConstantsAssumption DEF Boot, profileVars, coreVars, TypeOK, Parts, Down, CoresFit, OpSound, TickSound,
    StopDone, PutSafe, StopSticks, Durable
<1>6. StopDone'
  BY <1>0, OpTyped, ConstantsAssumption DEF Boot, profileVars, coreVars, TypeOK, Parts, Down, CoresFit, OpSound, TickSound,
    StopDone, PutSafe, StopSticks, Durable
<1>7. PutSafe'
  BY <1>0, OpTyped DEF Boot, profileVars, coreVars, TypeOK, Parts, PutSafe
<1>8. StopSticks'
  BY <1>0, OpTyped DEF Boot, profileVars, coreVars, TypeOK, Parts, StopSticks
<1>9. Durable'
  BY <1>0, OpTyped DEF Boot, profileVars, coreVars, TypeOK, Parts, Durable
<1> QED BY <1>1, <1>2, <1>3, <1>4, <1>5, <1>6, <1>7, <1>8, <1>9 DEF IInv, Parts

\* Upsert and Import begin with the stop of what is enabled.
LEMMA PutBegins ==
  ASSUME IInv, NEW kind \in {"create", "update", "import"}, NEW stops \in SUBSET Tunnels,
         NEW about \in SUBSET Tunnels, \A t \in about \ stops : ~enabled[t] \/ core[t] # "wanted",
         Begin(Doing(kind, stops, {}, about)), UNCHANGED halted
  PROVE  IInv'
<1>0. TypeOK /\ Parts
  BY DEF IInv
<1>op. /\ op'.kind = kind /\ op'.stops = stops /\ op'.starts = {} /\ op'.about = about
       /\ op'.at = None /\ op'.noted = None
       /\ up
  BY DoingFields DEF Begin, Free
<1>1. TypeOK'
  <2>1. op' \in Operation
    BY DoingType DEF Begin, Kinds
  <2> QED BY <1>0, <2>1 DEF Begin, profileVars, coreVars, TypeOK
<1>2. Down' /\ CoresFit' /\ StopSticks' /\ Durable'
  BY <1>0, <1>op DEF Begin, profileVars, coreVars, Parts, Down, CoresFit, StopSticks, Durable
<1>3. OpSound' /\ TickSound' /\ StopDone'
  BY <1>op DEF OpSound, TickSound, StopDone
<1>4. PutSafe'
  BY <1>0, <1>op DEF Begin, coreVars, Parts, CoresFit, PutSafe
<1> QED BY <1>1, <1>2, <1>3, <1>4 DEF IInv, Parts

LEMMA BeginUpsertKeeps == ASSUME IInv, NEW t \in Tunnels, BeginUpsert(t) PROVE IInv'
<1>0. Durable /\ up
  BY DEF IInv, Parts, BeginUpsert, Begin, Free
<1>1. CASE t \notin known
  <2>1. ~enabled[t] /\ Begin(Doing("create", {}, {}, {t})) /\ UNCHANGED halted
    BY <1>0, <1>1 DEF Durable, BeginUpsert
  <2> QED BY <2>1, PutBegins
<1>2. CASE t \in known
  <2>1. /\ Begin(Doing("update", StopEnabled({t}), {}, {t})) /\ UNCHANGED halted
        /\ StopEnabled({t}) \in SUBSET Tunnels
        /\ \A u \in {t} \ StopEnabled({t}) : ~enabled[u]
    BY <1>2 DEF BeginUpsert, StopEnabled
  <2> QED BY <2>1, PutBegins
<1> QED BY <1>1, <1>2

LEMMA BeginImportKeeps == ASSUME IInv, NEW set \in SUBSET Tunnels, BeginImport(set) PROVE IInv'
<1>1. Durable /\ up
  BY DEF IInv, Parts, BeginImport, Begin, Free
<1>2. /\ StopEnabled(set) \in SUBSET Tunnels
      /\ \A t \in set \ StopEnabled(set) : ~enabled[t]
  BY <1>1 DEF StopEnabled, Durable
<1> QED BY <1>2, PutBegins DEF BeginImport

-----------------------------------------------------------------------------
\* The theorems.

LEMMA InitIInv == Init => IInv
<1> SUFFICES ASSUME Init PROVE IInv
  OBVIOUS
<1>1. TypeOK
  <2>1. disk \in [Tunnels -> {"absent", "enabled", "disabled"}] /\ op = Idle
    BY SnapshotType DEF Init
  <2>2. attempts \in [Tunnels -> 0..MaxAttempts]
    BY ConstantsAssumption DEF Init
  <2> QED BY <2>1, <2>2 DEF Init, TypeOK
<1>2. Down /\ CoresFit /\ StopSticks /\ Durable
  BY DEF Init, Snapshot, Down, CoresFit, StopSticks, Durable
<1>3. OpSound /\ TickSound /\ StopDone /\ PutSafe
  BY DEF Init, Idle, OpSound, TickSound, StopDone, PutSafe
<1> QED BY <1>1, <1>2, <1>3 DEF IInv, Parts

\* Every step of the manager, of a core, of a crash keeps the invariant.
LEMMA TunnelsStep == IInv /\ [Next]_vars => IInv'
<1> SUFFICES ASSUME IInv, [Next]_vars PROVE IInv'
  OBVIOUS
<1>1. ASSUME NEW t \in Tunnels, OpStep(t) PROVE IInv'
  BY <1>1, StopUnsavedKeeps, StopMarkKeeps, AwaitedKeeps, TimedOutKeeps, NoteLimitKeeps, StartHasCoreKeeps, StartRefusedKeeps,
    StartUnsavedKeeps, StartNoArgsKeeps, StartNoFirewallKeeps, StartNoCoreKeeps, StartCoreKeeps, NoteFailureKeeps, EndStopKeeps,
    EraseKeeps DEF OpStep
<1>2. ASSUME NEW t \in Tunnels,
             \/ BeginStart(t) \/ BeginRestart(t) \/ BeginStop(t) \/ BeginDelete(t)
             \/ BeginUpsert(t) \/ BeginCookies(t)
             \/ CoreExits(t) \/ Reap(t) \/ Exceed(t) \/ ResetStats(t) \/ RetryDue(t)
      PROVE  IInv'
  BY <1>2, BeginStartKeeps, BeginRestartKeeps, BeginStopKeeps, BeginDeleteKeeps, BeginUpsertKeeps, BeginCookiesKeeps,
    BesideKeeps, ReapKeeps, ResetStatsKeeps
<1>3. ASSUME NEW set \in SUBSET Tunnels, BeginImport(set) PROVE IInv'
  BY <1>3, BeginImportKeeps
<1>4. CASE RestoreList \/ UNCHANGED vars
  BY <1>4, BesideKeeps
<1>5. CASE BeginRestore \/ Tick \/ SaveTick \/ BeginClose
  BY <1>5, BeginRestoreKeeps, TickKeeps, SaveTickKeeps, BeginCloseKeeps
<1>6. CASE Store \/ Merge \/ Release
  BY <1>6, StoreKeeps, MergeKeeps, ReleaseKeeps
<1>7. CASE CloseDone \/ Crash \/ Boot
  BY <1>7, CloseDoneKeeps, CrashKeeps, BootKeeps
<1> QED BY <1>1, <1>2, <1>3, <1>4, <1>5, <1>6, <1>7 DEF Next, OpGoesOn

\* The invariant above holds of every reachable state.
THEOREM Inductive == Spec => []IInv
BY TunnelsStep, InitIInv, PTL DEF Spec

\* The manager's state is well-formed, and no profile collects more failed
\* attempts than the supervisor allows.
THEOREM TypeCorrect == Spec => []TypeOK
<1>1. IInv => TypeOK
  BY DEF IInv
<1> QED BY <1>1, Inductive, PTL

\* A stop or deletion that was acknowledged sticks until the profile is asked for.
THEOREM StopsStick == Spec => []StopSticks
<1>1. IInv => StopSticks
  BY DEF IInv, Parts
<1> QED BY <1>1, Inductive, PTL

\* A core belongs to an enabled profile, or was told to end.
THEOREM CoresAreEnabled == Spec => []RunsOnlyIfEnabled
<1>1. IInv => RunsOnlyIfEnabled
  BY DEF IInv, Parts, TypeOK, CoresFit, RunsOnlyIfEnabled
<1> QED BY <1>1, Inductive, PTL

\* The panel shows a wanted core running, and nothing running without a core.
THEOREM ShownAsIs == Spec => []StatusTruthful
<1>1. IInv => StatusTruthful
  BY DEF IInv, Parts, CoresFit, StatusTruthful
<1> QED BY <1>1, Inductive, PTL

\* The file has the profiles of the panel, those enabled as enabled.
THEOREM FileIsCurrent == Spec => []Durable
<1>1. IInv => Durable
  BY DEF IInv, Parts
<1> QED BY <1>1, Inductive, PTL

-----------------------------------------------------------------------------
\* The packages of a node (ScriptUpdates)

CONSTANTS
    \* of ScriptUpdates; MaxRestarts is its Crashes
    Packages, Index, Shipped, RecheckAfter, RollbackAfter, FallbackAfter,
    MaxFails, MaxRestarts

\* The node begins with a package of the project's; the bounds are numbers.
ASSUME UpgradeAssumption ==
    /\ Shipped \in Packages /\ Shipped.signed /\ None \notin Packages
    /\ MaxFails \in Nat /\ MaxRestarts \in Nat

VARIABLES
    uFails, uRung, uRunning, uPending, uProc, uRec, uCur, uPrev, uFresh,
    uSpare, uLive, uCrossed, uTorn, uCrashes

upgradeVars ==
    <<uFails, uRung, uRunning, uPending, uProc, uRec, uCur, uPrev, uFresh,
    uSpare, uLive, uCrossed, uTorn, uCrashes>>

Upgrade == INSTANCE ScriptUpdates WITH
    fails <- uFails, rung <- uRung, running <- uRunning, pending <- uPending,
    proc <- uProc, rec <- uRec, cur <- uCur, prev <- uPrev, fresh <- uFresh,
    spare <- uSpare, live <- uLive, crossed <- uCrossed, torn <- uTorn,
    crashes <- uCrashes, Crashes <- MaxRestarts, Faults <- TRUE, First <- Shipped

\* The invariant of an updater holds when the node starts.
LEMMA UpgradeInit == Upgrade!Init => Upgrade!IInv
<1>0. Shipped \in Packages /\ Shipped.signed /\ None \notin Packages /\ MaxFails \in Nat
  BY UpgradeAssumption
<1> SUFFICES ASSUME Upgrade!Init
             PROVE  Upgrade!IInv
  OBVIOUS
<1>1. Upgrade!TypeOK
  BY <1>0 DEF Upgrade!Init, Upgrade!TypeOK, Upgrade!Rungs, Upgrade!Idle, Upgrade!Summary
<1>2. Upgrade!Placed
  BY <1>0 DEF Upgrade!Init, Upgrade!Placed, Upgrade!Plans, Upgrade!Processes, Upgrade!At, Upgrade!Entries, Upgrade!Steps,
    Upgrade!Idle, Upgrade!Summary
<1>3. Upgrade!Ours
  BY <1>0 DEF Upgrade!Init, Upgrade!Ours, Upgrade!Processes, Upgrade!Planned, Upgrade!At, Upgrade!Changes, Upgrade!Idle,
    Upgrade!Summary
<1>4. Upgrade!Restorable
  BY <1>0 DEF Upgrade!Init, Upgrade!Restorable, Upgrade!Processes, Upgrade!At, Upgrade!Idle, Upgrade!Summary
<1>5. Upgrade!Tracked
  BY <1>0 DEF Upgrade!Init, Upgrade!Tracked, Upgrade!Processes, Upgrade!At, Upgrade!Changes, Upgrade!Where, Upgrade!Idle,
    Upgrade!Summary
<1> QED BY <1>1, <1>2, <1>3, <1>4, <1>5 DEF Upgrade!IInv

\* What a step of one process does to where the two are.
LEMMA UpgradeGoes ==
    ASSUME Upgrade!Placed, NEW p \in Upgrade!Processes, NEW r \in Upgrade!Entries,
           uProc' = [uProc EXCEPT ![p] = r]
    PROVE  /\ uProc' \in [Upgrade!Processes -> Upgrade!Entries]
           /\ uProc'[p] = r /\ \A q \in Upgrade!Processes \ {p} : uProc'[q] = uProc[q]
BY DEF Upgrade!Placed

LEMMA UpgradeGoto ==
    ASSUME Upgrade!Placed, NEW p \in Upgrade!Processes, NEW s \in Upgrade!Steps, Upgrade!Goto(p, s)
    PROVE  /\ uProc' \in [Upgrade!Processes -> Upgrade!Entries]
           /\ uProc'[p].step = s /\ uProc'[p].plan = uProc[p].plan /\ uProc'[p].got = uProc[p].got
           /\ \A q \in Upgrade!Processes \ {p} : uProc'[q] = uProc[q]
<1>1. uProc \in [Upgrade!Processes -> Upgrade!Entries]
  BY DEF Upgrade!Placed
<1>2. PICK r : r = [uProc[p] EXCEPT !.step = s]
  OBVIOUS
<1>3. r \in Upgrade!Entries /\ r.step = s /\ r.plan = uProc[p].plan /\ r.got = uProc[p].got
  BY <1>1, <1>2 DEF Upgrade!Entries
<1>4. uProc' = [uProc EXCEPT ![p] = r]
  BY <1>1, <1>2 DEF Upgrade!Goto
<1> QED BY <1>3, <1>4, UpgradeGoes

LEMMA UpgradeEnds ==
    ASSUME Upgrade!Placed, NEW p \in Upgrade!Processes, Upgrade!Ends(p)
    PROVE  /\ uProc' \in [Upgrade!Processes -> Upgrade!Entries]
           /\ uProc'[p].step = "idle"
           /\ \A q \in Upgrade!Processes \ {p} : uProc'[q] = uProc[q]
<1>1. Upgrade!Idle \in Upgrade!Entries /\ Upgrade!Idle.step = "idle"
  BY DEF Upgrade!Idle, Upgrade!Entries, Upgrade!Steps, Upgrade!Plans
<1> QED BY <1>1, UpgradeGoes DEF Upgrade!Ends

\* A step that changes no file and begins no change keeps the invariant.
LEMMA UpgradeQuiet ==
    ASSUME Upgrade!IInv, Upgrade!TypeOK', NEW p \in Upgrade!Processes,
           uProc' \in [Upgrade!Processes -> Upgrade!Entries],
           \A q \in Upgrade!Processes \ {p} : uProc'[q] = uProc[q],
           ~Upgrade!Changes(p) \/ uProc[p].step \in {"write", "swap"},
           uProc'[p].step \in {"idle", "check", "apply", "fetch", "rollback", "reload"},
           uProc'[p].step = "fetch" => uProc'[p].plan.wire = Shipped.wire,
           UNCHANGED <<uRec, uCur, uPrev, uFresh, uSpare, uCrossed, uTorn>>,
           uLive' \in {uLive, uCur}
    PROVE  Upgrade!IInv'
<1>i. Upgrade!TypeOK /\ Upgrade!Placed /\ Upgrade!Ours /\ Upgrade!Restorable /\ Upgrade!Tracked
  BY DEF Upgrade!IInv
<1>1. Upgrade!Placed'
  BY <1>i DEF Upgrade!Placed
<1>2. Upgrade!Ours'
  BY <1>i DEF Upgrade!Ours, Upgrade!Planned, Upgrade!Processes, Upgrade!At, Upgrade!Changes
<1>3. Upgrade!Restorable'
  BY <1>i DEF Upgrade!Restorable, Upgrade!Processes, Upgrade!At, Upgrade!Changes
<1>4. Upgrade!Tracked'
  <2>1. \A q \in Upgrade!Processes : Upgrade!Changes(q)' => Upgrade!Changes(q) /\ q # p
    BY DEF Upgrade!Changes, Upgrade!At
  <2>2. \A q \in Upgrade!Processes : Upgrade!Where(q) => Upgrade!Where(q)'
    BY DEF Upgrade!Where, Upgrade!At, Upgrade!Summary
  <2>3. Upgrade!Changes(p) => (~uCrossed /\ ~uTorn => uRec = Upgrade!Summary(uCur))
    BY <1>i DEF Upgrade!Tracked, Upgrade!Where, Upgrade!Changes, Upgrade!At
  <2>4. Upgrade!Summary(uCur)' = Upgrade!Summary(uCur)
    BY DEF Upgrade!Summary
  <2>5. ASSUME ~uCrossed, ~uTorn, \A q \in Upgrade!Processes : ~Upgrade!Changes(q)'
        PROVE  uRec = Upgrade!Summary(uCur)
    <3>1. \A q \in Upgrade!Processes \ {p} : ~Upgrade!Changes(q)
      BY <2>5 DEF Upgrade!Changes, Upgrade!At
    <3>2. CASE ~Upgrade!Changes(p)
      BY <1>i, <2>5, <3>1, <3>2 DEF Upgrade!Tracked
    <3>3. CASE Upgrade!Changes(p)
      BY <2>3, <2>5, <3>3
    <3> QED BY <3>2, <3>3
  <2>6. ASSUME ~uCrossed', ~uTorn'
        PROVE  /\ \A a, b \in Upgrade!Processes : Upgrade!Changes(a)' /\ Upgrade!Changes(b)' => a = b
               /\ \A a \in Upgrade!Processes : Upgrade!Where(a)'
    BY <1>i, <2>1, <2>2, <2>6 DEF Upgrade!Tracked
  <2>7. UNCHANGED <<uRec, uCrossed, uTorn>>
    OBVIOUS
  <2> QED BY <2>4, <2>5, <2>6, <2>7 DEF Upgrade!Tracked
<1> QED BY <1>1, <1>2, <1>3, <1>4 DEF Upgrade!IInv

\* Whatever the ladder, the processes and the node do, the invariant of an updater stays.
LEMMA UpgradeStep ==
    ASSUME Upgrade!IInv, Upgrade!Next
    PROVE  Upgrade!IInv'
<1>0. Shipped \in Packages /\ Shipped.signed /\ None \notin Packages /\ MaxFails \in Nat
  BY UpgradeAssumption
<1>i. Upgrade!TypeOK /\ Upgrade!Placed /\ Upgrade!Ours /\ Upgrade!Restorable /\ Upgrade!Tracked
  BY DEF Upgrade!IInv
<1>t. uProc \in [Upgrade!Processes -> Upgrade!Entries] /\ "worker" \in Upgrade!Processes
      /\ \A p \in Upgrade!Processes : p \in {"worker", "pass"}
  BY <1>i DEF Upgrade!Placed, Upgrade!Processes
<1>s. /\ {"idle", "check", "apply", "rollback", "write", "away", "promote", "swap", "back",
          "keep", "record", "reload"} \subseteq Upgrade!Steps
  BY DEF Upgrade!Steps
<1>l. uLive \in Packages /\ {uCur, uPrev, uFresh, uSpare} \subseteq Packages \union {None}
  BY <1>i DEF Upgrade!TypeOK
<1>1. CASE Upgrade!Failed
  <2>1. Upgrade!TypeOK'
    BY <1>0, <1>i, <1>1 DEF Upgrade!TypeOK, Upgrade!Rungs, Upgrade!Failed, Upgrade!Step, Upgrade!Action, Upgrade!marks,
      Upgrade!files, Upgrade!ladderVars
  <2>2. UNCHANGED <<uProc, uRec, uCur, uPrev, uFresh, uSpare, uLive, uCrossed, uTorn>>
    BY <1>1 DEF Upgrade!Failed, Upgrade!files, Upgrade!marks
  <2>3. Upgrade!Placed' /\ Upgrade!Ours' /\ Upgrade!Restorable'
    BY <1>i, <2>2 DEF Upgrade!Placed, Upgrade!Ours, Upgrade!Restorable, Upgrade!Planned, Upgrade!At, Upgrade!Changes
  <2>4. Upgrade!Tracked'
    BY <1>i, <2>2 DEF Upgrade!Tracked, Upgrade!At, Upgrade!Changes, Upgrade!Where
  <2> QED BY <2>1, <2>3, <2>4 DEF Upgrade!IInv
<1>2. CASE Upgrade!Work
  <2>1. UNCHANGED <<uRec, uCur, uPrev, uFresh, uSpare, uCrossed, uTorn>> /\ uLive' \in {uLive, uCur}
    BY <1>2 DEF Upgrade!Work, Upgrade!files, Upgrade!marks
  <2>2. Upgrade!TypeOK'
    BY <1>i, <1>2 DEF Upgrade!TypeOK, Upgrade!Work, Upgrade!ladderVars, Upgrade!files, Upgrade!marks
  <2>3. /\ uProc' \in [Upgrade!Processes -> Upgrade!Entries]
        /\ \A q \in Upgrade!Processes \ {"worker"} : uProc'[q] = uProc[q]
        /\ ~Upgrade!Changes("worker")
        /\ uProc'["worker"].step \in {"idle", "check", "apply", "fetch", "rollback", "reload"}
        /\ uProc'["worker"].step = "fetch" => uProc'["worker"].plan.wire = Shipped.wire
    <3>1. ~Upgrade!Changes("worker")
      BY <1>2 DEF Upgrade!Work, Upgrade!Changes, Upgrade!At
    <3>2. \/ UNCHANGED uProc \/ Upgrade!Goto("worker", "check") \/ Upgrade!Goto("worker", "rollback")
      BY <1>2, <1>i DEF Upgrade!Work, Upgrade!TypeOK
    <3>3. uProc["worker"].step = "idle"
      BY <1>2 DEF Upgrade!Work, Upgrade!At
    <3> QED BY <1>i, <1>s, <1>t, <3>1, <3>2, <3>3, UpgradeGoto
  <2> QED BY <1>t, <2>1, <2>2, <2>3, UpgradeQuiet
<1>3. CASE Upgrade!CheckAll
  <2>1. UNCHANGED <<uRec, uCur, uPrev, uFresh, uSpare, uCrossed, uTorn>> /\ uLive' \in {uLive, uCur}
    BY <1>3 DEF Upgrade!CheckAll, Upgrade!files, Upgrade!marks
  <2>2. Upgrade!TypeOK'
    BY <1>i, <1>3 DEF Upgrade!TypeOK, Upgrade!CheckAll, Upgrade!ladderVars, Upgrade!files, Upgrade!marks
  <2>3. /\ uProc' \in [Upgrade!Processes -> Upgrade!Entries]
        /\ \A q \in Upgrade!Processes \ {"pass"} : uProc'[q] = uProc[q]
        /\ ~Upgrade!Changes("pass")
        /\ uProc'["pass"].step \in {"idle", "check", "apply", "fetch", "rollback", "reload"}
        /\ uProc'["pass"].step = "fetch" => uProc'["pass"].plan.wire = Shipped.wire
    <3>1. ~Upgrade!Changes("pass") /\ "pass" \in Upgrade!Processes
      BY <1>3 DEF Upgrade!CheckAll, Upgrade!Changes, Upgrade!At, Upgrade!Processes
    <3>2. Upgrade!Goto("pass", "check")
      BY <1>3 DEF Upgrade!CheckAll
    <3> QED BY <1>i, <1>s, <3>1, <3>2, UpgradeGoto
  <2> QED BY <2>1, <2>2, <2>3, UpgradeQuiet DEF Upgrade!Processes
<1>4. ASSUME NEW p \in Upgrade!Processes, Upgrade!Check(p)
      PROVE  Upgrade!IInv'
  <2>1. UNCHANGED <<uRec, uCur, uPrev, uFresh, uSpare, uCrossed, uTorn, uLive>>
    BY <1>4 DEF Upgrade!Check, Upgrade!files, Upgrade!marks
  <2>2. Upgrade!TypeOK'
    BY <1>i, <1>4 DEF Upgrade!TypeOK, Upgrade!Check, Upgrade!ladderVars, Upgrade!files, Upgrade!marks
  <2>3. ~Upgrade!Changes(p)
    BY <1>4 DEF Upgrade!Check, Upgrade!Changes, Upgrade!At
  <2>4. CASE Upgrade!Ends(p) \/ Upgrade!Goto(p, "apply")
    <3>1. /\ uProc' \in [Upgrade!Processes -> Upgrade!Entries]
          /\ uProc'[p].step \in {"idle", "apply"}
          /\ \A q \in Upgrade!Processes \ {p} : uProc'[q] = uProc[q]
      BY <1>i, <1>s, <2>4, UpgradeGoto, UpgradeEnds
    <3> QED BY <2>1, <2>2, <2>3, <3>1, UpgradeQuiet
  <2>5. ASSUME NEW i \in Index, Upgrade!AutoOK(i),
               uProc' = [uProc EXCEPT ![p].step = "fetch", ![p].plan = i]
        PROVE  Upgrade!IInv'
    <3>1. PICK r : r = [uProc[p] EXCEPT !.step = "fetch", !.plan = i]
      OBVIOUS
    <3>2. r \in Upgrade!Entries /\ r.step = "fetch" /\ r.plan = i
      BY <1>t, <3>1 DEF Upgrade!Entries, Upgrade!Steps, Upgrade!Plans
    <3>3. uProc' = [uProc EXCEPT ![p] = r]
      BY <1>t, <2>5, <3>1
    <3>4. i.wire = Shipped.wire
      BY <1>i, <2>5 DEF Upgrade!AutoOK, Upgrade!Ours
    <3>5. /\ uProc' \in [Upgrade!Processes -> Upgrade!Entries]
          /\ uProc'[p] = r /\ \A q \in Upgrade!Processes \ {p} : uProc'[q] = uProc[q]
      BY <1>i, <3>2, <3>3, UpgradeGoes
    <3> QED BY <2>1, <2>2, <2>3, <3>2, <3>4, <3>5, UpgradeQuiet
  <2> QED BY <1>4, <2>4, <2>5 DEF Upgrade!Check
<1>5. ASSUME NEW p \in Upgrade!Processes, Upgrade!Fetch(p)
      PROVE  Upgrade!IInv'
  <2>1. CASE Upgrade!Ends(p) /\ UNCHANGED uCrossed
    <3>1. UNCHANGED <<uRec, uCur, uPrev, uFresh, uSpare, uCrossed, uTorn, uLive>> /\ Upgrade!TypeOK'
      BY <1>i, <1>5, <2>1 DEF Upgrade!Fetch, Upgrade!TypeOK, Upgrade!ladderVars, Upgrade!files
    <3>2. ~Upgrade!Changes(p)
      BY <1>5 DEF Upgrade!Fetch, Upgrade!Changes, Upgrade!At
    <3>3. /\ uProc' \in [Upgrade!Processes -> Upgrade!Entries] /\ uProc'[p].step = "idle"
          /\ \A q \in Upgrade!Processes \ {p} : uProc'[q] = uProc[q]
      BY <1>i, <2>1, UpgradeEnds
    <3> QED BY <3>1, <3>2, <3>3, UpgradeQuiet
  <2>2. ASSUME NEW d \in Packages, Upgrade!Verified(p, d), Upgrade!Crossing(p),
               uProc' = [uProc EXCEPT ![p].step = "write", ![p].got = d]
        PROVE  Upgrade!IInv'
    <3>1. PICK r : r = [uProc[p] EXCEPT !.step = "write", !.got = d]
      OBVIOUS
    <3>2. r \in Upgrade!Entries /\ r.step = "write" /\ r.plan = uProc[p].plan /\ r.got = d
      BY <1>t, <3>1 DEF Upgrade!Entries, Upgrade!Steps
    <3>3. uProc' = [uProc EXCEPT ![p] = r]
      BY <1>t, <2>2, <3>1
    <3>4. /\ uProc' \in [Upgrade!Processes -> Upgrade!Entries]
          /\ uProc'[p] = r /\ \A q \in Upgrade!Processes \ {p} : uProc'[q] = uProc[q]
      BY <1>i, <3>2, <3>3, UpgradeGoes
    <3>5. uProc[p].step = "fetch" /\ UNCHANGED <<uRec, uCur, uPrev, uFresh, uSpare, uTorn, uLive>> /\ Upgrade!TypeOK'
      BY <1>i, <1>5 DEF Upgrade!Fetch, Upgrade!TypeOK, Upgrade!ladderVars, Upgrade!files, Upgrade!At
    <3>6. d.signed /\ d.version = r.plan.version /\ d.wire = r.plan.wire /\ r.plan = Upgrade!Summary(d)
      BY <2>2, <3>2 DEF Upgrade!Verified, Upgrade!Summary
    <3>7. uCrossed' \in BOOLEAN /\ (~uCrossed' => ~uCrossed /\ \A q \in Upgrade!Processes \ {p} : ~Upgrade!Changes(q))
      BY <1>i, <2>2 DEF Upgrade!Placed, Upgrade!Crossing
    <3>8. Upgrade!Placed'
      BY <1>i, <3>4, <3>5, <3>7 DEF Upgrade!Placed
    <3>9. Upgrade!Ours'
      <4>1. uProc[p].plan.wire = Shipped.wire
        BY <1>i, <3>5 DEF Upgrade!Ours, Upgrade!Planned, Upgrade!At
      <4> QED BY <1>i, <3>2, <3>4, <3>5, <3>6, <4>1 DEF Upgrade!Ours, Upgrade!Planned, Upgrade!At, Upgrade!Changes
    <3>10. Upgrade!Restorable'
      BY <1>i, <1>t, <3>2, <3>4, <3>5 DEF Upgrade!Restorable, Upgrade!At
    <3>11. Upgrade!Tracked'
      <4>1. ASSUME ~uCrossed', ~uTorn'
            PROVE  uRec = Upgrade!Summary(uCur) /\ uCur # None
        <5>1. \A q \in Upgrade!Processes : ~Upgrade!Changes(q)
          BY <3>5, <3>7, <4>1 DEF Upgrade!Changes, Upgrade!At
        <5> QED BY <1>i, <1>t, <3>5, <3>7, <4>1, <5>1 DEF Upgrade!Tracked, Upgrade!Restorable, Upgrade!Changes
      <4>2. ASSUME ~uCrossed', ~uTorn', NEW q \in Upgrade!Processes
            PROVE  /\ Upgrade!Changes(q)' => q = p
                   /\ Upgrade!Where(q)'
        <5>1. q # p => ~Upgrade!Changes(q) /\ uProc'[q] = uProc[q]
          BY <3>4, <3>7, <4>2
        <5> QED BY <3>2, <3>4, <3>5, <3>6, <4>1, <4>2, <5>1 DEF Upgrade!Where, Upgrade!Changes, Upgrade!At, Upgrade!Summary
      <4>3. Upgrade!Changes(p)'
        BY <3>2, <3>4 DEF Upgrade!Changes, Upgrade!At
      <4> QED BY <4>2, <4>3 DEF Upgrade!Tracked
    <3> QED BY <3>5, <3>8, <3>9, <3>10, <3>11 DEF Upgrade!IInv
  <2> QED BY <1>5, <2>1, <2>2 DEF Upgrade!Fetch

<1>6. ASSUME NEW p \in Upgrade!Processes, Upgrade!WriteFresh(p)
      PROVE  Upgrade!IInv'
  <2>1. /\ uProc[p].step = "write" /\ UNCHANGED <<uRec, uCur, uPrev, uSpare, uCrossed, uTorn, uLive>>
        /\ uFails' = uFails /\ uRung' = uRung /\ uPending' = uPending
    BY <1>6 DEF Upgrade!WriteFresh, Upgrade!ladderVars, Upgrade!marks, Upgrade!At
  <2>2. CASE Upgrade!Ends(p) /\ UNCHANGED uFresh
    <3>1. Upgrade!TypeOK'
      BY <1>i, <2>1, <2>2 DEF Upgrade!TypeOK
    <3>2. /\ uProc' \in [Upgrade!Processes -> Upgrade!Entries] /\ uProc'[p].step = "idle"
          /\ \A q \in Upgrade!Processes \ {p} : uProc'[q] = uProc[q]
      BY <1>i, <2>2, UpgradeEnds
    <3> QED BY <2>1, <2>2, <3>1, <3>2, UpgradeQuiet
  <2>3. CASE uFresh' = uProc[p].got /\ Upgrade!Goto(p, "away")
    <3>1. /\ uProc' \in [Upgrade!Processes -> Upgrade!Entries]
          /\ uProc'[p].step = "away" /\ uProc'[p].plan = uProc[p].plan /\ uProc'[p].got = uProc[p].got
          /\ \A q \in Upgrade!Processes \ {p} : uProc'[q] = uProc[q]
      BY <1>i, <1>s, <2>3, UpgradeGoto
    <3>2. uFresh' \in Packages /\ uFresh'.signed /\ uFresh'.wire = Shipped.wire /\ uProc[p].plan.wire = Shipped.wire
      BY <1>i, <2>1, <2>3 DEF Upgrade!Ours, Upgrade!Planned, Upgrade!Changes, Upgrade!At
    <3>3. Upgrade!TypeOK' /\ Upgrade!Placed'
      BY <1>i, <2>1, <3>1, <3>2 DEF Upgrade!TypeOK, Upgrade!Placed
    <3>4. Upgrade!Ours'
      BY <1>i, <2>1, <3>1, <3>2 DEF Upgrade!Ours, Upgrade!Planned, Upgrade!At, Upgrade!Changes
    <3>5. Upgrade!Restorable'
      BY <1>i, <1>t, <2>1, <3>1 DEF Upgrade!Restorable, Upgrade!At
    <3>6. Upgrade!Tracked'
      <4>1. \A q \in Upgrade!Processes : Upgrade!Changes(q)' <=> Upgrade!Changes(q)
        BY <2>1, <3>1 DEF Upgrade!Changes, Upgrade!At
      <4>2. Upgrade!Changes(p)
        BY <2>1 DEF Upgrade!Changes, Upgrade!At
      <4>3. ASSUME ~uCrossed, ~uTorn, NEW q \in Upgrade!Processes
            PROVE  Upgrade!Where(q)'
        <5>1. q # p => ~Upgrade!Changes(q) /\ uProc'[q] = uProc[q]
          BY <1>i, <3>1, <4>2, <4>3 DEF Upgrade!Tracked
        <5>2. Upgrade!Where(p)
          BY <1>i, <4>3 DEF Upgrade!Tracked
        <5> QED BY <2>1, <2>3, <3>1, <5>1, <5>2 DEF Upgrade!Where, Upgrade!Changes, Upgrade!At, Upgrade!Summary
      <4> QED BY <1>i, <2>1, <4>1, <4>2, <4>3 DEF Upgrade!Tracked
    <3> QED BY <3>3, <3>4, <3>5, <3>6 DEF Upgrade!IInv
  <2> QED BY <1>6, <2>2, <2>3 DEF Upgrade!WriteFresh
<1>7. ASSUME NEW p \in Upgrade!Processes, Upgrade!MoveAway(p)
      PROVE  Upgrade!IInv'
  <2>1. /\ uProc[p].step = "away" /\ UNCHANGED <<uRec, uSpare, uCrossed, uTorn, uLive>>
        /\ uFails' = uFails /\ uRung' = uRung /\ uPending' = uPending
    BY <1>7 DEF Upgrade!MoveAway, Upgrade!ladderVars, Upgrade!marks, Upgrade!At
  <2>2. Upgrade!Changes(p) /\ uProc[p].plan.wire = Shipped.wire
    BY <1>i, <2>1 DEF Upgrade!Changes, Upgrade!At, Upgrade!Ours, Upgrade!Planned
  <2>3. ~uCrossed /\ ~uTorn => /\ \A q \in Upgrade!Processes \ {p} : ~Upgrade!Changes(q)
                               /\ uCur # None /\ uRec = Upgrade!Summary(uCur) /\ uFresh = uProc[p].got
                               /\ uProc[p].plan = Upgrade!Summary(uProc[p].got)
    BY <1>i, <2>1, <2>2 DEF Upgrade!Tracked, Upgrade!Where, Upgrade!At
  <2>4. CASE uFresh' = None /\ Upgrade!Ends(p) /\ UNCHANGED <<uCur, uPrev>>
    <3>1. /\ uProc' \in [Upgrade!Processes -> Upgrade!Entries] /\ uProc'[p].step = "idle"
          /\ \A q \in Upgrade!Processes \ {p} : uProc'[q] = uProc[q]
      BY <1>i, <2>4, UpgradeEnds
    <3>2. Upgrade!TypeOK' /\ Upgrade!Placed'
      BY <1>i, <2>1, <2>4, <3>1 DEF Upgrade!TypeOK, Upgrade!Placed
    <3>3. Upgrade!Ours'
      BY <1>i, <2>1, <2>4, <3>1 DEF Upgrade!Ours, Upgrade!Planned, Upgrade!At, Upgrade!Changes
    <3>4. Upgrade!Restorable'
      BY <1>i, <1>t, <2>1, <2>4, <3>1 DEF Upgrade!Restorable, Upgrade!At
    <3>5. Upgrade!Tracked'
      <4>1. ASSUME ~uCrossed, ~uTorn, NEW q \in Upgrade!Processes
            PROVE  ~Upgrade!Changes(q)' /\ Upgrade!Where(q)'
        BY <2>3, <3>1, <4>1 DEF Upgrade!Changes, Upgrade!Where, Upgrade!At
      <4> QED BY <2>1, <2>3, <2>4, <4>1 DEF Upgrade!Tracked, Upgrade!Summary
    <3> QED BY <3>2, <3>3, <3>4, <3>5 DEF Upgrade!IInv
  <2>5. CASE /\ IF uCur # None THEN Upgrade!Kept /\ uCur' = None ELSE UNCHANGED <<uCur, uPrev>>
             /\ Upgrade!Goto(p, "promote") /\ UNCHANGED uFresh
    <3>1. /\ uProc' \in [Upgrade!Processes -> Upgrade!Entries]
          /\ uProc'[p].step = "promote" /\ uProc'[p].plan = uProc[p].plan /\ uProc'[p].got = uProc[p].got
          /\ \A q \in Upgrade!Processes \ {p} : uProc'[q] = uProc[q]
      BY <1>i, <1>s, <2>5, UpgradeGoto
    <3>e. UNCHANGED uFresh /\ uCur' = None /\ (uCur # None => uPrev' = uCur) /\ (uCur = None => uPrev' = uPrev)
      BY <2>5 DEF Upgrade!Kept
    <3>2. Upgrade!TypeOK' /\ Upgrade!Placed'
      BY <1>i, <2>1, <3>1, <3>e DEF Upgrade!TypeOK, Upgrade!Placed
    <3>3. Upgrade!Ours'
      BY <1>i, <2>1, <2>2, <3>1, <3>e DEF Upgrade!Ours, Upgrade!Planned, Upgrade!At, Upgrade!Changes
    <3>4. Upgrade!Restorable'
      BY <1>i, <1>t, <2>1, <3>1, <3>e DEF Upgrade!Restorable, Upgrade!At
    <3>5. Upgrade!Tracked'
      <4>1. ASSUME ~uCrossed, ~uTorn, NEW q \in Upgrade!Processes
            PROVE  (Upgrade!Changes(q)' => q = p) /\ Upgrade!Where(q)'
        BY <2>3, <3>1, <3>e, <4>1, <2>1 DEF Upgrade!Changes, Upgrade!Where, Upgrade!At, Upgrade!Summary
      <4>2. Upgrade!Changes(p)'
        BY <3>1 DEF Upgrade!Changes, Upgrade!At
      <4> QED BY <2>1, <4>1, <4>2 DEF Upgrade!Tracked
    <3> QED BY <3>2, <3>3, <3>4, <3>5 DEF Upgrade!IInv
  <2> QED BY <1>7, <2>4, <2>5 DEF Upgrade!MoveAway
<1>8. ASSUME NEW p \in Upgrade!Processes, Upgrade!Promote(p)
      PROVE  Upgrade!IInv'
  <2>1. /\ uProc[p].step = "promote" /\ UNCHANGED <<uRec, uSpare, uCrossed, uTorn, uLive>>
        /\ uFails' = uFails /\ uRung' = uRung /\ uPending' = uPending
    BY <1>8 DEF Upgrade!Promote, Upgrade!ladderVars, Upgrade!marks, Upgrade!At
  <2>2. Upgrade!Changes(p) /\ uProc[p].plan.wire = Shipped.wire
    BY <1>i, <2>1 DEF Upgrade!Changes, Upgrade!At, Upgrade!Ours, Upgrade!Planned
  <2>3. ~uCrossed /\ ~uTorn => /\ \A q \in Upgrade!Processes \ {p} : ~Upgrade!Changes(q)
                               /\ uFresh = uProc[p].got /\ uProc[p].plan = Upgrade!Summary(uProc[p].got)
                               /\ uPrev # None /\ uRec = Upgrade!Summary(uPrev)
    BY <1>i, <2>1, <2>2 DEF Upgrade!Tracked, Upgrade!Where, Upgrade!At
  <2>4. CASE uFresh # None /\ uCur' = uFresh /\ uFresh' = None /\ Upgrade!Goto(p, "record") /\ UNCHANGED uPrev
    <3>1. /\ uProc' \in [Upgrade!Processes -> Upgrade!Entries]
          /\ uProc'[p].step = "record" /\ uProc'[p].plan = uProc[p].plan /\ uProc'[p].got = uProc[p].got
          /\ \A q \in Upgrade!Processes \ {p} : uProc'[q] = uProc[q]
      BY <1>i, <1>s, <2>4, UpgradeGoto
    <3>2. Upgrade!TypeOK' /\ Upgrade!Placed'
      BY <1>i, <2>1, <2>4, <3>1 DEF Upgrade!TypeOK, Upgrade!Placed
    <3>3. Upgrade!Ours'
      BY <1>i, <2>1, <2>2, <2>4, <3>1 DEF Upgrade!Ours, Upgrade!Planned, Upgrade!At, Upgrade!Changes
    <3>4. Upgrade!Restorable'
      BY <1>i, <1>t, <2>1, <2>4, <3>1 DEF Upgrade!Restorable, Upgrade!At
    <3>5. Upgrade!Tracked'
      <4>1. ASSUME ~uCrossed, ~uTorn, NEW q \in Upgrade!Processes
            PROVE  (Upgrade!Changes(q)' => q = p) /\ Upgrade!Where(q)'
        BY <2>1, <2>3, <2>4, <3>1, <4>1 DEF Upgrade!Changes, Upgrade!Where, Upgrade!At, Upgrade!Summary
      <4>2. Upgrade!Changes(p)'
        BY <3>1 DEF Upgrade!Changes, Upgrade!At
      <4> QED BY <2>1, <4>1, <4>2 DEF Upgrade!Tracked
    <3> QED BY <3>2, <3>3, <3>4, <3>5 DEF Upgrade!IInv
  <2>5. CASE Upgrade!PutBack /\ uFresh' = None /\ Upgrade!Ends(p)
    <3>1. /\ uProc' \in [Upgrade!Processes -> Upgrade!Entries] /\ uProc'[p].step = "idle"
          /\ \A q \in Upgrade!Processes \ {p} : uProc'[q] = uProc[q]
      BY <1>i, <2>5, UpgradeEnds
    <3>e. /\ uFresh' = None /\ uCur' = IF uPrev # None THEN uPrev ELSE uCur
          /\ uPrev' = None
      BY <2>5 DEF Upgrade!PutBack
    <3>2. Upgrade!TypeOK' /\ Upgrade!Placed'
      BY <1>i, <2>1, <3>1, <3>e DEF Upgrade!TypeOK, Upgrade!Placed
    <3>3. Upgrade!Ours'
      BY <1>i, <2>1, <3>1, <3>e DEF Upgrade!Ours, Upgrade!Planned, Upgrade!At, Upgrade!Changes
    <3>4. Upgrade!Restorable'
      BY <1>i, <1>t, <2>1, <3>1, <3>e DEF Upgrade!Restorable, Upgrade!At
    <3>5. Upgrade!Tracked'
      <4>1. ASSUME ~uCrossed, ~uTorn, NEW q \in Upgrade!Processes
            PROVE  ~Upgrade!Changes(q)' /\ Upgrade!Where(q)'
        BY <2>3, <3>1, <4>1 DEF Upgrade!Changes, Upgrade!Where, Upgrade!At
      <4> QED BY <2>1, <2>3, <3>e, <4>1 DEF Upgrade!Tracked, Upgrade!Summary
    <3> QED BY <3>2, <3>3, <3>4, <3>5 DEF Upgrade!IInv
  <2> QED BY <1>8, <2>4, <2>5 DEF Upgrade!Promote
<1>9. CASE Upgrade!Rollback
  <2>1. /\ uProc["worker"].step = "rollback" /\ UNCHANGED <<uRec, uCur, uPrev, uFresh, uSpare, uTorn, uLive>>
        /\ Upgrade!TypeOK' /\ ~Upgrade!Changes("worker")
    BY <1>i, <1>9 DEF Upgrade!Rollback, Upgrade!TypeOK, Upgrade!ladderVars, Upgrade!files, Upgrade!At, Upgrade!Changes
  <2>2. CASE Upgrade!Ends("worker") /\ UNCHANGED uCrossed
    <3>1. /\ uProc' \in [Upgrade!Processes -> Upgrade!Entries] /\ uProc'["worker"].step = "idle"
          /\ \A q \in Upgrade!Processes \ {"worker"} : uProc'[q] = uProc[q]
      BY <1>i, <1>t, <2>2, UpgradeEnds
    <3> QED BY <1>t, <2>1, <2>2, <3>1, UpgradeQuiet
  <2>3. CASE /\ uPrev # None /\ uPrev.signed /\ Upgrade!Crossing("worker")
             /\ uProc' = [uProc EXCEPT !["worker"].step = "swap", !["worker"].plan = Upgrade!Summary(uPrev)]
    <3>a. PICK r : r = [uProc["worker"] EXCEPT !.step = "swap", !.plan = Upgrade!Summary(uPrev)]
      OBVIOUS
    <3>b. Upgrade!Summary(uPrev) \in Upgrade!Plans
      BY <1>l, <2>3 DEF Upgrade!Plans
    <3>c. r \in Upgrade!Entries /\ r.step = "swap" /\ r.plan = Upgrade!Summary(uPrev)
      BY <1>t, <3>a, <3>b DEF Upgrade!Entries, Upgrade!Steps
    <3>d. uProc' = [uProc EXCEPT !["worker"] = r]
      BY <1>t, <2>3, <3>a
    <3>1. /\ uProc' \in [Upgrade!Processes -> Upgrade!Entries]
          /\ uProc'["worker"].step = "swap" /\ uProc'["worker"].plan = Upgrade!Summary(uPrev)
          /\ \A q \in Upgrade!Processes \ {"worker"} : uProc'[q] = uProc[q]
      BY <1>i, <1>t, <3>c, <3>d, UpgradeGoes
    <3>e. uCrossed' \in BOOLEAN /\ (~uCrossed' => ~uCrossed /\ \A q \in Upgrade!Processes \ {"worker"} : ~Upgrade!Changes(q))
      BY <1>i, <2>3 DEF Upgrade!Placed, Upgrade!Crossing
    <3>f. uProc'["worker"].plan.wire = Shipped.wire
      BY <1>i, <2>3, <3>1 DEF Upgrade!Ours, Upgrade!Summary
    <3>2. Upgrade!Placed'
      BY <1>i, <2>1, <3>1, <3>e DEF Upgrade!Placed
    <3>3. Upgrade!Ours'
      BY <1>i, <2>1, <3>1, <3>f DEF Upgrade!Ours, Upgrade!Planned, Upgrade!At, Upgrade!Changes
    <3>4. Upgrade!Restorable'
      BY <1>i, <1>t, <2>1, <3>1 DEF Upgrade!Restorable, Upgrade!At
    <3>5. Upgrade!Tracked'
      <4>1. ASSUME ~uCrossed', ~uTorn'
            PROVE  uRec = Upgrade!Summary(uCur) /\ uCur # None
        <5>1. \A q \in Upgrade!Processes : ~Upgrade!Changes(q)
          BY <2>1, <3>e, <4>1
        <5> QED BY <1>i, <1>t, <2>1, <3>e, <4>1, <5>1 DEF Upgrade!Tracked, Upgrade!Restorable, Upgrade!Changes
      <4>2. ASSUME ~uCrossed', ~uTorn', NEW q \in Upgrade!Processes
            PROVE  (Upgrade!Changes(q)' => q = "worker") /\ Upgrade!Where(q)'
        <5>1. q # "worker" => ~Upgrade!Changes(q) /\ uProc'[q] = uProc[q]
          BY <3>1, <3>e, <4>2
        <5> QED BY <2>1, <2>3, <3>1, <4>1, <4>2, <5>1 DEF Upgrade!Where, Upgrade!Changes, Upgrade!At, Upgrade!Summary
      <4>3. Upgrade!Changes("worker")'
        BY <3>1 DEF Upgrade!Changes, Upgrade!At
      <4> QED BY <1>t, <4>2, <4>3 DEF Upgrade!Tracked
    <3> QED BY <2>1, <3>2, <3>3, <3>4, <3>5 DEF Upgrade!IInv
  <2> QED BY <1>9, <2>2, <2>3 DEF Upgrade!Rollback
<1>10. CASE Upgrade!SwapOut
  <2>1. /\ uProc["worker"].step = "swap" /\ UNCHANGED <<uRec, uCrossed, uTorn, uLive>>
        /\ uFails' = uFails /\ uRung' = uRung /\ uPending' = uPending
    BY <1>10 DEF Upgrade!SwapOut, Upgrade!ladderVars, Upgrade!marks, Upgrade!At
  <2>2. Upgrade!Changes("worker") /\ uProc["worker"].plan.wire = Shipped.wire
    BY <1>i, <1>t, <2>1 DEF Upgrade!Changes, Upgrade!At, Upgrade!Ours, Upgrade!Planned
  <2>3. ~uCrossed /\ ~uTorn => /\ \A q \in Upgrade!Processes \ {"worker"} : ~Upgrade!Changes(q)
                               /\ uCur # None /\ uRec = Upgrade!Summary(uCur) /\ uPrev # None /\ uProc["worker"].plan = Upgrade!Summary(uPrev)
    BY <1>i, <1>t, <2>1, <2>2 DEF Upgrade!Tracked, Upgrade!Where, Upgrade!At
  <2>4. CASE Upgrade!Ends("worker") /\ UNCHANGED Upgrade!files
    <3>1. /\ uProc' \in [Upgrade!Processes -> Upgrade!Entries] /\ uProc'["worker"].step = "idle"
          /\ \A q \in Upgrade!Processes \ {"worker"} : uProc'[q] = uProc[q]
      BY <1>i, <1>t, <2>4, UpgradeEnds
    <3>2. UNCHANGED <<uCur, uPrev, uFresh, uSpare>> /\ Upgrade!TypeOK'
      BY <1>i, <2>1, <2>4 DEF Upgrade!files, Upgrade!TypeOK
    <3> QED BY <1>t, <2>1, <3>1, <3>2, UpgradeQuiet
  <2>5. CASE uCur # None /\ uSpare' = uCur /\ uCur' = None /\ Upgrade!Goto("worker", "back") /\ UNCHANGED <<uPrev, uFresh>>
    <3>1. /\ uProc' \in [Upgrade!Processes -> Upgrade!Entries]
          /\ uProc'["worker"].step = "back" /\ uProc'["worker"].plan = uProc["worker"].plan /\ uProc'["worker"].got = uProc["worker"].got
          /\ \A q \in Upgrade!Processes \ {"worker"} : uProc'[q] = uProc[q]
      BY <1>i, <1>s, <1>t, <2>5, UpgradeGoto
    <3>2. Upgrade!TypeOK' /\ Upgrade!Placed'
      BY <1>i, <2>1, <2>2, <2>5, <3>1 DEF Upgrade!TypeOK, Upgrade!Placed
    <3>3. Upgrade!Ours'
      BY <1>i, <2>1, <2>2, <2>5, <3>1 DEF Upgrade!Ours, Upgrade!Planned, Upgrade!At, Upgrade!Changes
    <3>4. Upgrade!Restorable'
      BY <1>i, <1>t, <2>1, <2>2, <2>5, <3>1 DEF Upgrade!Restorable, Upgrade!At
    <3>5. Upgrade!Tracked'
      <4>1. ASSUME ~uCrossed, ~uTorn, NEW q \in Upgrade!Processes
            PROVE  (Upgrade!Changes(q)' => q = "worker") /\ Upgrade!Where(q)'
        BY <2>1, <2>3, <2>5, <3>1, <4>1 DEF Upgrade!Changes, Upgrade!Where, Upgrade!At, Upgrade!Summary
      <4>2. Upgrade!Changes("worker")'
        BY <3>1 DEF Upgrade!Changes, Upgrade!At
      <4> QED BY <1>t, <2>1, <4>1, <4>2 DEF Upgrade!Tracked
    <3> QED BY <3>2, <3>3, <3>4, <3>5 DEF Upgrade!IInv
  <2>6. CASE /\ uCur = None /\ uCur' = uPrev /\ uPrev' = None /\ UNCHANGED <<uFresh, uSpare>>
             /\ IF uPrev = None THEN Upgrade!Ends("worker") ELSE Upgrade!Goto("worker", "record")
    <3>a. uPrev # None
      BY <1>i, <2>1, <2>6 DEF Upgrade!Restorable, Upgrade!At
    <3>1. /\ uProc' \in [Upgrade!Processes -> Upgrade!Entries]
          /\ uProc'["worker"].step = "record" /\ uProc'["worker"].plan = uProc["worker"].plan /\ uProc'["worker"].got = uProc["worker"].got
          /\ \A q \in Upgrade!Processes \ {"worker"} : uProc'[q] = uProc[q]
      BY <1>i, <1>s, <1>t, <2>6, <3>a, UpgradeGoto
    <3>2. Upgrade!TypeOK' /\ Upgrade!Placed'
      BY <1>i, <2>1, <2>2, <2>6, <3>1, <3>a DEF Upgrade!TypeOK, Upgrade!Placed
    <3>3. Upgrade!Ours'
      BY <1>i, <2>1, <2>2, <2>6, <3>1, <3>a DEF Upgrade!Ours, Upgrade!Planned, Upgrade!At, Upgrade!Changes
    <3>4. Upgrade!Restorable'
      BY <1>i, <1>t, <2>1, <2>2, <2>6, <3>1, <3>a DEF Upgrade!Restorable, Upgrade!At
    <3>5. Upgrade!Tracked'
      <4>1. ASSUME ~uCrossed, ~uTorn, NEW q \in Upgrade!Processes
            PROVE  (Upgrade!Changes(q)' => q = "worker") /\ Upgrade!Where(q)'
        BY <2>1, <2>3, <2>6, <3>1, <4>1 DEF Upgrade!Changes, Upgrade!Where, Upgrade!At, Upgrade!Summary
      <4>2. Upgrade!Changes("worker")'
        BY <3>1 DEF Upgrade!Changes, Upgrade!At
      <4> QED BY <1>t, <2>1, <4>1, <4>2 DEF Upgrade!Tracked
    <3> QED BY <3>2, <3>3, <3>4, <3>5 DEF Upgrade!IInv
  <2> QED BY <1>10, <2>4, <2>5, <2>6 DEF Upgrade!SwapOut
<1>11. CASE Upgrade!SwapIn
  <2>1. /\ uProc["worker"].step = "back" /\ UNCHANGED <<uRec, uFresh, uCrossed, uTorn, uLive>>
        /\ uFails' = uFails /\ uRung' = uRung /\ uPending' = uPending
    BY <1>11 DEF Upgrade!SwapIn, Upgrade!ladderVars, Upgrade!marks, Upgrade!At
  <2>2. Upgrade!Changes("worker") /\ uProc["worker"].plan.wire = Shipped.wire
    BY <1>i, <1>t, <2>1 DEF Upgrade!Changes, Upgrade!At, Upgrade!Ours, Upgrade!Planned
  <2>3. ~uCrossed /\ ~uTorn => /\ \A q \in Upgrade!Processes \ {"worker"} : ~Upgrade!Changes(q)
                               /\ uRec = Upgrade!Summary(uSpare) /\ uPrev # None /\ uProc["worker"].plan = Upgrade!Summary(uPrev)
    BY <1>i, <1>t, <2>1, <2>2 DEF Upgrade!Tracked, Upgrade!Where, Upgrade!At
  <2>s. uSpare # None
    BY <1>i, <2>1 DEF Upgrade!Restorable, Upgrade!At
  <2>4. CASE uPrev # None /\ uCur' = uPrev /\ uPrev' = None /\ Upgrade!Goto("worker", "keep") /\ UNCHANGED uSpare
    <3>1. /\ uProc' \in [Upgrade!Processes -> Upgrade!Entries]
          /\ uProc'["worker"].step = "keep" /\ uProc'["worker"].plan = uProc["worker"].plan /\ uProc'["worker"].got = uProc["worker"].got
          /\ \A q \in Upgrade!Processes \ {"worker"} : uProc'[q] = uProc[q]
      BY <1>i, <1>s, <1>t, <2>4, UpgradeGoto
    <3>2. Upgrade!TypeOK' /\ Upgrade!Placed'
      BY <1>i, <2>1, <2>2, <2>4, <2>s, <3>1 DEF Upgrade!TypeOK, Upgrade!Placed
    <3>3. Upgrade!Ours'
      BY <1>i, <2>1, <2>2, <2>4, <2>s, <3>1 DEF Upgrade!Ours, Upgrade!Planned, Upgrade!At, Upgrade!Changes
    <3>4. Upgrade!Restorable'
      BY <1>i, <1>t, <2>1, <2>2, <2>4, <2>s, <3>1 DEF Upgrade!Restorable, Upgrade!At
    <3>5. Upgrade!Tracked'
      <4>1. ASSUME ~uCrossed, ~uTorn, NEW q \in Upgrade!Processes
            PROVE  (Upgrade!Changes(q)' => q = "worker") /\ Upgrade!Where(q)'
        BY <2>1, <2>3, <2>4, <3>1, <4>1 DEF Upgrade!Changes, Upgrade!Where, Upgrade!At, Upgrade!Summary
      <4>2. Upgrade!Changes("worker")'
        BY <3>1 DEF Upgrade!Changes, Upgrade!At
      <4> QED BY <1>t, <2>1, <4>1, <4>2 DEF Upgrade!Tracked
    <3> QED BY <3>2, <3>3, <3>4, <3>5 DEF Upgrade!IInv
  <2>5. CASE uCur' = uSpare /\ uSpare' = None /\ Upgrade!Ends("worker") /\ UNCHANGED uPrev
    <3>1. /\ uProc' \in [Upgrade!Processes -> Upgrade!Entries] /\ uProc'["worker"].step = "idle"
          /\ \A q \in Upgrade!Processes \ {"worker"} : uProc'[q] = uProc[q]
      BY <1>i, <1>t, <2>5, UpgradeEnds
    <3>2. Upgrade!TypeOK' /\ Upgrade!Placed'
      BY <1>i, <2>1, <2>2, <2>5, <2>s, <3>1 DEF Upgrade!TypeOK, Upgrade!Placed
    <3>3. Upgrade!Ours'
      BY <1>i, <2>1, <2>2, <2>5, <2>s, <3>1 DEF Upgrade!Ours, Upgrade!Planned, Upgrade!At, Upgrade!Changes
    <3>4. Upgrade!Restorable'
      BY <1>i, <1>t, <2>1, <2>2, <2>5, <2>s, <3>1 DEF Upgrade!Restorable, Upgrade!At
    <3>5. Upgrade!Tracked'
      <4>1. ASSUME ~uCrossed, ~uTorn, NEW q \in Upgrade!Processes
            PROVE  ~Upgrade!Changes(q)' /\ Upgrade!Where(q)'
        BY <2>1, <2>3, <3>1, <4>1 DEF Upgrade!Changes, Upgrade!Where, Upgrade!At
      <4> QED BY <2>1, <2>3, <2>5, <4>1 DEF Upgrade!Tracked, Upgrade!Summary
    <3> QED BY <3>2, <3>3, <3>4, <3>5 DEF Upgrade!IInv
  <2> QED BY <1>11, <2>4, <2>5 DEF Upgrade!SwapIn
<1>12. CASE Upgrade!SwapKeep
  <2>1. /\ uProc["worker"].step = "keep" /\ UNCHANGED <<uRec, uCur, uFresh, uCrossed, uLive>>
        /\ uFails' = uFails /\ uRung' = uRung /\ uPending' = uPending
    BY <1>12 DEF Upgrade!SwapKeep, Upgrade!ladderVars, Upgrade!marks, Upgrade!At
  <2>2. Upgrade!Changes("worker") /\ uProc["worker"].plan.wire = Shipped.wire
    BY <1>i, <1>t, <2>1 DEF Upgrade!Changes, Upgrade!At, Upgrade!Ours, Upgrade!Planned
  <2>3. ~uCrossed /\ ~uTorn => /\ \A q \in Upgrade!Processes \ {"worker"} : ~Upgrade!Changes(q)
                               /\ uProc["worker"].plan = Upgrade!Summary(uCur)
    BY <1>i, <1>t, <2>1, <2>2 DEF Upgrade!Tracked, Upgrade!Where, Upgrade!At
  <2>s. uSpare # None
    BY <1>i, <2>1 DEF Upgrade!Restorable, Upgrade!At
  <2>4. CASE uPrev' = uSpare /\ uSpare' = None /\ Upgrade!Goto("worker", "record") /\ UNCHANGED uTorn
    <3>1. /\ uProc' \in [Upgrade!Processes -> Upgrade!Entries]
          /\ uProc'["worker"].step = "record" /\ uProc'["worker"].plan = uProc["worker"].plan /\ uProc'["worker"].got = uProc["worker"].got
          /\ \A q \in Upgrade!Processes \ {"worker"} : uProc'[q] = uProc[q]
      BY <1>i, <1>s, <1>t, <2>4, UpgradeGoto
    <3>2. Upgrade!TypeOK' /\ Upgrade!Placed'
      BY <1>i, <2>1, <2>2, <2>4, <2>s, <3>1 DEF Upgrade!TypeOK, Upgrade!Placed
    <3>3. Upgrade!Ours'
      BY <1>i, <2>1, <2>2, <2>4, <2>s, <3>1 DEF Upgrade!Ours, Upgrade!Planned, Upgrade!At, Upgrade!Changes
    <3>4. Upgrade!Restorable'
      BY <1>i, <1>t, <2>1, <2>2, <2>4, <2>s, <3>1 DEF Upgrade!Restorable, Upgrade!At
    <3>5. Upgrade!Tracked'
      <4>1. ASSUME ~uCrossed, ~uTorn, NEW q \in Upgrade!Processes
            PROVE  (Upgrade!Changes(q)' => q = "worker") /\ Upgrade!Where(q)'
        BY <2>1, <2>3, <2>4, <3>1, <4>1 DEF Upgrade!Changes, Upgrade!Where, Upgrade!At, Upgrade!Summary
      <4>2. Upgrade!Changes("worker")'
        BY <3>1 DEF Upgrade!Changes, Upgrade!At
      <4> QED BY <1>t, <2>1, <2>4, <4>1, <4>2 DEF Upgrade!Tracked
    <3> QED BY <3>2, <3>3, <3>4, <3>5 DEF Upgrade!IInv
  <2>5. CASE uTorn' = TRUE /\ Upgrade!Ends("worker") /\ UNCHANGED <<uPrev, uSpare>>
    <3>1. /\ uProc' \in [Upgrade!Processes -> Upgrade!Entries] /\ uProc'["worker"].step = "idle"
          /\ \A q \in Upgrade!Processes \ {"worker"} : uProc'[q] = uProc[q]
      BY <1>i, <1>t, <2>5, UpgradeEnds
    <3>2. Upgrade!TypeOK' /\ Upgrade!Placed'
      BY <1>i, <2>1, <2>2, <2>5, <3>1 DEF Upgrade!TypeOK, Upgrade!Placed
    <3>3. Upgrade!Ours'
      BY <1>i, <2>1, <2>2, <2>5, <3>1 DEF Upgrade!Ours, Upgrade!Planned, Upgrade!At, Upgrade!Changes
    <3>4. Upgrade!Restorable'
      BY <1>i, <1>t, <2>1, <2>2, <2>5, <3>1 DEF Upgrade!Restorable, Upgrade!At
    <3>5. Upgrade!Tracked'
      BY <2>5 DEF Upgrade!Tracked
    <3> QED BY <3>2, <3>3, <3>4, <3>5 DEF Upgrade!IInv
  <2> QED BY <1>12, <2>4, <2>5 DEF Upgrade!SwapKeep
<1>13. ASSUME NEW p \in Upgrade!Processes, Upgrade!Record(p)
       PROVE  Upgrade!IInv'
  <2>1. /\ uProc[p].step = "record" /\ UNCHANGED <<uCur, uPrev, uFresh, uSpare, uCrossed, uTorn, uLive>>
        /\ uFails' = uFails /\ uRung' = uRung /\ uPending' = uPending /\ uRec' = uProc[p].plan
        /\ Upgrade!Goto(p, "reload")
    BY <1>13 DEF Upgrade!Record, Upgrade!ladderVars, Upgrade!marks, Upgrade!files, Upgrade!At
  <2>2. Upgrade!Changes(p) /\ uProc[p].plan.wire = Shipped.wire
    BY <1>i, <2>1 DEF Upgrade!Changes, Upgrade!At, Upgrade!Ours, Upgrade!Planned
  <2>3. ~uCrossed /\ ~uTorn => /\ \A q \in Upgrade!Processes \ {p} : ~Upgrade!Changes(q)
                               /\ uProc[p].plan = Upgrade!Summary(uCur)
    BY <1>i, <2>1, <2>2 DEF Upgrade!Tracked, Upgrade!Where, Upgrade!At
  <2>4. Upgrade!IInv'
    <3>1. /\ uProc' \in [Upgrade!Processes -> Upgrade!Entries]
          /\ uProc'[p].step = "reload" /\ uProc'[p].plan = uProc[p].plan /\ uProc'[p].got = uProc[p].got
          /\ \A q \in Upgrade!Processes \ {p} : uProc'[q] = uProc[q]
      BY <1>i, <1>s, <2>1, UpgradeGoto
    <3>2. Upgrade!TypeOK' /\ Upgrade!Placed'
      BY <1>i, <2>1, <2>2, <3>1 DEF Upgrade!TypeOK, Upgrade!Placed
    <3>3. Upgrade!Ours'
      BY <1>i, <2>1, <2>2, <3>1 DEF Upgrade!Ours, Upgrade!Planned, Upgrade!At, Upgrade!Changes
    <3>4. Upgrade!Restorable'
      BY <1>i, <1>t, <2>1, <2>2, <3>1 DEF Upgrade!Restorable, Upgrade!At
    <3>5. Upgrade!Tracked'
      <4>1. ASSUME ~uCrossed, ~uTorn, NEW q \in Upgrade!Processes
            PROVE  ~Upgrade!Changes(q)' /\ Upgrade!Where(q)'
        BY <2>1, <2>3, <3>1, <4>1 DEF Upgrade!Changes, Upgrade!Where, Upgrade!At
      <4> QED BY <2>1, <2>3, <4>1 DEF Upgrade!Tracked, Upgrade!Summary
    <3> QED BY <3>2, <3>3, <3>4, <3>5 DEF Upgrade!IInv
  <2> QED BY <2>4
<1>14. ASSUME NEW p \in Upgrade!Processes, Upgrade!Reload(p)
       PROVE  Upgrade!IInv'
  <2>1. /\ UNCHANGED <<uRec, uCur, uPrev, uFresh, uSpare, uCrossed, uTorn>> /\ ~Upgrade!Changes(p)
        /\ Upgrade!Ends(p) /\ uLive' \in {uLive, uCur}
    BY <1>14 DEF Upgrade!Reload, Upgrade!marks, Upgrade!files, Upgrade!Changes, Upgrade!At
  <2>2. Upgrade!TypeOK'
    BY <1>i, <1>14 DEF Upgrade!Reload, Upgrade!marks, Upgrade!files, Upgrade!ladderVars, Upgrade!TypeOK
  <2>3. /\ uProc' \in [Upgrade!Processes -> Upgrade!Entries] /\ uProc'[p].step = "idle"
        /\ \A q \in Upgrade!Processes \ {p} : uProc'[q] = uProc[q]
    BY <1>i, <2>1, UpgradeEnds
  <2> QED BY <2>1, <2>2, <2>3, UpgradeQuiet
<1>15. CASE Upgrade!Restart
  <2>1. /\ UNCHANGED <<uCur, uPrev, uFresh, uSpare, uCrossed>> /\ uCur # None /\ uLive' = uCur
        /\ uRec' = Upgrade!Summary(uCur) /\ uFails' = 0 /\ uRung' = 0 /\ uPending' = "none"
        /\ uProc' = [p \in Upgrade!Processes |-> Upgrade!Idle] /\ uTorn' \in BOOLEAN
    BY <1>i, <1>15 DEF Upgrade!Restart, Upgrade!files, Upgrade!Placed
  <2>2. \A p \in Upgrade!Processes : uProc'[p] = Upgrade!Idle /\ uProc'[p].step = "idle" /\ Upgrade!Idle \in Upgrade!Entries
    BY <2>1 DEF Upgrade!Idle, Upgrade!Entries, Upgrade!Steps, Upgrade!Plans
  <2>3. Upgrade!TypeOK' /\ Upgrade!Placed'
    BY <1>i, <1>0, <2>1, <2>2 DEF Upgrade!TypeOK, Upgrade!Placed, Upgrade!Rungs
  <2>4. Upgrade!Ours'
    BY <1>i, <2>1, <2>2 DEF Upgrade!Ours, Upgrade!Planned, Upgrade!At, Upgrade!Changes, Upgrade!Summary
  <2>5. Upgrade!Restorable'
    BY <1>i, <1>t, <2>1, <2>2 DEF Upgrade!Restorable, Upgrade!At
  <2>6. Upgrade!Tracked'
    BY <2>1, <2>2 DEF Upgrade!Tracked, Upgrade!Where, Upgrade!Changes, Upgrade!At, Upgrade!Summary
  <2> QED BY <2>3, <2>4, <2>5, <2>6 DEF Upgrade!IInv
<1> QED BY <1>1, <1>2, <1>3, <1>4, <1>5, <1>6, <1>7, <1>8, <1>9, <1>10, <1>11, <1>12, <1>13, <1>14, <1>15 DEF Upgrade!Next,
  Upgrade!WorkerStep, Upgrade!ProcessStep

\* While nothing happens to an updater, its invariant stays.
LEMMA UpgradeRests ==
    ASSUME Upgrade!IInv, UNCHANGED upgradeVars
    PROVE  Upgrade!IInv'
<1>0. UNCHANGED <<uFails, uRung, uRunning, uPending, uProc, uRec, uCur, uPrev, uFresh, uSpare, uLive, uCrossed, uTorn,
        uCrashes>>
  BY DEF upgradeVars
<1>1. Upgrade!TypeOK'
  BY <1>0 DEF Upgrade!IInv, Upgrade!TypeOK, Upgrade!Rungs
<1>2. Upgrade!Placed'
  BY <1>0 DEF Upgrade!IInv, Upgrade!Placed, Upgrade!Plans, Upgrade!Processes, Upgrade!At, Upgrade!Entries, Upgrade!Steps
<1>3. Upgrade!Ours'
  BY <1>0 DEF Upgrade!IInv, Upgrade!Ours, Upgrade!Processes, Upgrade!Planned, Upgrade!At, Upgrade!Changes
<1>4. Upgrade!Restorable'
  BY <1>0 DEF Upgrade!IInv, Upgrade!Restorable, Upgrade!Processes, Upgrade!At
<1>5. Upgrade!Tracked'
  BY <1>0 DEF Upgrade!IInv, Upgrade!Tracked, Upgrade!Processes, Upgrade!At, Upgrade!Changes, Upgrade!Where, Upgrade!Summary
<1> QED BY <1>1, <1>2, <1>3, <1>4, <1>5 DEF Upgrade!IInv

\* What the updater's invariant says of the properties.
LEMMA UpgradePromise ==
    ASSUME Upgrade!IInv
    PROVE  Upgrade!TypeOK /\ Upgrade!OnlyOurs /\ Upgrade!NeverWithout /\ Upgrade!RecordTrue
<1>1. Upgrade!OnlyOurs
  BY DEF Upgrade!IInv, Upgrade!Ours, Upgrade!OnlyOurs
<1>2. Upgrade!NeverWithout
  BY DEF Upgrade!IInv, Upgrade!Restorable, Upgrade!NeverWithout, Upgrade!Processes
<1>3. Upgrade!RecordTrue
  BY DEF Upgrade!IInv, Upgrade!Tracked, Upgrade!RecordTrue
<1> QED BY <1>1, <1>2, <1>3 DEF Upgrade!IInv

\* Before the first failure of a streak no rung was reached.
Unclimbed == uFails = 0 => uRung = 0

\* Only a failure climbs, from where the ladder stands or, of a new streak, from the
\* ground; what it asks for is the rung it reached.
LEMMA UpgradeClimbs ==
    ASSUME Upgrade!IInv, Unclimbed, Upgrade!Next \/ UNCHANGED upgradeVars
    PROVE  Unclimbed' /\ (uFails' > uFails /\ uPending' # uPending /\ uPending' # "none" => uRung' > uRung)
<1>t. uFails \in Nat /\ uRung \in 0..3
  BY UpgradeAssumption DEF Upgrade!IInv, Upgrade!TypeOK, Upgrade!Rungs
<1>1. CASE Upgrade!Failed
  <2>1. PICK n, r :
          /\ \/ n = 1 /\ r = 0
             \/ n = uFails + 1 /\ r = uRung
          /\ uFails' = n
          /\ uRung' = IF Upgrade!Step(n, r) > 0 THEN Upgrade!Step(n, r) ELSE r
          /\ Upgrade!Step(n, r) > 0 \/ uPending' = uPending
    <3> PICK anew \in BOOLEAN :
          LET n == IF anew THEN 1 ELSE uFails + 1
              r == IF anew THEN 0 ELSE uRung
          IN  /\ uFails' = n
              /\ uRung' = IF Upgrade!Step(n, r) > 0 THEN Upgrade!Step(n, r) ELSE r
              /\ Upgrade!Step(n, r) > 0 \/ uPending' = uPending
      BY <1>1 DEF Upgrade!Failed
    <3> QED OBVIOUS
  <2>2. n \in Nat /\ n > 0 /\ r \in 0..3
    BY <1>t, <2>1
  <2>3. Upgrade!Step(n, r) > 0 => Upgrade!Step(n, r) > r
    BY <2>2 DEF Upgrade!Step
  <2>4. uFails' > uFails => r = uRung
    BY <1>t, <2>1 DEF Unclimbed
  <2> QED BY <1>t, <2>1, <2>2, <2>3, <2>4 DEF Unclimbed
<1>2. CASE Upgrade!Restart
  BY <1>t, <1>2 DEF Upgrade!Restart, Unclimbed
<1>3. CASE uFails' = uFails /\ uRung' = uRung
  BY <1>t, <1>3 DEF Unclimbed
<1>4. Upgrade!Failed \/ Upgrade!Restart \/ (uFails' = uFails /\ uRung' = uRung)
  <2>1. CASE UNCHANGED upgradeVars
    BY <2>1 DEF upgradeVars
  <2>2. CASE Upgrade!WorkerStep
    BY <2>2 DEF Upgrade!WorkerStep, Upgrade!Work, Upgrade!Rollback, Upgrade!SwapOut, Upgrade!SwapIn, Upgrade!SwapKeep,
      Upgrade!ladderVars
  <2>3. CASE Upgrade!CheckAll
    BY <2>3 DEF Upgrade!CheckAll, Upgrade!ladderVars
  <2>4. ASSUME NEW p \in Upgrade!Processes, Upgrade!ProcessStep(p) PROVE uFails' = uFails /\ uRung' = uRung
    BY <2>4 DEF Upgrade!ProcessStep, Upgrade!Check, Upgrade!Fetch, Upgrade!WriteFresh, Upgrade!MoveAway, Upgrade!Promote,
      Upgrade!Record, Upgrade!Reload, Upgrade!ladderVars
  <2> QED BY <2>1, <2>2, <2>3, <2>4 DEF Upgrade!Next
<1> QED BY <1>1, <1>2, <1>3, <1>4

-----------------------------------------------------------------------------
\* The panel's settings and who may change them (PanelAccess)

CONSTANTS
    \* of PanelAccess: its Scenes, Requests and MaxCrashes
    AccessScenes, Clients, MaxKilled

\* What a request sets is its number; the panel begins with none.
ASSUME AccessAssumption == Clients \subseteq Nat \ {0} /\ None \notin Clients

VARIABLES
    xScene, xSamePort, xSettings, xDisk, xCred, xSplit, xTokens, xReq, xLock,
    xJob, xJobLock, xIssuer, xListening, xStranded, xGone, xCrashes

accessVars ==
    <<xScene, xSamePort, xSettings, xDisk, xCred, xSplit, xTokens, xReq, xLock,
    xJob, xJobLock, xIssuer, xListening, xStranded, xGone, xCrashes>>

Access == INSTANCE PanelAccess WITH
    scene <- xScene, samePort <- xSamePort, settings <- xSettings,
    disk <- xDisk, cred <- xCred, split <- xSplit, tokens <- xTokens,
    req <- xReq, lock <- xLock, job <- xJob, jobLock <- xJobLock,
    issuer <- xIssuer, listening <- xListening, stranded <- xStranded,
    gone <- xGone, crashes <- xCrashes, Scenes <- AccessScenes,
    Requests <- Clients, SamePort <- BOOLEAN, MaxCrashes <- MaxKilled

\* The invariant of the settings holds when the panel starts.
LEMMA AccessInit == Access!Init => Access!IInv
<1> SUFFICES ASSUME Access!Init
             PROVE  Access!IInv
  OBVIOUS
<1>0. Clients \subseteq Nat \ {0} /\ None \notin Clients
  BY AccessAssumption
<1> USE DEF Access!Init
<1>1. Access!First \in Access!Settings /\ Access!First.account = 0 /\ Access!First.path = 0
  BY DEF Access!First, Access!Settings, Access!Numbers
<1>2. Access!Typed
  BY <1>1 DEF Access!Typed, Access!Fresh, Access!Early, Access!Numbers, Access!Holding
<1>3. Access!AtRest
  BY <1>1 DEF Access!AtRest, Access!Current, Access!Listens, Access!Kept
<1>4. Access!Changes
  BY <1>0 DEF Access!Changes, Access!Fresh, Access!Holding
<1>5. Access!News
  BY <1>0, <1>1 DEF Access!News, Access!Unused
<1>6. Access!Jobs /\ Access!JobHonest
  BY DEF Access!Jobs, Access!JobHonest, Access!NoJob, Access!Fresh, Access!Numbers
<1>7. Access!NeverBack
  BY DEF Access!NeverBack
<1> QED BY <1>2, <1>3, <1>4, <1>5, <1>6, <1>7 DEF Access!IInv

\* What a request's step does to where the requests are.
LEMMA AccessGoes ==
    ASSUME Access!Typed, NEW r \in Clients, NEW at \in Access!Early \cup Access!Holding \cup Access!Ends,
           xReq' = [xReq EXCEPT ![r].at = at]
    PROVE  /\ xReq' \in [Clients -> [at : Access!Early \cup Access!Holding \cup Access!Ends,
                                     seen : Access!Settings \cup {None}, next : Access!Settings \cup {None},
                                     was : Access!Settings \cup {None}]]
           /\ xReq'[r].at = at /\ xReq'[r].seen = xReq[r].seen /\ xReq'[r].next = xReq[r].next /\ xReq'[r].was = xReq[r].was
           /\ \A q \in Clients \ {r} : xReq'[q] = xReq[q]
BY DEF Access!Typed

\* An answer gives up what the request has of the settings and of the job.
LEMMA AccessAnswer ==
    ASSUME Access!IInv, NEW r \in Clients, NEW ok \in BOOLEAN, UNCHANGED xScene,
           Access!Answer(r, ok, xReq[r])
    PROVE  /\ Access!Jobs' /\ Access!JobHonest' /\ xLock' = None
           /\ xReq' \in [Clients -> [at : Access!Early \cup Access!Holding \cup Access!Ends,
                                     seen : Access!Settings \cup {None}, next : Access!Settings \cup {None},
                                     was : Access!Settings \cup {None}]]
           /\ xReq'[r].at \in {"ok", "refused"} /\ \A q \in Clients \ {r} : xReq'[q] = xReq[q]
<1>i. Access!Typed /\ Access!Jobs /\ Access!JobHonest /\ None \notin Clients
  BY AccessAssumption DEF Access!IInv
<1>1. PICK at \in {"ok", "refused"} : xReq' = [xReq EXCEPT ![r].at = at]
  <2>1. xReq' = [xReq EXCEPT ![r] = [xReq[r] EXCEPT !.at = IF ok THEN "ok" ELSE "refused"]]
    BY DEF Access!Answer
  <2>2. xReq' = [xReq EXCEPT ![r].at = IF ok THEN "ok" ELSE "refused"]
    BY <2>1
  <2> QED BY <2>2
<1>2. at \in Access!Early \cup Access!Holding \cup Access!Ends
  BY DEF Access!Ends
<1>3. /\ xReq' \in [Clients -> [at : Access!Early \cup Access!Holding \cup Access!Ends,
                                     seen : Access!Settings \cup {None}, next : Access!Settings \cup {None},
                                     was : Access!Settings \cup {None}]]
      /\ xReq'[r].at \in {"ok", "refused"} /\ \A q \in Clients \ {r} : xReq'[q] = xReq[q]
  BY <1>i, <1>1, <1>2, AccessGoes
<1>4. xJobLock' = IF xJobLock = r THEN None ELSE xJobLock
  BY DEF Access!Answer, Access!Freed
<1>5. /\ xIssuer' = xIssuer
      /\ xJob' = IF xJobLock = r THEN [xJob EXCEPT !.state = IF ok THEN "applied" ELSE "failed"] ELSE xJob
  BY DEF Access!Answer
<1>6. CASE xJobLock = r
  <2>1. xJob.state = "ready" /\ xJob' \in [id : Access!Numbers, state : {"none", "issuing", "ready", "applied", "failed"},
                previous : Access!Settings \cup {None}, next : Access!Settings \cup {None}]
        /\ xJob'.state \in {"applied", "failed"} /\ xIssuer.at # "issues"
    BY <1>i, <1>5, <1>6 DEF Access!Jobs, Access!JobHonest
  <2>2. \A q \in Clients : xReq'[q].at # "holds"
    BY <1>i, <1>3, <1>6 DEF Access!Jobs
  <2> QED BY <1>i, <1>3, <1>4, <1>5, <1>6, <2>1, <2>2 DEF Access!Jobs, Access!JobHonest, Access!Answer
<1>7. CASE xJobLock # r
  <2>1. UNCHANGED <<xJob, xJobLock, xIssuer>>
    BY <1>4, <1>5, <1>7
  <2>2. \A q \in Clients : xReq'[q].at = "holds" => xReq[q].at = "holds"
    BY <1>3
  <2> QED BY <1>i, <1>3, <2>1, <2>2 DEF Access!Jobs, Access!JobHonest, Access!Kind, Access!Answer
<1> QED BY <1>3, <1>6, <1>7 DEF Access!Answer

\* While the job stays, one that begins to hold nothing keeps what is known of it.
LEMMA AccessJobRests ==
    ASSUME Access!Jobs, Access!JobHonest, UNCHANGED <<xScene, xJob, xJobLock, xIssuer>>,
           \A q \in Clients : xReq'[q].at = "holds" => xReq[q].at = "holds"
    PROVE  Access!Jobs' /\ Access!JobHonest'
BY DEF Access!Jobs, Access!JobHonest, Access!Kind

\* A request that changes no settings keeps the invariant.
LEMMA AccessQuiet ==
    ASSUME Access!IInv, NEW r \in Clients,
           xReq' \in [Clients -> [at : Access!Early \cup Access!Holding \cup Access!Ends,
                                  seen : Access!Settings \cup {None}, next : Access!Settings \cup {None},
                                  was : Access!Settings \cup {None}]],
           \A q \in Clients \ {r} : xReq'[q] = xReq[q],
           xReq[r].at \in Access!Early \cup Access!Ends, xReq'[r].at \in Access!Early \cup Access!Ends,
           xReq'[r].at \in Access!Early \ {"new"} => xReq[r].at \in Access!Early /\ xReq'[r].seen \in Access!Settings,
           xReq'[r].at # "new",
           UNCHANGED <<xScene, xSettings, xDisk, xCred, xSplit, xGone, xLock, xListening, xStranded>>,
           \A t \in xTokens' : t \in xTokens \/ (xLock = None /\ t.account = xSettings.account /\ t.path = xSettings.path),
           Access!Jobs', Access!JobHonest'
    PROVE  Access!IInv'
<1>i. Access!Typed /\ Access!AtRest /\ Access!Changes /\ Access!News /\ Access!NeverBack /\ None \notin Clients
  BY AccessAssumption DEF Access!IInv
<1>1. Access!Typed'
  BY <1>i DEF Access!Typed, Access!Early, Access!Holding, Access!Ends
<1>2. Access!AtRest'
  BY <1>i DEF Access!AtRest, Access!Current, Access!Listens, Access!Kept
<1>3. Access!Changes'
  <2>1. \A q \in Clients : xReq'[q].at \in Access!Holding <=> xReq[q].at \in Access!Holding
    BY DEF Access!Early, Access!Holding, Access!Ends
  <2>2. ASSUME NEW q \in Clients, xLock' = q
        PROVE  Access!Changing(q)'
    <3>1. xReq[q].at \in Access!Holding /\ Access!Changing(q) /\ q # r /\ xReq'[q] = xReq[q] /\ xLock # None
      BY <1>i, <2>2 DEF Access!Changes, Access!Early, Access!Holding, Access!Ends
    <3>4. \A s : Access!Current(s) => \A t \in xTokens' : t.account = s.account /\ t.path = s.path
      BY <3>1 DEF Access!Current
    <3> QED BY <3>1, <3>4 DEF Access!Changing, Access!Listens, Access!Kept, Access!Account, Access!Kind, Access!Current
  <2> QED BY <1>i, <2>1, <2>2 DEF Access!Changes
<1>4. Access!News' /\ Access!NeverBack'
  <2>1. \A q \in Clients : xReq'[q].at \in (Access!Early \cup Access!Holding) \ {"clear"}
                           => xReq[q].at \in (Access!Early \cup Access!Holding) \ {"clear"}
    BY DEF Access!Early, Access!Holding, Access!Ends
  <2> QED BY <1>i, <2>1 DEF Access!News, Access!NeverBack, Access!Unused
<1> QED BY <1>1, <1>2, <1>3, <1>4 DEF Access!IInv

\* The settings are as they should be once a request has answered.
LEMMA AccessReleases ==
    ASSUME Access!IInv, NEW r \in Clients, NEW ok \in BOOLEAN, UNCHANGED <<xScene, xSettings, xGone>>,
           Access!Answer(r, ok, xReq[r]), xLock \in {None, r},
           xDisk' = xSettings, xCred' \in Access!Numbers, xSplit' \in BOOLEAN, xStranded' \in BOOLEAN,
           xCred' = xSettings.account \/ xSplit', xListening' = xSettings.net \/ xStranded',
           \A t \in xTokens' : t.account = xSettings.account /\ t.path = xSettings.path
    PROVE  Access!IInv'
<1>i. Access!Typed /\ Access!AtRest /\ Access!Changes /\ Access!News /\ Access!NeverBack /\ None \notin Clients
  BY AccessAssumption DEF Access!IInv
<1>a. /\ Access!Jobs' /\ Access!JobHonest' /\ xLock' = None
      /\ xReq' \in [Clients -> [at : Access!Early \cup Access!Holding \cup Access!Ends,
                                seen : Access!Settings \cup {None}, next : Access!Settings \cup {None},
                                was : Access!Settings \cup {None}]]
      /\ xReq'[r].at \in {"ok", "refused"} /\ \A q \in Clients \ {r} : xReq'[q] = xReq[q]
  BY AccessAnswer
<1>1. Access!Typed'
  BY <1>i, <1>a DEF Access!Typed, Access!Early, Access!Holding
<1>2. Access!AtRest'
  BY <1>i, <1>a DEF Access!AtRest, Access!Current, Access!Listens, Access!Kept
<1>3. Access!Changes'
  BY <1>i, <1>a DEF Access!Changes, Access!Holding
<1>4. Access!News' /\ Access!NeverBack'
  <2>1. \A q \in Clients : xReq'[q].at \in (Access!Early \cup Access!Holding) \ {"clear"}
                           => xReq[q].at \in (Access!Early \cup Access!Holding) \ {"clear"}
    BY <1>a DEF Access!Early, Access!Holding
  <2> QED BY <1>i, <2>1 DEF Access!News, Access!NeverBack, Access!Unused
<1> QED BY <1>a, <1>1, <1>2, <1>3, <1>4 DEF Access!IInv

\* The request that has the settings goes on.
LEMMA AccessHolds ==
    ASSUME Access!IInv, NEW r \in Clients, xLock' = r, xLock \in {None, r},
           xReq' \in [Clients -> [at : Access!Early \cup Access!Holding \cup Access!Ends,
                                  seen : Access!Settings \cup {None}, next : Access!Settings \cup {None},
                                  was : Access!Settings \cup {None}]],
           \A q \in Clients \ {r} : xReq'[q] = xReq[q],
           xReq'[r].at \in Access!Holding, xReq'[r].seen \in Access!Settings,
           xReq[r].at \in (Access!Early \cup Access!Holding) \ {"clear"},
           xSettings' \in Access!Settings, xDisk' \in Access!Settings, xCred' \in Access!Numbers,
           xSplit' \in BOOLEAN, xStranded' \in BOOLEAN,
           UNCHANGED <<xScene, xJob, xJobLock, xIssuer>>,
           Access!Changing(r)', Access!NeverBack',
           \A q \in Clients : q # r \/ xReq'[r].at # "clear" => (Access!Unused(q) => Access!Unused(q)')
    PROVE  Access!IInv'
<1>i. /\ Access!Typed /\ Access!Changes /\ Access!News /\ Access!Jobs /\ Access!JobHonest
      /\ None \notin Clients
  BY AccessAssumption DEF Access!IInv
<1>1. Access!Typed'
  BY <1>i DEF Access!Typed, Access!Early, Access!Holding
<1>2. Access!AtRest'
  BY <1>i DEF Access!AtRest
<1>3. Access!Changes'
  <2>1. \A q \in Clients \ {r} : xReq[q].at \notin Access!Holding
    BY <1>i DEF Access!Changes
  <2> QED BY <2>1 DEF Access!Changes
<1>4. Access!News'
  <2>1. \A q \in Clients : xReq'[q].at \in (Access!Early \cup Access!Holding) \ {"clear"}
                           => /\ xReq[q].at \in (Access!Early \cup Access!Holding) \ {"clear"}
                              /\ q # r \/ xReq'[r].at # "clear"
    OBVIOUS
  <2> QED BY <1>i, <2>1 DEF Access!News
<1>5. Access!Jobs' /\ Access!JobHonest'
  <2>1. \A q \in Clients : xReq'[q].at = "holds" => xReq[q].at = "holds"
    BY DEF Access!Holding
  <2> QED BY <1>i, <2>1, AccessJobRests
<1> QED BY <1>1, <1>2, <1>3, <1>4, <1>5 DEF Access!IInv

\* Whatever requests, the issuer of certificates and the files do, the invariant stays.
LEMMA AccessStep ==
    ASSUME Access!IInv, Access!Next
    PROVE  Access!IInv'
<1>0. Clients \subseteq Nat \ {0} /\ None \notin Clients
  BY AccessAssumption
<1>i. /\ Access!Typed /\ Access!AtRest /\ Access!Changes /\ Access!News /\ Access!Jobs
      /\ Access!NeverBack /\ Access!JobHonest
  BY DEF Access!IInv
<1>t. xReq \in [Clients -> [at : Access!Early \cup Access!Holding \cup Access!Ends,
                            seen : Access!Settings \cup {None}, next : Access!Settings \cup {None},
                            was : Access!Settings \cup {None}]]
      /\ xSettings \in Access!Settings /\ xDisk \in Access!Settings /\ xCred \in Access!Numbers
      /\ xSplit \in BOOLEAN /\ xStranded \in BOOLEAN
  BY <1>i DEF Access!Typed
<1>s. /\ {"seen", "read", "holds", "apply", "write", "file", "set", "clear", "ok", "done", "refused", "lost"}
           \subseteq Access!Early \cup Access!Holding \cup Access!Ends
      /\ \A at \in Access!Early \cup Access!Ends : at \notin Access!Holding
  BY DEF Access!Early, Access!Holding, Access!Ends
<1>1. ASSUME NEW r \in Clients, Access!Begin(r)
      PROVE  Access!IInv'
  <2>e. /\ xReq[r].at = "new" /\ xReq' = [xReq EXCEPT ![r] = [xReq[r] EXCEPT !.at = "seen", !.seen = xSettings]]
        /\ UNCHANGED <<xScene, xSettings, xDisk, xCred, xSplit, xGone, xLock, xListening, xStranded, xTokens,
                       xJob, xJobLock, xIssuer>>
    BY <1>1 DEF Access!Begin, Access!reqRest, Access!fixed, Access!settingVars, Access!hostVars, Access!jobVars
  <2>1. /\ xReq' \in [Clients -> [at : Access!Early \cup Access!Holding \cup Access!Ends,
                                  seen : Access!Settings \cup {None}, next : Access!Settings \cup {None},
                                  was : Access!Settings \cup {None}]]
        /\ xReq'[r].at = "seen" /\ xReq'[r].seen = xSettings
        /\ \A q \in Clients \ {r} : xReq'[q] = xReq[q]
    BY <1>s, <1>t, <2>e
  <2>2. Access!Jobs' /\ Access!JobHonest'
    <3>1. \A q \in Clients : xReq'[q].at = "holds" => xReq[q].at = "holds"
      BY <2>1
    <3> QED BY <1>i, <2>e, <3>1, AccessJobRests
  <2> QED BY <1>t, <2>e, <2>1, <2>2, AccessQuiet DEF Access!Early
<1>2. ASSUME NEW r \in Clients, Access!Route(r)
      PROVE  Access!IInv'
  <2>e. /\ xReq[r].at = "seen"
        /\ UNCHANGED <<xScene, xSettings, xDisk, xCred, xSplit, xGone, xLock, xListening, xStranded, xTokens,
                       xJob, xJobLock, xIssuer>>
    BY <1>2 DEF Access!Route, Access!reqRest, Access!fixed, Access!settingVars, Access!hostVars, Access!jobVars
  <2>a. PICK at \in {"read", "refused"} : xReq' = [xReq EXCEPT ![r].at = at]
    BY <1>2 DEF Access!Route, Access!To
  <2>1. /\ xReq' \in [Clients -> [at : Access!Early \cup Access!Holding \cup Access!Ends,
                                  seen : Access!Settings \cup {None}, next : Access!Settings \cup {None},
                                  was : Access!Settings \cup {None}]]
        /\ xReq'[r].at = at /\ xReq'[r].seen = xReq[r].seen
        /\ \A q \in Clients \ {r} : xReq'[q] = xReq[q]
    BY <1>i, <1>s, <2>a, AccessGoes
  <2>2. Access!Jobs' /\ Access!JobHonest'
    <3>1. \A q \in Clients : xReq'[q].at = "holds" => xReq[q].at = "holds"
      BY <2>1
    <3> QED BY <1>i, <2>e, <3>1, AccessJobRests
  <2>3. xReq[r].seen \in Access!Settings
    BY <1>i, <2>e DEF Access!Typed, Access!Early
  <2> QED BY <2>e, <2>1, <2>2, <2>3, AccessQuiet DEF Access!Early, Access!Ends
<1>3. ASSUME NEW r \in Clients, NEW a \in {0} \cup Clients, Access!LogsIn(r, a)
      PROVE  Access!IInv'
  <2>e. /\ xReq[r].at = "read" /\ xLock = None
        /\ UNCHANGED <<xScene, xSettings, xDisk, xCred, xSplit, xGone, xLock, xListening, xStranded,
                       xJob, xJobLock, xIssuer>>
        /\ \A t \in xTokens' : t \in xTokens \/ (t.account = xSettings.account /\ t.path = xSettings.path)
    BY <1>3 DEF Access!LogsIn, Access!Admits, Access!fixed, Access!settingVars, Access!hostVars, Access!jobVars
  <2>a. PICK at \in {"ok", "refused"} : xReq' = [xReq EXCEPT ![r].at = at]
    BY <1>3 DEF Access!LogsIn, Access!To
  <2>1. /\ xReq' \in [Clients -> [at : Access!Early \cup Access!Holding \cup Access!Ends,
                                  seen : Access!Settings \cup {None}, next : Access!Settings \cup {None},
                                  was : Access!Settings \cup {None}]]
        /\ xReq'[r].at = at /\ \A q \in Clients \ {r} : xReq'[q] = xReq[q]
    BY <1>i, <1>s, <2>a, AccessGoes
  <2>2. Access!Jobs' /\ Access!JobHonest'
    <3>1. \A q \in Clients : xReq'[q].at = "holds" => xReq[q].at = "holds"
      BY <2>1
    <3> QED BY <1>i, <2>e, <3>1, AccessJobRests
  <2> QED BY <2>e, <2>1, <2>2, AccessQuiet DEF Access!Early, Access!Ends
<1>4. ASSUME NEW r \in Clients, Access!LogsOut(r)
      PROVE  Access!IInv'
  <2>e. /\ xReq[r].at = "read" /\ xReq' = [xReq EXCEPT ![r].at = "ok"] /\ \A t \in xTokens' : t \in xTokens
        /\ UNCHANGED <<xScene, xSettings, xDisk, xCred, xSplit, xGone, xLock, xListening, xStranded,
                       xJob, xJobLock, xIssuer>>
    BY <1>4 DEF Access!LogsOut, Access!To, Access!fixed, Access!settingVars, Access!hostVars, Access!jobVars
  <2>1. /\ xReq' \in [Clients -> [at : Access!Early \cup Access!Holding \cup Access!Ends,
                                  seen : Access!Settings \cup {None}, next : Access!Settings \cup {None},
                                  was : Access!Settings \cup {None}]]
        /\ xReq'[r].at = "ok" /\ \A q \in Clients \ {r} : xReq'[q] = xReq[q]
    BY <1>i, <1>s, <2>e, AccessGoes
  <2>2. Access!Jobs' /\ Access!JobHonest'
    <3>1. \A q \in Clients : xReq'[q].at = "holds" => xReq[q].at = "holds"
      BY <2>1
    <3> QED BY <1>i, <2>e, <3>1, AccessJobRests
  <2> QED BY <2>e, <2>1, <2>2, AccessQuiet DEF Access!Early, Access!Ends
<1>5. ASSUME NEW r \in Clients, Access!HoldsJob(r)
      PROVE  Access!IInv'
  <2>e. /\ xReq[r].at = "read" /\ Access!Kind(r) = "complete" /\ xJobLock = None
        /\ UNCHANGED <<xScene, xSettings, xDisk, xCred, xSplit, xGone, xLock, xListening, xStranded, xTokens,
                       xJob, xIssuer>>
    BY <1>5 DEF Access!HoldsJob, Access!fixed, Access!settingVars, Access!hostVars
  <2>a. PICK at \in {"holds", "refused"} :
          /\ xReq' = [xReq EXCEPT ![r].at = at]
          /\ at = "holds" => xJob.state = "ready" /\ xJobLock' = r
          /\ at = "refused" => xJobLock' = None
    BY <1>5 DEF Access!HoldsJob, Access!To
  <2>1. /\ xReq' \in [Clients -> [at : Access!Early \cup Access!Holding \cup Access!Ends,
                                  seen : Access!Settings \cup {None}, next : Access!Settings \cup {None},
                                  was : Access!Settings \cup {None}]]
        /\ xReq'[r].at = at /\ xReq'[r].seen = xReq[r].seen
        /\ \A q \in Clients \ {r} : xReq'[q] = xReq[q]
    BY <1>i, <1>s, <2>a, AccessGoes
  <2>2. Access!Jobs' /\ Access!JobHonest'
    <3>1. \A q \in Clients : xReq[q].at # "holds"
      BY <1>0, <1>i, <2>e DEF Access!Jobs
    <3> QED BY <1>i, <2>e, <2>a, <2>1, <3>1 DEF Access!Jobs, Access!JobHonest, Access!Kind
  <2>3. xReq[r].seen \in Access!Settings
    BY <1>i, <2>e DEF Access!Typed, Access!Early
  <2> QED BY <2>e, <2>1, <2>2, <2>3, AccessQuiet DEF Access!Early, Access!Ends
<1>6. ASSUME NEW r \in Clients, Access!AsksJob(r)
      PROVE  Access!IInv'
  <2>e. /\ xReq[r].at = "read" /\ xJobLock = None /\ xJobLock' = None /\ xIssuer' = xIssuer
        /\ UNCHANGED <<xScene, xSettings, xDisk, xCred, xSplit, xGone, xLock, xListening, xStranded, xTokens>>
    BY <1>6 DEF Access!AsksJob, Access!jobRest, Access!fixed, Access!settingVars, Access!hostVars
  <2>a. PICK at \in {"ok", "refused"} : xReq' = [xReq EXCEPT ![r].at = at]
    BY <1>6 DEF Access!AsksJob, Access!To
  <2>1. /\ xReq' \in [Clients -> [at : Access!Early \cup Access!Holding \cup Access!Ends,
                                  seen : Access!Settings \cup {None}, next : Access!Settings \cup {None},
                                  was : Access!Settings \cup {None}]]
        /\ xReq'[r].at = at /\ \A q \in Clients \ {r} : xReq'[q] = xReq[q]
    BY <1>i, <1>s, <2>a, AccessGoes
  <2>2. Access!Jobs' /\ Access!JobHonest'
    <3>1. \A q \in Clients : xReq[q].at # "holds" /\ xReq'[q].at # "holds"
      BY <1>0, <1>i, <2>e, <2>1 DEF Access!Jobs
    <3>2. CASE xJob' = xJob
      BY <1>i, <2>e, <3>1, <3>2 DEF Access!Jobs, Access!JobHonest
    <3>3. CASE /\ ~Access!Busy
               /\ xJob' = [id |-> r, state |-> "issuing", previous |-> xReq[r].seen,
                           next |-> [xReq[r].seen EXCEPT !.net = [listen |-> r, tls |-> FALSE]]]
      <4>1. xReq[r].seen \in Access!Settings
        BY <1>i, <2>e DEF Access!Typed, Access!Early
      <4>2. r \in Access!Numbers /\ [listen |-> r, tls |-> FALSE] \in [listen : Access!Numbers, tls : BOOLEAN]
        BY DEF Access!Numbers
      <4>3. [xReq[r].seen EXCEPT !.net = [listen |-> r, tls |-> FALSE]] \in Access!Settings
        BY <4>1, <4>2 DEF Access!Settings
      <4>4. xIssuer.at # "issues"
        BY <1>i, <3>3 DEF Access!JobHonest, Access!Busy
      <4>5. /\ xJob'.state = "issuing" /\ xJob'.next \in Access!Settings
            /\ xJob' \in [id : Access!Numbers, state : {"none", "issuing", "ready", "applied", "failed"},
                          previous : Access!Settings \cup {None}, next : Access!Settings \cup {None}]
        BY <3>3, <4>1, <4>2, <4>3
      <4> QED BY <1>i, <2>e, <3>1, <4>4, <4>5 DEF Access!Jobs, Access!JobHonest
    <3> QED BY <1>6, <3>2, <3>3 DEF Access!AsksJob
  <2> QED BY <2>e, <2>1, <2>2, AccessQuiet DEF Access!Early, Access!Ends
<1>7. ASSUME NEW r \in Clients, Access!ClearsJob(r)
      PROVE  Access!IInv'
  <2>e. /\ xReq[r].at = "ok" /\ xJobLock = None /\ xJobLock' = None /\ xIssuer' = xIssuer
        /\ xJob' = (IF xJob.state = "issuing" THEN xJob ELSE Access!NoJob) /\ xReq' = [xReq EXCEPT ![r].at = "done"]
        /\ UNCHANGED <<xScene, xSettings, xDisk, xCred, xSplit, xGone, xLock, xListening, xStranded, xTokens>>
    BY <1>7 DEF Access!ClearsJob, Access!To, Access!jobRest, Access!fixed, Access!settingVars, Access!hostVars
  <2>1. /\ xReq' \in [Clients -> [at : Access!Early \cup Access!Holding \cup Access!Ends,
                                  seen : Access!Settings \cup {None}, next : Access!Settings \cup {None},
                                  was : Access!Settings \cup {None}]]
        /\ xReq'[r].at = "done" /\ \A q \in Clients \ {r} : xReq'[q] = xReq[q]
    BY <1>i, <1>s, <2>e, AccessGoes
  <2>2. Access!Jobs' /\ Access!JobHonest'
    <3>1. \A q \in Clients : xReq[q].at # "holds" /\ xReq'[q].at # "holds"
      BY <1>0, <1>i, <2>e, <2>1 DEF Access!Jobs
    <3> QED BY <1>i, <2>e, <3>1 DEF Access!Jobs, Access!JobHonest, Access!NoJob, Access!Numbers
  <2> QED BY <2>e, <2>1, <2>2, AccessQuiet DEF Access!Early, Access!Ends
<1>8. CASE Access!IssuerStep
  <2>e. UNCHANGED <<xScene, xSettings, xDisk, xCred, xSplit, xGone, xLock, xListening, xStranded, xTokens, xReq, xJobLock>>
    BY <1>8 DEF Access!IssuerStep, Access!IssuerTakes, Access!Issued, Access!jobRest, Access!fixed, Access!settingVars,
      Access!hostVars
  <2>1. Access!Typed' /\ Access!AtRest'
    BY <1>i, <2>e DEF Access!Typed, Access!AtRest, Access!Current, Access!Listens, Access!Kept
  <2>2. Access!Changes'
    BY <1>i, <2>e DEF Access!Changes, Access!Changing, Access!Current, Access!Listens, Access!Kept, Access!Account, Access!Kind
  <2>3. Access!News' /\ Access!NeverBack'
    BY <1>i, <2>e DEF Access!News, Access!Unused, Access!NeverBack
  <2>4. Access!Jobs' /\ Access!JobHonest'
    <3>1. CASE Access!IssuerTakes
      BY <1>i, <2>e, <3>1 DEF Access!IssuerTakes, Access!Jobs, Access!JobHonest, Access!Kind
    <3>2. ASSUME Access!Issued(TRUE)
          PROVE  Access!Jobs' /\ Access!JobHonest'
      <4>1. xJob.state = "issuing" /\ xJob.next \in Access!Settings /\ xJobLock = None
        BY <1>i, <3>2 DEF Access!Issued, Access!Jobs, Access!JobHonest
      <4>2. xJob' = [xJob EXCEPT !.state = "ready", !.next.net.tls = TRUE] /\ xIssuer' = [at |-> "idle", id |-> 0]
        BY <3>2 DEF Access!Issued
      <4>3. [xJob.next EXCEPT !.net.tls = TRUE] \in Access!Settings /\ [xJob.next EXCEPT !.net.tls = TRUE].net.tls
        BY <4>1 DEF Access!Settings
      <4>4. xJob'.state = "ready" /\ xJob'.next \in Access!Settings /\ xJob'.next.net.tls
            /\ xJob' \in [id : Access!Numbers, state : {"none", "issuing", "ready", "applied", "failed"},
                          previous : Access!Settings \cup {None}, next : Access!Settings \cup {None}]
        BY <1>i, <4>2, <4>3 DEF Access!Jobs
      <4> QED BY <1>i, <2>e, <4>1, <4>2, <4>4 DEF Access!Jobs, Access!JobHonest, Access!Kind, Access!Numbers
    <3>3. ASSUME Access!Issued(FALSE)
          PROVE  Access!Jobs' /\ Access!JobHonest'
      BY <1>i, <2>e, <3>3 DEF Access!Issued, Access!Jobs, Access!JobHonest, Access!Kind, Access!Numbers
    <3> QED BY <1>8, <3>1, <3>2, <3>3 DEF Access!IssuerStep
  <2> QED BY <2>1, <2>2, <2>3, <2>4 DEF Access!IInv
<1>9. ASSUME NEW r \in Clients, Access!Takes(r)
      PROVE  Access!IInv'
  <2>e. /\ Access!Ready(r) /\ xLock = None
        /\ UNCHANGED <<xScene, xSettings, xDisk, xCred, xSplit, xGone, xListening, xStranded, xTokens>>
    BY <1>9 DEF Access!Takes, Access!fixed, Access!settingVars, Access!hostVars
  <2>r. Access!Current(xSettings) /\ Access!Listens(xSettings) /\ Access!Kept(xSettings)
    BY <1>i, <2>e DEF Access!AtRest
  <2>1. CASE Access!Answer(r, FALSE, xReq[r])
    BY <1>t, <2>e, <2>r, <2>1, AccessReleases DEF Access!Current, Access!Listens, Access!Kept
  <2>2. CASE /\ Access!Wanted(r) # None /\ xLock' = r /\ UNCHANGED Access!jobVars
             /\ xReq' = [xReq EXCEPT ![r] = [xReq[r] EXCEPT !.next = Access!Wanted(r), !.was = xSettings,
                           !.at = IF Access!Wanted(r).net # xSettings.net THEN "apply" ELSE "write"]]
    <3>1. xReq[r].at \in {"read", "holds"} /\ xReq[r].seen \in Access!Settings
          /\ (Access!Kind(r) = "complete" => xJob.next \in Access!Settings)
      <4>1. xReq[r].at = IF Access!Kind(r) = "complete" THEN "holds" ELSE "read"
        BY <2>e DEF Access!Ready
      <4>2. xReq[r].at \in {"read", "holds"}
        BY <4>1
      <4>3. xReq[r].seen \in Access!Settings
        BY <1>i, <4>2 DEF Access!Typed, Access!Early, Access!Holding
      <4>4. ASSUME Access!Kind(r) = "complete"
            PROVE  xJob.next \in Access!Settings
        <5>1. xReq[r].at = "holds"
          BY <4>1, <4>4
        <5>2. xJobLock = r /\ r # None
          BY <1>0, <1>i, <5>1 DEF Access!Jobs
        <5> QED BY <1>i, <4>4, <5>1, <5>2 DEF Access!Jobs
      <4> QED BY <4>2, <4>3, <4>4
    <3>2. r \in Access!Numbers /\ r # None
      BY <1>0 DEF Access!Numbers
    <3>3. \A s \in Access!Settings : Access!Merged(s) \in Access!Settings /\ Access!Merged(s).account = xSettings.account
                                     /\ Access!Merged(s).path = xSettings.path
      BY <1>t DEF Access!Merged, Access!Settings
    <3>4. /\ Access!Changed(r) \in Access!Settings
          /\ Access!Changed(r).account = IF Access!Account(r) THEN r ELSE xReq[r].seen.account
          /\ Access!Changed(r).path \in {xReq[r].seen.path, r}
      BY <3>1, <3>2 DEF Access!Changed, Access!Account, Access!Settings
    <3>5. /\ Access!Wanted(r) \in Access!Settings
          /\ Access!Wanted(r).account = IF Access!Account(r) THEN r ELSE xSettings.account
          /\ Access!Wanted(r).path \in {xSettings.path, r}
      <4>1. CASE Access!Kind(r) = "complete"
        BY <2>2, <3>1, <3>3, <4>1 DEF Access!Wanted, Access!Account
      <4>2. CASE Access!Kind(r) = "place"
        BY <2>2, <3>3, <3>4, <4>2 DEF Access!Wanted, Access!Account
      <4>3. CASE Access!Kind(r) \notin {"complete", "place"}
        BY <2>2, <3>4, <4>3 DEF Access!Wanted, Access!StillRight
      <4> QED BY <4>1, <4>2, <4>3
    <3>6. /\ xReq' \in [Clients -> [at : Access!Early \cup Access!Holding \cup Access!Ends,
                                    seen : Access!Settings \cup {None}, next : Access!Settings \cup {None},
                                    was : Access!Settings \cup {None}]]
          /\ \A q \in Clients \ {r} : xReq'[q] = xReq[q]
          /\ xReq'[r].next = Access!Wanted(r) /\ xReq'[r].was = xSettings /\ xReq'[r].seen = xReq[r].seen
          /\ xReq'[r].at = IF Access!Wanted(r).net # xSettings.net THEN "apply" ELSE "write"
      <4>1. PICK w : w = Access!Wanted(r)
        OBVIOUS
      <4>2. PICK at \in {"apply", "write"} : at = IF w.net # xSettings.net THEN "apply" ELSE "write"
        OBVIOUS
      <4>3. xReq' = [xReq EXCEPT ![r] = [xReq[r] EXCEPT !.next = w, !.was = xSettings, !.at = at]] /\ w \in Access!Settings
        BY <2>2, <3>5, <4>1, <4>2
      <4> QED BY <1>s, <1>t, <4>1, <4>2, <4>3
    <3>7. Access!Changing(r)'
      BY <1>t, <2>e, <2>r, <3>5, <3>6 DEF Access!Changing, Access!Current, Access!Listens, Access!Kept, Access!Account,
        Access!Kind
    <3>8. xReq'[r].at \in Access!Holding /\ xReq[r].at \in (Access!Early \cup Access!Holding) \ {"clear"}
      BY <3>1, <3>6 DEF Access!Early, Access!Holding
    <3>9. Access!NeverBack' /\ \A q \in Clients : Access!Unused(q) => Access!Unused(q)'
      BY <1>i, <2>e DEF Access!NeverBack, Access!Unused
    <3> QED BY <1>t, <2>2, <2>e, <3>1, <3>6, <3>7, <3>8, <3>9, AccessHolds DEF Access!jobVars
  <2> QED BY <1>9, <2>1, <2>2 DEF Access!Takes
<1>h. ASSUME NEW r \in Clients, xReq[r].at \in Access!Holding
      PROVE  xLock = r /\ Access!Changing(r) /\ xReq[r].next \in Access!Settings /\ xReq[r].seen \in Access!Settings
  BY <1>i, <1>h DEF Access!Changes, Access!Changing, Access!Typed, Access!Holding
<1>10. ASSUME NEW r \in Clients, NEW ok \in BOOLEAN, Access!Applies(r, ok)
       PROVE  Access!IInv'
  <2>e. /\ xReq[r].at = "apply" /\ xReq[r].at \in Access!Holding /\ xReq[r].at \in (Access!Early \cup Access!Holding) \ {"clear"}
        /\ UNCHANGED <<xScene, xSettings, xDisk, xCred, xSplit, xGone, xTokens>>
    BY <1>10 DEF Access!Applies, Access!fixed, Access!settingVars, Access!Holding
  <2>h. xLock = r /\ Access!Changing(r) /\ xReq[r].next \in Access!Settings /\ xReq[r].seen \in Access!Settings
    BY <1>h, <2>e
  <2>1. CASE ok
    <3>1. xListening' = xReq[r].next.net /\ xStranded' = FALSE /\ xReq' = [xReq EXCEPT ![r].at = "write"]
          /\ UNCHANGED <<xLock, xJob, xJobLock, xIssuer>>
      BY <1>10, <2>1 DEF Access!Applies, Access!To, Access!jobVars
    <3>2. /\ xReq' \in [Clients -> [at : Access!Early \cup Access!Holding \cup Access!Ends,
                                    seen : Access!Settings \cup {None}, next : Access!Settings \cup {None},
                                    was : Access!Settings \cup {None}]]
          /\ xReq'[r].at = "write" /\ xReq'[r].seen = xReq[r].seen /\ xReq'[r].next = xReq[r].next /\ xReq'[r].was = xReq[r].was
          /\ \A q \in Clients \ {r} : xReq'[q] = xReq[q]
      BY <1>i, <1>s, <3>1, AccessGoes
    <3>3. Access!Changing(r)'
      BY <2>e, <2>h, <3>1, <3>2 DEF Access!Changing, Access!Current, Access!Listens, Access!Kept, Access!Account, Access!Kind
    <3>4. xReq'[r].at \in Access!Holding
      BY <3>2 DEF Access!Holding
    <3>5. Access!NeverBack' /\ \A q \in Clients : Access!Unused(q) => Access!Unused(q)'
      BY <1>i, <2>e DEF Access!NeverBack, Access!Unused
    <3> QED BY <1>t, <2>e, <2>h, <3>1, <3>2, <3>3, <3>4, <3>5, AccessHolds
  <2>2. CASE ~ok
    <3>1. Access!Answer(r, FALSE, xReq[r]) /\ xStranded' \in BOOLEAN
          /\ ((xListening' = xListening /\ xStranded' = xStranded) \/ xStranded' = TRUE)
      BY <1>10, <1>t, <2>2 DEF Access!Applies, Access!hostVars
    <3>2. Access!Current(xSettings) /\ Access!Listens(xSettings) /\ Access!Kept(xSettings)
      BY <2>e, <2>h DEF Access!Changing
    <3> QED BY <1>t, <2>e, <2>h, <3>1, <3>2, AccessReleases DEF Access!Current, Access!Listens, Access!Kept
  <2> QED BY <2>1, <2>2
<1>u. ASSUME NEW r \in Clients, xReq[r].at \in {"write", "file"}, Access!Undo(r)
      PROVE  xStranded' \in BOOLEAN /\ (xListening' = xSettings.net \/ xStranded')
  <2>1. Access!Changing(r)
    BY <1>h, <1>u DEF Access!Holding
  <2> QED BY <1>t, <1>u, <2>1 DEF Access!Undo, Access!UndoneTo, Access!Changing, Access!Listens, Access!hostVars
<1>11. ASSUME NEW r \in Clients, NEW ok \in BOOLEAN, Access!WritesPassword(r, ok)
       PROVE  Access!IInv'
  <2>e. /\ xReq[r].at = "write" /\ xReq[r].at \in Access!Holding /\ xReq[r].at \in (Access!Early \cup Access!Holding) \ {"clear"}
        /\ Access!Account(r)
        /\ UNCHANGED <<xScene, xSettings, xDisk, xSplit, xGone, xTokens>>
    BY <1>11 DEF Access!WritesPassword, Access!fixed, Access!Holding
  <2>h. xLock = r /\ Access!Changing(r) /\ xReq[r].next \in Access!Settings /\ xReq[r].seen \in Access!Settings
    BY <1>h, <2>e
  <2>1. CASE ok
    <3>1. xCred' = xReq[r].next.account /\ xReq' = [xReq EXCEPT ![r].at = "file"]
          /\ UNCHANGED <<xLock, xJob, xJobLock, xIssuer, xListening, xStranded>>
      BY <1>11, <2>1 DEF Access!WritesPassword, Access!To, Access!jobVars, Access!hostVars
    <3>2. /\ xReq' \in [Clients -> [at : Access!Early \cup Access!Holding \cup Access!Ends,
                                    seen : Access!Settings \cup {None}, next : Access!Settings \cup {None},
                                    was : Access!Settings \cup {None}]]
          /\ xReq'[r].at = "file" /\ xReq'[r].seen = xReq[r].seen /\ xReq'[r].next = xReq[r].next /\ xReq'[r].was = xReq[r].was
          /\ \A q \in Clients \ {r} : xReq'[q] = xReq[q]
      BY <1>i, <1>s, <3>1, AccessGoes
    <3>3. Access!Changing(r)'
      BY <2>e, <2>h, <3>1, <3>2 DEF Access!Changing, Access!Current, Access!Listens, Access!Kept, Access!Account, Access!Kind
    <3>4. xReq'[r].at \in Access!Holding /\ xCred' \in Access!Numbers
      BY <2>h, <3>1, <3>2 DEF Access!Holding, Access!Settings
    <3>5. Access!NeverBack' /\ \A q \in Clients : Access!Unused(q) => Access!Unused(q)'
      BY <1>i, <2>e DEF Access!NeverBack, Access!Unused
    <3> QED BY <1>t, <2>e, <2>h, <3>1, <3>2, <3>3, <3>4, <3>5, AccessHolds
  <2>2. CASE ~ok
    <3>1. Access!Answer(r, FALSE, xReq[r]) /\ xCred' = xCred /\ Access!Undo(r)
      BY <1>11, <2>2 DEF Access!WritesPassword
    <3>2. Access!Current(xSettings) /\ Access!Kept(xSettings)
      BY <2>e, <2>h DEF Access!Changing
    <3>3. xStranded' \in BOOLEAN /\ (xListening' = xSettings.net \/ xStranded')
      BY <1>u, <2>e, <3>1
    <3> QED BY <1>t, <2>e, <2>h, <3>1, <3>2, <3>3, AccessReleases DEF Access!Current, Access!Kept
  <2> QED BY <2>1, <2>2
<1>12. ASSUME NEW r \in Clients, NEW ok \in BOOLEAN, Access!WritesSettings(r, ok)
       PROVE  Access!IInv'
  <2>e. /\ xReq[r].at = (IF Access!Account(r) THEN "file" ELSE "write")
        /\ xReq[r].at \in Access!Holding /\ xReq[r].at \in (Access!Early \cup Access!Holding) \ {"clear"}
        /\ UNCHANGED <<xScene, xSettings, xGone, xTokens>>
    BY <1>12 DEF Access!WritesSettings, Access!fixed, Access!Holding
  <2>h. xLock = r /\ Access!Changing(r) /\ xReq[r].next \in Access!Settings /\ xReq[r].seen \in Access!Settings
    BY <1>h, <2>e
  <2>1. CASE ok
    <3>1. xDisk' = xReq[r].next /\ xReq' = [xReq EXCEPT ![r].at = "set"]
          /\ UNCHANGED <<xCred, xSplit, xLock, xJob, xJobLock, xIssuer, xListening, xStranded>>
      BY <1>12, <2>1 DEF Access!WritesSettings, Access!To, Access!jobVars, Access!hostVars
    <3>2. /\ xReq' \in [Clients -> [at : Access!Early \cup Access!Holding \cup Access!Ends,
                                    seen : Access!Settings \cup {None}, next : Access!Settings \cup {None},
                                    was : Access!Settings \cup {None}]]
          /\ xReq'[r].at = "set" /\ xReq'[r].seen = xReq[r].seen /\ xReq'[r].next = xReq[r].next /\ xReq'[r].was = xReq[r].was
          /\ \A q \in Clients \ {r} : xReq'[q] = xReq[q]
      BY <1>i, <1>s, <3>1, AccessGoes
    <3>3. Access!Changing(r)'
      BY <2>e, <2>h, <3>1, <3>2 DEF Access!Changing, Access!Current, Access!Listens, Access!Kept, Access!Account, Access!Kind
    <3>4. xReq'[r].at \in Access!Holding
      BY <3>2 DEF Access!Holding
    <3>5. Access!NeverBack' /\ \A q \in Clients : Access!Unused(q) => Access!Unused(q)'
      BY <1>i, <2>e DEF Access!NeverBack, Access!Unused
    <3> QED BY <1>t, <2>e, <2>h, <3>1, <3>2, <3>3, <3>4, <3>5, AccessHolds
  <2>2. CASE ~ok
    <3>1. Access!Answer(r, FALSE, xReq[r]) /\ xDisk' = xDisk /\ Access!Undo(r)
      BY <1>12, <2>2 DEF Access!WritesSettings
    <3>2. Access!Current(xSettings) /\ xDisk = xSettings /\ xReq[r].was = xSettings
          /\ (~Access!Account(r) => xCred = xSettings.account \/ xSplit)
      BY <2>e, <2>h DEF Access!Changing, Access!Kept
    <3>3. xStranded' \in BOOLEAN /\ (xListening' = xSettings.net \/ xStranded')
      BY <1>u, <2>e, <3>1
    <3>4. xCred' \in Access!Numbers /\ xSplit' \in BOOLEAN /\ (xCred' = xSettings.account \/ xSplit')
      <4>1. CASE Access!Account(r)
        <5>1. PICK back \in BOOLEAN : xCred' = (IF back THEN xReq[r].was.account ELSE xCred) /\ xSplit' = (xSplit \/ ~back)
          BY <1>12, <2>2, <4>1 DEF Access!WritesSettings, Access!PutBack
        <5>2. xSettings.account \in Access!Numbers
          BY <1>t DEF Access!Settings
        <5>3. CASE back
          BY <1>t, <3>2, <5>1, <5>2, <5>3
        <5>4. CASE ~back
          BY <1>t, <5>1, <5>4
        <5> QED BY <5>3, <5>4
      <4>2. CASE ~Access!Account(r)
        <5>1. xCred' = xCred /\ xSplit' = xSplit
          BY <1>12, <2>2, <4>2 DEF Access!WritesSettings
        <5> QED BY <1>t, <3>2, <4>2, <5>1
      <4> QED BY <4>1, <4>2
    <3> QED BY <1>t, <2>e, <2>h, <3>1, <3>2, <3>3, <3>4, AccessReleases DEF Access!Current
  <2> QED BY <2>1, <2>2
<1>13. ASSUME NEW r \in Clients, Access!Sets(r)
       PROVE  Access!IInv'
  <2>e. /\ xReq[r].at = "set" /\ xReq[r].at \in Access!Holding /\ xReq[r].at \in (Access!Early \cup Access!Holding) \ {"clear"}
        /\ xSettings' = xReq[r].next /\ xReq' = [xReq EXCEPT ![r].at = "clear"]
        /\ xSplit' = (xSplit /\ ~Access!Account(r))
        /\ xGone'.account = xGone.account \cup ({xSettings.account} \ {xReq[r].next.account})
        /\ xGone'.path = xGone.path \cup ({xSettings.path} \ {xReq[r].next.path})
        /\ UNCHANGED <<xScene, xDisk, xCred, xTokens, xLock, xJob, xJobLock, xIssuer, xListening, xStranded>>
    BY <1>13 DEF Access!Sets, Access!To, Access!fixed, Access!Holding, Access!hostVars, Access!jobVars
  <2>h. xLock = r /\ Access!Changing(r) /\ xReq[r].next \in Access!Settings /\ xReq[r].seen \in Access!Settings
    BY <1>h, <2>e
  <2>2. /\ xReq' \in [Clients -> [at : Access!Early \cup Access!Holding \cup Access!Ends,
                                  seen : Access!Settings \cup {None}, next : Access!Settings \cup {None},
                                  was : Access!Settings \cup {None}]]
        /\ xReq'[r].at = "clear" /\ xReq'[r].seen = xReq[r].seen /\ xReq'[r].next = xReq[r].next /\ xReq'[r].was = xReq[r].was
        /\ \A q \in Clients \ {r} : xReq'[q] = xReq[q]
    BY <1>i, <1>s, <2>e, AccessGoes
  <2>3. Access!Changing(r)'
    BY <1>t, <2>e, <2>h, <2>2 DEF Access!Changing, Access!Current, Access!Listens, Access!Kept, Access!Account, Access!Kind
  <2>4. xReq'[r].at \in Access!Holding /\ xSplit' \in BOOLEAN
    BY <1>t, <2>2, <2>e DEF Access!Holding
  <2>n. /\ xReq[r].next.account \in {xSettings.account, r} /\ xReq[r].next.path \in {xSettings.path, r}
        /\ Access!Unused(r)
    BY <1>i, <2>e, <2>h DEF Access!Changing, Access!News, Access!Holding
  <2>5. Access!NeverBack'
    BY <1>i, <2>e, <2>n DEF Access!NeverBack, Access!Unused
  <2>6. \A q \in Clients : q # r => (Access!Unused(q) => Access!Unused(q)')
    BY <2>e, <2>n DEF Access!Unused
  <2>7. xLock' = r /\ xLock \in {None, r} /\ xSettings' \in Access!Settings /\ xDisk' \in Access!Settings
        /\ xCred' \in Access!Numbers /\ xStranded' \in BOOLEAN /\ xReq'[r].seen \in Access!Settings
        /\ UNCHANGED <<xScene, xJob, xJobLock, xIssuer>>
        /\ \A q \in Clients : q # r \/ xReq'[r].at # "clear" => (Access!Unused(q) => Access!Unused(q)')
    BY <1>t, <2>2, <2>e, <2>h, <2>6
  <2> QED BY <2>2, <2>3, <2>4, <2>5, <2>7, <2>e, AccessHolds
<1>14. ASSUME NEW r \in Clients, Access!Clears(r)
       PROVE  Access!IInv'
  <2>e. /\ xReq[r].at = "clear" /\ xReq[r].at \in Access!Holding
        /\ xTokens' = (IF Access!EndsSessions(r) THEN {} ELSE xTokens) /\ Access!Answer(r, TRUE, xReq[r])
        /\ UNCHANGED <<xScene, xSettings, xDisk, xCred, xSplit, xGone, xListening, xStranded>>
    BY <1>14 DEF Access!Clears, Access!fixed, Access!Holding, Access!hostVars, Access!settingVars
  <2>h. xLock = r /\ Access!Changing(r)
    BY <1>h, <2>e
  <2>1. xSettings = xReq[r].next /\ Access!Kept(xSettings) /\ Access!Listens(xSettings) /\ Access!Current(xReq[r].was)
    BY <2>e, <2>h DEF Access!Changing
  <2>2. \A t \in xTokens' : t.account = xSettings.account /\ t.path = xSettings.path
    BY <2>e, <2>1 DEF Access!EndsSessions, Access!Current
  <2> QED BY <1>t, <2>e, <2>h, <2>1, <2>2, AccessReleases DEF Access!Listens, Access!Kept
<1>15. CASE Access!Crash
  <2>e. /\ xSettings' = xDisk /\ xListening' = xDisk.net /\ xStranded' = FALSE
        /\ xGone'.account = xGone.account \cup ({xSettings.account} \ {xDisk.account})
        /\ xGone'.path = xGone.path \cup ({xSettings.path} \ {xDisk.path})
        /\ xSplit' = (xSplit \/ xCred # xDisk.account) /\ xTokens' = {} /\ xLock' = None
        /\ xJob' = Access!NoJob /\ xJobLock' = None /\ xIssuer' = [at |-> "idle", id |-> 0]
        /\ xReq' = [r \in Clients |-> IF xReq[r].at \in {"new", "ok", "done", "refused"} THEN xReq[r]
                                      ELSE [xReq[r] EXCEPT !.at = "lost"]]
        /\ UNCHANGED <<xScene, xDisk, xCred>>
    BY <1>15 DEF Access!Crash
  <2>1. /\ xReq' \in [Clients -> [at : Access!Early \cup Access!Holding \cup Access!Ends,
                                  seen : Access!Settings \cup {None}, next : Access!Settings \cup {None},
                                  was : Access!Settings \cup {None}]]
        /\ \A q \in Clients : xReq'[q].at \in {"new", "ok", "done", "refused", "lost"}
                              /\ (xReq'[q].at = "new" => xReq[q].at = "new")
    BY <1>s, <1>t, <2>e
  <2>2. Access!Typed' /\ Access!AtRest' /\ Access!Changes'
    BY <1>0, <1>t, <2>e, <2>1 DEF Access!Typed, Access!AtRest, Access!Changes, Access!Current, Access!Listens, Access!Kept,
      Access!Early, Access!Holding
  <2>3. Access!Jobs' /\ Access!JobHonest'
    BY <2>e, <2>1 DEF Access!Jobs, Access!JobHonest, Access!NoJob, Access!Numbers
  <2>d. /\ xDisk.account \notin xGone.account /\ xDisk.path \notin xGone.path
        /\ \A q \in Clients : xReq[q].at = "new" => q \notin {xDisk.account, xDisk.path}
    <3>1. CASE xDisk = xSettings
      BY <1>i, <3>1 DEF Access!NeverBack, Access!News, Access!Unused, Access!Early
    <3>2. CASE xDisk # xSettings
      <4>1. PICK r \in Clients : xLock = r
        BY <1>i, <3>2 DEF Access!AtRest, Access!Kept, Access!Typed
      <4>2. Access!Changing(r) /\ xReq[r].at \in Access!Holding
        BY <1>i, <4>1 DEF Access!Changes
      <4>3. xReq[r].at = "set" /\ xDisk = xReq[r].next
            /\ xReq[r].next.account \in {xSettings.account, r} /\ xReq[r].next.path \in {xSettings.path, r}
        BY <3>2, <4>2 DEF Access!Changing, Access!Kept, Access!Holding
      <4>4. Access!Unused(r) /\ Access!NeverBack
        BY <1>i, <4>3 DEF Access!News, Access!Holding
      <4>5. \A q \in Clients : xReq[q].at = "new" => q # r /\ Access!Unused(q)
        BY <1>i, <4>3 DEF Access!News, Access!Early
      <4> QED BY <4>3, <4>4, <4>5 DEF Access!NeverBack, Access!Unused
    <3> QED BY <3>1, <3>2
  <2>4. Access!NeverBack'
    BY <2>e, <2>d DEF Access!NeverBack
  <2>5. Access!News'
    <3>1. ASSUME NEW q \in Clients, xReq'[q].at \in (Access!Early \cup Access!Holding) \ {"clear"}
          PROVE  Access!Unused(q)'
      <4>1. xReq[q].at = "new"
        BY <2>1, <3>1 DEF Access!Early, Access!Holding
      <4>2. Access!Unused(q)
        BY <1>i, <4>1 DEF Access!News, Access!Early
      <4> QED BY <2>d, <2>e, <4>1, <4>2 DEF Access!Unused
    <3> QED BY <3>1 DEF Access!News
  <2> QED BY <2>2, <2>3, <2>4, <2>5 DEF Access!IInv
<1> QED BY <1>1, <1>2, <1>3, <1>4, <1>5, <1>6, <1>7, <1>8, <1>9, <1>10, <1>11, <1>12, <1>13, <1>14, <1>15 DEF Access!Next,
  Access!Step

\* While nothing happens to the settings, their invariant stays.
LEMMA AccessRests ==
    ASSUME Access!IInv, UNCHANGED accessVars
    PROVE  Access!IInv'
<1>0. UNCHANGED <<xScene, xSamePort, xSettings, xDisk, xCred, xSplit, xTokens, xReq, xLock, xJob, xJobLock,
        xIssuer, xListening, xStranded, xGone, xCrashes>>
  BY DEF accessVars
<1>i. /\ Access!Typed /\ Access!AtRest /\ Access!Changes /\ Access!News /\ Access!Jobs
      /\ Access!NeverBack /\ Access!JobHonest
  BY DEF Access!IInv
<1>1. Access!Typed' /\ Access!AtRest'
  BY <1>0, <1>i DEF Access!Typed, Access!AtRest, Access!Current, Access!Listens, Access!Kept
<1>2. Access!Changes'
  BY <1>0, <1>i DEF Access!Changes, Access!Changing, Access!Current, Access!Listens, Access!Kept, Access!Account, Access!Kind
<1>3. Access!News' /\ Access!NeverBack'
  BY <1>0, <1>i DEF Access!News, Access!Unused, Access!NeverBack
<1>4. Access!Jobs' /\ Access!JobHonest'
  BY <1>0, <1>i DEF Access!Jobs, Access!JobHonest, Access!Kind
<1> QED BY <1>1, <1>2, <1>3, <1>4 DEF Access!IInv

\* What the invariant says at every step is what is promised of the settings.
LEMMA AccessPromise == Access!IInv => Access!TypeOK /\ Access!AccessKept
<1> SUFFICES ASSUME Access!IInv
             PROVE  Access!TypeOK /\ Access!AccessKept
  OBVIOUS
<1>1. Access!TypeOK
  BY DEF Access!IInv, Access!Typed, Access!Jobs, Access!TypeOK, Access!Early, Access!Holding, Access!Ends
<1>2. Access!SessionsCurrent /\ Access!FilesTrue /\ Access!ListensThere
  BY DEF Access!IInv, Access!AtRest, Access!Current, Access!Listens, Access!Kept, Access!SessionsCurrent, Access!FilesTrue,
    Access!ListensThere
<1> QED BY <1>1, <1>2 DEF Access!IInv, Access!AccessKept

-----------------------------------------------------------------------------
\* What the panel runs beside its requests (PanelServices)

CONSTANTS
    \* of PanelServices: its Hosts, Workers, MaxSwitches, Conns, Slots, Updates and MaxKills
    Relays, Lines, MaxSwitches, Comers, Places, Fetches, MaxDeaths

\* A publication has so many connections, and the one port so many places.
ASSUME ServicesAssumption ==
    /\ None \notin Relays /\ None \notin Comers /\ None \notin {"renew", "setup"}
    /\ IsFiniteSet(Lines) /\ IsFiniteSet(Comers) /\ IsFiniteSet(Fetches)
    /\ Places \in Nat

VARIABLES
    vPart, vWanted, vCurrent, vSession, vWorker, vActive, vStatus, vSwitches,
    vConn, vAccepting, vListener, vUpdating, vUpdate, vHelper, vPanel, vKills,
    vPort80, vIssuing, vPair

servicesVars ==
    <<vPart, vWanted, vCurrent, vSession, vWorker, vActive, vStatus, vSwitches,
    vConn, vAccepting, vListener, vUpdating, vUpdate, vHelper, vPanel, vKills,
    vPort80, vIssuing, vPair>>

Services == INSTANCE PanelServices WITH
    part <- vPart, wanted <- vWanted, current <- vCurrent,
    session <- vSession, worker <- vWorker, active <- vActive,
    status <- vStatus, switches <- vSwitches, conn <- vConn,
    accepting <- vAccepting, listener <- vListener, updating <- vUpdating,
    update <- vUpdate, helper <- vHelper, panel <- vPanel, kills <- vKills,
    port80 <- vPort80, issuing <- vIssuing, pair <- vPair,
    Parts <- {"publish", "listen", "update", "tls"}, Hosts <- Relays,
    Workers <- Lines, Conns <- Comers, Slots <- Places, Updates <- Fetches,
    MaxKills <- MaxDeaths, Issuers <- {"renew", "setup"}

\* The instance's number of elements is that of FiniteSets.
LEMMA ServicesCardinality == \A S : Services!Cardinality(S) = Cardinality(S)
BY DEF Services!Cardinality, Cardinality

\* How the number of connections that are up changes.
LEMMA ServicesUp ==
    ASSUME Services!Publishing
    PROVE  /\ Services!Cardinality(Services!Up) \in 0..Services!Cardinality(Lines)
           /\ Services!Cardinality({}) = 0
           /\ \A w \in Lines : w \notin Services!Up =>
                Services!Cardinality(Services!Up \cup {w}) = Services!Cardinality(Services!Up) + 1
           /\ \A w \in Services!Up :
                Services!Cardinality(Services!Up \ {w}) = Services!Cardinality(Services!Up) - 1
<1>1. IsFiniteSet(Lines) /\ Services!Up \subseteq Lines
  BY ServicesAssumption DEF Services!Up
<1>2. IsFiniteSet(Services!Up)
  BY <1>1, FS_Subset
<1>3. Cardinality(Services!Up) \in Nat /\ Cardinality(Lines) \in Nat /\ Cardinality(Services!Up) <= Cardinality(Lines)
  BY <1>1, <1>2, FS_Subset, FS_CardinalityType
<1> QED BY <1>1, <1>2, <1>3, ServicesCardinality, FS_EmptySet, FS_AddElement, FS_RemoveElement

LEMMA ServicesInit == Services!Init => Services!IInv
<1> SUFFICES ASSUME Services!Init
             PROVE  Services!IInv
  OBVIOUS
<1> USE DEF Services!Init
<1>1. Services!Publishing /\ Services!ShowsOurs
  <2>1. Services!Up = {}
    BY DEF Services!Up
  <2>2. Services!Cardinality({}) = 0
    BY ServicesCardinality, FS_EmptySet
  <2> QED BY <2>1, <2>2 DEF Services!Publishing, Services!ShowsOurs, Services!AllGone
<1>2. Services!Listening /\ Services!PortKept
  <2>1. Services!Detecting = {}
    BY DEF Services!Detecting
  <2>2. Services!Cardinality({}) = 0 /\ 0 <= Places
    BY ServicesCardinality, FS_EmptySet, ServicesAssumption
  <2> QED BY <2>1, <2>2 DEF Services!Listening, Services!PortKept, Services!InUse
<1>3. Services!Updating
  BY DEF Services!Updating, Services!UnderWay, Services!NoUpdate, Services!NoHelper
<1>4. Services!Issuing
  BY DEF Services!Issuing
<1> QED BY <1>1, <1>2, <1>3, <1>4 DEF Services!IInv

\* One connection of the publication goes to another place.
LEMMA ServicesAt ==
    ASSUME Services!Publishing, NEW w \in Lines, NEW at \in {"off", "dial", "says", "serves", "tells"},
           Services!At(w, at)
    PROVE  /\ vWorker' \in [Lines -> [at : {"off", "dial", "says", "serves", "tells"}, host : Relays \cup {None}]]
           /\ vWorker'[w].at = at /\ vWorker'[w].host = vWorker[w].host
           /\ \A v \in Lines \ {w} : vWorker'[v] = vWorker[v]
           /\ Services!Up' = IF at \in {"says", "serves"} THEN Services!Up \cup {w} ELSE Services!Up \ {w}
<1>1. /\ vWorker' \in [Lines -> [at : {"off", "dial", "says", "serves", "tells"}, host : Relays \cup {None}]]
      /\ vWorker'[w].at = at /\ vWorker'[w].host = vWorker[w].host
      /\ \A v \in Lines \ {w} : vWorker'[v] = vWorker[v]
  BY DEF Services!Publishing, Services!At
<1> QED BY <1>1 DEF Services!Up

\* What is shown is of the relay in use: every action of the publication.
LEMMA ServicesPublishes ==
    ASSUME Services!Publishing, Services!ShowsOurs, Services!PubNext
    PROVE  Services!Publishing' /\ Services!ShowsOurs'
<1>t. /\ vWorker \in [Lines -> [at : {"off", "dial", "says", "serves", "tells"}, host : Relays \cup {None}]]
      /\ vSession \in {"none", "asks", "live", "cancelled"}
      /\ vCurrent \in Relays \cup {None} /\ vWanted \in Relays \cup {None}
      /\ (vSession = "none" <=> vCurrent = None)
      /\ vActive = Services!Cardinality(Services!Up)
  BY DEF Services!Publishing
<1>g. vSession \in {"none", "asks"} => Services!AllGone
  BY DEF Services!Publishing
<1>c. /\ Services!Cardinality(Services!Up) \in Nat
      /\ Services!Cardinality({}) = 0
      /\ \A w \in Lines : w \notin Services!Up =>
           Services!Cardinality(Services!Up \cup {w}) = Services!Cardinality(Services!Up) + 1
      /\ \A w \in Services!Up :
           Services!Cardinality(Services!Up \ {w}) = Services!Cardinality(Services!Up) - 1
  BY ServicesUp
<1>1. ASSUME NEW h \in Relays \cup {None}, Services!Names(h)
      PROVE  Services!Publishing' /\ Services!ShowsOurs'
  BY <1>1, <1>t, <1>g DEF Services!Names, Services!Publishing, Services!ShowsOurs, Services!Up, Services!AllGone
<1>2. CASE Services!Cancels
  BY <1>2, <1>t, <1>g DEF Services!Cancels, Services!Publishing, Services!ShowsOurs, Services!Up, Services!AllGone
<1>3. CASE Services!Switches
  <2>1. vCurrent' = vWanted /\ vActive' = 0 /\ vWorker' = vWorker /\ vWanted' = vWanted /\ Services!AllGone
    BY <1>3 DEF Services!Switches
  <2>2. Services!AllGone' /\ Services!Up' = {} /\ Services!Up = {}
    BY <2>1 DEF Services!AllGone, Services!Up
  <2>3. CASE vWanted = None
    BY <1>3, <1>t, <1>c, <2>1, <2>2, <2>3 DEF Services!Switches, Services!Show, Services!Publishing, Services!ShowsOurs,
      Services!AllGone
  <2>4. CASE vWanted # None
    BY <1>3, <1>t, <1>c, <2>1, <2>2, <2>4 DEF Services!Switches, Services!Show, Services!Publishing, Services!ShowsOurs,
      Services!AllGone
  <2> QED BY <2>3, <2>4
<1>4. CASE Services!Allocated
  <2>1. /\ vWorker' = [w \in Lines |-> [at |-> "dial", host |-> vCurrent]] /\ vSession = "asks" /\ vSession' = "live"
        /\ UNCHANGED <<vWanted, vCurrent, vActive, vStatus>>
    BY <1>4 DEF Services!Allocated
  <2>2. Services!Up' = {} /\ Services!Up = {}
    BY <1>g, <2>1 DEF Services!Up, Services!AllGone
  <2>3. vWorker' \in [Lines -> [at : {"off", "dial", "says", "serves", "tells"}, host : Relays \cup {None}]]
    BY <1>t, <2>1
  <2> QED BY <1>t, <2>1, <2>2, <2>3 DEF Services!Publishing, Services!ShowsOurs
<1>5. CASE Services!AllocFails
  BY <1>5, <1>t, <1>g DEF Services!AllocFails, Services!Show, Services!Publishing, Services!ShowsOurs, Services!Up,
    Services!AllGone
<1>6. ASSUME NEW w \in Lines, Services!WorkerStep(w)
      PROVE  Services!Publishing' /\ Services!ShowsOurs'
  <2>r. UNCHANGED <<vWanted, vCurrent, vSession>>
    BY <1>6 DEF Services!WorkerStep, Services!DialFails, Services!Dialled, Services!Says, Services!ServeEnds, Services!Tells,
      Services!pubRest
  <2>w. vWorker[w].at # "off" /\ vSession \notin {"none", "asks"} /\ vCurrent # None
    <3>1. vWorker[w].at # "off"
      BY <1>6 DEF Services!WorkerStep, Services!DialFails, Services!Dialled, Services!Says, Services!ServeEnds, Services!Tells
    <3> QED BY <1>t, <1>g, <3>1 DEF Services!AllGone
  <2>h. vWorker[w].host = vCurrent
    BY <2>w DEF Services!ShowsOurs
  <2>k. ASSUME NEW at \in {"off", "dial", "says", "serves", "tells"}, Services!At(w, at),
               vActive' = Services!Cardinality(IF at \in {"says", "serves"} THEN Services!Up \cup {w} ELSE Services!Up \ {w}),
               vStatus' = vStatus \/ Services!Show("connecting", None) \/ Services!Show("connected", vCurrent)
        PROVE  Services!Publishing' /\ Services!ShowsOurs'
    <3>1. /\ vWorker' \in [Lines -> [at : {"off", "dial", "says", "serves", "tells"}, host : Relays \cup {None}]]
          /\ vWorker'[w].host = vWorker[w].host
          /\ \A v \in Lines \ {w} : vWorker'[v] = vWorker[v]
          /\ Services!Up' = IF at \in {"says", "serves"} THEN Services!Up \cup {w} ELSE Services!Up \ {w}
      BY <2>k, ServicesAt
    <3>2. Services!Publishing'
      BY <1>t, <2>r, <2>w, <2>k, <3>1 DEF Services!Publishing
    <3>3. \A v \in Lines : vWorker'[v].at # "off" => vWorker'[v].host = vCurrent
      BY <2>h, <3>1 DEF Services!ShowsOurs
    <3>4. /\ vStatus'.state = "connected" => vStatus'.host = vCurrent
          /\ vStatus'.state = "disabled" <=> vCurrent = None
      BY <2>k, <2>w DEF Services!Show, Services!ShowsOurs
    <3> QED BY <2>r, <3>2, <3>3, <3>4 DEF Services!ShowsOurs
  <2>1. CASE Services!DialFails(w)
    <3>1. w \notin Services!Up /\ Services!Up \ {w} = Services!Up /\ vActive' = vActive
      BY <2>1 DEF Services!Up, Services!DialFails
    <3>2. Services!At(w, "dial") \/ Services!At(w, "off")
      <4>1. vWorker' = vWorker => vWorker' = [vWorker EXCEPT ![w].at = "dial"]
        BY <1>t, <2>1 DEF Services!DialFails
      <4> QED BY <2>1, <4>1 DEF Services!DialFails, Services!At
    <3> QED BY <1>t, <2>1, <2>k, <3>1, <3>2 DEF Services!DialFails
  <2>2. CASE Services!Dialled(w)
    <3>1. w \notin Services!Up
      BY <2>2 DEF Services!Up, Services!Dialled
    <3> QED BY <1>t, <1>c, <2>2, <2>k, <3>1 DEF Services!Dialled
  <2>3. CASE Services!Says(w)
    <3>1. w \in Services!Up /\ Services!Up \cup {w} = Services!Up
      BY <2>3 DEF Services!Up, Services!Says
    <3> QED BY <1>t, <2>3, <2>h, <2>k, <3>1 DEF Services!Says
  <2>4. CASE Services!ServeEnds(w)
    <3>1. w \in Services!Up /\ vActive' = vActive - 1
      BY <2>4 DEF Services!Up, Services!ServeEnds
    <3>2. PICK at \in {"tells", "dial", "off"} : Services!At(w, at)
      BY <2>4 DEF Services!ServeEnds
    <3> QED BY <1>t, <1>c, <2>4, <2>k, <3>1, <3>2 DEF Services!ServeEnds
  <2>5. CASE Services!Tells(w)
    <3>1. w \notin Services!Up /\ Services!Up \ {w} = Services!Up /\ vActive' = vActive
      BY <2>5 DEF Services!Up, Services!Tells
    <3>2. PICK at \in {"dial", "off"} : Services!At(w, at)
      BY <2>5 DEF Services!Tells
    <3> QED BY <1>t, <2>5, <2>k, <3>1, <3>2 DEF Services!Tells
  <2> QED BY <1>6, <2>1, <2>2, <2>3, <2>4, <2>5 DEF Services!WorkerStep
<1> QED BY <1>1, <1>2, <1>3, <1>4, <1>5, <1>6 DEF Services!PubNext, Services!RunStep

\* A set of connections in detection that loses some or gains one.
LEMMA ServicesFewer ==
    ASSUME Services!Listening
    PROVE  /\ \A S \in SUBSET Comers : Services!Cardinality(S) \in Nat
           /\ \A S, T \in SUBSET Comers : S \subseteq T => Services!Cardinality(S) <= Services!Cardinality(T)
           /\ \A S \in SUBSET Comers, c \in Comers : Services!Cardinality(S \cup {c}) <= Services!Cardinality(S) + 1
<1>1. \A S \in SUBSET Comers : IsFiniteSet(S) /\ Cardinality(S) \in Nat
  BY ServicesAssumption, FS_Subset, FS_CardinalityType
<1>2. \A S, T \in SUBSET Comers : S \subseteq T => Cardinality(S) <= Cardinality(T)
  BY <1>1, FS_Subset
<1>3. \A S \in SUBSET Comers, c \in Comers : Cardinality(S \cup {c}) <= Cardinality(S) + 1
  <2> TAKE S \in SUBSET Comers, c \in Comers
  <2>1. Cardinality(S \cup {c}) = IF c \in S THEN Cardinality(S) ELSE Cardinality(S) + 1
    BY <1>1, FS_AddElement
  <2> QED BY <1>1, <2>1
<1> QED BY <1>1, <1>2, <1>3, ServicesCardinality

\* The one port keeps its places: every action of the listener.
LEMMA ServicesListens ==
    ASSUME Services!Listening, Services!PortKept, Services!ListenNext
    PROVE  Services!Listening' /\ Services!PortKept'
<1>t. /\ vConn \in [Comers -> {"out", "taken", "pending", "closing", "ready", "served", "closed", "cut"}]
      /\ vAccepting.at \in {"accept", "slot", "register", "ended"} /\ vAccepting.conn \in Comers \cup {None}
      /\ None \notin Comers /\ Places \in Nat
      /\ \A c \in Comers : vConn[c] # "cut" /\ (vListener = "closed" => vConn[c] # "pending")
  BY ServicesAssumption DEF Services!Listening, Services!PortKept
<1>d. Services!Detecting \in SUBSET Comers /\ Services!Detecting' \in SUBSET Comers
  BY DEF Services!Detecting
<1>f. /\ Services!Cardinality(Services!Detecting) \in Nat /\ Services!Cardinality(Services!Detecting') \in Nat
      /\ Services!Detecting' \subseteq Services!Detecting =>
           Services!Cardinality(Services!Detecting') <= Services!Cardinality(Services!Detecting)
      /\ \A c \in Comers : Services!Detecting' \subseteq Services!Detecting \cup {c} =>
           Services!Cardinality(Services!Detecting') <= Services!Cardinality(Services!Detecting) + 1
  <2>1. \A c \in Comers : Services!Detecting \cup {c} \in SUBSET Comers
    BY <1>d
  <2>2. \A c \in Comers : /\ Services!Cardinality(Services!Detecting \cup {c}) <= Services!Cardinality(Services!Detecting) + 1
                          /\ Services!Cardinality(Services!Detecting \cup {c}) \in Nat
    BY <1>d, <2>1, ServicesFewer
  <2>3. /\ Services!Cardinality(Services!Detecting) \in Nat /\ Services!Cardinality(Services!Detecting') \in Nat
        /\ Services!Detecting' \subseteq Services!Detecting =>
             Services!Cardinality(Services!Detecting') <= Services!Cardinality(Services!Detecting)
    BY <1>d, ServicesFewer
  <2>4. ASSUME NEW c \in Comers, Services!Detecting' \subseteq Services!Detecting \cup {c}
        PROVE  Services!Cardinality(Services!Detecting') <= Services!Cardinality(Services!Detecting \cup {c})
    <3>1. \A S, T \in SUBSET Comers : S \subseteq T => Services!Cardinality(S) <= Services!Cardinality(T)
      BY ServicesFewer
    <3>2. PICK T \in SUBSET Comers : T = Services!Detecting \cup {c}
      BY <2>1
    <3>3. PICK S \in SUBSET Comers : S = Services!Detecting'
      BY <1>d
    <3>4. S \subseteq T
      BY <2>4, <3>2, <3>3
    <3>5. Services!Cardinality(S) <= Services!Cardinality(T)
      BY <3>1, <3>4
    <3> QED BY <3>2, <3>3, <3>5
  <2>5. ASSUME NEW c \in Comers, Services!Detecting' \subseteq Services!Detecting \cup {c}
        PROVE  Services!Cardinality(Services!Detecting') <= Services!Cardinality(Services!Detecting) + 1
    <3>1. Services!Cardinality(Services!Detecting') <= Services!Cardinality(Services!Detecting \cup {c})
      BY <2>4, <2>5
    <3>2. \A i, j, k \in Nat : i <= j /\ j <= k + 1 => i <= k + 1
      OBVIOUS
    <3> QED BY <2>2, <2>3, <3>1, <3>2
  <2> QED BY <2>3, <2>5
<1>u. Services!InUse <= Places
  BY DEF Services!PortKept
<1>p. ASSUME NEW c \in Comers, NEW at \in {"taken", "ready", "served", "closed"}, Services!Put(c, at),
             at = "ready" => vConn[c] = "pending"
      PROVE  /\ vConn' \in [Comers -> {"out", "taken", "pending", "closing", "ready", "served", "closed", "cut"}]
             /\ \A d \in Comers : vConn'[d] # "cut" /\ (vListener = "closed" => vConn'[d] # "pending")
             /\ Services!Detecting' \subseteq Services!Detecting
  <2>1. vConn' = [vConn EXCEPT ![c] = at]
    BY <1>p DEF Services!Put
  <2>2. vConn' \in [Comers -> {"out", "taken", "pending", "closing", "ready", "served", "closed", "cut"}]
    BY <1>t, <2>1
  <2>3. \A d \in Comers : vConn'[d] = IF d = c THEN at ELSE vConn[d]
    BY <1>t, <2>1
  <2> QED BY <1>t, <1>p, <2>2, <2>3 DEF Services!Detecting
<1>q. ASSUME NEW c \in Comers, NEW at \in {"taken", "ready", "served", "closed"}, Services!Put(c, at),
             at = "ready" => vConn[c] = "pending", UNCHANGED <<vAccepting, vListener>>
      PROVE  Services!Listening' /\ Services!PortKept'
  BY <1>t, <1>f, <1>u, <1>p, <1>q DEF Services!Listening, Services!PortKept, Services!InUse
<1>1. ASSUME NEW c \in Comers, Services!Accepts(c)
      PROVE  Services!Listening' /\ Services!PortKept'
  <2>1. /\ Services!Put(c, "taken") /\ vAccepting' = [at |-> "slot", conn |-> c]
        /\ vAccepting.at = "accept" /\ UNCHANGED vListener
    BY <1>1 DEF Services!Accepts
  <2> QED BY <1>t, <1>f, <1>u, <1>p, <2>1 DEF Services!Listening, Services!PortKept, Services!InUse
<1>2. CASE Services!TakesSlot
  <2>1. /\ vAccepting' = [vAccepting EXCEPT !.at = "register"] /\ UNCHANGED <<vConn, vListener>>
        /\ vAccepting.at = "slot" /\ Services!InUse < Places
    BY <1>2 DEF Services!TakesSlot, Services!SlotFree
  <2>2. Services!Detecting' = Services!Detecting
    BY <2>1 DEF Services!Detecting
  <2>3. vAccepting'.at \in {"accept", "slot", "register", "ended"} /\ vAccepting'.conn \in Comers \cup {None}
    BY <1>2, <1>t DEF Services!TakesSlot
  <2>4. Services!InUse' <= Places
    BY <1>t, <1>f, <2>1, <2>2 DEF Services!InUse
  <2> QED BY <1>t, <2>1, <2>3, <2>4 DEF Services!Listening, Services!PortKept
<1>3. CASE Services!AcceptEnds
  <2>1. vAccepting' = [at |-> "ended", conn |-> None] /\ UNCHANGED vListener
    BY <1>3 DEF Services!AcceptEnds
  <2>2. /\ vConn' \in [Comers -> {"out", "taken", "pending", "closing", "ready", "served", "closed", "cut"}]
        /\ \A d \in Comers : vConn'[d] # "cut" /\ (vListener = "closed" => vConn'[d] # "pending")
        /\ Services!Detecting' \subseteq Services!Detecting
    <3>1. CASE vAccepting.conn = None
      <4>1. vConn' = vConn
        BY <1>3, <3>1 DEF Services!AcceptEnds
      <4> QED BY <1>t, <4>1 DEF Services!Detecting
    <3>2. CASE vAccepting.conn # None
      <4>1. Services!Put(vAccepting.conn, "closed") /\ vAccepting.conn \in Comers
        BY <1>3, <1>t, <3>2 DEF Services!AcceptEnds, Services!Put
      <4> QED BY <1>p, <4>1
    <3> QED BY <3>1, <3>2
  <2>3. vAccepting'.at # "register"
    BY <2>1
  <2> QED BY <1>t, <1>f, <1>u, <2>1, <2>2, <2>3 DEF Services!Listening, Services!PortKept, Services!InUse
<1>4. CASE Services!Register
  <2>1. /\ vAccepting' = [at |-> IF Services!StillOpen THEN "accept" ELSE "ended", conn |-> None]
        /\ vConn' = [vConn EXCEPT ![vAccepting.conn] = IF Services!StillOpen THEN "pending" ELSE "closed"]
        /\ UNCHANGED vListener /\ vAccepting.at = "register"
    BY <1>4 DEF Services!Register, Services!Put
  <2>2. /\ vConn' \in [Comers -> {"out", "taken", "pending", "closing", "ready", "served", "closed", "cut"}]
        /\ \A d \in Comers : vConn'[d] = IF d = vAccepting.conn THEN IF Services!StillOpen THEN "pending" ELSE "closed" ELSE vConn[d]
    BY <1>t, <2>1
  <2>3. \A d \in Comers : vConn'[d] # "cut" /\ (vListener = "closed" => vConn'[d] # "pending")
    BY <1>t, <2>2 DEF Services!StillOpen
  <2>4. Services!Cardinality(Services!Detecting') <= Services!Cardinality(Services!Detecting) + 1
    <3>1. CASE vAccepting.conn \in Comers
      <4>1. Services!Detecting' \subseteq Services!Detecting \cup {vAccepting.conn}
        BY <2>2 DEF Services!Detecting
      <4> QED BY <1>f, <3>1, <4>1
    <3>2. CASE vAccepting.conn \notin Comers
      <4>1. Services!Detecting' \subseteq Services!Detecting
        BY <2>2, <3>2 DEF Services!Detecting
      <4> QED BY <1>f, <4>1
    <3> QED BY <3>1, <3>2
  <2>5. /\ vAccepting'.at \in {"accept", "slot", "register", "ended"} /\ vAccepting'.at # "register"
        /\ vAccepting'.conn \in Comers \cup {None}
    BY <2>1
  <2> QED BY <1>t, <1>f, <1>u, <2>1, <2>2, <2>3, <2>4, <2>5 DEF Services!Listening, Services!PortKept, Services!InUse
<1>5. ASSUME NEW c \in Comers, Services!FirstByte(c) \/ Services!ConnStep(c)
      PROVE  Services!Listening' /\ Services!PortKept'
  <2>1. PICK at \in {"ready", "served", "closed"} : Services!Put(c, at) /\ (at = "ready" => vConn[c] = "pending")
    BY <1>5 DEF Services!FirstByte, Services!ConnStep, Services!NoByte, Services!Delivered, Services!NotTaken
  <2>2. UNCHANGED <<vAccepting, vListener>>
    BY <1>5 DEF Services!FirstByte, Services!ConnStep, Services!NoByte, Services!Delivered, Services!NotTaken
  <2> QED BY <1>q, <2>1, <2>2
<1>6. CASE Services!ListenerCloses
  <2>1. vListener' = "closing" /\ UNCHANGED <<vConn, vAccepting>>
    BY <1>6 DEF Services!ListenerCloses
  <2> QED BY <1>t, <1>u, <2>1 DEF Services!Listening, Services!PortKept, Services!InUse, Services!Detecting
<1>7. CASE Services!ListenerClosed
  <2>1. /\ vListener' = "closed" /\ vAccepting' = vAccepting
        /\ vConn' = [c \in Comers |-> IF vConn[c] = "pending" THEN "closing" ELSE vConn[c]]
    BY <1>7, <1>t DEF Services!ListenerClosed, Services!Owned
  <2>2. /\ vConn' \in [Comers -> {"out", "taken", "pending", "closing", "ready", "served", "closed", "cut"}]
        /\ \A d \in Comers : vConn'[d] # "cut" /\ vConn'[d] # "pending"
        /\ Services!Detecting' \subseteq Services!Detecting
    BY <1>t, <2>1 DEF Services!Detecting
  <2> QED BY <1>t, <1>f, <1>u, <2>1, <2>2 DEF Services!Listening, Services!PortKept, Services!InUse
<1> QED BY <1>1, <1>2, <1>3, <1>4, <1>5, <1>6, <1>7 DEF Services!ListenNext

\* One update under way in a panel's life, of an installer that fits: every action
\* of the update, of the helper and of the panel's process.
LEMMA ServicesUpdates ==
    ASSUME Services!Updating, Services!UpdateNext
    PROVE  Services!Updating'
<1>t. /\ vUpdate \in [Fetches -> [at : {"no", "dir", "check", "begun", "over", "failed", "lost"},
                                  dir : BOOLEAN, file : {"none", "sound", "bad"}]]
      /\ vHelper \in [Fetches -> [at : {"none", "sleeps", "waits", "installs"}, sound : BOOLEAN, old : BOOLEAN]]
      /\ \A u \in Fetches : vHelper[u].at # "none" => vHelper[u].sound
      /\ \A u \in Services!UnderWay : vUpdating /\ \A v \in Services!UnderWay : u = v
      /\ \A u \in Fetches : vUpdate[u].at = "failed" => ~vUpdate[u].dir
      /\ \A u \in Fetches : vUpdate[u].at \in {"begun", "over"} /\ vHelper[u].at = "none" => ~vUpdate[u].dir
  BY DEF Services!Updating
\* A step of one update: what it needs to keep the invariant.
<1>s. ASSUME NEW u \in Fetches,
             NEW new \in [at : {"no", "dir", "check", "begun", "over", "failed", "lost"},
                          dir : BOOLEAN, file : {"none", "sound", "bad"}],
             vUpdate' = [vUpdate EXCEPT ![u] = new],
             NEW help \in [at : {"none", "sleeps", "waits", "installs"}, sound : BOOLEAN, old : BOOLEAN],
             vHelper' = [vHelper EXCEPT ![u] = help],
             help.at # "none" => help.sound,
             new.at = "failed" => ~new.dir,
             new.at \in {"begun", "over"} /\ help.at = "none" => ~new.dir,
             \/ vUpdating' = FALSE /\ new.at \notin {"dir", "check", "begun"} /\ u \in Services!UnderWay
             \/ vUpdating' = vUpdating /\ (u \in Services!UnderWay \/ new.at \notin {"dir", "check", "begun"})
             \/ vUpdating' = TRUE /\ Services!UnderWay = {}
      PROVE  Services!Updating'
  <2>1. /\ vUpdate' \in [Fetches -> [at : {"no", "dir", "check", "begun", "over", "failed", "lost"},
                                     dir : BOOLEAN, file : {"none", "sound", "bad"}]]
        /\ \A v \in Fetches : vUpdate'[v] = IF v = u THEN new ELSE vUpdate[v]
    BY <1>t, <1>s
  <2>2. /\ vHelper' \in [Fetches -> [at : {"none", "sleeps", "waits", "installs"}, sound : BOOLEAN, old : BOOLEAN]]
        /\ \A v \in Fetches : vHelper'[v] = IF v = u THEN help ELSE vHelper[v]
    BY <1>t, <1>s
  <2>3. \A v \in Services!UnderWay' : vUpdating' /\ \A w \in Services!UnderWay' : v = w
    BY <1>t, <1>s, <2>1 DEF Services!UnderWay
  <2>4. \A v \in Fetches : vHelper'[v].at # "none" => vHelper'[v].sound
    BY <1>t, <1>s, <2>2
  <2>5. /\ \A v \in Fetches : vUpdate'[v].at = "failed" => ~vUpdate'[v].dir
        /\ \A v \in Fetches : vUpdate'[v].at \in {"begun", "over"} /\ vHelper'[v].at = "none" => ~vUpdate'[v].dir
    BY <1>t, <1>s, <2>1, <2>2
  <2> QED BY <2>1, <2>2, <2>3, <2>4, <2>5 DEF Services!Updating
<1>1. ASSUME NEW u \in Fetches, Services!Asks(u)
      PROVE  Services!Updating'
  <2>1. PICK new \in [at : {"dir"}, dir : BOOLEAN, file : {"none"}] : vUpdate' = [vUpdate EXCEPT ![u] = new]
    BY <1>1 DEF Services!Asks, Services!Set, Services!NoUpdate
  <2>2. vUpdating' = TRUE /\ Services!UnderWay = {} /\ vHelper' = [vHelper EXCEPT ![u] = vHelper[u]]
    <3>1. vUpdating' = TRUE /\ vUpdating = FALSE /\ vHelper' = vHelper
      BY <1>1 DEF Services!Asks, Services!NoneRuns
    <3>2. Services!UnderWay = {}
      BY <1>t, <3>1
    <3>3. [vHelper EXCEPT ![u] = vHelper[u]] = vHelper
      BY <1>t
    <3> QED BY <3>1, <3>2, <3>3
  <2> QED BY <1>t, <1>s, <2>1, <2>2
<1>2. ASSUME NEW u \in Fetches, NEW sound \in BOOLEAN, Services!Downloads(u, sound)
      PROVE  Services!Updating'
  <2>1. PICK new \in [at : {"check"}, dir : BOOLEAN, file : {"sound", "bad"}] : vUpdate' = [vUpdate EXCEPT ![u] = new]
    <3>1. [vUpdate[u] EXCEPT !.at = "check", !.file = IF sound THEN "sound" ELSE "bad"]
             \in [at : {"check"}, dir : BOOLEAN, file : {"sound", "bad"}]
      <4>1. PICK r \in [at : {"no", "dir", "check", "begun", "over", "failed", "lost"},
                        dir : BOOLEAN, file : {"none", "sound", "bad"}] : r = vUpdate[u]
        BY <1>t
      <4>2. PICK f \in {"sound", "bad"} : f = IF sound THEN "sound" ELSE "bad"
        OBVIOUS
      <4>3. [r EXCEPT !.at = "check", !.file = f]
              \in [at : {"check"}, dir : BOOLEAN, file : {"sound", "bad"}]
        OBVIOUS
      <4> QED BY <4>1, <4>2, <4>3
    <3> QED BY <1>2, <3>1 DEF Services!Downloads, Services!Set
  <2>2. vUpdating' = vUpdating /\ u \in Services!UnderWay /\ vHelper' = [vHelper EXCEPT ![u] = vHelper[u]]
    BY <1>2, <1>t DEF Services!Downloads, Services!UnderWay
  <2> QED BY <1>t, <1>s, <2>1, <2>2
<1>3. ASSUME NEW u \in Fetches, Services!Begins(u)
      PROVE  Services!Updating'
  <2>1. PICK new \in [at : {"begun"}, dir : BOOLEAN, file : {"none", "sound", "bad"}] : vUpdate' = [vUpdate EXCEPT ![u] = new]
    <3>1. [vUpdate[u] EXCEPT !.at = "begun"] \in [at : {"begun"}, dir : BOOLEAN, file : {"none", "sound", "bad"}]
      BY <1>t
    <3> QED BY <1>3, <3>1 DEF Services!Begins, Services!Set
  <2>2. vUpdating' = vUpdating /\ u \in Services!UnderWay
        /\ vHelper' = [vHelper EXCEPT ![u] = [at |-> "sleeps", sound |-> TRUE, old |-> TRUE]]
    BY <1>3, <1>t DEF Services!Begins, Services!UnderWay, Services!Fits
  <2> QED BY <1>t, <1>s, <2>1, <2>2
<1>4. ASSUME NEW u \in Fetches, Services!Fails(u)
      PROVE  Services!Updating'
  <2>1. PICK new \in [at : {"failed"}, dir : {FALSE}, file : {"none"}] : vUpdate' = [vUpdate EXCEPT ![u] = new]
    <3>1. [Services!NoUpdate EXCEPT !.at = "failed"] \in [at : {"failed"}, dir : {FALSE}, file : {"none"}]
      <4>1. Services!NoUpdate \in [at : {"no"}, dir : {FALSE}, file : {"none"}]
        BY DEF Services!NoUpdate
      <4> QED BY <4>1
    <3> QED BY <1>4, <3>1 DEF Services!Fails, Services!Set, Services!Cleaned
  <2>2. u \in Services!UnderWay /\ vUpdating' = FALSE /\ vHelper' = [vHelper EXCEPT ![u] = vHelper[u]]
    BY <1>4, <1>t DEF Services!Fails, Services!UnderWay
  <2> QED BY <1>t, <1>s, <2>1, <2>2
<1>5. ASSUME NEW u \in Fetches, Services!MarkExpires(u)
      PROVE  Services!Updating'
  <2>1. PICK new \in [at : {"over"}, dir : {FALSE}, file : {"none", "sound", "bad"}] : vUpdate' = [vUpdate EXCEPT ![u] = new]
    <3>1. [vUpdate[u] EXCEPT !.at = "over"] \in [at : {"over"}, dir : {FALSE}, file : {"none", "sound", "bad"}]
      BY <1>5, <1>t DEF Services!MarkExpires
    <3> QED BY <1>5, <3>1 DEF Services!MarkExpires, Services!Set
  <2>2. vUpdating' = FALSE /\ u \in Services!UnderWay /\ vHelper' = [vHelper EXCEPT ![u] = vHelper[u]]
    BY <1>5, <1>t DEF Services!MarkExpires, Services!UnderWay
  <2> QED BY <1>t, <1>s, <2>1, <2>2
<1>6. ASSUME NEW u \in Fetches, Services!HelperKills(u) \/ Services!HelperInstalls(u)
      PROVE  Services!Updating'
  <2>1. PICK at \in {"waits", "installs"} : vHelper' = [vHelper EXCEPT ![u].at = at]
    BY <1>6 DEF Services!HelperKills, Services!HelperInstalls
  <2>2. vHelper[u].at # "none" /\ vUpdate' = [vUpdate EXCEPT ![u] = vUpdate[u]] /\ vUpdating' = vUpdating
    BY <1>6, <1>t DEF Services!HelperKills, Services!HelperInstalls
  <2>3. PICK help \in [at : {"waits", "installs"}, sound : {TRUE}, old : BOOLEAN] : vHelper' = [vHelper EXCEPT ![u] = help]
    <3>1. [vHelper[u] EXCEPT !.at = at] \in [at : {"waits", "installs"}, sound : {TRUE}, old : BOOLEAN]
      BY <1>t, <2>2
    <3>2. vHelper' = [vHelper EXCEPT ![u] = [vHelper[u] EXCEPT !.at = at]]
      BY <1>t, <2>1
    <3> QED BY <3>1, <3>2
  <2> QED BY <1>t, <1>s, <2>2, <2>3 DEF Services!UnderWay
\* The panel's process ends or is replaced.
<1>f. ASSUME NEW new \in [Fetches -> [at : {"no", "dir", "check", "begun", "over", "failed", "lost"},
                                      dir : BOOLEAN, file : {"none", "sound", "bad"}]],
             Services!Forgets(new),
             \A u \in Fetches : new[u].at = vUpdate[u].at /\ (~vUpdate[u].dir => ~new[u].dir),
             vHelper' \in [Fetches -> [at : {"none", "sleeps", "waits", "installs"}, sound : BOOLEAN, old : BOOLEAN]],
             \A u \in Fetches : vHelper'[u].at # "none" => vHelper'[u].at = vHelper[u].at /\ vHelper'[u].sound = vHelper[u].sound,
             \A u \in Fetches : vHelper'[u].at = "none" => vHelper[u].at = "none" \/ ~new[u].dir
      PROVE  Services!Updating'
  <2>1. \A u \in Fetches :
          /\ vUpdate'[u] \in [at : {"no", "over", "failed", "lost"}, dir : BOOLEAN, file : {"none", "sound", "bad"}]
          /\ vUpdate'[u].dir = new[u].dir
          /\ vUpdate'[u].at = "failed" => new[u].at = "failed"
          /\ vUpdate'[u].at = "over" => new[u].at \in {"begun", "over"}
    <3> TAKE u \in Fetches
    <3>1. new[u] \in [at : {"no", "dir", "check", "begun", "over", "failed", "lost"}, dir : BOOLEAN, file : {"none", "sound", "bad"}]
      OBVIOUS
    <3>2. vUpdate'[u] = IF new[u].at \in {"dir", "check"} THEN [new[u] EXCEPT !.at = "lost"]
                        ELSE IF new[u].at = "begun" THEN [new[u] EXCEPT !.at = "over"] ELSE new[u]
      BY <1>f DEF Services!Forgets
    <3> QED BY <3>1, <3>2
  <2>2. vUpdate' \in [Fetches -> [at : {"no", "dir", "check", "begun", "over", "failed", "lost"},
                                  dir : BOOLEAN, file : {"none", "sound", "bad"}]]
    <3>1. vUpdate' = [u \in Fetches |-> vUpdate'[u]]
      BY <1>f DEF Services!Forgets
    <3> QED BY <2>1, <3>1
  <2>3. Services!UnderWay' = {}
    BY <2>1 DEF Services!UnderWay
  <2>4. \A u \in Fetches : vHelper'[u].at # "none" => vHelper'[u].sound
    BY <1>t, <1>f
  <2>5. \A u \in Fetches : vUpdate'[u].at = "failed" => ~vUpdate'[u].dir
    BY <1>t, <1>f, <2>1
  <2>6. \A u \in Fetches : vUpdate'[u].at \in {"begun", "over"} /\ vHelper'[u].at = "none" => ~vUpdate'[u].dir
    BY <1>t, <1>f, <2>1
  <2> QED BY <1>f, <2>2, <2>3, <2>4, <2>5, <2>6 DEF Services!Updating
<1>7. ASSUME NEW u \in Fetches, Services!HelperEnds(u)
      PROVE  Services!Updating'
  <2> DEFINE swept == [vUpdate EXCEPT ![u].dir = FALSE, ![u].file = "none"]
  <2>1. /\ swept \in [Fetches -> [at : {"no", "dir", "check", "begun", "over", "failed", "lost"},
                                  dir : BOOLEAN, file : {"none", "sound", "bad"}]]
        /\ \A v \in Fetches : swept[v].at = vUpdate[v].at /\ (~vUpdate[v].dir => ~swept[v].dir)
        /\ ~swept[u].dir /\ \A v \in Fetches \ {u} : swept[v] = vUpdate[v]
    <3>1. PICK new \in [at : {"no", "dir", "check", "begun", "over", "failed", "lost"}, dir : {FALSE}, file : {"none"}] :
             new.at = vUpdate[u].at /\ swept = [vUpdate EXCEPT ![u] = new]
      <4>1. vUpdate[u] \in [at : {"no", "dir", "check", "begun", "over", "failed", "lost"}, dir : BOOLEAN, file : {"none", "sound", "bad"}]
        BY <1>t
      <4>2. swept = [vUpdate EXCEPT ![u] = [vUpdate[u] EXCEPT !.dir = FALSE, !.file = "none"]]
        BY <1>t
      <4>3. /\ [vUpdate[u] EXCEPT !.dir = FALSE, !.file = "none"]
                 \in [at : {"no", "dir", "check", "begun", "over", "failed", "lost"}, dir : {FALSE}, file : {"none"}]
            /\ [vUpdate[u] EXCEPT !.dir = FALSE, !.file = "none"].at = vUpdate[u].at
        BY <4>1
      <4> QED BY <4>1, <4>2, <4>3
    <3> HIDE DEF swept
    <3> QED BY <1>t, <3>1
  <2>2. /\ vHelper' = [v \in Fetches |-> IF v = u THEN Services!NoHelper
                                         ELSE [vHelper[v] EXCEPT !.old = @ /\ vHelper[u].at = "waits"]]
        /\ vHelper[u].at \in {"installs", "waits"}
    BY <1>7 DEF Services!HelperEnds
  <2>3. \A v \in Fetches : /\ vHelper'[v] \in [at : {"none", "sleeps", "waits", "installs"}, sound : BOOLEAN, old : BOOLEAN]
                           /\ vHelper'[v].at = IF v = u THEN "none" ELSE vHelper[v].at
                           /\ v # u => vHelper'[v].sound = vHelper[v].sound
    <3> TAKE v \in Fetches
    <3>1. CASE v = u
      BY <2>2, <3>1 DEF Services!NoHelper
    <3>2. CASE v # u
      <4>1. PICK old \in BOOLEAN : old = (vHelper[v].old /\ vHelper[u].at = "waits")
        OBVIOUS
      <4>2. vHelper'[v] = [vHelper[v] EXCEPT !.old = old]
        BY <2>2, <3>2, <4>1
      <4>3. vHelper[v] \in [at : {"none", "sleeps", "waits", "installs"}, sound : BOOLEAN, old : BOOLEAN]
        BY <1>t
      <4> QED BY <3>2, <4>2, <4>3
    <3> QED BY <3>1, <3>2
  <2>4. vHelper' \in [Fetches -> [at : {"none", "sleeps", "waits", "installs"}, sound : BOOLEAN, old : BOOLEAN]]
    BY <2>2, <2>3
  <2>5. \A v \in Fetches : vHelper'[v].at = "none" => vHelper[v].at = "none" \/ ~swept[v].dir
    BY <2>1, <2>3
  <2> HIDE DEF swept
  <2>6. CASE vHelper[u].at = "installs"
    <3>1. Services!Forgets(swept)
      BY <1>7, <2>6 DEF Services!HelperEnds, swept
    <3> QED BY <1>f, <2>1, <2>3, <2>4, <2>5, <3>1
  <2>7. CASE vHelper[u].at # "installs"
    <3>1. vUpdate' = swept /\ vUpdating' = vUpdating
      BY <1>7, <2>7 DEF Services!HelperEnds, swept
    <3>2. Services!UnderWay' = Services!UnderWay
      BY <2>1, <3>1 DEF Services!UnderWay
    <3>3. \A v \in Fetches : vHelper'[v].at # "none" => vHelper'[v].sound
      BY <1>t, <2>3
    <3>4. \A v \in Fetches : vUpdate'[v].at \in {"begun", "over"} /\ vHelper'[v].at = "none" => ~vUpdate'[v].dir
      BY <1>t, <2>1, <2>3, <3>1
    <3>5. \A v \in Fetches : vUpdate'[v].at = "failed" => ~vUpdate'[v].dir
      BY <1>t, <2>1, <3>1
    <3> QED BY <1>t, <2>1, <2>4, <3>1, <3>2, <3>3, <3>4, <3>5 DEF Services!Updating
  <2> QED BY <2>6, <2>7
<1>8. CASE Services!PanelEnds
  <2>1. Services!Forgets(vUpdate) /\ vHelper' = [u \in Fetches |-> [vHelper[u] EXCEPT !.old = FALSE]]
    BY <1>8 DEF Services!PanelEnds
  <2>2. \A u \in Fetches : /\ vHelper'[u] \in [at : {"none", "sleeps", "waits", "installs"}, sound : BOOLEAN, old : BOOLEAN]
                           /\ vHelper'[u].at = vHelper[u].at /\ vHelper'[u].sound = vHelper[u].sound
    <3> TAKE u \in Fetches
    <3>1. PICK h \in [at : {"none", "sleeps", "waits", "installs"}, sound : BOOLEAN, old : BOOLEAN] : h = vHelper[u]
      BY <1>t
    <3>2. vHelper'[u] = [h EXCEPT !.old = FALSE]
      BY <2>1, <3>1
    <3>3. /\ [h EXCEPT !.old = FALSE] \in [at : {"none", "sleeps", "waits", "installs"}, sound : BOOLEAN, old : BOOLEAN]
          /\ [h EXCEPT !.old = FALSE].at = h.at /\ [h EXCEPT !.old = FALSE].sound = h.sound
      OBVIOUS
    <3> QED BY <3>1, <3>2, <3>3
  <2>3. vHelper' \in [Fetches -> [at : {"none", "sleeps", "waits", "installs"}, sound : BOOLEAN, old : BOOLEAN]]
    BY <2>1, <2>2
  <2> QED BY <1>t, <1>f, <2>1, <2>2, <2>3
<1>9. CASE Services!PanelStarts
  BY <1>9, <1>t DEF Services!PanelStarts, Services!Updating, Services!UnderWay
<1> QED BY <1>1, <1>2, <1>3, <1>4, <1>5, <1>6, <1>7, <1>8, <1>9 DEF Services!UpdateNext, Services!UpdateStep,
  Services!HelperStep

\* The pair of key and certificate fits: every action of an issue.
LEMMA ServicesIssues ==
    ASSUME Services!Issuing, Services!TlsNext
    PROVE  Services!Issuing'
<1>t. /\ vIssuing \in [{"renew", "setup"} -> {"no", "key", "order", "ends"}]
      /\ vPort80 \in {"renew", "setup"} \cup {None}
      /\ \A i \in {"renew", "setup"} : vIssuing[i] # "no" => vPort80 = i
      /\ vPair.key \in Nat /\ vPair.made \in Nat /\ vPair = [key |-> vPair.key, cert |-> vPair.cert, made |-> vPair.made]
      /\ vPair.cert \in {None, vPair.key} /\ (vPair.key = 0 => vPair.cert = None)
      /\ \A i \in {"renew", "setup"} : vIssuing[i] = "order" => vPair.key # 0
      /\ None \notin {"renew", "setup"}
  BY ServicesAssumption DEF Services!Issuing
<1>g. ASSUME NEW i \in {"renew", "setup"}, NEW at \in {"no", "key", "order", "ends"}, Services!Goes(i, at)
      PROVE  /\ vIssuing' \in [{"renew", "setup"} -> {"no", "key", "order", "ends"}]
             /\ vIssuing'[i] = at /\ \A j \in {"renew", "setup"} \ {i} : vIssuing'[j] = vIssuing[j]
  BY <1>t, <1>g DEF Services!Goes
<1> SUFFICES ASSUME NEW i \in {"renew", "setup"}, Services!IssueBegins(i) \/ Services!IssueStep(i)
             PROVE  Services!Issuing'
  BY DEF Services!TlsNext
<1>1. CASE Services!IssueBegins(i) /\ Services!PortFree
  <2>1. vPort80 = None /\ vPort80' = i /\ Services!Goes(i, "key") /\ vPair' = vPair
    BY <1>1 DEF Services!IssueBegins, Services!PortFree
  <2>2. /\ vIssuing' \in [{"renew", "setup"} -> {"no", "key", "order", "ends"}]
        /\ vIssuing'[i] = "key" /\ \A j \in {"renew", "setup"} \ {i} : vIssuing'[j] = vIssuing[j]
    BY <1>g, <2>1
  <2> QED BY <1>t, <2>1, <2>2 DEF Services!Issuing
<1>2. CASE Services!IssueBegins(i) /\ ~Services!PortFree
  BY <1>t, <1>2 DEF Services!IssueBegins, Services!Issuing
<1>3. CASE Services!KeyRead(i)
  <2>1. /\ Services!Goes(i, "order") /\ vPort80' = vPort80 /\ vIssuing[i] = "key"
        /\ vPair' = [vPair EXCEPT !.key = Services!KeyToUse,
                                  !.made = IF Services!KeyToUse > vPair.made THEN Services!KeyToUse ELSE vPair.made]
    BY <1>3 DEF Services!KeyRead
  <2>2. Services!KeyToUse \in Nat \ {0} /\ (vPair.key # 0 => Services!KeyToUse = vPair.key)
    BY <1>t DEF Services!KeyToUse
  <2>3. /\ vPair'.key = Services!KeyToUse /\ vPair'.cert = vPair.cert /\ vPair'.made \in Nat
        /\ vPair' = [key |-> vPair'.key, cert |-> vPair'.cert, made |-> vPair'.made]
    BY <1>t, <2>1, <2>2
  <2>4. /\ vIssuing' \in [{"renew", "setup"} -> {"no", "key", "order", "ends"}]
        /\ vIssuing'[i] = "order" /\ \A j \in {"renew", "setup"} \ {i} : vIssuing'[j] = vIssuing[j]
    BY <1>g, <2>1
  <2> QED BY <1>t, <2>1, <2>2, <2>3, <2>4 DEF Services!Issuing
<1>4. CASE Services!CertWritten(i)
  <2>1. /\ Services!Goes(i, "ends") /\ vPort80' = vPort80 /\ vIssuing[i] = "order"
        /\ vPair' = [vPair EXCEPT !.cert = vPair.key]
    BY <1>4 DEF Services!CertWritten
  <2>2. /\ vIssuing' \in [{"renew", "setup"} -> {"no", "key", "order", "ends"}]
        /\ vIssuing'[i] = "ends" /\ \A j \in {"renew", "setup"} \ {i} : vIssuing'[j] = vIssuing[j]
    BY <1>g, <2>1
  <2>3. /\ vPair'.key = vPair.key /\ vPair'.cert = vPair.key /\ vPair'.made = vPair.made
        /\ vPair' = [key |-> vPair'.key, cert |-> vPair'.cert, made |-> vPair'.made]
    BY <1>t, <2>1
  <2> QED BY <1>t, <2>1, <2>2, <2>3 DEF Services!Issuing
<1>5. CASE Services!IssueFails(i)
  <2>1. Services!Goes(i, "ends") /\ UNCHANGED <<vPort80, vPair>> /\ vIssuing[i] # "no"
    BY <1>5 DEF Services!IssueFails
  <2>2. /\ vIssuing' \in [{"renew", "setup"} -> {"no", "key", "order", "ends"}]
        /\ vIssuing'[i] = "ends" /\ \A j \in {"renew", "setup"} \ {i} : vIssuing'[j] = vIssuing[j]
    BY <1>g, <2>1
  <2> QED BY <1>t, <2>1, <2>2 DEF Services!Issuing
<1>6. CASE Services!IssueEnds(i)
  <2>1. Services!Goes(i, "no") /\ vPort80' = None /\ vPair' = vPair /\ vPort80 = i
    BY <1>t, <1>6 DEF Services!IssueEnds, Services!Frees
  <2>2. /\ vIssuing' \in [{"renew", "setup"} -> {"no", "key", "order", "ends"}]
        /\ vIssuing'[i] = "no" /\ \A j \in {"renew", "setup"} \ {i} : vIssuing'[j] = vIssuing[j]
    BY <1>g, <2>1
  <2> QED BY <1>t, <2>1, <2>2 DEF Services!Issuing
<1> QED BY <1>1, <1>2, <1>3, <1>4, <1>5, <1>6 DEF Services!IssueStep

\* What the others leave as it was stays right.
LEMMA ServicesQuiet ==
           /\ Services!Publishing /\ Services!ShowsOurs /\ UNCHANGED Services!pubVars => Services!Publishing' /\ Services!ShowsOurs'
           /\ Services!Listening /\ Services!PortKept /\ UNCHANGED Services!listenVars => Services!Listening' /\ Services!PortKept'
           /\ Services!Updating /\ UNCHANGED Services!updateVars => Services!Updating'
           /\ Services!Issuing /\ UNCHANGED Services!tlsVars => Services!Issuing'
<1>1. Services!Publishing /\ Services!ShowsOurs /\ UNCHANGED Services!pubVars => Services!Publishing' /\ Services!ShowsOurs'
  BY DEF Services!pubVars, Services!Publishing, Services!ShowsOurs, Services!Up, Services!AllGone
<1>2. Services!Listening /\ Services!PortKept /\ UNCHANGED Services!listenVars => Services!Listening' /\ Services!PortKept'
  BY DEF Services!listenVars, Services!Listening, Services!PortKept, Services!InUse, Services!Detecting
<1>3. Services!Updating /\ UNCHANGED Services!updateVars => Services!Updating'
  BY DEF Services!updateVars, Services!Updating, Services!UnderWay
<1>4. Services!Issuing /\ UNCHANGED Services!tlsVars => Services!Issuing'
  BY DEF Services!tlsVars, Services!Issuing
<1> QED BY <1>1, <1>2, <1>3, <1>4

LEMMA ServicesStep ==
    ASSUME Services!IInv, Services!Next
    PROVE  Services!IInv'
<1>1. CASE Services!PubNext
  <2>1. UNCHANGED <<Services!listenVars, Services!updateVars, Services!tlsVars>>
    BY <1>1 DEF Services!PubNext, Services!RunStep, Services!WorkerStep, Services!Names, Services!Cancels, Services!Switches,
      Services!Allocated, Services!AllocFails, Services!DialFails, Services!Dialled, Services!Says, Services!ServeEnds,
      Services!Tells, Services!pubRest, Services!restPub
  <2> QED BY <1>1, <2>1, ServicesPublishes, ServicesQuiet DEF Services!IInv
<1>2. CASE Services!ListenNext
  <2>1. UNCHANGED <<Services!pubVars, Services!updateVars, Services!tlsVars>>
    BY <1>2 DEF Services!ListenNext, Services!ConnStep, Services!Accepts, Services!TakesSlot, Services!AcceptEnds,
      Services!Register, Services!FirstByte, Services!NoByte, Services!Delivered, Services!NotTaken, Services!ListenerCloses,
      Services!ListenerClosed, Services!restListen
  <2> QED BY <1>2, <2>1, ServicesListens, ServicesQuiet DEF Services!IInv
<1>3. CASE Services!UpdateNext
  <2>1. UNCHANGED <<Services!pubVars, Services!listenVars, Services!tlsVars>>
    BY <1>3 DEF Services!UpdateNext, Services!UpdateStep, Services!HelperStep, Services!PanelEnds, Services!PanelStarts,
      Services!Asks, Services!Downloads, Services!Begins, Services!Fails, Services!MarkExpires, Services!HelperKills,
      Services!HelperInstalls, Services!HelperEnds, Services!restUpdate
  <2> QED BY <1>3, <2>1, ServicesUpdates, ServicesQuiet DEF Services!IInv
<1>4. CASE Services!TlsNext
  <2>1. UNCHANGED <<Services!pubVars, Services!listenVars, Services!updateVars>>
    BY <1>4 DEF Services!TlsNext, Services!IssueBegins, Services!IssueStep, Services!KeyRead, Services!CertWritten,
      Services!IssueFails, Services!IssueEnds, Services!restTls
  <2> QED BY <1>4, <2>1, ServicesIssues, ServicesQuiet DEF Services!IInv
<1> QED BY <1>1, <1>2, <1>3, <1>4 DEF Services!Next

LEMMA ServicesRests ==
    ASSUME Services!IInv, UNCHANGED servicesVars
    PROVE  Services!IInv'
<1>1. UNCHANGED <<Services!pubVars, Services!listenVars, Services!updateVars, Services!tlsVars>>
  BY DEF servicesVars, Services!pubVars, Services!listenVars, Services!updateVars, Services!tlsVars
<1> QED BY <1>1, ServicesQuiet DEF Services!IInv

\* What the module promises follows.
LEMMA ServicesPromise == Services!IInv => Services!TypeOK /\ Services!ServicesKept
<1> SUFFICES ASSUME Services!IInv
             PROVE  Services!TypeOK /\ Services!ServicesKept
  OBVIOUS
<1>i. /\ Services!Publishing /\ Services!ShowsOurs /\ Services!Listening /\ Services!PortKept /\ Services!Updating /\ Services!Issuing
  BY DEF Services!IInv
<1>1. Services!TypeOK
  <2>1. vActive \in 0..Services!Cardinality(Lines)
    BY <1>i, ServicesUp DEF Services!Publishing
  <2>2. \A c \in Comers : vConn[c] \in {"out", "taken", "pending", "closing", "ready", "served", "closed", "cut"}
    BY <1>i DEF Services!Listening
  <2>3. \A u \in Fetches : vUpdate[u].at \in {"no", "dir", "check", "begun", "over", "failed", "lost"}
    BY <1>i DEF Services!Updating
  <2> QED BY <1>i, <2>1, <2>2, <2>3 DEF Services!TypeOK, Services!Publishing, Services!Issuing
\* A set whose elements are all the same has at most one.
<1>c. \A S : (\A u, v \in S : u = v) => Services!Cardinality(S) <= 1
  <2> SUFFICES ASSUME NEW S, \A u, v \in S : u = v
               PROVE  Services!Cardinality(S) <= 1
    OBVIOUS
  <2>1. CASE S = {}
    BY <2>1, FS_EmptySet, ServicesCardinality
  <2>2. ASSUME NEW u \in S
        PROVE  Services!Cardinality(S) <= 1
    <3>1. S = {u}
      OBVIOUS
    <3> QED BY <3>1, FS_Singleton, ServicesCardinality
  <2> QED BY <2>1, <2>2
<1>2. Services!UpdatesOne
  <2>1. Services!Cardinality(Services!UnderWay) <= 1
    <3>1. \A u, v \in Services!UnderWay : u = v
      BY <1>i DEF Services!Updating
    <3> QED BY <1>c, <3>1
  <2> QED BY <1>i, <2>1 DEF Services!UpdatesOne, Services!Updating, Services!UnderWay
<1>3. Services!PairFits
  <2>1. Services!Cardinality({i \in {"renew", "setup"} : vIssuing[i] # "no"}) <= 1
    <3>1. \A i, j \in {i \in {"renew", "setup"} : vIssuing[i] # "no"} : i = j
      BY <1>i DEF Services!Issuing
    <3> QED BY <1>c, <3>1
  <2> QED BY <1>i, <2>1 DEF Services!PairFits, Services!Issuing
<1> QED BY <1>i, <1>1, <1>2, <1>3 DEF Services!ServicesKept

-----------------------------------------------------------------------------
\* The exit on a web host (SiteNode)

CONSTANTS
    \* of SiteNode: its Accounts, Sites, UploadTries, TlsTries, MaxPolls, MaxCalls and MaxFaults
    Hosters, Fronts, UploadTries, TlsTries, MaxPolls, MaxSteps, MaxSlips

VARIABLES
    tAcct, tWeb, tWhole, tBehind, tUp, tPin, tCall, tOpen, tClear, tResult,
    tCalls, tFaults

siteVars ==
    <<tAcct, tWeb, tWhole, tBehind, tUp, tPin, tCall, tOpen, tClear, tResult,
    tCalls, tFaults>>

Site == INSTANCE SiteNode WITH
    acct <- tAcct, web <- tWeb, whole <- tWhole, behind <- tBehind, up <- tUp,
    pin <- tPin, call <- tCall, open <- tOpen, clear <- tClear,
    result <- tResult, calls <- tCalls, faults <- tFaults,
    Accounts <- Hosters, Sites <- Fronts, MaxCalls <- MaxSteps, MaxFaults <- MaxSlips
\* Nothing is none of the things a step over FTP or of the site is made of.
ASSUME SiteAssumption ==
    /\ Fronts \subseteq Seq({"node", "other", "dead"})
    /\ MaxSteps \in Nat /\ MaxSlips \in Nat /\ MaxPolls \in Nat
    /\ UploadTries \in Nat \ {0} /\ TlsTries \in Nat
    /\ None \notin Nat /\ None \notin {"asked", "made", "none"}
    /\ None \notin Site!FtpCalls /\ None \notin Site!SiteCalls

\* A set of natural numbers has a least one.
LEMMA Least ==
    ASSUME NEW S, S \subseteq Nat, S # {}
    PROVE  \E m \in S : \A k \in S : m <= k
<1> DEFINE R == OpToRel(<, Nat)
<1>1. \A x, y \in Nat : x < y => <<x, y>> \in R
  BY DEF OpToRel
<1>2. IsWellFoundedOn(R, Nat)
  BY NatLessThanWellFounded
<1> HIDE DEF R
<1>3. PICK m \in S : \A k \in S : ~(<<k, m>> \in R)
  BY <1>2, WFMin
<1>4. \A k \in S : ~(k < m)
  BY <1>1, <1>3
<1> QED BY <1>3, <1>4

\* A step over FTP is not one of the site, and neither is nothing.
LEMMA SiteForms ==
    /\ None \notin Site!FtpCalls /\ None \notin Site!SiteCalls
    /\ \A c \in Site!FtpCalls : "at" \in DOMAIN c /\ "ask" \notin DOMAIN c /\ c \notin Site!SiteCalls
    /\ \A c \in Site!SiteCalls : "ask" \in DOMAIN c /\ "at" \notin DOMAIN c /\ c \notin Site!FtpCalls
<1>1. \A c \in Site!FtpCalls : "at" \in DOMAIN c /\ "ask" \notin DOMAIN c
  BY DEF Site!FtpCalls
<1>2. \A c \in Site!SiteCalls : "ask" \in DOMAIN c /\ "at" \notin DOMAIN c
  BY DEF Site!SiteCalls
<1> QED BY <1>1, <1>2, SiteAssumption

\* The attempts of a mode: a plain one is the last, and none for "explicit".
LEMMA SiteLadder ==
    ASSUME NEW mode \in {"auto", "explicit", "none"}
    PROVE  /\ Len(Site!Ladder(mode)) \in 1..3
           /\ \A i \in 1..Len(Site!Ladder(mode)) :
                /\ Site!Ladder(mode)[i] \in {"tls", "tls_unverified", "none"}
                /\ Site!Ladder(mode)[i] = "none" => mode # "explicit" /\ i = Len(Site!Ladder(mode))
<1>1. CASE mode = "auto"
  <2>1. Site!Ladder(mode) = <<"tls", "tls_unverified", "none">>
    BY <1>1 DEF Site!Ladder
  <2>2. /\ Len(Site!Ladder(mode)) = 3
        /\ Site!Ladder(mode)[1] = "tls" /\ Site!Ladder(mode)[2] = "tls_unverified" /\ Site!Ladder(mode)[3] = "none"
    BY <2>1
  <2>3. ASSUME NEW i \in 1..3
        PROVE  /\ Site!Ladder(mode)[i] \in {"tls", "tls_unverified", "none"}
               /\ Site!Ladder(mode)[i] = "none" => i = 3
    <3>1. i = 1 \/ i = 2 \/ i = 3
      OBVIOUS
    <3> QED BY <2>2, <3>1
  <2>4. 3 \in 1..3 /\ mode # "explicit"
    BY <1>1
  <2> QED BY <2>2, <2>3, <2>4
<1>2. CASE mode = "explicit"
  <2>1. Site!Ladder(mode) = <<"tls", "tls_unverified">>
    BY <1>2 DEF Site!Ladder
  <2> QED BY <1>2, <2>1
<1>3. CASE mode = "none"
  <2>1. Site!Ladder(mode) = <<"none">>
    BY <1>3 DEF Site!Ladder
  <2> QED BY <1>3, <2>1
<1> QED BY <1>1, <1>2, <1>3

LEMMA SiteInit == Site!Init => Site!IInv
<1> SUFFICES ASSUME Site!Init
             PROVE  Site!IInv
  OBVIOUS
<1> USE DEF Site!Init
<1>0. ~Site!OnFtp /\ ~Site!OnSite
  BY SiteForms DEF Site!OnFtp, Site!OnSite
<1>1. Site!Shape
  <2>1. 0 \in 0..MaxSteps /\ 0 \in 0..MaxSlips /\ tBehind \in Seq({"node", "other", "dead"})
    BY SiteAssumption
  <2>2. tWeb \in [files : SUBSET {"lib", "parser"}, config : Site!Tokens \cup {None, "torn"}]
    BY DEF Site!Tokens
  <2>3. tUp \in [Site!Candidates -> {"none", "starting", "running"}]
    BY DEF Site!Candidates
  <2> QED BY <1>0, <2>1, <2>2, <2>3 DEF Site!Shape, Site!Idle
<1>2. Site!Sending
  BY <1>0, SiteAssumption DEF Site!Sending, Site!HalfHasNoToken, Site!Tokens
<1>3. Site!Telling /\ Site!Starting /\ Site!FindsNode
  BY <1>0 DEF Site!Telling, Site!Starting, Site!FindsNode
<1> QED BY <1>1, <1>2, <1>3 DEF Site!IInv

\* What a step over FTP must leave to keep the invariant.

\* What a step over FTP must do to keep the invariant.
LEMMA SiteFtp ==
    ASSUME Site!IInv, UNCHANGED <<tAcct, tBehind, tUp, tPin>>,
           tCall' = None \/ tCall' \in Site!FtpCalls,
           tWeb' \in [files : SUBSET {"lib", "parser"}, config : Site!Tokens \cup {None, "torn"}],
           tClear' \in BOOLEAN, tWhole' \in BOOLEAN, tCalls' \in 0..MaxSteps, tFaults' \in 0..MaxSlips,
           tOpen' = IF tCall' # None /\ tCall'.at # "dial" THEN 1 ELSE 0,
           tWeb'.config \in Site!Tokens /\ tAcct.sizes => tWhole',
           tCall' # None =>
             /\ tCall'.rung <= Len(Site!Ladder(tCall'.mode))
             /\ tCall'.at # "dial" => tCall'.rung = 1
             /\ tCall'.at \in {"put", "dial"} /\ tCall'.file # 0 => tCall'.token # None
             /\ tCall'.at = "put" => tCall'.file # 0
             /\ tAcct.sizes /\ tCall'.file >= 2 => "lib" \in tWeb'.files
             /\ tCall'.tls = "explicit" => tCall'.mode = "explicit"
             /\ tClear' => tCall'.tls # "explicit"
             /\ tClear' => tCall'.report = "none",
           \/ tResult' = None
           \/ /\ tCall' = None /\ "sure" \notin DOMAIN tResult'
              /\ tResult'.ok /\ "security" \in DOMAIN tResult' /\ tClear' => tResult'.security = "none"
    PROVE  Site!IInv'
<1>i. Site!Shape /\ Site!Telling /\ Site!FindsNode
  BY DEF Site!IInv
<1>1. /\ Site!Idle' <=> tCall' = None
      /\ Site!OnFtp' <=> tCall' # None
      /\ ~Site!OnSite'
  BY SiteForms DEF Site!Idle, Site!OnFtp, Site!OnSite
<1>2. Site!Shape'
  <2>1. /\ tBehind' \in Seq({"node", "other", "dead"})
        /\ tUp' \in [Site!Candidates' -> {"none", "starting", "running"}]
        /\ tPin' \in Site!Candidates' \cup {None}
    BY <1>i DEF Site!Shape, Site!Candidates
  <2> QED BY <1>1, <2>1 DEF Site!Shape, Site!Tokens
<1>3. Site!Sending'
  BY <1>1 DEF Site!Sending, Site!HalfHasNoToken, Site!Tokens
<1>4. Site!Telling'
  BY <1>i, <1>1 DEF Site!Telling
<1>5. Site!Starting'
  BY <1>1 DEF Site!Starting
<1>6. Site!FindsNode'
  BY <1>i DEF Site!FindsNode, Site!Candidates
<1> QED BY <1>2, <1>3, <1>4, <1>5, <1>6 DEF Site!IInv

\* What a step of the site must do to keep it.
LEMMA SiteSite ==
    ASSUME Site!IInv, UNCHANGED <<tAcct, tWeb, tWhole, tOpen, tBehind>>, tOpen = 0,
           tCall' = None \/ tCall' \in Site!SiteCalls,
           tCall' # None => \A a, b \in tCall'.ran : a = b,
           tUp' \in [Site!Candidates -> {"none", "starting", "running"}],
           tPin' \in Site!Candidates \cup {None},
           tCalls' \in 0..MaxSteps, tFaults' \in 0..MaxSlips,
           tClear' = FALSE,
           \/ tResult' = None
           \/ /\ tCall' = None /\ "security" \notin DOMAIN tResult'
              /\ tResult'.sure /\ tResult'.kind \in {"check", "node"} =>
                   (tResult'.ok <=> \E a \in Site!Candidates : tBehind[a] = "node")
    PROVE  Site!IInv'
<1>i. Site!Shape /\ Site!Sending /\ Site!Telling /\ Site!FindsNode
  BY DEF Site!IInv
<1>1. /\ Site!Idle' <=> tCall' = None
      /\ Site!OnSite' <=> tCall' # None
      /\ ~Site!OnFtp'
  BY SiteForms DEF Site!Idle, Site!OnFtp, Site!OnSite
<1>2. Site!Shape'
  <2>1. /\ tBehind' \in Seq({"node", "other", "dead"}) /\ Site!Candidates' = Site!Candidates
        /\ tWeb' \in [files : SUBSET {"lib", "parser"}, config : Site!Tokens' \cup {None, "torn"}]
        /\ tWhole' \in BOOLEAN /\ tClear' \in BOOLEAN
    BY <1>i DEF Site!Shape, Site!Candidates, Site!Tokens
  <2> QED BY <1>1, <2>1 DEF Site!Shape, Site!Tokens
<1>3. Site!Sending'
  BY <1>i, <1>1 DEF Site!Sending, Site!HalfHasNoToken, Site!Tokens
<1>4. Site!Telling'
  BY <1>i, <1>1 DEF Site!Telling
<1>5. Site!Starting'
  BY <1>1 DEF Site!Starting
<1>6. Site!FindsNode'
  BY <1>i DEF Site!FindsNode, Site!Candidates
<1> QED BY <1>2, <1>3, <1>4, <1>5, <1>6 DEF Site!IInv

\* What sending a file, or a part of it, leaves in the web folder.
LEMMA SiteFiles ==
    ASSUME Site!Shape, NEW f \in {"lib", "parser", "config"}, tCall.token \in Site!Tokens
    PROVE  /\ Site!With(f) \in [files : SUBSET {"lib", "parser"}, config : Site!Tokens \cup {None, "torn"}]
           /\ Site!With(f).files = IF f = "config" THEN tWeb.files ELSE tWeb.files \cup {f}
           /\ Site!With(f).config = IF f = "config" THEN tCall.token ELSE tWeb.config
           /\ Site!Torn(f) \in [files : SUBSET {"lib", "parser"}, config : Site!Tokens \cup {None, "torn"}]
           /\ Site!Torn(f).files = IF f = "config" THEN tWeb.files ELSE tWeb.files \ {f}
           /\ Site!Torn(f).config = IF f = "config" THEN "torn" ELSE tWeb.config
<1>1. tWeb \in [files : SUBSET {"lib", "parser"}, config : Site!Tokens \cup {None, "torn"}]
  BY DEF Site!Shape
<1>2. CASE f = "config"
  BY <1>1, <1>2 DEF Site!With, Site!Torn
<1>3. CASE f # "config"
  BY <1>1, <1>3 DEF Site!With, Site!Torn
<1> QED BY <1>2, <1>3

\* The file being sent.
LEMMA SiteFile ==
    ASSUME tCall.file \in 1..3
    PROVE  /\ Site!File \in {"lib", "parser", "config"}
           /\ (Site!File = "lib" <=> tCall.file = 1) /\ (Site!File = "parser" <=> tCall.file = 2)
           /\ (Site!File = "config" <=> tCall.file = 3)
           /\ Len(Site!Files) = 3
<1>1. Site!Files[1] = "lib" /\ Site!Files[2] = "parser" /\ Site!Files[3] = "config" /\ Len(Site!Files) = 3
  BY DEF Site!Files
<1>2. tCall.file = 1 \/ tCall.file = 2 \/ tCall.file = 3
  OBVIOUS
<1> QED BY <1>1, <1>2 DEF Site!File, Site!Order

\* An FTP connection's part of the invariant.
LEMMA SiteAtWork ==
    ASSUME Site!IInv, NEW at, "at" \in DOMAIN tCall, tCall # None, tCall.at = at
    PROVE  /\ tCall \in Site!FtpCalls /\ tOpen = (IF at = "dial" THEN 0 ELSE 1) /\ tResult = None
           /\ tWeb \in [files : SUBSET {"lib", "parser"}, config : Site!Tokens \cup {None, "torn"}]
           /\ tClear \in BOOLEAN /\ tWhole \in BOOLEAN /\ tCalls \in 0..MaxSteps /\ tFaults \in 0..MaxSlips
           /\ tCall.rung <= Len(Site!Ladder(tCall.mode))
           /\ at # "dial" => tCall.rung = 1
           /\ at \in {"put", "dial"} /\ tCall.file # 0 => tCall.token # None
           /\ at = "put" => tCall.file # 0
           /\ tAcct.sizes /\ tCall.file >= 2 => "lib" \in tWeb.files
           /\ tCall.tls = "explicit" => tCall.mode = "explicit"
           /\ tClear => tCall.tls # "explicit"
           /\ tClear => tCall.report = "none"
           /\ tWeb.config \in Site!Tokens /\ tAcct.sizes => tWhole
<1>1. tCall \in Site!FtpCalls
  BY SiteForms DEF Site!IInv, Site!Shape, Site!Idle, Site!OnFtp, Site!OnSite
<1> QED BY <1>1 DEF Site!IInv, Site!Shape, Site!Sending, Site!HalfHasNoToken, Site!Telling, Site!OnFtp, Site!Idle

\* A step of the site's part of it.
LEMMA SiteAsking ==
    ASSUME Site!IInv, tCall = None \/ "ask" \in DOMAIN tCall
    PROVE  /\ tCall = None \/ tCall \in Site!SiteCalls
           /\ tOpen = 0 /\ tCalls \in 0..MaxSteps /\ tFaults \in 0..MaxSlips
           /\ tUp \in [Site!Candidates -> {"none", "starting", "running"}]
           /\ tPin \in Site!Candidates \cup {None}
           /\ tCall # None => ~tClear /\ tResult = None /\ \A a, b \in tCall.ran : a = b
           /\ tClear \in BOOLEAN
<1>1. /\ tCall = None \/ tCall \in Site!SiteCalls
      /\ ~Site!OnFtp /\ (Site!OnSite <=> tCall # None)
  BY SiteForms DEF Site!IInv, Site!Shape, Site!Idle, Site!OnFtp, Site!OnSite
<1> QED BY <1>1 DEF Site!IInv, Site!Shape, Site!Telling, Site!Starting, Site!Idle

\* A fault that happens is one more; with none, as many as before.
LEMMA SiteFault == tFaults \in 0..MaxSlips /\ (Site!Fault \/ tFaults' = tFaults) => tFaults' \in 0..MaxSlips
BY SiteAssumption DEF Site!Fault

\* A session is there: its security, what is reported, and where the step goes on.
LEMMA SiteLogs ==
    ASSUME tCall \in Site!FtpCalls, NEW r \in {"tls", "tls_unverified", "none"},
           NEW p \in {"tls", "tls_unverified", "none"}, NEW a \in {"probe", "put"},
           tCall' = [tCall EXCEPT !.sec = r, !.report = p, !.rung = 1, !.at = a]
    PROVE  /\ tCall' \in Site!FtpCalls /\ tCall'.at = a /\ tCall'.rung = 1 /\ tCall'.mode = tCall.mode
           /\ tCall'.tls = tCall.tls /\ tCall'.report = p /\ tCall'.file = tCall.file /\ tCall'.token = tCall.token
<1> DEFINE d1 == [tCall EXCEPT !.sec = r]
           d2 == [d1 EXCEPT !.report = p]
           d3 == [d2 EXCEPT !.rung = 1]
<1>1. d1 \in Site!FtpCalls /\ d1.mode = tCall.mode /\ d1.tls = tCall.tls /\ d1.file = tCall.file /\ d1.token = tCall.token
  BY DEF Site!FtpCalls
<1>2. tCall' = [d3 EXCEPT !.at = a]
  OBVIOUS
<1> HIDE DEF d1
<1>3. /\ d2 \in Site!FtpCalls /\ d2.mode = tCall.mode /\ d2.tls = tCall.tls /\ d2.file = tCall.file /\ d2.token = tCall.token
      /\ d2.report = p
  BY <1>1 DEF Site!FtpCalls
<1> HIDE DEF d2
<1>4. /\ d3 \in Site!FtpCalls /\ d3.mode = tCall.mode /\ d3.tls = tCall.tls /\ d3.file = tCall.file /\ d3.token = tCall.token
      /\ d3.report = p /\ d3.rung = 1
  BY <1>3 DEF Site!FtpCalls
<1> HIDE DEF d3
<1> QED BY <1>2, <1>4 DEF Site!FtpCalls

\* The ladder: every action of dial.
LEMMA SiteDials ==
    ASSUME Site!IInv,
           \/ \E kind \in {"probe", "deploy", "remove"}, tls \in {"auto", "explicit", "none"}, t \in {None, "asked"} :
                Site!AskFTP(kind, tls, t)
           \/ Site!NoTls \/ Site!LoggedIn
           \/ \E sent \in BOOLEAN : Site!DialDropped(sent) \/ Site!DialEnds(sent)
    PROVE  Site!IInv'
<1>1. ASSUME NEW kind \in {"probe", "deploy", "remove"}, NEW tls \in {"auto", "explicit", "none"}, NEW t \in {None, "asked"},
             Site!AskFTP(kind, tls, t)
      PROVE  Site!IInv'
  <2>1. /\ tCall' = [kind |-> kind, tls |-> tls, mode |-> tls, asked |-> t, token |-> None, at |-> "dial",
                     rung |-> 1, sec |-> None, report |-> None, file |-> 0, try |-> 1, skipped |-> {}]
        /\ tCall = None /\ tCalls' = tCalls + 1 /\ tCalls < MaxSteps /\ tClear' = FALSE /\ tResult' = None
        /\ UNCHANGED <<tAcct, tWeb, tWhole, tOpen, tBehind, tUp, tPin, tFaults>>
    BY <1>1 DEF Site!AskFTP, Site!Idle, Site!httpVars
  <2>2. tCall' \in Site!FtpCalls /\ tCall' # None /\ tCall'.at = "dial" /\ tCall'.rung = 1 /\ tCall'.file = 0 /\ tCall'.mode = tCall'.tls
    <3>1. tCall' \in Site!FtpCalls
      BY <2>1 DEF Site!FtpCalls
    <3> QED BY <2>1, <3>1, SiteForms
  <2>3. /\ tOpen' = 0 /\ tCalls' \in 0..MaxSteps /\ tFaults' \in 0..MaxSlips
        /\ tWeb' \in [files : SUBSET {"lib", "parser"}, config : Site!Tokens \cup {None, "torn"}] /\ tWhole' \in BOOLEAN
        /\ (tWeb'.config \in Site!Tokens /\ tAcct.sizes => tWhole')
    <3>1. tOpen = 0 /\ tCalls \in 0..MaxSteps /\ tFaults \in 0..MaxSlips
      BY <2>1, SiteAsking
    <3> QED BY <2>1, <3>1, SiteAssumption DEF Site!IInv, Site!Shape, Site!Sending, Site!HalfHasNoToken
  <2>4. 1 <= Len(Site!Ladder(tCall'.mode))
    <3>1. tCall'.mode \in {"auto", "explicit", "none"}
      BY <2>1
    <3> QED BY <3>1, SiteLadder
  <2>5. tClear' \in BOOLEAN /\ tOpen' = (IF tCall' # None /\ tCall'.at # "dial" THEN 1 ELSE 0)
    BY <2>1, <2>2, <2>3
  <2> QED BY <2>1, <2>2, <2>3, <2>4, <2>5, SiteFtp
\* What is known while it dials.
<1>d. ASSUME Site!Dialling
      PROVE  /\ tCall \in Site!FtpCalls /\ tCall.at = "dial" /\ tOpen = 0 /\ tResult = None
             /\ Site!Rung \in {"tls", "tls_unverified", "none"}
             /\ Site!Rung = "none" => tCall.tls # "explicit" /\ tCall.rung = Len(Site!Ladder(tCall.mode))
             /\ Len(Site!Ladder(tCall.mode)) \in 1..3 /\ tCall.rung \in 1..Len(Site!Ladder(tCall.mode))
             /\ tWeb \in [files : SUBSET {"lib", "parser"}, config : Site!Tokens \cup {None, "torn"}]
             /\ tClear \in BOOLEAN /\ tWhole \in BOOLEAN /\ tCalls \in 0..MaxSteps /\ tFaults \in 0..MaxSlips
             /\ tCall.file # 0 => tCall.token # None
             /\ tAcct.sizes /\ tCall.file >= 2 => "lib" \in tWeb.files
             /\ tCall.tls = "explicit" => tCall.mode = "explicit"
             /\ tClear => tCall.tls # "explicit"
             /\ tClear => tCall.report = "none"
             /\ tWeb.config \in Site!Tokens /\ tAcct.sizes => tWhole
  <2>1. tCall # None /\ "at" \in DOMAIN tCall /\ tCall.at = "dial"
    BY <1>d DEF Site!Dialling, Site!Idle
  <2>2. /\ tCall \in Site!FtpCalls /\ tOpen = 0 /\ tResult = None
        /\ tWeb \in [files : SUBSET {"lib", "parser"}, config : Site!Tokens \cup {None, "torn"}]
        /\ tClear \in BOOLEAN /\ tWhole \in BOOLEAN /\ tCalls \in 0..MaxSteps /\ tFaults \in 0..MaxSlips
        /\ tCall.rung <= Len(Site!Ladder(tCall.mode))
        /\ tCall.file # 0 => tCall.token # None
        /\ tAcct.sizes /\ tCall.file >= 2 => "lib" \in tWeb.files
        /\ tCall.tls = "explicit" => tCall.mode = "explicit"
        /\ tClear => tCall.tls # "explicit"
        /\ tClear => tCall.report = "none"
        /\ tWeb.config \in Site!Tokens /\ tAcct.sizes => tWhole
    BY <2>1, SiteAtWork
  <2>3. tCall.mode \in {"auto", "explicit", "none"} /\ tCall.rung \in 1..3
    BY <2>2 DEF Site!FtpCalls
  <2>4. /\ Len(Site!Ladder(tCall.mode)) \in 1..3
        /\ \A i \in 1..Len(Site!Ladder(tCall.mode)) :
             /\ Site!Ladder(tCall.mode)[i] \in {"tls", "tls_unverified", "none"}
             /\ Site!Ladder(tCall.mode)[i] = "none" => tCall.mode # "explicit" /\ i = Len(Site!Ladder(tCall.mode))
    BY <2>3, SiteLadder
  <2>5. tCall.rung \in 1..Len(Site!Ladder(tCall.mode))
    BY <2>2, <2>3, <2>4
  <2> QED BY <2>1, <2>2, <2>4, <2>5 DEF Site!Rung
\* The next attempt, or the end.
<1>n. ASSUME Site!Dialling, NEW sent \in BOOLEAN, Site!TriesNext(sent), tFaults' \in 0..MaxSlips
      PROVE  Site!IInv'
  <2>0. /\ tClear' = (tClear \/ (sent /\ Site!Rung = "none"))
        /\ UNCHANGED <<tAcct, tWeb, tWhole, tOpen, tBehind, tUp, tPin, tCalls>>
    BY <1>n DEF Site!TriesNext, Site!httpVars
  <2>1. CASE tCall.rung < Len(Site!Ladder(tCall.mode))
    <3>1. tCall' = [tCall EXCEPT !.rung = tCall.rung + 1] /\ tResult' = tResult /\ tClear' = tClear
      BY <1>d, <1>n, <2>0, <2>1 DEF Site!TriesNext
    <3>2. tCall.rung + 1 \in 1..3 /\ tCall.rung + 1 <= Len(Site!Ladder(tCall.mode))
      <4>1. PICK n \in 1..3 : n = Len(Site!Ladder(tCall.mode))
        BY <1>d, <1>n
      <4>2. PICK r \in 1..n : r = tCall.rung
        BY <1>d, <1>n, <4>1
      <4>3. r < n
        BY <2>1, <4>1, <4>2
      <4>4. r + 1 \in 1..3 /\ r + 1 <= n
        BY <4>3
      <4> QED BY <4>1, <4>2, <4>4
    <3>3. /\ tCall' \in Site!FtpCalls /\ tCall'.at = "dial" /\ tCall'.rung = tCall.rung + 1 /\ tCall'.mode = tCall.mode
          /\ tCall'.tls = tCall.tls /\ tCall'.report = tCall.report /\ tCall'.file = tCall.file /\ tCall'.token = tCall.token
      BY <1>d, <1>n, <3>1, <3>2 DEF Site!FtpCalls
    <3> QED BY <1>d, <1>n, <2>0, <3>1, <3>2, <3>3, SiteForms, SiteFtp
  <2>2. CASE ~(tCall.rung < Len(Site!Ladder(tCall.mode)))
    <3>1. tCall' = None /\ tResult' = [ok |-> FALSE]
      BY <1>n, <2>2 DEF Site!TriesNext, Site!Answer
    <3>2. tClear' \in BOOLEAN
      BY <1>d, <1>n, <2>0
    <3>3. "sure" \notin DOMAIN tResult' /\ ~tResult'.ok
      BY <3>1
    <3> QED BY <1>d, <1>n, <2>0, <3>1, <3>2, <3>3, SiteFtp
  <2> QED BY <2>1, <2>2
<1>2. CASE Site!NoTls
  <2>1. Site!Dialling /\ Site!TriesNext(FALSE) /\ tFaults' = tFaults
    BY <1>2 DEF Site!NoTls
  <2> QED BY <1>d, <1>n, <2>1
<1>3. ASSUME NEW sent \in BOOLEAN, Site!DialDropped(sent)
      PROVE  Site!IInv'
  <2>1. Site!Dialling /\ Site!TriesNext(sent) /\ Site!Fault
    BY <1>3 DEF Site!DialDropped
  <2> QED BY <1>d, <1>n, <2>1, SiteFault
<1>4. ASSUME NEW sent \in BOOLEAN, Site!DialEnds(sent)
      PROVE  Site!IInv'
  <2>1. /\ Site!Dialling /\ Site!Fault /\ tCall' = None /\ tResult' = [ok |-> FALSE]
        /\ tClear' = (tClear \/ (sent /\ Site!Rung = "none"))
        /\ UNCHANGED <<tAcct, tWeb, tWhole, tOpen, tBehind, tUp, tPin, tCalls>>
    BY <1>4 DEF Site!DialEnds, Site!Answer, Site!httpVars
  <2>2. tClear' \in BOOLEAN /\ tFaults' \in 0..MaxSlips /\ "sure" \notin DOMAIN tResult' /\ ~tResult'.ok
    <3>1. tClear' \in BOOLEAN
      BY <1>d, <2>1
    <3>2. tFaults' \in 0..MaxSlips
      BY <1>d, <2>1, SiteFault
    <3> QED BY <2>1, <3>1, <3>2
  <2> QED BY <1>d, <2>1, <2>2, SiteFtp
<1>5. CASE Site!LoggedIn
  <2>1. /\ Site!Dialling /\ tOpen' = tOpen + 1 /\ tClear' = (tClear \/ Site!Rung = "none")
        /\ tCall' = [tCall EXCEPT !.sec = Site!Rung, !.report = Site!Reported, !.rung = 1,
                                  !.at = IF tCall.file = 0 THEN "probe" ELSE "put"]
        /\ UNCHANGED <<tAcct, tWeb, tWhole, tBehind, tUp, tPin, tResult, tCalls, tFaults>>
    BY <1>5 DEF Site!LoggedIn, Site!httpVars
  <2>2. /\ Site!Reported \in {"tls", "tls_unverified", "none"}
        /\ (Site!Rung = "none" \/ tCall.report = "none") => Site!Reported = "none"
    <3>1. tCall.report \in {None, "tls", "tls_unverified", "none"} /\ Site!Rung \in {"tls", "tls_unverified", "none"}
      BY <1>d, <2>1 DEF Site!FtpCalls
    <3> QED BY <3>1, SiteAssumption DEF Site!Reported
  <2>3. PICK at \in {"probe", "put"} : at = IF tCall.file = 0 THEN "probe" ELSE "put"
    OBVIOUS
  <2>4. /\ tCall' \in Site!FtpCalls /\ tCall'.at = at /\ tCall'.rung = 1 /\ tCall'.mode = tCall.mode
        /\ tCall'.tls = tCall.tls /\ tCall'.report = Site!Reported /\ tCall'.file = tCall.file /\ tCall'.token = tCall.token
    <3>1. tCall' = [tCall EXCEPT !.sec = Site!Rung, !.report = Site!Reported, !.rung = 1, !.at = at]
      <4>1. CASE tCall.file = 0
        <5>1. at = "probe"
          BY <2>3, <4>1
        <5> QED BY <2>1, <4>1, <5>1
      <4>2. CASE tCall.file # 0
        <5>1. at = "put"
          BY <2>3, <4>2
        <5> QED BY <2>1, <4>2, <5>1
      <4> QED BY <4>1, <4>2
    <3>2. Site!Rung \in {"tls", "tls_unverified", "none"} /\ tCall \in Site!FtpCalls
      BY <1>d, <2>1
    <3>3. Site!Reported \in {"tls", "tls_unverified", "none"}
      BY <2>2
    <3> QED BY <3>1, <3>2, <3>3, SiteLogs
  <2>5. /\ tClear' \in BOOLEAN /\ (tClear' => tCall.tls # "explicit") /\ (tClear' => Site!Reported = "none")
        /\ tResult' = None
    <3>1. tClear' \in BOOLEAN
      BY <1>d, <2>1
    <3> QED BY <1>d, <2>1, <2>2, <3>1
  <2>6. 1 <= Len(Site!Ladder(tCall'.mode))
    BY <1>d, <2>1, <2>4
  <2> QED BY <1>d, <2>1, <2>2, <2>3, <2>4, <2>5, <2>6, SiteForms, SiteFtp
<1> QED BY <1>1, <1>2, <1>3, <1>4, <1>5

\* The next file, or the end of an upload.
LEMMA SiteNext ==
    ASSUME Site!IInv, Site!InFTP("put"), NEW skipped \in SUBSET {"lib", "parser", "config"}, Site!NextFile(skipped),
           tWeb' \in [files : SUBSET {"lib", "parser"}, config : Site!Tokens \cup {None, "torn"}],
           tWhole' \in BOOLEAN, tFaults' \in 0..MaxSlips,
           tWeb'.config \in Site!Tokens /\ tAcct.sizes => tWhole',
           tAcct.sizes => "lib" \in tWeb'.files,
           UNCHANGED <<tAcct, tClear, tBehind, tUp, tPin, tCalls>>
    PROVE  Site!IInv'
<1>0. tCall # None /\ "at" \in DOMAIN tCall /\ tCall.at = "put"
  BY DEF Site!InFTP, Site!Idle
<1>w. /\ tCall \in Site!FtpCalls /\ tOpen = 1 /\ tResult = None /\ tClear \in BOOLEAN /\ tCalls \in 0..MaxSteps
      /\ tCall.rung = 1 /\ 1 <= Len(Site!Ladder(tCall.mode)) /\ tCall.file # 0 /\ tCall.token # None
      /\ tCall.tls = "explicit" => tCall.mode = "explicit"
      /\ tClear => tCall.tls # "explicit"
      /\ tClear => tCall.report = "none"
  BY <1>0, SiteAtWork
<1>f. tCall.file \in 1..3 /\ Len(Site!Files) = 3
  <2>1. tCall.file \in 1..3
    BY <1>w DEF Site!FtpCalls
  <2> QED BY <2>1, SiteFile
<1>1. CASE tCall.file < 3
  <2>1. tCall' = [tCall EXCEPT !.file = tCall.file + 1, !.try = 1, !.skipped = tCall.skipped \cup skipped]
        /\ UNCHANGED <<tOpen, tResult>>
    BY <1>f, <1>1 DEF Site!NextFile
  <2>2. PICK n \in 2..3 : n = tCall.file + 1
    <3>1. tCall.file + 1 \in 2..3
      BY <1>f, <1>1
    <3> QED BY <3>1
  <2>3. PICK gone \in SUBSET {"lib", "parser", "config"} : gone = tCall.skipped \cup skipped
    <3>1. tCall.skipped \in SUBSET {"lib", "parser", "config"}
      BY <1>w DEF Site!FtpCalls
    <3> QED BY <3>1
  <2>4. tCall' = [tCall EXCEPT !.file = n, !.try = 1, !.skipped = gone]
    BY <2>1, <2>2, <2>3
  <2>5. /\ tCall' \in Site!FtpCalls /\ tCall'.at = "put" /\ tCall'.rung = 1 /\ tCall'.mode = tCall.mode
        /\ tCall'.tls = tCall.tls /\ tCall'.report = tCall.report /\ tCall'.file = n /\ tCall'.token = tCall.token
    <3> DEFINE c == [tCall EXCEPT !.file = n]
               d == [c EXCEPT !.try = 1]
    <3>1. /\ c \in Site!FtpCalls /\ c.at = "put" /\ c.rung = 1 /\ c.mode = tCall.mode
          /\ c.tls = tCall.tls /\ c.report = tCall.report /\ c.file = n /\ c.token = tCall.token
      BY <1>0, <1>w DEF Site!FtpCalls
    <3>2. tCall' = [d EXCEPT !.skipped = gone]
      BY <2>4
    <3> HIDE DEF c
    <3>3. /\ d \in Site!FtpCalls /\ d.at = "put" /\ d.rung = 1 /\ d.mode = tCall.mode
          /\ d.tls = tCall.tls /\ d.report = tCall.report /\ d.file = n /\ d.token = tCall.token
      BY <3>1 DEF Site!FtpCalls
    <3> HIDE DEF d
    <3> QED BY <3>2, <3>3 DEF Site!FtpCalls
  <2>6. n # 0 /\ tOpen' = 1 /\ tResult' = None /\ tClear' \in BOOLEAN /\ tCalls' \in 0..MaxSteps
    BY <1>w, <2>1, <2>2
  <2> QED BY <1>w, <2>5, <2>6, SiteForms, SiteFtp
<1>2. CASE ~(tCall.file < 3)
  <2>1. tOpen' = 0 /\ tCall' = None /\ tResult' = [ok |-> TRUE, kind |-> "deploy", security |-> tCall.report]
    BY <1>f, <1>2 DEF Site!NextFile, Site!Leaves, Site!Answer
  <2>2. "sure" \notin DOMAIN tResult' /\ tResult'.security = tCall.report
    BY <2>1
  <2>3. tClear' \in BOOLEAN /\ tCalls' \in 0..MaxSteps /\ (tClear' => tResult'.security = "none")
    BY <1>w, <2>2
  <2> QED BY <2>1, <2>2, <2>3, SiteFtp
<1> QED BY <1>1, <1>2

\* The upload and the removal: every action of probe, Deploy and Remove.
LEMMA SiteSends ==
    ASSUME Site!IInv,
           \/ Site!ProbeFails \/ \E read \in BOOLEAN : Site!Probed(read)
           \/ Site!Put \/ Site!PutShort \/ Site!PutFails \/ Site!Cancelled
           \/ \E stays \in SUBSET {"lib", "config"} : Site!Delete(stays)
    PROVE  Site!IInv'
\* What is known while it is connected.
<1>w. ASSUME NEW at \in {"probe", "put", "delete"}, Site!InFTP(at)
      PROVE  /\ tCall \in Site!FtpCalls /\ tCall.at = at /\ tOpen = 1 /\ tResult = None
             /\ tWeb \in [files : SUBSET {"lib", "parser"}, config : Site!Tokens \cup {None, "torn"}]
             /\ tClear \in BOOLEAN /\ tWhole \in BOOLEAN /\ tCalls \in 0..MaxSteps /\ tFaults \in 0..MaxSlips
             /\ tCall.rung = 1 /\ 1 <= Len(Site!Ladder(tCall.mode))
             /\ at = "put" => tCall.file # 0 /\ tCall.token # None
             /\ tAcct.sizes /\ tCall.file >= 2 => "lib" \in tWeb.files
             /\ tCall.tls = "explicit" => tCall.mode = "explicit"
             /\ tClear => tCall.tls # "explicit"
             /\ tClear => tCall.report = "none"
             /\ tWeb.config \in Site!Tokens /\ tAcct.sizes => tWhole
  <2>1. tCall # None /\ "at" \in DOMAIN tCall /\ tCall.at = at
    BY <1>w DEF Site!InFTP, Site!Idle
  <2> QED BY <2>1, SiteAtWork
\* The step ends, well or not.
<1>l. ASSUME NEW at \in {"probe", "put", "delete"}, Site!InFTP(at), NEW ok \in BOOLEAN, Site!Leaves([ok |-> ok]),
             tWeb' \in [files : SUBSET {"lib", "parser"}, config : Site!Tokens \cup {None, "torn"}],
             tWeb'.config \in Site!Tokens /\ tAcct.sizes => tWhole,
             tFaults' \in 0..MaxSlips, UNCHANGED <<tAcct, tWhole, tClear, tBehind, tUp, tPin, tCalls>>
      PROVE  Site!IInv'
  <2>1. tOpen' = 0 /\ tCall' = None /\ tResult' = [ok |-> ok]
    BY <1>l DEF Site!Leaves, Site!Answer
  <2>2. "sure" \notin DOMAIN tResult' /\ "security" \notin DOMAIN tResult'
    BY <2>1
  <2>3. tClear' \in BOOLEAN /\ tWhole' \in BOOLEAN /\ tCalls' \in 0..MaxSteps
    BY <1>l, <1>w
  <2> QED BY <1>l, <2>1, <2>2, <2>3, SiteFtp
<1>1. CASE Site!ProbeFails
  <2>1. /\ Site!InFTP("probe") /\ Site!Leaves([ok |-> FALSE]) /\ (Site!Fault \/ tFaults' = tFaults)
        /\ UNCHANGED <<tAcct, tWeb, tWhole, tClear, tBehind, tUp, tPin, tCalls>>
    BY <1>1 DEF Site!ProbeFails, Site!httpVars
  <2>2. tFaults' \in 0..MaxSlips
    BY <1>w, <2>1, SiteFault
  <2> QED BY <1>w, <1>l, <2>1, <2>2
<1>2. ASSUME NEW read \in BOOLEAN, Site!Probed(read)
      PROVE  Site!IInv'
  <2>1. /\ Site!InFTP("probe") /\ (Site!Fault \/ tFaults' = tFaults)
        /\ UNCHANGED <<tAcct, tWhole, tClear, tBehind, tUp, tPin, tCalls, tWeb>>
    BY <1>2 DEF Site!Probed, Site!httpVars
  <2>2. tFaults' \in 0..MaxSlips
    BY <1>w, <2>1, SiteFault
  <2>3. CASE tCall.kind = "probe"
    <3>1. Site!Leaves([ok |-> TRUE])
      BY <1>2, <2>3 DEF Site!Probed
    <3> QED BY <1>w, <1>l, <2>1, <2>2, <3>1
  <2>4. CASE tCall.kind = "remove"
    <3>1. tCall' = [tCall EXCEPT !.at = "delete"] /\ UNCHANGED <<tOpen, tResult>>
      BY <1>2, <2>4 DEF Site!Probed
    <3>2. /\ tCall' \in Site!FtpCalls /\ tCall'.at = "delete" /\ tCall'.rung = tCall.rung /\ tCall'.mode = tCall.mode
          /\ tCall'.tls = tCall.tls /\ tCall'.report = tCall.report /\ tCall'.file = tCall.file
      BY <1>w, <2>1, <3>1 DEF Site!FtpCalls
    <3> QED BY <1>w, <2>1, <2>2, <3>1, <3>2, SiteForms, SiteFtp
  <2>5. CASE tCall.kind \notin {"probe", "remove"}
    <3>1. /\ tCall' = [tCall EXCEPT !.at = "put", !.file = 1, !.token = Site!TokenFor(Site!SeenToken(read))]
          /\ UNCHANGED <<tOpen, tResult>>
      BY <1>2, <2>5 DEF Site!Probed
    <3>2. PICK token \in Site!Tokens : token = Site!TokenFor(Site!SeenToken(read))
      <4>1. tCall.asked \in {None, "asked"}
        BY <1>w, <2>1 DEF Site!FtpCalls
      <4>2. Site!SeenToken(read) \in Site!Tokens \cup {None}
        BY DEF Site!SeenToken
      <4>3. Site!TokenFor(Site!SeenToken(read)) \in Site!Tokens
        BY <4>1, <4>2 DEF Site!TokenFor, Site!Tokens
      <4> QED BY <4>3
    <3>3. tCall' = [tCall EXCEPT !.at = "put", !.file = 1, !.token = token]
      BY <3>1, <3>2
    <3>4. /\ tCall' \in Site!FtpCalls /\ tCall'.at = "put" /\ tCall'.rung = tCall.rung /\ tCall'.mode = tCall.mode
          /\ tCall'.tls = tCall.tls /\ tCall'.report = tCall.report /\ tCall'.file = 1 /\ tCall'.token = token
      <4> DEFINE c == [tCall EXCEPT !.at = "put"]
                 d == [c EXCEPT !.file = 1]
      <4>1. tCall \in Site!FtpCalls
        BY <1>w, <2>1
      <4>2. /\ c \in Site!FtpCalls /\ c.at = "put" /\ c.rung = tCall.rung /\ c.mode = tCall.mode
            /\ c.tls = tCall.tls /\ c.report = tCall.report
        BY <4>1 DEF Site!FtpCalls
      <4>3. tCall' = [d EXCEPT !.token = token]
        BY <3>3
      <4> HIDE DEF c
      <4>4. /\ d \in Site!FtpCalls /\ d.at = "put" /\ d.rung = tCall.rung /\ d.mode = tCall.mode
            /\ d.tls = tCall.tls /\ d.report = tCall.report /\ d.file = 1
        BY <4>2 DEF Site!FtpCalls
      <4> HIDE DEF d
      <4> QED BY <4>3, <4>4 DEF Site!FtpCalls
    <3>5. token # None
      BY SiteAssumption DEF Site!Tokens
    <3> QED BY <1>w, <2>1, <2>2, <3>1, <3>4, <3>5, SiteForms, SiteFtp
  <2> QED BY <2>3, <2>4, <2>5
\* The file being sent.
<1>f. ASSUME Site!InFTP("put")
      PROVE  /\ tCall.file \in 1..3 /\ tCall.token \in Site!Tokens
             /\ Site!File \in {"lib", "parser", "config"}
             /\ (Site!File = "lib" <=> tCall.file = 1) /\ (Site!File = "parser" <=> tCall.file = 2)
             /\ (Site!File = "config" <=> tCall.file = 3)
             /\ tAcct.sizes /\ Site!File # "lib" => "lib" \in tWeb.files
             /\ Site!With(Site!File) \in [files : SUBSET {"lib", "parser"}, config : Site!Tokens \cup {None, "torn"}]
             /\ Site!With(Site!File).files = IF Site!File = "config" THEN tWeb.files ELSE tWeb.files \cup {Site!File}
             /\ Site!With(Site!File).config = IF Site!File = "config" THEN tCall.token ELSE tWeb.config
             /\ Site!Torn(Site!File) \in [files : SUBSET {"lib", "parser"}, config : Site!Tokens \cup {None, "torn"}]
             /\ Site!Torn(Site!File).files = IF Site!File = "config" THEN tWeb.files ELSE tWeb.files \ {Site!File}
             /\ Site!Torn(Site!File).config = IF Site!File = "config" THEN "torn" ELSE tWeb.config
  <2>1. tCall.file \in 1..3 /\ tCall.token \in Site!Tokens
    BY <1>f, <1>w DEF Site!FtpCalls
  <2>2. /\ Site!File \in {"lib", "parser", "config"}
        /\ (Site!File = "lib" <=> tCall.file = 1) /\ (Site!File = "parser" <=> tCall.file = 2)
        /\ (Site!File = "config" <=> tCall.file = 3)
    BY <2>1, SiteFile
  <2>3. tAcct.sizes /\ Site!File # "lib" => "lib" \in tWeb.files
    <3>1. tCall.file # 1 => tCall.file >= 2
      BY <2>1
    <3> QED BY <1>f, <1>w, <2>2, <3>1
  <2>4. Site!Shape
    BY DEF Site!IInv
  <2> QED BY <2>1, <2>2, <2>3, <2>4, SiteFiles
<1>3. CASE Site!Put
  <2>1. /\ Site!InFTP("put") /\ tWeb' = Site!With(Site!File) /\ tWhole' = (tWhole \/ Site!IsWhole(tWeb'))
        /\ Site!NextFile({}) /\ UNCHANGED <<tAcct, tClear, tBehind, tUp, tPin, tCalls, tFaults>>
    BY <1>3 DEF Site!Put, Site!httpVars
  <2>2. tWeb' \in [files : SUBSET {"lib", "parser"}, config : Site!Tokens \cup {None, "torn"}]
    BY <1>f, <2>1
  <2>3. tAcct.sizes => "lib" \in tWeb'.files
    BY <1>f, <2>1
  <2>4. tWeb'.config \in Site!Tokens /\ tAcct.sizes => tWhole'
    BY <2>1, <2>3 DEF Site!IsWhole
  <2>5. tWhole' \in BOOLEAN /\ tFaults' \in 0..MaxSlips
    <3>1. tWhole' \in BOOLEAN
      BY <1>w, <2>1 DEF Site!IsWhole
    <3> QED BY <1>w, <2>1, <3>1
  <2> QED BY <2>1, <2>2, <2>3, <2>4, <2>5, SiteNext
\* A part of a file leaves no token that was not there.
<1>t. ASSUME Site!InFTP("put"), tWeb' = Site!Torn(Site!File), UNCHANGED <<tAcct, tWhole>>
      PROVE  /\ tWeb' \in [files : SUBSET {"lib", "parser"}, config : Site!Tokens \cup {None, "torn"}]
             /\ tWeb'.config \in Site!Tokens /\ tAcct.sizes => tWhole
             /\ tAcct.sizes /\ Site!File # "lib" => "lib" \in tWeb'.files
  <2>1. "torn" \notin Site!Tokens
    BY DEF Site!Tokens
  <2> QED BY <1>f, <1>t, <1>w, <2>1
<1>4. CASE Site!PutShort
  <2>1. /\ Site!InFTP("put") /\ tWeb' = Site!Torn(Site!File) /\ ~tAcct.sizes /\ Site!Fault
        /\ Site!NextFile({}) /\ UNCHANGED <<tAcct, tWhole, tClear, tBehind, tUp, tPin, tCalls>>
    BY <1>4 DEF Site!PutShort, Site!httpVars
  <2>2. tWhole' \in BOOLEAN /\ tFaults' \in 0..MaxSlips
    BY <1>w, <2>1, SiteFault
  <2> QED BY <1>t, <2>1, <2>2, SiteNext
<1>5. CASE Site!PutFails
  <2>1. /\ Site!InFTP("put") /\ tWeb' = Site!Torn(Site!File) /\ (Site!Fault \/ tFaults' = tFaults)
        /\ UNCHANGED <<tAcct, tWhole, tClear, tBehind, tUp, tPin, tCalls>>
    BY <1>5 DEF Site!PutFails, Site!httpVars
  <2>2. tWhole' \in BOOLEAN /\ tFaults' \in 0..MaxSlips /\ tClear' \in BOOLEAN /\ tCalls' \in 0..MaxSteps
    BY <1>w, <2>1, SiteFault
  <2>3. CASE tCall.try < UploadTries
    <3>1. /\ tCall' = [tCall EXCEPT !.at = "dial", !.try = tCall.try + 1, !.mode = Site!RedialMode]
          /\ tOpen' = tOpen - 1 /\ tResult' = tResult
      BY <1>5, <2>3 DEF Site!PutFails
    <3>2. PICK mode \in {"auto", "explicit", "none"} : mode = Site!RedialMode /\ (tCall.tls = "explicit" => mode = "explicit")
      <4>1. tCall.tls \in {"auto", "explicit", "none"}
        BY <1>w, <2>1 DEF Site!FtpCalls
      <4>2. Site!RedialMode \in {"auto", "explicit", "none"} /\ (tCall.tls = "explicit" => Site!RedialMode = "explicit")
        BY <4>1 DEF Site!RedialMode
      <4> QED BY <4>2
    <3>3. PICK n \in Nat : n = tCall.try + 1
      <4>1. tCall.try + 1 \in Nat
        BY <1>w, <2>1 DEF Site!FtpCalls
      <4> QED BY <4>1
    <3>4. tCall' = [tCall EXCEPT !.at = "dial", !.try = n, !.mode = mode]
      BY <3>1, <3>2, <3>3
    <3>5. /\ tCall' \in Site!FtpCalls /\ tCall'.at = "dial" /\ tCall'.rung = tCall.rung /\ tCall'.mode = mode
          /\ tCall'.tls = tCall.tls /\ tCall'.report = tCall.report /\ tCall'.file = tCall.file /\ tCall'.token = tCall.token
      BY <1>w, <2>1, <3>4 DEF Site!FtpCalls
    <3>6. tCall'.rung <= Len(Site!Ladder(tCall'.mode))
      <4>1. PICK k \in 1..3 : k = Len(Site!Ladder(mode))
        BY SiteLadder
      <4>2. tCall'.rung = 1 /\ tCall'.mode = mode
        BY <1>w, <2>1, <3>5
      <4>3. 1 <= k
        OBVIOUS
      <4> QED BY <4>1, <4>2, <4>3
    <3>7. tAcct.sizes /\ tCall'.file >= 2 => "lib" \in tWeb'.files
      <4>1. tCall.file # 1 => Site!File # "lib"
        BY <1>f, <2>1
      <4>2. tCall'.file >= 2 => tCall.file # 1
        BY <1>f, <2>1, <3>5
      <4> QED BY <1>t, <2>1, <4>1, <4>2
    <3>8. /\ tOpen' = 0 /\ tResult' = None /\ tCall' # None
          /\ tCall'.token # None
          /\ tCall'.tls = "explicit" => tCall'.mode = "explicit"
          /\ tClear' => tCall'.tls # "explicit"
          /\ tClear' => tCall'.report = "none"
      BY <1>w, <2>1, <3>1, <3>2, <3>5, SiteForms
    <3> QED BY <1>t, <2>1, <2>2, <3>5, <3>6, <3>7, <3>8, SiteFtp
  <2>4. CASE ~(tCall.try < UploadTries) /\ Site!File = "parser"
    <3>1. Site!NextFile({"parser"})
      BY <1>5, <2>4 DEF Site!PutFails
    <3> QED BY <1>t, <2>1, <2>2, <2>4, <3>1, SiteNext
  <2>5. CASE ~(tCall.try < UploadTries) /\ Site!File # "parser"
    <3>1. Site!Leaves([ok |-> FALSE])
      BY <1>5, <2>5 DEF Site!PutFails
    <3> QED BY <1>t, <1>l, <2>1, <2>2, <3>1
  <2> QED BY <2>3, <2>4, <2>5
<1>6. CASE Site!Cancelled
  <2>1. /\ Site!InFTP("put") /\ Site!Leaves([ok |-> FALSE]) /\ Site!Fault
        /\ UNCHANGED <<tAcct, tWeb, tWhole, tClear, tBehind, tUp, tPin, tCalls>>
    BY <1>6 DEF Site!Cancelled, Site!httpVars
  <2>2. tFaults' \in 0..MaxSlips
    BY <1>w, <2>1, SiteFault
  <2> QED BY <1>w, <1>l, <2>1, <2>2
<1>7. ASSUME NEW stays \in SUBSET {"lib", "config"}, Site!Delete(stays)
      PROVE  Site!IInv'
  <2>1. /\ Site!InFTP("delete") /\ Site!Leaves([ok |-> TRUE]) /\ (Site!Fault \/ tFaults' = tFaults)
        /\ tWeb' = [files |-> tWeb.files \cap stays, config |-> IF "config" \in stays THEN tWeb.config ELSE None]
        /\ UNCHANGED <<tAcct, tWhole, tClear, tBehind, tUp, tPin, tCalls>>
    BY <1>7 DEF Site!Delete, Site!httpVars
  <2>2. tFaults' \in 0..MaxSlips
    BY <1>w, <2>1, SiteFault
  <2>3. /\ tWeb' \in [files : SUBSET {"lib", "parser"}, config : Site!Tokens \cup {None, "torn"}]
        /\ tWeb'.config \in {tWeb.config, None}
    BY <1>w, <2>1
  <2>4. None \notin Site!Tokens
    BY SiteAssumption DEF Site!Tokens
  <2> QED BY <1>w, <1>l, <2>1, <2>2, <2>3, <2>4
<1> QED BY <1>1, <1>2, <1>3, <1>4, <1>5, <1>6, <1>7

\* The order in which the candidates are asked leaves none out.
LEMMA SiteOrder ==
    ASSUME Site!Shape
    PROVE  /\ Site!Candidates \subseteq Nat \ {0} /\ None \notin Site!Candidates
           /\ \A k \in Site!Candidates : Site!Ordered[k] \in Site!Candidates
           /\ \A a \in Site!Candidates : \E k \in Site!Candidates : Site!Ordered[k] = a
<1>1. PICK n \in Nat : Site!Candidates = 1..n
  BY DEF Site!Shape, Site!Candidates
<1>2. Site!Candidates \subseteq Nat \ {0} /\ None \notin Site!Candidates
  BY <1>1, SiteAssumption
<1>3. CASE tPin = None
  <2>1. \A k \in Site!Candidates : Site!Ordered[k] = k
    BY <1>3 DEF Site!Ordered
  <2> QED BY <1>2, <2>1
<1>4. CASE tPin # None
  <2>1. tPin \in 1..n
    BY <1>1, <1>4 DEF Site!Shape
  <2>2. \A k \in 1..n : Site!Ordered[k] = IF k = 1 THEN tPin ELSE IF k <= tPin THEN k - 1 ELSE k
    BY <1>1, <1>4 DEF Site!Ordered
  <2>3. \A k \in 1..n : Site!Ordered[k] \in 1..n
    BY <2>1, <2>2
  <2>4. ASSUME NEW a \in 1..n
        PROVE  \E k \in 1..n : Site!Ordered[k] = a
    <3>1. CASE a = tPin
      <4>1. 1 \in 1..n /\ Site!Ordered[1] = a
        BY <2>2, <3>1
      <4> QED BY <4>1
    <3>2. CASE a < tPin
      <4>1. a + 1 \in 1..n /\ Site!Ordered[a + 1] = a
        BY <2>1, <2>2, <3>2
      <4> QED BY <4>1
    <3>3. CASE a > tPin
      <4>1. a \in 1..n /\ Site!Ordered[a] = a
        BY <2>1, <2>2, <3>3
      <4> QED BY <4>1
    <3> QED BY <2>1, <3>1, <3>2, <3>3
  <2> QED BY <1>1, <1>2, <2>3, <2>4
<1> QED BY <1>3, <1>4

\* The first of some candidates is one of them, and there is one if there are any.
LEMMA SiteForemost ==
    ASSUME Site!Shape, NEW K \in SUBSET Site!Candidates
    PROVE  IF K = {} THEN Site!Foremost(K) = None
           ELSE \E k \in K : Site!Foremost(K) = Site!Ordered[k]
<1>1. CASE K = {}
  BY <1>1 DEF Site!Foremost
<1>2. CASE K # {}
  <2>1. K \subseteq Nat
    BY SiteOrder
  <2>2. \E m \in K : \A k \in K : m <= k
    BY <1>2, <2>1, Least
  <2>3. Site!Min(K) \in K
    BY <2>2 DEF Site!Min
  <2> QED BY <1>2, <2>3 DEF Site!Foremost
<1> QED BY <1>1, <1>2

\* Who answers is the node and is there; with nobody down it answers if it is anywhere.
LEMMA SiteAnswers ==
    ASSUME Site!Shape, NEW down
    PROVE  /\ Site!First(down) \in Site!Candidates \cup {None}
           /\ Site!Answerer(down) \in Site!Candidates \cup {None}
           /\ Site!Answerer(down) # None => Site!IsNode(Site!Answerer(down), down)
           /\ Site!Pinned(down) \in Site!Candidates \cup {None}
           /\ down = {} => (Site!Answerer(down) # None <=> \E a \in Site!Candidates : tBehind[a] = "node")
<1> DEFINE C == {k \in Site!Candidates : tBehind[Site!Ordered[k]] # "dead" /\ Site!Ordered[k] \notin down}
           N == {k \in Site!Candidates \ {1} : Site!IsNode(Site!Ordered[k], down)}
<1>1. IF C = {} THEN Site!First(down) = None ELSE \E k \in C : Site!First(down) = Site!Ordered[k]
  BY SiteForemost DEF Site!First
<1>2. IF N = {} THEN Site!Another(down) = None ELSE \E k \in N : Site!Another(down) = Site!Ordered[k]
  BY SiteForemost DEF Site!Another
<1>3. /\ Site!Candidates \subseteq Nat \ {0} /\ None \notin Site!Candidates
      /\ \A k \in Site!Candidates : Site!Ordered[k] \in Site!Candidates
      /\ \A a \in Site!Candidates : \E k \in Site!Candidates : Site!Ordered[k] = a
  BY SiteOrder
<1>4. /\ Site!First(down) \in Site!Candidates \cup {None}
      /\ Site!Another(down) \in Site!Candidates \cup {None}
      /\ Site!Another(down) # None => Site!IsNode(Site!Another(down), down)
  BY <1>1, <1>2, <1>3
<1>5. ASSUME down = {}, NEW a \in Site!Candidates, tBehind[a] = "node"
      PROVE  Site!Answerer(down) # None
  <2>1. PICK k \in Site!Candidates : Site!Ordered[k] = a
    BY <1>3
  <2>2. Site!IsNode(a, down)
    BY <1>3, <1>5 DEF Site!IsNode
  <2>3. CASE k # 1
    <3>1. k \in N
      BY <2>1, <2>2, <2>3
    <3>2. Site!Another(down) # None
      BY <1>2, <1>3, <3>1
    <3> QED BY <3>2 DEF Site!Answerer, Site!IsNode
  <2>4. CASE k = 1
    <3>1. k \in C /\ \A j \in C : k <= j
      BY <1>3, <1>5, <2>1, <2>4
    <3>2. Site!Min(C) = 1
      <4>1. \A m \in C : (\A j \in C : m <= j) => m = 1
        BY <1>3, <2>4, <3>1
      <4>2. \E m \in C : \A j \in C : m <= j
        BY <3>1
      <4> HIDE DEF C
      <4> QED BY <4>1, <4>2 DEF Site!Min
    <3>3. Site!First(down) = Site!Ordered[Site!Min(C)]
      BY <3>1 DEF Site!First, Site!Foremost
    <3>4. Site!First(down) = a
      BY <2>1, <2>4, <3>2, <3>3
    <3> QED BY <2>2, <3>4 DEF Site!Answerer, Site!IsNode
  <2> QED BY <2>3, <2>4
<1> HIDE DEF C, N
<1>6. Site!Answerer(down) # None => Site!IsNode(Site!Answerer(down), down)
  BY <1>4 DEF Site!Answerer
<1>7. Site!Answerer(down) \in Site!Candidates \cup {None} /\ Site!Pinned(down) \in Site!Candidates \cup {None}
  BY <1>4 DEF Site!Answerer, Site!Pinned, Site!Shape
<1>8. down = {} /\ Site!Answerer(down) # None => \E a \in Site!Candidates : tBehind[a] = "node"
  BY <1>6, <1>7 DEF Site!IsNode
<1> QED BY <1>4, <1>5, <1>6, <1>7, <1>8

\* The steps of the site: every action of Check, Node, Start and Stop.
LEMMA SiteAsksSite ==
    ASSUME Site!IInv, NEW down,
           \/ \E kind \in {"check", "node", "start", "stop"} : Site!AskSite(kind)
           \/ Site!Looked("check", down) \/ Site!Looked("node", down) \/ Site!Stopped(down)
           \/ Site!StartLooks(down) \/ Site!StartRuns(down) \/ Site!StartPolls(down)
           \/ Site!StartBarred
    PROVE  Site!IInv'
<1>s. Site!Shape
  BY DEF Site!IInv
<1>1. ASSUME NEW kind \in {"check", "node", "start", "stop"}, Site!AskSite(kind)
      PROVE  Site!IInv'
  <2>1. /\ tCall = None /\ tCalls' = tCalls + 1 /\ tCalls < MaxSteps /\ tClear' = FALSE /\ tResult' = None /\ tPin' = None
        /\ tCall' = [kind |-> kind, ask |-> "first", polls |-> 0, ran |-> {}, sure |-> TRUE]
        /\ UNCHANGED <<tAcct, tWeb, tWhole, tOpen, tBehind, tUp, tFaults>>
    BY <1>1 DEF Site!AskSite, Site!Idle
  <2>2. tCall' \in Site!SiteCalls /\ tCall'.ran = {}
    BY <2>1 DEF Site!SiteCalls
  <2>3. /\ tOpen = 0 /\ tCalls' \in 0..MaxSteps /\ tFaults' \in 0..MaxSlips
        /\ tUp' \in [Site!Candidates -> {"none", "starting", "running"}] /\ tPin' \in Site!Candidates \cup {None}
    <3>1. /\ tOpen = 0 /\ tCalls \in 0..MaxSteps /\ tFaults \in 0..MaxSlips
          /\ tUp \in [Site!Candidates -> {"none", "starting", "running"}]
      BY <2>1, SiteAsking
    <3> QED BY <2>1, <3>1, SiteAssumption
  <2> QED BY <2>1, <2>2, <2>3, SiteSite
\* What is known while the site is asked.
<1>a. ASSUME NEW kind, NEW step, Site!Asking(kind, step)
      PROVE  /\ tCall \in Site!SiteCalls /\ tCall.kind = kind /\ tCall.ask = step
             /\ tOpen = 0 /\ tCalls \in 0..MaxSteps /\ tFaults \in 0..MaxSlips
             /\ tUp \in [Site!Candidates -> {"none", "starting", "running"}]
             /\ tPin \in Site!Candidates \cup {None}
             /\ tClear = FALSE /\ tResult = None /\ \A a, b \in tCall.ran : a = b
  <2>1. tCall # None /\ "ask" \in DOMAIN tCall /\ tCall.kind = kind /\ tCall.ask = step
    BY <1>a DEF Site!Asking, Site!Idle
  <2> QED BY <2>1, SiteAsking
<1>d. ASSUME Site!Down(down), tFaults \in 0..MaxSlips
      PROVE  tFaults' \in 0..MaxSlips
  BY <1>d, SiteFault DEF Site!Down
\* An answer of the site's.
<1>r. ASSUME NEW ok \in BOOLEAN, NEW kind, NEW sure \in BOOLEAN, tCall' = None, tClear' = FALSE,
             tResult' = [ok |-> ok, kind |-> kind, sure |-> sure],
             sure /\ kind \in {"check", "node"} => (ok <=> \E a \in Site!Candidates : tBehind[a] = "node"),
             UNCHANGED <<tAcct, tWeb, tWhole, tOpen, tBehind, tCalls>>, tOpen = 0,
             tUp' \in [Site!Candidates -> {"none", "starting", "running"}], tPin' \in Site!Candidates \cup {None},
             tCalls \in 0..MaxSteps, tFaults' \in 0..MaxSlips
      PROVE  Site!IInv'
  <2>1. "security" \notin DOMAIN tResult' /\ tResult'.ok = ok /\ tResult'.kind = kind /\ tResult'.sure = sure
    BY <1>r
  <2>2. tCalls' \in 0..MaxSteps
    BY <1>r
  <2> QED BY <1>r, <2>1, <2>2, SiteSite
<1>2. ASSUME NEW kind \in {"check", "node"}, Site!Looked(kind, down)
      PROVE  Site!IInv'
  <2>1. /\ Site!Asking(kind, "first") /\ Site!Down(down) /\ tPin' = Site!Pinned(down) /\ tCall' = None
        /\ tResult' = [ok |-> Site!Answerer(down) # None, kind |-> kind, sure |-> down = {}]
        /\ UNCHANGED <<tAcct, tWeb, tWhole, tOpen, tClear, tBehind, tUp, tCalls>>
    BY <1>2 DEF Site!Looked, Site!Answer, Site!ftpVars
  <2>2. tPin' \in Site!Candidates \cup {None} /\ tFaults' \in 0..MaxSlips
    BY <1>a, <1>d, <1>s, <2>1, SiteAnswers
  <2>3. PICK ok \in BOOLEAN, sure \in BOOLEAN : ok = (Site!Answerer(down) # None) /\ sure = (down = {})
    OBVIOUS
  <2>4. tResult' = [ok |-> ok, kind |-> kind, sure |-> sure]
    BY <2>1, <2>3
  <2>5. sure => (ok <=> \E a \in Site!Candidates : tBehind[a] = "node")
    BY <1>s, <2>3, SiteAnswers
  <2> QED BY <1>a, <1>r, <2>1, <2>2, <2>4, <2>5
<1>3. CASE Site!Stopped(down)
  <2>1. /\ Site!Asking("stop", "first") /\ Site!Down(down) /\ tPin' = Site!Pinned(down) /\ tCall' = None
        /\ tResult' = [ok |-> Site!First(down) # None, kind |-> "stop", sure |-> FALSE]
        /\ tUp' = IF Site!Answerer(down) # None THEN [tUp EXCEPT ![Site!Answerer(down)] = "none"] ELSE tUp
        /\ UNCHANGED <<tAcct, tWeb, tWhole, tOpen, tClear, tBehind, tCalls>>
    BY <1>3 DEF Site!Stopped, Site!Answer, Site!ftpVars
  <2>2. tPin' \in Site!Candidates \cup {None} /\ tFaults' \in 0..MaxSlips
    BY <1>a, <1>d, <1>s, <2>1, SiteAnswers
  <2>3. PICK ok \in BOOLEAN : ok = (Site!First(down) # None)
    OBVIOUS
  <2>4. tResult' = [ok |-> ok, kind |-> "stop", sure |-> FALSE]
    BY <2>1, <2>3
  <2>5. tUp' \in [Site!Candidates -> {"none", "starting", "running"}]
    BY <1>a, <2>1
  <2> QED BY <1>a, <1>r, <2>1, <2>2, <2>4, <2>5
<1>4. CASE Site!StartLooks(down)
  <2>1. /\ Site!Asking("start", "first") /\ Site!Down(down) /\ tPin' = Site!Pinned(down)
        /\ UNCHANGED <<tAcct, tWeb, tWhole, tOpen, tClear, tBehind, tUp, tCalls>>
        /\ \/ tCall' = None /\ tResult' = [ok |-> TRUE, kind |-> "start", sure |-> FALSE]
           \/ tCall' = [tCall EXCEPT !.ask = "run"] /\ tResult' = tResult
    BY <1>4 DEF Site!StartLooks, Site!Answer, Site!ftpVars
  <2>2. tPin' \in Site!Candidates \cup {None} /\ tFaults' \in 0..MaxSlips
    BY <1>a, <1>d, <1>s, <2>1, SiteAnswers
  <2>3. CASE tCall' = None /\ tResult' = [ok |-> TRUE, kind |-> "start", sure |-> FALSE]
    BY <1>a, <1>r, <2>1, <2>2, <2>3
  <2>4. CASE tCall' = [tCall EXCEPT !.ask = "run"] /\ tResult' = tResult
    <3>1. tCall' \in Site!SiteCalls /\ tCall'.ran = tCall.ran
      BY <1>a, <2>1, <2>4 DEF Site!SiteCalls
    <3>2. tCalls' \in 0..MaxSteps /\ tClear' = FALSE /\ tResult' = None /\ tOpen = 0
          /\ tUp' \in [Site!Candidates -> {"none", "starting", "running"}]
      BY <1>a, <2>1, <2>4
    <3>3. \A a, b \in tCall'.ran : a = b
      BY <1>a, <2>1, <3>1
    <3> QED BY <2>1, <2>2, <3>1, <3>2, <3>3, SiteSite
  <2> QED BY <2>1, <2>3, <2>4
<1>5. CASE Site!StartRuns(down)
  <2>1. /\ Site!Asking("start", "run") /\ Site!Down(down) /\ tUp' = Site!Started(Site!RunAsks(down))
        /\ tCall' = [tCall EXCEPT !.ask = "poll", !.ran = {a \in Site!RunAsks(down) : tBehind[a] = "node"}]
        /\ UNCHANGED <<tAcct, tWeb, tWhole, tOpen, tClear, tBehind, tPin, tResult, tCalls>>
    BY <1>5 DEF Site!StartRuns, Site!ftpVars
  <2>2. PICK ran \in SUBSET Nat : ran = {a \in Site!RunAsks(down) : tBehind[a] = "node"} /\ \A a, b \in ran : a = b
    <3>1. Site!First(down) \in Site!Candidates \cup {None} /\ Site!Candidates \subseteq Nat
      BY <1>s, SiteAnswers, SiteOrder
    <3> DEFINE X == Site!First(down)
               R == Site!RunAsks(down)
               N == {a \in R : tBehind[a] = "node"}
    <3>2. R \subseteq {X} /\ R \subseteq Nat
      BY <3>1 DEF Site!RunAsks
    <3>3. N \subseteq R
      OBVIOUS
    <3>4. N \in SUBSET Nat /\ \A a, b \in N : a = b
      <4> HIDE DEF X, R, N
      <4> QED BY <3>2, <3>3
    <3> QED BY <3>4
  <2>3. tCall' = [tCall EXCEPT !.ask = "poll", !.ran = ran]
    BY <2>1, <2>2
  <2>4. tCall' \in Site!SiteCalls /\ tCall'.ran = ran
    BY <1>a, <2>1, <2>3 DEF Site!SiteCalls
  <2>5. tUp' \in [Site!Candidates -> {"none", "starting", "running"}]
    BY <1>a, <2>1 DEF Site!Started
  <2>6. tCalls' \in 0..MaxSteps /\ tFaults' \in 0..MaxSlips /\ tClear' = FALSE /\ tResult' = None /\ tOpen = 0
        /\ tPin' \in Site!Candidates \cup {None}
    BY <1>a, <1>d, <2>1
  <2> QED BY <2>1, <2>2, <2>4, <2>5, <2>6, SiteSite
<1>6. CASE Site!StartPolls(down)
  <2>1. /\ Site!Asking("start", "poll") /\ Site!Down(down) /\ tPin' = Site!Pinned(down)
        /\ UNCHANGED <<tAcct, tWeb, tWhole, tOpen, tClear, tBehind, tUp, tCalls>>
        /\ \/ \E ok \in BOOLEAN : tCall' = None /\ tResult' = [ok |-> ok, kind |-> "start", sure |-> FALSE]
           \/ /\ tCall' = [tCall EXCEPT !.polls = IF tCall.polls + 1 < MaxPolls THEN tCall.polls + 1 ELSE tCall.polls]
              /\ tResult' = tResult
    BY <1>6 DEF Site!StartPolls, Site!Answer, Site!ftpVars
  <2>2. tPin' \in Site!Candidates \cup {None} /\ tFaults' \in 0..MaxSlips
    BY <1>a, <1>d, <1>s, <2>1, SiteAnswers
  <2>3. ASSUME NEW ok \in BOOLEAN, tCall' = None, tResult' = [ok |-> ok, kind |-> "start", sure |-> FALSE]
        PROVE  Site!IInv'
    BY <1>a, <1>r, <2>1, <2>2, <2>3
  <2>4. CASE /\ tCall' = [tCall EXCEPT !.polls = IF tCall.polls + 1 < MaxPolls THEN tCall.polls + 1 ELSE tCall.polls]
             /\ tResult' = tResult
    <3>1. PICK n \in Nat : n = IF tCall.polls + 1 < MaxPolls THEN tCall.polls + 1 ELSE tCall.polls
      <4>1. tCall.polls \in Nat
        BY <1>a, <2>1 DEF Site!SiteCalls
      <4> QED BY <4>1
    <3>2. tCall' = [tCall EXCEPT !.polls = n]
      BY <2>4, <3>1
    <3>3. tCall' \in Site!SiteCalls /\ tCall'.ran = tCall.ran
      BY <1>a, <2>1, <3>2 DEF Site!SiteCalls
    <3>4. tCalls' \in 0..MaxSteps /\ tClear' = FALSE /\ tResult' = None /\ tOpen = 0
          /\ tUp' \in [Site!Candidates -> {"none", "starting", "running"}]
      BY <1>a, <2>1, <2>4
    <3>5. \A a, b \in tCall'.ran : a = b
      BY <1>a, <2>1, <3>3
    <3> QED BY <2>1, <2>2, <3>3, <3>4, <3>5, SiteSite
  <2> QED BY <2>1, <2>3, <2>4
<1>7. CASE Site!StartBarred
  <2>1. /\ Site!Asking("start", "run") /\ Site!Fault /\ tCall' = None
        /\ tResult' = [ok |-> FALSE, kind |-> "start", sure |-> FALSE]
        /\ UNCHANGED <<tAcct, tWeb, tWhole, tOpen, tClear, tBehind, tUp, tPin, tCalls>>
    BY <1>7 DEF Site!StartBarred, Site!Answer, Site!ftpVars, Site!httpVars
  <2>2. tFaults' \in 0..MaxSlips
    BY <1>a, <2>1, SiteFault
  <2> QED BY <1>a, <1>r, <2>1, <2>2
<1> QED BY <1>1, <1>2, <1>3, <1>4, <1>5, <1>6, <1>7

LEMMA SiteStep ==
    ASSUME Site!IInv, Site!Next
    PROVE  Site!IInv'
<1>1. CASE Site!Asked
  BY <1>1, SiteDials, SiteAsksSite DEF Site!Asked
<1>2. CASE Site!Luckily
  BY <1>2, SiteDials, SiteSends, SiteAsksSite DEF Site!Luckily
<1>3. CASE Site!Badly
  BY <1>3, SiteDials, SiteSends, SiteAsksSite DEF Site!Badly
<1>4. ASSUME NEW a \in Site!Candidates, NEW to \in {"running", "none"}, Site!NodeTurns(a, to)
      PROVE  Site!IInv'
  <2>1. /\ tUp' = [tUp EXCEPT ![a] = to]
        /\ UNCHANGED <<tAcct, tWeb, tWhole, tOpen, tClear, tBehind, tPin, tCall, tResult, tCalls, tFaults>>
    BY <1>4 DEF Site!NodeTurns, Site!ftpVars
  <2>2. tUp' \in [Site!Candidates' -> {"none", "starting", "running"}]
    BY <2>1 DEF Site!IInv, Site!Shape, Site!Candidates
  <2>3. Site!Shape'
    BY <2>1, <2>2 DEF Site!IInv, Site!Shape, Site!Candidates, Site!Idle, Site!OnFtp, Site!OnSite, Site!Tokens
  <2>4. Site!Sending' /\ Site!Telling' /\ Site!Starting' /\ Site!FindsNode'
    BY <2>1 DEF Site!IInv, Site!Sending, Site!Telling, Site!Starting, Site!FindsNode, Site!HalfHasNoToken, Site!OnFtp,
      Site!OnSite, Site!Candidates, Site!Tokens
  <2> QED BY <2>3, <2>4 DEF Site!IInv
<1> QED BY <1>1, <1>2, <1>3, <1>4 DEF Site!Next

LEMMA SiteRests ==
    ASSUME Site!IInv, UNCHANGED siteVars
    PROVE  Site!IInv'
<1>1. UNCHANGED <<tAcct, tWeb, tWhole, tBehind, tUp, tPin, tCall, tOpen, tClear, tResult, tCalls, tFaults>>
  BY DEF siteVars
<1>2. Site!Shape'
  BY <1>1 DEF Site!IInv, Site!Shape, Site!Candidates, Site!Idle, Site!OnFtp, Site!OnSite, Site!Tokens
<1>3. Site!Sending' /\ Site!Telling' /\ Site!Starting' /\ Site!FindsNode'
  BY <1>1 DEF Site!IInv, Site!Sending, Site!Telling, Site!Starting, Site!FindsNode, Site!HalfHasNoToken, Site!OnFtp,
    Site!OnSite, Site!Candidates, Site!Tokens
<1> QED BY <1>2, <1>3 DEF Site!IInv

\* What the module promises follows.
LEMMA SitePromise ==
    Site!IInv => Site!TypeOK /\ Site!HalfHasNoToken /\ Site!SaysPlain /\ Site!StartsOne /\ Site!FindsNode
<1> SUFFICES ASSUME Site!IInv
             PROVE  Site!TypeOK /\ Site!HalfHasNoToken /\ Site!SaysPlain /\ Site!StartsOne /\ Site!FindsNode
  OBVIOUS
<1>i. Site!Shape /\ Site!Sending /\ Site!Telling /\ Site!Starting
  BY DEF Site!IInv
<1>f. (Site!Idle => ~Site!OnFtp /\ ~Site!OnSite) /\ (Site!OnFtp => ~Site!OnSite)
  BY SiteForms DEF Site!Idle, Site!OnFtp, Site!OnSite
<1>1. Site!TypeOK
  BY <1>i, <1>f, SiteAssumption DEF Site!TypeOK, Site!Shape
<1>2. Site!SaysPlain
  <2>1. ~Site!Idle /\ tClear => tCall.tls \in {"auto", "none"}
    <3>1. Site!OnFtp => tCall.tls \in {"auto", "explicit", "none"}
      BY DEF Site!OnFtp, Site!FtpCalls
    <3> QED BY <1>i, <3>1 DEF Site!Shape, Site!Telling
  <2> QED BY <1>i, <2>1 DEF Site!SaysPlain, Site!Telling
<1>3. Site!StartsOne
  <2> SUFFICES ASSUME ~Site!Idle, tCall.kind = "start"
               PROVE  Site!Cardinality(tCall.ran) <= 1
    BY DEF Site!StartsOne
  <2>1. Site!OnSite
    <3>1. Site!OnFtp => tCall.kind # "start"
      BY DEF Site!OnFtp, Site!FtpCalls
    <3> QED BY <1>i, <3>1 DEF Site!Shape
  <2>2. \A a, b \in tCall.ran : a = b
    BY <1>i, <2>1 DEF Site!Starting
  <2>3. \A S : Site!Cardinality(S) = Cardinality(S)
    BY DEF Site!Cardinality, Cardinality
  <2>4. CASE tCall.ran = {}
    BY <2>3, <2>4, FS_EmptySet
  <2>5. ASSUME NEW a \in tCall.ran
        PROVE  Site!Cardinality(tCall.ran) <= 1
    <3>1. tCall.ran = {a}
      BY <2>2
    <3>2. Cardinality({a}) = 1
      BY FS_Singleton
    <3>3. Site!Cardinality({a}) = 1
      BY <2>3, <3>2
    <3> QED BY <3>1, <3>3
  <2> QED BY <2>4, <2>5
<1> QED BY <1>i, <1>1, <1>2, <1>3 DEF Site!IInv, Site!Sending

-----------------------------------------------------------------------------
\* The node wizard and the installer it starts (NodeInstall)

CONSTANTS
    \* of NodeInstall: its Channels, Sudos, Scenes and bounds
    Chans, Roots, Orders, MaxOrders, MaxLogins, MaxBreaks

VARIABLES
    iScene, iConn, iCall, iFiles, iJobs, iNode, iBase, iMine, iLinks, iAsked,
    iConnects, iFaults, iLost, iCrossed

installVars ==
    <<iScene, iConn, iCall, iFiles, iJobs, iNode, iBase, iMine, iLinks, iAsked,
    iConnects, iFaults, iLost, iCrossed>>

Install == INSTANCE NodeInstall WITH
    scene <- iScene, conn <- iConn, call <- iCall, files <- iFiles,
    jobs <- iJobs, node <- iNode, base <- iBase, mine <- iMine,
    links <- iLinks, asked <- iAsked, connects <- iConnects,
    faults <- iFaults, lost <- iLost, crossed <- iCrossed,
    Channels <- Chans, Sudos <- Roots, Scenes <- Orders,
    MaxCommands <- MaxOrders, MaxConnects <- MaxLogins, MaxFaults <- MaxBreaks
\* Nothing is none of the things the wizard and the installer keep.
ASSUME InstallAssumption ==
    /\ \A s \in Orders : s.chans \subseteq Chans
    /\ MaxOrders \in Nat /\ MaxLogins \in Nat /\ MaxBreaks \in Nat
    /\ (\A kit \in Install!Kits : None # kit) /\ None \notin Install!Conns /\ None \notin Install!Calls
    /\ None \notin Install!Jobs /\ None \notin Install!Had

LEMMA InstallSizes ==
    \A S : Install!Cardinality(S) = Cardinality(S)
BY DEF Install!Cardinality, Cardinality

\* One more is one more.
LEMMA InstallCounts ==
    ASSUME NEW n \in Nat, NEW S \in SUBSET 1..n, NEW T, NEW a, T \subseteq S \cup {a}
    PROVE  /\ Install!Cardinality(S) \in Nat /\ Install!Cardinality(T) <= Install!Cardinality(S) + 1
           /\ T \subseteq S => Install!Cardinality(T) <= Install!Cardinality(S)
<1>1. IsFiniteSet(S)
  <2>1. IsFiniteSet(1..n)
    BY FS_Interval
  <2> QED BY <2>1, FS_Subset
<1>2. IsFiniteSet(S \cup {a}) /\ (Cardinality(S \cup {a}) = Cardinality(S) \/ Cardinality(S \cup {a}) = Cardinality(S) + 1)
  BY <1>1, FS_AddElement
<1>3. IsFiniteSet(T) /\ Cardinality(T) <= Cardinality(S \cup {a}) /\ (T \subseteq S => Cardinality(T) <= Cardinality(S))
  BY <1>1, <1>2, FS_Subset
<1>4. Cardinality(S) \in Nat /\ Cardinality(T) \in Nat
  BY <1>1, <1>3, FS_CardinalityType
<1> QED BY <1>2, <1>3, <1>4, InstallSizes

\* Nothing is not a kit, a command or an installer.
LEMMA InstallNone ==
    /\ None \notin Install!Kits /\ None \notin Install!Conns /\ None \notin Install!Calls
    /\ None \notin Install!Jobs /\ None \notin Install!Had
BY InstallAssumption

LEMMA InstallIds == Install!Ids = 1..MaxOrders
BY DEF Install!Ids

LEMMA InstallInit == Install!Init => Install!IInv
<1> SUFFICES ASSUME Install!Init PROVE Install!IInv
  OBVIOUS
<1>a. /\ iScene \in Orders /\ iConn = None /\ iCall = None /\ iFiles = {}
      /\ iJobs = [i \in Install!Ids |-> None] /\ iNode = [c \in Chans |-> Install!NoChannel] /\ iBase = FALSE
      /\ iMine = [c \in Chans |-> "none"] /\ iLinks = [c \in Chans |-> {}]
      /\ iAsked = 0 /\ iConnects = 0 /\ iFaults = 0 /\ iLost = 0 /\ iCrossed = FALSE
  BY DEF Install!Init
<1>1. Install!NoChannel \in Install!Nodes /\ Install!NoChannel.conf = None /\ Install!NoChannel.prev = None
  BY DEF Install!NoChannel, Install!Nodes, Install!Contexts
<1>2. Install!Running = {}
  BY <1>a DEF Install!Running
<1>3. \A c \in Chans : ~Install!Here(c)
  BY <1>a, <1>1 DEF Install!Here
<1>4. Install!Shape
  <2>1. iBase \in BOOLEAN /\ iCrossed \in BOOLEAN
    BY <1>a
  <2>2. iNode \in [Chans -> Install!Nodes] /\ iMine \in [Chans -> {"none", "here", "unsure"}]
    BY <1>a, <1>1
  <2>3. iJobs \in [Install!Ids -> {None} \cup Install!Jobs]
    BY <1>a
  <2>4. \A c \in Chans : iNode[c].prev = None
    BY <1>a, <1>1
  <2> QED BY <1>a, <1>2, <2>1, <2>2, <2>3, <2>4, InstallAssumption DEF Install!Shape
<1>5. Install!Asking /\ Install!Alone /\ Install!Told /\ Install!LinksKept
  BY <1>a, <1>2, <1>3 DEF Install!Asking, Install!Alone, Install!Told, Install!LinksKept
<1>6. Install!Orphaned
  <2>1. Install!Orphans = {}
    BY <1>a DEF Install!Orphans
  <2>2. Cardinality({}) = 0
    BY FS_EmptySet
  <2> QED BY <1>a, <2>1, <2>2, InstallSizes DEF Install!Orphaned
<1> QED BY <1>4, <1>5, <1>6 DEF Install!IInv

\* What an installer's step leaves to be shown: it is about one channel, keeps to the
\* steps of its kind, and in the end has nothing in /tmp.
LEMMA InstallGoesOn ==
    ASSUME Install!IInv, NEW i \in Install!Running, NEW k \in Install!Jobs,
           iJobs' = [iJobs EXCEPT ![i] = k],
           k.kind = iJobs[i].kind, k.chan = iJobs[i].chan, k.at # "new",
           k.at \in Install!StepsOf(k.kind), k.at # "done" => ~k.ok,
           iFiles' = iFiles \ {i} \/ (iFiles' = iFiles /\ iJobs[i].at # "new"),
           iNode' \in [Chans -> Install!Nodes], iBase' \in BOOLEAN,
           iFaults' = iFaults \/ Install!Fault, DOMAIN iLinks' = Chans,
           \A c \in Chans : iNode'[c].conf = None => iNode'[c].prev = None,
           UNCHANGED <<iScene, iConn, iCall, iMine, iAsked, iConnects, iLost, iCrossed>>,
           ~iCrossed => Install!Doing(k)' /\ \A c \in Chans : iNode'[c].conf # None => iBase',
           ~iCrossed /\ iLost = 0 =>
                /\ \A c \in Chans :
                     iMine[c] = "here" /\ ~(k.chan = c /\ Install!Leaves(k))
                        => iNode'[c].conf # None /\ iNode'[c].runs # None
                /\ k.kind = "apply" /\ k.at \in {"base", "conf", "started"} => iMine[k.chan] # "here",
           Install!LinksKept'
    PROVE  Install!IInv'
<1>a. /\ Install!Shape /\ Install!Asking /\ Install!Orphaned /\ Install!Alone
      /\ iJobs \in [Install!Ids -> {None} \cup Install!Jobs] /\ i \in Install!Ids /\ iJobs[i] # None
      /\ k # None
  BY InstallNone DEF Install!IInv, Install!Shape, Install!Running
<1>b. iJobs'[i] = k /\ \A l \in Install!Ids : l # i => iJobs'[l] = iJobs[l]
  BY <1>a
<1>c. Install!Running' = Install!Running
  BY <1>a, <1>b DEF Install!Running, Install!Ids
<1>1. Install!Shape'
  <2>1. iJobs' \in [Install!Ids -> {None} \cup Install!Jobs] /\ iFiles' \subseteq iFiles
    BY <1>a
  <2>2. iFaults' \in 0..MaxBreaks /\ iLost' \in 0..iFaults'
    <3>1. iFaults \in 0..MaxBreaks /\ iLost \in 0..iFaults /\ MaxBreaks \in Nat
      BY <1>a, InstallAssumption DEF Install!Shape
    <3> QED BY <3>1 DEF Install!Fault
  <2>3. /\ iScene \in Orders /\ iConn \in {None} \cup Install!Conns /\ iCall \in {None} \cup Install!Calls
        /\ iAsked \in 0..MaxOrders /\ iConnects \in 0..MaxLogins /\ iFiles \subseteq 1..iAsked
        /\ Install!Running \subseteq 1..iAsked /\ iCrossed \in BOOLEAN
        /\ iMine \in [Chans -> {"none", "here", "unsure"}]
    BY <1>a DEF Install!Shape
  <2>4. \A c \in Chans : ~Install!Here(c)' => iNode'[c].prev = None
    <3>1. \A c \in Chans : ~Install!Here(c)' => iNode'[c].conf = None
      BY DEF Install!Here
    <3> QED BY <3>1
  <2> QED BY <1>c, <2>1, <2>2, <2>3, <2>4 DEF Install!Shape, Install!Ids, Install!Jobs, Install!Nodes, Install!Conns,
    Install!Calls
<1>2. Install!Asking'
  <2>1. iCall # None => iAsked \in Install!Ids
    BY <1>a DEF Install!Asking, Install!Shape, Install!Calls
  <2>2. iCall # None /\ iCall.at # "wait" => iJobs[iAsked] = None /\ iAsked # i
    BY <1>a DEF Install!Asking
  <2>3. iCall # None /\ iCall.at # "wait" => iJobs'[iAsked] = None
    BY <1>b, <2>1, <2>2
  <2>4. iCall # None /\ iCall.at = "write" => iAsked \notin iFiles'
    BY <1>a DEF Install!Asking
  <2> QED BY <1>a, <1>c, <2>3, <2>4 DEF Install!Asking
<1>3. Install!Orphaned'
  <2>1. Install!Orphans' \subseteq Install!Orphans
    <3> SUFFICES ASSUME NEW l \in iFiles', ~Install!Handing(l)'
                 PROVE  l \in iFiles /\ ~Install!Handing(l)
      BY DEF Install!Orphans
    <3>1. l \in iFiles /\ l \in Install!Ids
      <4>1. l \in 1..iAsked /\ iAsked \in 0..MaxOrders /\ MaxOrders \in Nat /\ l \in iFiles
        BY <1>a, InstallAssumption DEF Install!Shape
      <4>2. l \in 1..MaxOrders
        BY <4>1
      <4> QED BY <4>1, <4>2, InstallIds
    <3>2. CASE l = i
      BY <1>a, <1>b, <3>1, <3>2 DEF Install!Handing
    <3>3. CASE l # i
      BY <1>b, <3>1, <3>3 DEF Install!Handing
    <3> QED BY <3>2, <3>3
  <2>2. iAsked \in Nat /\ Install!Orphans \in SUBSET 1..iAsked
    <3>1. iFiles \subseteq 1..iAsked /\ iAsked \in 0..MaxOrders
      BY <1>a DEF Install!Shape
    <3> QED BY <3>1, InstallAssumption DEF Install!Orphans
  <2>3. Install!Cardinality(Install!Orphans') <= Install!Cardinality(Install!Orphans) /\ Install!Cardinality(Install!Orphans) \in Nat
    BY <2>1, <2>2, InstallCounts
  <2>4. Install!Cardinality(Install!Orphans') \in Nat
    BY <2>1, <2>2, InstallCounts
  <2>5. iLost \in Nat
    BY <1>a, InstallAssumption DEF Install!Shape
  <2>6. Install!Cardinality(Install!Orphans') <= iLost
    BY <1>a, <2>3, <2>4, <2>5 DEF Install!Orphaned
  <2> QED BY <2>6 DEF Install!Orphaned
<1>d. ~iCrossed => \A l \in Install!Running : l = i
  BY <1>a DEF Install!Asking
<1>4. Install!Alone'
  <2>1. \A l \in Install!Running : l \in Install!Ids
    BY DEF Install!Running
  <2>2. \A l \in Install!Running : iJobs'[l].at \in Install!StepsOf(iJobs'[l].kind) /\ (iJobs'[l].at # "done" => ~iJobs'[l].ok)
    BY <1>a, <1>b, <2>1 DEF Install!Alone
  <2>3. ~iCrossed => \A l \in Install!Running : Install!Doing(iJobs[l])'
    BY <1>b, <1>d
  <2>4. ~iCrossed => \A c \in Chans : Install!Here(c)' => iBase'
    BY DEF Install!Here
  <2>5. (\A l \in Install!Running : iJobs[l].at \in Install!StepsOf(iJobs[l].kind) /\ (iJobs[l].at # "done" => ~iJobs[l].ok))'
    BY <1>c, <2>2 DEF Install!StepsOf
  <2>6. iCrossed \/ (\A l \in Install!Running : Install!Doing(iJobs[l]))'
    BY <1>c, <2>3
  <2> QED BY <2>4, <2>5, <2>6 DEF Install!Alone
<1>5. Install!Told'
  <2> SUFFICES ASSUME ~iCrossed, iLost = 0
               PROVE  /\ \A c \in Chans : iMine[c] = "here" /\ ~Install!Removed(c)' => iNode'[c].conf # None /\ iNode'[c].runs # None
                      /\ \A l \in Install!Running : iJobs'[l].kind = "apply" /\ iJobs'[l].at \in {"base", "conf", "started"} => iMine[iJobs'[l].chan] # "here"
    BY <1>c DEF Install!Told, Install!Here
  <2>1. \A c \in Chans : k.chan = c /\ Install!Leaves(k) => Install!Removed(c)'
    BY <1>a, <1>b, <1>c DEF Install!Removed, Install!Leaves
  <2>2. \A l \in Install!Running : iJobs'[l] = k
    BY <1>b, <1>d
  <2> QED BY <2>1, <2>2
<1> QED BY <1>1, <1>2, <1>3, <1>4, <1>5 DEF Install!IInv

\* What is known of the installer that goes on.
LEMMA InstallJob ==
    ASSUME Install!IInv, NEW i \in Install!Running
    PROVE  /\ iJobs[i] \in Install!Jobs /\ iJobs[i].chan \in Chans /\ iJobs[i].kit \in Install!Kits /\ iJobs[i].kit # None
           /\ iNode[iJobs[i].chan] \in Install!Nodes /\ iNode \in [Chans -> Install!Nodes]
           /\ iJobs[i].at \in Install!StepsOf(iJobs[i].kind) /\ (iJobs[i].at # "done" => ~iJobs[i].ok)
           /\ ~iCrossed => Install!Doing(iJobs[i]) /\ \A c \in Chans : iNode[c].conf # None => iBase
           /\ iNode[iJobs[i].chan].conf = None => iNode[iJobs[i].chan].prev = None
           /\ iBase \in BOOLEAN
<1>1. iJobs[i] \in Install!Jobs
  BY DEF Install!IInv, Install!Shape, Install!Running
<1>2. iJobs[i].chan \in Chans /\ iJobs[i].kit \in Install!Kits /\ iJobs[i].kit # None
  BY <1>1, InstallNone DEF Install!Jobs
<1>3. iNode \in [Chans -> Install!Nodes] /\ iNode[iJobs[i].chan] \in Install!Nodes
  BY <1>2 DEF Install!IInv, Install!Shape
<1>4. /\ iJobs[i].at \in Install!StepsOf(iJobs[i].kind) /\ (iJobs[i].at # "done" => ~iJobs[i].ok)
      /\ ~iCrossed => Install!Doing(iJobs[i]) /\ \A c \in Chans : iNode[c].conf # None => iBase
  BY DEF Install!IInv, Install!Alone, Install!Here
<1>5. iNode[iJobs[i].chan].conf = None => iNode[iJobs[i].chan].prev = None
  BY <1>2 DEF Install!IInv, Install!Shape, Install!Here
<1>6. iBase \in BOOLEAN
  BY DEF Install!IInv, Install!Shape
<1> QED BY <1>1, <1>2, <1>3, <1>4, <1>5, <1>6

\* An installer writes its own channel.
LEMMA InstallChanges ==
    ASSUME Install!IInv, NEW i \in Install!Running, NEW k \in Install!Jobs,
           iJobs' = [iJobs EXCEPT ![i] = k],
           k.kind = iJobs[i].kind, k.chan = iJobs[i].chan, k.at # "new",
           k.at \in Install!StepsOf(k.kind), k.at # "done" => ~k.ok,
           iFiles' = iFiles \ {i} \/ (iFiles' = iFiles /\ iJobs[i].at # "new"),
           NEW n \in Install!Nodes, iNode' = [iNode EXCEPT ![k.chan] = n],
           n.conf = None => n.prev = None,
           iFaults' = iFaults \/ Install!Fault,
           UNCHANGED <<iScene, iConn, iCall, iMine, iAsked, iConnects, iLost, iCrossed, iBase, iLinks>>,
           ~iCrossed => Install!Doing(k)' /\ (n.conf # None => iBase),
           ~iCrossed /\ n.conf # None /\ n.context # None => iNode[k.chan].conf # None /\ n.context = iNode[k.chan].context,
           ~iCrossed /\ iLost = 0 =>
                /\ iMine[k.chan] = "here" /\ ~Install!Leaves(k) => n.conf # None /\ n.runs # None
                /\ k.kind = "apply" /\ k.at \in {"base", "conf", "started"} => iMine[k.chan] # "here"
    PROVE  Install!IInv'
<1>a. k.chan \in Chans /\ iNode \in [Chans -> Install!Nodes] /\ iBase \in BOOLEAN
  BY InstallJob
<1>b. iNode'[k.chan] = n /\ \A c \in Chans : c # k.chan => iNode'[c] = iNode[c]
  BY <1>a
<1>c. /\ \A c \in Chans : iNode[c].conf = None => iNode[c].prev = None
      /\ ~iCrossed => \A c \in Chans : iNode[c].conf # None => iBase
      /\ ~iCrossed => \A l \in Install!Running : l = i
  BY DEF Install!IInv, Install!Shape, Install!Alone, Install!Asking, Install!Here
<1>1. iNode' \in [Chans -> Install!Nodes] /\ iBase' \in BOOLEAN
  BY <1>a
<1>2. \A c \in Chans : iNode'[c].conf = None => iNode'[c].prev = None
  BY <1>b, <1>c
<1>3. ~iCrossed => \A c \in Chans : iNode'[c].conf # None => iBase'
  BY <1>b, <1>c
<1>4. ASSUME ~iCrossed, iLost = 0, NEW c \in Chans, iMine[c] = "here", ~(k.chan = c /\ Install!Leaves(k))
      PROVE  iNode'[c].conf # None /\ iNode'[c].runs # None
  <2>1. CASE c = k.chan
    BY <1>4, <1>b, <2>1
  <2>2. CASE c # k.chan
    <3>1. ~Install!Removed(c)
      BY <1>4, <1>c, <2>2 DEF Install!Removed
    <3>2. iNode[c].conf # None /\ iNode[c].runs # None
      BY <1>4, <3>1 DEF Install!IInv, Install!Told, Install!Here
    <3> QED BY <1>b, <2>2, <3>2
  <2> QED BY <2>1, <2>2
<1>5. Install!LinksKept'
  <2> SUFFICES ASSUME NEW c \in Chans, iNode'[c].conf # None, iNode'[c].context # None, ~iCrossed
               PROVE  iLinks[c] \subseteq {iNode'[c].context}
    BY DEF Install!LinksKept, Install!Here
  <2>1. iNode[c].conf # None /\ iNode'[c].context = iNode[c].context
    BY <1>b
  <2> QED BY <2>1 DEF Install!IInv, Install!LinksKept, Install!Here
<1>6. (~iCrossed => Install!Doing(k)') /\ DOMAIN iLinks' = Chans
  BY DEF Install!IInv, Install!Shape
<1> QED BY <1>1, <1>2, <1>3, <1>4, <1>5, <1>6, InstallGoesOn

\* An installer leaves the server as it is.
LEMMA InstallStays ==
    ASSUME Install!IInv, NEW i \in Install!Running, NEW k \in Install!Jobs,
           iJobs' = [iJobs EXCEPT ![i] = k],
           k.kind = iJobs[i].kind, k.chan = iJobs[i].chan, k.at # "new",
           k.at \in Install!StepsOf(k.kind), k.at # "done" => ~k.ok,
           iFiles' = iFiles \ {i} \/ (iFiles' = iFiles /\ iJobs[i].at # "new"),
           iFaults' = iFaults \/ Install!Fault,
           UNCHANGED <<iScene, iConn, iCall, iMine, iAsked, iConnects, iLost, iCrossed, iBase, iLinks, iNode>>,
           ~iCrossed => Install!Doing(k),
           Install!Leaves(iJobs[i]) => Install!Leaves(k),
           ~(k.kind = "apply" /\ k.at \in {"base", "conf", "started"})
    PROVE  Install!IInv'
<1>a. /\ k.chan \in Chans /\ iNode \in [Chans -> Install!Nodes] /\ iNode[k.chan] \in Install!Nodes
      /\ iNode[k.chan].conf = None => iNode[k.chan].prev = None
      /\ ~iCrossed => \A c \in Chans : iNode[c].conf # None => iBase
  BY InstallJob
<1>1. iNode' = [iNode EXCEPT ![k.chan] = iNode[k.chan]]
  BY <1>a
<1>2. ~iCrossed => Install!Doing(k)'
  BY DEF Install!Doing, Install!Applying, Install!Setting, Install!Removing, Install!Here, Install!Based, Install!NoneListed
<1>3. ASSUME ~iCrossed, iLost = 0, iMine[k.chan] = "here", ~Install!Leaves(k)
      PROVE  iNode[k.chan].conf # None /\ iNode[k.chan].runs # None
  <2>1. \A l \in Install!Running : l = i
    BY <1>3 DEF Install!IInv, Install!Asking
  <2>2. ~Install!Removed(k.chan)
    BY <1>3, <2>1 DEF Install!Removed
  <2> QED BY <1>3, <1>a, <2>2 DEF Install!IInv, Install!Told, Install!Here
<1> QED BY <1>a, <1>1, <1>2, <1>3, InstallChanges

LEMMA InstallAt ==
    /\ Install!StepsOf("apply") = {"new", "read", "done", "base", "conf", "started"}
    /\ Install!StepsOf("set") = {"new", "read", "done", "swapped"}
    /\ Install!StepsOf("remove") = {"new", "read", "done", "removed", "last"}
    /\ \A kind : {"new", "read", "done"} \subseteq Install!StepsOf(kind)
BY DEF Install!StepsOf

\* An installer done.
LEMMA InstallDone ==
    ASSUME NEW j \in Install!Jobs, NEW ok \in BOOLEAN, NEW k, k = [j EXCEPT !.at = "done", !.ok = ok]
    PROVE  /\ k \in Install!Jobs /\ k.kind = j.kind /\ k.chan = j.chan /\ k.at = "done" /\ k.ok = ok /\ k.kit = j.kit
           /\ k.at \in Install!StepsOf(k.kind)
BY InstallAt DEF Install!Jobs, Install!Steps

\* An installer goes on to a step.
LEMMA InstallTo ==
    ASSUME NEW j \in Install!Jobs, NEW s \in Install!Steps, NEW k, k = [j EXCEPT !.at = s]
    PROVE  /\ k \in Install!Jobs /\ k.kind = j.kind /\ k.chan = j.chan /\ k.at = s /\ k.ok = j.ok /\ k.kit = j.kit
           /\ k.made = j.made
BY DEF Install!Jobs

LEMMA InstallRead ==
    ASSUME Install!IInv, NEW i \in Install!Running, Install!Read(i)
    PROVE  Install!IInv'
<1>j. PICK j \in Install!Jobs : j = iJobs[i] /\ j.at = "new" /\ j.chan \in Chans /\ ~j.ok
  BY InstallJob DEF Install!Read
<1>n. iNode[j.chan] \in Install!Nodes /\ iNode[j.chan].conf \in {None} \cup Install!Kits
  BY <1>j, InstallJob DEF Install!Nodes
<1>k. PICK k : k = [j EXCEPT !.at = IF Install!Here(j.chan) <=> j.kind # "apply" THEN "read" ELSE "done", !.before = iNode[j.chan].conf]
  OBVIOUS
<1>1. /\ k \in Install!Jobs /\ k.kind = j.kind /\ k.chan = j.chan /\ k.ok = j.ok /\ k.made = j.made
      /\ k.at \in {"read", "done"} /\ (k.at = "read" => (Install!Here(j.chan) <=> j.kind # "apply"))
  BY <1>j, <1>k, <1>n DEF Install!Jobs, Install!Steps
<1>e. /\ iJobs' = [iJobs EXCEPT ![i] = k] /\ iFiles' = iFiles \ {i}
      /\ UNCHANGED <<iScene, iConn, iCall, iMine, iAsked, iConnects, iFaults, iLost, iCrossed, iBase, iLinks, iNode>>
  BY <1>j, <1>k DEF Install!Read, Install!Chan, Install!onServer, Install!serverVars, Install!countVars
<1>2. ~iCrossed => Install!Doing(k)
  <2>1. ~iCrossed => Install!Doing(j)
    BY <1>j, InstallJob
  <2>2. k.kind = "apply" => (Install!Applying(j) => Install!Applying(k))
    BY <1>1, <1>j DEF Install!Applying, Install!Here
  <2>3. Install!Setting(k) /\ Install!Removing(k)
    BY <1>1 DEF Install!Setting, Install!Removing
  <2> QED BY <1>1, <2>1, <2>2, <2>3 DEF Install!Doing
<1>3. ~Install!Leaves(iJobs[i]) /\ k.at \in Install!StepsOf(k.kind)
  BY <1>j, <1>1, InstallAt DEF Install!Leaves
<1> QED BY <1>j, <1>1, <1>2, <1>3, <1>e, InstallStays

\* Those that end, or go on, with the server as it is.
LEMMA InstallLeaves ==
    ASSUME Install!IInv, NEW i \in Install!Running,
           \/ Install!ApplyNotReady(i) \/ Install!SetNoCookies(i) \/ Install!Show(i) \/ Install!RemoveLists(i)
    PROVE  Install!IInv'
<1>j. PICK j \in Install!Jobs : j = iJobs[i] /\ j.chan \in Chans /\ (j.at # "done" => ~j.ok) /\ (~iCrossed => Install!Doing(j))
  BY InstallJob
<1>n. iNode[j.chan] \in Install!Nodes /\ iNode[j.chan].conf \in {None} \cup Install!Kits
  BY <1>j, InstallJob DEF Install!Nodes
<1>1. CASE Install!ApplyNotReady(i) \/ Install!SetNoCookies(i)
  <2>k. PICK k : k = [j EXCEPT !.at = "done", !.before = iNode[j.chan].conf]
    OBVIOUS
  <2>1. /\ k \in Install!Jobs /\ k.kind = j.kind /\ k.chan = j.chan /\ k.ok = j.ok /\ k.at = "done"
    BY <1>j, <2>k, <1>n DEF Install!Jobs, Install!Steps
  <2>e. /\ iJobs' = [iJobs EXCEPT ![i] = k] /\ iFiles' = iFiles /\ j.at \in {"conf", "swapped"} /\ Install!Fault
        /\ j.kind \in {"apply", "set"}
        /\ UNCHANGED <<iScene, iConn, iCall, iMine, iAsked, iConnects, iLost, iCrossed, iBase, iLinks, iNode>>
    BY <1>1, <1>j, <2>k DEF Install!ApplyNotReady, Install!SetNoCookies, Install!At, Install!Chan, Install!onServer,
      Install!serverVars, Install!countVars
  <2>2. Install!Doing(k)
    BY <1>j, <2>1, <2>e DEF Install!Doing, Install!Applying, Install!Setting, Install!Removing
  <2>3. ~Install!Leaves(iJobs[i]) /\ k.at \in Install!StepsOf(k.kind)
    BY <1>j, <2>1, <2>e, InstallAt DEF Install!Leaves
  <2> QED BY <1>j, <2>1, <2>2, <2>3, <2>e, InstallStays
<1>2. CASE Install!Show(i)
  <2>k. PICK ok \in BOOLEAN : ok = Install!Here(j.chan)
    BY DEF Install!Here
  <2>l. PICK k : k = [j EXCEPT !.at = "done", !.ok = ok]
    OBVIOUS
  <2>e. /\ iJobs' = [iJobs EXCEPT ![i] = k] /\ iFiles' = iFiles /\ j.at = "read" /\ j.kind = "show"
        /\ UNCHANGED <<iScene, iConn, iCall, iMine, iAsked, iConnects, iFaults, iLost, iCrossed, iBase, iLinks, iNode>>
    BY <1>2, <1>j, <2>k, <2>l DEF Install!Show, Install!Ends, Install!At, Install!Chan, Install!onServer, Install!serverVars,
      Install!countVars
  <2>1. k \in Install!Jobs /\ k.kind = j.kind /\ k.chan = j.chan /\ k.at = "done" /\ k.at \in Install!StepsOf(k.kind)
    BY <2>l, InstallDone
  <2>2. Install!Doing(k) /\ ~Install!Leaves(iJobs[i])
    BY <1>j, <2>1, <2>e DEF Install!Doing, Install!Leaves
  <2> QED BY <1>j, <2>1, <2>2, <2>e, InstallStays
<1>3. CASE Install!RemoveLists(i)
  <2>e. /\ j.at = "removed" /\ j.kind = "remove" /\ iFiles' = iFiles
        /\ UNCHANGED <<iScene, iConn, iCall, iMine, iAsked, iConnects, iFaults, iLost, iCrossed, iBase, iLinks, iNode>>
    BY <1>3, <1>j DEF Install!RemoveLists, Install!At, Install!onServer, Install!serverVars, Install!countVars
  <2>1. CASE Install!NoneListed /\ Install!To(i, "last")
    <3>k. PICK k : k = [j EXCEPT !.at = "last"]
      OBVIOUS
    <3>1. /\ k \in Install!Jobs /\ k.kind = j.kind /\ k.chan = j.chan /\ k.at = "last" /\ k.ok = j.ok
      BY <3>k, InstallTo DEF Install!Steps
    <3>2. iJobs' = [iJobs EXCEPT ![i] = k]
      BY <1>j, <2>1, <3>k DEF Install!To
    <3>3. (~iCrossed => Install!Doing(k)) /\ Install!Leaves(k) /\ k.at \in Install!StepsOf(k.kind)
      BY <1>j, <2>1, <2>e, <3>1, InstallAt DEF Install!Doing, Install!Removing, Install!Leaves
    <3> QED BY <1>j, <2>e, <3>1, <3>2, <3>3, InstallStays
  <2>2. CASE Install!Ends(i, TRUE)
    <3>k. PICK k : k = [j EXCEPT !.at = "done", !.ok = TRUE]
      OBVIOUS
    <3>1. k \in Install!Jobs /\ k.kind = j.kind /\ k.chan = j.chan /\ k.at = "done" /\ k.ok = TRUE /\ k.at \in Install!StepsOf(k.kind)
      BY <3>k, InstallDone
    <3>2. iJobs' = [iJobs EXCEPT ![i] = k]
      BY <1>j, <2>2, <3>k DEF Install!Ends
    <3>3. Install!Doing(k) /\ Install!Leaves(k)
      BY <2>e, <3>1 DEF Install!Doing, Install!Removing, Install!Leaves
    <3> QED BY <1>j, <2>e, <3>1, <3>2, <3>3, InstallStays
  <2> QED BY <1>3, <2>1, <2>2 DEF Install!RemoveLists
<1> QED BY <1>1, <1>2, <1>3

\* What an installer made it takes back.
LEMMA InstallUndoes ==
    ASSUME Install!IInv, NEW i \in Install!Running, Install!Undo(i), Install!Ends(i, FALSE),
           iJobs[i].kind = "apply", iJobs[i].at \in {"read", "base", "conf", "started"},
           iJobs[i].at = "base" => Install!Here(iJobs[i].chan),
           iFiles' = iFiles, iFaults' = iFaults \/ Install!Fault,
           UNCHANGED <<iScene, iConn, iCall, iMine, iAsked, iConnects, iLost, iCrossed, iLinks>>
    PROVE  Install!IInv'
<1>j. PICK j \in Install!Jobs : j = iJobs[i] /\ j.chan \in Chans /\ (~iCrossed => Install!Doing(j)) /\ j.kind = "apply"
  BY InstallJob
<1>k. PICK k : k = [j EXCEPT !.at = "done", !.ok = FALSE]
  OBVIOUS
<1>1. k \in Install!Jobs /\ k.kind = "apply" /\ k.chan = j.chan /\ k.at = "done" /\ ~k.ok /\ k.at \in Install!StepsOf(k.kind)
  <2>1. k \in Install!Jobs
    BY <1>k DEF Install!Jobs, Install!Steps
  <2>2. k.kind = j.kind /\ k.chan = j.chan /\ k.at = "done" /\ ~k.ok
    BY <1>k DEF Install!Jobs
  <2>3. k.kind = "apply"
    BY <1>j, <2>2
  <2> QED BY <2>1, <2>2, <2>3, InstallAt
<1>2. iJobs' = [iJobs EXCEPT ![i] = k]
  BY <1>j, <1>k DEF Install!Ends
<1>a. /\ iNode \in [Chans -> Install!Nodes] /\ iBase \in BOOLEAN
      /\ \A c \in Chans : iNode[c].conf = None => iNode[c].prev = None
      /\ ~iCrossed => \A c \in Chans : iNode[c].conf # None => iBase
      /\ ~iCrossed => \A l \in Install!Running : l = i
  BY DEF Install!IInv, Install!Shape, Install!Alone, Install!Asking, Install!Here
<1>b. Install!NoChannel \in Install!Nodes /\ Install!NoChannel.conf = None /\ Install!NoChannel.prev = None
  BY DEF Install!NoChannel, Install!Nodes, Install!Contexts
<1>e. /\ "conf" \in j.made => iNode' = [iNode EXCEPT ![j.chan] = Install!NoChannel]
      /\ "conf" \notin j.made => iNode' = iNode
      /\ iBase' = (iBase /\ "base" \notin j.made)
  BY <1>j DEF Install!Undo, Install!Without, Install!Chan
<1>3. iNode' \in [Chans -> Install!Nodes]
  BY <1>a, <1>b, <1>e
<1>4. iBase' \in BOOLEAN
  BY <1>e
<1>5. \A c \in Chans : c # j.chan => iNode'[c] = iNode[c]
  BY <1>a, <1>e
<1>6. \A c \in Chans : iNode'[c].conf = None => iNode'[c].prev = None
  BY <1>a, <1>b, <1>e
<1>7. ~iCrossed =>
        /\ j.at # "base"
        /\ j.at = "read" => j.made = {} /\ iNode[j.chan].conf = None
        /\ j.at \in {"conf", "started"} => "conf" \in j.made /\ ("base" \in j.made => \A c \in Chans : c # j.chan => iNode[c].conf = None)
  BY <1>j DEF Install!Doing, Install!Applying, Install!Based, Install!Here
<1>8. ~iCrossed => iNode'[j.chan].conf = None
  BY <1>j, <1>a, <1>b, <1>e, <1>7
<1>9. ~iCrossed => \A c \in Chans : iNode'[c].conf # None => iBase'
  BY <1>j, <1>a, <1>e, <1>5, <1>7, <1>8
<1>10. Install!Doing(k)' /\ DOMAIN iLinks' = Chans
  BY <1>1 DEF Install!IInv, Install!Shape, Install!Doing, Install!Applying
<1>11. ASSUME ~iCrossed, iLost = 0, NEW c \in Chans, iMine[c] = "here", ~(k.chan = c /\ Install!Leaves(k))
       PROVE  iNode'[c].conf # None /\ iNode'[c].runs # None
  <2>1. ~Install!Removed(c)
    BY <1>11, <1>a, <1>j DEF Install!Removed, Install!Leaves
  <2>2. iNode[c].conf # None /\ iNode[c].runs # None
    BY <1>11, <2>1 DEF Install!IInv, Install!Told, Install!Here
  <2>3. c # j.chan
    <3>1. j.at \in {"base", "conf", "started"} => iMine[j.chan] # "here"
      BY <1>11, <1>j DEF Install!IInv, Install!Told
    <3> QED BY <1>11, <1>j, <1>7, <2>2, <3>1
  <2> QED BY <1>5, <2>2, <2>3
<1>12. Install!LinksKept'
  <2> SUFFICES ASSUME NEW c \in Chans, iNode'[c].conf # None, ~iCrossed, iNode'[c].context # None
               PROVE  iLinks[c] \subseteq {iNode'[c].context}
    BY DEF Install!LinksKept, Install!Here
  <2> QED BY <1>5, <1>8 DEF Install!IInv, Install!LinksKept, Install!Here
<1> QED BY <1>j, <1>1, <1>2, <1>3, <1>4, <1>6, <1>9, <1>10, <1>11, <1>12, InstallGoesOn

\* A unit starts on the file it finds.
LEMMA InstallStarts ==
    ASSUME NEW n \in Install!Nodes, NEW m, m = Install!Starts(n)
    PROVE  /\ m \in Install!Nodes /\ m.conf = n.conf /\ m.context = n.context /\ m.prev = n.prev
           /\ iBase /\ n.conf # None => m.runs # None
BY DEF Install!Nodes, Install!Starts

\* What an apply does: what it shares with the others, then its channel, then the unit.
LEMMA InstallApplies ==
    ASSUME Install!IInv, NEW i \in Install!Running,
           \/ Install!ApplyFails(i) \/ Install!ApplyBase(i) \/ Install!ApplyConf(i)
           \/ Install!ApplyStart(i) \/ Install!ApplyLooks(i)
    PROVE  Install!IInv'
<1>j. PICK j \in Install!Jobs : /\ j = iJobs[i] /\ j.chan \in Chans /\ j.kit \in Install!Kits /\ j.kit # None
                                /\ (j.at # "done" => ~j.ok) /\ (~iCrossed => Install!Doing(j))
  BY InstallJob
<1>a. /\ iNode \in [Chans -> Install!Nodes] /\ iBase \in BOOLEAN
      /\ \A c \in Chans : iNode[c].conf = None => iNode[c].prev = None
      /\ ~iCrossed => \A c \in Chans : iNode[c].conf # None => iBase
      /\ ~iCrossed => \A l \in Install!Running : l = i
  BY DEF Install!IInv, Install!Shape, Install!Alone, Install!Asking, Install!Here
<1>b. j.kind = "apply"
  BY <1>j DEF Install!ApplyFails, Install!ApplyBase, Install!ApplyConf, Install!ApplyStart, Install!ApplyLooks, Install!At
<1>c. ~iCrossed => Install!Applying(j)
  BY <1>b, <1>j DEF Install!Doing
<1>d. ~iCrossed => ~Install!Removed(j.chan)
  BY <1>a, <1>b, <1>j DEF Install!Removed, Install!Leaves
<1>t. ~iCrossed /\ iLost = 0 =>
        /\ iMine[j.chan] = "here" => iNode[j.chan].conf # None /\ iNode[j.chan].runs # None
        /\ j.at \in {"base", "conf", "started"} => iMine[j.chan] # "here"
  BY <1>b, <1>d, <1>j DEF Install!IInv, Install!Told, Install!Here
<1>1. CASE Install!ApplyFails(i)
  <2>1. /\ Install!Undo(i) /\ Install!Ends(i, FALSE) /\ iJobs[i].kind = "apply" /\ iJobs[i].at \in {"read", "conf", "started"}
        /\ iFiles' = iFiles /\ Install!Fault
        /\ UNCHANGED <<iScene, iConn, iCall, iMine, iAsked, iConnects, iLost, iCrossed, iLinks>>
    BY <1>1 DEF Install!ApplyFails, Install!onServer, Install!countVars
  <2> QED BY <2>1, InstallUndoes
<1>2. CASE Install!ApplyBase(i)
  <2>m. PICK made \in SUBSET {"base", "conf"} : made = (IF iBase THEN j.made ELSE j.made \cup {"base"})
    BY DEF Install!Jobs
  <2>k. PICK k : k = [j EXCEPT !.at = "base", !.made = made]
    OBVIOUS
  <2>1. k \in Install!Jobs /\ k.kind = "apply" /\ k.chan = j.chan /\ k.at = "base" /\ k.ok = j.ok /\ k.made = made /\ k.kit = j.kit
    BY <1>b, <2>k DEF Install!Jobs, Install!Steps
  <2>e. /\ iJobs' = [iJobs EXCEPT ![i] = k] /\ j.at = "read" /\ iFiles' = iFiles /\ iNode' = iNode /\ iBase' = TRUE
        /\ UNCHANGED <<iScene, iConn, iCall, iMine, iAsked, iConnects, iFaults, iLost, iCrossed, iLinks>>
    BY <1>2, <1>j, <2>k, <2>m DEF Install!ApplyBase, Install!At, Install!onServer, Install!countVars
  <2>2. ~iCrossed => /\ iNode[j.chan].conf = None /\ made \subseteq {"base"}
                     /\ "base" \in made => \A c \in Chans : iNode[c].conf = None
    BY <1>a, <1>c, <2>e, <2>m DEF Install!Applying, Install!Here
  <2>3. ~iCrossed => Install!Doing(k)'
    BY <2>1, <2>2, <2>e DEF Install!Doing, Install!Applying, Install!Based, Install!Here
  <2>4. ASSUME ~iCrossed, iLost = 0, NEW c \in Chans, iMine[c] = "here"
        PROVE  iNode'[c].conf # None /\ iNode'[c].runs # None
    <3>1. ~Install!Removed(c)
      BY <2>4, <1>a, <1>b, <1>j DEF Install!Removed, Install!Leaves
    <3> QED BY <2>4, <2>e, <3>1 DEF Install!IInv, Install!Told, Install!Here
  <2>5. Install!LinksKept'
    BY <2>e DEF Install!IInv, Install!LinksKept, Install!Here
  <2>6. iNode' \in [Chans -> Install!Nodes] /\ (\A c \in Chans : iNode'[c].conf = None => iNode'[c].prev = None) /\ k.at \in Install!StepsOf(k.kind)
    BY <1>a, <2>1, <2>e, InstallAt
  <2>7. iBase' \in BOOLEAN /\ iBase' /\ DOMAIN iLinks' = Chans
    BY <2>e DEF Install!IInv, Install!Shape
  <2>8. ~iCrossed /\ iLost = 0 => iMine[k.chan] # "here"
    BY <1>t, <2>1, <2>2
  <2> QED BY <1>b, <1>j, <2>1, <2>3, <2>4, <2>5, <2>6, <2>7, <2>8, <2>e, InstallGoesOn
<1>3. CASE Install!ApplyConf(i)
  <2>e. /\ j.at = "base" /\ iFiles' = iFiles
        /\ UNCHANGED <<iScene, iConn, iCall, iMine, iAsked, iConnects, iFaults, iLost, iCrossed>>
    BY <1>3, <1>j DEF Install!ApplyConf, Install!At, Install!countVars
  <2>1. CASE Install!Here(j.chan)
    <3>1. Install!Undo(i) /\ Install!Ends(i, FALSE) /\ iLinks' = iLinks
      BY <1>3, <1>j, <2>1 DEF Install!ApplyConf, Install!Chan
    <3> QED BY <1>b, <1>j, <2>1, <2>e, <3>1, InstallUndoes
  <2>2. CASE ~Install!Here(j.chan)
    <3>m. PICK made \in SUBSET {"base", "conf"} : made = j.made \cup {"conf"}
      BY DEF Install!Jobs
    <3>k. PICK k : k = [j EXCEPT !.at = "conf", !.made = made]
      OBVIOUS
    <3>1. k \in Install!Jobs /\ k.kind = "apply" /\ k.chan = j.chan /\ k.at = "conf" /\ k.ok = j.ok /\ k.made = made /\ k.kit = j.kit
      BY <1>b, <3>k DEF Install!Jobs, Install!Steps
    <3>n. PICK n : n = [conf |-> j.kit, context |-> Install!Line(Install!SessionContext(j.kit)), prev |-> None, runs |-> None]
      OBVIOUS
    <3>2. n \in Install!Nodes /\ n.conf # None /\ n.prev = None /\ n.context = Install!Line(Install!SessionContext(j.kit))
      BY <1>j, <3>n DEF Install!Nodes, Install!Contexts, Install!Line
    <3>e. /\ iJobs' = [iJobs EXCEPT ![i] = k] /\ iNode' = [iNode EXCEPT ![j.chan] = n] /\ iBase' = iBase
          /\ iLinks' = [iLinks EXCEPT ![j.chan] = {}]
      BY <1>3, <1>j, <2>2, <3>m, <3>k, <3>n DEF Install!ApplyConf, Install!Chan
    <3>3. iNode'[j.chan] = n /\ (\A c \in Chans : c # j.chan => iNode'[c] = iNode[c]) /\ iNode' \in [Chans -> Install!Nodes]
      BY <1>a, <1>j, <3>2, <3>e
    <3>4. ~iCrossed => iBase /\ ("base" \in j.made => \A c \in Chans : c # j.chan => iNode[c].conf = None)
      BY <1>c, <2>e DEF Install!Applying, Install!Based, Install!Here
    <3>5. ~iCrossed => Install!Doing(k)'
      BY <1>j, <3>m, <3>1, <3>2, <3>3, <3>4, <3>e DEF Install!Doing, Install!Applying, Install!Based, Install!Here, Install!Line
    <3>6. ASSUME ~iCrossed, iLost = 0, NEW c \in Chans, iMine[c] = "here"
          PROVE  iNode'[c].conf # None /\ iNode'[c].runs # None
      <4>1. ~Install!Removed(c)
        BY <3>6, <1>a, <1>b, <1>j DEF Install!Removed, Install!Leaves
      <4>2. iNode[c].conf # None /\ iNode[c].runs # None
        BY <3>6, <4>1 DEF Install!IInv, Install!Told, Install!Here
      <4>3. c # j.chan
        BY <3>6, <1>t, <2>e
      <4> QED BY <3>3, <4>2, <4>3
    <3>l. DOMAIN iLinks' = Chans
      BY <3>e DEF Install!IInv, Install!Shape
    <3>7. Install!LinksKept'
      <4> SUFFICES ASSUME NEW c \in Chans, iNode'[c].conf # None, iNode'[c].context # None, ~iCrossed
                   PROVE  iLinks'[c] \subseteq {iNode'[c].context}
        BY <2>e DEF Install!LinksKept, Install!Here
      <4>1. DOMAIN iLinks = Chans
        BY DEF Install!IInv, Install!Shape
      <4>2. CASE c = j.chan
        BY <1>j, <3>e, <4>1, <4>2
      <4>3. CASE c # j.chan
        <5>1. iLinks'[c] = iLinks[c]
          BY <1>j, <3>e, <4>1, <4>3
        <5> QED BY <3>3, <4>3, <5>1 DEF Install!IInv, Install!LinksKept, Install!Here
      <4> QED BY <4>2, <4>3
    <3>8. \A c \in Chans : iNode'[c].conf = None => iNode'[c].prev = None
      BY <1>a, <3>2, <3>3
    <3>9. ~iCrossed => \A c \in Chans : iNode'[c].conf # None => iBase'
      BY <3>4, <3>e
    <3>10. (~iCrossed /\ iLost = 0 => iMine[k.chan] # "here") /\ k.at \in Install!StepsOf(k.kind)
      BY <1>t, <2>e, <3>1, InstallAt
    <3>11. /\ k.kind = iJobs[i].kind /\ k.chan = iJobs[i].chan /\ k.at # "new" /\ (k.at # "done" => ~k.ok)
           /\ iFiles' = iFiles /\ iJobs[i].at # "new" /\ iBase' \in BOOLEAN
      BY <1>a, <1>b, <1>j, <2>e, <3>1, <3>e
    <3>12. ~iCrossed => Install!Doing(k)' /\ \A c \in Chans : iNode'[c].conf # None => iBase'
      BY <3>5, <3>9
    <3>13. ~iCrossed /\ iLost = 0 =>
              /\ \A c \in Chans :
                    iMine[c] = "here" /\ ~(k.chan = c /\ Install!Leaves(k))
                       => iNode'[c].conf # None /\ iNode'[c].runs # None
              /\ k.kind = "apply" /\ k.at \in {"base", "conf", "started"} => iMine[k.chan] # "here"
      BY <3>6, <3>10
    <3> QED BY <2>e, <3>1, <3>3, <3>7, <3>8, <3>10, <3>11, <3>12, <3>13, <3>e, <3>l, InstallGoesOn
  <2> QED BY <2>1, <2>2
<1>4. CASE Install!ApplyStart(i)
  <2>k. PICK k : k = [j EXCEPT !.at = "started"]
    OBVIOUS
  <2>1. k \in Install!Jobs /\ k.kind = "apply" /\ k.chan = j.chan /\ k.at = "started" /\ k.ok = j.ok /\ k.made = j.made /\ k.kit = j.kit
    BY <1>b, <2>k, InstallTo DEF Install!Steps
  <2>n. PICK n : n = Install!Starts(iNode[j.chan])
    OBVIOUS
  <2>2. /\ n \in Install!Nodes /\ n.conf = iNode[j.chan].conf /\ n.context = iNode[j.chan].context /\ n.prev = iNode[j.chan].prev
        /\ iBase /\ n.conf # None => n.runs # None
    BY <1>a, <1>j, <2>n, InstallStarts
  <2>e. /\ iJobs' = [iJobs EXCEPT ![i] = k] /\ j.at = "conf" /\ iFiles' = iFiles /\ iNode' = [iNode EXCEPT ![j.chan] = n]
        /\ UNCHANGED <<iScene, iConn, iCall, iMine, iAsked, iConnects, iFaults, iLost, iCrossed, iBase, iLinks>>
    BY <1>4, <1>a, <1>j, <2>k, <2>n DEF Install!ApplyStart, Install!At, Install!To, Install!Chan, Install!onServer,
      Install!countVars
  <2>3. ~iCrossed => /\ n.conf # None /\ iBase /\ "conf" \in j.made /\ Install!Based(j)
                     /\ n.context = Install!Line(Install!SessionContext(j.kit))
    BY <1>c, <2>2, <2>e DEF Install!Applying, Install!Here
  <2>4. iNode'[j.chan] = n /\ (\A c \in Chans : c # j.chan => iNode'[c] = iNode[c])
    BY <1>a, <1>j, <2>e
  <2>5. ~iCrossed => Install!Doing(k)'
    BY <1>j, <2>1, <2>2, <2>3, <2>4, <2>e DEF Install!Doing, Install!Applying, Install!Based, Install!Here, Install!Line
  <2>6. k.at \in Install!StepsOf(k.kind) /\ (n.conf = None => n.prev = None)
    BY <1>a, <1>j, <2>1, <2>2, InstallAt
  <2>7. ~iCrossed /\ iLost = 0 => iMine[k.chan] # "here"
    BY <1>t, <2>1, <2>e
  <2>8. iNode' = [iNode EXCEPT ![k.chan] = n] /\ k.kind = iJobs[i].kind /\ k.chan = iJobs[i].chan /\ k.at # "new" /\ ~k.ok
    BY <1>b, <1>j, <2>1, <2>e
  <2>9. n.conf # None => iNode[k.chan].conf # None /\ n.context = iNode[k.chan].context
    BY <2>1, <2>2
  <2>10. k \in Install!Jobs /\ n \in Install!Nodes
    BY <2>1, <2>2
  <2>11. /\ iFiles' = iFiles /\ iJobs[i].at # "new" /\ iFaults' = iFaults /\ iJobs' = [iJobs EXCEPT ![i] = k]
         /\ UNCHANGED <<iScene, iConn, iCall, iMine, iAsked, iConnects, iLost, iCrossed, iBase, iLinks>>
    BY <1>j, <2>e
  <2>12. ~iCrossed => Install!Doing(k)' /\ (n.conf # None => iBase)
    BY <2>3, <2>5
  <2> QED BY <2>6, <2>7, <2>8, <2>9, <2>10, <2>11, <2>12, InstallChanges
<1>5. CASE Install!ApplyLooks(i)
  <2>e. /\ j.at = "started" /\ iFiles' = iFiles
        /\ UNCHANGED <<iScene, iConn, iCall, iMine, iAsked, iConnects, iFaults, iLost, iCrossed, iLinks>>
    BY <1>5, <1>j DEF Install!ApplyLooks, Install!At, Install!onServer, Install!countVars
  <2>1. CASE iNode[j.chan].runs = None
    <3>1. Install!Undo(i) /\ Install!Ends(i, FALSE)
      BY <1>5, <1>j, <2>1 DEF Install!ApplyLooks, Install!Chan
    <3> QED BY <1>b, <1>j, <2>e, <3>1, InstallUndoes
  <2>2. CASE iNode[j.chan].runs # None
    <3>k. PICK k : k = [j EXCEPT !.at = "done", !.ok = TRUE]
      OBVIOUS
    <3>0. k \in Install!Jobs
      BY <3>k DEF Install!Jobs, Install!Steps
    <3>1. k.kind = j.kind /\ k.chan = j.chan /\ k.at = "done" /\ k.kit = j.kit /\ k.at \in Install!StepsOf(k.kind)
      BY <3>k, InstallAt DEF Install!Jobs
    <3>2. iJobs' = [iJobs EXCEPT ![i] = k] /\ iNode' = iNode /\ iBase' = iBase
      BY <1>5, <1>j, <2>2, <3>k DEF Install!ApplyLooks, Install!Chan, Install!Ends, Install!serverVars
    <3>3. ~iCrossed => Install!Doing(k)
      BY <1>b, <1>c, <2>2, <2>e, <3>1 DEF Install!Doing, Install!Applying
    <3>4. ~Install!Leaves(j)
      BY <1>b DEF Install!Leaves
    <3> QED BY <1>j, <2>e, <3>0, <3>1, <3>2, <3>3, <3>4, InstallStays
  <2> QED BY <2>1, <2>2
<1> QED BY <1>1, <1>2, <1>3, <1>4, <1>5

\* What the last set left in the place of the new file.
LEMMA InstallPutsBack ==
    ASSUME NEW n \in Install!Nodes, NEW m, m = Install!PutBack(n)
    PROVE  /\ m \in Install!Nodes /\ m.runs = n.runs
           /\ n.prev = None => m = n
           /\ n.prev # None => m.conf = n.prev.conf /\ m.context = n.prev.context /\ m.prev = None
<1>1. CASE n.prev = None
  BY <1>1 DEF Install!PutBack
<1>2. CASE n.prev # None
  <2>1. n.prev \in Install!Had
    BY <1>2 DEF Install!Nodes
  <2>2. n.prev.conf \in {None} \cup Install!Kits /\ n.prev.context \in Install!Contexts
    BY <2>1 DEF Install!Had
  <2> QED BY <1>2, <2>2 DEF Install!PutBack, Install!Nodes
<1> QED BY <1>1, <1>2

\* A set, and the sign-in of a channel.
LEMMA InstallSets ==
    ASSUME Install!IInv, NEW i \in Install!Running,
           Install!SetSwap(i) \/ (\E rises \in BOOLEAN : Install!SetRestart(i, rises) \/ Install!SetCookies(i, rises))
    PROVE  Install!IInv'
<1>j. PICK j \in Install!Jobs : /\ j = iJobs[i] /\ j.chan \in Chans /\ j.kit \in Install!Kits /\ j.kit # None
                                /\ (j.at # "done" => ~j.ok) /\ (~iCrossed => Install!Doing(j))
  BY InstallJob
<1>n. PICK n \in Install!Nodes : n = iNode[j.chan] /\ (n.conf = None => n.prev = None)
  BY <1>j, InstallJob
<1>a. /\ iNode \in [Chans -> Install!Nodes] /\ iBase \in BOOLEAN
      /\ ~iCrossed => \A c \in Chans : iNode[c].conf # None => iBase
      /\ ~iCrossed => \A l \in Install!Running : l = i
  BY DEF Install!IInv, Install!Shape, Install!Alone, Install!Asking, Install!Here
<1>b. j.kind \in {"set", "cookies"} /\ ~Install!Leaves(j) /\ j.at \in {"read", "swapped"} /\ iFiles' = iFiles
      /\ UNCHANGED <<iScene, iConn, iCall, iMine, iAsked, iConnects, iLost, iCrossed, iBase, iLinks>>
      /\ (iFaults' = iFaults \/ Install!Fault)
  BY <1>j DEF Install!SetSwap, Install!SetRestart, Install!SetCookies, Install!At, Install!Leaves, Install!onServer,
    Install!countVars
<1>t. ~iCrossed /\ iLost = 0 => (iMine[j.chan] = "here" => n.conf # None /\ n.runs # None)
  <2> SUFFICES ASSUME ~iCrossed, iLost = 0, iMine[j.chan] = "here"
               PROVE  n.conf # None /\ n.runs # None
    OBVIOUS
  <2>1. ~Install!Removed(j.chan)
    BY <1>a, <1>b, <1>j DEF Install!Removed
  <2> QED BY <1>j, <1>n, <2>1 DEF Install!IInv, Install!Told, Install!Here
\* A set, or a sign-in, ends with the channel as it is to be.
<1>d. ASSUME NEW ok \in BOOLEAN, Install!Ends(i, ok), NEW m \in Install!Nodes, iNode' = [iNode EXCEPT ![j.chan] = m],
             m.conf = None => m.prev = None,
             ~iCrossed => m.context = n.context /\ (m.conf # None => n.conf # None) /\ (n.conf # None => m.conf # None),
             ~iCrossed /\ n.conf # None /\ n.runs # None => m.runs # None
      PROVE  Install!IInv'
  <2>k. PICK k : k = [j EXCEPT !.at = "done", !.ok = ok]
    OBVIOUS
  <2>1. k \in Install!Jobs /\ k.kind = j.kind /\ k.chan = j.chan /\ k.at = "done" /\ k.at \in Install!StepsOf(k.kind)
    BY <2>k, InstallDone
  <2>2. iJobs' = [iJobs EXCEPT ![i] = k]
    BY <1>d, <1>j, <2>k DEF Install!Ends
  <2>3. Install!Doing(k)'
    BY <1>b, <2>1 DEF Install!Doing, Install!Setting
  <2>4. ~iCrossed => (m.conf # None => iBase)
    BY <1>a, <1>d, <1>j, <1>n
  <2>5. ~iCrossed /\ iLost = 0 => (iMine[k.chan] = "here" => m.conf # None /\ m.runs # None)
    BY <1>d, <1>t, <2>1
  <2>6. iNode' = [iNode EXCEPT ![k.chan] = m] /\ iNode[k.chan] = n /\ k.kind = iJobs[i].kind /\ k.chan = iJobs[i].chan
        /\ iJobs[i].at # "new" /\ k.kind # "apply"
    BY <1>b, <1>d, <1>j, <1>n, <2>1
  <2>7. ~iCrossed /\ m.conf # None /\ m.context # None => iNode[k.chan].conf # None /\ m.context = iNode[k.chan].context
    BY <1>d, <2>6
  <2>8. ~iCrossed => Install!Doing(k)' /\ (m.conf # None => iBase)
    BY <2>3, <2>4
  <2>9. ~iCrossed /\ iLost = 0 =>
            /\ iMine[k.chan] = "here" /\ ~Install!Leaves(k) => m.conf # None /\ m.runs # None
            /\ k.kind = "apply" /\ k.at \in {"base", "conf", "started"} => iMine[k.chan] # "here"
    BY <2>5, <2>6
  <2>10. k.at # "new" /\ (k.at # "done" => ~k.ok) /\ iFiles' = iFiles
    BY <1>b, <2>1
  <2>11. m.conf = None => m.prev = None
    BY <1>d
  <2> QED BY <1>b, <2>1, <2>2, <2>6, <2>7, <2>8, <2>9, <2>10, <2>11, InstallChanges
<1>s. PICK m \in Install!Nodes : m = Install!Starts(n)
  BY InstallStarts
<1>m. m.conf = n.conf /\ m.context = n.context /\ m.prev = n.prev /\ (iBase /\ n.conf # None => m.runs # None)
  BY <1>s, InstallStarts
<1>o. iNode = [iNode EXCEPT ![j.chan] = n]
  BY <1>a, <1>j, <1>n
<1>1. CASE Install!SetSwap(i)
  <2>1. CASE n.conf = None
    <3>1. Install!Ends(i, FALSE) /\ iNode' = iNode
      BY <1>1, <1>j, <1>n, <2>1 DEF Install!SetSwap, Install!Here, Install!Chan
    <3>2. iNode' = [iNode EXCEPT ![j.chan] = n]
      BY <1>o, <3>1
    <3>3. FALSE \in BOOLEAN
      OBVIOUS
    <3> QED BY <1>d, <1>n, <3>1, <3>2, <3>3
  <2>2. CASE n.conf # None
    <3>k. PICK k : k = [j EXCEPT !.at = "swapped"]
      OBVIOUS
    <3>1. k \in Install!Jobs /\ k.kind = j.kind /\ k.chan = j.chan /\ k.at = "swapped" /\ k.ok = j.ok
      BY <3>k, InstallTo DEF Install!Steps
    <3>p. PICK p : p = [conf |-> n.conf, context |-> n.context]
      OBVIOUS
    <3>2. p \in Install!Had /\ p.conf = n.conf /\ p.context = n.context /\ p # None
      BY <3>p, InstallNone DEF Install!Nodes, Install!Had
    <3>q. PICK q : q = [n EXCEPT !.conf = j.kit, !.context = n.context, !.prev = p]
      OBVIOUS
    <3>3. q \in Install!Nodes /\ q.conf = j.kit /\ q.context = n.context /\ q.prev = p /\ q.runs = n.runs
      BY <1>j, <3>2, <3>q DEF Install!Nodes
    <3>e. /\ j.at = "read" /\ j.kind = "set" /\ iJobs' = [iJobs EXCEPT ![i] = k]
          /\ iNode' = [iNode EXCEPT ![j.chan] = q]
      BY <1>1, <1>j, <1>n, <2>2, <3>k, <3>p, <3>q DEF Install!SetSwap, Install!At, Install!To, Install!Kept, Install!Here,
        Install!Chan
    <3>4. iNode'[j.chan] = q
      BY <1>a, <1>j, <3>e
    <3>5. Install!Doing(k)'
      BY <1>j, <3>1, <3>2, <3>3, <3>4, <3>e, <2>2 DEF Install!Doing, Install!Setting, Install!Here
    <3>6. ~iCrossed => (q.conf # None => iBase)
      BY <1>a, <1>j, <1>n, <2>2
    <3>7. ~iCrossed /\ iLost = 0 => (iMine[k.chan] = "here" => q.conf # None /\ q.runs # None)
      BY <1>j, <1>t, <3>1, <3>3
    <3>8. iNode' = [iNode EXCEPT ![k.chan] = q] /\ iNode[k.chan] = n /\ k.kind = iJobs[i].kind /\ k.chan = iJobs[i].chan
          /\ iJobs[i].at # "new" /\ k.kind # "apply" /\ ~k.ok
      BY <1>b, <1>j, <1>n, <3>1, <3>e
    <3>9. k.at \in Install!StepsOf(k.kind) /\ (q.conf = None => q.prev = None)
      BY <1>j, <3>1, <3>3, <3>e, InstallAt
    <3>10. ~iCrossed /\ q.conf # None /\ q.context # None => iNode[k.chan].conf # None /\ q.context = iNode[k.chan].context
      BY <2>2, <3>3, <3>8
    <3> QED BY <1>b, <3>1, <3>3, <3>5, <3>6, <3>7, <3>8, <3>9, <3>10, <3>e, InstallChanges
  <2> QED BY <2>1, <2>2
<1>2. ASSUME NEW rises \in BOOLEAN, Install!SetRestart(i, rises)
      PROVE  Install!IInv'
  <2>e. j.at = "swapped" /\ j.kind = "set"
    BY <1>2, <1>j DEF Install!SetRestart, Install!At
  <2>1. ~iCrossed => n.conf # None /\ n.prev # None /\ n.prev.conf # None /\ n.prev.context = n.context
    BY <1>j, <1>n, <2>e DEF Install!Doing, Install!Setting, Install!Here
  <2>2. CASE rises /\ iBase /\ n.conf # None
    <3>q. PICK q : q = [m EXCEPT !.prev = None]
      OBVIOUS
    <3>1. q \in Install!Nodes /\ q.conf = n.conf /\ q.context = n.context /\ q.prev = None /\ q.runs = m.runs
      BY <1>m, <3>q DEF Install!Nodes
    <3>2. Install!Ends(i, TRUE) /\ iNode' = [iNode EXCEPT ![j.chan] = q]
      BY <1>2, <1>j, <1>n, <1>s, <2>2, <3>q DEF Install!SetRestart, Install!Here, Install!Chan
    <3>3. TRUE \in BOOLEAN
      OBVIOUS
    <3> QED BY <1>d, <1>m, <2>2, <3>1, <3>2, <3>3
  <2>3. CASE ~(rises /\ iBase /\ n.conf # None)
    <3>p. PICK p : p = Install!PutBack(n)
      OBVIOUS
    <3>1. p \in Install!Nodes /\ (n.prev = None => p = n) /\ (n.prev # None => p.conf = n.prev.conf /\ p.context = n.prev.context /\ p.prev = None)
      BY <3>p, InstallPutsBack
    <3>q. PICK q : q = Install!Starts(p)
      OBVIOUS
    <3>2. q \in Install!Nodes /\ q.conf = p.conf /\ q.context = p.context /\ q.prev = p.prev /\ (iBase /\ p.conf # None => q.runs # None)
      BY <3>1, <3>q, InstallStarts
    <3>3. Install!Ends(i, FALSE) /\ iNode' = [iNode EXCEPT ![j.chan] = q]
      BY <1>2, <1>j, <1>n, <2>3, <3>p, <3>q DEF Install!SetRestart, Install!Here, Install!Chan
    <3>4. q.conf = None => q.prev = None
      BY <1>n, <3>1, <3>2
    <3>5. ~iCrossed => q.context = n.context /\ q.conf # None /\ iBase /\ q.runs # None
      BY <1>a, <1>j, <1>n, <2>1, <3>1, <3>2
    <3>6. FALSE \in BOOLEAN
      OBVIOUS
    <3> QED BY <1>d, <2>1, <3>2, <3>3, <3>4, <3>5, <3>6
  <2> QED BY <2>2, <2>3
<1>3. ASSUME NEW rises \in BOOLEAN, Install!SetCookies(i, rises)
      PROVE  Install!IInv'
  <2>1. CASE rises
    <3>k. PICK ok \in BOOLEAN : ok = (n.conf # None /\ iBase)
      OBVIOUS
    <3>1. Install!Ends(i, ok) /\ iNode' = [iNode EXCEPT ![j.chan] = m]
      BY <1>3, <1>j, <1>n, <1>s, <2>1, <3>k DEF Install!SetCookies, Install!Here, Install!Chan
    <3>2. ~iCrossed /\ n.conf # None => iBase
      BY <1>a, <1>j, <1>n
    <3> QED BY <1>d, <1>m, <1>n, <3>1, <3>2
  <2>2. CASE ~rises
    <3>1. Install!Ends(i, FALSE) /\ iNode' = iNode
      BY <1>3, <2>2 DEF Install!SetCookies
    <3>2. iNode' = [iNode EXCEPT ![j.chan] = n]
      BY <1>o, <3>1
    <3>3. FALSE \in BOOLEAN
      OBVIOUS
    <3> QED BY <1>d, <1>n, <3>1, <3>2, <3>3
  <2> QED BY <2>1, <2>2
<1> QED BY <1>1, <1>2, <1>3

LEMMA InstallRemoves ==
    ASSUME Install!IInv, NEW i \in Install!Running,
           Install!RemoveChannel(i) \/ Install!RemoveEverything(i)
    PROVE  Install!IInv'
<1>j. PICK j \in Install!Jobs : /\ j = iJobs[i] /\ j.chan \in Chans /\ (j.at # "done" => ~j.ok) /\ (~iCrossed => Install!Doing(j))
  BY InstallJob
<1>a. /\ iNode \in [Chans -> Install!Nodes] /\ iBase \in BOOLEAN
      /\ ~iCrossed => \A c \in Chans : iNode[c].conf # None => iBase
      /\ ~iCrossed => \A l \in Install!Running : l = i
  BY DEF Install!IInv, Install!Shape, Install!Alone, Install!Asking, Install!Here
<1>b. /\ j.kind = "remove" /\ iFiles' = iFiles /\ j.at \in {"read", "last"}
      /\ UNCHANGED <<iScene, iConn, iCall, iMine, iAsked, iConnects, iFaults, iLost, iCrossed, iLinks>>
  BY <1>j DEF Install!RemoveChannel, Install!RemoveEverything, Install!At, Install!onServer, Install!countVars
<1>c. Install!NoChannel \in Install!Nodes /\ Install!NoChannel.conf = None /\ Install!NoChannel.prev = None
  BY DEF Install!NoChannel, Install!Nodes, Install!Contexts
<1>1. CASE Install!RemoveChannel(i)
  <2>k. PICK k : k = [j EXCEPT !.at = "removed"]
    OBVIOUS
  <2>1. k \in Install!Jobs /\ k.kind = j.kind /\ k.chan = j.chan /\ k.at = "removed" /\ k.ok = j.ok
    BY <2>k, InstallTo DEF Install!Steps
  <2>2. /\ iJobs' = [iJobs EXCEPT ![i] = k] /\ iNode' = [iNode EXCEPT ![k.chan] = Install!NoChannel] /\ iBase' = iBase
        /\ j.at = "read"
    BY <1>1, <1>j, <2>k, <2>1 DEF Install!RemoveChannel, Install!At, Install!To, Install!Chan
  <2>3. iNode'[k.chan].conf = None
    BY <1>a, <1>c, <1>j, <2>1, <2>2
  <2>4. Install!Doing(k)' /\ Install!Leaves(k) /\ k.at \in Install!StepsOf(k.kind)
    BY <1>b, <2>1, <2>3, InstallAt DEF Install!Doing, Install!Removing, Install!Leaves, Install!Here
  <2>5. k.kind = iJobs[i].kind /\ k.chan = iJobs[i].chan /\ iJobs[i].at # "new" /\ k.kind # "apply" /\ ~k.ok
    BY <1>b, <1>j, <2>1, <2>2
  <2> QED BY <1>b, <1>c, <2>1, <2>2, <2>4, <2>5, InstallChanges
<1>2. CASE Install!RemoveEverything(i)
  <2>k. PICK k : k = [j EXCEPT !.at = "done", !.ok = TRUE]
    OBVIOUS
  <2>0. k \in Install!Jobs
    BY <2>k DEF Install!Jobs, Install!Steps
  <2>1. k.kind = j.kind /\ k.chan = j.chan /\ k.at = "done" /\ k.ok /\ k.at \in Install!StepsOf(k.kind)
    BY <2>k, InstallAt DEF Install!Jobs
  <2>2. /\ iJobs' = [iJobs EXCEPT ![i] = k] /\ iBase' = FALSE /\ j.at = "last"
        /\ iNode' = [c \in Chans |-> [Install!NoChannel EXCEPT !.runs = iNode[c].runs]]
    BY <1>2, <1>j, <2>k DEF Install!RemoveEverything, Install!At, Install!Ends
  <2>3. ASSUME NEW c \in Chans
        PROVE  /\ [Install!NoChannel EXCEPT !.runs = iNode[c].runs] \in Install!Nodes
               /\ iNode'[c].conf = None /\ iNode'[c].prev = None
    <3>1. iNode[c].runs \in {None} \cup Install!Kits
      BY <1>a DEF Install!Nodes
    <3>2. [Install!NoChannel EXCEPT !.runs = iNode[c].runs]
              = [conf |-> None, context |-> None, prev |-> None, runs |-> iNode[c].runs]
      BY DEF Install!NoChannel
    <3> QED BY <2>2, <3>1, <3>2 DEF Install!Nodes, Install!Contexts
  <2>4. iNode' \in [Chans -> Install!Nodes]
    BY <2>2, <2>3
  <2>5. iBase' \in BOOLEAN /\ DOMAIN iLinks' = Chans
    BY <1>b, <2>2 DEF Install!IInv, Install!Shape
  <2>6. Install!Doing(k)' /\ Install!Leaves(k)
    BY <1>b, <2>1 DEF Install!Doing, Install!Removing, Install!Leaves
  <2>7. Install!LinksKept'
    BY <2>3 DEF Install!LinksKept, Install!Here
  <2>8. ASSUME ~iCrossed, iLost = 0, NEW c \in Chans, iMine[c] = "here", ~(k.chan = c /\ Install!Leaves(k))
        PROVE  FALSE
    <3>1. ~Install!Removed(c)
      BY <2>8, <1>a, <1>j, <2>1, <2>6 DEF Install!Removed
    <3>2. Install!Here(c)
      BY <2>8, <3>1 DEF Install!IInv, Install!Told
    <3>3. Install!NoneListed
      BY <2>8, <1>b, <1>j, <2>2 DEF Install!Doing, Install!Removing
    <3> QED BY <3>2, <3>3 DEF Install!NoneListed
  <2>9. k.kind = iJobs[i].kind /\ k.chan = iJobs[i].chan /\ iJobs[i].at # "new" /\ k.kind # "apply" /\ iFiles' = iFiles /\ iFaults' = iFaults
    BY <1>b, <1>j, <2>1, <2>2
  <2> QED BY <1>b, <2>0, <2>1, <2>2, <2>3, <2>4, <2>5, <2>6, <2>7, <2>8, <2>9, InstallGoesOn
<1> QED BY <1>1, <1>2

LEMMA InstallOrphans ==
    ASSUME Install!Shape, Install!Orphaned, NEW a,
           \/ Install!Orphans' \subseteq Install!Orphans /\ iLost' = iLost
           \/ Install!Orphans' \subseteq Install!Orphans \cup {a} /\ iLost' = iLost + 1
    PROVE  Install!Orphaned'
<1>1. iAsked \in Nat /\ Install!Orphans \in SUBSET 1..iAsked
  <2>1. iFiles \subseteq 1..iAsked /\ iAsked \in 0..MaxOrders /\ MaxOrders \in Nat
    BY InstallAssumption DEF Install!Shape
  <2>2. Install!Orphans \subseteq iFiles
    BY DEF Install!Orphans
  <2>3. iAsked \in Nat
    BY <2>1
  <2> QED BY <2>1, <2>2, <2>3
<1>2. iLost \in Nat /\ Install!Cardinality(Install!Orphans) <= iLost
  BY InstallAssumption DEF Install!Shape, Install!Orphaned
<1>3. Install!Orphans' \in SUBSET (Install!Orphans \cup {a})
  OBVIOUS
<1>4. IsFiniteSet(Install!Orphans \cup {a})
  <2>1. IsFiniteSet(1..iAsked)
    BY <1>1, FS_Interval
  <2>2. IsFiniteSet(Install!Orphans)
    BY <1>1, <2>1, FS_Subset
  <2> QED BY <2>2, FS_AddElement
<1>5. Cardinality(Install!Orphans') \in Nat
  <2>1. IsFiniteSet(Install!Orphans')
    BY <1>3, <1>4, FS_Subset
  <2> QED BY <2>1, FS_CardinalityType
<1>6. PICK n \in Nat : n = Install!Cardinality(Install!Orphans')
  BY <1>5, InstallSizes
<1>7. PICK o \in Nat : o = Install!Cardinality(Install!Orphans)
  BY <1>1, InstallCounts
<1>8. n <= o + 1 /\ (Install!Orphans' \subseteq Install!Orphans => n <= o)
  BY <1>1, <1>3, <1>6, <1>7, InstallCounts
<1>9. n <= iLost'
  BY <1>2, <1>7, <1>8
<1> QED BY <1>6, <1>9 DEF Install!Orphaned

\* What a step of the wizard that starts no installer leaves to be shown.
LEMMA InstallQuiet ==
    ASSUME Install!IInv, UNCHANGED <<iScene, iJobs, iNode, iBase, iCrossed, iLinks>>,
           iConn' \in {None} \cup Install!Conns, iCall' \in {None} \cup Install!Calls,
           iAsked' \in iAsked..MaxOrders, iConnects' \in 0..MaxLogins,
           iFaults' \in 0..MaxBreaks, iLost' \in 0..iFaults', iFiles' \subseteq 1..iAsked',
           iMine' \in [Chans -> {"none", "here", "unsure"}],
           Install!Asking', Install!Orphaned', iLost' = 0 => iLost = 0 /\ iMine' = iMine
    PROVE  Install!IInv'
<1>1. Install!Running' = Install!Running
  BY DEF Install!Running, Install!Ids
<1>2. Install!Shape'
  <2>1. /\ iScene \in Orders /\ iAsked \in 0..MaxOrders /\ Install!Running \subseteq 1..iAsked
        /\ iJobs \in [Install!Ids -> {None} \cup Install!Jobs] /\ iNode \in [Chans -> Install!Nodes]
        /\ DOMAIN iLinks = Chans /\ \A c \in Chans : ~Install!Here(c) => iNode[c].prev = None
    BY DEF Install!IInv, Install!Shape
  <2>2. iAsked' \in 0..MaxOrders /\ Install!Running' \subseteq 1..iAsked'
    BY <1>1, <2>1, InstallAssumption
  <2>3. iBase' \in BOOLEAN /\ iCrossed' \in BOOLEAN
    BY DEF Install!IInv, Install!Shape
  <2>4. \A c \in Chans : ~Install!Here(c)' => iNode'[c].prev = None
    BY <2>1 DEF Install!Here
  <2> QED BY <2>1, <2>2, <2>3, <2>4 DEF Install!Shape, Install!Ids, Install!Jobs, Install!Nodes, Install!Conns, Install!Calls
<1>3. Install!Alone'
  <2>1. \A j : Install!Doing(j)' <=> Install!Doing(j)
    BY DEF Install!Doing, Install!Applying, Install!Setting, Install!Removing, Install!Here, Install!Based, Install!NoneListed
  <2>2. \A c : Install!Here(c)' <=> Install!Here(c)
    BY DEF Install!Here
  <2>3. (\A i \in Install!Running : iJobs[i].at \in Install!StepsOf(iJobs[i].kind) /\ (iJobs[i].at # "done" => ~iJobs[i].ok))'
    BY <1>1 DEF Install!IInv, Install!Alone, Install!StepsOf
  <2>4. iCrossed \/ (\A i \in Install!Running : Install!Doing(iJobs[i]))'
    BY <1>1, <2>1 DEF Install!IInv, Install!Alone
  <2>5. iCrossed \/ (\A c \in Chans : Install!Here(c) => iBase)'
    BY <2>2 DEF Install!IInv, Install!Alone
  <2> QED BY <2>3, <2>4, <2>5 DEF Install!Alone
<1>4. Install!Told'
  BY <1>1 DEF Install!IInv, Install!Told, Install!Removed, Install!Leaves, Install!Here
<1>5. Install!LinksKept'
  BY DEF Install!IInv, Install!LinksKept, Install!Here
<1> QED BY <1>2, <1>3, <1>4, <1>5 DEF Install!IInv

LEMMA InstallTypes ==
    ASSUME Install!IInv
    PROVE  /\ iConn \in {None} \cup Install!Conns /\ iCall \in {None} \cup Install!Calls
           /\ iAsked \in 0..MaxOrders /\ iConnects \in 0..MaxLogins
           /\ iFaults \in 0..MaxBreaks /\ iLost \in 0..iFaults /\ iFiles \subseteq 1..iAsked
           /\ iMine \in [Chans -> {"none", "here", "unsure"}]
           /\ MaxOrders \in Nat /\ MaxLogins \in Nat /\ MaxBreaks \in Nat
           /\ Install!Asking /\ Install!Shape /\ Install!Orphaned
BY InstallAssumption DEF Install!IInv, Install!Shape

\* Connecting, probing, disconnecting.
LEMMA InstallConnects ==
    ASSUME Install!IInv,
           \/ Install!ConnectFails \/ Install!Disconnect \/ Install!Probe
           \/ \E s \in Roots, script \in {"pinned", "other"} : Install!Connect(s, script)
    PROVE  Install!IInv'
<1>a. UNCHANGED <<iScene, iCall, iFiles, iJobs, iNode, iBase, iMine, iLinks, iAsked, iFaults, iLost, iCrossed>>
  BY DEF Install!ConnectFails, Install!Disconnect, Install!Probe, Install!Connect, Install!serverVars, Install!countVars
<1>t. /\ iConn \in {None} \cup Install!Conns /\ iCall \in {None} \cup Install!Calls
      /\ iAsked \in 0..MaxOrders /\ iConnects \in 0..MaxLogins
      /\ iFaults \in 0..MaxBreaks /\ iLost \in 0..iFaults /\ iFiles \subseteq 1..iAsked
      /\ iMine \in [Chans -> {"none", "here", "unsure"}]
      /\ MaxOrders \in Nat /\ MaxLogins \in Nat /\ MaxBreaks \in Nat
  BY InstallTypes
<1>1. /\ iConn' \in {None} \cup Install!Conns
      /\ iConn' # None /\ iConn'.probed => iConn'.script = "pinned"
      /\ iCall # None => iConn' # None /\ iConn'.probed
      /\ iConnects' \in 0..MaxLogins
  <2>1. CASE Install!ConnectFails \/ Install!Disconnect
    BY <1>t, <2>1 DEF Install!ConnectFails, Install!Disconnect, Install!Idle, Install!countVars
  <2>2. CASE Install!Probe
    <3>1. iConn \in Install!Conns /\ ~iConn.probed /\ iConnects' = iConnects
      BY <1>t, <2>2 DEF Install!Probe, Install!countVars
    <3>2. iCall = None
      BY <3>1, InstallTypes DEF Install!Asking
    <3>3. \/ iConn' = None
          \/ iConn' = [iConn EXCEPT !.probed = TRUE] /\ iConn.script = "pinned"
      BY <2>2 DEF Install!Probe, Install!Verified
    <3> QED BY <1>t, <3>1, <3>2, <3>3 DEF Install!Conns
  <2>3. ASSUME NEW s \in Roots, NEW script \in {"pinned", "other"}, Install!Connect(s, script)
        PROVE  /\ iConn' \in {None} \cup Install!Conns
               /\ iConn' # None /\ iConn'.probed => iConn'.script = "pinned"
               /\ iCall # None => iConn' # None /\ iConn'.probed
               /\ iConnects' \in 0..MaxLogins
    <3>1. iCall = None /\ iConnects < MaxLogins /\ iConnects' = iConnects + 1
          /\ iConn' = [sudo |-> s, script |-> script, up |-> TRUE, probed |-> FALSE]
      BY <2>3 DEF Install!Connect, Install!Idle
    <3>2. iConn' \in Install!Conns /\ ~iConn'.probed
      BY <3>1 DEF Install!Conns
    <3> QED BY <1>t, <3>1, <3>2
  <2> QED BY <2>1, <2>2, <2>3
<1>2. Install!Asking'
  BY <1>1, <1>a, InstallTypes DEF Install!Asking, Install!Running, Install!Ids
<1>3. Install!Orphaned'
  BY <1>a, InstallTypes DEF Install!Orphaned, Install!Orphans, Install!Handing, Install!Cardinality
<1> QED BY <1>1, <1>2, <1>3, <1>a, <1>t, InstallQuiet

LEMMA InstallAsk ==
    ASSUME Install!IInv, NEW kind \in Install!Kinds, NEW c \in iScene.chans, NEW kit, Install!Ask(kind, c, kit)
    PROVE  Install!IInv'
<1>t. /\ iConn \in {None} \cup Install!Conns /\ iCall \in {None} \cup Install!Calls
      /\ iAsked \in 0..MaxOrders /\ iConnects \in 0..MaxLogins
      /\ iFaults \in 0..MaxBreaks /\ iLost \in 0..iFaults /\ iFiles \subseteq 1..iAsked
      /\ iMine \in [Chans -> {"none", "here", "unsure"}] /\ Install!Running \subseteq 1..iAsked
      /\ MaxOrders \in Nat /\ Install!Asking /\ Install!Shape /\ Install!Orphaned
  BY InstallTypes DEF Install!Shape
<1>d. PICK d : d = [id |-> iAsked + 1, kind |-> kind, chan |-> c, kit |-> kit, at |-> "write"]
  OBVIOUS
<1>e. /\ iCall = None /\ iConn # None /\ iConn.probed /\ iAsked < MaxOrders /\ iAsked' = iAsked + 1 /\ iCall' = d
      /\ UNCHANGED <<iScene, iConn, iFiles, iJobs, iNode, iBase, iMine, iLinks, iConnects, iFaults, iLost, iCrossed>>
      /\ kit \in Install!Kits
  BY <1>d DEF Install!Ask, Install!Idle, Install!Takes, Install!Kits, Install!serverVars
<1>1. iAsked + 1 \in Install!Ids /\ iAsked' \in iAsked..MaxOrders /\ iFiles' \subseteq 1..iAsked' /\ iAsked + 1 \notin iFiles
      /\ iAsked + 1 \notin Install!Running
  BY <1>t, <1>e, InstallIds
<1>2. c \in Chans
  BY InstallAssumption, InstallTypes DEF Install!Shape
<1>3. d \in Install!Calls /\ d # None /\ d.id = iAsked + 1 /\ d.at = "write"
  BY <1>d, <1>e, <1>1, <1>2, InstallNone DEF Install!Calls
<1>4. iJobs[iAsked + 1] = None
  BY <1>1 DEF Install!Running
<1>5. Install!Asking'
  <2>1. Install!Running' = Install!Running
    BY <1>e DEF Install!Running, Install!Ids
  <2> QED BY <1>t, <1>e, <1>1, <1>3, <1>4, <2>1 DEF Install!Asking
<1>6. Install!Orphaned'
  <2>1. Install!Orphans' \subseteq Install!Orphans
    BY <1>e, <1>3 DEF Install!Orphans, Install!Handing
  <2> QED BY <1>t, <1>e, <2>1, InstallOrphans
<1> QED BY <1>t, <1>e, <1>1, <1>3, <1>5, <1>6, InstallQuiet

\* What was asked is written, refused, or lost with the line.
LEMMA InstallCalls ==
    ASSUME Install!IInv, Install!Write \/ Install!Refused \/ Install!Lose
    PROVE  Install!IInv'
<1>t. /\ iConn \in {None} \cup Install!Conns /\ iCall \in {None} \cup Install!Calls
      /\ iAsked \in 0..MaxOrders /\ iConnects \in 0..MaxLogins
      /\ iFaults \in 0..MaxBreaks /\ iLost \in 0..iFaults /\ iFiles \subseteq 1..iAsked
      /\ iMine \in [Chans -> {"none", "here", "unsure"}]
      /\ MaxOrders \in Nat /\ MaxLogins \in Nat /\ MaxBreaks \in Nat
      /\ Install!Asking /\ Install!Shape /\ Install!Orphaned
  BY InstallTypes
<1>a. /\ iConn # None /\ iConn.probed => iConn.script = "pinned"
      /\ iCall # None => iCall \in Install!Calls /\ iConn # None /\ iConn.probed /\ iCall.id = iAsked
      /\ iCall # None /\ iCall.at # "wait" => iJobs[iAsked] = None
      /\ iCall # None /\ iCall.at = "write" => iAsked \notin iFiles
      /\ iLost = 0 => \A i \in Install!Running : iCall # None /\ iCall.at = "wait" /\ i = iCall.id
      /\ ~iCrossed => \A i, k \in Install!Running : i = k
  BY <1>t DEF Install!Asking
<1>b. UNCHANGED <<iScene, iJobs, iNode, iBase, iLinks, iAsked, iConnects, iCrossed>>
  BY DEF Install!Write, Install!Refused, Install!Lose, Install!serverVars, Install!countVars
<1>c. Install!Running' = Install!Running
  BY <1>b DEF Install!Running, Install!Ids
<1>d. iAsked' \in iAsked..MaxOrders
  BY <1>t, <1>b
<1>n. iCall # None => iCall.id \in 1..iAsked
  BY <1>t, <1>a DEF Install!Calls, Install!Ids
<1>1. CASE Install!Write
  <2>e. /\ iCall # None /\ iCall.at = "write" /\ UNCHANGED <<iConn, iFaults, iLost>>
        /\ \/ iFiles' = iFiles \cup {iCall.id} /\ iCall' = [iCall EXCEPT !.at = "run"] /\ iMine' = iMine
           \/ iFiles' = iFiles /\ iCall' = None /\ iMine' = iMine
    BY <1>1 DEF Install!Write, Install!Answered, Install!countVars
  <2>1. iCall' \in {None} \cup Install!Calls /\ (iCall' # None => iCall'.id = iAsked /\ iCall'.at = "run")
    BY <1>a, <2>e DEF Install!Calls
  <2>2. iLost = 0 => Install!Running = {}
    BY <1>a, <2>e
  <2>3. Install!Asking'
    BY <1>a, <1>b, <1>c, <2>1, <2>2, <2>e DEF Install!Asking
  <2>4. Install!Orphans' \subseteq Install!Orphans
    <3> SUFFICES ASSUME NEW l \in iFiles', ~Install!Handing(l)'
                 PROVE  l \in iFiles /\ ~Install!Handing(l)
      BY DEF Install!Orphans
    <3>1. ~Install!Handing(l)
      BY <1>b, <2>e DEF Install!Handing
    <3>2. iFiles' = iFiles \cup {iCall.id} => iCall' # None /\ iCall'.at = "run" /\ iCall'.id = iCall.id
      <4>1. CASE iCall' = [iCall EXCEPT !.at = "run"]
        BY <1>a, <2>e, <4>1, InstallNone DEF Install!Calls
      <4>2. CASE iFiles' = iFiles
        BY <1>a, <2>e, <4>2
      <4> QED BY <2>e, <4>1, <4>2
    <3>3. l \in iFiles
      BY <2>e, <3>2 DEF Install!Handing
    <3> QED BY <3>1, <3>3
  <2>5. Install!Orphaned'
    BY <1>t, <2>4, <2>e, InstallOrphans
  <2>6. iFiles' \subseteq 1..iAsked'
    BY <1>b, <1>n, <1>t, <2>e
  <2> QED BY <1>b, <1>d, <1>t, <2>1, <2>3, <2>5, <2>6, <2>e, InstallQuiet
<1>2. CASE Install!Refused
  <2>e. /\ iCall # None /\ iCall.at = "run" /\ UNCHANGED <<iConn, iFaults, iLost, iMine>>
        /\ iFiles' = iFiles \ {iCall.id} /\ iCall' = None
    BY <1>2 DEF Install!Refused, Install!Answered, Install!TakesBack, Install!countVars
  <2>1. iLost = 0 => Install!Running = {}
    BY <1>a, <2>e
  <2>2. Install!Asking'
    BY <1>a, <1>b, <1>c, <2>1, <2>e DEF Install!Asking
  <2>3. Install!Orphans' \subseteq Install!Orphans
    BY <1>b, <2>e DEF Install!Orphans, Install!Handing
  <2>4. Install!Orphaned'
    BY <1>t, <2>3, <2>e, InstallOrphans
  <2>5. iFiles' \subseteq 1..iAsked'
    BY <1>b, <1>t, <2>e
  <2> QED BY <1>b, <1>d, <1>t, <2>2, <2>4, <2>5, <2>e, InstallQuiet
<1>3. CASE Install!Lose
  <2>e. /\ iConn # None /\ iFaults < MaxBreaks /\ iFaults' = iFaults + 1 /\ iLost' = iLost + 1 /\ iFiles' = iFiles
        /\ iConn' = [iConn EXCEPT !.up = FALSE]
        /\ \/ iCall # None /\ iCall' = None /\ iMine' = [iMine EXCEPT ![iCall.chan] = "unsure"]
           \/ iCall # None /\ iCall' = None /\ iMine' = iMine
           \/ (iCall # None => iCall.at = "write") /\ iCall' = iCall /\ iMine' = iMine
    <3>1. iCall # None => iCall.at \in {"write", "run", "wait"}
      BY <1>a DEF Install!Calls
    <3> QED BY <1>3, <3>1 DEF Install!Lose, Install!Fault, Install!Answered
  <2>1. iConn' \in Install!Conns /\ iConn' # None /\ iConn'.probed = iConn.probed /\ iConn'.script = iConn.script
    BY <1>t, <2>e, InstallNone DEF Install!Conns
  <2>2. iLost' # 0 /\ iFaults' \in 0..MaxBreaks /\ iLost' \in 0..iFaults'
    BY <1>t, <2>e
  <2>3. iCall' \in {None} \cup Install!Calls /\ (iCall' # None => iCall' = iCall)
    BY <1>t, <2>e
  <2>4. iMine' \in [Chans -> {"none", "here", "unsure"}]
    BY <1>t, <2>e
  <2>5. Install!Asking'
    BY <1>a, <1>b, <1>c, <2>1, <2>2, <2>3, <2>e DEF Install!Asking
  <2>6. Install!Orphans' \subseteq Install!Orphans \cup {iCall.id}
    BY <1>b, <2>e DEF Install!Orphans, Install!Handing
  <2>7. Install!Orphaned'
    BY <1>t, <2>6, <2>e, InstallOrphans
  <2>8. iFiles' \subseteq 1..iAsked'
    BY <1>b, <1>t, <2>e
  <2> QED BY <1>b, <1>d, <1>t, <2>1, <2>2, <2>3, <2>4, <2>5, <2>7, <2>8, <2>e, InstallQuiet
<1> QED BY <1>1, <1>2, <1>3

\* The installer is started.
LEMMA InstallLaunch ==
    ASSUME Install!IInv, Install!Launch
    PROVE  Install!IInv'
<1>t. /\ iConn \in {None} \cup Install!Conns /\ iCall \in {None} \cup Install!Calls
      /\ iAsked \in 0..MaxOrders /\ iConnects \in 0..MaxLogins
      /\ iFaults \in 0..MaxBreaks /\ iLost \in 0..iFaults /\ iFiles \subseteq 1..iAsked
      /\ MaxOrders \in Nat /\ Install!Asking /\ Install!Shape /\ Install!Orphaned
      /\ iJobs \in [Install!Ids -> {None} \cup Install!Jobs]
  BY InstallTypes DEF Install!Shape
<1>d. PICK d \in Install!Calls : d = iCall /\ d # None /\ d.at = "run" /\ d.id = iAsked /\ iConn # None /\ iConn.probed /\ iConn.script = "pinned"
  BY <1>t DEF Install!Launch, Install!Asking
<1>n. iAsked \in Install!Ids /\ iAsked \in 1..iAsked /\ d.kind \in Install!Kinds /\ d.chan \in Chans /\ d.kit \in Install!Kits /\ iJobs[iAsked] = None
  <2>1. iAsked \in Install!Ids
    BY <1>d DEF Install!Calls
  <2>2. iAsked \in 1..iAsked
    BY <1>t, <2>1, InstallIds
  <2> QED BY <1>d, <1>t, <2>1, <2>2 DEF Install!Calls, Install!Asking
<1>k. PICK k : k = [kind |-> d.kind, chan |-> d.chan, kit |-> d.kit, at |-> "new", made |-> {},
                    script |-> "pinned", before |-> None, ok |-> FALSE]
  OBVIOUS
<1>1. k \in Install!Jobs
  BY <1>k, <1>n DEF Install!Jobs, Install!Steps
<1>2. k.at = "new" /\ k.made = {} /\ ~k.ok /\ k # None
  BY <1>k, <1>1, InstallNone
<1>e. /\ iJobs' = [iJobs EXCEPT ![iAsked] = k] /\ iCall' = [d EXCEPT !.at = "wait"]
      /\ iCrossed' = (iCrossed \/ Install!Running # {})
      /\ UNCHANGED <<iScene, iConn, iFiles, iNode, iBase, iMine, iLinks, iAsked, iConnects, iFaults, iLost>>
  BY <1>d, <1>k DEF Install!Launch, Install!serverVars
<1>3. iCall' \in Install!Calls /\ iCall'.at = "wait" /\ iCall'.id = iAsked /\ iCall' # None
  BY <1>d, <1>e, InstallNone DEF Install!Calls
<1>4. iJobs'[iAsked] = k /\ \A l \in Install!Ids : l # iAsked => iJobs'[l] = iJobs[l]
  BY <1>t, <1>n, <1>e
<1>5. Install!Running' = Install!Running \cup {iAsked}
  BY <1>2, <1>4, <1>n DEF Install!Running, Install!Ids
<1>6. (iLost = 0 \/ ~iCrossed') => Install!Running = {}
  BY <1>t, <1>d, <1>e DEF Install!Asking
<1>7. Install!Shape'
  <2>1. iJobs' \in [Install!Ids -> {None} \cup Install!Jobs]
    BY <1>1, <1>e, <1>t, <1>n
  <2>2. Install!Running' \subseteq 1..iAsked' /\ iCrossed' \in BOOLEAN
    <3>1. Install!Running \subseteq 1..iAsked
      BY <1>t DEF Install!Shape
    <3> QED BY <1>5, <1>n, <1>e, <3>1
  <2>3. /\ iScene \in Orders /\ iNode \in [Chans -> Install!Nodes] /\ iBase \in BOOLEAN
        /\ iMine \in [Chans -> {"none", "here", "unsure"}] /\ DOMAIN iLinks = Chans
        /\ \A c \in Chans : ~Install!Here(c) => iNode[c].prev = None
    BY <1>t DEF Install!Shape
  <2>4. \A c \in Chans : ~Install!Here(c)' => iNode'[c].prev = None
    BY <1>e, <2>3 DEF Install!Here
  <2> QED BY <1>3, <1>e, <1>t, <2>1, <2>2, <2>3, <2>4 DEF Install!Shape, Install!Ids, Install!Jobs, Install!Nodes,
    Install!Conns, Install!Calls
<1>8. Install!Asking'
  BY <1>d, <1>e, <1>3, <1>5, <1>6 DEF Install!Asking
<1>9. Install!Orphaned'
  <2>1. Install!Orphans' \subseteq Install!Orphans
    <3> SUFFICES ASSUME NEW l \in iFiles', ~Install!Handing(l)'
                 PROVE  l \in iFiles /\ ~Install!Handing(l)
      BY DEF Install!Orphans
    <3>1. l \in iFiles /\ l \in Install!Ids
      BY <1>e, <1>t, InstallIds
    <3>2. CASE l = iAsked
      BY <1>2, <1>4, <3>2 DEF Install!Handing
    <3>3. CASE l # iAsked
      BY <1>4, <1>d, <3>1, <3>3 DEF Install!Handing
    <3> QED BY <3>2, <3>3
  <2> QED BY <1>e, <1>t, <2>1, InstallOrphans
<1>10. Install!Alone'
  <2>1. \A l \in Install!Running : l \in Install!Ids /\ l # iAsked
    BY <1>n DEF Install!Running
  <2>2. \A l \in Install!Running : iJobs'[l].at \in Install!StepsOf(iJobs'[l].kind) /\ (iJobs'[l].at # "done" => ~iJobs'[l].ok)
    BY <1>4, <1>t, <2>1 DEF Install!IInv, Install!Alone
  <2>3. k.at \in Install!StepsOf(k.kind)
    BY <1>2, InstallAt
  <2>4. (\A l \in Install!Running : iJobs[l].at \in Install!StepsOf(iJobs[l].kind) /\ (iJobs[l].at # "done" => ~iJobs[l].ok))'
    BY <1>2, <1>4, <1>5, <2>2, <2>3 DEF Install!StepsOf
  <2>5. Install!Doing(k)'
    BY <1>2 DEF Install!Doing, Install!Applying, Install!Setting, Install!Removing
  <2>6. iCrossed' \/ (\A l \in Install!Running : Install!Doing(iJobs[l]))'
    <3>1. ~iCrossed' => \A l \in Install!Running' : iJobs'[l] = k
      BY <1>4, <1>5, <1>6
    <3> QED BY <3>1, <2>5
  <2>7. iCrossed' \/ (\A c \in Chans : Install!Here(c) => iBase)'
    BY <1>e DEF Install!IInv, Install!Alone, Install!Here
  <2> QED BY <2>4, <2>6, <2>7 DEF Install!Alone
<1>11. Install!Told'
  <2> SUFFICES ASSUME ~iCrossed', iLost' = 0
               PROVE  /\ \A c \in Chans : iMine'[c] = "here" /\ ~Install!Removed(c)' => Install!Here(c)' /\ iNode'[c].runs # None
                      /\ \A l \in Install!Running' : iJobs'[l].kind = "apply" /\ iJobs'[l].at \in {"base", "conf", "started"} => iMine'[iJobs'[l].chan] # "here"
    BY DEF Install!Told
  <2>1. \A c \in Chans : ~Install!Removed(c)
    BY <1>6 DEF Install!Removed
  <2>2. \A c \in Chans : iMine[c] = "here" => Install!Here(c) /\ iNode[c].runs # None
    BY <1>e, <2>1 DEF Install!IInv, Install!Told
  <2>3. \A l \in Install!Running' : iJobs'[l] = k
    BY <1>4, <1>5, <1>6
  <2> QED BY <1>2, <1>e, <2>2, <2>3 DEF Install!Here
<1>12. Install!LinksKept'
  BY <1>e DEF Install!IInv, Install!LinksKept, Install!Here
<1> QED BY <1>7, <1>8, <1>9, <1>10, <1>11, <1>12 DEF Install!IInv

\* The installer is done, and the wizard, if it still waits, is told.
LEMMA InstallEnds ==
    ASSUME Install!IInv, NEW i \in Install!Ids, Install!Done(i)
    PROVE  Install!IInv'
<1>t. /\ iConn \in {None} \cup Install!Conns /\ iCall \in {None} \cup Install!Calls
      /\ iAsked \in 0..MaxOrders /\ iConnects \in 0..MaxLogins
      /\ iFaults \in 0..MaxBreaks /\ iLost \in 0..iFaults /\ iFiles \subseteq 1..iAsked
      /\ MaxOrders \in Nat /\ Install!Asking /\ Install!Shape /\ Install!Orphaned /\ Install!Alone
      /\ iJobs \in [Install!Ids -> {None} \cup Install!Jobs]
      /\ iNode \in [Chans -> Install!Nodes] /\ iMine \in [Chans -> {"none", "here", "unsure"}]
      /\ DOMAIN iLinks = Chans
  BY InstallTypes DEF Install!Shape, Install!IInv
<1>r. i \in Install!Running
  BY DEF Install!Done, Install!Running
<1>j. PICK j \in Install!Jobs : j = iJobs[i] /\ j.at = "done" /\ j.chan \in Chans /\ (~iCrossed => Install!Doing(j))
  BY <1>r, InstallJob DEF Install!Done
<1>e. /\ iJobs' = [iJobs EXCEPT ![i] = None]
      /\ UNCHANGED <<iScene, iConn, iFiles, iNode, iBase, iAsked, iConnects, iFaults, iLost, iCrossed>>
  BY DEF Install!Done, Install!serverVars, Install!countVars
<1>w. \/ /\ iCall # None /\ iCall.id = i /\ iCall' = None
         /\ iMine' = IF Install!Word(j) = "same" THEN iMine ELSE [iMine EXCEPT ![j.chan] = Install!Word(j)]
         /\ iLinks' = [iLinks EXCEPT ![j.chan] = @ \cup Install!LinkMade(j)]
      \/ /\ ~(iCall # None /\ iCall.id = i) /\ UNCHANGED <<iCall, iMine, iLinks>>
  BY <1>j DEF Install!Done, Install!Answered
<1>4. iJobs'[i] = None /\ \A l \in Install!Ids : l # i => iJobs'[l] = iJobs[l]
  BY <1>t, <1>e
<1>5. Install!Running' = Install!Running \ {i}
  BY <1>4 DEF Install!Running, Install!Ids
<1>6. ~iCrossed => Install!Running' = {}
  BY <1>t, <1>r, <1>5 DEF Install!Asking
<1>7. iMine' \in [Chans -> {"none", "here", "unsure"}] /\ DOMAIN iLinks' = Chans
  <2>1. Install!Word(j) \in {"here", "none", "same"}
    BY DEF Install!Word
  <2> QED BY <1>t, <1>w, <1>j, <2>1
<1>8. Install!Shape'
  <2>1. iJobs' \in [Install!Ids -> {None} \cup Install!Jobs]
    BY <1>e, <1>t
  <2>2. Install!Running' \subseteq 1..iAsked'
    BY <1>5, <1>e, <1>t DEF Install!Shape
  <2>3. /\ iScene \in Orders /\ iBase \in BOOLEAN /\ iCrossed \in BOOLEAN
        /\ \A c \in Chans : ~Install!Here(c) => iNode[c].prev = None
    BY <1>t DEF Install!Shape
  <2>4. \A c \in Chans : ~Install!Here(c)' => iNode'[c].prev = None
    BY <1>e, <2>3 DEF Install!Here
  <2>5. iCall' \in {None} \cup Install!Calls
    BY <1>t, <1>w
  <2>6. iBase' \in BOOLEAN /\ iCrossed' \in BOOLEAN
    BY <1>e, <2>3
  <2> QED BY <1>7, <1>e, <1>t, <2>1, <2>2, <2>3, <2>4, <2>5, <2>6 DEF Install!Shape, Install!Ids, Install!Jobs, Install!Nodes,
    Install!Conns, Install!Calls
<1>9. Install!Asking'
  <2>1. iCall' # None => iCall' = iCall /\ iCall # None /\ iCall.id # i
    BY <1>w
  <2>2. iCall # None /\ iCall.at # "wait" => iAsked \in Install!Ids /\ iJobs'[iAsked] = None
    BY <1>t, <1>4 DEF Install!Asking, Install!Calls
  <2>3. iLost = 0 => Install!Running' = {}
    BY <1>t, <1>r, <1>5 DEF Install!Asking
  <2> QED BY <1>t, <1>e, <1>6, <2>1, <2>2, <2>3 DEF Install!Asking
<1>10. Install!Orphaned'
  <2>1. Install!Orphans' \subseteq Install!Orphans
    <3> SUFFICES ASSUME NEW l \in iFiles', ~Install!Handing(l)'
                 PROVE  l \in iFiles /\ ~Install!Handing(l)
      BY DEF Install!Orphans
    <3>1. l \in iFiles /\ l \in Install!Ids
      BY <1>e, <1>t, InstallIds
    <3>2. ~(iCall # None /\ iCall.at = "run" /\ iCall.id = l)
      <4>1. iCall # None /\ iCall.at = "run" => iCall.id # i
        <5>1. iCall # None /\ iCall.at = "run" => iCall.id = iAsked /\ iJobs[iAsked] = None
          BY <1>t DEF Install!Asking
        <5> QED BY <5>1, <1>r DEF Install!Running
      <4> QED BY <1>w, <4>1 DEF Install!Handing
    <3>3. ~(iJobs[l] # None /\ iJobs[l].at = "new")
      BY <1>4, <1>j, <3>1 DEF Install!Handing
    <3> QED BY <3>1, <3>2, <3>3 DEF Install!Handing
  <2> QED BY <1>e, <1>t, <2>1, InstallOrphans
<1>11. Install!Alone'
  <2>1. \A l \in Install!Running' : l \in Install!Running /\ iJobs'[l] = iJobs[l]
    BY <1>4, <1>5 DEF Install!Running
  <2>2. (\A l \in Install!Running : iJobs[l].at \in Install!StepsOf(iJobs[l].kind) /\ (iJobs[l].at # "done" => ~iJobs[l].ok))'
    BY <1>t, <2>1 DEF Install!Alone, Install!StepsOf
  <2>3. iCrossed' \/ (\A l \in Install!Running : Install!Doing(iJobs[l]))'
    BY <1>6, <1>e
  <2>4. iCrossed' \/ (\A c \in Chans : Install!Here(c) => iBase)'
    BY <1>t, <1>e DEF Install!Alone, Install!Here
  <2> QED BY <2>2, <2>3, <2>4 DEF Install!Alone
<1>12. Install!Told'
  <2> SUFFICES ASSUME ~iCrossed, iLost = 0, NEW c \in Chans, iMine'[c] = "here"
               PROVE  Install!Here(c) /\ iNode[c].runs # None
    <3>1. (\A l \in Install!Running : iJobs[l].kind = "apply" /\ iJobs[l].at \in {"base", "conf", "started"} => iMine[iJobs[l].chan] # "here")'
          \/ iCrossed'
      BY <1>6, <1>e
    <3> QED BY <1>e, <3>1 DEF Install!Told, Install!Here
  <2>0. iCall # None /\ iCall.id = i
    BY <1>t, <1>r DEF Install!Asking
  <2>1. iMine' = IF Install!Word(j) = "same" THEN iMine ELSE [iMine EXCEPT ![j.chan] = Install!Word(j)]
    BY <1>w, <2>0
  <2>2. \A l \in Install!Running : l = i
    BY <1>t, <1>r DEF Install!Asking
  <2>3. CASE j.ok /\ j.kind = "apply" /\ c = j.chan
    BY <1>j, <2>3 DEF Install!Doing, Install!Applying
  <2>4. CASE ~(j.ok /\ j.kind = "apply" /\ c = j.chan)
    <3>1. iMine[c] = "here" /\ ~(j.ok /\ j.kind = "remove" /\ c = j.chan)
      BY <1>t, <1>j, <2>1, <2>4 DEF Install!Word
    <3>2. ~Install!Removed(c)
      BY <1>j, <2>2, <3>1 DEF Install!Removed, Install!Leaves
    <3> QED BY <3>1, <3>2 DEF Install!IInv, Install!Told
  <2> QED BY <2>3, <2>4
<1>13. Install!LinksKept'
  <2> SUFFICES ASSUME NEW c \in Chans, Install!Here(c), iNode[c].context # None, ~iCrossed
               PROVE  iLinks'[c] \subseteq {iNode[c].context}
    BY <1>e DEF Install!LinksKept, Install!Here
  <2>1. iLinks[c] \subseteq {iNode[c].context}
    BY DEF Install!IInv, Install!LinksKept
  <2>2. CASE iLinks'[c] = iLinks[c]
    BY <2>1, <2>2
  <2>3. CASE iLinks'[c] # iLinks[c]
    <3>1. c = j.chan /\ iLinks'[c] = iLinks[c] \cup Install!LinkMade(j)
      BY <1>t, <1>w, <1>j, <2>3
    <3>2. Install!LinkMade(j) \subseteq {iNode[c].context}
      <4>1. CASE j.ok /\ j.kind = "apply"
        <5>1. iNode[c].context = Install!Line(Install!SessionContext(j.kit))
          BY <1>j, <3>1, <4>1 DEF Install!Doing, Install!Applying
        <5>2. iNode[c].context = Install!SessionContext(j.kit)
          BY <5>1 DEF Install!Line
        <5>3. Install!LinkMade(j) = {Install!SessionContext(j.kit)}
          BY <4>1 DEF Install!LinkMade
        <5> QED BY <5>2, <5>3
      <4>2. CASE ~(j.ok /\ j.kind = "apply")
        <5>1. Install!NodeContext(c) = iNode[c].context
          BY DEF Install!NodeContext
        <5>2. Install!LinkMade(j) \subseteq {Install!NodeContext(j.chan)}
          BY <4>2 DEF Install!LinkMade
        <5> QED BY <3>1, <5>1, <5>2
      <4> QED BY <4>1, <4>2
    <3> QED BY <2>1, <3>1, <3>2
  <2> QED BY <2>2, <2>3
<1> QED BY <1>8, <1>9, <1>10, <1>11, <1>12, <1>13 DEF Install!IInv

LEMMA InstallGoes ==
    ASSUME Install!IInv, NEW i \in Install!Ids, Install!Goes(i)
    PROVE  Install!IInv'
<1>1. i \in Install!Running
  BY DEF Install!Goes, Install!Runs, Install!Read, Install!ApplyBase, Install!ApplyConf, Install!ApplyStart, Install!ApplyLooks,
    Install!SetSwap, Install!SetRestart, Install!SetCookies, Install!Show, Install!RemoveChannel, Install!RemoveLists,
    Install!RemoveEverything, Install!ApplyFails, Install!ApplyNotReady, Install!SetNoCookies, Install!At, Install!Running
<1> QED BY <1>1, InstallRead, InstallLeaves, InstallUndoes, InstallApplies, InstallSets, InstallRemoves DEF Install!Goes,
  Install!Runs

LEMMA InstallStep == Install!IInv /\ Install!Next => Install!IInv'
<1> SUFFICES ASSUME Install!IInv, Install!Next PROVE Install!IInv'
  OBVIOUS
<1>1. CASE Install!Asked
  <2>1. CASE \E c \in iScene.chans :
                \/ \E kit \in iScene.kits, k \in iScene.kinds \cap {"apply", "set"} : Install!Ask(k, c, kit)
                \/ \E k \in iScene.kinds \cap {"cookies", "show", "remove"} : Install!Ask(k, c, {})
    BY <2>1, InstallAsk DEF Install!Kinds
  <2> QED BY <1>1, <2>1, InstallConnects DEF Install!Asked
<1>2. CASE Install!Wizard
  BY <1>2, InstallConnects, InstallCalls, InstallLaunch, InstallEnds DEF Install!Wizard
<1>3. CASE Install!Lose
  BY <1>3, InstallCalls
<1>4. CASE \E i \in Install!Ids : Install!Goes(i)
  BY <1>4, InstallGoes
<1> QED BY <1>1, <1>2, <1>3, <1>4 DEF Install!Next

LEMMA InstallRests ==
    ASSUME Install!IInv, UNCHANGED installVars
    PROVE  Install!IInv'
<1>e. UNCHANGED <<iScene, iConn, iCall, iFiles, iJobs, iNode, iBase, iMine, iLinks, iAsked, iConnects, iFaults, iLost, iCrossed>>
  BY DEF installVars
<1>1. Install!Asking'
  BY <1>e, InstallTypes DEF Install!Asking, Install!Running, Install!Ids
<1>2. Install!Orphaned'
  BY <1>e, InstallTypes DEF Install!Orphaned, Install!Orphans, Install!Handing, Install!Cardinality
<1>3. iAsked' \in iAsked..MaxOrders
  BY <1>e, InstallTypes
<1> QED BY <1>1, <1>2, <1>3, <1>e, InstallTypes, InstallQuiet

\* What the wizard's invariant says of the properties: of a file left, that nobody is
\* about to take it away; of a channel that nobody works on, that nobody removes it.
LEMMA InstallPromise ==
    ASSUME Install!IInv
    PROVE  Install!TypeOK /\ Install!NoSecretLeft /\ Install!OnlyPinned /\ Install!StaysUp /\ Install!LinksKept
<1>t. /\ iConn \in {None} \cup Install!Conns /\ iCall \in {None} \cup Install!Calls
      /\ iAsked \in 0..MaxOrders /\ iConnects \in 0..MaxLogins
      /\ iFaults \in 0..MaxBreaks /\ iLost \in 0..iFaults /\ iFiles \subseteq 1..iAsked
      /\ MaxOrders \in Nat /\ MaxLogins \in Nat /\ MaxBreaks \in Nat /\ Install!Asking /\ Install!Shape /\ Install!Orphaned
      /\ iNode \in [Chans -> Install!Nodes] /\ iMine \in [Chans -> {"none", "here", "unsure"}]
      /\ iBase \in BOOLEAN /\ iCrossed \in BOOLEAN /\ Install!Running \subseteq 1..iAsked
      /\ \A c \in Chans : ~Install!Here(c) => iNode[c].prev = None
  BY InstallTypes DEF Install!Shape
<1>1. Install!TypeOK
  <2>1. iConn # None => iConn.sudo \in Roots /\ iConn.script \in {"pinned", "other"}
    BY <1>t DEF Install!Conns
  <2>2. iCall # None => iCall.id = iAsked /\ iCall.at \in {"write", "run", "wait"}
    BY <1>t DEF Install!Calls, Install!Asking
  <2>3. iAsked <= MaxOrders /\ iConnects <= MaxLogins /\ iFaults <= MaxBreaks /\ iLost <= iFaults
    BY <1>t
  <2>4. \A c \in Chans : iMine[c] \in {"none", "here", "unsure"} /\ (iNode[c].conf = None => iNode[c].prev = None)
    BY <1>t DEF Install!Here
  <2> QED BY <1>t, <2>1, <2>2, <2>3, <2>4 DEF Install!TypeOK
<1>2. Install!NoSecretLeft
  <2> SUFFICES ASSUME iCall = None, Install!Running = {}
               PROVE  Install!Cardinality(iFiles) <= iLost
    BY DEF Install!NoSecretLeft, Install!Idle
  <2>1. \A l \in iFiles : l \in Install!Ids
    BY <1>t, InstallIds
  <2>2. \A l \in iFiles : ~Install!Handing(l)
    BY <2>1 DEF Install!Handing, Install!Running
  <2>3. Install!Orphans = iFiles
    BY <2>2 DEF Install!Orphans
  <2> QED BY <1>t, <2>3 DEF Install!Orphaned
<1>3. Install!OnlyPinned
  BY InstallJob DEF Install!OnlyPinned, Install!Jobs
<1>4. Install!StaysUp
  <2> SUFFICES ASSUME NEW c \in Chans, iMine[c] = "here", ~iCrossed, iLost = 0,
                      \A i \in Install!Running : iJobs[i].chan # c
               PROVE  Install!Here(c) /\ iNode[c].runs # None
    BY DEF Install!StaysUp, Install!Chan
  <2>1. ~Install!Removed(c)
    BY DEF Install!Removed
  <2> QED BY <2>1 DEF Install!IInv, Install!Told
<1> QED BY <1>1, <1>2, <1>3, <1>4 DEF Install!IInv

\* What a command that has not succeeded has left of its channel's configuration.
Untouched(j) ==
    /\ j.at \in {"read", "base"} \/ (j.at = "done" /\ ~j.ok) => iNode[j.chan].conf = j.before
    /\ j.at \in {"conf", "started"} => j.before = None
    /\ j.at = "swapped" => iNode[j.chan].prev.conf = j.before
Intact == ~iCrossed => \A i \in Install!Running : Untouched(iJobs[i])

\* The installers that failed left things as they found them, after this step too.
Spared ==
    \A i \in Install!Ids :
        iJobs'[i] # None /\ iJobs'[i].at = "done" /\ ~iJobs'[i].ok /\ ~iCrossed
            => iNode'[Install!Chan(i)].conf = iJobs'[i].before

\* The one installer that runs takes a step.
LEMMA InstallMoves ==
    ASSUME Install!IInv, NEW i \in Install!Running, NEW k \in Install!Jobs,
           iJobs' = [iJobs EXCEPT ![i] = k], k.chan = iJobs[i].chan, iCrossed' = iCrossed,
           ~iCrossed => Untouched(k)'
    PROVE  Intact' /\ Spared
<1>1. iJobs \in [Install!Ids -> {None} \cup Install!Jobs] /\ i \in Install!Ids
  BY DEF Install!IInv, Install!Shape, Install!Running
<1>2. ~iCrossed => \A l \in Install!Ids : iJobs'[l] # None => l = i
  <2> SUFFICES ASSUME ~iCrossed, NEW l \in Install!Ids, iJobs'[l] # None, l # i PROVE FALSE
    OBVIOUS
  <2>1. l \in Install!Running
    BY <1>1 DEF Install!Running
  <2> QED BY <2>1 DEF Install!IInv, Install!Asking
<1>3. iJobs'[i] = k
  BY <1>1
<1>4. Intact'
  BY <1>2, <1>3 DEF Intact, Install!Running
<1>5. Spared
  <2> SUFFICES ASSUME NEW l \in Install!Ids, iJobs'[l] # None, iJobs'[l].at = "done", ~iJobs'[l].ok, ~iCrossed
               PROVE  iNode'[iJobs[l].chan].conf = iJobs'[l].before
    BY DEF Spared, Install!Chan
  <2>1. l = i
    BY <1>2
  <2>2. k.at = "done" /\ ~k.ok /\ Untouched(k)'
    BY <1>3, <2>1
  <2>3. iNode'[k.chan].conf = k.before
    BY <2>2 DEF Untouched
  <2> QED BY <1>3, <2>1, <2>3
<1> QED BY <1>4, <1>5

\* Nothing changes on the server.
LEMMA InstallSpares ==
    ASSUME Install!IInv, Intact, iNode' = iNode, iCrossed' = FALSE => ~iCrossed,
           \A l \in Install!Ids : iJobs'[l] \in {iJobs[l], None} \/ iJobs'[l].at = "new"
    PROVE  Intact' /\ Spared
<1>1. ASSUME ~iCrossed, NEW l \in Install!Ids, iJobs'[l] # None, iJobs'[l].at # "new"
      PROVE  iJobs'[l] = iJobs[l] /\ Untouched(iJobs[l])
  <2>1. iJobs'[l] = iJobs[l]
    BY <1>1
  <2>2. l \in Install!Running
    BY <1>1, <2>1 DEF Install!Running
  <2> QED BY <1>1, <2>1, <2>2 DEF Intact
<1>2. ASSUME ~iCrossed, NEW l \in Install!Ids, iJobs'[l] # None
      PROVE  Untouched(iJobs[l])' \/ iJobs'[l].at = "new"
  <2>1. CASE iJobs'[l].at # "new"
    <3>1. iJobs'[l] = iJobs[l] /\ Untouched(iJobs[l])
      BY <1>1, <1>2, <2>1
    <3> QED BY <3>1 DEF Untouched
  <2> QED BY <2>1
<1>3. Intact'
  <2> SUFFICES ASSUME ~iCrossed', NEW l \in Install!Running' PROVE Untouched(iJobs[l])'
    BY DEF Intact
  <2>1. ~iCrossed /\ l \in Install!Ids /\ iJobs'[l] # None
    <3>1. iCrossed \in BOOLEAN
      BY DEF Install!IInv, Install!Shape
    <3>2. l \in Install!Ids /\ iJobs'[l] # None
      BY DEF Install!Running
    <3> QED BY <3>1, <3>2
  <2>2. CASE iJobs'[l].at = "new"
    BY <2>2 DEF Untouched
  <2> QED BY <1>2, <2>1, <2>2
<1>4. Spared
  <2> SUFFICES ASSUME NEW l \in Install!Ids, iJobs'[l] # None, iJobs'[l].at = "done", ~iJobs'[l].ok, ~iCrossed
               PROVE  iNode'[iJobs[l].chan].conf = iJobs'[l].before
    BY DEF Spared, Install!Chan
  <2>1. iJobs'[l] = iJobs[l] /\ Untouched(iJobs[l])
    BY <1>1
  <2> QED BY <2>1 DEF Untouched
<1> QED BY <1>3, <1>4

\* An installer's step: what it leaves of its channel fits where it stands then.
LEMMA InstallTries ==
    ASSUME Install!IInv, Intact, NEW i \in Install!Ids, Install!Goes(i)
    PROVE  Intact' /\ Spared
<1>0. i \in Install!Running
  BY DEF Install!Goes, Install!Runs, Install!Read, Install!ApplyFails, Install!ApplyBase, Install!ApplyConf,
    Install!ApplyNotReady, Install!ApplyStart, Install!ApplyLooks, Install!SetSwap, Install!SetNoCookies, Install!SetRestart,
    Install!SetCookies, Install!Show, Install!RemoveChannel, Install!RemoveLists, Install!RemoveEverything, Install!At,
    Install!Running
<1>j. PICK j \in Install!Jobs : /\ j = iJobs[i] /\ j.chan \in Chans /\ j.kit \in Install!Kits /\ (j.at # "done" => ~j.ok)
                                /\ (~iCrossed => Install!Doing(j) /\ Untouched(j))
  BY <1>0, InstallJob DEF Intact
<1>n. PICK n \in Install!Nodes : n = iNode[j.chan] /\ iNode \in [Chans -> Install!Nodes]
  BY <1>0, <1>j, InstallJob
<1>b. n.conf \in {None} \cup Install!Kits /\ Install!Chan(i) = j.chan
  BY <1>j, <1>n DEF Install!Nodes, Install!Chan
<1>u. ~iCrossed =>
        /\ j.at \in {"read", "base"} \/ (j.at = "done" /\ ~j.ok) => n.conf = j.before
        /\ j.at \in {"conf", "started"} => j.before = None
        /\ j.at = "swapped" => n.prev.conf = j.before
  BY <1>j, <1>n DEF Untouched
<1>a. ASSUME NEW k \in Install!Jobs, iJobs' = [iJobs EXCEPT ![i] = k], k.chan = j.chan, iCrossed' = iCrossed,
             NEW m, iNode'[j.chan] = m,
             ~iCrossed =>
                /\ k.at \in {"read", "base"} \/ (k.at = "done" /\ ~k.ok) => m.conf = k.before
                /\ k.at \in {"conf", "started"} => k.before = None
                /\ k.at = "swapped" => m.prev.conf = k.before
      PROVE  Intact' /\ Spared
  <2>1. ~iCrossed => Untouched(k)'
    BY <1>a DEF Untouched
  <2> QED BY <1>0, <1>a, <1>j, <2>1, InstallMoves
\* An installer that ends with the channel's configuration as it was when it began.
<1>d. ASSUME NEW ok \in BOOLEAN, Install!Ends(i, ok), iCrossed' = iCrossed, NEW m, iNode'[j.chan] = m,
             ~iCrossed /\ ~ok => m.conf = j.before
      PROVE  Intact' /\ Spared
  <2>1. PICK k : k = [j EXCEPT !.at = "done", !.ok = ok]
    OBVIOUS
  <2>2. k \in Install!Jobs /\ k.chan = j.chan /\ k.at = "done" /\ k.ok = ok
    BY <2>1, InstallDone
  <2>3. k.before = j.before
    BY <2>1 DEF Install!Jobs
  <2>4. iJobs' = [iJobs EXCEPT ![i] = k]
    BY <1>d, <1>j, <2>1 DEF Install!Ends
  <2>5. ~iCrossed =>
          /\ k.at \in {"read", "base"} \/ (k.at = "done" /\ ~k.ok) => m.conf = k.before
          /\ k.at \in {"conf", "started"} => k.before = None
          /\ k.at = "swapped" => m.prev.conf = k.before
    BY <1>d, <2>2, <2>3
  <2> QED BY <1>a, <1>d, <2>2, <2>4, <2>5
\* One that ends where it stands: as it is, it is to be.
<1>e. ASSUME iJobs' = [iJobs EXCEPT ![i].at = "done", ![i].before = n.conf], iCrossed' = iCrossed, iNode' = iNode
      PROVE  Intact' /\ Spared
  <2>1. PICK k : k = [j EXCEPT !.at = "done", !.before = n.conf]
    OBVIOUS
  <2>2. k \in Install!Jobs /\ k.chan = j.chan /\ k.at = "done" /\ k.before = n.conf
    BY <1>b, <2>1 DEF Install!Jobs, Install!Steps
  <2>3. iJobs' = [iJobs EXCEPT ![i] = k]
    BY <1>e, <1>j, <2>1
  <2>4. iNode'[j.chan] = n
    BY <1>e, <1>n
  <2> QED BY <1>a, <1>e, <2>2, <2>3, <2>4
\* One that takes back what it made.
<1>f. ASSUME Install!Undo(i), Install!Ends(i, FALSE), iCrossed' = iCrossed, j.kind = "apply",
             j.at \in {"read", "base", "conf", "started"}
      PROVE  Intact' /\ Spared
  <2>1. ~iCrossed => Install!Applying(j)
    BY <1>f, <1>j DEF Install!Doing
  <2>2. iNode' = IF "conf" \in j.made THEN [iNode EXCEPT ![j.chan] = Install!NoChannel] ELSE iNode
    BY <1>f, <1>j DEF Install!Undo, Install!Without, Install!Chan
  <2>3. CASE "conf" \in j.made
    <3>1. iNode'[j.chan] = Install!NoChannel /\ Install!NoChannel.conf = None
      BY <1>j, <1>n, <2>2, <2>3 DEF Install!NoChannel
    <3>2. ~iCrossed => j.at \in {"conf", "started"}
      BY <1>f, <2>1, <2>3 DEF Install!Applying
    <3> QED BY <1>d, <1>f, <1>u, <3>1, <3>2
  <2>4. CASE "conf" \notin j.made
    <3>1. iNode'[j.chan] = n
      BY <1>n, <2>2, <2>4
    <3>2. ~iCrossed => j.at \in {"read", "base"}
      BY <1>f, <2>1, <2>4 DEF Install!Applying
    <3> QED BY <1>d, <1>f, <1>u, <3>1, <3>2
  <2> QED BY <2>3, <2>4
<1>1. CASE Install!Read(i)
  <2>1. PICK s \in {"read", "done"} : iJobs' = [iJobs EXCEPT ![i].at = s, ![i].before = n.conf]
    BY <1>1, <1>b, <1>n DEF Install!Read
  <2>2. iNode' = iNode /\ iCrossed' = iCrossed
    BY <1>1 DEF Install!Read, Install!onServer, Install!serverVars, Install!countVars
  <2>3. PICK k : k = [j EXCEPT !.at = s, !.before = n.conf]
    OBVIOUS
  <2>4. k \in Install!Jobs /\ k.chan = j.chan /\ k.at = s /\ k.before = n.conf
    BY <1>b, <2>3 DEF Install!Jobs, Install!Steps
  <2>5. iJobs' = [iJobs EXCEPT ![i] = k] /\ iNode'[j.chan] = n
    BY <1>j, <1>n, <2>1, <2>2, <2>3
  <2> QED BY <1>a, <2>2, <2>4, <2>5
<1>2. CASE Install!ApplyFails(i)
  BY <1>2, <1>f, <1>j DEF Install!ApplyFails, Install!onServer, Install!countVars
<1>3. CASE Install!ApplyBase(i)
  <2>1. /\ j.at = "read" /\ iNode' = iNode /\ iCrossed' = iCrossed
        /\ iJobs' = [iJobs EXCEPT ![i].at = "base", ![i].made = IF iBase THEN @ ELSE @ \cup {"base"}]
    BY <1>3, <1>j DEF Install!ApplyBase, Install!At, Install!onServer, Install!countVars
  <2>2. PICK w \in SUBSET {"base", "conf"} : w = IF iBase THEN j.made ELSE j.made \cup {"base"}
    BY DEF Install!Jobs
  <2>3. PICK k : k = [j EXCEPT !.at = "base", !.made = w]
    OBVIOUS
  <2>4. k \in Install!Jobs /\ k.chan = j.chan /\ k.at = "base" /\ k.before = j.before
    BY <2>3 DEF Install!Jobs, Install!Steps
  <2>5. iJobs' = [iJobs EXCEPT ![i] = k] /\ iNode'[j.chan] = n
    BY <1>j, <1>n, <2>1, <2>2, <2>3
  <2>6. ~iCrossed =>
          /\ k.at \in {"read", "base"} \/ (k.at = "done" /\ ~k.ok) => n.conf = k.before
          /\ k.at \in {"conf", "started"} => k.before = None
          /\ k.at = "swapped" => n.prev.conf = k.before
    BY <1>u, <2>1, <2>4
  <2> QED BY <1>a, <2>1, <2>4, <2>5, <2>6
<1>4. CASE Install!ApplyConf(i)
  <2>0. j.kind = "apply" /\ j.at = "base" /\ iCrossed' = iCrossed
    BY <1>4, <1>j DEF Install!ApplyConf, Install!At, Install!countVars
  <2>1. CASE Install!Here(j.chan)
    BY <1>4, <1>b, <1>f, <2>0, <2>1 DEF Install!ApplyConf
  <2>2. CASE ~Install!Here(j.chan)
    <3>1. iJobs' = [iJobs EXCEPT ![i].at = "conf", ![i].made = @ \cup {"conf"}]
      BY <1>4, <1>b, <2>2 DEF Install!ApplyConf
    <3>2. PICK w \in SUBSET {"base", "conf"} : w = j.made \cup {"conf"}
      BY DEF Install!Jobs
    <3>3. PICK k : k = [j EXCEPT !.at = "conf", !.made = w]
      OBVIOUS
    <3>4. k \in Install!Jobs /\ k.chan = j.chan /\ k.at = "conf" /\ k.before = j.before
      BY <3>3 DEF Install!Jobs, Install!Steps
    <3>5. iJobs' = [iJobs EXCEPT ![i] = k]
      BY <1>j, <3>1, <3>2, <3>3
    <3>6. ~iCrossed => k.before = None
      BY <1>n, <1>u, <2>0, <2>2, <3>4 DEF Install!Here
    <3>7. PICK m : iNode'[j.chan] = m
      OBVIOUS
    <3> QED BY <1>a, <2>0, <3>4, <3>5, <3>6, <3>7
  <2> QED BY <2>1, <2>2
<1>5. CASE Install!ApplyNotReady(i)
  BY <1>5, <1>b, <1>e, <1>n DEF Install!ApplyNotReady, Install!onServer, Install!serverVars, Install!countVars
<1>s. ASSUME NEW s \in {"started", "removed", "last"}, Install!To(i, s), iCrossed' = iCrossed,
             s = "started" => j.at = "conf"
      PROVE  Intact' /\ Spared
  <2>1. PICK k : k = [j EXCEPT !.at = s]
    OBVIOUS
  <2>2. k \in Install!Jobs /\ k.chan = j.chan /\ k.at = s
    BY <2>1, InstallTo DEF Install!Steps
  <2>3. k.before = j.before
    BY <2>1 DEF Install!Jobs
  <2>4. iJobs' = [iJobs EXCEPT ![i] = k]
    BY <1>j, <1>s, <2>1 DEF Install!To
  <2>5. PICK m : iNode'[j.chan] = m
    OBVIOUS
  <2> QED BY <1>a, <1>s, <1>u, <2>2, <2>3, <2>4, <2>5
<1>6. CASE Install!ApplyStart(i)
  BY <1>6, <1>j, <1>s DEF Install!ApplyStart, Install!At, Install!onServer, Install!countVars
<1>7. CASE Install!ApplyLooks(i)
  <2>1. j.kind = "apply" /\ j.at = "started" /\ iCrossed' = iCrossed
    BY <1>7, <1>j DEF Install!ApplyLooks, Install!At, Install!onServer, Install!countVars
  <2>2. CASE Install!Ends(i, TRUE)
    <3>1. PICK m : iNode'[j.chan] = m
      OBVIOUS
    <3> QED BY <1>d, <2>1, <2>2, <3>1
  <2>3. CASE Install!Undo(i) /\ Install!Ends(i, FALSE)
    BY <1>f, <2>1, <2>3
  <2> QED BY <1>7, <2>2, <2>3 DEF Install!ApplyLooks
<1>8. CASE Install!SetSwap(i)
  <2>0. j.at = "read" /\ iCrossed' = iCrossed
    BY <1>8, <1>j DEF Install!SetSwap, Install!At, Install!onServer, Install!countVars
  <2>1. CASE Install!Here(j.chan)
    <3>1. PICK m : m = [n EXCEPT !.conf = j.kit, !.context = Install!Kept(i), !.prev = [conf |-> n.conf, context |-> n.context]]
      OBVIOUS
    <3>2. m.prev.conf = n.conf
      BY <3>1 DEF Install!Nodes
    <3>3. iNode' = [iNode EXCEPT ![j.chan] = m] /\ iJobs' = [iJobs EXCEPT ![i].at = "swapped"]
      BY <1>8, <1>b, <1>j, <1>n, <2>1, <3>1 DEF Install!SetSwap, Install!To
    <3>4. PICK k : k = [j EXCEPT !.at = "swapped"]
      OBVIOUS
    <3>5. k \in Install!Jobs /\ k.chan = j.chan /\ k.at = "swapped" /\ k.before = j.before
      BY <3>4 DEF Install!Jobs, Install!Steps
    <3>6. iJobs' = [iJobs EXCEPT ![i] = k] /\ iNode'[j.chan] = m
      BY <1>j, <1>n, <3>3, <3>4
    <3> QED BY <1>a, <1>u, <2>0, <3>2, <3>5, <3>6
  <2>2. CASE ~Install!Here(j.chan)
    <3>1. Install!Ends(i, FALSE) /\ iNode'[j.chan] = n
      BY <1>8, <1>b, <1>n, <2>2 DEF Install!SetSwap
    <3> QED BY <1>d, <1>u, <2>0, <3>1
  <2> QED BY <2>1, <2>2
<1>9. CASE Install!SetNoCookies(i)
  BY <1>9, <1>b, <1>e, <1>n DEF Install!SetNoCookies, Install!onServer, Install!serverVars, Install!countVars
<1>10. ASSUME NEW well \in BOOLEAN, Install!SetRestart(i, well) PROVE Intact' /\ Spared
  <2>0. j.kind = "set" /\ j.at = "swapped" /\ iCrossed' = iCrossed
    BY <1>10, <1>j DEF Install!SetRestart, Install!At, Install!onServer, Install!countVars
  <2>1. CASE Install!Ends(i, TRUE)
    <3>1. PICK m : iNode'[j.chan] = m
      OBVIOUS
    <3> QED BY <1>d, <2>0, <2>1, <3>1
  <2>2. CASE Install!Ends(i, FALSE) /\ iNode' = [iNode EXCEPT ![j.chan] = Install!Starts(Install!PutBack(@))]
    <3>1. PICK p : p = Install!PutBack(n)
      OBVIOUS
    <3>2. p \in Install!Nodes
      BY <3>1, InstallPutsBack
    <3>3. PICK m : m = Install!Starts(p)
      OBVIOUS
    <3>4. m.conf = p.conf
      BY <3>2, <3>3, InstallStarts
    <3>5. iNode'[j.chan] = m
      BY <1>j, <1>n, <2>2, <3>1, <3>3
    <3>6. ~iCrossed => n.prev # None
      BY <1>j, <1>n, <2>0 DEF Install!Doing, Install!Setting
    <3>7. n.prev # None => p.conf = n.prev.conf
      BY <3>1 DEF Install!PutBack, Install!Nodes
    <3> QED BY <1>d, <1>u, <2>0, <2>2, <3>4, <3>5, <3>6, <3>7
  <2> QED BY <1>10, <1>b, <2>1, <2>2 DEF Install!SetRestart
<1>11. ASSUME NEW kept \in BOOLEAN, Install!SetCookies(i, kept) PROVE Intact' /\ Spared
  <2>0. j.at = "read" /\ iCrossed' = iCrossed
    BY <1>11, <1>j DEF Install!SetCookies, Install!At, Install!onServer, Install!countVars
  <2>1. PICK m \in Install!Nodes : m.conf = n.conf /\ iNode'[j.chan] = m
    <3>1. CASE iNode' = iNode
      BY <1>n, <3>1
    <3>2. CASE iNode' = [iNode EXCEPT ![j.chan] = Install!Starts(@)]
      <4>1. PICK m : m = Install!Starts(n)
        OBVIOUS
      <4>2. m \in Install!Nodes /\ m.conf = n.conf
        BY <4>1, InstallStarts
      <4>3. iNode'[j.chan] = m
        BY <1>j, <1>n, <3>2, <4>1
      <4> QED BY <4>2, <4>3
    <3> QED BY <1>11, <1>b, <3>1, <3>2 DEF Install!SetCookies
  <2>2. \E ok \in BOOLEAN : Install!Ends(i, ok)
    <3>1. CASE kept
      <4>1. CASE Install!Here(Install!Chan(i)) /\ iBase
        <5>1. (Install!Here(Install!Chan(i)) /\ iBase) = TRUE
          BY <4>1
        <5> QED BY <1>11, <3>1, <5>1 DEF Install!SetCookies
      <4>2. CASE ~(Install!Here(Install!Chan(i)) /\ iBase)
        <5>1. (Install!Here(Install!Chan(i)) /\ iBase) = FALSE
          BY <4>2
        <5> QED BY <1>11, <3>1, <5>1 DEF Install!SetCookies
      <4> QED BY <4>1, <4>2
    <3>2. CASE ~kept
      BY <1>11, <3>2 DEF Install!SetCookies
    <3> QED BY <3>1, <3>2
  <2> QED BY <1>d, <1>u, <2>0, <2>1, <2>2
<1>12. CASE Install!Show(i)
  <2>0. j.at = "read" /\ iCrossed' = iCrossed /\ iNode'[j.chan] = n
    BY <1>12, <1>j, <1>n DEF Install!Show, Install!At, Install!onServer, Install!serverVars, Install!countVars
  <2>1. \E ok \in BOOLEAN : Install!Ends(i, ok)
    <3>1. CASE Install!Here(Install!Chan(i))
      <4>1. Install!Here(Install!Chan(i)) = TRUE
        BY <3>1 DEF Install!Here
      <4> QED BY <1>12, <4>1 DEF Install!Show
    <3>2. CASE ~Install!Here(Install!Chan(i))
      <4>1. Install!Here(Install!Chan(i)) = FALSE
        BY <3>2 DEF Install!Here
      <4> QED BY <1>12, <4>1 DEF Install!Show
    <3> QED BY <3>1, <3>2
  <2> QED BY <1>d, <1>u, <2>0, <2>1
<1>13. CASE Install!RemoveChannel(i)
  BY <1>13, <1>s DEF Install!RemoveChannel, Install!onServer, Install!countVars
<1>14. ASSUME Install!RemoveLists(i) \/ Install!RemoveEverything(i) PROVE Intact' /\ Spared
  <2>0. iCrossed' = iCrossed
    BY <1>14 DEF Install!RemoveLists, Install!RemoveEverything, Install!onServer, Install!countVars
  <2>1. CASE Install!To(i, "last")
    BY <1>s, <2>0, <2>1
  <2>2. CASE Install!Ends(i, TRUE)
    <3>1. PICK m : iNode'[j.chan] = m
      OBVIOUS
    <3> QED BY <1>d, <2>0, <2>2, <3>1
  <2> QED BY <1>14, <2>1, <2>2 DEF Install!RemoveLists, Install!RemoveEverything
<1> QED BY <1>1, <1>2, <1>3, <1>4, <1>5, <1>6, <1>7, <1>8, <1>9, <1>10, <1>11, <1>12, <1>13, <1>14 DEF Install!Goes,
  Install!Runs

\* The wizard's steps and the connection's change nothing on the server.
LEMMA InstallLeavesAlone ==
    ASSUME Install!IInv, Intact, Install!Asked \/ Install!Wizard \/ Install!Lose \/ UNCHANGED installVars
    PROVE  Intact' /\ Spared
<1>c. iCrossed \in BOOLEAN /\ iJobs \in [Install!Ids -> {None} \cup Install!Jobs]
  BY DEF Install!IInv, Install!Shape
<1>1. CASE iNode' = iNode /\ iCrossed' = iCrossed /\ iJobs' = iJobs
  BY <1>1, InstallSpares
<1>2. CASE Install!Launch
  <2>1. iNode' = iNode /\ iCrossed' = (iCrossed \/ Install!Running # {})
    BY <1>2 DEF Install!Launch, Install!serverVars
  <2>2. \A l \in Install!Ids : iJobs'[l] = iJobs[l] \/ iJobs'[l].at = "new"
    BY <1>2, <1>c DEF Install!Launch
  <2> QED BY <2>1, <2>2, InstallSpares
<1>3. ASSUME NEW i \in Install!Ids, Install!Done(i) PROVE Intact' /\ Spared
  <2>1. iNode' = iNode /\ iCrossed' = iCrossed /\ iJobs' = [iJobs EXCEPT ![i] = None]
    BY <1>3 DEF Install!Done, Install!serverVars, Install!countVars
  <2>2. \A l \in Install!Ids : iJobs'[l] \in {iJobs[l], None}
    BY <1>c, <2>1
  <2> QED BY <2>1, <2>2, InstallSpares
<1>4. CASE UNCHANGED installVars
  BY <1>1, <1>4 DEF installVars
<1>5. CASE Install!Lose
  BY <1>1, <1>5 DEF Install!Lose, Install!serverVars
<1>6. CASE Install!Asked
  BY <1>1, <1>6 DEF Install!Asked, Install!ConnectFails, Install!Disconnect, Install!Connect, Install!Ask, Install!serverVars,
    Install!countVars
<1>7. CASE Install!Probe \/ Install!Write \/ Install!Refused
  BY <1>1, <1>7 DEF Install!Probe, Install!Write, Install!Refused, Install!serverVars, Install!countVars
<1> QED BY <1>2, <1>3, <1>4, <1>5, <1>6, <1>7 DEF Install!Wizard

\* Every step spares what failed commands found.
LEMMA InstallIntact ==
    ASSUME Install!IInv, Intact, Install!Next \/ UNCHANGED installVars
    PROVE  Intact' /\ Spared
BY InstallTries, InstallLeavesAlone DEF Install!Next

LEMMA InstallBeginsIntact == Install!Init => Intact
BY DEF Install!Init, Intact, Install!Running

=============================================================================
