------------------------------ MODULE L3Guard ------------------------------
\* The firewall table of the L3 mode (l3guard/guard.go) as the panel uses
\* it (internal/panel/manager.go): made before the first L3 core starts,
\* removed after the last one ended, and cleaned up by the next panel when
\* this one is killed.  A journal file, written before the table, tells
\* the next panel that there may be one.
\*
\* All of it runs under m.mu, one call at a time; what can come between
\* two steps of a call is the end of the panel and another program's table
\* of the same name.  Every system call may fail.  Nobody else removes the
\* table while the panel runs.
EXTENDS Naturals, FiniteSets

CONSTANTS
  Cores,        \* cores that run in L3 mode
  Faults,       \* reading, writing and netlink may fail
  UnlinkFaults  \* removing the journal may fail although reading it worked

ASSUME FaultsAssumption == Faults \in BOOLEAN /\ UnlinkFaults \in BOOLEAN

VARIABLES
  panel,    \* "down", "boot" while NewManager cleans up, "up"
  ready,    \* Guard.ready
  journal,  \* l3-firewall.json exists
  table,    \* the nftables table of our name: "none", "ours" or "foreign"
  running,  \* L3 cores in Manager.processes
  call      \* the guard's call in progress, by its next system call

vars == <<panel, ready, journal, table, running, call>>

EnsureCalls == {"check", "write", "create", "launch"}
ClearCalls == {"read", "lookup", "remove", "unlink"}

Init ==
  /\ panel = "down"
  /\ ready = FALSE
  /\ journal = FALSE
  /\ table = "none"
  /\ running = {}
  /\ call = "none"

-----------------------------------------------------------------------------
\* The end of a call.

\* Clear returned: NewManager goes on or gives up, anybody else goes on.
StartAnyway(ok) == panel' = "up"                                   \* mutant
StartIfClean(ok) == panel' = IF panel = "up" \/ ok THEN "up" ELSE "down"

Return(ok) == call' = "none" /\ StartIfClean(ok)

\* A system call of Ensure or Clear fails and ends it.
Fails(allowed) ==
  /\ allowed
  /\ Return(FALSE)
  /\ UNCHANGED <<ready, journal, table, running>>

Goto(next) == call' = next /\ UNCHANGED panel

-----------------------------------------------------------------------------
\* Ensure, and the start of the core after it.

\* startLocked of an L3 profile calls Prepare, which calls Ensure.
Prepare ==
  /\ panel = "up" /\ call = "none"
  /\ running # Cores
  /\ call' = IF ready THEN "launch" ELSE "check"
  /\ UNCHANGED <<panel, ready, journal, table, running>>

\* A table is there already, a leftover or another program's: refused.
Check ==
  /\ call = "check"
  /\ \/ Fails(Faults \/ table # "none")
     \/ /\ table = "none"
        /\ Goto("write")
        /\ UNCHANGED <<ready, journal, table, running>>

\* The journal first, then the table.
WriteAfterwards == Goto("create") /\ UNCHANGED journal              \* mutant
WriteJournal == Goto("create") /\ journal' = TRUE

Write ==
  /\ call = "write"
  /\ \/ Fails(Faults)
     \/ /\ WriteJournal
        /\ UNCHANGED <<ready, table, running>>

\* One netlink batch that does not touch an existing table; its error may
\* reach us although the batch was committed.
Create ==
  /\ call = "create"
  /\ UNCHANGED <<journal, running>>
  /\ \/ /\ table = "none"
        /\ table' = "ours" /\ ready' = TRUE
        /\ Goto("launch")
     \/ /\ Faults \/ table # "none"
        /\ table' \in {table} \cup {"ours" : t \in {table} \cap {"none"}}
        /\ Goto("read")
        /\ UNCHANGED ready

\* exec works, or the guard is released unless other L3 cores need it.
Launch ==
  /\ call = "launch"
  /\ \/ /\ \E c \in Cores \ running : running' = running \cup {c}
        /\ Return(TRUE)
     \/ /\ Faults
        /\ IF running = {} THEN Goto("read") ELSE Return(FALSE)
        /\ UNCHANGED running
  /\ UNCHANGED <<ready, journal, table>>

-----------------------------------------------------------------------------
\* Clear.

\* A core ended and left the map, an L3 core or another one: clearL3Locked
\* releases the guard unless an L3 core is left.
ReleaseAlways == Goto("read")                                       \* mutant
ReleaseIfLast == IF running' = {} THEN Goto("read") ELSE UNCHANGED <<call, panel>>

CoreEnds ==
  /\ panel = "up" /\ call = "none"
  /\ running' = running \/ \E c \in running : running' = running \ {c}
  /\ ReleaseIfLast
  /\ UNCHANGED <<ready, journal, table>>

\* No journal: there is nothing of ours.
Read ==
  /\ call = "read"
  /\ \/ Fails(Faults)
     \/ /\ ~journal
        /\ ready' = FALSE
        /\ Return(TRUE)
        /\ UNCHANGED <<journal, table, running>>
     \/ /\ journal
        /\ Goto("lookup")
        /\ UNCHANGED <<ready, journal, table, running>>

AnyTable == table # "none"                                          \* mutant
OwnTable == table = "ours"

Lookup ==
  /\ call = "lookup"
  /\ \/ Fails(Faults \/ table = "foreign")
     \/ /\ Goto(IF OwnTable THEN "remove" ELSE "unlink")
        /\ OwnTable \/ table = "none"
        /\ UNCHANGED <<ready, journal, table, running>>

Remove ==
  /\ call = "remove"
  /\ \/ Fails(Faults)
     \/ /\ table' = "none"
        /\ Goto("unlink")
        /\ UNCHANGED <<ready, journal, running>>

Unlink ==
  /\ call = "unlink"
  /\ \/ Fails(UnlinkFaults)
     \/ /\ journal' = FALSE /\ ready' = FALSE
        /\ Return(TRUE)
        /\ UNCHANGED <<table, running>>

-----------------------------------------------------------------------------
\* NewManager: a new Guard, and Cleanup before anything else.
Boot ==
  /\ panel = "down"
  /\ panel' = "boot"
  /\ call' = "read"
  /\ UNCHANGED <<ready, journal, table, running>>

\* The panel is killed, at any step, and the kernel ends its cores.
Crash ==
  /\ panel # "down"
  /\ panel' = "down"
  /\ ready' = FALSE /\ running' = {}
  /\ call' = "none"
  /\ UNCHANGED <<journal, table>>

\* Another program has a table of our name, or no longer.
Foreign ==
  /\ \/ table = "none" /\ table' = "foreign"
     \/ table = "foreign" /\ table' = "none"
  /\ UNCHANGED <<panel, ready, journal, running, call>>

GuardStep == Check \/ Write \/ Create \/ Launch \/ Read \/ Lookup \/ Remove \/ Unlink

Next == Prepare \/ CoreEnds \/ GuardStep \/ Boot \/ Crash \/ Foreign

Spec == Init /\ [][Next]_vars

-----------------------------------------------------------------------------
\* Properties.

TypeOK ==
  /\ panel \in {"down", "boot", "up"}
  /\ ready \in BOOLEAN
  /\ journal \in BOOLEAN
  /\ table \in {"none", "ours", "foreign"}
  /\ running \subseteq Cores
  /\ call \in EnsureCalls \cup ClearCalls \cup {"none"}

\* Our table never exists without the journal: whenever the panel is killed, the
\* next one finds what to remove.
Journaled == table = "ours" => journal

\* No L3 core runs without the table that keeps the kernel from resetting its
\* connections.
Guarded == running # {} => table = "ours"

\* A panel that comes up has nothing of its predecessor's left, and a panel that
\* could not clean up does not come up.
CleanStart ==
  [][panel = "boot" /\ panel' = "up" => table' # "ours" /\ ~journal' /\ ~ready']_vars

\* Another program's table is never removed or replaced by a call of ours.
ForeignKept == [][table = "foreign" /\ table' # "foreign" => Foreign]_vars
=============================================================================
