------------------------------ MODULE Runtime ------------------------------
(***************************************************************************)
(* The process adapter of one service (scripts/ubb_runtime/adapters.py):   *)
(* it spawns the runtime, records the identity of the process, adopts it   *)
(* after a restart of the supervisor only when that identity is proven,    *)
(* and stops it with escalation.  The supervisor, which makes the calls    *)
(* under the service's lock and then saves the record, may die at any      *)
(* moment; the operating system gives a free process id to anybody.        *)
(***************************************************************************)
EXTENDS Naturals, FiniteSets

CONSTANTS
    Pids,
    None,
    MaxBirths,   \* bound on the processes ever created
    MaxCrashes,  \* bound on the deaths of the supervisor
    MaxLeaked    \* bound on the descriptors lost

VARIABLES
    procs,    \* the process table
    births,   \* start ticks: how many processes were created before
    own,      \* _processes: the child of this supervisor, also after it exited
    master,   \* _pty_masters: the terminal of a process, by its start ticks
    leaked,   \* terminals open in the supervisor that nothing refers to
    record,   \* instance.runtime: pid and start ticks
    saved,    \* instance.runtime in the state file
    at,       \* the call in progress, "free" between calls
    victim,   \* the process id that stop() works on
    since,    \* history: births when stop() looked at the process
    hit,      \* history: the process that the last signal reached
    orphans,  \* history: start ticks of live runtimes that the adapter lost
    crashes

adapter == <<own, master, leaked, record>>
observed == <<since, hit, orphans>>
vars == <<procs, births, adapter, saved, at, victim, observed, crashes>>

\* exe is what the link /proc/<pid>/exe reads: what it read when the runtime was
\* started, or anything else or nothing.
Process == [ticks : Nat, kind : {"runtime", "foreign"}, state : {"live", "dying", "zombie"},
            exe : {"first", "other"}]

\* The executable is recorded with the start ticks or, like them, as None.
Identity == [pid : Pids \cup {None}, ticks : Nat \cup {None}]
Nobody == [pid |-> None, ticks |-> None]

ASSUME RuntimeAssumption ==
    /\ MaxBirths \in Nat /\ MaxCrashes \in Nat /\ MaxLeaked \in Nat
    /\ None \notin Pids \cup Nat \cup Process

\* What each variable may hold.
TypeOK ==
    /\ procs \in [Pids -> Process \cup {None}]
    /\ births \in 0..MaxBirths
    /\ own \in Identity
    /\ master \in Nat \cup {None}
    /\ leaked \in 0..MaxLeaked
    /\ record \in Identity /\ saved \in Identity
    /\ at \in {"free", "ready", "term", "poll", "kill", "wait", "save"}
    /\ victim \in Pids \cup {None}
    /\ since \in Nat /\ hit \in Process \cup {None} /\ orphans \subseteq Nat
    /\ crashes \in 0..MaxCrashes

Init ==
    /\ procs = [p \in Pids |-> None] /\ births = 0
    /\ own = Nobody /\ master = None /\ leaked = 0
    /\ record = Nobody /\ saved = Nobody
    /\ at = "free" /\ victim = None
    /\ since = 0 /\ hit = None /\ orphans = {}
    /\ crashes = 0

-----------------------------------------------------------------------------
(* status() *)

Exists(p) == p # None /\ procs[p] # None
Running(p) == Exists(p) /\ procs[p].state # "zombie"

\* The process that the identity names, whatever it executes.
Same(id) == Running(id.pid) /\ id.ticks # None /\ procs[id.pid].ticks = id.ticks

FaultyProven(id) == Running(id.pid) /\ procs[id.pid].exe = "first"

\* _proc_identity against the record: the same process id with the same start,
\* and the executable can be read and is the recorded one.
Proven(id) == Same(id) /\ procs[id.pid].exe = "first"

FaultyAlive == own # Nobody /\ Same(own)

\* A child is asked with poll(), which knows the process it started; any other
\* process has to prove its identity.
Alive == IF own # Nobody THEN Same(own) ELSE Proven(record)

\* The adopted runtime lives and cannot prove it: it executes another program
\* by now, its program was replaced, or the link cannot be read.
Disowned == IF own = Nobody /\ Same(record) /\ ~Proven(record) THEN {record.ticks} ELSE {}

Child(p) == Exists(p) /\ p = own.pid /\ procs[p].ticks = own.ticks

\* poll() of a child that has exited removes it from the process table.
Reaped == [p \in Pids |-> IF Child(p) /\ procs[p].state = "zombie" THEN None ELSE procs[p]]

FaultyCleanup ==
    /\ own' = Nobody
    /\ record' = Nobody
    /\ UNCHANGED <<master, leaked>>

\* cleanup(): the child, its terminal and its identity are forgotten.
Cleanup ==
    /\ own' = Nobody
    /\ master' = None
    /\ record' = Nobody
    /\ UNCHANGED leaked

-----------------------------------------------------------------------------
(* start() *)

Called == at = "free"

\* Popen.  A process that has already exited when its identity is read, or
\* whose link cannot be read, leaves a record that proves nothing.  A terminal
\* of an earlier child that exited by itself is overwritten without being
\* closed, and so is the record of an adopted runtime that is not proven.
Spawn(p, image) ==
    /\ Called /\ ~Alive
    /\ births < MaxBirths
    /\ Reaped[p] = None
    /\ leaked + (IF master = None THEN 0 ELSE 1) <= MaxLeaked
    /\ births' = births + 1
    /\ procs' = [Reaped EXCEPT ![p] = [ticks |-> births, kind |-> "runtime",
                                       state |-> IF image = "exited" THEN "zombie" ELSE "live",
                                       exe |-> IF image = "readable" THEN "first" ELSE "other"]]
    /\ own' = [pid |-> p, ticks |-> births]
    /\ master' = births
    /\ leaked' = leaked + (IF master = None THEN 0 ELSE 1)
    /\ record' = [pid |-> p, ticks |-> IF image = "readable" THEN births ELSE None]
    /\ orphans' = orphans \cup Disowned
    /\ at' = "ready"
    /\ UNCHANGED <<saved, victim, since, hit, crashes>>

\* Popen fails: the new terminal is closed again and nothing else changes.
SpawnFails ==
    /\ Called /\ ~Alive
    /\ procs' = Reaped
    /\ at' = "save"
    /\ UNCHANGED <<births, adapter, saved, victim, observed, crashes>>

\* check_readiness succeeds, and the supervisor goes on to save the state.
BecomesReady ==
    /\ at = "ready"
    /\ at' = "save"
    /\ UNCHANGED <<procs, births, adapter, saved, victim, observed, crashes>>

-----------------------------------------------------------------------------
(* stop() *)

\* Called by the supervisor, also for a runtime that did not become ready.  The
\* graceful command runs between this step and the next.
Stop ==
    /\ at \in {"free", "ready"}
    /\ since' = births
    /\ procs' = Reaped
    /\ IF Alive
          THEN /\ victim' = IF own # Nobody THEN own.pid ELSE record.pid
               /\ at' = "term"
               /\ UNCHANGED <<adapter, orphans>>
          ELSE /\ Cleanup
               /\ orphans' = orphans \cup Disowned
               /\ at' = "save"
               /\ UNCHANGED victim
    /\ UNCHANGED <<births, saved, hit, crashes>>

\* killpg reaches whoever has the id now; SIGTERM alone ends nobody for sure.
Terminate ==
    /\ at = "term"
    /\ hit' = IF Running(victim) THEN procs[victim] ELSE None
    /\ at' = "poll"
    /\ UNCHANGED <<procs, births, adapter, saved, victim, since, orphans, crashes>>

\* The polling loop sees that the process has exited, or cannot be proven any
\* more ...
Gone ==
    /\ ~Alive
    /\ procs' = Reaped
    /\ Cleanup
    /\ orphans' = orphans \cup Disowned
    /\ at' = "save"

\* ... or the deadline passes, after a last look that may be stale by now.
Poll ==
    /\ at = "poll"
    /\ \/ Gone
       \/ at' = "kill" /\ UNCHANGED <<procs, adapter, orphans>>
    /\ UNCHANGED <<births, saved, victim, since, hit, crashes>>

FaultyKill ==
    /\ at = "kill"
    /\ hit' = IF Running(victim) THEN procs[victim] ELSE None
    /\ at' = "save"
    /\ UNCHANGED <<procs, births, adapter, saved, victim, since, orphans, crashes>>

\* SIGKILL.  Only a child is waited for; the identity of an adopted process is
\* forgotten at once.
Kill ==
    /\ at = "kill"
    /\ hit' = IF Running(victim) THEN procs[victim] ELSE None
    /\ procs' = IF Running(victim) THEN [procs EXCEPT ![victim].state = "dying"] ELSE procs
    /\ IF own # Nobody THEN at' = "wait" /\ UNCHANGED adapter
                     ELSE at' = "save" /\ Cleanup
    /\ UNCHANGED <<births, saved, victim, since, orphans, crashes>>

\* wait(timeout=1): RuntimeStopError keeps the child and its record.
Wait ==
    /\ at = "wait"
    /\ \/ Gone
       \/ at' = "save" /\ UNCHANGED <<procs, adapter, orphans>>
    /\ UNCHANGED <<births, saved, victim, since, hit, crashes>>

\* The supervisor writes the state file at the end of every operation.
Save ==
    /\ at = "save"
    /\ saved' = record
    /\ at' = "free"
    /\ victim' = None
    /\ UNCHANGED <<procs, births, adapter, observed, crashes>>

-----------------------------------------------------------------------------
(* The environment *)

\* A child of the supervisor stays as a zombie until it is polled; init reaps
\* everybody else.
Exit(p) ==
    /\ Running(p)
    /\ procs' = [procs EXCEPT ![p] = IF Child(p) THEN [@ EXCEPT !.state = "zombie"] ELSE None]
    /\ UNCHANGED <<births, adapter, saved, at, victim, observed, crashes>>

\* A runtime executes another program or its program is replaced, as an upgrade
\* of the package does; or the link becomes what it was.  A stranger keeps the
\* link that is hardest to tell from the runtime's.
Execs(p) ==
    /\ Running(p) /\ procs[p].kind = "runtime"
    /\ procs' = [procs EXCEPT ![p].exe = IF @ = "first" THEN "other" ELSE "first"]
    /\ UNCHANGED <<births, adapter, saved, at, victim, observed, crashes>>

ForeignStart(p) ==
    /\ procs[p] = None
    /\ births < MaxBirths
    /\ births' = births + 1
    /\ procs' = [procs EXCEPT ![p] = [ticks |-> births, kind |-> "foreign", state |-> "live", exe |-> "first"]]
    /\ UNCHANGED <<adapter, saved, at, victim, observed, crashes>>

\* The supervisor dies and another one loads the state file.  Its children go
\* on; one that was not yet saved, or saved without an identity, is lost.
Crash ==
    /\ crashes < MaxCrashes
    /\ crashes' = crashes + 1
    /\ procs' = Reaped
    /\ own' = Nobody /\ master' = None /\ leaked' = 0
    /\ record' = saved
    /\ orphans' = IF Same(own) /\ saved # own THEN orphans \cup {own.ticks} ELSE orphans
    /\ at' = "free" /\ victim' = None
    /\ UNCHANGED <<births, saved, since, hit>>

Work == Terminate \/ Poll \/ Kill \/ Wait \/ Save \/ BecomesReady

Next ==
    \/ \E p \in Pids : \E image \in {"readable", "unreadable", "exited"} : Spawn(p, image)
    \/ SpawnFails \/ Stop
    \/ Work
    \/ \E p \in Pids : Exit(p) \/ Execs(p) \/ ForeignStart(p)
    \/ Crash

\* A call goes on, every wait in it is bounded, and a killed process dies.
Spec == /\ Init /\ [][Next]_vars
        /\ WF_vars(Work)
        /\ \A p \in Pids : WF_vars(Exists(p) /\ procs[p].state = "dying" /\ Exit(p))

-----------------------------------------------------------------------------
(* Properties *)

\* stop() signals the runtime or, if an adopted runtime exits while stop() is
\* at work, a process that took its id since: never a process that was already
\* there and merely has the recorded id.  A child keeps its id until stop() has
\* seen it exit, so for a child there is no exception.
FailsClosed ==
    [][hit' # hit /\ hit' # None =>
          \/ hit'.kind = "runtime"
          \/ own = Nobody /\ hit'.ticks >= since]_vars

\* The service has one runtime: no second one is spawned beside a runtime that
\* lives.  It takes a death of the supervisor to lose a live runtime, either at
\* the crash, with no identity of it in the state file, or later, when start()
\* or stop() finds the adopted process with another executable than recorded.
OneRuntime ==
    \A p, q \in Pids : p # q /\ Exists(p) /\ Exists(q) =>
        \E r \in {p, q} : \/ procs[r].kind = "foreign" \/ procs[r].state # "live"
                          \/ crashes > 0 /\ procs[r].ticks \in orphans

\* The terminal that open_stream hands out is the one of the child it knows, so
\* no caller is connected to the terminal of an earlier runtime.
TerminalIsCurrent ==
    master # None => own.ticks = master

\* A runtime that ignores SIGTERM does not survive stop(): from the signal on
\* it exits, or the supervisor dies in the middle of the call, or the runtime was
\* adopted and stop() gives it up because its executable has changed meanwhile.
StopEnds ==
    \A p \in Pids, t \in 0..MaxBirths, c \in 0..MaxCrashes :
        (/\ at = "poll" /\ victim = p /\ crashes = c
         /\ Exists(p) /\ procs[p].kind = "runtime" /\ procs[p].ticks = t)
            ~> (~Exists(p) \/ procs[p].ticks # t \/ procs[p].state = "zombie" \/ crashes # c \/ t \in orphans)
=============================================================================
