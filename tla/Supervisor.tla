----------------------------- MODULE Supervisor -----------------------------
(***************************************************************************)
(* The lifecycle supervisor of one service                                 *)
(* (scripts/ubb_supervisor/supervisor.py): the holds that keep its runtime *)
(* up, the lifecycle state, bounded recovery, the idle rule, maintenance   *)
(* jobs, and the state file a restarted supervisor reloads.                *)
(*                                                                         *)
(* Every operation runs under the service's lock.  The lock holder is a    *)
(* small program: `call` is the operation, `at` its program counter        *)
(* ("free" when nobody holds the lock), and one step reaches from one      *)
(* write of the state file to the next, so that a crash can fall between   *)
(* any two of them.  _ensure_running_locked and                            *)
(* _restart_after_failure_locked call each other; their recursion is the   *)
(* loop ensure -> launch -> recover -> ensure, left by "return" or by      *)
(* "raise", the two ways control comes back to the operation.              *)
(*                                                                         *)
(* Time is relative.  A deadline is the time left to it, a past event is   *)
(* its age, and Advance moves all of them, on disk as in memory; NoTime is *)
(* an absent timestamp.                                                    *)
(***************************************************************************)
EXTENDS Integers, Sequences, FiniteSets, Lifecycle

CONSTANTS
    Sessions,         \* identities acquire_session can hand out
    SingleSession,    \* lifecycle.sharing = "single_session"
    Jobs,             \* names of the declared maintenance jobs
    WakeIfStopped,    \* the jobs with wake_if_stopped
    ShutdownAfter,    \* the jobs with shutdown_after
    JobPeriod,        \* interval of every job's schedule
    DefaultMode,      \* lifecycle.mode of the declaration
    NewModes,         \* modes an administrator may switch to
    IdleTimeout,      \* lifecycle.idle_timeout_seconds
    StartupTimeout,   \* lifecycle.startup_timeout_seconds
    Policy,           \* lifecycle.restart
    Window,           \* lifecycle.restart_window_seconds
    Backoff,          \* lifecycle.restart_backoff_seconds
    MaxRestarts,      \* lifecycle.max_restarts
    MaxCrashes,       \* bound: crashes of the supervisor process
    Nobody            \* neither a session nor a job

Modes == {"always_on", "on_demand"}

ASSUME SupervisorAssumption ==
    /\ IsFiniteSet(Sessions) /\ IsFiniteSet(Jobs)
    /\ SingleSession \in BOOLEAN
    /\ WakeIfStopped \subseteq Jobs
    /\ ShutdownAfter \subseteq Jobs
    /\ JobPeriod \in Nat \ {0}
    /\ DefaultMode \in Modes
    /\ NewModes \subseteq Modes
    /\ IdleTimeout \in Nat
    /\ StartupTimeout \in Nat
    /\ Policy \in {"never", "on_failure", "always"}
    /\ Window \in Nat \ {0}
    /\ Backoff \in Nat
    /\ MaxRestarts \in Nat
    /\ MaxCrashes \in Nat
    /\ Nobody \notin Sessions \cup Jobs

VARIABLES
    \* InstanceState
    state, holds, sessions, adminIntent, idleDeadline, restartTimes,
    nextRestart, exhausted, lastRun,
    \* the lock holder: operation, program counter, its session or job,
    \* whether it launches on behalf of _restart_after_failure_locked, and
    \* how long it has been polling readiness
    call, at, who, nested, polled,
    \* run_maintenance threads, those that found the service down, and the
    \* _jobs_running guard
    phase, woken, jobsRunning,
    \* the thread that runs tick, and an administrator between the two
    \* halves of restart
    ticker, due, tickJob, restarting,
    \* lifecycle_overrides, in memory and in lifecycle-overrides.json
    override, modeFile,
    \* instances/<service-id>.json, what driver.status reports, crashes so far
    disk, alive, crashes

instanceVars == <<state, holds, sessions, adminIntent, idleDeadline,
                  restartTimes, nextRestart, exhausted, lastRun>>
lockVars == <<call, at, who, nested, polled>>
jobVars == <<phase, woken, jobsRunning>>
tickVars == <<ticker, due, tickJob, restarting>>
modeVars == <<override, modeFile>>
account == <<restartTimes, nextRestart, exhausted>>
besidesState == <<holds, sessions, adminIntent, idleDeadline, account, lastRun>>
threads == <<jobVars, tickVars>>
outside == <<modeVars, alive, crashes>>
vars == <<instanceVars, lockVars, jobVars, tickVars, modeVars, disk, alive, crashes>>

-----------------------------------------------------------------------------
(* Types.                                                                  *)

NoTime == -1
NoMode == "no_override"
Torn == "torn"
Reasons == {"admin", "always_on", "sessions", "maintenance", "recovery"}
DurableReasons == {"admin", "always_on"}

Calls == {"none", "start", "acquire", "begin", "complete", "job_error", "notify",
          "reconcile", "tick", "stop", "restart"}
Points == {"free", "ensure", "launch", "ready", "running", "recover", "return",
           "retry", "recovered", "raise", "stop", "halt", "halted", "adopt", "settle",
           "finish"}
Phases == {"idle", "begin", "driver", "finish"}

IdleTimes == NoTime .. IdleTimeout
RetryTimes == NoTime .. Backoff
Ages == 0 .. (Window + 1)
RunAges == NoTime .. JobPeriod

Snapshots ==
    [state : States, holds : [DurableReasons -> Nat], adminIntent : BOOLEAN,
     idleDeadline : IdleTimes, restartTimes : Seq(Ages), nextRestart : RetryTimes,
     exhausted : BOOLEAN, lastRun : [Jobs -> RunAges]]

InstanceTypeOK ==
    /\ state \in States
    /\ holds \in [Reasons -> Nat]
    /\ sessions \in SUBSET Sessions
    /\ adminIntent \in BOOLEAN
    /\ idleDeadline \in IdleTimes
    /\ restartTimes \in Seq(Ages)
    /\ nextRestart \in RetryTimes
    /\ exhausted \in BOOLEAN
    /\ lastRun \in [Jobs -> RunAges]

HolderTypeOK ==
    /\ call \in Calls
    /\ at \in Points
    /\ who \in Sessions \cup Jobs \cup {Nobody}
    /\ nested \in BOOLEAN
    /\ polled \in 0 .. StartupTimeout

ThreadsTypeOK ==
    /\ phase \in [Jobs -> Phases]
    /\ woken \in SUBSET Jobs
    /\ jobsRunning \in SUBSET Jobs
    /\ ticker \in {"idle", "reconcile", "scan", "due"}
    /\ due \in SUBSET Jobs
    /\ tickJob \in Jobs \cup {Nobody}
    /\ restarting \in BOOLEAN

EnvironmentTypeOK ==
    /\ override \in Modes \cup {NoMode}
    /\ modeFile \in Modes \cup {NoMode, Torn}
    /\ disk \in Snapshots
    /\ alive \in BOOLEAN
    /\ crashes \in 0 .. MaxCrashes

(* Every variable stays in its type, the persisted snapshot included.      *)
TypeOK == InstanceTypeOK /\ HolderTypeOK /\ ThreadsTypeOK /\ EnvironmentTypeOK

-----------------------------------------------------------------------------
(* The instance.                                                           *)

(* active_holds() as a truth value: the counts are natural numbers.        *)
Held(h) == \E r \in Reasons : h[r] > 0

(* The lifecycle mode in force: the override, else the declaration.        *)
Mode == IF override = NoMode THEN DefaultMode ELSE override

(* Variants whose name starts with Faulty are seeded faults: plausible     *)
(* mistakes in the definition that follows, against which the properties   *)
(* are shown to be able to fail.  The specification uses none of them.     *)

(* to_dict that forgets the time of the next attempt.                      *)
FaultySaved ==
    [state |-> state, holds |-> [r \in DurableReasons |-> holds[r]],
     adminIntent |-> adminIntent, idleDeadline |-> idleDeadline,
     restartTimes |-> restartTimes, nextRestart |-> NoTime,
     exhausted |-> exhausted, lastRun |-> lastRun]

(* to_dict(persist=True): neither sessions nor transient holds are saved.  *)
Saved ==
    [state |-> state, holds |-> [r \in DurableReasons |-> holds[r]],
     adminIntent |-> adminIntent, idleDeadline |-> idleDeadline,
     restartTimes |-> restartTimes, nextRestart |-> nextRestart,
     exhausted |-> exhausted, lastRun |-> lastRun]

(* _persist, after the step's changes to the instance; and where the code  *)
(* saves on one of its paths only.                                         *)
Persist == disk' = Saved'
PersistIf(saves) == IF saves THEN Persist ELSE UNCHANGED disk

(* _transition, refused off the graph; the step ends with its Persist.     *)
Transition(new) == MayTransition(state, new) /\ state' = new

(* Where control goes next, the operation and its caller staying the same. *)
Goto(point) == at' = point /\ UNCHANGED <<call, who, nested, polled>>

(* The operation is over: its thread gives up the lock.                    *)
Unlock ==
    /\ call' = "none"
    /\ at' = "free"
    /\ who' = Nobody
    /\ nested' = FALSE
    /\ polled' = 0

(* A thread takes the lock for operation c and continues at point.         *)
Lock(c, point, subject) ==
    /\ at = "free"
    /\ call' = c
    /\ at' = point
    /\ who' = subject
    /\ UNCHANGED <<nested, polled>>

(* _add_hold and _remove_hold, on the counts.  The faulty ones drop every  *)
(* count at once, never give back the last, or do not stop at zero.        *)
AddHold(h, r) == [h EXCEPT ![r] = @ + 1]
FaultyRemoveAll(h, r) == [h EXCEPT ![r] = 0]
RemoveHold(h, r) == [h EXCEPT ![r] = IF @ <= 1 THEN 0 ELSE @ - 1]
DropHold(h, r) == [h EXCEPT ![r] = 0]
SetHold(h, r) == [h EXCEPT ![r] = 1]
NoHolds == [r \in Reasons |-> 0]

(* _schedule_idle_locked that overlooks the holds, or that sets the        *)
(* deadline anew every time.                                               *)
FaultyIdleIgnoresHolds(h) ==
    IF Mode = "on_demand" /\ state = "running" /\ idleDeadline = NoTime
    THEN IdleTimeout ELSE idleDeadline
FaultyIdleRearms(h) ==
    IF Mode = "on_demand" /\ ~Held(h) /\ state = "running"
    THEN IdleTimeout ELSE idleDeadline

(* _schedule_idle_locked: the deadline after it.                           *)
IdleAfter(h) ==
    IF Mode = "on_demand" /\ ~Held(h) /\ state = "running" /\ idleDeadline = NoTime
    THEN IdleTimeout ELSE idleDeadline

(* The restart_times still inside the window.  Attempts are appended in    *)
(* the order of time, so these are the last ones.                          *)
FaultyInWindow(times) == {k \in DOMAIN times : times[k] < Window}
InWindow(times) == {k \in DOMAIN times : times[k] <= Window}
Prior(times) ==
    SubSeq(times, Len(times) - Cardinality(InWindow(times)) + 1, Len(times))

(* is_due for an interval schedule, by the age of the last run.            *)
IsDue(j) == lastRun[j] \in {NoTime, JobPeriod}

Init ==
    /\ state = "stopped" /\ holds = NoHolds /\ sessions = {} /\ adminIntent = FALSE
    /\ idleDeadline = NoTime /\ restartTimes = <<>> /\ nextRestart = NoTime
    /\ exhausted = FALSE /\ lastRun = [j \in Jobs |-> NoTime]
    /\ call = "none" /\ at = "free" /\ who = Nobody /\ nested = FALSE /\ polled = 0
    /\ phase = [j \in Jobs |-> "idle"] /\ woken = {} /\ jobsRunning = {}
    /\ ticker = "idle" /\ due = {} /\ tickJob = Nobody /\ restarting = FALSE
    /\ override = NoMode /\ modeFile = NoMode /\ disk = Saved /\ alive = FALSE
    /\ crashes = 0

-----------------------------------------------------------------------------
(* _ensure_running_locked and _restart_after_failure_locked.               *)

(* An active service needs nothing, one in transit is busy, any other is   *)
(* launched.                                                               *)
Ensure ==
    /\ at = "ensure"
    /\ \/ state \in ActiveStates /\ Goto("return") /\ UNCHANGED state
       \/ state \in {"starting", "stopping"} /\ Goto("raise") /\ UNCHANGED state
       \/ Transition("starting") /\ Goto("launch")
    /\ UNCHANGED <<besidesState, threads, outside>>
    /\ PersistIf(state' # state)

(* driver.start succeeded and the readiness poll came back true in time.   *)
LaunchReady ==
    /\ at = "launch" /\ Transition("ready") /\ alive' = TRUE
    /\ at' = "ready" /\ polled' = 0
    /\ UNCHANGED <<besidesState, call, who, nested, threads, modeVars, crashes>>
    /\ Persist

(* driver.start or the poll raised, or the poll reached its deadline.  A   *)
(* runtime left alive is stopped, but that stop may fail unnoticed.        *)
LaunchFails ==
    /\ at = "launch" /\ Transition("failed") /\ alive' \in BOOLEAN
    /\ at' = "retry" /\ polled' = 0
    /\ UNCHANGED <<besidesState, call, who, nested, threads, modeVars, crashes>>
    /\ Persist

LaunchRuns ==
    /\ at = "ready" /\ Transition("running") /\ Goto("running")
    /\ UNCHANGED <<besidesState, threads, outside>>
    /\ Persist

(* The bookkeeping of a successful start.                                  *)
LaunchEnds ==
    /\ at = "running" /\ nextRestart' = NoTime /\ exhausted' = FALSE
    /\ Goto(IF nested THEN "recovered" ELSE "return")
    /\ UNCHANGED <<state, holds, sessions, adminIntent, idleDeadline, restartTimes, lastRun,
                   threads, outside>>
    /\ Persist

(* A launch made for recovery gives up the recovery hold once it runs.     *)
RecoveryEnds ==
    /\ at = "recovered" /\ holds' = DropHold(holds, "recovery") /\ at' = "return"
    /\ nested' = FALSE
    /\ UNCHANGED <<state, sessions, adminIntent, idleDeadline, account, lastRun, call, who,
                   polled, threads, outside>>
    /\ Persist

(* _restart_after_failure_locked, entered from a failed launch ("retry",   *)
(* which raises while the service stays failed) or directly ("recover").   *)
Recovering == at \in {"recover", "retry"}
StillFailed == IF at = "retry" THEN "raise" ELSE "return"

RecoverNever ==
    /\ Recovering /\ Policy = "never" /\ Goto(StillFailed)
    /\ UNCHANGED <<instanceVars, threads, outside, disk>>

(* The limit applies to the attempts inside the window.                    *)
LimitReached == Len(Prior(restartTimes)) >= MaxRestarts

RecoverExhausted ==
    /\ Recovering /\ Policy # "never" /\ LimitReached
    /\ restartTimes' = Prior(restartTimes) /\ exhausted' = TRUE
    /\ nextRestart' = NoTime /\ holds' = DropHold(holds, "recovery")
    /\ Goto("raise")
    /\ UNCHANGED <<state, sessions, adminIntent, idleDeadline, lastRun, threads, outside>>
    /\ Persist

RecoverRetries ==
    /\ Recovering /\ Policy # "never" /\ ~LimitReached
    /\ restartTimes' = Append(Prior(restartTimes), 0) /\ exhausted' = FALSE
    /\ holds' = SetHold(holds, "recovery") /\ nextRestart' = Backoff
    /\ at' = IF Backoff = 0 THEN "ensure" ELSE StillFailed
    /\ nested' = (Backoff = 0)
    /\ UNCHANGED <<state, sessions, adminIntent, idleDeadline, lastRun, call, who, polled,
                   threads, outside>>
    /\ Persist

-----------------------------------------------------------------------------
(* _stop_locked.                                                           *)

StopLocked ==
    /\ at = "stop"
    /\ \/ state = "stopped" /\ Goto("return") /\ UNCHANGED state
       \/ state = "failed" /\ Transition("stopped") /\ Goto("return")
       \/ state \in {"starting", "stopping"} /\ Goto("raise") /\ UNCHANGED state
       \/ state \in ActiveStates /\ Transition("stopping") /\ Goto("halt")
    /\ UNCHANGED <<besidesState, threads, outside>>
    /\ PersistIf(at' # "raise")

HaltSucceeds ==
    /\ at = "halt" /\ Transition("stopped") /\ alive' = FALSE /\ Goto("halted")
    /\ UNCHANGED <<besidesState, threads, modeVars, crashes>>
    /\ Persist

HaltFails ==
    /\ at = "halt" /\ Transition("failed") /\ Goto("raise")
    /\ UNCHANGED <<besidesState, threads, outside>>
    /\ Persist

HaltEnds ==
    /\ at = "halted" /\ idleDeadline' = NoTime /\ Goto("return")
    /\ UNCHANGED <<state, holds, sessions, adminIntent, account, lastRun, threads, outside>>
    /\ Persist

-----------------------------------------------------------------------------
(* start, stop, restart and notify_failure.                                *)

(* An explicit start of a failed service also forgives its failures.  The  *)
(* hold is taken once, and only taking it saves the instance.              *)
StartAdmin ==
    /\ Lock("start", "ensure", Nobody) /\ adminIntent' = TRUE
    /\ exhausted' = (exhausted /\ state # "failed")
    /\ restartTimes' = IF state = "failed" THEN <<>> ELSE restartTimes
    /\ \/ /\ holds["admin"] = 0
          /\ holds' = AddHold(holds, "admin")
          /\ idleDeadline' = NoTime
       \/ /\ holds["admin"] # 0
          /\ UNCHANGED <<holds, idleDeadline>>
    /\ UNCHANGED <<state, sessions, nextRestart, lastRun, jobVars, ticker, due, tickJob,
                   outside>>
    /\ PersistIf(holds' # holds)

Start == StartAdmin /\ UNCHANGED restarting

(* stop by an administrator.  A refusal has already withdrawn the intent   *)
(* and the hold, in memory only.                                           *)
StopRefused ==
    /\ at = "free" /\ adminIntent' = FALSE /\ holds' = DropHold(holds, "admin")
    /\ Held(holds')
    /\ UNCHANGED <<state, sessions, idleDeadline, account, lastRun, lockVars, threads,
                   outside, disk>>

Stop(force) ==
    /\ Lock("stop", "stop", Nobody) /\ adminIntent' = FALSE
    /\ holds' = IF force THEN NoHolds ELSE DropHold(holds, "admin")
    /\ sessions' = IF force THEN {} ELSE sessions
    /\ ~Held(holds')
    /\ UNCHANGED <<state, idleDeadline, account, lastRun, threads, outside, disk>>

(* restart is a forced stop that keeps the administrator's intent, and     *)
(* then, the lock having been given up, an administrative start.           *)
Restart ==
    /\ ~restarting /\ Lock("restart", "stop", Nobody) /\ holds' = NoHolds
    /\ sessions' = {}
    /\ UNCHANGED <<state, adminIntent, idleDeadline, account, lastRun, threads, outside,
                   disk>>

RestartStarts == restarting /\ StartAdmin /\ restarting' = FALSE

(* _mark_failed_locked where the graph allows it; elsewhere it raises and  *)
(* changes nothing.                                                        *)
MarkFailed ==
    /\ state = "failed" \/ MayTransition(state, "failed")
    /\ state' = "failed"

NotifyFailure ==
    /\ Lock("notify", "recover", Nobody) /\ MarkFailed
    /\ UNCHANGED <<besidesState, threads, outside>>
    /\ Persist

-----------------------------------------------------------------------------
(* acquire_session and release_session.                                    *)

(* single_session, and the same that overlooks the first session.          *)
FaultySessionsFull == SingleSession /\ Cardinality(sessions) > 1
SessionsFull == SingleSession /\ sessions # {}

AcquireSession(s) ==
    /\ Lock("acquire", "ensure", s) /\ ~SessionsFull /\ s \notin sessions
    /\ sessions' = sessions \cup {s} /\ holds' = AddHold(holds, "sessions")
    /\ idleDeadline' = NoTime
    /\ UNCHANGED <<state, adminIntent, account, lastRun, threads, outside>>
    /\ Persist

(* A session whose service could not be brought up takes its hold back.    *)
AcquireFails ==
    /\ at = "raise" /\ call = "acquire" /\ sessions' = sessions \ {who}
    /\ holds' = RemoveHold(holds, "sessions") /\ Unlock
    /\ UNCHANGED <<state, adminIntent, idleDeadline, account, lastRun, threads, outside>>
    /\ Persist

ReleaseSession(s) ==
    /\ at = "free" /\ s \in sessions /\ sessions' = sessions \ {s}
    /\ holds' = RemoveHold(holds, "sessions") /\ idleDeadline' = IdleAfter(holds')
    /\ UNCHANGED <<state, adminIntent, account, lastRun, lockVars, threads, outside>>
    /\ Persist

-----------------------------------------------------------------------------
(* run_maintenance: under the lock until the service is in maintenance,    *)
(* then the driver's job without it, then under the lock again.            *)

FaultyMayBegin(j) == state \in ActiveStates \/ j \in WakeIfStopped
MayBegin(j) ==
    /\ j \notin jobsRunning
    /\ state \in ActiveStates \/ j \in WakeIfStopped

BeginMaintenance(j) ==
    /\ Lock("begin", "ensure", j) /\ MayBegin(j)
    /\ jobsRunning' = jobsRunning \cup {j} /\ phase' = [phase EXCEPT ![j] = "begin"]
    /\ woken' = IF state \in ActiveStates THEN woken ELSE woken \cup {j}
    /\ holds' = AddHold(holds, "maintenance") /\ idleDeadline' = NoTime
    /\ UNCHANGED <<state, sessions, adminIntent, account, lastRun, restarting, outside>>
    /\ Persist

RunMaintenance(j) == BeginMaintenance(j) /\ UNCHANGED <<ticker, due, tickJob>>

(* The thread of job j is gone.  A tick waiting for it goes on to its next *)
(* due job, or is abandoned by the exception.                              *)
EndJob(j, raised) ==
    /\ phase' = [phase EXCEPT ![j] = "idle"] /\ woken' = woken \ {j}
    /\ tickJob' = IF tickJob = j THEN Nobody ELSE tickJob
    /\ due' = IF tickJob = j /\ raised THEN {} ELSE due
    /\ ticker' = IF tickJob = j /\ raised THEN "idle" ELSE ticker
    /\ UNCHANGED restarting

EnterMaintenance ==
    /\ at = "return" /\ call = "begin"
    /\ \/ /\ Transition("maintenance")
          /\ phase' = [phase EXCEPT ![who] = "driver"]
          /\ Unlock
       \/ /\ ~MayTransition(state, "maintenance")
          /\ Goto("raise")
          /\ UNCHANGED <<state, phase>>
    /\ UNCHANGED <<besidesState, woken, jobsRunning, tickVars, outside>>
    /\ PersistIf(state' # state)

BeginFails ==
    /\ at = "raise" /\ call = "begin" /\ holds' = RemoveHold(holds, "maintenance")
    /\ jobsRunning' = jobsRunning \ {who} /\ EndJob(who, TRUE) /\ Unlock
    /\ UNCHANGED <<state, sessions, adminIntent, idleDeadline, account, lastRun, outside>>
    /\ Persist

(* The driver's job is over, without or with an error.                     *)
FinishMaintenance(j, ok) ==
    /\ phase[j] = "driver"
    /\ Lock(IF ok THEN "complete" ELSE "job_error", "finish", j)
    /\ lastRun' = [lastRun EXCEPT ![j] = 0]
    /\ IF ok THEN Transition("running") ELSE MarkFailed
    /\ phase' = [phase EXCEPT ![j] = "finish"]
    /\ UNCHANGED <<holds, sessions, adminIntent, idleDeadline, account, woken, jobsRunning,
                   tickVars, outside>>
    /\ Persist

(* The same, when the service left maintenance in the meantime and the     *)
(* transition is refused: the exception leaves the method before the hold  *)
(* and the guard are given back.                                           *)
FinishRefused(j, ok) ==
    /\ at = "free" /\ phase[j] = "driver" /\ lastRun' = [lastRun EXCEPT ![j] = 0]
    /\ IF ok THEN ~MayTransition(state, "running")
             ELSE state # "failed" /\ ~MayTransition(state, "failed")
    /\ EndJob(j, TRUE)
    /\ UNCHANGED <<state, holds, sessions, adminIntent, idleDeadline, account, lockVars,
                   jobsRunning, outside, disk>>

(* The hold is given back; a service woken for the job alone is stopped.   *)
LeaveMaintenance ==
    /\ at = "finish" /\ holds' = RemoveHold(holds, "maintenance")
    /\ jobsRunning' = jobsRunning \ {who}
    /\ LET shutdown == who \in woken /\ who \in ShutdownAfter /\ ~Held(holds')
       IN  /\ idleDeadline' = IF call = "complete" /\ ~shutdown
                               THEN IdleAfter(holds') ELSE idleDeadline
           /\ Goto(IF call = "job_error" THEN "recover"
                   ELSE IF shutdown THEN "stop" ELSE "return")
    /\ UNCHANGED <<state, sessions, adminIntent, account, lastRun, phase, woken, tickVars,
                   outside>>
    /\ Persist

MaintenanceEnds ==
    /\ at \in {"return", "raise"} /\ call \in {"complete", "job_error"}
    /\ EndJob(who, at = "raise" \/ call = "job_error")
    /\ Unlock
    /\ UNCHANGED <<instanceVars, jobsRunning, outside, disk>>

-----------------------------------------------------------------------------
(* reconcile.                                                              *)

(* The holds declared by configuration and by the recorded intent.         *)
FaultyReconciledHolds == [holds EXCEPT !["admin"] = IF adminIntent THEN 1 ELSE @]
ReconciledHolds ==
    [holds EXCEPT !["always_on"] = IF Mode = "always_on" THEN 1 ELSE 0,
                  !["admin"] = IF adminIntent THEN 1 ELSE @]

(* What the recorded state and the driver's answer lead to: the state to   *)
(* record, if any, and where reconciliation continues.                     *)
Findings ==
    CASE state = "stopping" /\ alive -> <<"failed", "adopt">>
      [] state = "stopping" /\ ~alive -> <<"stopped", "return">>
      [] state \in {"starting", "ready"} /\ ~alive -> <<"failed", "settle">>
      [] state \in {"running", "maintenance"} /\ ~alive ->
            <<"failed", IF Held(ReconciledHolds) THEN "recover" ELSE "settle">>
      [] state = "maintenance" /\ alive -> <<"running", "return">>
      [] state \in {"starting", "ready", "stopped", "failed"} /\ alive -> <<state, "adopt">>
      [] OTHER -> <<state, "return">>

ReconcileBegins ==
    /\ holds' = ReconciledHolds /\ Lock("reconcile", Findings[2], Nobody)
    /\ state' = Findings[1]
    /\ UNCHANGED <<sessions, adminIntent, idleDeadline, account, lastRun, jobVars, due,
                   tickJob, restarting, outside>>
    /\ PersistIf(state' # state)

Reconcile == ReconcileBegins /\ UNCHANGED ticker

(* A live runtime is walked up to running, one recorded state at a time.   *)
Adopt ==
    /\ at = "adopt"
    /\ \/ Transition("starting") /\ Goto("adopt")
       \/ state = "starting" /\ Transition("ready") /\ Goto("adopt")
       \/ state = "ready" /\ Transition("running") /\ Goto("return")
    /\ UNCHANGED <<besidesState, threads, outside>>
    /\ Persist

Settle ==
    /\ at = "settle" /\ Transition("stopped") /\ Goto("return")
    /\ UNCHANGED <<besidesState, threads, outside>>
    /\ Persist

(* A held service that is down is launched, unless recovery has given up   *)
(* on it or is waiting for its backoff.                                    *)
FaultyLaunchExhausted ==
    /\ Held(holds)
    /\ \/ state = "stopped"
       \/ state = "failed" /\ nextRestart \in {NoTime, 0}
FaultyLaunchStoppedOnly == Held(holds) /\ state = "stopped"
WantsLaunch ==
    /\ Held(holds)
    /\ \/ state = "stopped"
       \/ state = "failed" /\ ~exhausted /\ nextRestart \in {NoTime, 0}

Converge ==
    /\ at = "return" /\ call = "reconcile"
    /\ \/ /\ WantsLaunch
          /\ Goto("ensure")
          /\ UNCHANGED <<idleDeadline, ticker>>
       \/ /\ ~WantsLaunch
          /\ idleDeadline' = IdleAfter(holds)
          /\ Unlock
          /\ ticker' = IF ticker = "reconcile" THEN "scan" ELSE ticker
    /\ UNCHANGED <<state, holds, sessions, adminIntent, account, lastRun, jobVars, due,
                   tickJob, restarting, outside>>
    /\ PersistIf(at' = "free")

ReconcileFails ==
    /\ at = "raise" /\ call = "reconcile" /\ Unlock
    /\ ticker' = IF ticker = "reconcile" THEN "idle" ELSE ticker
    /\ UNCHANGED <<instanceVars, jobVars, due, tickJob, restarting, outside, disk>>

-----------------------------------------------------------------------------
(* tick: reconcile, then the idle rule, a due recovery and the due jobs,   *)
(* then those jobs one after the other.                                    *)

TickBegins == ticker = "idle" /\ ReconcileBegins /\ ticker' = "reconcile"

FaultyIdleExpired == idleDeadline = 0 /\ state = "running"
IdleExpired == idleDeadline = 0 /\ ~Held(holds) /\ state = "running"
RecoveryDue == state = "failed" /\ nextRestart = 0

TickScans ==
    /\ ticker = "scan" /\ at = "free" /\ call' = "tick"
    /\ at' = IF IdleExpired THEN "stop" ELSE IF RecoveryDue THEN "ensure" ELSE "return"
    /\ nested' = RecoveryDue
    /\ UNCHANGED <<instanceVars, who, polled, threads, outside, disk>>

(* A due job is marked as run before it runs.                              *)
DueJobs == {j \in Jobs \ jobsRunning : IsDue(j)}

TickMarks ==
    /\ at = "return" /\ call = "tick" /\ due' = DueJobs
    /\ lastRun' = [j \in Jobs |-> IF j \in DueJobs THEN 0 ELSE lastRun[j]]
    /\ ticker' = "due" /\ Unlock
    /\ UNCHANGED <<state, holds, sessions, adminIntent, idleDeadline, account, jobVars,
                   tickJob, restarting, outside>>
    /\ PersistIf(due' # {})

TickFails ==
    /\ at = "raise" /\ call = "tick" /\ ticker' = "idle" /\ Unlock
    /\ UNCHANGED <<instanceVars, jobVars, due, tickJob, restarting, outside, disk>>

TickRunsJob(j) ==
    /\ ticker = "due" /\ tickJob = Nobody /\ j \in due /\ due' = due \ {j}
    /\ tickJob' = j /\ BeginMaintenance(j)
    /\ UNCHANGED ticker

(* A job that may not begin raises and abandons the others.                *)
TickJobRefused(j) ==
    /\ ticker = "due" /\ tickJob = Nobody /\ j \in due /\ at = "free"
    /\ ~MayBegin(j) /\ due' = {} /\ ticker' = "idle"
    /\ UNCHANGED <<instanceVars, lockVars, jobVars, tickJob, restarting, outside, disk>>

TickEnds ==
    /\ ticker = "due" /\ tickJob = Nobody /\ due = {} /\ ticker' = "idle"
    /\ UNCHANGED <<instanceVars, lockVars, jobVars, due, tickJob, restarting, outside, disk>>

-----------------------------------------------------------------------------
(* The end of the operations that have nothing left to do.                 *)

CallReturns ==
    /\ at = "return" /\ call \in {"start", "acquire", "notify", "stop", "restart"}
    /\ restarting' = (restarting \/ call = "restart")
    /\ Unlock
    /\ UNCHANGED <<instanceVars, jobVars, ticker, due, tickJob, outside, disk>>

CallRaises ==
    /\ at = "raise" /\ call \in {"start", "notify", "stop", "restart"} /\ Unlock
    /\ UNCHANGED <<instanceVars, threads, outside, disk>>

-----------------------------------------------------------------------------
(* The mode override, the runtime, the clock and the supervisor process.   *)

(* set_lifecycle_mode takes no lock and rewrites its file in place.        *)
SetMode(m) ==
    /\ override' = m /\ modeFile' = Torn
    /\ UNCHANGED <<instanceVars, lockVars, threads, disk, alive, crashes>>

WriteMode ==
    /\ modeFile = Torn /\ override # NoMode /\ modeFile' = override
    /\ UNCHANGED <<instanceVars, lockVars, threads, override, disk, alive, crashes>>

RuntimeExits ==
    /\ alive /\ alive' = FALSE
    /\ UNCHANGED <<instanceVars, lockVars, threads, modeVars, disk, crashes>>

(* One unit of time: deadlines come nearer, past events grow older.  The   *)
(* lock holder takes time only inside the driver, and polls readiness no   *)
(* longer than the startup timeout.                                        *)
Nearer(left) == IF left > 0 THEN left - 1 ELSE left
Older(times) == [k \in DOMAIN times |-> IF times[k] <= Window THEN times[k] + 1 ELSE times[k]]
Elapsed(runs) ==
    [j \in Jobs |-> IF runs[j] \in 0 .. (JobPeriod - 1) THEN runs[j] + 1 ELSE runs[j]]

Advance ==
    /\ \/ at \in {"free", "halt"} /\ UNCHANGED polled
       \/ at = "launch" /\ polled < StartupTimeout /\ polled' = polled + 1
    /\ idleDeadline' = Nearer(idleDeadline) /\ nextRestart' = Nearer(nextRestart)
    /\ restartTimes' = Older(restartTimes) /\ lastRun' = Elapsed(lastRun)
    /\ disk' = [state |-> disk.state, holds |-> disk.holds,
                adminIntent |-> disk.adminIntent,
                idleDeadline |-> Nearer(disk.idleDeadline),
                restartTimes |-> Older(disk.restartTimes),
                nextRestart |-> Nearer(disk.nextRestart),
                exhausted |-> disk.exhausted, lastRun |-> Elapsed(disk.lastRun)]
    /\ UNCHANGED <<state, holds, sessions, adminIntent, exhausted, call, at, who, nested,
                   threads, outside>>

(* The supervisor process dies and is started again: threads, sessions and *)
(* transient holds are gone, the rest is read back (InstanceState.from_dict *)
(* and __init__).  The runtime may survive, if it was recorded.            *)
Crash ==
    /\ crashes < MaxCrashes /\ crashes' = crashes + 1 /\ state' = disk.state
    /\ holds' = [r \in Reasons |-> IF r \in DurableReasons THEN disk.holds[r] ELSE 0]
    /\ sessions' = {} /\ adminIntent' = disk.adminIntent
    /\ idleDeadline' = disk.idleDeadline /\ restartTimes' = disk.restartTimes
    /\ nextRestart' = disk.nextRestart /\ exhausted' = disk.exhausted
    /\ lastRun' = disk.lastRun /\ Unlock /\ phase' = [j \in Jobs |-> "idle"]
    /\ woken' = {} /\ jobsRunning' = {}
    /\ ticker' = "idle" /\ due' = {} /\ tickJob' = Nobody /\ restarting' = FALSE
    /\ override' = IF modeFile = Torn THEN NoMode ELSE modeFile
    /\ alive' \in {alive, FALSE}
    /\ UNCHANGED <<modeFile, disk>>

-----------------------------------------------------------------------------
(* What the holder of the lock does next.                                  *)
HolderStep ==
    \/ Ensure \/ LaunchReady \/ LaunchFails \/ LaunchRuns \/ LaunchEnds
    \/ RecoveryEnds \/ RecoverNever \/ RecoverExhausted \/ RecoverRetries
    \/ StopLocked \/ HaltSucceeds \/ HaltFails \/ HaltEnds
    \/ AcquireFails \/ EnterMaintenance \/ BeginFails \/ LeaveMaintenance
    \/ MaintenanceEnds \/ Adopt \/ Settle \/ Converge \/ ReconcileFails
    \/ TickMarks \/ TickFails \/ CallReturns \/ CallRaises

(* What the periodic tick does next.                                       *)
TickerStep ==
    \/ TickBegins \/ TickScans \/ TickEnds
    \/ \E j \in Jobs : TickRunsJob(j) \/ TickJobRefused(j)

(* The end of a job that the driver runs.                                  *)
JobStep == \E j \in Jobs, ok \in BOOLEAN : FinishMaintenance(j, ok) \/ FinishRefused(j, ok)

(* Callers, administrators and the router.                                 *)
CallerStep ==
    \/ Start \/ StopRefused \/ Restart \/ RestartStarts \/ NotifyFailure \/ Reconcile
    \/ \E force \in BOOLEAN : Stop(force)
    \/ \E s \in Sessions : AcquireSession(s) \/ ReleaseSession(s)
    \/ \E j \in Jobs : RunMaintenance(j)
    \/ \E m \in NewModes : SetMode(m)

EnvironmentStep == WriteMode \/ RuntimeExits \/ Advance \/ Crash

Next == HolderStep \/ TickerStep \/ JobStep \/ CallerStep \/ EnvironmentStep

(* The lock holder keeps running, the timer keeps ticking and gets the     *)
(* lock, time passes, and a driver job comes to its end.  Nothing obliges  *)
(* a caller to act, a runtime to exit or the supervisor to crash.          *)
Fairness ==
    /\ WF_vars(HolderStep)
    /\ SF_vars(TickerStep)
    /\ SF_vars(Advance)
    /\ SF_vars(JobStep)

Spec == Init /\ [][Next]_vars
FairSpec == Spec /\ Fairness

-----------------------------------------------------------------------------
(* Properties that the code has.                                           *)

(* Every session reference is one counted hold and every counted session   *)
(* hold is a reference, through failed launches, forced stops, restarts    *)
(* and crashes (acquire_session, release_session, stop).                   *)
SessionHolds == holds["sessions"] = Cardinality(sessions)

(* What the router may rely on: the references of the sessions whose       *)
(* acquire_session has returned follow SessionLedger, whatever launches,   *)
(* recoveries, forced stops and crashes happen below them; a session whose *)
(* launch failed was never granted, and a single-session service has one.  *)
Granted == IF call = "acquire" THEN sessions \ {who} ELSE sessions
Ledger == INSTANCE SessionLedger
              WITH Callers <- Sessions, Single <- SingleSession, refs <- Granted
ImplementsLedger == Ledger!Spec

(* "Removing one hold never stops a runtime while another remains": no     *)
(* path into _stop_locked takes an active service down while anything      *)
(* holds it, except a forced stop, which clears the holds first.           *)
NoStopWhileHeld == [][state' = "stopping" /\ state # "stopping" => ~Held(holds)]_vars

(* An idle deadline never outlives the arrival of a caller or of a job: a  *)
(* service in use is not about to be stopped as idle.                      *)
IdleMeansUnused ==
    idleDeadline # NoTime => holds["sessions"] = 0 /\ holds["maintenance"] = 0

(* Between operations the state file has the state and the whole recovery  *)
(* account (attempts, next attempt, exhaustion), whichever path the last   *)
(* operation took, so a crash loses nothing that bounds recovery.          *)
RecoveryAccountSaved ==
    at = "free" =>
        /\ disk.state = state
        /\ disk.restartTimes = restartTimes
        /\ disk.nextRestart = nextRestart
        /\ disk.exhausted = exhausted

(* The attempts recorded against the limit never exceed it, also across    *)
(* crashes, explicit starts and launches made for sessions and jobs.       *)
AttemptsBounded == Len(restartTimes) <= MaxRestarts /\ Len(disk.restartTimes) <= MaxRestarts

(* Once recovery is exhausted, nothing but a demand (an explicit start, a  *)
(* session, a job) launches the failed service again; a runtime that is    *)
(* found alive is adopted, not launched.                                   *)
ExhaustedStaysDown ==
    [][exhausted /\ state = "failed" /\ state' = "starting"
         => at = "adopt" \/ call \in {"start", "acquire", "begin"}]_vars

(* A reconciliation that completes leaves a state it can stand by: never a *)
(* transient one, a held service running unless recovery gave up or waits. *)
ReconcileSettles ==
    [][call = "reconcile" /\ at = "return" /\ at' = "free" /\ crashes' = crashes
         => \/ state' = "running"
            \/ state' = "stopped" /\ ~Held(holds')
            \/ state' = "failed" /\ (Held(holds') => exhausted' \/ nextRestart' > 0)]_vars

(* A job that the driver is running is not started a second time, by a     *)
(* tick or by an operator, until its thread is gone.                       *)
JobNeverTwice ==
    [][\A j \in Jobs : phase[j] # "idle" /\ phase'[j] = "begin" => phase[j] = "begin"]_vars

(* Every maintenance hold belongs to a job marked as running, so that a    *)
(* service cannot be kept up by jobs that the guard no longer knows of.    *)
MaintenanceHoldsMarked == holds["maintenance"] <= Cardinality(jobsRunning)

(* An unheld on-demand service that is up is eventually stopped, unless    *)
(* something comes to hold it or it fails.                                 *)
IdleStops ==
    (Mode = "on_demand" /\ ~Held(holds) /\ state \in ActiveStates)
        ~> (state \in {"stopped", "failed"} \/ Held(holds) \/ Mode = "always_on")

(* An always-on service that is down is launched again, unless recovery is *)
(* exhausted, the mode is changed or one more failure is reported, which   *)
(* starts the backoff anew.                                                *)
AlwaysOnRetried ==
    (Mode = "always_on" /\ state \in {"stopped", "failed"})
        ~> (at = "launch" \/ state \in ActiveStates \/ exhausted \/ Mode = "on_demand"
            \/ call = "notify")

(* "No infinite loop is hidden": every operation gives up the lock, also   *)
(* when every launch fails.                                                *)
OperationEnds == at # "free" ~> at = "free"

-----------------------------------------------------------------------------
(* A statement of the documentation that the code does not keep.           *)

(* docs/SUPERVISOR.md: a maintenance job "releases only that hold"; once   *)
(* no job runs, no maintenance hold and no running mark is left.           *)
MaintenanceReleased ==
    (\A j \in Jobs : phase[j] = "idle") => holds["maintenance"] = 0 /\ jobsRunning = {}

=============================================================================
