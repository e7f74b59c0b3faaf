# A TLA+ verification of Ultimate BBS Box

Ultimate BBS Box runs bulletin board systems, real and emulated, behind one
control plane. This directory holds TLA+ models of its core, the TLC
configurations that check them on small instances, and TLAPS proofs that hold
for every value of their constants. `PROJECT.json` is the index: which lines
each definition models, which run checks which property, and what was found.

    tlc -workers 2 -config SupervisorHolds.cfg MCSupervisor
    tlapm SupervisorProofs.tla

## The system

| Part | Source | State it keeps | Operations |
|---|---|---|---|
| Archive (M1) | `scripts/ubb_archive.py` | content-addressed objects, metadata, locks, quarantine files, bundles | import, derive, verify, export |
| Registry (M2) | `scripts/ubb_registry/` | none after loading | load, resolve, query |
| Supervisor (M3) | `scripts/ubb_supervisor/` | one `InstanceState` per service, `instances/<id>.json`, `lifecycle-overrides.json`, the journal | start, stop, restart, sessions, maintenance, notify_failure, reconcile, tick |
| Router (M4) | `scripts/ubb_router/` | sessions, their streams and holds | open, close, read, write, handoff |
| Runtime adapters (M5) | `scripts/ubb_runtime/` | processes, PTYs, the recorded process identity | prepare, start, status, stop, connect |
| Integrations | `scripts/ubb_integrations/`, `integrations/` | releases, living data, disk images, pointer files, reports | prepare, install, promote, rollback, qualify |
| Administration | `scripts/ubb_admin/` | login failures, users, sessions, audit log | login, logout, actions |
| Monitoring | `scripts/ubb_monitoring/` | active and cleared alerts | evaluate |
| Dashboard, observatory | `scripts/ubb_dashboard.py`, `scripts/ubb_observatory/` | none of their own | render, collect |
| Backup, deployment | `scripts/ubb_backup/`, `scripts/ubb_deployment/` | payloads and manifests; deployed trees | create, list, verify, restore; materialize, verify |
| DOS runtimes | `scripts/ubb_dos.py`, `scripts/ubb-dos-serial-qualify.py` | node leases, provisioned trees, serial records | allocate, release, provision, extract, qualify |
| Network services | `scripts/ubb_{mail,ftn,news,irc,edge,exchange,network}.py` | none | validate, render |

**How the parts meet.** The registry's declarations parametrise everything. The
router calls the supervisor's `acquire_session` and `release_session`; the
administration and the command line call its other methods; a systemd timer
calls `tick` every 30 seconds. The supervisor calls one runtime adapter per
service through a driver. The supervisor and the router share no memory: what
connects them is the session reference, which the supervisor hands out, counts
as a hold, and may drop (forced stop, restart, crash).

**What is hard.** Callers, administrators, maintenance jobs and ticks interleave
around a per-service lock that is given up while a job runs. Launches take time
and fail, recovery retries them inside the operation that needed them, and the
account that bounds recovery must survive a crash between any two writes of the
state file. In the router every setup step may fail, cleanup may fail too, a
session's lock and its parent's are never held together, and the supervisor may
drop a reference at any moment. The other parts have their own: a process
recorded after it is spawned, directories moved in several steps, leases
guarded in memory and on disk, lockouts at the edge of a window. `hazards` in
`PROJECT.json` lists each at its line.

**What makes each part correct.**

* Supervisor: references and holds agree; nothing held is stopped; recovery is
  bounded and its account is durable; every operation ends; an unused service
  is stopped and an always-on one comes back; a job does not run twice.
* Router: only authorized routes are opened; a hold lives exactly as long as
  the session it serves; control returns to the parent.
* Runtime adapter: only a process with a proven identity is adopted or killed,
  and there is one.
* Archive: one writer to an identifier, what is published verifies, what was
  exported stays.
* Integrations: what is selected is complete, what is promoted was approved,
  living data stays as the BBS left it.
* Backup, deployment, preparation, provisioning: a crash or an overlap leaves
  the old or the new content, never a mixture that passes for either.
* Administration: guessing passwords is slowed down also in parallel; the audit
  log tells what happened, once.
* Monitoring: overlapping evaluations converge to the conditions that hold.
* Registry: its two judges agree, and a loaded catalogue answers.
* DOS: two callers never share a node; a PASS rests on what the guest said.

## Modules

| Module | Contents |
|---|---|
| `Lifecycle` | the lifecycle states and their transition graph (`state_machine.py`) |
| `Supervisor` | the supervisor of one service, its driver, its state file, crashes, time |
| `SessionLedger` | what the supervisor promises the router about session references |
| `Router` | sessions, handoffs and holds |
| `Runtime` | the process adapter: spawn, identity, adoption, stop, terminals |
| `Archive` | import, derivation and export by processes that may be killed |
| `Integrations` | installation of Mystic and of the Amiga products, promotion, rollback |
| `Preparation` | preparation of Amiga media and the report about it |
| `Backup` | create, list, verify, restore |
| `Deployment` | materialize and verify |
| `DosRuntime` | provisioning of the DOS stack and extraction of FreeDOS |
| `NodeAllocator` | the pool of DOS nodes and the sessions that use it |
| `SerialQualify` | the serial qualification harness and its guest |
| `LoginThrottle` | the login form under concurrent attempts |
| `AdminActions` | accounts, web sessions, administrative requests, the audit log |
| `Alerts` | overlapping evaluations of the alerts file |
| `Registry` | the two checks of a catalogue and the queries on it |
| `MCSupervisor`, `MCRouter`, `MCRuntime`, `MCArchive`, `MCIntegrations`, `MCHost` | instances for TLC |
| `SupervisorTypes`, `SupervisorProofs` | proofs about `Supervisor`, and that it implements `SessionLedger` |
| `RouterProofs`, `RuntimeProofs`, `ArchiveProofs`, `IntegrationsProofs` | proofs about those modules |
| `DeliveryProofs` | proofs about `Deployment`, `Backup` and `Preparation` |
| `HostProofs` | proofs about `NodeAllocator`, `DosRuntime`, `SerialQualify`, `Registry`, `AdminActions`, `LoginThrottle`, and the types of all services of `MCHost` |

Definitions named `Faulty...` are seeded mistakes in the definition that
follows them. No specification uses them: each one, put in place of the right
definition, makes TLC find the property it is meant for violated.

### Supervisor

The first group of variables is `InstanceState`: `state`, `holds` (a count per
reason), `sessions`, `adminIntent`, `idleDeadline`, and the recovery account
`restartTimes`, `nextRestart`, `exhausted`. `disk` is the persisted snapshot,
which omits sessions and transient holds as `to_dict(persist=True)` does.

An operation under the service's lock is a small program: `call` names it, `at`
is its program counter, `"free"` when nobody has the lock. A step reaches from
one write of the state file to the next, so `Crash` can fall between any two.
`_ensure_running_locked` and `_restart_after_failure_locked` call each other;
their recursion is the loop ensure, launch, recover, and the two ways out,
`"return"` and `"raise"`, are interpreted by the operation that started it.
The parts that run *outside* the lock have their own variables: `phase` (a
maintenance job in the driver), `ticker`/`due`/`tickJob` (the tick between its
critical sections), `restarting` (an administrator between the stop and the
start of `restart`), `modeFile` (the override file while it is rewritten).

Time is relative: a deadline is the time left, a past event an age; `Advance`
moves all of them, on disk as in memory, so no clock value grows without bound.
Ages stop at the point from which they make no difference any more. Time passes
while the lock is free and while the holder is inside the driver; a readiness
poll takes at most `StartupTimeout`.

External and nondeterministic: whether a launch becomes ready or fails, whether
a halt succeeds, whether a job succeeds, when a runtime exits, and whether the
runtime outlives a crash of the supervisor.

Not in the model: the journal `events.jsonl` (never read back); daily
schedules (only intervals); the public `transition()` and `start` with other
reasons, which nothing but tests calls; I/O errors of the state file and drivers
that cannot be resolved; the loop over several services.

One writer is assumed, as `docs/SUPERVISOR.md` does ("M3 supports one
supervisor writer process"). The one-shot `tick` of the systemd unit is a
supervisor that reloads the file, ticks and exits, that is, a `Crash` followed
by the steps of a tick; the proofs hold for any number of those. A dashboard
that has its own `Supervisor` beside the timer is outside this assumption, and
is listed as a hazard.

### Router

Each session has `state`, `target`, `origin`, `parent` and the handoff `mode`;
`stream`, `held` (has a `lifecycle_session_id`) and `released` (`hold_released`)
are its resources. `call[s]` is the thread that opens `s` (which keeps the lock
of `s`) or that has still to finish the handoff that opened it; `restoring` is
the set of closed children whose parent has yet to be restored. `closing` is
folded into the step of `close_session`: the lock is kept from its first change
to its last, and the only states it can end in are `closed` and `failed`. `read`
and `write` change a session only by closing it. `refs` stands for the
supervisor: the references it has granted, with the steps that `SessionLedger`
allows, and `ForceStop` the ones it drops.

Not in the model: terminal metadata, bytes, the journal, the queries of the
catalogue, and the route types
that `RoutePolicy` refuses by their shape alone.

### SessionLedger, the interface between the two

`Supervisor` implements it under the mapping `Granted`: a reference counts from
the return of `acquire_session`, since a launch that fails takes back what it
added. `Router` uses the same steps on `refs`. The two halves are checked
separately: what the router may assume of the supervisor is exactly what
`LedgerImplemented` proves that the supervisor does.

### Runtime

`procs` is the process table: each process has its start ticks, its kind
(a runtime of this service or anybody else), its state, and whether its
executable can be read and is still the one recorded at its start (`exe`). `own` is the child of
the living adapter (`_processes`), `record` the identity in `RuntimeRecord`,
`saved` what the supervisor's state file has of it, `master` the terminal in the
table, `leaked` the terminals that nothing refers to any more. `Spawn`,
`SpawnFails` and `BecomesReady` are `start`; `Stop`, `Terminate`, `Poll`, `Kill`
and `Wait` are `stop`, which ends in `Cleanup` unless it raises; the supervisor
makes both calls under the service's lock and writes the record afterwards
(`Save`). A child is asked with `poll()`; an adopted process must have number,
start and executable of the record (`Proven`). `Exit` and `ForeignStart`
are the operating system, which gives a free number to anybody; `Execs` is a
runtime that executes another program, or whose program an upgrade replaces.
`Crash` loses everything but `saved`; a live runtime that `saved` does not know
is from then on in `orphans`, and so is an adopted one that `start` or `stop`
finds with another executable. `since` and `hit` are history: when the stop in progress looked at
its victim, and which process was signalled last.

### Archive

`objects`, `metadata`, `locks`, the quarantine files and `exports` are the
directory; `job[p]` is where process `p` is. `Import` and `Derive` begin
`preserve_stream`, whose steps are `TakeLock`, `OpenPart`, `Stream`, `Store`,
`Seal`, `Inspect`, `Publish` and `Cleanup`, one for each change of the directory
that another process can see; `BeginExport` and `FinishExport` are
`export_bundle`. A lock file refuses the import that finds it, also when the
process that made it was killed. A content is named by its digest, rights are
the set of what they permit. `Crash` kills a process between any two steps and
leaves its files.

### Integrations and Preparation

`Integrations` has one installation root, of Mystic or of an Amiga product, and
processes that install, promote and roll back there. For Mystic: the releases
that are in place, the link `current`, the temporary link whose name all
processes share, and where each item of the living data comes from. For the
Amiga products: the golden image, which is copied in place, and the working
image, which is copied and renamed. For AmiExpress: the qualification of each
release, the pointer file and its temporary file, again with a shared name.
`overlapped` and `approved` are history. `Preparation` has several roots, one
archive, and what `prepare` does before an installation: it verifies the
original, extracts it, fills the workspace and registers the derived tree;
`qualify` judges the outcome.

### Services of the host

Ten modules have no state in common. `MCHost` runs one of them at a time,
chosen by `part` in the initial state, so that one run covers all of them
without their product.

* `Backup`: each backup has the files staged so far, its payload, the two
  manifests (absent, torn, whole) and where `create` is. `Edit` changes the
  living state in the middle of a creation, `Rot` damages a payload, also while
  it is restored; `restore` checks the payload or is told `verified=True`.
* `Deployment`: objects that may be damaged, lost and repaired at any time, also
  between hashing and copying, calls of `materialize` between their checks and
  the rename, targets whose files may be edited. `struck` and `tainted` are
  history.
* `DosRuntime`: the steps of `provision_runtime` on build trees, prefix and
  marker; overlapping calls of `materialize_freedos` on one image.
* `NodeAllocator`: the owner of each node, the node each session was told, and
  releases that come late or twice and with or without the session's name;
  `robbed` is history.
* `SerialQualify`: the harness from boot to PASS, FAIL or a traceback, the guest,
  the wire, and the records that earlier runs left in the directory and in the
  image.
* `LoginThrottle`: the table in the order of eviction, failures and lockouts per
  user and per source, and threads between question, verification and report.
* `AdminActions`: accounts, sessions by token, requests from receipt to answer,
  the calls each one has made, and the log.
* `Alerts`: the conditions, `alerts.json`, the shared `alerts.tmp`, and
  evaluators between loading and replacing.
* `Registry`: a catalogue and its examples, which operators change, the verdict
  of `ubb-schema` on both and of `load_registry` on the three directories it
  reads, and the queries of a loaded registry.
* `Preparation`, described above.

## Runs

Every passing run finishes within five minutes on two workers. Deadlock is
checked for the supervisor, which always has a tick to make; everything else may
stop when its callers do and the bounded identities are used up.

| Run | Instance | Shows |
|---|---|---|
| `supervisor_holds` | 2 sessions, both modes, 1 restart, 1 crash | `SessionHolds`, `IdleMeansUnused`, `RecoveryAccountSaved`, `NoStopWhileHeld`, `ExhaustedStaysDown`, `ReconcileSettles` |
| `supervisor_maintenance` | 2 sessions, single-session service, 2 jobs (one wakes and shuts down), 1 crash | `JobNeverTwice`, `ImplementsLedger` |
| `supervisor_liveness` | 1 session, always-on and switched to on-demand, backoff, 1 crash | `IdleStops`, `AlwaysOnRetried` (liveness) |
| `supervisor_recovery` | launches that take time, window 2, limit 2 | `OperationEnds` (liveness) |
| `maintenance_leak` | 1 session, 1 job | `MaintenanceReleased` violated, see below |
| `router_safety` | 3 sessions, a BBS and a single-session shell, 1 forced stop | `HoldsMatchSessions`, `RouteAuthorized`, `HandoffPending` |
| `router_liveness` | 3 sessions, 1 service reachable from itself, 1 forced stop | `OpenEnds`, `ControlReturns` (liveness) |
| `runtime` | 2 process numbers, 3 processes, 1 crash, 1 leaked terminal | `OneRuntime`, `TerminalIsCurrent`, `FailsClosed`, `StopEnds` (liveness) |
| `archive` | 2 processes, 2 identifiers, 2 contents, 1 crash | `ExclusiveWriter`, `PublishedVerifies`, `BundleKept`, `WorkEnds` (liveness) |
| `archive_history` | the same | `HistoryKept` violated, see below |
| `integrations` | 2 processes, 3 releases (2 of them development), 1 directory item, 1 file item, 1 crash | `CurrentInstalled`, `PointersApproved`, `LivingDataKept` |
| `host` | the services one at a time, bounds below | `HostTypeOK` and, per service, `ListedIsWhole`, `VerifiedIsPreserved`, `MarkerMeansBuilt`, `NodeExclusive`, `FailuresBounded`, `AuditFaithful`, `ChecksAgree`, `LoadedAnswers`, `PassIsEvidenced`, `TreeIsDelivered`, `SerialEnds`, `HostAlertsConverge` |

Type invariants and properties that the theorems below establish for every value
of the constants, and that no run needs to repeat, are not in the
configurations; each was an invariant of these runs before it was proved.

**Bounds.** Two sessions are enough for one to arrive while another leaves and
for the sharing rule to bite; two jobs for one to overtake another; one crash,
because what follows a crash depends only on what is on disk, and a second crash
finds nothing a first one does not (the proofs remove this bound). Times are the
least that keep a deadline, its expiry and the state in between apart: idle 1,
backoff 1, window 1 or 2. `StartupTimeout` is 0 where the duration of a launch does
not matter. Three router sessions give a parent, its child and either a
grandchild or a second child. Two process numbers and three processes let a
number be used again while the adapter still knows it, and a second runtime meet
an adopted one. Two archive processes,
identifiers and contents give two writers of one identifier, one object under
two identifiers, and a derived artifact with its parent; two installers and three
releases give an overlap in which the loser's release is neither the old nor the
new one. In `HostServices.cfg`: two backups of two files, so that one can be
edited behind the copying; two artifacts (one not installable), targets and
materializers; two extractions; four callers on two nodes, so that a released
node finds a new owner before the late release; one user from two sources in
three threads, a table of two entries for three keys, a clock that outlasts the
first lockouts; two requests and one token that can expire and be given again;
two conditions that change three times under two evaluators, retention one; four
manifests, the least for a service with endpoint and integration beside another,
one of which may be among the examples;
three serial runs, so that evidence of one mode can be met by another; two
preparations and two roots. Interchangeable sessions and installers are used as
symmetries in safety runs; liveness is checked without symmetry.

**Fairness.** Supervisor: the thread that has the lock runs on (weak fairness of
its steps); the timer keeps ticking, time passes and a driver's job ends, each
strongly fair, because a thread that waits for a lock which is free again and
again does get it. Nothing obliges callers to act, runtimes to exit or the
supervisor to crash. Liveness is about a supervisor that goes on living, or is
reloaded finitely often. Router: a thread inside the router goes on; its
acquisitions and connects are bounded by their timeouts. Runtime: a call goes on,
since each wait in it has a deadline, and a process that got SIGKILL dies; one
that got SIGTERM need not. Archive: a process runs until it ends or is killed.
Alerts: each evaluator evaluates again and again, by its one-minute timer. Serial
harness: it goes on, since each of its waits has a deadline; the guest need not.

### Disagreements with the documentation

Two runs state a sentence of the documentation, and TLC finds a behaviour of the
code that breaks it; `findings` quotes both sides. `maintenance_leak`: a
`reconcile` during a job makes the transition at the job's end illegal, and hold
and running mark stay. `archive_history`: two imports of one identifier both find
it free before either takes the lock, and the second replaces the first one's
metadata.

Others were met while modelling and have no run of their own.

* Supervisor. A recovery that `reconcile` completes (`supervisor.py:403`) leaves
  the recovery hold on the running service, which then never becomes idle
  (`docs/SUPERVISOR.md:30`: "a pending/restarting runtime"). The same line
  launches a failed held service on every pass although its policy is `never`
  (`SUPERVISOR.md:60`). With window and startup timeout both 60 s, attempts age
  out as fast as they are made (line 265): the limit is never reached and the
  operation keeps the lock ("no infinite loop is hidden"); `supervisor_recovery`
  therefore has a window that is long enough. The hold that `reconcile` installs
  does not clear the idle deadline (line 366, against "A new hold clears it"),
  which is why `IdleMeansUnused` speaks of sessions and jobs only. A refused
  `stop` changes the intent in memory and not on disk (line 184), which is why
  `RecoveryAccountSaved` leaves the intent out.
* Router. Closing an earlier, failed child reactivates a parent that hands off
  to another (`router.py:183`, against `docs/ROUTER.md:79`, "Only one handoff may
  be outstanding from a parent"). A child whose reference was dropped can never
  be closed, and its parent never gets control back (line 170, `ROUTER.md:81`),
  which is why `ControlReturns` is about children that do close. A release that
  raises inside the error path of `open_session` (line 137) leaves a session in
  `connecting`, from where it cannot be closed.
* Runtime. `stop` does not wait for an adopted process after SIGKILL
  (`adapters.py:195`; `docs/RUNTIMES.md:73` has it wait). An adopted runtime whose
  executable has changed is taken for dead (157-158): `start` spawns a second one
  beside it, and `stop` reports success and forgets it; `OneRuntime` and
  `StopEnds` name exactly this exception. `DOSAdapter` reads
  `dos_backend`, which its `ALLOWED_FIELDS` refuse (259-263). `/proc/<pid>/stat`
  is split at blanks (106), so a name with a blank shifts the fields.
* Archive. A lock whose process was killed refuses the identifier until somebody
  removes it.
* Integrations. Mystic's `bundled.rmdir()` (148) raises when the living data
  already has an entry of the directory, so a second release that bundles it
  cannot be installed. Overlapping installations can replace a working image
  that is in use (`ubb_integrations/amiga.py:55`ff), and a golden image torn by a
  crash is taken for the qualified one (`amiexpress/integration.py:261`).
  Promoting the current release again makes it its own predecessor, so the way
  back is lost (`docs/TIER1-HARDENING.md:39`). `hardening.py:89` hashes the live
  file after copying it.
* Preparation. A second root finds the derived tree and returns with an empty
  workspace; a damaged derived tree can never be prepared again, and a
  preparation that was begun over it and killed leaves a half-copied workspace,
  which the repaired tree then vouches for; the tree is registered before the
  original is hashed a second time.
* Deployment. `tree_sha256` is taken of the copy (`manager.py:43`) and never
  compared with `artifact_sha256`. An object damaged between `_metadata` and the
  copy therefore gives a deployment that `verify` accepts as soon as the archive
  is repaired: the exception `tainted` of `VerifiedIsPreserved`.
* Registry. `ubb-schema` reads all of `catalog/`, `load_registry` only
  `services`, `endpoints` and `integrations` (`ubb_schema.py:42`,
  `loader.py:16`). A service whose endpoint only `catalog/examples` has passes the
  first and fails the second, an identifier used again in an example the other
  way round; and with paths as arguments `ubb-schema` checks no references
  (`ubb-schema.py:29`). `ChecksAgree` says what is left.
* Backup. The manifests are written in place, though `docs/BACKUP.md` says
  "atomically publishes"; that a service is stopped is tested only when `create`
  begins; `restore(..., verified=True)` extracts without a check (`manager.py:78`),
  and one with a check opens the payload again after hashing it, so that
  `RestoredIsBackup` has to except both; and the observatory looks for `backup*/backup-manifest.json`, which is
  not what the directories are called.
* DOS. A FreeDOS image torn by a crash is reported as already present
  (`ubb_dos.py:540`). `release(node)` without a session frees the node whoever
  has it (231), as a test does, so that a late one makes two callers share it:
  the exception `robbed` of `NodeExclusive`. A SELFTEST may pass on the record of an earlier run, and so
  may the record judged after an EXCHANGE whose guest was stopped before it wrote
  its own: `PassIsEvidenced` says what does hold. Without an image the guest
  writes to D: while the harness looks into `drive_c`. With an image, a guest that
  outlives SIGTERM by three seconds (158, 188) or leaves no record (55) ends the
  harness in a traceback, since `main` catches neither `TimeoutExpired` nor
  `CalledProcessError`: `SerialEnds` allows this for runs with an image only.
* Login. An expired lockout drops its count, so that one attempt after another
  never meets more than the first delay; only parallel attempts do. The seconds
  left are rounded, so that a request in the last milliseconds of a lockout may
  pass; the clock of `LoginThrottle` is coarser than that.
* Exchange. `PacketManifest` (`ubb_exchange.py:40`) has a field without default
  after one with a default.

## Proofs

Every theorem is about the module's specification and any constants that satisfy
its assumption: any processes, releases, identifiers and nodes, any number of
crashes, and for the supervisor any declaration and any finite sets of sessions
and jobs.

**Supervisor** (`SupervisorTypes`, `SupervisorProofs`).

* `TypeCorrect`: `TypeOK` is inductive. The work is in the sequences (`Prior` is
  a suffix of the attempts) and in the snapshot on disk, which every `Persist`
  must rebuild inside its type.
* `SessionsHeld`: the count of session holds is the number of references. Not
  inductive alone: `SessionInv` adds that the session being acquired has its
  reference, so that a failing launch takes back one that exists, and that a
  free lock has no operation.
* `HoldsMarked` (a maintenance hold belongs to a job marked as running),
  `IdleUnused`, `RecoveryBounded` (never more attempts than the limit, in memory
  or on disk) are inductive with `TypeOK`.
* `AccountOnDisk`: the state file has the state and the recovery account
  whenever the lock is free. `AccountInv` extends this to every step under the
  lock, with one exception that the proof brought out: an explicit start of a
  failed service that the administrator already holds forgives the failures
  without saving, and the next step, the transition to starting, saves.
* `HeldNeverStopped`: no step takes a held service to stopping. `StopInv` says
  that control reaches `_stop_locked` only when nothing holds the service; the
  reconciliation of a service found in `stopping` after a crash needs
  `AccountInv` as well.
* `LedgerImplemented`: `Spec => Ledger!Spec`. `LedgerInv` adds that a
  single-session service never has two references, the pending one included.
* `JobsRunOnce`: `JobInv` says that a job with a thread is marked in
  `jobsRunning`, except under the lock at its very end, where the mark is given
  back before the recovery or the stop that follows; a job begins only with a
  mark that its caller has just made.
* `ExhaustionRespected`: `ExhaustedInv` says that an exhausted account has no next
  attempt, in memory and on disk, so that neither a due recovery nor a
  reconciliation leads an exhausted service to the launch that they share with
  the demands.
* `ReconciliationSettles`: `PointInv` gives the recorded state at each point of
  the lock holder's program; at its return a reconciliation has a state at rest
  and, by the guard of that step, nothing left to launch.

**Router** (`RouterProofs`). `ShapeInv` adds to `TypeOK` which stream, hold and
thread a session has in each state, and gives `RouterTypes`. `HoldInv` says that
a reference belongs to a session that has not released it, so that the step that
ends the session finds it due: `HoldsAreExact`. `RoutesAuthorized` needs that
what a born session asked for never changes and that a stream once connected
stays so. `ReplacedAreClosed` (when a replacing handoff is over, its parent is
closed or has failed to close) follows with `ShapeInv`, and `HandoffsPending`
from both: whoever ends the wait of a parent is its child's thread.

**Runtime** (`RuntimeProofs`). `IdentityInv`: start ticks name at most one
process; what `own`, `record` and `saved` say of a number is true of the process
with those ticks if there is one; a live runtime that is not among the orphans is
known to `own` or to `record`, and there are no orphans before the first crash;
and while a stop is in progress its victim is the
process it looked at, or came after. It gives `RuntimeTypes`, `RuntimeIsAlone`,
`TerminalsAreCurrent` and `SignalsFailClosed`.

**Archive** (`ArchiveProofs`). `LockInv` ties each writer to its lock file:
`WritersExclude`. `ObjectInv` says that a job past the link, its parents and each
bundle have their objects, and that an export was permitted when it began:
`PublicationsVerify`, `BundlesPermitted`; no step removes an object.
`BundlesKept` is a property of the steps alone.

**Integrations** (`IntegrationsProofs`). `TypeInv` gives each job the fields of
its stage: `InstallTypes`. `LinkInv`: whoever is about to make the link, and
whatever waits under the shared name, has its release in place
(`CurrentIsInstalled`). `PointerInv`: the same for what is about to be written to
the pointer file (`PointersAreApproved`). `AloneInv`: while nobody has overlapped,
at most one process is at work, and what it found absent is still absent
(`LivingDataIsKept`).

**Deployment, backup, preparation** (`DeliveryProofs`). `TreeInv`: a call
that has yet to copy and was not struck has its object as it was hashed, and what
it has copied or published is preserved unless it was struck
(`VerifiedArePreserved`, `DeploymentsKept`). `PayloadInv`: what a manifest
announces is complete and stays as it is, and the files that a checked restore
has done are those of its backup (`ListedAreWhole`,
`RestoresAreWhole`). `DeliveredInv`: a preparation alone has
filled its workspace before the archive vouches for the tree
(`TreesAreDelivered`). `GroundedInv`: lineage is never unmade
(`ReportsAreGrounded`).

**Services of the host** (`HostProofs`).

* DOS. `NodeInv`: a live session that was not robbed owns the node it was told
  (`NodesExclusive`).
  `ProvisionInv`: what a provisioning has finished at each step is whole and of
  this call (`MarkersMeanBuilt`, `BuildsAreFresh`). `EvidenceInv`: past the reply
  the guest has answered, and nothing is read beside a live guest
  (`PassesAreEvidenced`, `ImagesAreQuiet`).
* Registry. `ChecksAlwaysAgree` needs no invariant beyond the shape of a
  manifest: with unique identifiers, the document that a check finds by its
  identifier is the one that bears it, and so the two programs ask the same;
  a catalogue that passes with its examples and does not refer to them passes
  without them (`WithoutExamples`).
  `LoadedInv` (a loaded registry is that of an accepted catalogue) gives
  `LoadedRegistryAnswers`.
* Requests. `AuditInv` says, of a request at each of its stages, which calls it
  has made and that its role allowed them, and of each record that its request
  is past the log; so appending a record never makes a second one, and a success
  is appended only after the last call: `AuditIsFaithful`.
* Throttle. `FailuresBounded` is not inductive: a failure may be counted to a
  key that is at the bound already, unless the threads that can still fail are
  counted too. `ThrottleInv` bounds the sum of a key's failures and of the
  threads past the throttle for that key, and `CleanupKeys` shows that a key that
  lets a thread pass has at most three failures: `FailuresStayBounded`.
* `HostTyped`: `HostTypeOK`, from the invariants of all ten services side by side
  (`HostInv`) and the fact that a step of the host is a step of one of them.
  The type of the throttle's table needs what popping keys (`Without`) returns;
  `WithoutType` proves it by induction in the form that these provers accept,
  over a set of naturals (`SetInduction`, from the well-foundedness of the
  naturals), after `RestExists` has shown that the recursive function exists.

Only model-checked: everything under fairness, which like `ENABLED` is beyond the
prover (`IdleStops`, `AlwaysOnRetried`, `OperationEnds`, `OpenEnds`,
`ControlReturns`, `StopEnds`, `WorkEnds`, `SerialEnds`, `HostAlertsConverge`).
Every invariant and every action property of the runs is a theorem. What `Without`
and the filtering in `Alerts` compute, beyond the type, is not proved either.

## Not modelled

* Supervisor: the journal (never read back), daily schedules, the loop over
  several services, in which one that raises ends the pass (`supervisor.py:360`),
  and two processes on one state directory, which the documentation excludes and
  the dashboard beside the timer nevertheless is (`ubb_dashboard.py:222`).
* Runtime: readiness probes, maintenance commands, configuration, bytes.
* Archive: downloads, listings, initialisation. Integrations: extraction,
  emulator configuration, the checks behind a qualification status.
* Administration: hashing, cookies, password files on disk, a torn audit log
  (`audit.py:64`), and accounts changed by two commands at once (`auth.py:108`).
* DOS: rendered configuration and drop files. `recover_stale` is called with the
  sessions that live at that moment, as its tests do.
* The observatory, the network services (mail, FTN, news, IRC, edge, exchange),
  the dashboard's pages and the command line read, validate and render in one
  pass. They keep no state that steps could disturb, so there is nothing for a
  state machine; systemd units and playbooks are configuration.

## Plan

Done: the core (`Lifecycle`, `Supervisor`, `SessionLedger`, `Router`), the
runtime adapter, the storage that has to survive crashes and overlaps, the
services of the host, and the proofs above. What would add most now:

1. `RouterSupervisor`: the router composed with the ledgers of several services
   and with crashes of the common process.
2. `SupervisorLoop`: reconcile and tick over several services, and two processes
   on one state directory.
3. Theorems: that the throttle's table holds exactly the keys with failures, and
   that the cleared alerts stay within their retention.
