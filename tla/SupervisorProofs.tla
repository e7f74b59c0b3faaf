-------------------------- MODULE SupervisorProofs --------------------------
(***************************************************************************)
(* Safety of the supervisor of one service, for every set of sessions and  *)
(* jobs and every setting of the lifecycle declaration.                    *)
(***************************************************************************)
EXTENDS SupervisorTypes

(* What the operations on the counts do to the counts.                     *)
LEMMA HoldEffects ==
    ASSUME NEW h \in [Reasons -> Nat], NEW r \in Reasons
    PROVE  /\ AddHold(h, r)[r] = h[r] + 1
           /\ RemoveHold(h, r)[r] = IF h[r] <= 1 THEN 0 ELSE h[r] - 1
           /\ DropHold(h, r)[r] = 0
           /\ \A q \in Reasons \ {r} : /\ AddHold(h, r)[q] = h[q]
                                       /\ RemoveHold(h, r)[q] = h[q]
                                       /\ DropHold(h, r)[q] = h[q]
                                       /\ SetHold(h, r)[q] = h[q]
  BY DEF AddHold, RemoveHold, DropHold, SetHold

-----------------------------------------------------------------------------
(* Session references and session holds.  The count is inductive once the  *)
(* session being acquired is known to be among the references.             *)
SessionInv ==
    /\ SessionHolds
    /\ call = "acquire" => who \in sessions
    /\ at = "free" => call = "none"

(* How adding or removing a reference changes the number of references.    *)
LEMMA SessionCount ==
    ASSUME TypeOK, NEW s \in Sessions
    PROVE  /\ Cardinality(sessions) \in Nat
           /\ s \notin sessions => Cardinality(sessions \cup {s}) = Cardinality(sessions) + 1
           /\ s \in sessions => Cardinality(sessions \ {s}) = Cardinality(sessions) - 1
<1>1. IsFiniteSet(sessions)
  BY SupervisorAssumption, FS_Subset DEF TypeOK, InstanceTypeOK
<1> QED  BY <1>1, FS_CardinalityType, FS_AddElement, FS_RemoveElement

(* Every step keeps holds and references equal.                            *)
LEMMA SessionStep == TypeOK /\ SessionInv /\ [Next]_vars => SessionInv'
<1> SUFFICES ASSUME TypeOK, SessionInv, [Next]_vars PROVE SessionInv'
  OBVIOUS
<1> USE DEF SessionInv, SessionHolds
<1>t. holds \in [Reasons -> Nat] /\ at \in Points
  BY DEF TypeOK, InstanceTypeOK, HolderTypeOK
<1>e. /\ \A r \in Reasons \ {"sessions"} : /\ AddHold(holds, r)["sessions"] = holds["sessions"]
                                           /\ RemoveHold(holds, r)["sessions"] = holds["sessions"]
                                           /\ DropHold(holds, r)["sessions"] = holds["sessions"]
                                           /\ SetHold(holds, r)["sessions"] = holds["sessions"]
  BY <1>t, HoldEffects DEF Reasons
<1>1. CASE Ensure \/ LaunchReady \/ LaunchFails \/ LaunchRuns \/ LaunchEnds
  BY <1>1 DEF Ensure, LaunchReady, LaunchFails, LaunchRuns, LaunchEnds, Goto, besidesState
<1>2. CASE RecoveryEnds \/ RecoverNever \/ RecoverExhausted \/ RecoverRetries
  BY <1>2, <1>e DEF RecoveryEnds, RecoverNever, RecoverExhausted, RecoverRetries, Recovering, StillFailed, Goto,
     instanceVars, Reasons
<1>3. CASE StopLocked \/ HaltSucceeds \/ HaltFails \/ HaltEnds
  BY <1>3 DEF StopLocked, HaltSucceeds, HaltFails, HaltEnds, Goto, besidesState
<1>4. \A s \in sessions : /\ RemoveHold(holds, "sessions")["sessions"] = Cardinality(sessions \ {s})
                          /\ s \in Sessions
  <2> TAKE s \in sessions
  <2>1. s \in Sessions
    BY DEF TypeOK, InstanceTypeOK
  <2>2. /\ Cardinality(sessions \ {s}) = Cardinality(sessions) - 1
        /\ Cardinality(sessions) \in Nat
        /\ Cardinality(sessions \ {s}) \in Nat
    <3>1. IsFiniteSet(sessions) /\ IsFiniteSet(sessions \ {s})
      BY SupervisorAssumption, FS_Subset DEF TypeOK, InstanceTypeOK
    <3> QED  BY <2>1, <3>1, SessionCount, FS_CardinalityType
  <2>3. RemoveHold(holds, "sessions")["sessions"]
          = IF holds["sessions"] <= 1 THEN 0 ELSE holds["sessions"] - 1
    BY <1>t, HoldEffects DEF Reasons
  <2> QED  BY <2>1, <2>2, <2>3
<1>5. CASE AcquireFails \/ \E s \in Sessions : ReleaseSession(s)
  BY <1>4, <1>5 DEF AcquireFails, ReleaseSession, Unlock, lockVars
<1>6. CASE \E s \in Sessions : AcquireSession(s)
  <2> PICK s \in Sessions : AcquireSession(s)
    BY <1>6
  <2>1. holds'["sessions"] = holds["sessions"] + 1
    BY <1>t, HoldEffects DEF AcquireSession, Reasons
  <2> QED  BY <2>1, SessionCount DEF AcquireSession, Lock
<1>7. CASE Start \/ RestartStarts
  BY <1>e, <1>7 DEF Start, RestartStarts, StartAdmin, Lock, Reasons
<1>8. CASE StopRefused \/ NotifyFailure \/ CallReturns \/ CallRaises
  BY <1>e, <1>8 DEF StopRefused, NotifyFailure, CallReturns, CallRaises, Lock, Unlock, Reasons,
     besidesState, instanceVars, lockVars
<1>9. CASE Restart \/ \E force \in BOOLEAN : Stop(force)
  <2>1. NoHolds["sessions"] = Cardinality({})
    BY FS_EmptySet DEF NoHolds, Reasons
  <2> QED  BY <1>e, <1>9, <2>1 DEF Restart, Stop, Lock, Reasons
<1>10. CASE EnterMaintenance \/ BeginFails \/ LeaveMaintenance \/ MaintenanceEnds
  BY <1>e, <1>10 DEF EnterMaintenance, BeginFails, LeaveMaintenance, MaintenanceEnds, Goto, Unlock,
     Reasons, besidesState, instanceVars
<1>11. CASE JobStep
  BY <1>11 DEF JobStep, FinishMaintenance, FinishRefused, Lock, lockVars
<1>12. ASSUME NEW j \in Jobs, BeginMaintenance(j)
       PROVE  SessionInv'
  BY <1>e, <1>12 DEF BeginMaintenance, Lock, Reasons
<1>13. CASE \E j \in Jobs : RunMaintenance(j) \/ TickRunsJob(j)
  BY <1>12, <1>13 DEF RunMaintenance, TickRunsJob
<1>14. CASE Reconcile \/ TickBegins
  <2>1. ReconciledHolds["sessions"] = holds["sessions"]
    BY <1>t DEF ReconciledHolds, Reasons
  <2>2. Findings[2] # "free"
    BY DEF Findings
  <2> QED  BY <1>14, <2>1, <2>2 DEF Reconcile, TickBegins, ReconcileBegins, Lock
<1>15. CASE Adopt \/ Settle \/ Converge \/ ReconcileFails
  BY <1>15 DEF Adopt, Settle, Converge, ReconcileFails, Goto, Unlock, besidesState, instanceVars
<1>16. CASE TickScans \/ TickMarks \/ TickFails \/ TickEnds \/ \E j \in Jobs : TickJobRefused(j)
  BY <1>16 DEF TickScans, TickMarks, TickFails, TickEnds, TickJobRefused, Unlock, instanceVars,
     lockVars
<1>17. CASE (\E m \in NewModes : SetMode(m)) \/ WriteMode \/ RuntimeExits \/ Advance
  BY <1>17 DEF SetMode, WriteMode, RuntimeExits, Advance, instanceVars, lockVars
<1>18. CASE Crash
  BY <1>18, FS_EmptySet DEF Crash, Unlock, Reasons, DurableReasons
<1>19. CASE UNCHANGED vars
  BY <1>19 DEF vars, instanceVars, lockVars
<1> QED
  BY <1>1, <1>2, <1>3, <1>5, <1>6, <1>7, <1>8, <1>9, <1>10, <1>11, <1>13, <1>14, <1>15, <1>16,
     <1>17, <1>18, <1>19
     DEF Next, HolderStep, TickerStep, CallerStep, EnvironmentStep

(* Session holds and session references agree in every reachable state,    *)
(* whatever the sessions, the jobs and the lifecycle declaration are       *)
(* (acquire_session, release_session, stop, restart, from_dict).           *)
THEOREM SessionsHeld == Spec => []SessionHolds
<1>1. Init => SessionInv
  BY FS_EmptySet DEF Init, SessionInv, SessionHolds, NoHolds, Reasons
<1>2. SessionInv => SessionHolds
  BY DEF SessionInv
<1> QED  BY <1>1, <1>2, TypeCorrect, SessionStep, PTL DEF Spec

-----------------------------------------------------------------------------
(* Maintenance holds and the jobs marked as running.                       *)

(* How marking or unmarking a job changes the number of marks.             *)
LEMMA MarkCount ==
    ASSUME TypeOK, NEW j \in Sessions \cup Jobs \cup {Nobody}
    PROVE  /\ Cardinality(jobsRunning) \in Nat
           /\ j \in Jobs \ jobsRunning
                => Cardinality(jobsRunning \cup {j}) = Cardinality(jobsRunning) + 1
           /\ Cardinality(jobsRunning \ {j}) \in Nat
           /\ Cardinality(jobsRunning \ {j}) >= Cardinality(jobsRunning) - 1
<1>1. IsFiniteSet(jobsRunning) /\ IsFiniteSet(jobsRunning \ {j})
  BY SupervisorAssumption, FS_Subset DEF TypeOK, ThreadsTypeOK
<1>2. /\ Cardinality(jobsRunning) \in Nat
      /\ Cardinality(jobsRunning \ {j}) \in Nat
  BY <1>1, FS_CardinalityType
<1>3. CASE j \in jobsRunning
  <2>1. Cardinality(jobsRunning \ {j}) = Cardinality(jobsRunning) - 1
    BY <1>1, <1>3, FS_RemoveElement
  <2> QED  BY <1>2, <1>3, <2>1
<1>4. CASE j \notin jobsRunning
  <2>1. jobsRunning \ {j} = jobsRunning
    BY <1>4
  <2>2. Cardinality(jobsRunning \cup {j}) = Cardinality(jobsRunning) + 1
    BY <1>1, <1>4, FS_AddElement
  <2>3. Cardinality(jobsRunning \ {j}) = Cardinality(jobsRunning)
    BY <2>1
  <2> QED  BY <1>2, <1>4, <2>2, <2>3
<1> QED  BY <1>3, <1>4

(* Every step keeps the maintenance holds within the marks.                *)
LEMMA MarkStep == TypeOK /\ MaintenanceHoldsMarked /\ [Next]_vars => MaintenanceHoldsMarked'
<1> SUFFICES ASSUME TypeOK, MaintenanceHoldsMarked, [Next]_vars PROVE MaintenanceHoldsMarked'
  OBVIOUS
<1> USE DEF MaintenanceHoldsMarked
<1>t. /\ holds \in [Reasons -> Nat]
      /\ holds["maintenance"] \in Nat
      /\ Cardinality(jobsRunning) \in Nat
      /\ who \in Sessions \cup Jobs \cup {Nobody}
  BY MarkCount DEF TypeOK, InstanceTypeOK, HolderTypeOK, Reasons
<1>e. \A r \in Reasons \ {"maintenance"} :
          /\ AddHold(holds, r)["maintenance"] = holds["maintenance"]
          /\ RemoveHold(holds, r)["maintenance"] = holds["maintenance"]
          /\ DropHold(holds, r)["maintenance"] = holds["maintenance"]
          /\ SetHold(holds, r)["maintenance"] = holds["maintenance"]
  BY <1>t, HoldEffects DEF Reasons
<1>1. CASE Ensure \/ LaunchReady \/ LaunchFails \/ LaunchRuns \/ LaunchEnds
  BY <1>1 DEF Ensure, LaunchReady, LaunchFails, LaunchRuns, LaunchEnds, besidesState, threads, jobVars
<1>2. CASE RecoveryEnds \/ RecoverNever \/ RecoverExhausted \/ RecoverRetries
  BY <1>2, <1>e DEF RecoveryEnds, RecoverNever, RecoverExhausted, RecoverRetries, instanceVars,
     Reasons, threads, jobVars
<1>3. CASE StopLocked \/ HaltSucceeds \/ HaltFails \/ HaltEnds
  BY <1>3 DEF StopLocked, HaltSucceeds, HaltFails, HaltEnds, besidesState, threads, jobVars
<1>4. CASE AcquireFails \/ \E s \in Sessions : AcquireSession(s) \/ ReleaseSession(s)
  BY <1>4, <1>e DEF AcquireFails, AcquireSession, ReleaseSession, Reasons, threads, jobVars
<1>5. CASE Start \/ RestartStarts \/ StopRefused \/ NotifyFailure \/ CallReturns \/ CallRaises
  BY <1>5, <1>e DEF Start, RestartStarts, StartAdmin, StopRefused, NotifyFailure, CallReturns,
     CallRaises, Reasons, besidesState, instanceVars, threads, jobVars
<1>6. CASE Restart \/ \E force \in BOOLEAN : Stop(force)
  <2>1. NoHolds["maintenance"] = 0
    BY DEF NoHolds, Reasons
  <2> QED  BY <1>e, <1>t, <1>6, <2>1 DEF Restart, Stop, Reasons, threads, jobVars
<1>7. ASSUME NEW j \in Jobs, BeginMaintenance(j)
      PROVE  MaintenanceHoldsMarked'
  <2>1. holds'["maintenance"] = holds["maintenance"] + 1
    BY <1>t, <1>7, HoldEffects DEF BeginMaintenance, Reasons
  <2>2. Cardinality(jobsRunning') = Cardinality(jobsRunning) + 1
    BY <1>7, MarkCount DEF BeginMaintenance, MayBegin
  <2> QED  BY <1>t, <2>1, <2>2
<1>8. CASE \E j \in Jobs : RunMaintenance(j) \/ TickRunsJob(j)
  BY <1>7, <1>8 DEF RunMaintenance, TickRunsJob
<1>9. CASE BeginFails \/ LeaveMaintenance
  <2>1. holds'["maintenance"] = IF holds["maintenance"] <= 1 THEN 0 ELSE holds["maintenance"] - 1
    BY <1>t, <1>9, HoldEffects DEF BeginFails, LeaveMaintenance, Reasons
  <2>2. jobsRunning' = jobsRunning \ {who}
    BY <1>9 DEF BeginFails, LeaveMaintenance
  <2>3. /\ Cardinality(jobsRunning \ {who}) \in Nat
        /\ Cardinality(jobsRunning \ {who}) >= Cardinality(jobsRunning) - 1
    BY <1>t, MarkCount
  <2> QED  BY <1>t, <2>1, <2>2, <2>3
<1>10. CASE EnterMaintenance \/ MaintenanceEnds \/ JobStep
  BY <1>10 DEF EnterMaintenance, MaintenanceEnds, JobStep, FinishMaintenance, FinishRefused,
     besidesState, instanceVars
<1>11. CASE Reconcile \/ TickBegins
  <2>1. ReconciledHolds["maintenance"] = holds["maintenance"]
    BY <1>t DEF ReconciledHolds, Reasons
  <2> QED  BY <1>11, <2>1 DEF Reconcile, TickBegins, ReconcileBegins, jobVars
<1>12. CASE Adopt \/ Settle \/ Converge \/ ReconcileFails
  BY <1>12 DEF Adopt, Settle, Converge, ReconcileFails, besidesState, instanceVars, threads, jobVars
<1>13. CASE TickScans \/ TickMarks \/ TickFails \/ TickEnds \/ \E j \in Jobs : TickJobRefused(j)
  BY <1>13 DEF TickScans, TickMarks, TickFails, TickEnds, TickJobRefused, instanceVars, threads,
     jobVars
<1>14. CASE (\E m \in NewModes : SetMode(m)) \/ WriteMode \/ RuntimeExits \/ Advance
  BY <1>14 DEF SetMode, WriteMode, RuntimeExits, Advance, instanceVars, threads, jobVars
<1>15. CASE Crash
  BY <1>15, FS_EmptySet DEF Crash, Reasons, DurableReasons
<1>16. CASE UNCHANGED vars
  BY <1>16 DEF vars, instanceVars, jobVars
<1> QED
  BY <1>1, <1>2, <1>3, <1>4, <1>5, <1>6, <1>8, <1>9, <1>10, <1>11, <1>12, <1>13, <1>14, <1>15, <1>16
     DEF Next, HolderStep, TickerStep, CallerStep, EnvironmentStep

(* No maintenance hold outlives the mark of its job in _jobs_running,      *)
(* whichever of a tick, an operator, a failed launch or a forced stop      *)
(* touches the two (run_maintenance, stop).                                *)
THEOREM HoldsMarked == Spec => []MaintenanceHoldsMarked
<1>1. Init => MaintenanceHoldsMarked
  BY FS_EmptySet DEF Init, MaintenanceHoldsMarked, NoHolds, Reasons
<1> QED  BY <1>1, TypeCorrect, MarkStep, PTL DEF Spec

-----------------------------------------------------------------------------
(* The idle deadline.                                                      *)

(* What _schedule_idle_locked and the clock do to it.                      *)
LEMMA IdleEffects ==
    ASSUME NEW h \in [Reasons -> Nat]
    PROVE  /\ IdleAfter(h) # idleDeadline => ~Held(h)
           /\ Nearer(NoTime) = NoTime
           /\ ~Held(h) => \A r \in Reasons : h[r] = 0
  BY DEF IdleAfter, Nearer, NoTime, Held

(* Every step keeps idle deadlines off used services.                      *)
LEMMA IdleStep == TypeOK /\ IdleMeansUnused /\ [Next]_vars => IdleMeansUnused'
<1> SUFFICES ASSUME TypeOK, IdleMeansUnused, [Next]_vars PROVE IdleMeansUnused'
  OBVIOUS
<1> DEFINE Unused(h) == h["sessions"] = 0 /\ h["maintenance"] = 0
<1>u. IdleMeansUnused <=> (idleDeadline # NoTime => Unused(holds))
  BY DEF IdleMeansUnused
<1>v. IdleMeansUnused' <=> (idleDeadline' # NoTime => Unused(holds'))
  BY DEF IdleMeansUnused
<1>t. holds \in [Reasons -> Nat]
  BY DEF TypeOK, InstanceTypeOK
<1>e. /\ \A r \in Reasons : Unused(holds) => /\ Unused(RemoveHold(holds, r))
                                             /\ Unused(DropHold(holds, r))
      /\ \A r \in Reasons \ {"sessions", "maintenance"} :
            Unused(holds) => Unused(AddHold(holds, r)) /\ Unused(SetHold(holds, r))
      /\ Unused(NoHolds)
  BY <1>t DEF RemoveHold, DropHold, AddHold, SetHold, NoHolds, Reasons
<1>i. ASSUME NEW h \in [Reasons -> Nat], IdleAfter(h) # idleDeadline
      PROVE  Unused(h)
  BY <1>i, IdleEffects DEF Reasons
<1> HIDE DEF Unused
<1>1. CASE Ensure \/ LaunchReady \/ LaunchFails \/ LaunchRuns \/ LaunchEnds
  BY <1>u, <1>v, <1>1 DEF Ensure, LaunchReady, LaunchFails, LaunchRuns, LaunchEnds, besidesState
<1>2. CASE RecoveryEnds \/ RecoverNever \/ RecoverExhausted \/ RecoverRetries
  BY <1>u, <1>v, <1>e, <1>2 DEF RecoveryEnds, RecoverNever, RecoverExhausted, RecoverRetries,
     instanceVars, Reasons
<1>3. CASE StopLocked \/ HaltSucceeds \/ HaltFails \/ HaltEnds
  BY <1>u, <1>v, <1>3 DEF StopLocked, HaltSucceeds, HaltFails, HaltEnds, besidesState
<1>4. CASE AcquireFails \/ \E s \in Sessions : AcquireSession(s)
  BY <1>u, <1>v, <1>e, <1>4 DEF AcquireFails, AcquireSession, Reasons
<1>5. CASE \E s \in Sessions : ReleaseSession(s)
  <2>1. /\ holds' = RemoveHold(holds, "sessions")
        /\ idleDeadline' = IdleAfter(holds')
        /\ RemoveHold(holds, "sessions") \in [Reasons -> Nat]
    BY <1>t, <1>5, HoldTypes DEF ReleaseSession, Reasons
  <2> QED  BY <1>u, <1>v, <1>e, <1>i, <2>1 DEF Reasons
<1>6. CASE Start \/ RestartStarts \/ StopRefused \/ NotifyFailure \/ CallReturns \/ CallRaises
  BY <1>u, <1>v, <1>e, <1>6 DEF Start, RestartStarts, StartAdmin, StopRefused, NotifyFailure,
     CallReturns, CallRaises, Reasons, besidesState, instanceVars
<1>7. CASE Restart \/ \E force \in BOOLEAN : Stop(force)
  BY <1>u, <1>v, <1>e, <1>7 DEF Restart, Stop, Reasons
<1>8. CASE \E j \in Jobs : RunMaintenance(j) \/ TickRunsJob(j)
  BY <1>v, <1>8 DEF RunMaintenance, TickRunsJob, BeginMaintenance
<1>9. CASE LeaveMaintenance
  <2>1. /\ holds' = RemoveHold(holds, "maintenance")
        /\ idleDeadline' \in {idleDeadline, IdleAfter(holds')}
        /\ RemoveHold(holds, "maintenance") \in [Reasons -> Nat]
    BY <1>t, <1>9, HoldTypes DEF LeaveMaintenance, Reasons
  <2> QED  BY <1>u, <1>v, <1>e, <1>i, <2>1 DEF Reasons
<1>10. CASE BeginFails \/ EnterMaintenance \/ MaintenanceEnds \/ JobStep
  BY <1>u, <1>v, <1>e, <1>10 DEF BeginFails, EnterMaintenance, MaintenanceEnds, JobStep,
     FinishMaintenance, FinishRefused, besidesState, instanceVars, Reasons
<1>11. CASE Reconcile \/ TickBegins
  <2>1. Unused(holds) => Unused(ReconciledHolds)
    BY <1>t DEF ReconciledHolds, Reasons, Unused
  <2> QED  BY <1>u, <1>v, <1>11, <2>1 DEF Reconcile, TickBegins, ReconcileBegins
<1>12. CASE Converge
  BY <1>t, <1>u, <1>v, <1>i, <1>12 DEF Converge
<1>13. CASE Adopt \/ Settle \/ ReconcileFails
  BY <1>u, <1>v, <1>13 DEF Adopt, Settle, ReconcileFails, besidesState, instanceVars
<1>14. CASE TickScans \/ TickMarks \/ TickFails \/ TickEnds \/ \E j \in Jobs : TickJobRefused(j)
  BY <1>u, <1>v, <1>14 DEF TickScans, TickMarks, TickFails, TickEnds, TickJobRefused, instanceVars
<1>15. CASE (\E m \in NewModes : SetMode(m)) \/ WriteMode \/ RuntimeExits
  BY <1>u, <1>v, <1>15 DEF SetMode, WriteMode, RuntimeExits, instanceVars
<1>16. CASE Advance
  BY <1>t, <1>u, <1>v, <1>16, IdleEffects DEF Advance
<1>17. CASE Crash
  BY <1>v, <1>17 DEF Crash, Reasons, DurableReasons, Unused
<1>18. CASE UNCHANGED vars
  BY <1>u, <1>v, <1>18 DEF vars, instanceVars
<1> QED
  BY <1>1, <1>2, <1>3, <1>4, <1>5, <1>6, <1>7, <1>8, <1>9, <1>10, <1>11, <1>12, <1>13, <1>14,
     <1>15, <1>16, <1>17, <1>18
     DEF Next, HolderStep, TickerStep, CallerStep, EnvironmentStep

(* A service that a session or a job uses has no idle deadline, across     *)
(* reconciliations, mode changes, failures and crashes                     *)
(* (_schedule_idle_locked, _add_hold).                                     *)
THEOREM IdleUnused == Spec => []IdleMeansUnused
<1>1. Init => IdleMeansUnused
  BY DEF Init, IdleMeansUnused
<1> QED  BY <1>1, TypeCorrect, IdleStep, PTL DEF Spec

-----------------------------------------------------------------------------
(* What the state file holds after _persist, and after a step that keeps   *)
(* it up to date in the state of the graph.                                *)
LEMMA PersistEffects ==
    Persist => /\ disk'.state = state'
               /\ disk'.restartTimes = restartTimes'
               /\ disk'.nextRestart = nextRestart'
               /\ disk'.exhausted = exhausted'
  BY DEF Persist, Saved

-----------------------------------------------------------------------------
(* The attempts counted against the limit.                                 *)

(* Every step keeps the attempts within the limit.                         *)
LEMMA AttemptsStep == TypeOK /\ AttemptsBounded /\ [Next]_vars => AttemptsBounded'
<1> SUFFICES ASSUME TypeOK, AttemptsBounded, [Next]_vars PROVE AttemptsBounded'
  OBVIOUS
<1>t. /\ restartTimes \in Seq(Ages)
      /\ disk.restartTimes \in Seq(Ages)
      /\ Len(restartTimes) \in Nat
      /\ Len(disk.restartTimes) \in Nat
      /\ MaxRestarts \in Nat
  BY SupervisorAssumption, LenProperties DEF TypeOK, InstanceTypeOK, EnvironmentTypeOK, Snapshots
<1>b. Len(restartTimes) <= MaxRestarts /\ Len(disk.restartTimes) <= MaxRestarts
  BY DEF AttemptsBounded
<1>k. ASSUME Len(restartTimes') <= MaxRestarts, Persist \/ UNCHANGED disk
      PROVE  AttemptsBounded'
  BY <1>b, <1>k, PersistEffects DEF AttemptsBounded
<1>s. ASSUME restartTimes' = restartTimes, Persist \/ UNCHANGED disk
      PROVE  AttemptsBounded'
  BY <1>b, <1>k, <1>s
<1>1. CASE Ensure \/ LaunchReady \/ LaunchFails \/ LaunchRuns \/ LaunchEnds
  BY <1>s, <1>1 DEF Ensure, LaunchReady, LaunchFails, LaunchRuns, LaunchEnds, besidesState, account,
     PersistIf
<1>2. CASE RecoveryEnds \/ RecoverNever
  BY <1>s, <1>2 DEF RecoveryEnds, RecoverNever, instanceVars, account
<1>3. CASE RecoverExhausted
  <2>1. Len(Prior(restartTimes)) <= Len(restartTimes) /\ Len(Prior(restartTimes)) \in Nat
    BY <1>t, PriorType, LenProperties
  <2> QED  BY <1>b, <1>k, <1>t, <1>3, <2>1 DEF RecoverExhausted
<1>4. CASE RecoverRetries
  <2>1. Prior(restartTimes) \in Seq(Ages) /\ Len(Prior(restartTimes)) \in Nat
    BY <1>t, PriorType, LenProperties
  <2>2. 0 \in Ages
    BY SupervisorAssumption DEF Ages
  <2>3. Len(Append(Prior(restartTimes), 0)) = Len(Prior(restartTimes)) + 1
    BY <2>1, <2>2, AppendProperties
  <2>4. Len(Prior(restartTimes)) < MaxRestarts
    BY <1>t, <1>4, <2>1 DEF RecoverRetries, LimitReached
  <2>5. Len(restartTimes') <= MaxRestarts
    BY <1>t, <1>4, <2>1, <2>3, <2>4 DEF RecoverRetries
  <2> QED  BY <1>k, <1>4, <2>5 DEF RecoverRetries
<1>5. CASE StopLocked \/ HaltSucceeds \/ HaltFails \/ HaltEnds
  BY <1>s, <1>5 DEF StopLocked, HaltSucceeds, HaltFails, HaltEnds, besidesState, account, PersistIf
<1>6. CASE AcquireFails \/ \E s \in Sessions : AcquireSession(s) \/ ReleaseSession(s)
  BY <1>s, <1>6 DEF AcquireFails, AcquireSession, ReleaseSession, account
<1>7. CASE Start \/ RestartStarts
  <2>1. Len(<<>>) = 0
    BY EmptySeq
  <2>2. Len(restartTimes') <= MaxRestarts
    BY <1>b, <1>t, <1>7, <2>1 DEF Start, RestartStarts, StartAdmin
  <2> QED  BY <1>k, <1>7, <2>2 DEF Start, RestartStarts, StartAdmin, PersistIf
<1>8. CASE StopRefused \/ NotifyFailure \/ CallReturns \/ CallRaises \/ Restart
           \/ \E force \in BOOLEAN : Stop(force)
  BY <1>s, <1>8 DEF StopRefused, NotifyFailure, CallReturns, CallRaises, Restart, Stop,
     besidesState, instanceVars, account
<1>9. CASE \E j \in Jobs : RunMaintenance(j) \/ TickRunsJob(j)
  BY <1>s, <1>9 DEF RunMaintenance, TickRunsJob, BeginMaintenance, account
<1>10. CASE BeginFails \/ EnterMaintenance \/ LeaveMaintenance \/ MaintenanceEnds \/ JobStep
  BY <1>s, <1>10 DEF BeginFails, EnterMaintenance, LeaveMaintenance, MaintenanceEnds, JobStep,
     FinishMaintenance, FinishRefused, besidesState, instanceVars, account, PersistIf
<1>11. CASE Reconcile \/ TickBegins
  BY <1>s, <1>11 DEF Reconcile, TickBegins, ReconcileBegins, account, PersistIf
<1>12. CASE Adopt \/ Settle \/ Converge \/ ReconcileFails
  BY <1>s, <1>12 DEF Adopt, Settle, Converge, ReconcileFails, besidesState, instanceVars, account,
     PersistIf
<1>13. CASE TickScans \/ TickMarks \/ TickFails \/ TickEnds \/ \E j \in Jobs : TickJobRefused(j)
  BY <1>s, <1>13 DEF TickScans, TickMarks, TickFails, TickEnds, TickJobRefused, instanceVars,
     account, PersistIf
<1>14. CASE (\E m \in NewModes : SetMode(m)) \/ WriteMode \/ RuntimeExits
  BY <1>s, <1>14 DEF SetMode, WriteMode, RuntimeExits, instanceVars
<1>15. CASE Advance
  <2>1. /\ restartTimes' = Older(restartTimes)
        /\ disk'.restartTimes = Older(disk.restartTimes)
    BY <1>15 DEF Advance
  <2>2. /\ Len(Older(restartTimes)) = Len(restartTimes)
        /\ Len(Older(disk.restartTimes)) = Len(disk.restartTimes)
    BY <1>t, OlderType
  <2> QED  BY <1>b, <2>1, <2>2 DEF AttemptsBounded
<1>16. CASE Crash
  BY <1>b, <1>16 DEF Crash, AttemptsBounded
<1>17. CASE UNCHANGED vars
  BY <1>s, <1>17 DEF vars, instanceVars
<1> QED
  BY <1>1, <1>2, <1>3, <1>4, <1>5, <1>6, <1>7, <1>8, <1>9, <1>10, <1>11, <1>12, <1>13, <1>14,
     <1>15, <1>16, <1>17
     DEF Next, HolderStep, TickerStep, CallerStep, EnvironmentStep

(* Recovery never records more attempts than max_restarts, in memory or on *)
(* disk (_restart_after_failure_locked, start, from_dict).                 *)
THEOREM RecoveryBounded == Spec => []AttemptsBounded
<1>1. Init => AttemptsBounded
  BY SupervisorAssumption, EmptySeq DEF Init, Saved, AttemptsBounded
<1> QED  BY <1>1, TypeCorrect, AttemptsStep, PTL DEF Spec

-----------------------------------------------------------------------------
(* The state file and the recovery account.  The recorded state is never   *)
(* behind.  The account is, once: an explicit start of a failed service    *)
(* that is already held by an administrator forgives the failures without  *)
(* saving, and the launch that follows saves them.                         *)
AccountSaved ==
    /\ disk.restartTimes = restartTimes
    /\ disk.nextRestart = nextRestart
    /\ disk.exhausted = exhausted

AccountInv ==
    /\ disk.state = state
    /\ AccountSaved \/ (at = "ensure" /\ state = "failed")

(* Every step keeps the recovery account on disk, or is about to save it.  *)
LEMMA AccountStep == TypeOK /\ AccountInv /\ [Next]_vars => AccountInv'
<1> SUFFICES ASSUME TypeOK, AccountInv, [Next]_vars PROVE AccountInv'
  OBVIOUS
<1>p. ASSUME Persist PROVE AccountInv'
  BY <1>p, PersistEffects DEF AccountInv, AccountSaved
<1>s. ASSUME UNCHANGED <<state, account, disk>>, at # "ensure" \/ state # "failed" \/ at' = at
      PROVE  AccountInv'
  BY <1>s DEF AccountInv, AccountSaved, account
<1>1. CASE Ensure
  BY <1>p, <1>s, <1>1 DEF Ensure, Transition, PersistIf, ActiveStates, besidesState
<1>2. CASE LaunchReady \/ LaunchFails \/ LaunchRuns \/ LaunchEnds \/ RecoveryEnds
           \/ RecoverExhausted \/ RecoverRetries
  BY <1>p, <1>2 DEF LaunchReady, LaunchFails, LaunchRuns, LaunchEnds, RecoveryEnds,
     RecoverExhausted, RecoverRetries
<1>3. CASE RecoverNever
  BY <1>s, <1>3 DEF RecoverNever, Recovering, instanceVars, account
<1>4. CASE StopLocked \/ HaltSucceeds \/ HaltFails \/ HaltEnds
  BY <1>p, <1>s, <1>4 DEF StopLocked, HaltSucceeds, HaltFails, HaltEnds, PersistIf, besidesState, Goto
<1>5. CASE AcquireFails \/ NotifyFailure \/ \E s \in Sessions : AcquireSession(s) \/ ReleaseSession(s)
  BY <1>p, <1>5 DEF AcquireFails, NotifyFailure, AcquireSession, ReleaseSession
<1>6. CASE Start \/ RestartStarts
  <2>1. CASE holds' # holds
    BY <1>p, <1>6, <2>1 DEF Start, RestartStarts, StartAdmin, PersistIf
  <2>2. CASE holds' = holds /\ state = "failed"
    <3>1. UNCHANGED <<state, disk>> /\ at' = "ensure"
      BY <1>6, <2>2 DEF Start, RestartStarts, StartAdmin, PersistIf, Lock
    <3> QED  BY <2>2, <3>1 DEF AccountInv
  <2>3. CASE holds' = holds /\ state # "failed"
    <3>1. UNCHANGED <<state, nextRestart, restartTimes, disk>>
      BY <1>6, <2>3 DEF Start, RestartStarts, StartAdmin, PersistIf
    <3>2. exhausted' = exhausted
      <4>1. exhausted \in BOOLEAN
        BY DEF TypeOK, InstanceTypeOK
      <4>2. exhausted' = (exhausted /\ state # "failed")
        BY <1>6 DEF Start, RestartStarts, StartAdmin
      <4> QED  BY Zenon, <2>3, <4>1, <4>2
    <3> QED  BY <1>s, <2>3, <3>1, <3>2 DEF account
  <2> QED  BY <2>1, <2>2, <2>3
<1>7. CASE StopRefused \/ CallReturns \/ CallRaises \/ Restart \/ \E force \in BOOLEAN : Stop(force)
  BY <1>s, <1>7 DEF StopRefused, CallReturns, CallRaises, Restart, Stop, Lock, instanceVars, account
<1>8. CASE \E j \in Jobs : RunMaintenance(j) \/ TickRunsJob(j)
  BY <1>p, <1>8 DEF RunMaintenance, TickRunsJob, BeginMaintenance
<1>9. CASE BeginFails \/ LeaveMaintenance
  BY <1>p, <1>9 DEF BeginFails, LeaveMaintenance
<1>10. CASE EnterMaintenance \/ MaintenanceEnds
  BY <1>p, <1>s, <1>10 DEF EnterMaintenance, MaintenanceEnds, besidesState, instanceVars, account,
     PersistIf
<1>11. CASE JobStep
  BY <1>p, <1>s, <1>11 DEF JobStep, FinishMaintenance, FinishRefused
<1>12. CASE Reconcile \/ TickBegins
  BY <1>p, <1>s, <1>12 DEF Reconcile, TickBegins, ReconcileBegins, PersistIf, Lock
<1>13. CASE Adopt \/ Settle
  BY <1>p, <1>13 DEF Adopt, Settle
<1>14. CASE Converge \/ ReconcileFails
  BY <1>p, <1>s, <1>14 DEF Converge, ReconcileFails, instanceVars, account, PersistIf
<1>15. CASE TickScans \/ TickMarks \/ TickFails \/ TickEnds \/ \E j \in Jobs : TickJobRefused(j)
  BY <1>p, <1>s, <1>15 DEF TickScans, TickMarks, TickFails, TickEnds, TickJobRefused, instanceVars,
     lockVars, account, PersistIf
<1>16. CASE (\E m \in NewModes : SetMode(m)) \/ WriteMode \/ RuntimeExits
  BY <1>s, <1>16 DEF SetMode, WriteMode, RuntimeExits, instanceVars, lockVars, account
<1>17. CASE Advance
  <2>1. UNCHANGED <<state, at, exhausted>>
    BY <1>17 DEF Advance
  <2>2. /\ disk'.state = disk.state
        /\ disk'.exhausted = disk.exhausted
        /\ disk'.restartTimes = Older(disk.restartTimes)
        /\ disk'.nextRestart = Nearer(disk.nextRestart)
        /\ restartTimes' = Older(restartTimes)
        /\ nextRestart' = Nearer(nextRestart)
    BY <1>17 DEF Advance
  <2> QED  BY <2>1, <2>2 DEF AccountInv, AccountSaved
<1>18. CASE Crash
  BY <1>18 DEF Crash, AccountInv, AccountSaved
<1>19. CASE UNCHANGED vars
  BY <1>s, <1>19 DEF vars, instanceVars, lockVars, account
<1> QED
  BY <1>1, <1>2, <1>3, <1>4, <1>5, <1>6, <1>7, <1>8, <1>9, <1>10, <1>11, <1>12, <1>13, <1>14,
     <1>15, <1>16, <1>17, <1>18, <1>19
     DEF Next, HolderStep, TickerStep, CallerStep, EnvironmentStep

(* The state file agrees with the first state.                             *)
LEMMA AccountInit == Init => AccountInv
  BY DEF Init, Saved, AccountInv, AccountSaved

(* Whenever no operation is under way, the state file holds the lifecycle  *)
(* state and the whole recovery account, whichever paths the operations    *)
(* took (_persist, start, _restart_after_failure_locked, from_dict).       *)
THEOREM AccountOnDisk == Spec => []RecoveryAccountSaved
<1>1. AccountInv => RecoveryAccountSaved
  BY DEF AccountInv, AccountSaved, RecoveryAccountSaved
<1> QED  BY <1>1, TypeCorrect, AccountInit, AccountStep, PTL DEF Spec

-----------------------------------------------------------------------------
(* Stopping.  _stop_locked is entered only once nothing holds the service, *)
(* and under the lock nothing comes to hold it.                            *)
StopInv == at = "stop" => ~Held(holds)

(* Every step reaches a stop only when nothing holds the service.          *)
LEMMA StopStep == TypeOK /\ StopInv /\ [Next]_vars => StopInv'
<1> SUFFICES ASSUME TypeOK, StopInv, [Next]_vars, at' = "stop"
             PROVE  ~Held(holds')
  BY DEF StopInv
<1>s. ASSUME UNCHANGED <<at, holds>> PROVE ~Held(holds')
  BY <1>s DEF StopInv, Held
<1>1. CASE Ensure \/ LaunchReady \/ LaunchFails \/ LaunchRuns \/ LaunchEnds
  BY <1>1 DEF Ensure, LaunchReady, LaunchFails, LaunchRuns, LaunchEnds, Goto
<1>2. CASE RecoveryEnds \/ RecoverNever \/ RecoverExhausted \/ RecoverRetries
  BY <1>2 DEF RecoveryEnds, RecoverNever, RecoverExhausted, RecoverRetries, StillFailed, Goto
<1>3. CASE StopLocked \/ HaltSucceeds \/ HaltFails \/ HaltEnds
  BY <1>3 DEF StopLocked, HaltSucceeds, HaltFails, HaltEnds, Goto
<1>4. CASE AcquireFails \/ NotifyFailure \/ \E s \in Sessions : AcquireSession(s)
  BY <1>4 DEF AcquireFails, NotifyFailure, AcquireSession, Unlock, Lock
<1>5. CASE StopRefused \/ \E s \in Sessions : ReleaseSession(s)
  BY <1>5 DEF StopRefused, ReleaseSession, lockVars
<1>6. CASE Start \/ RestartStarts \/ CallReturns \/ CallRaises
  BY <1>6 DEF Start, RestartStarts, StartAdmin, CallReturns, CallRaises, Lock, Unlock
<1>7. CASE Restart \/ \E force \in BOOLEAN : Stop(force)
  BY <1>7 DEF Restart, Stop, Held, NoHolds
<1>8. CASE \E j \in Jobs : RunMaintenance(j) \/ TickRunsJob(j)
  BY <1>8 DEF RunMaintenance, TickRunsJob, BeginMaintenance, Lock
<1>9. CASE BeginFails \/ EnterMaintenance \/ MaintenanceEnds
  BY <1>9 DEF BeginFails, EnterMaintenance, MaintenanceEnds, Unlock, Goto
<1>10. CASE LeaveMaintenance
  BY <1>10 DEF LeaveMaintenance, Goto
<1>11. CASE JobStep
  BY <1>11 DEF JobStep, FinishMaintenance, FinishRefused, Lock, lockVars
<1>12. CASE Reconcile \/ TickBegins
  <2>1. Findings[2] # "stop"
    BY DEF Findings
  <2> QED  BY <1>12, <2>1 DEF Reconcile, TickBegins, ReconcileBegins, Lock
<1>13. CASE Adopt \/ Settle \/ Converge \/ ReconcileFails
  BY <1>13 DEF Adopt, Settle, Converge, ReconcileFails, Goto, Unlock
<1>14. CASE TickScans
  BY <1>14 DEF TickScans, IdleExpired, instanceVars
<1>15. CASE TickMarks \/ TickFails
  BY <1>15 DEF TickMarks, TickFails, Unlock
<1>16. CASE TickEnds \/ \E j \in Jobs : TickJobRefused(j)
  BY <1>s, <1>16 DEF TickEnds, TickJobRefused, instanceVars, lockVars
<1>17. CASE (\E m \in NewModes : SetMode(m)) \/ WriteMode \/ RuntimeExits \/ Advance
  BY <1>s, <1>17 DEF SetMode, WriteMode, RuntimeExits, Advance, instanceVars, lockVars
<1>18. CASE Crash
  BY <1>18 DEF Crash, Unlock
<1>19. CASE UNCHANGED vars
  BY <1>s, <1>19 DEF vars, instanceVars, lockVars
<1> QED
  BY <1>1, <1>2, <1>3, <1>4, <1>5, <1>6, <1>7, <1>8, <1>9, <1>10, <1>11, <1>12, <1>13, <1>14,
     <1>15, <1>16, <1>17, <1>18, <1>19
     DEF Next, HolderStep, TickerStep, CallerStep, EnvironmentStep

(* The only step that records "stopping" is the one of _stop_locked; a     *)
(* crash cannot bring it back, because the recorded state is never behind. *)
LEMMA StoppingStep ==
    ASSUME TypeOK, AccountInv, [Next]_vars, state' = "stopping", state # "stopping"
    PROVE  at = "stop"
<1>1. CASE Ensure \/ LaunchReady \/ LaunchFails \/ LaunchRuns \/ LaunchEnds
  BY <1>1 DEF Ensure, LaunchReady, LaunchFails, LaunchRuns, LaunchEnds, Transition
<1>2. CASE RecoveryEnds \/ RecoverNever \/ RecoverExhausted \/ RecoverRetries
  BY <1>2 DEF RecoveryEnds, RecoverNever, RecoverExhausted, RecoverRetries, instanceVars
<1>3. CASE StopLocked \/ HaltSucceeds \/ HaltFails \/ HaltEnds
  BY <1>3 DEF StopLocked, HaltSucceeds, HaltFails, HaltEnds, Transition
<1>4. CASE AcquireFails \/ \E s \in Sessions : AcquireSession(s) \/ ReleaseSession(s)
  BY <1>4 DEF AcquireFails, AcquireSession, ReleaseSession
<1>5. CASE Start \/ RestartStarts \/ CallReturns \/ CallRaises \/ NotifyFailure
  BY <1>5 DEF Start, RestartStarts, StartAdmin, CallReturns, CallRaises, NotifyFailure, MarkFailed,
     instanceVars
<1>6. CASE StopRefused \/ Restart \/ \E force \in BOOLEAN : Stop(force)
  BY <1>6 DEF StopRefused, Restart, Stop
<1>7. CASE \E j \in Jobs : RunMaintenance(j) \/ TickRunsJob(j)
  BY <1>7 DEF RunMaintenance, TickRunsJob, BeginMaintenance
<1>8. CASE BeginFails \/ EnterMaintenance \/ LeaveMaintenance \/ MaintenanceEnds
  BY <1>8 DEF BeginFails, EnterMaintenance, LeaveMaintenance, MaintenanceEnds, Transition,
     instanceVars
<1>9. CASE JobStep
  BY <1>9 DEF JobStep, FinishMaintenance, FinishRefused, Transition, MarkFailed
<1>10. CASE Reconcile \/ TickBegins
  <2>1. Findings[1] # "stopping"
    BY DEF Findings
  <2> QED  BY <1>10, <2>1 DEF Reconcile, TickBegins, ReconcileBegins
<1>11. CASE Adopt \/ Settle \/ Converge \/ ReconcileFails
  BY <1>11 DEF Adopt, Settle, Converge, ReconcileFails, Transition, instanceVars
<1>12. CASE TickScans \/ TickMarks \/ TickFails \/ TickEnds \/ \E j \in Jobs : TickJobRefused(j)
  BY <1>12 DEF TickScans, TickMarks, TickFails, TickEnds, TickJobRefused, instanceVars
<1>13. CASE (\E m \in NewModes : SetMode(m)) \/ WriteMode \/ RuntimeExits \/ Advance
  BY <1>13 DEF SetMode, WriteMode, RuntimeExits, Advance, instanceVars
<1>14. CASE Crash
  BY <1>14 DEF Crash, AccountInv
<1>15. CASE UNCHANGED vars
  BY <1>15 DEF vars, instanceVars
<1> QED
  BY <1>1, <1>2, <1>3, <1>4, <1>5, <1>6, <1>7, <1>8, <1>9, <1>10, <1>11, <1>12, <1>13, <1>14, <1>15
     DEF Next, HolderStep, TickerStep, CallerStep, EnvironmentStep

(* "Removing one hold never stops a runtime while another remains": for    *)
(* every declaration, an idle expiry, an unforced or forced stop, a        *)
(* restart and the end of a job stop only a service that nothing holds     *)
(* (_stop_locked and its callers).                                         *)
THEOREM HeldNeverStopped == Spec => NoStopWhileHeld
<1>1. Init => StopInv
  BY DEF Init, StopInv
<1>2. TypeOK /\ AccountInv /\ StopInv /\ [Next]_vars
        => [state' = "stopping" /\ state # "stopping" => ~Held(holds)]_vars
  BY StoppingStep DEF StopInv
<1> QED
  BY <1>1, <1>2, TypeCorrect, AccountInit, AccountStep, StopStep, PTL DEF Spec, NoStopWhileHeld

-----------------------------------------------------------------------------
(* The references granted to the router follow SessionLedger.  The step    *)
(* that grants one is the return of acquire_session; that it is alone on a *)
(* single-session service was checked when its launch began.               *)
LedgerInv ==
    /\ call = "acquire" => who \in sessions
    /\ at = "free" => call = "none"
    /\ SingleSession => \A r, s \in sessions : r = s

(* A step that leaves the references and the acquisition alone.            *)
LEMMA LedgerIdle ==
    ASSUME TypeOK, LedgerInv, sessions' = sessions,
           \/ UNCHANGED <<call, at, who>>
           \/ call = call' /\ who = who' /\ at' # "free"
           \/ at = "free" /\ call' # "acquire" /\ at' # "free"
           \/ call # "acquire" /\ call' = "none"
    PROVE  LedgerInv' /\ UNCHANGED Granted
  BY DEF LedgerInv, Granted

(* With no reference left and none pending, nothing is granted.            *)
LEMMA LedgerCleared ==
    ASSUME sessions' = {}, call' # "acquire", at' = "free" => call' = "none"
    PROVE  LedgerInv' /\ Granted' = {}
  BY DEF LedgerInv, Granted

(* Every step of the supervisor is a step of the ledger or leaves it.      *)
LEMMA LedgerStep ==
    ASSUME TypeOK, LedgerInv, [Next]_vars
    PROVE  LedgerInv' /\ [Ledger!Next]_Granted
<1> DEFINE Goal == LedgerInv' /\ [Ledger!Next]_Granted
<1>g. ASSUME LedgerInv' /\ UNCHANGED Granted PROVE Goal
  BY <1>g
<1> HIDE DEF Goal
<1>1. CASE Ensure \/ LaunchReady \/ LaunchFails \/ LaunchRuns \/ LaunchEnds
  BY <1>g, <1>1, LedgerIdle DEF Ensure, LaunchReady, LaunchFails, LaunchRuns, LaunchEnds, Goto,
     besidesState
<1>2. CASE RecoveryEnds \/ RecoverNever \/ RecoverExhausted \/ RecoverRetries
  BY <1>g, <1>2, LedgerIdle DEF RecoveryEnds, RecoverNever, RecoverExhausted, RecoverRetries,
     StillFailed, Goto, instanceVars
<1>3. CASE StopLocked \/ HaltSucceeds \/ HaltFails \/ HaltEnds
  BY <1>g, <1>3, LedgerIdle DEF StopLocked, HaltSucceeds, HaltFails, HaltEnds, Goto, besidesState
<1>4. CASE \E s \in Sessions : AcquireSession(s)
  <2> PICK s \in Sessions : AcquireSession(s)
    BY <1>4
  <2>1. /\ at = "free" /\ call' = "acquire" /\ who' = s /\ at' = "ensure"
        /\ s \notin sessions /\ sessions' = sessions \cup {s}
        /\ SingleSession => sessions = {}
    BY DEF AcquireSession, Lock, SessionsFull
  <2>2. Granted' = sessions /\ Granted = sessions
    BY <2>1 DEF Granted, LedgerInv
  <2>3. LedgerInv'
    BY <2>1 DEF LedgerInv
  <2> QED  BY <1>g, <2>2, <2>3
<1>5. CASE AcquireFails
  <2>1. call = "acquire" /\ call' = "none" /\ at' = "free" /\ sessions' = sessions \ {who}
    BY <1>5 DEF AcquireFails, Unlock
  <2> QED  BY <1>g, <2>1 DEF Granted, LedgerInv
<1>6. CASE \E s \in Sessions : ReleaseSession(s)
  <2> PICK s \in Sessions : ReleaseSession(s)
    BY <1>6
  <2>1. /\ at = "free" /\ UNCHANGED <<call, at, who>>
        /\ s \in sessions /\ sessions' = sessions \ {s}
    BY DEF ReleaseSession, lockVars
  <2>2. LedgerInv' /\ Granted = sessions /\ Granted' = sessions'
    BY <2>1 DEF LedgerInv, Granted
  <2> QED  BY <2>1, <2>2 DEF Goal, Ledger!Next, Ledger!Release
<1>7. CASE CallReturns
  <2>1. sessions' = sessions /\ call' = "none" /\ at' = "free"
    BY <1>7 DEF CallReturns, Unlock, instanceVars
  <2>2. CASE call = "acquire"
    <3>1. who \in Sessions /\ Granted = sessions \ {who} /\ Granted' = sessions /\ who \in sessions
      BY <2>1, <2>2 DEF Granted, LedgerInv, TypeOK, InstanceTypeOK
    <3>2. Ledger!Acquire(who)
      BY <3>1 DEF LedgerInv, Ledger!Acquire
    <3>3. LedgerInv'
      BY <2>1 DEF LedgerInv
    <3> QED  BY <3>1, <3>2, <3>3 DEF Goal, Ledger!Next
  <2>3. CASE call # "acquire"
    BY <1>g, <2>1, <2>3, LedgerIdle
  <2> QED  BY <2>2, <2>3
<1>8. CASE Start \/ RestartStarts \/ StopRefused \/ NotifyFailure \/ CallRaises
  BY <1>g, <1>8, LedgerIdle DEF Start, RestartStarts, StartAdmin, StopRefused, NotifyFailure,
     CallRaises, Lock, Unlock, besidesState, instanceVars, lockVars
<1>9. CASE Restart \/ \E force \in BOOLEAN : Stop(force)
  <2>1. /\ at = "free" /\ call' # "acquire" /\ at' = "stop"
        /\ sessions' = {} \/ sessions' = sessions
    BY <1>9 DEF Restart, Stop, Lock
  <2>2. CASE sessions' = {}
    <3>1. LedgerInv' /\ Granted' = {}
      BY <2>1, <2>2, LedgerCleared
    <3> QED  BY <3>1 DEF Goal, Ledger!Next, Ledger!Clear
  <2>3. CASE sessions' = sessions
    BY <1>g, <2>1, <2>3, LedgerIdle
  <2> QED  BY <2>1, <2>2, <2>3
<1>10. CASE EnterMaintenance \/ BeginFails \/ LeaveMaintenance \/ MaintenanceEnds
  BY <1>g, <1>10, LedgerIdle DEF EnterMaintenance, BeginFails, LeaveMaintenance, MaintenanceEnds,
     Goto, Unlock, besidesState, instanceVars
<1>11. CASE JobStep
  BY <1>g, <1>11, LedgerIdle DEF JobStep, FinishMaintenance, FinishRefused, Lock, lockVars
<1>12. CASE \E j \in Jobs : RunMaintenance(j) \/ TickRunsJob(j)
  BY <1>g, <1>12, LedgerIdle DEF RunMaintenance, TickRunsJob, BeginMaintenance, Lock
<1>13. CASE Reconcile \/ TickBegins
  <2>1. Findings[2] # "free"
    BY DEF Findings
  <2> QED  BY <1>g, <1>13, <2>1, LedgerIdle DEF Reconcile, TickBegins, ReconcileBegins, Lock
<1>14. CASE Adopt \/ Settle \/ Converge \/ ReconcileFails
  BY <1>g, <1>14, LedgerIdle DEF Adopt, Settle, Converge, ReconcileFails, Goto, Unlock,
     besidesState, instanceVars
<1>15. CASE TickScans \/ TickMarks \/ TickFails \/ TickEnds \/ \E j \in Jobs : TickJobRefused(j)
  BY <1>g, <1>15, LedgerIdle DEF TickScans, TickMarks, TickFails, TickEnds, TickJobRefused, Unlock,
     instanceVars, lockVars
<1>16. CASE (\E m \in NewModes : SetMode(m)) \/ WriteMode \/ RuntimeExits \/ Advance
  BY <1>g, <1>16, LedgerIdle DEF SetMode, WriteMode, RuntimeExits, Advance, instanceVars, lockVars
<1>17. CASE Crash
  <2>1. sessions' = {} /\ call' = "none"
    BY <1>17 DEF Crash, Unlock
  <2>2. LedgerInv' /\ Granted' = {}
    BY <2>1, LedgerCleared
  <2> QED  BY <2>2 DEF Goal, Ledger!Next, Ledger!Clear
<1>18. CASE UNCHANGED vars
  BY <1>g, <1>18, LedgerIdle DEF vars, instanceVars, lockVars
<1> QED
  BY <1>1, <1>2, <1>3, <1>4, <1>5, <1>6, <1>7, <1>8, <1>9, <1>10, <1>11, <1>12, <1>13, <1>14,
     <1>15, <1>16, <1>17, <1>18
     DEF Goal, Next, HolderStep, TickerStep, CallerStep, EnvironmentStep

(* The supervisor implements the ledger of session references that the     *)
(* router relies on (acquire_session, release_session, stop, restart).     *)
THEOREM LedgerImplemented == Spec => ImplementsLedger
<1>1. Init => LedgerInv /\ Ledger!Init
  BY DEF Init, LedgerInv, Granted, Ledger!Init
<1>2. TypeOK /\ LedgerInv /\ [Next]_vars => LedgerInv' /\ [Ledger!Next]_Granted
  BY LedgerStep
<1> QED  BY <1>1, <1>2, TypeCorrect, PTL DEF Spec, ImplementsLedger, Ledger!Spec

-----------------------------------------------------------------------------
(* The marks in _jobs_running.  A job that has a thread is marked, except  *)
(* under the lock at its very end, where the mark is given back before the *)
(* recovery or the stop that the end of the job may call for.              *)
FinishCalls == {"complete", "job_error"}

JobMarked(j) ==
    \/ phase[j] = "idle"
    \/ j \in jobsRunning
    \/ who = j /\ call \in FinishCalls /\ at # "finish"

JobInv ==
    /\ at = "free" => call = "none"
    /\ at = "finish" => call \in FinishCalls
    /\ call = "begin" => who \in jobsRunning
    /\ \A j \in Jobs : JobMarked(j)

(* A step of the lock holder that neither begins nor ends a job.           *)
LEMMA JobIdle ==
    ASSUME JobInv, UNCHANGED <<phase, jobsRunning>>,
           \/ UNCHANGED <<call, at, who>>
           \/ call = call' /\ who = who' /\ at' \notin {"free", "finish"}
           \/ at = "free" /\ call' # "begin" /\ at' \notin {"free", "finish"}
           \/ call \notin FinishCalls /\ call' = "none" /\ at' = "free"
    PROVE  JobInv'
  BY DEF JobInv, JobMarked, FinishCalls

(* Every step keeps the threads of jobs and the marks together.            *)
LEMMA JobMarkStep == TypeOK /\ JobInv /\ [Next]_vars => JobInv'
<1> SUFFICES ASSUME TypeOK, JobInv, [Next]_vars PROVE JobInv'
  OBVIOUS
<1>t. phase \in [Jobs -> Phases] /\ jobsRunning \subseteq Jobs
  BY DEF TypeOK, ThreadsTypeOK
<1> USE DEF threads, jobVars, Goto
<1>1. CASE Ensure \/ LaunchReady \/ LaunchFails \/ LaunchRuns \/ LaunchEnds
  BY <1>1, JobIdle DEF Ensure, LaunchReady, LaunchFails, LaunchRuns, LaunchEnds
<1>2. CASE RecoveryEnds \/ RecoverNever \/ RecoverExhausted \/ RecoverRetries
  BY <1>2, JobIdle DEF RecoveryEnds, RecoverNever, RecoverExhausted, RecoverRetries, StillFailed
<1>3. CASE StopLocked \/ HaltSucceeds \/ HaltFails \/ HaltEnds
  BY <1>3, JobIdle DEF StopLocked, HaltSucceeds, HaltFails, HaltEnds
<1>4. CASE AcquireFails \/ \E s \in Sessions : AcquireSession(s) \/ ReleaseSession(s)
  BY <1>4, JobIdle DEF AcquireFails, AcquireSession, ReleaseSession, Lock, Unlock, lockVars, FinishCalls
<1>5. CASE Start \/ RestartStarts \/ StopRefused \/ NotifyFailure
  BY <1>5, JobIdle DEF Start, RestartStarts, StartAdmin, StopRefused, NotifyFailure, Lock, lockVars
<1>6. CASE CallReturns \/ CallRaises \/ Restart \/ \E force \in BOOLEAN : Stop(force)
  BY <1>6, JobIdle DEF CallReturns, CallRaises, Restart, Stop, Lock, Unlock, FinishCalls
<1>7. ASSUME NEW j \in Jobs, BeginMaintenance(j)
      PROVE  JobInv'
  <2>1. /\ at = "free" /\ call' = "begin" /\ at' = "ensure" /\ who' = j
        /\ jobsRunning' = jobsRunning \cup {j} /\ phase' = [phase EXCEPT ![j] = "begin"]
    BY <1>7 DEF BeginMaintenance, Lock
  <2> QED  BY <1>t, <2>1 DEF JobInv, JobMarked, FinishCalls
<1>8. CASE \E j \in Jobs : RunMaintenance(j) \/ TickRunsJob(j)
  BY <1>7, <1>8 DEF RunMaintenance, TickRunsJob
<1>9. CASE EnterMaintenance
  <2>1. CASE phase' = [phase EXCEPT ![who] = "driver"] /\ Unlock
    BY <1>t, <1>9, <2>1 DEF EnterMaintenance, Unlock, JobInv, JobMarked, FinishCalls
  <2>2. CASE Goto("raise") /\ UNCHANGED phase
    BY <1>9, <2>2, JobIdle DEF EnterMaintenance
  <2> QED  BY <1>9, <2>1, <2>2 DEF EnterMaintenance
<1>10. CASE BeginFails
  <2>1. /\ call = "begin" /\ call' = "none" /\ at' = "free"
        /\ jobsRunning' = jobsRunning \ {who} /\ phase' = [phase EXCEPT ![who] = "idle"]
    BY <1>10 DEF BeginFails, EndJob, Unlock
  <2> QED  BY <1>t, <2>1 DEF JobInv, JobMarked, FinishCalls
<1>11. CASE LeaveMaintenance
  <2>1. /\ at = "finish" /\ at' \in {"recover", "stop", "return"} /\ UNCHANGED <<call, who, phase>>
        /\ jobsRunning' = jobsRunning \ {who}
    BY <1>11 DEF LeaveMaintenance
  <2> QED  BY <2>1 DEF JobInv, JobMarked, FinishCalls
<1>12. CASE MaintenanceEnds
  <2>1. /\ call \in FinishCalls /\ call' = "none" /\ at' = "free"
        /\ UNCHANGED jobsRunning /\ phase' = [phase EXCEPT ![who] = "idle"]
    BY <1>12 DEF MaintenanceEnds, EndJob, Unlock, FinishCalls
  <2> QED  BY <1>t, <2>1 DEF JobInv, JobMarked, FinishCalls
<1>13. CASE JobStep
  <2> PICK j \in Jobs, ok \in BOOLEAN : FinishMaintenance(j, ok) \/ FinishRefused(j, ok)
    BY <1>13 DEF JobStep
  <2>1. CASE FinishMaintenance(j, ok)
    <3>1. /\ at = "free" /\ call' \in FinishCalls /\ at' = "finish" /\ phase[j] = "driver"
          /\ UNCHANGED jobsRunning /\ phase' = [phase EXCEPT ![j] = "finish"]
      BY <2>1 DEF FinishMaintenance, Lock, FinishCalls
    <3> QED  BY <1>t, <3>1 DEF JobInv, JobMarked, FinishCalls
  <2>2. CASE FinishRefused(j, ok)
    <3>1. /\ at = "free" /\ UNCHANGED <<call, at, who, jobsRunning>>
          /\ phase' = [phase EXCEPT ![j] = "idle"]
      BY <2>2 DEF FinishRefused, EndJob, lockVars
    <3> QED  BY <1>t, <3>1 DEF JobInv, JobMarked, FinishCalls
  <2> QED  BY <2>1, <2>2
<1>14. CASE Reconcile \/ TickBegins
  <2>1. Findings[2] \notin {"free", "finish"}
    BY DEF Findings
  <2> QED  BY <1>14, <2>1, JobIdle DEF Reconcile, TickBegins, ReconcileBegins, Lock
<1>15. CASE Adopt \/ Settle \/ Converge \/ ReconcileFails
  BY <1>15, JobIdle DEF Adopt, Settle, Converge, ReconcileFails, Unlock, FinishCalls
<1>16. CASE TickScans \/ TickMarks \/ TickFails \/ TickEnds \/ \E j \in Jobs : TickJobRefused(j)
  BY <1>16, JobIdle DEF TickScans, TickMarks, TickFails, TickEnds, TickJobRefused, Unlock, lockVars,
     FinishCalls
<1>17. CASE (\E m \in NewModes : SetMode(m)) \/ WriteMode \/ RuntimeExits \/ Advance
  BY <1>17, JobIdle DEF SetMode, WriteMode, RuntimeExits, Advance, lockVars
<1>18. CASE Crash
  BY <1>18 DEF Crash, Unlock, JobInv, JobMarked
<1>19. CASE UNCHANGED vars
  BY <1>19, JobIdle DEF vars, lockVars
<1> QED
  BY <1>1, <1>2, <1>3, <1>4, <1>5, <1>6, <1>8, <1>9, <1>10, <1>11, <1>12, <1>13, <1>14, <1>15,
     <1>16, <1>17, <1>18, <1>19
     DEF Next, HolderStep, TickerStep, CallerStep, EnvironmentStep

(* No job is marked or has a thread at first.                              *)
LEMMA JobInit == Init => JobInv
  BY DEF Init, JobInv, JobMarked

(* Only the beginning of a job puts its thread at the beginning.           *)
LEMMA BeginStep ==
    ASSUME TypeOK, [Next]_vars, NEW j \in Jobs, phase[j] # "begin", phase'[j] = "begin"
    PROVE  BeginMaintenance(j)
<1>t. phase \in [Jobs -> Phases] /\ who \in Sessions \cup Jobs \cup {Nobody}
  BY DEF TypeOK, ThreadsTypeOK, HolderTypeOK
<1>1. CASE \E k \in Jobs : RunMaintenance(k) \/ TickRunsJob(k)
  <2> PICK k \in Jobs : BeginMaintenance(k)
    BY <1>1 DEF RunMaintenance, TickRunsJob
  <2>1. k = j
    BY <1>t DEF BeginMaintenance
  <2> QED  BY <2>1
<1>2. CASE EnterMaintenance \/ BeginFails \/ LeaveMaintenance \/ MaintenanceEnds \/ JobStep
  BY <1>t, <1>2 DEF EnterMaintenance, BeginFails, LeaveMaintenance, MaintenanceEnds, JobStep, EndJob,
     FinishMaintenance, FinishRefused
<1>3. CASE UNCHANGED phase
  BY <1>3
<1>4. CASE HolderStep
  BY <1>2, <1>3, <1>4 DEF HolderStep, Ensure, LaunchReady, LaunchFails, LaunchRuns, LaunchEnds,
     RecoveryEnds, RecoverNever, RecoverExhausted, RecoverRetries, StopLocked, HaltSucceeds,
     HaltFails, HaltEnds, AcquireFails, Adopt, Settle, Converge, ReconcileFails, TickMarks,
     TickFails, CallReturns, CallRaises, threads, jobVars
<1>5. CASE TickerStep
  BY <1>1, <1>3, <1>5 DEF TickerStep, TickBegins, ReconcileBegins, TickScans, TickEnds,
     TickJobRefused, threads, jobVars
<1>6. CASE CallerStep
  BY <1>1, <1>3, <1>6 DEF CallerStep, Start, RestartStarts, StartAdmin, StopRefused, Restart, Stop,
     NotifyFailure, Reconcile, ReconcileBegins, AcquireSession, ReleaseSession, SetMode, threads,
     jobVars
<1>7. CASE EnvironmentStep
  BY <1>3, <1>7 DEF EnvironmentStep, WriteMode, RuntimeExits, Advance, Crash, threads, jobVars
<1>8. CASE UNCHANGED vars
  BY <1>3, <1>8 DEF vars, jobVars
<1> QED  BY <1>2, <1>4, <1>5, <1>6, <1>7, <1>8 DEF Next

(* While a job has a thread, neither a tick nor an operator starts it      *)
(* again, for any jobs and however ticks, failures of the runtime, forced  *)
(* stops and refused ends of jobs interleave (run_maintenance and the      *)
(* _jobs_running guard).                                                   *)
THEOREM JobsRunOnce == Spec => JobNeverTwice
<1>1. ASSUME TypeOK, JobInv, [Next]_vars,
             NEW j \in Jobs, phase[j] # "idle", phase'[j] = "begin"
      PROVE  phase[j] = "begin"
  <2> SUFFICES ASSUME phase[j] # "begin" PROVE FALSE
    OBVIOUS
  <2>1. BeginMaintenance(j)
    BY <1>1, BeginStep
  <2>2. at = "free" /\ j \notin jobsRunning
    BY <2>1 DEF BeginMaintenance, Lock, MayBegin
  <2> QED  BY <1>1, <2>2 DEF JobInv, JobMarked, FinishCalls
<1>2. TypeOK /\ JobInv /\ [Next]_vars
        => [\A j \in Jobs : phase[j] # "idle" /\ phase'[j] = "begin" => phase[j] = "begin"]_vars
  BY <1>1
<1> QED  BY <1>2, TypeCorrect, JobInit, JobMarkStep, PTL DEF Spec, JobNeverTwice

-----------------------------------------------------------------------------
(* Exhaustion.  An exhausted account has no next attempt, in memory and on *)
(* disk, so that neither a due recovery nor a reconciliation leads to a    *)
(* launch of the failed service; only a demand does.                       *)
Demands == {"start", "acquire", "begin"}

ExhaustedInv ==
    /\ exhausted => nextRestart = NoTime
    /\ disk.exhausted => disk.nextRestart = NoTime
    /\ at = "ensure" /\ state = "failed" /\ exhausted => call \in Demands

(* Every step keeps it.                                                    *)
LEMMA ExhaustedStep == TypeOK /\ ExhaustedInv /\ [Next]_vars => ExhaustedInv'
<1> SUFFICES ASSUME TypeOK, ExhaustedInv, [Next]_vars PROVE ExhaustedInv'
  OBVIOUS
<1>k. ASSUME exhausted' => nextRestart' = NoTime, Persist \/ UNCHANGED disk,
             at' = "ensure" /\ state' = "failed" /\ exhausted' => call' \in Demands
      PROVE  ExhaustedInv'
  BY <1>k, PersistEffects DEF ExhaustedInv
<1>s. ASSUME UNCHANGED <<nextRestart, exhausted>>, Persist \/ UNCHANGED disk,
             \/ at' # "ensure"
             \/ call' \in Demands
             \/ UNCHANGED <<at, call, state>>
      PROVE  ExhaustedInv'
  BY <1>k, <1>s DEF ExhaustedInv
<1> USE DEF account
<1>1. CASE Ensure \/ LaunchReady \/ LaunchFails \/ LaunchRuns
  BY <1>s, <1>1 DEF Ensure, LaunchReady, LaunchFails, LaunchRuns, besidesState, PersistIf, Goto
<1>2. CASE LaunchEnds \/ RecoverExhausted
  BY <1>k, <1>2 DEF LaunchEnds, RecoverExhausted, Goto
<1>3. CASE RecoverRetries
  BY <1>k, <1>3 DEF RecoverRetries
<1>4. CASE RecoveryEnds \/ RecoverNever
  BY <1>s, <1>4 DEF RecoveryEnds, RecoverNever, StillFailed, instanceVars, Goto
<1>5. CASE StopLocked \/ HaltSucceeds \/ HaltFails \/ HaltEnds
  BY <1>s, <1>5 DEF StopLocked, HaltSucceeds, HaltFails, HaltEnds, besidesState, PersistIf, Goto
<1>6. CASE AcquireFails \/ NotifyFailure \/ \E s \in Sessions : AcquireSession(s) \/ ReleaseSession(s)
  BY <1>s, <1>6 DEF AcquireFails, NotifyFailure, AcquireSession, ReleaseSession, Lock, Unlock,
     lockVars, besidesState, Demands
<1>7. CASE Start \/ RestartStarts
  <2>1. /\ exhausted' => exhausted
        /\ nextRestart' = nextRestart
        /\ Persist \/ UNCHANGED disk
        /\ call' = "start"
    BY <1>7 DEF Start, RestartStarts, StartAdmin, PersistIf, Lock
  <2> QED  BY <1>k, <2>1 DEF ExhaustedInv, Demands
<1>8. CASE StopRefused \/ CallReturns \/ CallRaises \/ Restart \/ \E force \in BOOLEAN : Stop(force)
  BY <1>s, <1>8 DEF StopRefused, CallReturns, CallRaises, Restart, Stop, Lock, Unlock, lockVars,
     instanceVars
<1>9. CASE \E j \in Jobs : RunMaintenance(j) \/ TickRunsJob(j)
  BY <1>s, <1>9 DEF RunMaintenance, TickRunsJob, BeginMaintenance, Lock, Demands
<1>10. CASE BeginFails \/ EnterMaintenance \/ LeaveMaintenance \/ MaintenanceEnds
  BY <1>s, <1>10 DEF BeginFails, EnterMaintenance, LeaveMaintenance, MaintenanceEnds, Goto, Unlock,
     besidesState, instanceVars, PersistIf
<1>11. CASE JobStep
  BY <1>s, <1>11 DEF JobStep, FinishMaintenance, FinishRefused, Lock, lockVars
<1>12. CASE Reconcile \/ TickBegins
  <2>1. Findings[2] # "ensure"
    BY DEF Findings
  <2> QED  BY <1>s, <1>12, <2>1 DEF Reconcile, TickBegins, ReconcileBegins, Lock, PersistIf
<1>13. CASE Adopt \/ Settle \/ ReconcileFails
  BY <1>s, <1>13 DEF Adopt, Settle, ReconcileFails, Goto, Unlock, besidesState, instanceVars
<1>14. CASE Converge
  <2>1. CASE WantsLaunch
    <3>1. ~(state' = "failed" /\ exhausted') /\ UNCHANGED <<nextRestart, exhausted, disk>>
      BY <1>14, <2>1 DEF Converge, WantsLaunch, Goto, PersistIf
    <3> QED  BY <1>k, <3>1 DEF ExhaustedInv
  <2>2. CASE ~WantsLaunch
    BY <1>s, <1>14, <2>2 DEF Converge, Unlock, PersistIf
  <2> QED  BY <2>1, <2>2
<1>15. CASE TickScans
  <2>1. UNCHANGED <<state, nextRestart, exhausted, disk>>
    BY <1>15 DEF TickScans, instanceVars
  <2>2. at' = "ensure" => nextRestart = 0
    BY <1>15 DEF TickScans, RecoveryDue
  <2>3. exhausted => nextRestart # 0
    BY DEF ExhaustedInv, NoTime
  <2> QED  BY <1>k, <2>1, <2>2, <2>3 DEF ExhaustedInv
<1>16. CASE TickMarks \/ TickFails \/ TickEnds \/ \E j \in Jobs : TickJobRefused(j)
  BY <1>s, <1>16 DEF TickMarks, TickFails, TickEnds, TickJobRefused, Unlock, lockVars, instanceVars,
     PersistIf
<1>17. CASE (\E m \in NewModes : SetMode(m)) \/ WriteMode \/ RuntimeExits
  BY <1>s, <1>17 DEF SetMode, WriteMode, RuntimeExits, instanceVars, lockVars
<1>18. CASE Advance
  <2>1. /\ UNCHANGED <<state, at, call, exhausted>>
        /\ nextRestart' = Nearer(nextRestart)
        /\ disk'.exhausted = disk.exhausted
        /\ disk'.nextRestart = Nearer(disk.nextRestart)
    BY <1>18 DEF Advance
  <2> QED  BY <2>1 DEF ExhaustedInv, Nearer, NoTime
<1>19. CASE Crash
  BY <1>19 DEF Crash, Unlock, ExhaustedInv
<1>20. CASE UNCHANGED vars
  BY <1>s, <1>20 DEF vars, instanceVars, lockVars
<1> QED
  BY <1>1, <1>2, <1>3, <1>4, <1>5, <1>6, <1>7, <1>8, <1>9, <1>10, <1>11, <1>12, <1>13, <1>14,
     <1>15, <1>16, <1>17, <1>18, <1>19, <1>20
     DEF Next, HolderStep, TickerStep, CallerStep, EnvironmentStep

(* Recovery is not exhausted at first.                                     *)
LEMMA ExhaustedInit == Init => ExhaustedInv
  BY DEF Init, Saved, ExhaustedInv

(* A failed service is recorded as starting by a launch or by an adoption; *)
(* a crash brings back no other state, the recorded one never being behind. *)
LEMMA StartingStep ==
    ASSUME AccountInv, [Next]_vars, state = "failed", state' = "starting"
    PROVE  at \in {"ensure", "adopt"}
<1>1. CASE HolderStep
  BY <1>1 DEF HolderStep, Ensure, LaunchReady, LaunchFails, LaunchRuns, LaunchEnds, RecoveryEnds,
     RecoverNever, RecoverExhausted, RecoverRetries, StopLocked, HaltSucceeds, HaltFails, HaltEnds,
     AcquireFails, EnterMaintenance, BeginFails, LeaveMaintenance, MaintenanceEnds, Adopt, Settle,
     Converge, ReconcileFails, TickMarks, TickFails, CallReturns, CallRaises, Transition,
     instanceVars
<1>2. Findings[1] # "starting"
  BY DEF Findings
<1>3. CASE TickerStep \/ JobStep
  BY <1>2, <1>3 DEF TickerStep, TickBegins, ReconcileBegins, TickScans, TickEnds, TickRunsJob,
     TickJobRefused, BeginMaintenance, JobStep, FinishMaintenance, FinishRefused, Transition,
     MarkFailed, instanceVars
<1>4. CASE CallerStep
  BY <1>2, <1>4 DEF CallerStep, Start, RestartStarts, StartAdmin, StopRefused, Stop, Restart,
     NotifyFailure, MarkFailed, Reconcile, ReconcileBegins, AcquireSession, ReleaseSession,
     RunMaintenance, BeginMaintenance, SetMode, instanceVars
<1>5. CASE EnvironmentStep
  BY <1>5 DEF EnvironmentStep, WriteMode, RuntimeExits, Advance, Crash, AccountInv, instanceVars
<1>6. CASE UNCHANGED vars
  BY <1>6 DEF vars, instanceVars
<1> QED  BY <1>1, <1>3, <1>4, <1>5, <1>6 DEF Next

(* Once recovery has given up, ticks, reconciliations, reported failures,  *)
(* ends of jobs and restarts of the supervisor leave the failed service    *)
(* down; a start, a session or a job launches it, and a runtime found      *)
(* alive is adopted (_restart_after_failure_locked, _reconcile_locked,     *)
(* tick, from_dict).                                                       *)
THEOREM ExhaustionRespected == Spec => ExhaustedStaysDown
<1>1. ASSUME AccountInv, ExhaustedInv, [Next]_vars, exhausted, state = "failed", state' = "starting"
      PROVE  at = "adopt" \/ call \in {"start", "acquire", "begin"}
  <2>1. at \in {"ensure", "adopt"}
    BY <1>1, StartingStep
  <2> QED  BY <1>1, <2>1 DEF ExhaustedInv, Demands
<1>2. AccountInv /\ ExhaustedInv /\ [Next]_vars
        => [exhausted /\ state = "failed" /\ state' = "starting"
              => at = "adopt" \/ call \in {"start", "acquire", "begin"}]_vars
  BY <1>1
<1> QED
  BY <1>2, TypeCorrect, AccountInit, AccountStep, ExhaustedInit, ExhaustedStep, PTL
     DEF Spec, ExhaustedStaysDown

-----------------------------------------------------------------------------
(* Where the lock holder stands, the recorded state is the one that its    *)
(* next transition starts from.  A reconciliation comes to its launch from *)
(* a service that is down, and to its end with one that is at rest.        *)
AtRest == {"running", "stopped", "failed"}

StateAt ==
    /\ at = "launch" => state = "starting"
    /\ at = "ready" => state = "ready"
    /\ at \in {"running", "recovered"} => state = "running"
    /\ at \in {"recover", "retry", "settle"} => state = "failed"
    /\ at = "halt" => state = "stopping"
    /\ at = "halted" => state = "stopped"
    /\ at = "finish" /\ call = "job_error" => state = "failed"

ReconcileAt ==
    /\ at = "free" => call = "none"
    /\ at = "finish" => call \in FinishCalls
    /\ call = "reconcile" /\ at = "ensure" => state \in {"stopped", "failed"}
    /\ call = "reconcile" /\ at = "return" => state \in AtRest

PointInv == StateAt /\ ReconcileAt

(* Every step keeps the recorded state in step with the lock holder.       *)
LEMMA PointStep == TypeOK /\ PointInv /\ [Next]_vars => PointInv'
<1> SUFFICES ASSUME TypeOK, PointInv, [Next]_vars PROVE PointInv'
  OBVIOUS
<1> USE DEF PointInv, StateAt, ReconcileAt, AtRest, FinishCalls
<1>s. ASSUME UNCHANGED <<state, at, call>> PROVE PointInv'
  BY <1>s
<1>f. ASSUME call' = "none", at' = "free" PROVE PointInv'
  BY <1>f
<1>1. CASE Ensure \/ LaunchReady \/ LaunchFails \/ LaunchRuns \/ LaunchEnds
  BY <1>1 DEF Ensure, LaunchReady, LaunchFails, LaunchRuns, LaunchEnds, Transition, Goto,
     ActiveStates
<1>2. CASE RecoveryEnds \/ RecoverNever \/ RecoverExhausted \/ RecoverRetries
  BY <1>2 DEF RecoveryEnds, RecoverNever, RecoverExhausted, RecoverRetries, Recovering, StillFailed,
     Goto, instanceVars
<1>3. CASE StopLocked \/ HaltSucceeds \/ HaltFails \/ HaltEnds
  BY <1>3 DEF StopLocked, HaltSucceeds, HaltFails, HaltEnds, Transition, Goto
<1>4. CASE AcquireFails \/ BeginFails \/ MaintenanceEnds \/ ReconcileFails \/ TickMarks \/ TickFails
           \/ CallReturns \/ CallRaises \/ Crash
  BY <1>f, <1>4 DEF AcquireFails, BeginFails, MaintenanceEnds, ReconcileFails, TickMarks, TickFails,
     CallReturns, CallRaises, Crash, Unlock
<1>5. CASE StopRefused \/ \E s \in Sessions : ReleaseSession(s)
  BY <1>s, <1>5 DEF StopRefused, ReleaseSession, lockVars
<1>6. CASE Start \/ RestartStarts \/ NotifyFailure \/ \E s \in Sessions : AcquireSession(s)
  BY <1>6 DEF Start, RestartStarts, StartAdmin, NotifyFailure, MarkFailed, AcquireSession, Lock
<1>7. CASE Restart \/ \E force \in BOOLEAN : Stop(force)
  BY <1>7 DEF Restart, Stop, Lock
<1>8. CASE \E j \in Jobs : RunMaintenance(j) \/ TickRunsJob(j)
  BY <1>8 DEF RunMaintenance, TickRunsJob, BeginMaintenance, Lock
<1>9. CASE EnterMaintenance \/ LeaveMaintenance
  BY <1>9 DEF EnterMaintenance, LeaveMaintenance, Goto, Unlock
<1>10. CASE JobStep
  BY <1>10 DEF JobStep, FinishMaintenance, FinishRefused, MarkFailed, Lock, lockVars
<1>11. CASE Reconcile \/ TickBegins
  <2>1. /\ Findings[2] \in {"adopt", "return", "settle", "recover"}
        /\ Findings[2] \in {"settle", "recover"} => Findings[1] = "failed"
        /\ Findings[2] = "return" => Findings[1] \in AtRest
    <3>1. state \in States /\ alive \in BOOLEAN
      BY DEF TypeOK, InstanceTypeOK, EnvironmentTypeOK
    <3> QED  BY <3>1 DEF Findings, States
  <2> QED  BY <1>11, <2>1 DEF Reconcile, TickBegins, ReconcileBegins, Lock
<1>12. CASE Adopt \/ Settle
  BY <1>12 DEF Adopt, Settle, Transition, Goto
<1>13. CASE Converge
  BY <1>f, <1>13 DEF Converge, WantsLaunch, Goto, Unlock
<1>14. CASE TickScans
  BY <1>14 DEF TickScans, instanceVars
<1>15. CASE TickEnds \/ \E j \in Jobs : TickJobRefused(j)
  BY <1>s, <1>15 DEF TickEnds, TickJobRefused, instanceVars, lockVars
<1>16. CASE (\E m \in NewModes : SetMode(m)) \/ WriteMode \/ RuntimeExits \/ Advance
  BY <1>s, <1>16 DEF SetMode, WriteMode, RuntimeExits, Advance, instanceVars, lockVars
<1>17. CASE UNCHANGED vars
  BY <1>s, <1>17 DEF vars, instanceVars, lockVars
<1> QED
  BY <1>1, <1>2, <1>3, <1>4, <1>5, <1>6, <1>7, <1>8, <1>9, <1>10, <1>11, <1>12, <1>13, <1>14,
     <1>15, <1>16, <1>17
     DEF Next, HolderStep, TickerStep, CallerStep, EnvironmentStep

(* At first nobody holds the lock.                                         *)
LEMMA PointInit == Init => PointInv
  BY DEF Init, PointInv, StateAt, ReconcileAt

(* A step that ends a reconciliation, and is no crash, finds nothing left  *)
(* to launch.                                                              *)
LEMMA ReconcileReturns ==
    ASSUME TypeOK, [Next]_vars, call = "reconcile", at = "return", at' = "free", crashes' = crashes
    PROVE  ~WantsLaunch /\ UNCHANGED <<state, holds, exhausted, nextRestart>>
<1>1. CASE HolderStep
  BY <1>1 DEF HolderStep, Ensure, LaunchReady, LaunchFails, LaunchRuns, LaunchEnds, RecoveryEnds,
     RecoverNever, RecoverExhausted, RecoverRetries, Recovering, StopLocked, HaltSucceeds, HaltFails,
     HaltEnds, AcquireFails, EnterMaintenance, BeginFails, LeaveMaintenance, MaintenanceEnds, Adopt,
     Settle, Converge, ReconcileFails, TickMarks, TickFails, CallReturns, CallRaises, Goto, account
<1>2. CASE TickerStep \/ JobStep
  BY <1>2 DEF TickerStep, TickBegins, ReconcileBegins, TickScans, TickEnds, TickRunsJob,
     TickJobRefused, BeginMaintenance, JobStep, FinishMaintenance, FinishRefused, Lock, lockVars
<1>3. CASE CallerStep
  BY <1>3 DEF CallerStep, Start, RestartStarts, StartAdmin, StopRefused, Stop, Restart,
     NotifyFailure, Reconcile, ReconcileBegins, AcquireSession, ReleaseSession, RunMaintenance,
     BeginMaintenance, SetMode, Lock, lockVars
<1>4. CASE EnvironmentStep
  <2>1. crashes + 1 # crashes
    BY SupervisorAssumption DEF TypeOK, EnvironmentTypeOK
  <2> QED  BY <1>4, <2>1 DEF EnvironmentStep, WriteMode, RuntimeExits, Advance, Crash, lockVars
<1>5. CASE UNCHANGED vars
  BY <1>5 DEF vars, lockVars
<1> QED  BY <1>1, <1>2, <1>3, <1>4, <1>5 DEF Next

(* Whatever state and runtime a reconciliation found, and however its      *)
(* launch and recovery went, one that returns leaves no transient state,   *)
(* no held service stopped, and a held service failed only where recovery  *)
(* has given up or waits for its backoff (_reconcile_locked).              *)
THEOREM ReconciliationSettles == Spec => ReconcileSettles
<1> DEFINE Settled == \/ state' = "running"
                      \/ state' = "stopped" /\ ~Held(holds')
                      \/ state' = "failed" /\ (Held(holds') => exhausted' \/ nextRestart' > 0)
<1>1. ASSUME TypeOK, PointInv, [Next]_vars,
             call = "reconcile", at = "return", at' = "free", crashes' = crashes
      PROVE  Settled
  <2>1. ~WantsLaunch /\ UNCHANGED <<state, holds, exhausted, nextRestart>>
    BY <1>1, ReconcileReturns
  <2>2. state \in AtRest
    BY <1>1 DEF PointInv, ReconcileAt
  <2>3. nextRestart \notin {NoTime, 0} => nextRestart > 0
    BY <1>1, SupervisorAssumption DEF TypeOK, InstanceTypeOK, RetryTimes, NoTime
  <2>4. Held(holds') <=> Held(holds)
    BY <2>1 DEF Held
  <2> QED  BY <2>1, <2>2, <2>3, <2>4 DEF WantsLaunch, AtRest
<1>2. TypeOK /\ PointInv /\ [Next]_vars
        => [call = "reconcile" /\ at = "return" /\ at' = "free" /\ crashes' = crashes
              => Settled]_vars
  BY <1>1
<1> QED  BY <1>2, TypeCorrect, PointInit, PointStep, PTL DEF Spec, ReconcileSettles
=============================================================================
