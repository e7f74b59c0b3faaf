-------------------------- MODULE SupervisorTypes ---------------------------
(***************************************************************************)
(* Type correctness of the supervisor of one service, for every set of     *)
(* sessions and jobs and every setting of the lifecycle declaration.       *)
(***************************************************************************)
EXTENDS Supervisor, TLAPS, FiniteSetTheorems, SequenceTheorems

-----------------------------------------------------------------------------
(* The operators the steps are built from.                                 *)

(* Pruning keeps a sequence of ages, and never lengthens it.               *)
LEMMA PriorType ==
    ASSUME NEW times \in Seq(Ages)
    PROVE  Prior(times) \in Seq(Ages) /\ Len(Prior(times)) <= Len(times)
<1> DEFINE n == Cardinality(InWindow(times))
           m == Len(times) - n + 1
<1>1. Len(times) \in Nat /\ DOMAIN times = 1 .. Len(times)
  BY LenProperties
<1>2. n \in Nat /\ n <= Len(times)
  <2>1. IsFiniteSet(1 .. Len(times)) /\ Cardinality(1 .. Len(times)) = Len(times)
    BY <1>1, FS_Interval
  <2>2. InWindow(times) \in SUBSET (1 .. Len(times))
    BY <1>1 DEF InWindow
  <2> QED  BY <2>1, <2>2, FS_Subset, FS_CardinalityType
<1>3. m \in Int /\ m >= 1 /\ \A i \in m .. Len(times) : times[i] \in Ages
  BY <1>1, <1>2, ElementOfSeq
<1> HIDE DEF n
<1>4. /\ SubSeq(times, m, Len(times)) \in Seq(Ages)
      /\ Len(SubSeq(times, m, Len(times))) = IF m <= Len(times) THEN Len(times) - m + 1 ELSE 0
  BY <1>1, <1>3, SubSeqProperties
<1> QED  BY <1>1, <1>2, <1>4 DEF Prior, n

(* The passage of time keeps ages in range and loses none of them.         *)
LEMMA OlderType ==
    ASSUME NEW times \in Seq(Ages)
    PROVE  Older(times) \in Seq(Ages) /\ Len(Older(times)) = Len(times)
<1>1. Len(times) \in Nat /\ DOMAIN times = 1 .. Len(times) /\ times \in [1 .. Len(times) -> Ages]
  BY LenProperties
<1>2. Older(times) \in [1 .. Len(times) -> Ages]
  BY <1>1, SupervisorAssumption DEF Older, Ages
<1>3. Older(times) \in Seq(Ages)
  BY <1>1, <1>2, SeqDef
<1>4. DOMAIN Older(times) = 1 .. Len(Older(times)) /\ Len(Older(times)) \in Nat
  BY <1>3, LenProperties
<1>5. DOMAIN Older(times) = 1 .. Len(times)
  BY <1>2
<1>6. ASSUME NEW a \in Nat, NEW b \in Nat, 1 .. a = 1 .. b  PROVE a = b
  <2>1. Cardinality(1 .. a) = a /\ Cardinality(1 .. b) = b
    BY FS_Interval
  <2> QED  BY <1>6, <2>1
<1>7. Len(Older(times)) = Len(times)
  BY <1>1, <1>4, <1>5, <1>6
<1> QED  BY <1>3, <1>7

(* Every operation on the counts yields counts.                            *)
LEMMA HoldTypes ==
    ASSUME NEW h \in [Reasons -> Nat], NEW r \in Reasons
    PROVE  /\ AddHold(h, r) \in [Reasons -> Nat]
           /\ RemoveHold(h, r) \in [Reasons -> Nat]
           /\ DropHold(h, r) \in [Reasons -> Nat]
           /\ SetHold(h, r) \in [Reasons -> Nat]
  BY DEF AddHold, RemoveHold, DropHold, SetHold

(* What is written to the state file is a snapshot.                        *)
LEMMA SavedType == InstanceTypeOK' => Saved' \in Snapshots
  BY DEF InstanceTypeOK, Saved, Snapshots, Reasons, DurableReasons

(* Ages of runs stay ages when time passes.                                *)
LEMMA ElapsedType ==
    ASSUME NEW runs \in [Jobs -> RunAges]
    PROVE  Elapsed(runs) \in [Jobs -> RunAges]
  BY SupervisorAssumption DEF Elapsed, RunAges, NoTime

(* Giving up the lock, moving on and taking the lock keep the lock holder  *)
(* well typed.                                                             *)
LEMMA UnlockType == Unlock => HolderTypeOK'
<1> SUFFICES ASSUME Unlock PROVE HolderTypeOK'
  OBVIOUS
<1>1. nested' \in BOOLEAN
  BY Zenon DEF Unlock
<1> QED  BY <1>1, SupervisorAssumption DEF Unlock, HolderTypeOK, Calls, Points

(* Control stays within the program counters.                              *)
LEMMA GotoType ==
    ASSUME HolderTypeOK, NEW p \in Points, Goto(p)
    PROVE  HolderTypeOK'
  BY DEF Goto, HolderTypeOK

(* Taking the lock keeps the types.                                        *)
LEMMA LockType ==
    ASSUME HolderTypeOK, NEW c \in Calls, NEW p \in Points,
           NEW x \in Sessions \cup Jobs \cup {Nobody}, Lock(c, p, x)
    PROVE  HolderTypeOK'
  BY DEF Lock, HolderTypeOK

-----------------------------------------------------------------------------
(* Type correctness, action by action. *)

(* The launch and recovery loop. *)
LEMMA TypeLaunch ==
    TypeOK /\ (\/ Ensure
               \/ LaunchReady
               \/ LaunchFails
               \/ LaunchRuns
               \/ LaunchEnds
               \/ RecoveryEnds
               \/ RecoverNever
               \/ RecoverExhausted
               \/ RecoverRetries)
      => TypeOK'
<1>1. ASSUME TypeOK, Ensure  PROVE TypeOK'
  <2>1. InstanceTypeOK'
    BY <1>1
       DEF Ensure, TypeOK, InstanceTypeOK, besidesState, account, Transition,
           MayTransition, Transitions, States
  <2>2. HolderTypeOK'
    BY <1>1, GotoType DEF Ensure, TypeOK, Points
  <2>3. ThreadsTypeOK'
    BY <1>1 DEF Ensure, TypeOK, ThreadsTypeOK, threads, jobVars, tickVars
  <2>4. EnvironmentTypeOK'
    BY <1>1, <2>1, SavedType
       DEF Ensure, TypeOK, EnvironmentTypeOK, outside, modeVars, PersistIf,
           Persist
  <2> QED  BY <2>1, <2>2, <2>3, <2>4 DEF TypeOK
<1>2. ASSUME TypeOK, LaunchReady  PROVE TypeOK'
  <2>1. InstanceTypeOK'
    BY <1>2
       DEF LaunchReady, TypeOK, InstanceTypeOK, besidesState, account,
           Transition, MayTransition, Transitions, States
  <2>2. HolderTypeOK'
    BY <1>2, SupervisorAssumption
       DEF LaunchReady, TypeOK, HolderTypeOK, Points, Calls
  <2>3. ThreadsTypeOK'
    BY <1>2 DEF LaunchReady, TypeOK, ThreadsTypeOK, threads, jobVars, tickVars
  <2>4. alive' \in BOOLEAN
    BY <1>2, Zenon DEF LaunchReady, TypeOK, EnvironmentTypeOK
  <2>5. EnvironmentTypeOK'
    BY <1>2, <2>1, SavedType, <2>4
       DEF LaunchReady, TypeOK, EnvironmentTypeOK, modeVars, Persist
  <2> QED  BY <2>1, <2>2, <2>3, <2>5 DEF TypeOK
<1>3. ASSUME TypeOK, LaunchFails  PROVE TypeOK'
  <2>1. InstanceTypeOK'
    BY <1>3
       DEF LaunchFails, TypeOK, InstanceTypeOK, besidesState, account,
           Transition, MayTransition, Transitions, States
  <2>2. HolderTypeOK'
    BY <1>3, SupervisorAssumption
       DEF LaunchFails, TypeOK, HolderTypeOK, Points, Calls
  <2>3. ThreadsTypeOK'
    BY <1>3 DEF LaunchFails, TypeOK, ThreadsTypeOK, threads, jobVars, tickVars
  <2>4. alive' \in BOOLEAN
    BY <1>3, Zenon DEF LaunchFails, TypeOK, EnvironmentTypeOK
  <2>5. EnvironmentTypeOK'
    BY <1>3, <2>1, SavedType, <2>4
       DEF LaunchFails, TypeOK, EnvironmentTypeOK, modeVars, Persist
  <2> QED  BY <2>1, <2>2, <2>3, <2>5 DEF TypeOK
<1>4. ASSUME TypeOK, LaunchRuns  PROVE TypeOK'
  <2>1. InstanceTypeOK'
    BY <1>4
       DEF LaunchRuns, TypeOK, InstanceTypeOK, besidesState, account,
           Transition, MayTransition, Transitions, States
  <2>2. HolderTypeOK'
    BY <1>4, GotoType DEF LaunchRuns, TypeOK, Points
  <2>3. ThreadsTypeOK'
    BY <1>4 DEF LaunchRuns, TypeOK, ThreadsTypeOK, threads, jobVars, tickVars
  <2>4. EnvironmentTypeOK'
    BY <1>4, <2>1, SavedType
       DEF LaunchRuns, TypeOK, EnvironmentTypeOK, outside, modeVars, Persist
  <2> QED  BY <2>1, <2>2, <2>3, <2>4 DEF TypeOK
<1>5. ASSUME TypeOK, LaunchEnds  PROVE TypeOK'
  <2>1. exhausted' \in BOOLEAN
    BY <1>5, Zenon DEF LaunchEnds, TypeOK, InstanceTypeOK
  <2>2. InstanceTypeOK'
    BY <1>5, SupervisorAssumption, <2>1
       DEF LaunchEnds, TypeOK, InstanceTypeOK, IdleTimes, RetryTimes, NoTime
  <2>3. HolderTypeOK'
    BY <1>5, GotoType DEF LaunchEnds, TypeOK, Points
  <2>4. ThreadsTypeOK'
    BY <1>5 DEF LaunchEnds, TypeOK, ThreadsTypeOK, threads, jobVars, tickVars
  <2>5. EnvironmentTypeOK'
    BY <1>5, <2>2, SavedType
       DEF LaunchEnds, TypeOK, EnvironmentTypeOK, outside, modeVars, Persist
  <2> QED  BY <2>2, <2>3, <2>4, <2>5 DEF TypeOK
<1>6. ASSUME TypeOK, RecoveryEnds  PROVE TypeOK'
  <2>1. InstanceTypeOK'
    BY <1>6, HoldTypes
       DEF RecoveryEnds, TypeOK, InstanceTypeOK, account, Reasons
  <2>2. nested' \in BOOLEAN
    BY <1>6, Zenon DEF RecoveryEnds
  <2>3. HolderTypeOK'
    BY <1>6, SupervisorAssumption, <2>2
       DEF RecoveryEnds, TypeOK, HolderTypeOK, Points, Calls
  <2>4. ThreadsTypeOK'
    BY <1>6 DEF RecoveryEnds, TypeOK, ThreadsTypeOK, threads, jobVars, tickVars
  <2>5. EnvironmentTypeOK'
    BY <1>6, <2>1, SavedType
       DEF RecoveryEnds, TypeOK, EnvironmentTypeOK, outside, modeVars, Persist
  <2> QED  BY <2>1, <2>3, <2>4, <2>5 DEF TypeOK
<1>7. ASSUME TypeOK, RecoverNever  PROVE TypeOK'
  <2>1. InstanceTypeOK'
    BY <1>7 DEF RecoverNever, TypeOK, InstanceTypeOK, instanceVars
  <2>2. HolderTypeOK'
    BY <1>7, GotoType DEF RecoverNever, TypeOK, Points, StillFailed
  <2>3. ThreadsTypeOK'
    BY <1>7 DEF RecoverNever, TypeOK, ThreadsTypeOK, threads, jobVars, tickVars
  <2>4. EnvironmentTypeOK'
    BY <1>7 DEF RecoverNever, TypeOK, EnvironmentTypeOK, outside, modeVars
  <2> QED  BY <2>1, <2>2, <2>3, <2>4 DEF TypeOK
<1>8. ASSUME TypeOK, RecoverExhausted  PROVE TypeOK'
  <2>1. exhausted' \in BOOLEAN
    BY <1>8, Zenon DEF RecoverExhausted, TypeOK, InstanceTypeOK
  <2>2. holds' \in [Reasons -> Nat]
    BY <1>8, HoldTypes DEF RecoverExhausted, TypeOK, InstanceTypeOK, Reasons
  <2>3. restartTimes' \in Seq(Ages)
    BY <1>8, PriorType DEF RecoverExhausted, TypeOK, InstanceTypeOK
  <2>4. nextRestart' \in RetryTimes
    BY <1>8, SupervisorAssumption
       DEF RecoverExhausted, TypeOK, InstanceTypeOK, RetryTimes, NoTime
  <2>5. InstanceTypeOK'
    BY <1>8, <2>1, <2>2, <2>3, <2>4 DEF RecoverExhausted, TypeOK, InstanceTypeOK
  <2>6. HolderTypeOK'
    BY <1>8, GotoType DEF RecoverExhausted, TypeOK, Points
  <2>7. ThreadsTypeOK'
    BY <1>8
       DEF RecoverExhausted, TypeOK, ThreadsTypeOK, threads, jobVars, tickVars
  <2>8. EnvironmentTypeOK'
    BY <1>8, <2>5, SavedType
       DEF RecoverExhausted, TypeOK, EnvironmentTypeOK, outside, modeVars,
           Persist
  <2> QED  BY <2>5, <2>6, <2>7, <2>8 DEF TypeOK
<1>9. ASSUME TypeOK, RecoverRetries  PROVE TypeOK'
  <2>1. exhausted' \in BOOLEAN
    BY <1>9, Zenon DEF RecoverRetries, TypeOK, InstanceTypeOK
  <2>2. holds' \in [Reasons -> Nat]
    BY <1>9, HoldTypes DEF RecoverRetries, TypeOK, InstanceTypeOK, Reasons
  <2>3. restartTimes' \in Seq(Ages)
    <3>1. Prior(restartTimes) \in Seq(Ages)
      BY <1>9, PriorType DEF TypeOK, InstanceTypeOK
    <3>2. 0 \in Ages
      BY SupervisorAssumption DEF Ages
    <3> QED  BY <1>9, <3>1, <3>2 DEF RecoverRetries
  <2>4. nextRestart' \in RetryTimes
    BY <1>9, SupervisorAssumption
       DEF RecoverRetries, TypeOK, InstanceTypeOK, RetryTimes, NoTime
  <2>5. InstanceTypeOK'
    BY <1>9, <2>1, <2>2, <2>3, <2>4 DEF RecoverRetries, TypeOK, InstanceTypeOK
  <2>6. nested' \in BOOLEAN
    BY <1>9, Zenon DEF RecoverRetries
  <2>7. HolderTypeOK'
    BY <1>9, SupervisorAssumption, <2>6
       DEF RecoverRetries, TypeOK, StillFailed, HolderTypeOK, Points, Calls
  <2>8. ThreadsTypeOK'
    BY <1>9
       DEF RecoverRetries, TypeOK, ThreadsTypeOK, threads, jobVars, tickVars
  <2>9. EnvironmentTypeOK'
    BY <1>9, <2>5, SavedType
       DEF RecoverRetries, TypeOK, EnvironmentTypeOK, outside, modeVars,
           Persist
  <2> QED  BY <2>5, <2>7, <2>8, <2>9 DEF TypeOK
<1> QED  BY <1>1, <1>2, <1>3, <1>4, <1>5, <1>6, <1>7, <1>8, <1>9

(* Stopping the runtime. *)
LEMMA TypeStop ==
    TypeOK /\ (\/ StopLocked
               \/ HaltSucceeds
               \/ HaltFails
               \/ HaltEnds)
      => TypeOK'
<1>1. ASSUME TypeOK, StopLocked  PROVE TypeOK'
  <2>1. InstanceTypeOK'
    BY <1>1
       DEF StopLocked, TypeOK, InstanceTypeOK, besidesState, account,
           Transition, MayTransition, Transitions, States
  <2>2. HolderTypeOK'
    BY <1>1, GotoType DEF StopLocked, TypeOK, Points
  <2>3. ThreadsTypeOK'
    BY <1>1 DEF StopLocked, TypeOK, ThreadsTypeOK, threads, jobVars, tickVars
  <2>4. EnvironmentTypeOK'
    BY <1>1, <2>1, SavedType
       DEF StopLocked, TypeOK, EnvironmentTypeOK, outside, modeVars,
           PersistIf, Persist
  <2> QED  BY <2>1, <2>2, <2>3, <2>4 DEF TypeOK
<1>2. ASSUME TypeOK, HaltSucceeds  PROVE TypeOK'
  <2>1. InstanceTypeOK'
    BY <1>2
       DEF HaltSucceeds, TypeOK, InstanceTypeOK, besidesState, account,
           Transition, MayTransition, Transitions, States
  <2>2. HolderTypeOK'
    BY <1>2, GotoType DEF HaltSucceeds, TypeOK, Points
  <2>3. ThreadsTypeOK'
    BY <1>2 DEF HaltSucceeds, TypeOK, ThreadsTypeOK, threads, jobVars, tickVars
  <2>4. alive' \in BOOLEAN
    BY <1>2, Zenon DEF HaltSucceeds, TypeOK, EnvironmentTypeOK
  <2>5. EnvironmentTypeOK'
    BY <1>2, <2>1, SavedType, <2>4
       DEF HaltSucceeds, TypeOK, EnvironmentTypeOK, modeVars, Persist
  <2> QED  BY <2>1, <2>2, <2>3, <2>5 DEF TypeOK
<1>3. ASSUME TypeOK, HaltFails  PROVE TypeOK'
  <2>1. InstanceTypeOK'
    BY <1>3
       DEF HaltFails, TypeOK, InstanceTypeOK, besidesState, account,
           Transition, MayTransition, Transitions, States
  <2>2. HolderTypeOK'
    BY <1>3, GotoType DEF HaltFails, TypeOK, Points
  <2>3. ThreadsTypeOK'
    BY <1>3 DEF HaltFails, TypeOK, ThreadsTypeOK, threads, jobVars, tickVars
  <2>4. EnvironmentTypeOK'
    BY <1>3, <2>1, SavedType
       DEF HaltFails, TypeOK, EnvironmentTypeOK, outside, modeVars, Persist
  <2> QED  BY <2>1, <2>2, <2>3, <2>4 DEF TypeOK
<1>4. ASSUME TypeOK, HaltEnds  PROVE TypeOK'
  <2>1. InstanceTypeOK'
    BY <1>4, SupervisorAssumption
       DEF HaltEnds, TypeOK, InstanceTypeOK, account, IdleTimes, RetryTimes,
           NoTime
  <2>2. HolderTypeOK'
    BY <1>4, GotoType DEF HaltEnds, TypeOK, Points
  <2>3. ThreadsTypeOK'
    BY <1>4 DEF HaltEnds, TypeOK, ThreadsTypeOK, threads, jobVars, tickVars
  <2>4. EnvironmentTypeOK'
    BY <1>4, <2>1, SavedType
       DEF HaltEnds, TypeOK, EnvironmentTypeOK, outside, modeVars, Persist
  <2> QED  BY <2>1, <2>2, <2>3, <2>4 DEF TypeOK
<1> QED  BY <1>1, <1>2, <1>3, <1>4

(* Administrators, sessions and the ends of their calls. *)
LEMMA TypeCalls ==
    TypeOK /\ (\/ Start
               \/ StopRefused
               \/ (\E force \in BOOLEAN : Stop(force))
               \/ Restart
               \/ RestartStarts
               \/ NotifyFailure
               \/ (\E s \in Sessions : AcquireSession(s))
               \/ AcquireFails
               \/ (\E s \in Sessions : ReleaseSession(s))
               \/ CallReturns
               \/ CallRaises)
      => TypeOK'
<1>1. ASSUME TypeOK, Start  PROVE TypeOK'
  <2>1. adminIntent' \in BOOLEAN /\ exhausted' \in BOOLEAN
    BY <1>1, Zenon DEF Start, StartAdmin, TypeOK, InstanceTypeOK
  <2>2. holds' \in [Reasons -> Nat]
    BY <1>1, HoldTypes DEF Start, StartAdmin, TypeOK, InstanceTypeOK, Reasons
  <2>3. idleDeadline' \in IdleTimes
    BY <1>1, SupervisorAssumption
       DEF Start, StartAdmin, TypeOK, InstanceTypeOK, IdleTimes, NoTime
  <2>4. restartTimes' \in Seq(Ages)
    BY <1>1, EmptySeq DEF Start, StartAdmin, TypeOK, InstanceTypeOK
  <2>5. InstanceTypeOK'
    BY <1>1, <2>1, <2>2, <2>3, <2>4
       DEF Start, StartAdmin, TypeOK, InstanceTypeOK
  <2>6. HolderTypeOK'
    BY <1>1, LockType DEF Start, StartAdmin, TypeOK, Points, Calls
  <2>7. ThreadsTypeOK'
    BY <1>1 DEF Start, StartAdmin, TypeOK, ThreadsTypeOK, jobVars
  <2>8. EnvironmentTypeOK'
    BY <1>1, <2>5, SavedType
       DEF Start, StartAdmin, TypeOK, EnvironmentTypeOK, outside, modeVars,
           PersistIf, Persist
  <2> QED  BY <2>5, <2>6, <2>7, <2>8 DEF TypeOK
<1>2. ASSUME TypeOK, StopRefused  PROVE TypeOK'
  <2>1. adminIntent' \in BOOLEAN
    BY <1>2, Zenon DEF StopRefused, TypeOK, InstanceTypeOK
  <2>2. InstanceTypeOK'
    BY <1>2, HoldTypes, <2>1
       DEF StopRefused, TypeOK, InstanceTypeOK, account, Reasons
  <2>3. HolderTypeOK'
    BY <1>2, SupervisorAssumption
       DEF StopRefused, TypeOK, HolderTypeOK, lockVars
  <2>4. ThreadsTypeOK'
    BY <1>2 DEF StopRefused, TypeOK, ThreadsTypeOK, threads, jobVars, tickVars
  <2>5. EnvironmentTypeOK'
    BY <1>2 DEF StopRefused, TypeOK, EnvironmentTypeOK, outside, modeVars
  <2> QED  BY <2>2, <2>3, <2>4, <2>5 DEF TypeOK
<1>3. ASSUME TypeOK, NEW force \in BOOLEAN, Stop(force)  PROVE TypeOK'
  <2>1. adminIntent' \in BOOLEAN
    BY <1>3, Zenon DEF Stop, TypeOK, InstanceTypeOK
  <2>2. InstanceTypeOK'
    BY <1>3, HoldTypes, <2>1
       DEF Stop, TypeOK, InstanceTypeOK, account, Reasons, NoHolds
  <2>3. HolderTypeOK'
    BY <1>3, LockType DEF Stop, TypeOK, Points, Calls
  <2>4. ThreadsTypeOK'
    BY <1>3 DEF Stop, TypeOK, ThreadsTypeOK, threads, jobVars, tickVars
  <2>5. EnvironmentTypeOK'
    BY <1>3 DEF Stop, TypeOK, EnvironmentTypeOK, outside, modeVars
  <2> QED  BY <2>2, <2>3, <2>4, <2>5 DEF TypeOK
<1>4. ASSUME TypeOK, Restart  PROVE TypeOK'
  <2>1. InstanceTypeOK'
    BY <1>4 DEF Restart, TypeOK, InstanceTypeOK, account, NoHolds
  <2>2. HolderTypeOK'
    BY <1>4, LockType DEF Restart, TypeOK, Points, Calls
  <2>3. ThreadsTypeOK'
    BY <1>4 DEF Restart, TypeOK, ThreadsTypeOK, threads, jobVars, tickVars
  <2>4. EnvironmentTypeOK'
    BY <1>4 DEF Restart, TypeOK, EnvironmentTypeOK, outside, modeVars
  <2> QED  BY <2>1, <2>2, <2>3, <2>4 DEF TypeOK
<1>5. ASSUME TypeOK, RestartStarts  PROVE TypeOK'
  <2>1. adminIntent' \in BOOLEAN /\ exhausted' \in BOOLEAN
    BY <1>5, Zenon DEF RestartStarts, StartAdmin, TypeOK, InstanceTypeOK
  <2>2. holds' \in [Reasons -> Nat]
    BY <1>5, HoldTypes
       DEF RestartStarts, StartAdmin, TypeOK, InstanceTypeOK, Reasons
  <2>3. idleDeadline' \in IdleTimes
    BY <1>5, SupervisorAssumption
       DEF RestartStarts, StartAdmin, TypeOK, InstanceTypeOK, IdleTimes,
           NoTime
  <2>4. restartTimes' \in Seq(Ages)
    BY <1>5, EmptySeq DEF RestartStarts, StartAdmin, TypeOK, InstanceTypeOK
  <2>5. InstanceTypeOK'
    BY <1>5, <2>1, <2>2, <2>3, <2>4
       DEF RestartStarts, StartAdmin, TypeOK, InstanceTypeOK
  <2>6. HolderTypeOK'
    BY <1>5, LockType DEF RestartStarts, StartAdmin, TypeOK, Points, Calls
  <2>7. restarting' \in BOOLEAN
    BY <1>5, Zenon DEF RestartStarts, StartAdmin, TypeOK, ThreadsTypeOK
  <2>8. ThreadsTypeOK'
    BY <1>5, <2>7 DEF RestartStarts, StartAdmin, TypeOK, ThreadsTypeOK, jobVars
  <2>9. EnvironmentTypeOK'
    BY <1>5, <2>5, SavedType
       DEF RestartStarts, StartAdmin, TypeOK, EnvironmentTypeOK, outside,
           modeVars, PersistIf, Persist
  <2> QED  BY <2>5, <2>6, <2>8, <2>9 DEF TypeOK
<1>6. ASSUME TypeOK, NotifyFailure  PROVE TypeOK'
  <2>1. InstanceTypeOK'
    BY <1>6
       DEF NotifyFailure, TypeOK, InstanceTypeOK, besidesState, account,
           MarkFailed, States
  <2>2. HolderTypeOK'
    BY <1>6, LockType DEF NotifyFailure, TypeOK, Points, Calls
  <2>3. ThreadsTypeOK'
    BY <1>6 DEF NotifyFailure, TypeOK, ThreadsTypeOK, threads, jobVars, tickVars
  <2>4. EnvironmentTypeOK'
    BY <1>6, <2>1, SavedType
       DEF NotifyFailure, TypeOK, EnvironmentTypeOK, outside, modeVars,
           Persist
  <2> QED  BY <2>1, <2>2, <2>3, <2>4 DEF TypeOK
<1>7. ASSUME TypeOK, NEW s \in Sessions, AcquireSession(s)  PROVE TypeOK'
  <2>1. holds' \in [Reasons -> Nat]
    BY <1>7, HoldTypes
       DEF AcquireSession, TypeOK, InstanceTypeOK, Reasons, account
  <2>2. idleDeadline' \in IdleTimes
    BY <1>7, SupervisorAssumption
       DEF AcquireSession, TypeOK, InstanceTypeOK, IdleTimes, NoTime, account
  <2>3. InstanceTypeOK'
    BY <1>7, <2>1, <2>2 DEF AcquireSession, TypeOK, InstanceTypeOK, account
  <2>4. HolderTypeOK'
    BY <1>7, LockType DEF AcquireSession, TypeOK, Points, Calls
  <2>5. ThreadsTypeOK'
    BY <1>7
       DEF AcquireSession, TypeOK, ThreadsTypeOK, threads, jobVars, tickVars
  <2>6. EnvironmentTypeOK'
    BY <1>7, <2>3, SavedType
       DEF AcquireSession, TypeOK, EnvironmentTypeOK, outside, modeVars,
           Persist
  <2> QED  BY <2>3, <2>4, <2>5, <2>6 DEF TypeOK
<1>8. ASSUME TypeOK, AcquireFails  PROVE TypeOK'
  <2>1. InstanceTypeOK'
    BY <1>8, HoldTypes
       DEF AcquireFails, TypeOK, InstanceTypeOK, account, Reasons
  <2>2. HolderTypeOK'
    BY <1>8, UnlockType DEF AcquireFails, TypeOK
  <2>3. ThreadsTypeOK'
    BY <1>8 DEF AcquireFails, TypeOK, ThreadsTypeOK, threads, jobVars, tickVars
  <2>4. EnvironmentTypeOK'
    BY <1>8, <2>1, SavedType
       DEF AcquireFails, TypeOK, EnvironmentTypeOK, outside, modeVars, Persist
  <2> QED  BY <2>1, <2>2, <2>3, <2>4 DEF TypeOK
<1>9. ASSUME TypeOK, NEW s \in Sessions, ReleaseSession(s)  PROVE TypeOK'
  <2>1. holds' \in [Reasons -> Nat]
    BY <1>9, HoldTypes
       DEF ReleaseSession, TypeOK, InstanceTypeOK, Reasons, account
  <2>2. idleDeadline' \in IdleTimes
    BY <1>9, SupervisorAssumption
       DEF ReleaseSession, TypeOK, InstanceTypeOK, IdleTimes, NoTime,
           IdleAfter, account
  <2>3. InstanceTypeOK'
    BY <1>9, <2>1, <2>2 DEF ReleaseSession, TypeOK, InstanceTypeOK, account
  <2>4. HolderTypeOK'
    BY <1>9, SupervisorAssumption
       DEF ReleaseSession, TypeOK, HolderTypeOK, lockVars
  <2>5. ThreadsTypeOK'
    BY <1>9
       DEF ReleaseSession, TypeOK, ThreadsTypeOK, threads, jobVars, tickVars
  <2>6. EnvironmentTypeOK'
    BY <1>9, <2>3, SavedType
       DEF ReleaseSession, TypeOK, EnvironmentTypeOK, outside, modeVars,
           Persist
  <2> QED  BY <2>3, <2>4, <2>5, <2>6 DEF TypeOK
<1>10. ASSUME TypeOK, CallReturns  PROVE TypeOK'
  <2>1. InstanceTypeOK'
    BY <1>10 DEF CallReturns, TypeOK, InstanceTypeOK, instanceVars
  <2>2. HolderTypeOK'
    BY <1>10, UnlockType DEF CallReturns, TypeOK
  <2>3. restarting' \in BOOLEAN
    BY <1>10, Zenon DEF CallReturns, TypeOK, ThreadsTypeOK
  <2>4. ThreadsTypeOK'
    BY <1>10, <2>3 DEF CallReturns, TypeOK, ThreadsTypeOK, jobVars
  <2>5. EnvironmentTypeOK'
    BY <1>10 DEF CallReturns, TypeOK, EnvironmentTypeOK, outside, modeVars
  <2> QED  BY <2>1, <2>2, <2>4, <2>5 DEF TypeOK
<1>11. ASSUME TypeOK, CallRaises  PROVE TypeOK'
  <2>1. InstanceTypeOK'
    BY <1>11 DEF CallRaises, TypeOK, InstanceTypeOK, instanceVars
  <2>2. HolderTypeOK'
    BY <1>11, UnlockType DEF CallRaises, TypeOK
  <2>3. ThreadsTypeOK'
    BY <1>11 DEF CallRaises, TypeOK, ThreadsTypeOK, threads, jobVars, tickVars
  <2>4. EnvironmentTypeOK'
    BY <1>11 DEF CallRaises, TypeOK, EnvironmentTypeOK, outside, modeVars
  <2> QED  BY <2>1, <2>2, <2>3, <2>4 DEF TypeOK
<1> QED  BY <1>1, <1>2, <1>3, <1>4, <1>5, <1>6, <1>7, <1>8, <1>9, <1>10, <1>11

(* Maintenance jobs. *)
LEMMA TypeMaintenance ==
    TypeOK /\ (\/ (\E j \in Jobs : RunMaintenance(j))
               \/ EnterMaintenance
               \/ BeginFails
               \/ (\E j \in Jobs, ok \in BOOLEAN : FinishMaintenance(j, ok))
               \/ (\E j \in Jobs, ok \in BOOLEAN : FinishRefused(j, ok))
               \/ LeaveMaintenance
               \/ MaintenanceEnds)
      => TypeOK'
<1>1. ASSUME TypeOK, NEW j \in Jobs, RunMaintenance(j)  PROVE TypeOK'
  <2>1. holds' \in [Reasons -> Nat]
    BY <1>1, HoldTypes
       DEF RunMaintenance, BeginMaintenance, TypeOK, InstanceTypeOK, Reasons,
           account
  <2>2. idleDeadline' \in IdleTimes
    BY <1>1, SupervisorAssumption
       DEF RunMaintenance, BeginMaintenance, TypeOK, InstanceTypeOK,
           IdleTimes, NoTime, account
  <2>3. InstanceTypeOK'
    BY <1>1, <2>1, <2>2
       DEF RunMaintenance, BeginMaintenance, TypeOK, InstanceTypeOK, account
  <2>4. HolderTypeOK'
    BY <1>1, LockType
       DEF RunMaintenance, BeginMaintenance, TypeOK, Points, Calls
  <2>5. ThreadsTypeOK'
    BY <1>1 DEF RunMaintenance, BeginMaintenance, TypeOK, ThreadsTypeOK, Phases
  <2>6. EnvironmentTypeOK'
    BY <1>1, <2>3, SavedType
       DEF RunMaintenance, BeginMaintenance, TypeOK, EnvironmentTypeOK,
           outside, modeVars, Persist
  <2> QED  BY <2>3, <2>4, <2>5, <2>6 DEF TypeOK
<1>2. ASSUME TypeOK, EnterMaintenance  PROVE TypeOK'
  <2>1. InstanceTypeOK'
    BY <1>2
       DEF EnterMaintenance, TypeOK, InstanceTypeOK, besidesState, account,
           Transition, MayTransition, Transitions, States
  <2>2. HolderTypeOK'
    BY <1>2, UnlockType, GotoType DEF EnterMaintenance, TypeOK, Points
  <2>3. ThreadsTypeOK'
    BY <1>2 DEF EnterMaintenance, TypeOK, ThreadsTypeOK, tickVars, Phases
  <2>4. EnvironmentTypeOK'
    BY <1>2, <2>1, SavedType
       DEF EnterMaintenance, TypeOK, EnvironmentTypeOK, outside, modeVars,
           PersistIf, Persist
  <2> QED  BY <2>1, <2>2, <2>3, <2>4 DEF TypeOK
<1>3. ASSUME TypeOK, BeginFails  PROVE TypeOK'
  <2>1. InstanceTypeOK'
    BY <1>3, HoldTypes DEF BeginFails, TypeOK, InstanceTypeOK, account, Reasons
  <2>2. HolderTypeOK'
    BY <1>3, UnlockType DEF BeginFails, TypeOK
  <2>3. ThreadsTypeOK'
    BY <1>3 DEF BeginFails, TypeOK, ThreadsTypeOK, EndJob, Phases
  <2>4. EnvironmentTypeOK'
    BY <1>3, <2>1, SavedType
       DEF BeginFails, TypeOK, EnvironmentTypeOK, outside, modeVars, Persist
  <2> QED  BY <2>1, <2>2, <2>3, <2>4 DEF TypeOK
<1>4. ASSUME TypeOK, NEW j \in Jobs, NEW ok \in BOOLEAN, FinishMaintenance(j, ok)  PROVE TypeOK'
  <2>1. InstanceTypeOK'
    BY <1>4, SupervisorAssumption
       DEF FinishMaintenance, TypeOK, InstanceTypeOK, account, Transition,
           MayTransition, Transitions, States, MarkFailed, RunAges, NoTime
  <2>2. HolderTypeOK'
    BY <1>4, LockType DEF FinishMaintenance, TypeOK, Points, Calls
  <2>3. ThreadsTypeOK'
    BY <1>4 DEF FinishMaintenance, TypeOK, ThreadsTypeOK, tickVars, Phases
  <2>4. EnvironmentTypeOK'
    BY <1>4, <2>1, SavedType
       DEF FinishMaintenance, TypeOK, EnvironmentTypeOK, outside, modeVars,
           Persist
  <2> QED  BY <2>1, <2>2, <2>3, <2>4 DEF TypeOK
<1>5. ASSUME TypeOK, NEW j \in Jobs, NEW ok \in BOOLEAN, FinishRefused(j, ok)  PROVE TypeOK'
  <2>1. InstanceTypeOK'
    BY <1>5, SupervisorAssumption
       DEF FinishRefused, TypeOK, InstanceTypeOK, account, RunAges, NoTime
  <2>2. HolderTypeOK'
    BY <1>5, SupervisorAssumption
       DEF FinishRefused, TypeOK, HolderTypeOK, lockVars
  <2>3. ThreadsTypeOK'
    BY <1>5 DEF FinishRefused, TypeOK, ThreadsTypeOK, EndJob, Phases
  <2>4. EnvironmentTypeOK'
    BY <1>5 DEF FinishRefused, TypeOK, EnvironmentTypeOK, outside, modeVars
  <2> QED  BY <2>1, <2>2, <2>3, <2>4 DEF TypeOK
<1>6. ASSUME TypeOK, LeaveMaintenance  PROVE TypeOK'
  <2>1. holds' \in [Reasons -> Nat]
    BY <1>6, HoldTypes
       DEF LeaveMaintenance, TypeOK, InstanceTypeOK, Reasons, account
  <2>2. idleDeadline' \in IdleTimes
    BY <1>6, SupervisorAssumption
       DEF LeaveMaintenance, TypeOK, InstanceTypeOK, IdleTimes, NoTime,
           IdleAfter, account
  <2>3. InstanceTypeOK'
    BY <1>6, <2>1, <2>2 DEF LeaveMaintenance, TypeOK, InstanceTypeOK, account
  <2>4. HolderTypeOK'
    BY <1>6, GotoType DEF LeaveMaintenance, TypeOK, Points
  <2>5. ThreadsTypeOK'
    BY <1>6 DEF LeaveMaintenance, TypeOK, ThreadsTypeOK, tickVars
  <2>6. EnvironmentTypeOK'
    BY <1>6, <2>3, SavedType
       DEF LeaveMaintenance, TypeOK, EnvironmentTypeOK, outside, modeVars,
           Persist
  <2> QED  BY <2>3, <2>4, <2>5, <2>6 DEF TypeOK
<1>7. ASSUME TypeOK, MaintenanceEnds  PROVE TypeOK'
  <2>1. InstanceTypeOK'
    BY <1>7 DEF MaintenanceEnds, TypeOK, InstanceTypeOK, instanceVars
  <2>2. HolderTypeOK'
    BY <1>7, UnlockType DEF MaintenanceEnds, TypeOK
  <2>3. ThreadsTypeOK'
    BY <1>7 DEF MaintenanceEnds, TypeOK, ThreadsTypeOK, EndJob, Phases
  <2>4. EnvironmentTypeOK'
    BY <1>7 DEF MaintenanceEnds, TypeOK, EnvironmentTypeOK, outside, modeVars
  <2> QED  BY <2>1, <2>2, <2>3, <2>4 DEF TypeOK
<1> QED  BY <1>1, <1>2, <1>3, <1>4, <1>5, <1>6, <1>7

(* Reconciliation. *)
LEMMA TypeReconcile ==
    TypeOK /\ (\/ Reconcile
               \/ Adopt
               \/ Settle
               \/ Converge
               \/ ReconcileFails)
      => TypeOK'
<1>1. ASSUME TypeOK, Reconcile  PROVE TypeOK'
  <2>1. InstanceTypeOK'
    BY <1>1
       DEF Reconcile, ReconcileBegins, TypeOK, InstanceTypeOK, account,
           Findings, ReconciledHolds, States, Reasons
  <2>2. HolderTypeOK'
    BY <1>1, LockType
       DEF Reconcile, ReconcileBegins, TypeOK, Points, Calls, Findings
  <2>3. ThreadsTypeOK'
    BY <1>1 DEF Reconcile, ReconcileBegins, TypeOK, ThreadsTypeOK, jobVars
  <2>4. EnvironmentTypeOK'
    BY <1>1, <2>1, SavedType
       DEF Reconcile, ReconcileBegins, TypeOK, EnvironmentTypeOK, outside,
           modeVars, PersistIf, Persist
  <2> QED  BY <2>1, <2>2, <2>3, <2>4 DEF TypeOK
<1>2. ASSUME TypeOK, Adopt  PROVE TypeOK'
  <2>1. InstanceTypeOK'
    BY <1>2
       DEF Adopt, TypeOK, InstanceTypeOK, besidesState, account, Transition,
           MayTransition, Transitions, States
  <2>2. HolderTypeOK'
    BY <1>2, GotoType DEF Adopt, TypeOK, Points
  <2>3. ThreadsTypeOK'
    BY <1>2 DEF Adopt, TypeOK, ThreadsTypeOK, threads, jobVars, tickVars
  <2>4. EnvironmentTypeOK'
    BY <1>2, <2>1, SavedType
       DEF Adopt, TypeOK, EnvironmentTypeOK, outside, modeVars, Persist
  <2> QED  BY <2>1, <2>2, <2>3, <2>4 DEF TypeOK
<1>3. ASSUME TypeOK, Settle  PROVE TypeOK'
  <2>1. InstanceTypeOK'
    BY <1>3
       DEF Settle, TypeOK, InstanceTypeOK, besidesState, account, Transition,
           MayTransition, Transitions, States
  <2>2. HolderTypeOK'
    BY <1>3, GotoType DEF Settle, TypeOK, Points
  <2>3. ThreadsTypeOK'
    BY <1>3 DEF Settle, TypeOK, ThreadsTypeOK, threads, jobVars, tickVars
  <2>4. EnvironmentTypeOK'
    BY <1>3, <2>1, SavedType
       DEF Settle, TypeOK, EnvironmentTypeOK, outside, modeVars, Persist
  <2> QED  BY <2>1, <2>2, <2>3, <2>4 DEF TypeOK
<1>4. ASSUME TypeOK, Converge  PROVE TypeOK'
  <2>1. InstanceTypeOK'
    BY <1>4, SupervisorAssumption
       DEF Converge, TypeOK, InstanceTypeOK, account, IdleTimes, RetryTimes,
           NoTime, IdleAfter
  <2>2. HolderTypeOK'
    BY <1>4, UnlockType, GotoType, SupervisorAssumption
       DEF Converge, TypeOK, Points, HolderTypeOK, Calls
  <2>3. ThreadsTypeOK'
    BY <1>4 DEF Converge, TypeOK, ThreadsTypeOK, jobVars
  <2>4. EnvironmentTypeOK'
    BY <1>4, <2>1, SavedType
       DEF Converge, TypeOK, EnvironmentTypeOK, outside, modeVars, PersistIf,
           Persist
  <2> QED  BY <2>1, <2>2, <2>3, <2>4 DEF TypeOK
<1>5. ASSUME TypeOK, ReconcileFails  PROVE TypeOK'
  <2>1. InstanceTypeOK'
    BY <1>5 DEF ReconcileFails, TypeOK, InstanceTypeOK, instanceVars
  <2>2. HolderTypeOK'
    BY <1>5, UnlockType DEF ReconcileFails, TypeOK
  <2>3. ThreadsTypeOK'
    BY <1>5 DEF ReconcileFails, TypeOK, ThreadsTypeOK, jobVars
  <2>4. EnvironmentTypeOK'
    BY <1>5 DEF ReconcileFails, TypeOK, EnvironmentTypeOK, outside, modeVars
  <2> QED  BY <2>1, <2>2, <2>3, <2>4 DEF TypeOK
<1> QED  BY <1>1, <1>2, <1>3, <1>4, <1>5

(* The periodic tick. *)
LEMMA TypeTick ==
    TypeOK /\ (\/ TickBegins
               \/ TickScans
               \/ TickMarks
               \/ TickFails
               \/ (\E j \in Jobs : TickRunsJob(j))
               \/ (\E j \in Jobs : TickJobRefused(j))
               \/ TickEnds)
      => TypeOK'
<1>1. ASSUME TypeOK, TickBegins  PROVE TypeOK'
  <2>1. InstanceTypeOK'
    BY <1>1
       DEF TickBegins, ReconcileBegins, TypeOK, InstanceTypeOK, account,
           Findings, ReconciledHolds, States, Reasons
  <2>2. HolderTypeOK'
    BY <1>1, LockType
       DEF TickBegins, ReconcileBegins, TypeOK, Points, Calls, Findings
  <2>3. ThreadsTypeOK'
    BY <1>1 DEF TickBegins, ReconcileBegins, TypeOK, ThreadsTypeOK, jobVars
  <2>4. EnvironmentTypeOK'
    BY <1>1, <2>1, SavedType
       DEF TickBegins, ReconcileBegins, TypeOK, EnvironmentTypeOK, outside,
           modeVars, PersistIf, Persist
  <2> QED  BY <2>1, <2>2, <2>3, <2>4 DEF TypeOK
<1>2. ASSUME TypeOK, TickScans  PROVE TypeOK'
  <2>1. InstanceTypeOK'
    BY <1>2 DEF TickScans, TypeOK, InstanceTypeOK, instanceVars
  <2>2. nested' \in BOOLEAN
    BY <1>2, Zenon DEF TickScans, RecoveryDue
  <2>3. HolderTypeOK'
    BY <1>2, SupervisorAssumption, <2>2
       DEF TickScans, TypeOK, HolderTypeOK, Points, Calls
  <2>4. ThreadsTypeOK'
    BY <1>2 DEF TickScans, TypeOK, ThreadsTypeOK, threads, jobVars, tickVars
  <2>5. EnvironmentTypeOK'
    BY <1>2 DEF TickScans, TypeOK, EnvironmentTypeOK, outside, modeVars
  <2> QED  BY <2>1, <2>3, <2>4, <2>5 DEF TypeOK
<1>3. ASSUME TypeOK, TickMarks  PROVE TypeOK'
  <2>1. InstanceTypeOK'
    BY <1>3, SupervisorAssumption
       DEF TickMarks, TypeOK, InstanceTypeOK, account, RunAges, NoTime
  <2>2. HolderTypeOK'
    BY <1>3, UnlockType DEF TickMarks, TypeOK
  <2>3. ThreadsTypeOK'
    BY <1>3 DEF TickMarks, TypeOK, ThreadsTypeOK, jobVars, DueJobs
  <2>4. EnvironmentTypeOK'
    BY <1>3, <2>1, SavedType
       DEF TickMarks, TypeOK, EnvironmentTypeOK, outside, modeVars, PersistIf,
           Persist
  <2> QED  BY <2>1, <2>2, <2>3, <2>4 DEF TypeOK
<1>4. ASSUME TypeOK, TickFails  PROVE TypeOK'
  <2>1. InstanceTypeOK'
    BY <1>4 DEF TickFails, TypeOK, InstanceTypeOK, instanceVars
  <2>2. HolderTypeOK'
    BY <1>4, UnlockType DEF TickFails, TypeOK
  <2>3. ThreadsTypeOK'
    BY <1>4 DEF TickFails, TypeOK, ThreadsTypeOK, jobVars
  <2>4. EnvironmentTypeOK'
    BY <1>4 DEF TickFails, TypeOK, EnvironmentTypeOK, outside, modeVars
  <2> QED  BY <2>1, <2>2, <2>3, <2>4 DEF TypeOK
<1>5. ASSUME TypeOK, NEW j \in Jobs, TickRunsJob(j)  PROVE TypeOK'
  <2>1. holds' \in [Reasons -> Nat]
    BY <1>5, HoldTypes
       DEF TickRunsJob, BeginMaintenance, TypeOK, InstanceTypeOK, Reasons,
           account
  <2>2. idleDeadline' \in IdleTimes
    BY <1>5, SupervisorAssumption
       DEF TickRunsJob, BeginMaintenance, TypeOK, InstanceTypeOK, IdleTimes,
           NoTime, account
  <2>3. InstanceTypeOK'
    BY <1>5, <2>1, <2>2
       DEF TickRunsJob, BeginMaintenance, TypeOK, InstanceTypeOK, account
  <2>4. HolderTypeOK'
    BY <1>5, LockType DEF TickRunsJob, BeginMaintenance, TypeOK, Points, Calls
  <2>5. ThreadsTypeOK'
    BY <1>5 DEF TickRunsJob, BeginMaintenance, TypeOK, ThreadsTypeOK, Phases
  <2>6. EnvironmentTypeOK'
    BY <1>5, <2>3, SavedType
       DEF TickRunsJob, BeginMaintenance, TypeOK, EnvironmentTypeOK, outside,
           modeVars, Persist
  <2> QED  BY <2>3, <2>4, <2>5, <2>6 DEF TypeOK
<1>6. ASSUME TypeOK, NEW j \in Jobs, TickJobRefused(j)  PROVE TypeOK'
  <2>1. InstanceTypeOK'
    BY <1>6 DEF TickJobRefused, TypeOK, InstanceTypeOK, instanceVars
  <2>2. HolderTypeOK'
    BY <1>6, SupervisorAssumption
       DEF TickJobRefused, TypeOK, HolderTypeOK, lockVars
  <2>3. ThreadsTypeOK'
    BY <1>6 DEF TickJobRefused, TypeOK, ThreadsTypeOK, jobVars
  <2>4. EnvironmentTypeOK'
    BY <1>6 DEF TickJobRefused, TypeOK, EnvironmentTypeOK, outside, modeVars
  <2> QED  BY <2>1, <2>2, <2>3, <2>4 DEF TypeOK
<1>7. ASSUME TypeOK, TickEnds  PROVE TypeOK'
  <2>1. InstanceTypeOK'
    BY <1>7 DEF TickEnds, TypeOK, InstanceTypeOK, instanceVars
  <2>2. HolderTypeOK'
    BY <1>7, SupervisorAssumption DEF TickEnds, TypeOK, HolderTypeOK, lockVars
  <2>3. ThreadsTypeOK'
    BY <1>7 DEF TickEnds, TypeOK, ThreadsTypeOK, jobVars
  <2>4. EnvironmentTypeOK'
    BY <1>7 DEF TickEnds, TypeOK, EnvironmentTypeOK, outside, modeVars
  <2> QED  BY <2>1, <2>2, <2>3, <2>4 DEF TypeOK
<1> QED  BY <1>1, <1>2, <1>3, <1>4, <1>5, <1>6, <1>7

(* The environment. *)
LEMMA TypeEnvironment ==
    TypeOK /\ (\/ (\E m \in NewModes : SetMode(m))
               \/ WriteMode
               \/ RuntimeExits
               \/ Advance
               \/ Crash)
      => TypeOK'
<1>1. ASSUME TypeOK, NEW m \in NewModes, SetMode(m)  PROVE TypeOK'
  <2>1. InstanceTypeOK'
    BY <1>1 DEF SetMode, TypeOK, InstanceTypeOK, instanceVars
  <2>2. HolderTypeOK'
    BY <1>1, SupervisorAssumption DEF SetMode, TypeOK, HolderTypeOK, lockVars
  <2>3. ThreadsTypeOK'
    BY <1>1 DEF SetMode, TypeOK, ThreadsTypeOK, threads, jobVars, tickVars
  <2>4. EnvironmentTypeOK'
    BY <1>1, SupervisorAssumption DEF SetMode, TypeOK, EnvironmentTypeOK, Torn
  <2> QED  BY <2>1, <2>2, <2>3, <2>4 DEF TypeOK
<1>2. ASSUME TypeOK, WriteMode  PROVE TypeOK'
  <2>1. InstanceTypeOK'
    BY <1>2 DEF WriteMode, TypeOK, InstanceTypeOK, instanceVars
  <2>2. HolderTypeOK'
    BY <1>2, SupervisorAssumption DEF WriteMode, TypeOK, HolderTypeOK, lockVars
  <2>3. ThreadsTypeOK'
    BY <1>2 DEF WriteMode, TypeOK, ThreadsTypeOK, threads, jobVars, tickVars
  <2>4. EnvironmentTypeOK'
    BY <1>2 DEF WriteMode, TypeOK, EnvironmentTypeOK
  <2> QED  BY <2>1, <2>2, <2>3, <2>4 DEF TypeOK
<1>3. ASSUME TypeOK, RuntimeExits  PROVE TypeOK'
  <2>1. InstanceTypeOK'
    BY <1>3 DEF RuntimeExits, TypeOK, InstanceTypeOK, instanceVars
  <2>2. HolderTypeOK'
    BY <1>3, SupervisorAssumption
       DEF RuntimeExits, TypeOK, HolderTypeOK, lockVars
  <2>3. ThreadsTypeOK'
    BY <1>3 DEF RuntimeExits, TypeOK, ThreadsTypeOK, threads, jobVars, tickVars
  <2>4. alive' \in BOOLEAN
    BY <1>3, Zenon DEF RuntimeExits, TypeOK, EnvironmentTypeOK
  <2>5. EnvironmentTypeOK'
    BY <1>3, <2>4 DEF RuntimeExits, TypeOK, EnvironmentTypeOK, modeVars
  <2> QED  BY <2>1, <2>2, <2>3, <2>5 DEF TypeOK
<1>4. ASSUME TypeOK, Advance  PROVE TypeOK'
  <2>1. idleDeadline' \in IdleTimes
    BY <1>4, SupervisorAssumption
       DEF Advance, TypeOK, InstanceTypeOK, IdleTimes, NoTime, Nearer
  <2>2. restartTimes' \in Seq(Ages)
    BY <1>4, OlderType DEF Advance, TypeOK, InstanceTypeOK
  <2>3. nextRestart' \in RetryTimes
    BY <1>4, SupervisorAssumption
       DEF Advance, TypeOK, InstanceTypeOK, RetryTimes, NoTime, Nearer
  <2>4. lastRun' \in [Jobs -> RunAges]
    BY <1>4, ElapsedType DEF Advance, TypeOK, InstanceTypeOK
  <2>5. InstanceTypeOK'
    BY <1>4, <2>1, <2>2, <2>3, <2>4 DEF Advance, TypeOK, InstanceTypeOK
  <2>6. HolderTypeOK'
    BY <1>4, SupervisorAssumption
       DEF Advance, TypeOK, HolderTypeOK, Points, Calls
  <2>7. ThreadsTypeOK'
    BY <1>4 DEF Advance, TypeOK, ThreadsTypeOK, threads, jobVars, tickVars
  <2>8. EnvironmentTypeOK'
    BY <1>4, SupervisorAssumption, OlderType, ElapsedType
       DEF Advance, TypeOK, EnvironmentTypeOK, outside, modeVars, Snapshots,
           Nearer, IdleTimes, RetryTimes, NoTime
  <2> QED  BY <2>5, <2>6, <2>7, <2>8 DEF TypeOK
<1>5. ASSUME TypeOK, Crash  PROVE TypeOK'
  <2>1. InstanceTypeOK'
    BY <1>5, SupervisorAssumption
       DEF Crash, TypeOK, InstanceTypeOK, IdleTimes, RetryTimes, NoTime,
           RunAges, EnvironmentTypeOK, Snapshots, DurableReasons, Reasons
  <2>2. HolderTypeOK'
    BY <1>5, UnlockType DEF Crash, TypeOK
  <2>3. restarting' \in BOOLEAN
    BY <1>5, Zenon DEF Crash, TypeOK, ThreadsTypeOK
  <2>4. ThreadsTypeOK'
    BY <1>5, <2>3 DEF Crash, TypeOK, ThreadsTypeOK, Phases
  <2>5. alive' \in BOOLEAN
    BY <1>5, Zenon DEF Crash, TypeOK, EnvironmentTypeOK
  <2>6. EnvironmentTypeOK'
    BY <1>5, SupervisorAssumption, <2>5 DEF Crash, TypeOK, EnvironmentTypeOK
  <2> QED  BY <2>1, <2>2, <2>4, <2>6 DEF TypeOK
<1> QED  BY <1>1, <1>2, <1>3, <1>4, <1>5

(* One step of any kind, a stuttering one included.                        *)
LEMMA TypeStep == TypeOK /\ [Next]_vars => TypeOK'
<1> SUFFICES ASSUME TypeOK, [Next]_vars PROVE TypeOK'
  OBVIOUS
<1>1. CASE HolderStep
  BY <1>1, TypeLaunch, TypeStop, TypeCalls, TypeMaintenance, TypeReconcile,
     TypeTick
     DEF HolderStep
<1>2. CASE TickerStep
  BY <1>2, TypeTick DEF TickerStep
<1>3. CASE JobStep
  BY <1>3, TypeMaintenance DEF JobStep
<1>4. CASE CallerStep
  BY <1>4, TypeCalls, TypeMaintenance, TypeReconcile, TypeEnvironment
     DEF CallerStep
<1>5. CASE EnvironmentStep
  BY <1>5, TypeEnvironment DEF EnvironmentStep
<1>6. CASE UNCHANGED vars
  BY <1>6
     DEF TypeOK, InstanceTypeOK, HolderTypeOK, ThreadsTypeOK,
         EnvironmentTypeOK, vars, instanceVars, lockVars, jobVars, tickVars,
         modeVars
<1> QED  BY <1>1, <1>2, <1>3, <1>4, <1>5, <1>6 DEF Next

(* The types hold at first.                                                *)
LEMMA TypeInit == Init => TypeOK
<1> SUFFICES ASSUME Init PROVE TypeOK
  OBVIOUS
<1>1. adminIntent \in BOOLEAN /\ exhausted \in BOOLEAN
  BY Zenon DEF Init
<1>2. restartTimes \in Seq(Ages)
  BY EmptySeq DEF Init
<1>3. InstanceTypeOK
  BY <1>1, <1>2, SupervisorAssumption
     DEF Init, InstanceTypeOK, NoHolds, States, IdleTimes, RetryTimes,
         RunAges, NoTime
<1>4. HolderTypeOK
  <2>1. nested \in BOOLEAN
    BY Zenon DEF Init
  <2> QED  BY <2>1, SupervisorAssumption DEF Init, HolderTypeOK, Calls, Points
<1>5. ThreadsTypeOK
  <2>1. restarting \in BOOLEAN
    BY Zenon DEF Init
  <2> QED  BY <2>1 DEF Init, ThreadsTypeOK, Phases
<1>6. EnvironmentTypeOK
  <2>1. alive \in BOOLEAN
    BY Zenon DEF Init
  <2>2. disk \in Snapshots
    BY <1>3 DEF Init, InstanceTypeOK, Saved, Snapshots, Reasons, DurableReasons
  <2> QED  BY <2>1, <2>2, SupervisorAssumption
     DEF Init, EnvironmentTypeOK, NoMode
<1> QED  BY <1>3, <1>4, <1>5, <1>6 DEF TypeOK

(* No operation of the supervisor, no crash and no reload of the state     *)
(* file takes a variable, or the persisted snapshot, out of its type: no   *)
(* hold count is negative, no age or deadline out of range.                *)
THEOREM TypeCorrect == Spec => []TypeOK
  BY TypeInit, TypeStep, PTL DEF Spec
=============================================================================
