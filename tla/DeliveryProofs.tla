--------------------------- MODULE DeliveryProofs ---------------------------
(* Deployments, backups and prepared media, for any artifacts, targets,    *)
(* processes, files and failures.                                          *)
EXTENDS Deployment, Backup, Preparation, TLAPS

-----------------------------------------------------------------------------
(* Deployments.                                                            *)

Allowed == Artifacts \ Forbidden

MaterializeCalls ==
  [phase : {"idle"}] \cup [phase : {"copy"}, artifact : Allowed, target : Targets]
  \cup [phase : {"check", "replace"}, artifact : Allowed, target : Targets, tree : Contents]

Deployments == [manifest : {"whole"}, artifact : Allowed, digest : Contents, assets : Contents]

(* Between the check and the copy the object is whole unless it was struck *)
(* since; a tree with other bytes than the preserved ones was copied by a  *)
(* call whose object was struck.                                           *)
TreeInv ==
  /\ object \in [Artifacts -> {"preserved", "damaged", "missing"}]
  /\ struck \subseteq Materializers /\ tainted \subseteq Targets
  /\ proc \in [Materializers -> MaterializeCalls]
  /\ target \in [Targets -> Deployments \cup {Absent}]
  /\ \A m \in Materializers : proc[m].phase = "copy" =>
       object[proc[m].artifact] = "preserved" \/ m \in struck
  /\ \A m \in Materializers : proc[m].phase \in {"check", "replace"} =>
       proc[m].tree = "preserved" \/ (proc[m].tree = "damaged" /\ m \in struck)
  /\ \A t \in Targets : target[t] # Absent =>
       target[t].digest = "preserved" \/ (target[t].digest = "damaged" /\ t \in tainted)

(* Nothing is deployed at first.                                           *)
LEMMA TreeInit == DeploymentInit => TreeInv
  BY DEF DeploymentInit, TreeInv, MaterializeCalls, Absent

(* The absence of a target is not taken for a deployment.                  *)
LEMMA AbsentIsNoDeployment == Absent \notin Deployments
  BY DEF Absent, Deployments

(* Every step of a deployment keeps its tree on verified objects.          *)
LEMMA TreeStep == TreeInv /\ [DeploymentNext]_deploymentVars => TreeInv'
  <1> SUFFICES ASSUME TreeInv, [DeploymentNext]_deploymentVars PROVE TreeInv'
    OBVIOUS
  <1> USE DEF TreeInv, Allowed
  <1>1. ASSUME NEW a \in Artifacts, NEW bytes \in {"damaged", "missing"}, Damage(a, bytes) PROVE TreeInv'
    BY <1>1 DEF Damage, MaterializeCalls, Deployments
  <1>r. CASE \E a \in Artifacts : Repair(a)
    BY <1>r DEF Repair, MaterializeCalls, Deployments
  <1>2. ASSUME NEW t \in Targets, EditAssets(t) PROVE TreeInv'
    <2>1. target[t] \in Deployments
      BY <1>2 DEF EditAssets
    <2>2. [target[t] EXCEPT !.assets = "edited"] \in Deployments
      BY <2>1 DEF Deployments, Contents
    <2>3. target' = [target EXCEPT ![t] = [target[t] EXCEPT !.assets = "edited"]]
      BY <1>2 DEF EditAssets
    <2>4. /\ target'[t] \in Deployments /\ target'[t].digest = target[t].digest
          /\ target'[t].artifact = target[t].artifact
          /\ \A u \in Targets \ {t} : target'[u] = target[u]
      BY <2>1, <2>2, <2>3 DEF Deployments
    <2> QED BY <1>2, <2>2, <2>3, <2>4 DEF EditAssets
  <1>3. ASSUME NEW m \in Materializers, NEW a \in Artifacts, NEW t \in Targets, Begin(m, a, t) PROVE TreeInv'
    BY <1>3 DEF Begin, Metadata, Step, MaterializeCalls
  <1>4. ASSUME NEW m \in Materializers, CopyObject(m) PROVE TreeInv'
    BY <1>4 DEF CopyObject, Step, MaterializeCalls, Contents
  <1>5. ASSUME NEW m \in Materializers, CheckTarget(m) PROVE TreeInv'
    BY <1>5 DEF CheckTarget, Step, MaterializeCalls
  <1>6. ASSUME NEW m \in Materializers, Replace(m) PROVE TreeInv'
    BY <1>6 DEF Replace, Step, MaterializeCalls, Deployed, Deployments
  <1>7. ASSUME NEW m \in Materializers, MaterializeDies(m) PROVE TreeInv'
    BY <1>7 DEF MaterializeDies, Step, MaterializeCalls
  <1>8. CASE UNCHANGED deploymentVars
    BY <1>8 DEF deploymentVars
  <1> QED BY <1>1, <1>r, <1>2, <1>3, <1>4, <1>5, <1>6, <1>7, <1>8 DEF DeploymentNext

(* What verify accepts are preserved bytes of an artifact that may be      *)
(* installed, unless the object was damaged between check and copy.        *)
THEOREM VerifiedArePreserved == DeploymentSpec => []VerifiedIsPreserved
  <1>1. TreeInv => VerifiedIsPreserved
    BY DEF TreeInv, VerifiedIsPreserved, Verify, Metadata, Deployments, Allowed
  <1> QED BY <1>1, TreeInit, TreeStep, PTL DEF DeploymentSpec

(* No call of materialize replaces a deployment that is there.             *)
THEOREM DeploymentsKept == DeploymentSpec => DeploymentKept
  <1> DEFINE Kept == \A t \in Targets :
       target[t] # Absent =>
         /\ target'[t] # Absent
         /\ target'[t].artifact = target[t].artifact
         /\ target'[t].assets \in {target[t].assets, "edited"}
  <1>1. ASSUME TreeInv, DeploymentNext PROVE Kept
    <2>1. ASSUME NEW u \in Targets, EditAssets(u) PROVE Kept
      <3>1. target[u] \in Deployments
        BY <1>1, <2>1 DEF EditAssets, TreeInv
      <3>2. target' = [target EXCEPT ![u] = [target[u] EXCEPT !.assets = "edited"]]
        BY <2>1 DEF EditAssets
      <3>3. /\ [target[u] EXCEPT !.assets = "edited"] \in Deployments
            /\ [target[u] EXCEPT !.assets = "edited"].artifact = target[u].artifact
            /\ [target[u] EXCEPT !.assets = "edited"].assets = "edited"
        BY <3>1 DEF Deployments, Contents
      <3> QED BY <1>1, <3>2, <3>3, AbsentIsNoDeployment DEF TreeInv
    <2>2. ASSUME NEW m \in Materializers, Replace(m) PROVE Kept
      BY <1>1, <2>2 DEF Replace, TreeInv
    <2>3. CASE target' = target
      BY <2>3
    <2> QED BY <1>1, <2>1, <2>2, <2>3
            DEF DeploymentNext, Damage, Repair, Begin, CopyObject, CheckTarget, MaterializeDies
  <1>2. TreeInv /\ [DeploymentNext]_deploymentVars => [Kept]_deploymentVars
    BY <1>1
  <1> QED BY <1>2, TreeInit, TreeStep, PTL DEF DeploymentSpec, DeploymentKept

-----------------------------------------------------------------------------
(* Backups.                                                                *)

BackupRecords == [phase : Phases, staged : Seq(Versions), payload : Payloads,
            manifest : FileStates, evidence : FileStates]

Announced(r) == \/ r.phase \in {"manifest", "evidence", "done"}
                \/ r.manifest = "whole" \/ r.evidence = "whole"
Complete(r) == r.payload # "absent" /\ Len(r.staged) = FileCount

(* The manifests are written after the payload is complete, and while the  *)
(* payload is being built there is none.                                   *)
Sound(r) ==
  /\ Announced(r) => Complete(r)
  /\ r.phase \in {"none", "tar"} => r.manifest # "whole" /\ r.evidence # "whole"

(* The first d files of the destination are those of the backup.           *)
Holds(b, d) == \A f \in 1..d : restored[f] = backup[b].staged[f]

Restoring(b, d, bytes) ==
  /\ restoring = [backup |-> <<b>>, done |-> d, bytes |-> bytes]
  /\ Listed(b)
  /\ bytes = "checked" => Verifies(b) /\ Holds(b, d)

(* What restore reads is listed, so that its payload does not grow under   *)
(* it; while its check holds, the payload is whole and what has been       *)
(* extracted so far is the backup's.                                       *)
PayloadInv ==
  /\ BackupTypeOK
  /\ \A b \in Backups : Sound(backup[b])
  /\ restoring # Idle => \E b \in Backups, d \in 0..(FileCount - 1), bytes \in {"checked", "unchecked"} :
       Restoring(b, d, bytes)
  /\ \A b \in Backups : outcome = <<b>> => restoring = Idle /\ Listed(b) /\ Holds(b, FileCount)

(* The absence of a backup claims nothing.                                 *)
LEMMA NoBackupSound == NoBackup \in BackupRecords /\ Sound(NoBackup)
  <1>1. <<>> \in Seq(Versions)
    OBVIOUS
  <1> QED BY <1>1 DEF NoBackup, BackupRecords, Sound, Announced, Phases, Payloads, FileStates

Restores == [backup : Seq(Backups), done : 0..FileCount, bytes : {"checked", "unchecked"}]

(* No restore has the type of one ...                                      *)
LEMMA RestingTyped == Idle \in Restores /\ <<>> \in Seq(Backups)
  BY BackupAssumption DEF Idle, Restores

(* ... and so has one in progress, which is told apart from it.            *)
LEMMA RestoringTyped ==
  ASSUME NEW b \in Backups, NEW d \in 0..(FileCount - 1), NEW bytes \in {"checked", "unchecked"}
  PROVE  /\ [backup |-> <<b>>, done |-> d, bytes |-> bytes] \in Restores
         /\ [backup |-> <<b>>, done |-> d, bytes |-> bytes] # Idle
  <1>1. d \in 0..FileCount /\ <<b>> \in Seq(Backups) /\ <<b>> # <<>>
    BY BackupAssumption
  <1> QED BY <1>1 DEF Idle, Restores

(* There is no backup at first.                                            *)
LEMMA PayloadInit == BackupInit => PayloadInv
  <1> SUFFICES ASSUME BackupInit PROVE PayloadInv
    OBVIOUS
  <1>1. backup \in [Backups -> BackupRecords] /\ \A b \in Backups : Sound(backup[b])
    BY NoBackupSound DEF BackupInit
  <1>2. live \in [Files -> Versions] /\ callers \in BOOLEAN
    <2>1. live \in [Files -> Versions]
      BY BackupAssumption DEF BackupInit, Versions
    <2>2. callers \in BOOLEAN
      BY Zenon DEF BackupInit
    <2> QED BY <2>1, <2>2
  <1>3. restored \in [Files -> Versions \cup {Damaged, Nothing}]
    BY BackupAssumption DEF BackupInit, Nothing, Damaged
  <1>4. restoring = Idle /\ outcome = <<>>
    BY DEF BackupInit
  <1>5. \A b \in Backups : <<>> # <<b>>
    OBVIOUS
  <1> QED BY <1>1, <1>2, <1>3, <1>4, <1>5, RestingTyped DEF PayloadInv, BackupTypeOK, BackupRecords, Restores

(* One call of create moves on; what is listed stays listed, with the      *)
(* payload and the versions it has.                                        *)
LEMMA AdvanceInv ==
  ASSUME PayloadInv, NEW b \in Backups, NEW next \in BackupRecords, Advance(b, next), Sound(next),
         Listed(b) => /\ next.manifest = "whole" /\ next.payload = backup[b].payload
                      /\ next.staged = backup[b].staged
  PROVE  PayloadInv'
  <1>1. /\ backup'[b] = next
        /\ \A c \in Backups \ {b} : backup'[c] = backup[c]
        /\ backup' \in [Backups -> BackupRecords]
        /\ UNCHANGED <<live, callers, restored, restoring, outcome>>
    BY DEF Advance, PayloadInv, BackupTypeOK, BackupRecords
  <1>2. BackupTypeOK'
    BY <1>1 DEF PayloadInv, BackupTypeOK, BackupRecords
  <1>3. ASSUME NEW c \in Backups, Listed(c)
        PROVE  /\ Listed(c)' /\ (Verifies(c) => Verifies(c)')
               /\ \A d \in 0..FileCount : Holds(c, d) => Holds(c, d)'
    BY <1>1, <1>3 DEF Verifies, Listed, Holds
  <1>4. restoring' # Idle => \E c \in Backups, d \in 0..(FileCount - 1), bytes \in {"checked", "unchecked"} :
          Restoring(c, d, bytes)'
    <2> SUFFICES ASSUME restoring # Idle
                 PROVE  \E c \in Backups, d \in 0..(FileCount - 1), bytes \in {"checked", "unchecked"} :
                          Restoring(c, d, bytes)'
      BY <1>1
    <2>1. PICK c \in Backups, d \in 0..(FileCount - 1), bytes \in {"checked", "unchecked"} : Restoring(c, d, bytes)
      BY DEF PayloadInv
    <2>2. d \in 0..FileCount
      BY BackupAssumption
    <2> QED BY <1>1, <1>3, <2>1, <2>2 DEF Restoring
  <1>5. \A c \in Backups : Sound(backup'[c])
    BY <1>1 DEF PayloadInv
  <1>6. \A c \in Backups : outcome' = <<c>> => restoring' = Idle /\ Listed(c)' /\ Holds(c, FileCount)'
    <2>1. FileCount \in 0..FileCount /\ Idle' = Idle
      BY BackupAssumption DEF Idle
    <2>2. ASSUME NEW c \in Backups, outcome = <<c>>
          PROVE  restoring = Idle /\ Listed(c)' /\ Holds(c, FileCount)'
      BY <1>3, <2>1, <2>2 DEF PayloadInv
    <2> QED BY <1>1, <2>2
  <1>7. Idle' = Idle
    BY DEF Idle
  <1> QED BY <1>2, <1>4, <1>5, <1>6, <1>7 DEF PayloadInv, Sound, Announced, Complete

(* Every step of the backup manager keeps manifests and payloads together. *)
LEMMA PayloadStep == PayloadInv /\ [BackupNext]_backupVars => PayloadInv'
  <1> SUFFICES ASSUME PayloadInv, [BackupNext]_backupVars PROVE PayloadInv'
    OBVIOUS
  <1>r. backup \in [Backups -> BackupRecords] /\ \A b \in Backups : Sound(backup[b])
    BY DEF PayloadInv, BackupTypeOK, BackupRecords
  <1> DEFINE Fine(b, next) == /\ next \in BackupRecords /\ Sound(next)
                              /\ Listed(b) => /\ next.manifest = "whole"
                                              /\ next.payload = backup[b].payload
                                              /\ next.staged = backup[b].staged
  <1> USE DEF Verifies, Listed, Sound, Announced, Complete
  <1>1. ASSUME NEW b \in Backups, NEW mode \in Modes, CreateBegin(b, mode) PROVE PayloadInv'
    <2> DEFINE next == [backup[b] EXCEPT !.phase = "tar"]
    <2>1. Fine(b, next)
      BY <1>1, <1>r DEF CreateBegin, BackupRecords, Phases
    <2> QED BY <1>1, <2>1, AdvanceInv DEF CreateBegin
  <1>2. ASSUME NEW b \in Backups, AddFile(b) PROVE PayloadInv'
    <2> DEFINE f == Len(backup[b].staged) + 1
               next == [backup[b] EXCEPT !.staged = Append(@, live[f])]
    <2>1. backup[b].staged \in Seq(Versions) /\ f \in Files
      BY <1>2, <1>r, BackupAssumption DEF AddFile, BackupRecords, Files
    <2>2. Append(backup[b].staged, live[f]) \in Seq(Versions)
      BY <2>1 DEF PayloadInv, BackupTypeOK
    <2>3. Fine(b, next)
      BY <1>2, <1>r, <2>2 DEF AddFile, BackupRecords
    <2> QED BY <1>2, <2>3, AdvanceInv DEF AddFile
  <1>3. ASSUME NEW b \in Backups, MovePayload(b) PROVE PayloadInv'
    <2> DEFINE next == [backup[b] EXCEPT !.phase = "manifest", !.payload = "whole"]
    <2>1. Fine(b, next)
      BY <1>3, <1>r DEF MovePayload, BackupRecords, Phases, Payloads
    <2> QED BY <1>3, <2>1, AdvanceInv DEF MovePayload
  <1>4. ASSUME NEW b \in Backups, WriteManifest(b) PROVE PayloadInv'
    <2>1. Fine(b, [backup[b] EXCEPT !.manifest = "torn"]) \/ backup[b].manifest = "torn"
      BY <1>4, <1>r DEF WriteManifest, BackupRecords, FileStates
    <2>2. Fine(b, [backup[b] EXCEPT !.phase = "evidence", !.manifest = "whole"])
      BY <1>4, <1>r DEF WriteManifest, BackupRecords, FileStates, Phases
    <2> QED BY <1>4, <2>1, <2>2, AdvanceInv DEF WriteManifest
  <1>5. ASSUME NEW b \in Backups, WriteEvidence(b) PROVE PayloadInv'
    <2>1. Fine(b, [backup[b] EXCEPT !.evidence = "torn"])
      BY <1>5, <1>r DEF WriteEvidence, BackupRecords, FileStates
    <2>2. Fine(b, [backup[b] EXCEPT !.phase = "done", !.evidence = "whole"])
      BY <1>5, <1>r DEF WriteEvidence, BackupRecords, FileStates, Phases
    <2> QED BY <1>5, <2>1, <2>2, AdvanceInv DEF WriteEvidence
  <1>6. ASSUME NEW b \in Backups, CreateFails(b) PROVE PayloadInv'
    <2>1. Fine(b, [backup[b] EXCEPT !.phase = "failed"])
      BY <1>6, <1>r DEF CreateFails, BackupRecords, Phases
    <2> QED BY <1>6, <2>1, AdvanceInv DEF CreateFails
  <1>7. ASSUME NEW b \in Backups, Rot(b) PROVE PayloadInv'
    <2> DEFINE next == [backup[b] EXCEPT !.payload = "damaged"]
    <2>1. next \in BackupRecords /\ Sound(next) /\ next.manifest = backup[b].manifest /\ next.staged = backup[b].staged
      BY <1>7, <1>r DEF Rot, BackupRecords, Payloads
    <2>2. /\ backup'[b] = next
          /\ \A c \in Backups \ {b} : backup'[c] = backup[c]
          /\ backup' \in [Backups -> BackupRecords]
          /\ UNCHANGED <<live, callers, restored, outcome>>
          /\ restoring' = IF restoring.backup = <<b>> THEN [restoring EXCEPT !.bytes = "unchecked"] ELSE restoring
      BY <1>7, <1>r, <2>1 DEF Rot
    <2> HIDE DEF next
    <2>3. \A c \in Backups : Sound(backup'[c])
      BY <1>r, <2>1, <2>2
    <2>4. \A c \in Backups : /\ Listed(c) => Listed(c)'
                             /\ c # b /\ Verifies(c) => Verifies(c)'
                             /\ \A d \in 0..FileCount : Holds(c, d) => Holds(c, d)'
      BY <2>1, <2>2 DEF Holds
    <2>5. CASE restoring = Idle
      <3>1. restoring' = Idle
        BY <2>2, <2>5 DEF Idle
      <3>2. BackupTypeOK'
        BY <2>2, <3>1, RestingTyped DEF PayloadInv, BackupTypeOK, BackupRecords, Restores
      <3>3. FileCount \in 0..FileCount
        BY BackupAssumption
      <3>4. \A c \in Backups : outcome' = <<c>> => Listed(c)' /\ Holds(c, FileCount)'
        BY <2>2, <2>4, <3>3 DEF PayloadInv
      <3> QED BY <2>3, <3>1, <3>2, <3>4 DEF PayloadInv, Idle
    <2>6. CASE restoring # Idle
      <3>1. PICK c \in Backups, d \in 0..(FileCount - 1), bytes \in {"checked", "unchecked"} : Restoring(c, d, bytes)
        BY <2>6 DEF PayloadInv
      <3> DEFINE now == IF c = b THEN "unchecked" ELSE bytes
      <3>2. now \in {"checked", "unchecked"} /\ d \in 0..FileCount
        BY BackupAssumption
      <3>3. restoring' = [backup |-> <<c>>, done |-> d, bytes |-> now]
        BY <2>2, <3>1 DEF Restoring
      <3>4. Listed(c)' /\ (now = "checked" => Verifies(c)' /\ Holds(c, d)')
        BY <2>4, <3>1, <3>2 DEF Restoring
      <3>5. restoring' \in Restores
        BY <3>2, <3>3, RestoringTyped
      <3>6. BackupTypeOK'
        BY <2>2, <3>5 DEF PayloadInv, BackupTypeOK, BackupRecords, Restores
      <3> HIDE DEF now
      <3>7. Restoring(c, d, now)'
        BY <3>3, <3>4 DEF Restoring
      <3>8. \A e \in Backups : outcome' # <<e>>
        BY <2>2, <2>6 DEF PayloadInv
      <3> QED BY <2>3, <3>2, <3>6, <3>7, <3>8 DEF PayloadInv
    <2> QED BY <2>5, <2>6
  <1>8. ASSUME NEW b \in Backups, NEW verified \in BOOLEAN, RestoreBegin(b, verified) PROVE PayloadInv'
    <2>1. PICK bytes \in {"checked", "unchecked"} :
            /\ restoring' = [backup |-> <<b>>, done |-> 0, bytes |-> bytes]
            /\ bytes = "checked" => Verifies(b)
      BY <1>8 DEF RestoreBegin
    <2>2. UNCHANGED <<live, callers, backup, restored>> /\ outcome' = <<>> /\ Listed(b)
      BY <1>8 DEF RestoreBegin
    <2>3. 0 \in 0..(FileCount - 1) /\ restoring' \in Restores
      <3>1. 0 \in 0..(FileCount - 1)
        BY BackupAssumption
      <3> QED BY <2>1, <3>1, RestoringTyped
    <2>4. Restoring(b, 0, bytes)'
      BY <2>1, <2>2 DEF Restoring, Holds
    <2>5. BackupTypeOK' /\ \A c \in Backups : outcome' # <<c>>
      BY <2>2, <2>3, RestingTyped DEF PayloadInv, BackupTypeOK, Restores
    <2> QED BY <2>2, <2>3, <2>4, <2>5 DEF PayloadInv
  <1>9. CASE RestoreFile
    <2>1. PICK b \in Backups, d \in 0..(FileCount - 1), bytes \in {"checked", "unchecked"} : Restoring(b, d, bytes)
      BY <1>9 DEF RestoreFile, PayloadInv
    <2>2. Head(restoring.backup) = b /\ restoring.done + 1 = d + 1 /\ d + 1 \in Files
      BY <2>1, BackupAssumption DEF Files, Restoring
    <2> DEFINE new == IF backup[b].payload = "whole" THEN backup[b].staged[d + 1] ELSE Damaged
    <2>3. restored' = [restored EXCEPT ![d + 1] = new] /\ UNCHANGED <<live, callers, backup>>
      BY <1>9, <2>2 DEF RestoreFile
    <2>4. backup[b].staged \in Seq(Versions) /\ Len(backup[b].staged) = FileCount
      BY <1>r, <2>1 DEF BackupRecords, Restoring
    <2>5. new \in Versions \cup {Damaged}
      BY <2>2, <2>4 DEF Files
    <2>6. restored' \in [Files -> Versions \cup {Damaged, Nothing}]
      BY <2>2, <2>3, <2>5 DEF PayloadInv, BackupTypeOK
    <2>7. bytes = "checked" => Verifies(b)' /\ Holds(b, d + 1)'
      <3> SUFFICES ASSUME bytes = "checked" PROVE Verifies(b)' /\ Holds(b, d + 1)'
        OBVIOUS
      <3>1. Verifies(b) /\ Holds(b, d)
        BY <2>1 DEF Restoring
      <3>2. restored' = [restored EXCEPT ![d + 1] = backup[b].staged[d + 1]] /\ backup' = backup
        BY <2>3, <3>1
      <3>3. ASSUME NEW f \in 1..(d + 1) PROVE restored'[f] = backup'[b].staged[f]
        <4>1. f \in Files /\ (f = d + 1 \/ f \in 1..d)
          BY <2>2, BackupAssumption DEF Files
        <4> QED BY <3>1, <3>2, <4>1, <2>2 DEF Holds, PayloadInv, BackupTypeOK
      <3> QED BY <3>1, <3>2, <3>3 DEF Holds
    <2> HIDE DEF new
    <2>8. CASE d + 1 = FileCount
      <3>1. restoring' = Idle /\ outcome' = IF bytes = "checked" THEN <<b>> ELSE <<>>
        BY <1>9, <2>1, <2>2, <2>8 DEF RestoreFile, Restoring
      <3>2. <<b>> \in Seq(Backups) /\ \A c \in Backups : <<>> # <<c>> /\ (<<c>> = <<b>> => c = b)
        OBVIOUS
      <3>3. BackupTypeOK'
        BY <2>3, <2>6, <3>1, <3>2, RestingTyped DEF PayloadInv, BackupTypeOK, Restores
      <3>4. \A c \in Backups : outcome' = <<c>> => Listed(c)' /\ Holds(c, FileCount)'
        BY <2>7, <2>8, <3>1, <3>2
      <3> QED BY <2>3, <3>1, <3>3, <3>4 DEF PayloadInv, Idle
    <2>9. CASE d + 1 # FileCount
      <3>1. restoring' = [restoring EXCEPT !.done = d + 1] /\ outcome' = outcome
        BY <1>9, <2>2, <2>9 DEF RestoreFile
      <3>2. restoring' = [backup |-> <<b>>, done |-> d + 1, bytes |-> bytes] /\ d + 1 \in 0..(FileCount - 1)
        BY <2>1, <2>9, <3>1, BackupAssumption DEF Restoring
      <3>3. restoring' \in Restores
        BY <3>2, RestoringTyped
      <3>4. BackupTypeOK'
        BY <2>3, <2>6, <3>1, <3>3 DEF PayloadInv, BackupTypeOK, Restores
      <3>5. Listed(b)'
        BY <2>1, <2>3 DEF Restoring
      <3>6. Restoring(b, d + 1, bytes)'
        BY <2>7, <3>2, <3>5 DEF Restoring
      <3>7. \A c \in Backups : outcome' # <<c>>
        BY <1>9, <3>1 DEF RestoreFile, PayloadInv
      <3> QED BY <2>3, <3>2, <3>4, <3>6, <3>7 DEF PayloadInv
    <2> QED BY <2>8, <2>9
  <1>10. CASE RestoreCrash
    <2>1. restoring' = Idle /\ UNCHANGED <<live, callers, backup, restored, outcome>> /\ restoring # Idle
      BY <1>10 DEF RestoreCrash
    <2>2. BackupTypeOK' /\ \A c \in Backups : outcome' # <<c>>
      BY <2>1, RestingTyped DEF PayloadInv, BackupTypeOK, Restores
    <2> QED BY <2>1, <2>2 DEF PayloadInv, Idle
  <1>11. CASE CallersChange \/ (\E f \in Files : Edit(f)) \/ UNCHANGED backupVars
    <2>1. UNCHANGED <<backup, restored, restoring, outcome>>
      BY <1>11 DEF CallersChange, Edit, backupVars
    <2>2. live' \in [Files -> Versions]
      BY <1>11, BackupAssumption DEF CallersChange, Edit, backupVars, PayloadInv, BackupTypeOK, Versions
    <2>3. callers' \in BOOLEAN
      BY <1>11 DEF CallersChange, Edit, backupVars, PayloadInv, BackupTypeOK
    <2> QED BY <2>1, <2>2, <2>3 DEF PayloadInv, BackupTypeOK, Idle, Restoring, Holds
  <1> QED BY <1>1, <1>2, <1>3, <1>4, <1>5, <1>6, <1>7, <1>8, <1>9, <1>10, <1>11 DEF BackupNext

(* A directory that list shows, or whose evidence the observatory reads,   *)
(* has the finished payload in it.                                         *)
THEOREM ListedAreWhole == BackupSpec => []ListedIsWhole
  <1>1. PayloadInv => ListedIsWhole
    BY DEF PayloadInv, ListedIsWhole, Listed, Sound, Announced, Complete
  <1> QED BY <1>1, PayloadInit, PayloadStep, PTL DEF BackupSpec

(* A restore that checked its payload and met no rot leaves exactly the    *)
(* files of its backup, whatever earlier restores left behind.             *)
THEOREM RestoresAreWhole == BackupSpec => []RestoredIsBackup
  <1>1. PayloadInv => RestoredIsBackup
    BY DEF PayloadInv, RestoredIsBackup, Holds, Files
  <1> QED BY <1>1, PayloadInit, PayloadStep, PTL DEF BackupSpec

-----------------------------------------------------------------------------
(* Prepared media.                                                         *)

Trees == {NotDerived} \cup [bytes : Bytes, lineage : BOOLEAN]
Preps == {PrepIdle} \cup [at : {"extract", "copy", "copying", "derive", "recheck"}, root : Roots]

(* A tree of prepare's is registered, damaged or not.                      *)
Vouched == derived # NotDerived /\ derived.lineage

(* A preparation that is alone and began with no tree works beside none of *)
(* prepare's, until it registers its own, with its copy complete.          *)
AlonePrep ==
  /\ \A p, q \in Preparers : prep[p] # PrepIdle /\ prep[q] # PrepIdle => p = q
  /\ \A p \in Preparers : prep[p].at \in {"extract", "copy", "copying", "derive"} => ~Vouched
  /\ \A p \in Preparers : prep[p].at = "derive" => workspace[prep[p].root] = "whole"

PrepTyped ==
  /\ derived \in Trees
  /\ prep \in [Preparers -> Preps]
  /\ workspace \in [Roots -> {"absent", "partial", "whole"}]
  /\ report \in [Roots -> {"none", "PASS", "FAIL", "HUMAN_REQUIRED"}]
  /\ spoiled \in BOOLEAN

DeliveredInv ==
  /\ PrepTyped
  /\ ~spoiled => AlonePrep
  /\ Vouched /\ ~spoiled => \E r \in Roots : workspace[r] = "whole"

(* The report rests on the lineage, which no later step unmakes.           *)
GroundedInv == PrepTyped /\ ReportIsGrounded

(* Nothing is prepared and nothing reported at first.                      *)
LEMMA DeliveredInit == PrepInit => DeliveredInv /\ GroundedInv
  <1> SUFFICES ASSUME PrepInit PROVE DeliveredInv /\ GroundedInv
    OBVIOUS
  <1>1. PrepTyped
    <2>1. spoiled \in BOOLEAN
      BY Zenon DEF PrepInit
    <2> QED BY <2>1 DEF PrepInit, PrepTyped, Trees, Preps
  <1>2. ~Vouched /\ \A p \in Preparers : prep[p] = PrepIdle
    BY DEF PrepInit, Vouched
  <1>3. \A r \in Roots : report[r] = "none"
    BY DEF PrepInit
  <1> QED BY <1>1, <1>2, <1>3 DEF DeliveredInv, AlonePrep, GroundedInv, ReportIsGrounded, PrepIdle

(* The two trees that a preparation can register are trees.                *)
LEMMA RegisteredTree ==
  /\ [bytes |-> "preserved", lineage |-> TRUE] \in Trees
  /\ [bytes |-> "preserved", lineage |-> FALSE] \in Trees
  <1>1. "preserved" \in Bytes
    BY DEF Bytes
  <1>2. \A b \in Bytes, l \in BOOLEAN : [bytes |-> b, lineage |-> l] \in [bytes : Bytes, lineage : BOOLEAN]
    OBVIOUS
  <1>3. TRUE \in BOOLEAN /\ FALSE \in BOOLEAN
    OBVIOUS
  <1> QED BY <1>1, <1>2, <1>3, Zenon DEF Trees

(* Every step of a preparation keeps its types.                            *)
LEMMA PrepTypedStep == PrepTyped /\ [PrepNext]_prepVars => PrepTyped'
  <1> SUFFICES ASSUME PrepTyped, [PrepNext]_prepVars PROVE PrepTyped'
    OBVIOUS
  <1> USE DEF PrepTyped
  <1>1. CASE (\E bytes \in Bytes : MediaChanges(bytes)) \/ RegisterOther \/ UNCHANGED prepVars
    BY <1>1, RegisteredTree DEF MediaChanges, RegisterOther, prepVars
  <1>2. ASSUME NEW bytes \in Bytes, DerivedChanges(bytes) PROVE PrepTyped'
    BY <1>2 DEF DerivedChanges, Trees
  <1>3. ASSUME NEW p \in Preparers, NEW r \in Roots, Prepare(p, r) PROVE PrepTyped'
    <2>1. spoiled' \in BOOLEAN
      BY <1>3 DEF Prepare
    <2> QED BY <1>3, <2>1 DEF Prepare, Prep, Preps
  <1>4. ASSUME NEW p \in Preparers, ExtractTree(p) PROVE PrepTyped'
    BY <1>4 DEF ExtractTree, Prep, Preps, PrepUnchanged, PrepIdle
  <1>5. ASSUME NEW p \in Preparers, CopyTree(p) \/ CopyEnds(p) PROVE PrepTyped'
    BY <1>5 DEF CopyTree, CopyEnds, Prep, Preps, PrepUnchanged, PrepIdle
  <1>6. ASSUME NEW p \in Preparers, RegisterTree(p) PROVE PrepTyped'
    <2>1. derived' = derived \/ derived' = [bytes |-> "preserved", lineage |-> TRUE]
      BY <1>6 DEF RegisterTree
    <2>2. derived' \in Trees
      BY <2>1, RegisteredTree
    <2>3. prep' \in [Preparers -> Preps] /\ UNCHANGED <<workspace, report, spoiled>>
      BY <1>6 DEF RegisterTree, Prep, Preps, PrepUnchanged, PrepIdle
    <2> QED BY <2>2, <2>3
  <1>7. ASSUME NEW p \in Preparers, Recheck(p) \/ PrepareDies(p) PROVE PrepTyped'
    BY <1>7 DEF Recheck, PrepareDies, Prep, Preps, PrepUnchanged
  <1>8. ASSUME NEW r \in Roots, NEW complete \in BOOLEAN, NEW observed \in {"PASS", "FAIL", "HUMAN_REQUIRED"},
               QualifyPrepared(r, complete, observed) PROVE PrepTyped'
    BY <1>8 DEF QualifyPrepared, Worst
  <1> QED BY <1>1, <1>2, <1>3, <1>4, <1>5, <1>6, <1>7, <1>8 DEF PrepNext

(* Every step keeps registered trees complete.                             *)
LEMMA DeliveredStep == DeliveredInv /\ [PrepNext]_prepVars => DeliveredInv'
  <1> SUFFICES ASSUME DeliveredInv, [PrepNext]_prepVars PROVE DeliveredInv'
    OBVIOUS
  <1>t. PrepTyped /\ PrepTyped'
    BY PrepTypedStep DEF DeliveredInv
  <1>w. Vouched /\ ~spoiled => \E r \in Roots : workspace[r] = "whole"
    BY DEF DeliveredInv
  <1>x. derived' = derived => (Vouched' <=> Vouched)
    BY DEF Vouched, NotDerived
  <1>p. PrepIdle.at = "idle"
    BY DEF PrepIdle
  <1>1. CASE (\E bytes \in Bytes : MediaChanges(bytes)) \/ UNCHANGED prepVars \/ \E r \in Roots, complete \in BOOLEAN,
               observed \in {"PASS", "FAIL", "HUMAN_REQUIRED"} : QualifyPrepared(r, complete, observed)
    <2>1. UNCHANGED <<derived, workspace, prep, spoiled>>
      BY <1>1 DEF MediaChanges, QualifyPrepared, prepVars
    <2>2. (Vouched' <=> Vouched) /\ (AlonePrep' <=> AlonePrep)
      BY <2>1, <1>x DEF AlonePrep
    <2> QED BY <1>t, <1>w, <2>1, <2>2 DEF DeliveredInv
  <1>2. CASE (\E bytes \in Bytes : DerivedChanges(bytes)) \/ RegisterOther
    <2>1. UNCHANGED <<workspace, prep, spoiled>>
      BY <1>2 DEF DerivedChanges, RegisterOther
    <2>2. Vouched' => Vouched
      BY <1>2, <1>t DEF DerivedChanges, RegisterOther, Vouched, PrepTyped, Trees
    <2>3. AlonePrep => AlonePrep'
      BY <2>1, <2>2 DEF AlonePrep
    <2> QED BY <1>t, <1>w, <2>1, <2>2, <2>3 DEF DeliveredInv
  <1>3. ASSUME NEW p \in Preparers, NEW r \in Roots, Prepare(p, r) PROVE DeliveredInv'
    <2>1. /\ prep'[p] = [at |-> "extract", root |-> r]
          /\ \A q \in Preparers \ {p} : prep'[q] = prep[q]
          /\ derived' = derived
      BY <1>3, <1>t DEF Prepare, Prep, PrepTyped
    <2>2. ~spoiled' => ~Vouched'
      BY <1>3, <2>1, <1>x DEF Prepare, Vouched
    <2>3. ~spoiled' => \A q \in Preparers : prep[q] = PrepIdle
      BY <1>3 DEF Prepare
    <2>4. ~spoiled' => AlonePrep'
      BY <2>1, <2>2, <2>3, <1>p DEF AlonePrep
    <2> QED BY <1>t, <2>2, <2>4 DEF DeliveredInv
  <1> DEFINE Moves(p) == /\ prep[p] # PrepIdle /\ spoiled' = spoiled
                         /\ \A q \in Preparers \ {p} : prep'[q] = prep[q]
  <1>m. ASSUME NEW p \in Preparers, Moves(p), ~spoiled PROVE \A q \in Preparers \ {p} : prep'[q] = PrepIdle
    BY <1>m DEF DeliveredInv, AlonePrep
  <1>4. ASSUME NEW p \in Preparers, ExtractTree(p) PROVE DeliveredInv'
    <2>1. /\ Moves(p) /\ derived' = derived /\ workspace' = workspace
          /\ prep[p].at = "extract" /\ prep'[p].at \in {"copy", "idle"}
      BY <1>4, <1>t, <1>p DEF ExtractTree, Prep, PrepUnchanged, PrepTyped
    <2>2. Vouched' <=> Vouched
      BY <2>1, <1>x
    <2>3. ~spoiled => AlonePrep'
      BY <2>1, <2>2, <1>m, <1>p DEF DeliveredInv, AlonePrep
    <2> QED BY <1>t, <1>w, <2>1, <2>2, <2>3 DEF DeliveredInv
  <1>5. ASSUME NEW p \in Preparers, CopyTree(p) \/ CopyEnds(p) PROVE DeliveredInv'
    <2>1. /\ Moves(p) /\ derived' = derived
          /\ prep[p].at \in {"copy", "copying"} /\ prep'[p].at \in {"copying", "derive"}
          /\ prep'[p].at = "derive" => workspace'[prep'[p].root] = "whole"
      BY <1>5, <1>t, <1>p DEF CopyTree, CopyEnds, Prep, PrepUnchanged, PrepTyped, Preps
    <2>2. Vouched' <=> Vouched
      BY <2>1, <1>x
    <2>3. ~spoiled => AlonePrep' /\ ~Vouched'
      BY <2>1, <2>2, <1>m, <1>p DEF DeliveredInv, AlonePrep
    <2> QED BY <1>t, <2>1, <2>3 DEF DeliveredInv
  <1>6. ASSUME NEW p \in Preparers, RegisterTree(p) PROVE DeliveredInv'
    <2>1. /\ Moves(p) /\ workspace' = workspace
          /\ prep[p].at = "derive" /\ prep'[p].at \in {"recheck", "idle"} /\ prep[p].root \in Roots
      BY <1>6, <1>t, <1>p DEF RegisterTree, Prep, PrepUnchanged, PrepTyped, Preps
    <2>2. ~spoiled => AlonePrep'
      BY <2>1, <1>m, <1>p DEF DeliveredInv, AlonePrep
    <2>3. ~spoiled => workspace'[prep[p].root] = "whole"
      BY <2>1 DEF DeliveredInv, AlonePrep
    <2> QED BY <1>t, <2>1, <2>2, <2>3 DEF DeliveredInv
  <1>7. ASSUME NEW p \in Preparers, Recheck(p) \/ PrepareDies(p) PROVE DeliveredInv'
    <2>1. Moves(p) /\ derived' = derived /\ workspace' = workspace /\ prep'[p] = PrepIdle
      BY <1>7, <1>t, <1>p DEF Recheck, PrepareDies, Prep, PrepUnchanged, PrepTyped
    <2>2. Vouched' <=> Vouched
      BY <2>1, <1>x
    <2>3. ~spoiled => AlonePrep'
      BY <2>1, <2>2, <1>m, <1>p DEF AlonePrep
    <2> QED BY <1>t, <1>w, <2>1, <2>2, <2>3 DEF DeliveredInv
  <1> HIDE DEF Moves
  <1> QED BY <1>1, <1>2, <1>3, <1>4, <1>5, <1>6, <1>7 DEF PrepNext

(* While the archive vouches for a tree that prepare made, some workspace  *)
(* has all of it, unless preparations have overlapped or one has begun     *)
(* beside a damaged tree.                                                  *)
THEOREM TreesAreDelivered == PrepSpec => []TreeIsDelivered
  <1>1. DeliveredInv => TreeIsDelivered
    BY DEF DeliveredInv, TreeIsDelivered, Vouched, DerivedVerifies, NotDerived
  <1> QED BY <1>1, DeliveredInit, DeliveredStep, PTL DEF PrepSpec

(* A report without a failure is about installable media and a tree with   *)
(* its lineage.                                                            *)
THEOREM ReportsAreGrounded == PrepSpec => []ReportIsGrounded
  <1>1. GroundedInv /\ [PrepNext]_prepVars => GroundedInv'
    <2> SUFFICES ASSUME GroundedInv, [PrepNext]_prepVars PROVE ReportIsGrounded'
      BY PrepTypedStep DEF GroundedInv
    <2> USE DEF GroundedInv, ReportIsGrounded
    <2>1. CASE \E r \in Roots, complete \in BOOLEAN, observed \in {"PASS", "FAIL", "HUMAN_REQUIRED"} :
                 QualifyPrepared(r, complete, observed)
      BY <2>1 DEF QualifyPrepared, VerifyArtifacts, DerivedVerifies, LineageStatus, Worst, Configure,
                  PrepTyped, NotDerived
    <2>2. ASSUME derived' = derived \/ derived = NotDerived, UNCHANGED <<original, report>>
          PROVE  ReportIsGrounded'
      BY <2>2
    <2>3. CASE \E bytes \in Bytes : DerivedChanges(bytes)
      BY <2>3 DEF DerivedChanges, PrepTyped, Trees, NotDerived
    <2>4. CASE (\E bytes \in Bytes : MediaChanges(bytes)) \/ RegisterOther \/ UNCHANGED prepVars
      BY <2>2, <2>4 DEF MediaChanges, RegisterOther, prepVars
    <2>5. ASSUME NEW p \in Preparers,
                 \/ \E r \in Roots : Prepare(p, r)
                 \/ ExtractTree(p) \/ CopyTree(p) \/ CopyEnds(p) \/ RegisterTree(p)
                 \/ Recheck(p) \/ PrepareDies(p)
          PROVE  (derived' = derived \/ derived = NotDerived) /\ UNCHANGED <<original, report>>
      BY <2>5 DEF Prepare, ExtractTree, CopyTree, CopyEnds, RegisterTree, Recheck, PrepareDies, PrepUnchanged
    <2> QED BY <2>1, <2>2, <2>3, <2>4, <2>5 DEF PrepNext
  <1>2. GroundedInv => ReportIsGrounded
    BY DEF GroundedInv
  <1> QED BY <1>1, <1>2, DeliveredInit, PTL DEF PrepSpec
=============================================================================
