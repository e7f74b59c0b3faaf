------------------------------- MODULE Backup -------------------------------
(* The living-state backups of ubb_backup/manager.py: create, list, verify *)
(* and restore.  A backup directory is named after a fresh ID, so each ID  *)
(* stands for one call of create, and the calls of several dashboard       *)
(* threads and command lines interleave.  The files of the living state    *)
(* are numbered in the sorted order in which create walks them, and the    *)
(* excluded ones are left out.  A payload is the sequence of the versions  *)
(* it holds, one for each file added so far.                               *)
EXTENDS Naturals, Sequences

CONSTANTS Backups,    \* the calls of create that may happen
          FileCount,  \* files of the living state
          MaxEdits    \* bound: changes the callers make to the files

ASSUME BackupAssumption == FileCount \in Nat \ {0} /\ MaxEdits \in Nat

VARIABLES live,      \* version of each file
          callers,   \* whether a caller is connected
          backup,    \* what is on disk of each backup, and how far create is
          restored,  \* version of each file under the destination of restore
          restoring, \* the backup being extracted, the files done, and
                     \* whether its payload was checked and is untouched since
          outcome    \* history: the backup of the last restore, if that
                     \* finished with its payload checked and untouched

backupVars == <<live, callers, backup, restored, restoring, outcome>>

Files == 1..FileCount
Versions == 0..MaxEdits
Damaged == MaxEdits + 1
Nothing == MaxEdits + 2
Idle == [backup |-> <<>>, done |-> 0, bytes |-> "checked"]

Modes == {"stopped", "live_best_effort"}
Phases == {"none", "tar", "manifest", "evidence", "done", "failed"}
FileStates == {"absent", "torn", "whole"}
Payloads == {"absent", "whole", "damaged"}

NoBackup == [phase |-> "none", staged |-> <<>>, payload |-> "absent",
             manifest |-> "absent", evidence |-> "absent"]

BackupInit ==
  /\ live = [f \in Files |-> 0]
  /\ callers = FALSE
  /\ backup = [b \in Backups |-> NoBackup]
  /\ restored = [f \in Files |-> Nothing]
  /\ restoring = Idle
  /\ outcome = <<>>

-----------------------------------------------------------------------------
(* The callers, who change the living state while they are connected.      *)

CallersChange ==
  /\ callers' = ~callers
  /\ UNCHANGED <<live, backup, restored, restoring, outcome>>

Edit(f) ==
  /\ callers
  /\ live[f] < MaxEdits
  /\ live' = [live EXCEPT ![f] = @ + 1]
  /\ UNCHANGED <<callers, backup, restored, restoring, outcome>>

-----------------------------------------------------------------------------
(* create                                                                  *)

Advance(b, changes) ==
  /\ backup' = [backup EXCEPT ![b] = changes]
  /\ UNCHANGED <<live, callers, restored, restoring, outcome>>

(* Only a stopped backup needs the callers gone, and only at this moment.  *)
CreateBegin(b, mode) ==
  /\ backup[b].phase = "none"
  /\ mode = "stopped" => ~callers
  /\ Advance(b, [backup[b] EXCEPT !.phase = "tar"])

AddFile(b) ==
  /\ backup[b].phase = "tar"
  /\ Len(backup[b].staged) < FileCount
  /\ LET f == Len(backup[b].staged) + 1
     IN  Advance(b, [backup[b] EXCEPT !.staged = Append(@, live[f])])

FaultyMovePayload(b) ==
  /\ backup[b].phase = "tar"
  /\ Len(backup[b].staged) = FileCount
  /\ Advance(b, [backup[b] EXCEPT !.phase = "manifest", !.manifest = "whole"])

(* The digest is taken of the finished payload, which is then renamed.     *)
MovePayload(b) ==
  /\ backup[b].phase = "tar"
  /\ Len(backup[b].staged) = FileCount
  /\ Advance(b, [backup[b] EXCEPT !.phase = "manifest", !.payload = "whole"])

(* Each manifest is created and then filled: a crash may fall between.     *)
WriteManifest(b) ==
  \/ /\ backup[b].phase = "manifest"
     /\ backup[b].manifest = "absent"
     /\ Advance(b, [backup[b] EXCEPT !.manifest = "torn"])
  \/ /\ backup[b].phase = "manifest"
     /\ backup[b].manifest = "torn"
     /\ Advance(b, [backup[b] EXCEPT !.phase = "evidence", !.manifest = "whole"])

WriteEvidence(b) ==
  \/ /\ backup[b].phase = "evidence"
     /\ backup[b].evidence = "absent"
     /\ Advance(b, [backup[b] EXCEPT !.evidence = "torn"])
  \/ /\ backup[b].phase = "evidence"
     /\ backup[b].evidence = "torn"
     /\ Advance(b, [backup[b] EXCEPT !.phase = "done", !.evidence = "whole"])

(* An exception (a symlink in the living state, a full disk) or the end of *)
(* the process.  Either way what was moved or written to the final         *)
(* directory stays there; only the staging directory is removed.           *)
CreateFails(b) ==
  /\ backup[b].phase \in {"tar", "manifest", "evidence"}
  /\ Advance(b, [backup[b] EXCEPT !.phase = "failed"])

-----------------------------------------------------------------------------
(* list, verify and restore                                                *)

Listed(b) == backup[b].manifest = "whole"

Verifies(b) == Listed(b) /\ backup[b].payload = "whole"

(* A payload may rot at any time, also while restore is reading it.        *)
Rot(b) ==
  /\ backup[b].phase \in {"done", "failed"}
  /\ backup[b].payload = "whole"
  /\ backup' = [backup EXCEPT ![b] = [backup[b] EXCEPT !.payload = "damaged"]]
  /\ restoring' = IF restoring.backup = <<b>> THEN [restoring EXCEPT !.bytes = "unchecked"]
                  ELSE restoring
  /\ UNCHANGED <<live, callers, restored, outcome>>

(* restore verifies the payload, or takes the word of a caller who passes  *)
(* verified=True; restore_plan needs the manifest in any case.             *)
RestoreBegin(b, verified) ==
  /\ restoring = Idle
  /\ IF verified THEN Listed(b) ELSE Verifies(b)
  /\ restoring' = [backup |-> <<b>>, done |-> 0,
                   bytes |-> IF verified THEN "unchecked" ELSE "checked"]
  /\ outcome' = <<>>
  /\ UNCHANGED <<live, callers, backup, restored>>

(* extractall overwrites what an earlier restore has left.                 *)
RestoreFile ==
  /\ restoring # Idle
  /\ LET b == Head(restoring.backup)
         f == restoring.done + 1
     IN  /\ restored' = [restored EXCEPT ![f] =
              IF backup[b].payload = "whole" THEN backup[b].staged[f] ELSE Damaged]
         /\ IF f = FileCount
            THEN /\ restoring' = Idle
                 /\ outcome' = IF restoring.bytes = "checked" THEN <<b>> ELSE <<>>
            ELSE restoring' = [restoring EXCEPT !.done = f] /\ UNCHANGED outcome
  /\ UNCHANGED <<live, callers, backup>>

(* The process dies, or the damage is such that tarfile notices it.        *)
RestoreCrash ==
  /\ restoring # Idle
  /\ restoring' = Idle
  /\ UNCHANGED <<live, callers, backup, restored, outcome>>

BackupNext ==
  \/ CallersChange
  \/ \E f \in Files : Edit(f)
  \/ \E b \in Backups :
       \/ \E mode \in Modes : CreateBegin(b, mode)
       \/ AddFile(b) \/ MovePayload(b) \/ WriteManifest(b) \/ WriteEvidence(b)
       \/ CreateFails(b) \/ Rot(b)
       \/ \E verified \in BOOLEAN : RestoreBegin(b, verified)
  \/ RestoreFile \/ RestoreCrash

BackupSpec == BackupInit /\ [][BackupNext]_backupVars

-----------------------------------------------------------------------------
BackupTypeOK ==
  /\ live \in [Files -> Versions]
  /\ callers \in BOOLEAN
  /\ backup \in [Backups -> [phase : Phases, staged : Seq(Versions), payload : Payloads,
                             manifest : FileStates, evidence : FileStates]]
  /\ restored \in [Files -> Versions \cup {Damaged, Nothing}]
  /\ restoring \in [backup : Seq(Backups), done : 0..FileCount,
                    bytes : {"checked", "unchecked"}]
  /\ outcome \in Seq(Backups)

(* docs/BACKUP.md: "Incomplete staging directories are never listed".  In  *)
(* whatever order creations fail, die or finish, a directory that list     *)
(* shows, or whose backup-manifest.json the observatory reads as evidence, *)
(* has the finished payload in it (unless it has rotted since).            *)
ListedIsWhole ==
  \A b \in Backups :
    Listed(b) \/ backup[b].evidence = "whole" =>
      /\ backup[b].payload # "absent"
      /\ Len(backup[b].staged) = FileCount

(* When restore returns, the destination holds, file by file, what create  *)
(* took from the living state, and nothing of the backups that earlier     *)
(* restores brought there or left half extracted: provided that restore    *)
(* checked the payload itself and that it did not rot while it was read.   *)
RestoredIsBackup ==
  \A b \in Backups : outcome = <<b>> =>
    \A f \in Files : restored[f] = backup[b].staged[f]
=============================================================================
