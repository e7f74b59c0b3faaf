--------------------------- MODULE SerialQualify ----------------------------
(* The COM1 qualification harness (ubb-dos-serial-qualify.py) and its DOS  *)
(* guest (qualification/serialtest.asm).  The harness boots the guest,     *)
(* exchanges bytes with it over a PTY and judges the result record, which  *)
(* the guest leaves in a FAT image, or which lies in the host directory.   *)
(* Image and directory are used by one run after the other and nobody      *)
(* clears them, so that a run may meet the record of an earlier one.       *)
EXTENDS Naturals

CONSTANT MaxRuns   \* bound: runs of the harness

ASSUME SerialAssumption == MaxRuns \in Nat

VARIABLES runs,      \* runs started
          mode,      \* of the last run: SELFTEST, EXCHANGE or MATRIX
          image,     \* whether it has a FAT image
          at,        \* where the harness is
          verdict,   \* how it ended: PASS, FAIL, a traceback, or not yet
          expired,   \* whether the deadline of the run has passed
          banner,    \* whether the harness has seen the kernel's banner
          guest,     \* progress of the DOSEMU2 process
          wire,      \* the PTY in this run: quiet, sent, answered
          hostReady, \* whether the host directory has READY.RST
          hostFile,  \* SERIAL.RST of the host directory
          imageFile, \* SERIAL.RST of the FAT image
          judged     \* the record on which a PASS rests

serialVars == <<runs, mode, image, at, verdict, expired, banner, guest, wire,
                hostReady, hostFile, imageFile, judged>>

SerialModes == {"SELFTEST", "EXCHANGE", "MATRIX"}
NoFile == [result |-> "absent"]
Record(result) == [result |-> result, mode |-> mode, run |-> runs]
GuestStates == {"none", "booting", "running", "recording", "done", "dead"}

(* The host directory may hold either file of the probe's first version,   *)
(* which wrote to drive C.                                                 *)
SerialInit ==
  /\ runs = 0 /\ mode = "EXCHANGE" /\ image = FALSE
  /\ at = "idle" /\ verdict = "none" /\ expired = FALSE
  /\ banner = FALSE /\ guest = "none" /\ wire = "quiet"
  /\ hostFile \in {NoFile} \cup [result : {"PASS"}, mode : {"SELFTEST", "EXCHANGE"}, run : {0}]
  /\ hostReady \in BOOLEAN /\ imageFile = NoFile /\ judged = NoFile

-----------------------------------------------------------------------------
(* The guest: the kernel boots, AUTOEXEC.BAT runs UBBTEST.COM in the mode. *)

GuestStep(next) ==
  /\ guest' = next
  /\ UNCHANGED <<runs, mode, image, at, verdict, expired, hostReady, hostFile, judged>>

(* The harness may read the banner in two pieces and miss it.              *)
GuestBoots ==
  /\ guest = "booting"
  /\ GuestStep("running")
  /\ banner' \in BOOLEAN
  /\ UNCHANGED <<wire, imageFile>>

(* write_file, on drive D, which only a run with an image has.             *)
WriteRecord(result) ==
  imageFile' = IF image THEN Record(result) ELSE imageFile

GuestSelftest ==
  /\ guest = "running" /\ mode = "SELFTEST"
  /\ GuestStep("done")
  /\ WriteRecord("PASS")
  /\ UNCHANGED <<banner, wire>>

(* Every byte is received and compared before the reply is sent.           *)
GuestAnswers ==
  /\ guest = "running" /\ mode # "SELFTEST"
  /\ wire = "sent"
  /\ GuestStep("recording")
  /\ wire' = "answered"
  /\ UNCHANGED <<banner, imageFile>>

GuestRecords ==
  /\ guest = "recording"
  /\ GuestStep("done")
  /\ WriteRecord("PASS")
  /\ UNCHANGED <<banner, wire>>

(* The bounded polling ends before a byte has come, or the byte is wrong.  *)
GuestGivesUp ==
  /\ guest = "running" /\ mode # "SELFTEST"
  /\ GuestStep("done")
  /\ WriteRecord("FAIL")
  /\ UNCHANGED <<banner, wire>>

(* DOSEMU2 obeys SIGTERM, or ends of itself.                               *)
GuestEnds ==
  /\ guest \notin {"none", "dead"}
  /\ GuestStep("dead")
  /\ UNCHANGED <<banner, wire, imageFile>>

-----------------------------------------------------------------------------
(* The harness                                                             *)

Goto(next) == at' = next /\ UNCHANGED <<verdict, judged>>
Conclude(v, record) == at' = "finally" /\ verdict' = v /\ judged' = record
(* main prints FAIL for an OSError, a RuntimeError or a ValueError, and    *)
(* lets TimeoutExpired and CalledProcessError of subprocess go by.         *)
Raise == Conclude("FAIL", NoFile)
Uncaught == Conclude("traceback", NoFile)
HarnessUnchanged ==
  UNCHANGED <<runs, mode, image, expired, banner, guest, hostReady, hostFile, imageFile>>

(* install_boot_files, which refuses a tree without COMMAND.COM before     *)
(* anything is started, openpty and Popen.                                 *)
RunStarts(m, i) ==
  /\ at = "idle" /\ runs < MaxRuns
  /\ runs' = runs + 1 /\ mode' = m /\ image' = i
  /\ expired' = FALSE /\ banner' = FALSE /\ wire' = "quiet" /\ judged' = NoFile
  /\ \/ guest' = "booting" /\ at' = "boot" /\ verdict' = "none"
     \/ guest' = "none" /\ at' = "idle" /\ verdict' = "FAIL"
  /\ UNCHANGED <<hostReady, hostFile, imageFile>>

DeadlinePasses ==
  /\ at # "idle" /\ ~expired
  /\ expired' = TRUE
  /\ UNCHANGED <<runs, mode, image, at, verdict, banner, guest, wire, hostReady, hostFile,
                 imageFile, judged>>

(* READY.RST is there, the banner was seen a second ago, or time is up.    *)
(* In each round poll() may find that DOSEMU2 has exited, in that second   *)
(* too; what ends after the last poll() goes unnoticed.                    *)
AwaitBoot ==
  /\ at = "boot"
  /\ \/ /\ hostReady \/ banner
        /\ Goto(IF mode = "SELFTEST" THEN "selftest" ELSE "send")
     \/ /\ ~hostReady
        /\ IF expired THEN ~banner ELSE guest = "dead"
        /\ Raise
  /\ HarnessUnchanged /\ UNCHANGED wire

(* The tests of RESULT and MODE, or of RESULT, RX and TX: the bytes tell   *)
(* EXCHANGE and MATRIX apart, and the record of a SELFTEST has none.       *)
Matches(record) == record.result = "PASS" /\ record.mode = mode

(* The result of a SELFTEST in the host directory, or else in the image.   *)
AwaitSelftest ==
  /\ at = "selftest"
  /\ hostFile # NoFile \/ expired
  /\ IF hostFile = NoFile THEN IF image THEN Goto("stop") ELSE Raise
     ELSE IF Matches(hostFile) THEN Conclude("PASS", hostFile) ELSE Raise
  /\ HarnessUnchanged /\ UNCHANGED wire

SendBytes ==
  /\ at = "send"
  /\ Goto("reply")
  /\ wire' = "sent"
  /\ HarnessUnchanged

FaultyAwaitReply ==
  /\ at = "reply"
  /\ wire = "answered" \/ expired
  /\ Goto(IF image THEN "stop" ELSE "result")
  /\ HarnessUnchanged /\ UNCHANGED wire

(* read_exact until the reply is there or the deadline has passed.         *)
AwaitReply ==
  /\ at = "reply"
  /\ \/ wire = "answered" /\ Goto(IF image THEN "stop" ELSE "result")
     \/ expired /\ wire # "answered" /\ Raise
  /\ HarnessUnchanged /\ UNCHANGED wire

(* terminate and wait(3): where the guest outlives the three seconds,      *)
(* nothing catches TimeoutExpired.                                         *)
StopGuest ==
  /\ at = "stop"
  /\ IF guest = "dead" THEN Goto("inspect") ELSE Uncaught
  /\ HarnessUnchanged /\ UNCHANGED wire

(* read_image_result: mtype cannot be run or prints no text, which is      *)
(* caught, or fails where there is no file, which is not.  A record that   *)
(* does not match leaves the one in the host directory.                    *)
InspectImage ==
  /\ at = "inspect"
  /\ \/ Raise
     \/ imageFile = NoFile /\ Uncaught
     \/ /\ imageFile # NoFile
        /\ IF Matches(imageFile) THEN Conclude("PASS", imageFile)
           ELSE IF mode = "SELFTEST" THEN Raise
           ELSE Goto("result")
  /\ HarnessUnchanged /\ UNCHANGED wire

AwaitResult ==
  /\ at = "result"
  /\ hostFile # NoFile \/ expired
  /\ IF hostFile # NoFile /\ Matches(hostFile) THEN Conclude("PASS", hostFile) ELSE Raise
  /\ HarnessUnchanged /\ UNCHANGED wire

FaultyCleanUp ==
  /\ at = "finally" /\ guest = "dead"
  /\ at' = "idle"
  /\ UNCHANGED <<runs, mode, image, verdict, expired, banner, guest, wire, hostReady, hostFile,
                 imageFile, judged>>

(* terminate, wait(3) and then kill.                                       *)
CleanUp ==
  /\ at = "finally"
  /\ guest' = "dead"
  /\ at' = "idle"
  /\ UNCHANGED <<runs, mode, image, verdict, expired, banner, wire, hostReady, hostFile,
                 imageFile, judged>>

Harness ==
  \/ DeadlinePasses \/ AwaitBoot \/ AwaitSelftest \/ SendBytes \/ AwaitReply
  \/ StopGuest \/ InspectImage \/ AwaitResult \/ CleanUp

SerialNext ==
  \/ \E m \in SerialModes, i \in BOOLEAN : RunStarts(m, i)
  \/ GuestBoots \/ GuestSelftest \/ GuestAnswers \/ GuestRecords \/ GuestGivesUp \/ GuestEnds
  \/ Harness

(* The clock and the harness go on; the guest owes nothing.                *)
SerialSpec == SerialInit /\ [][SerialNext]_serialVars /\ WF_serialVars(Harness)

-----------------------------------------------------------------------------
SerialTypeOK ==
  /\ runs \in 0..MaxRuns /\ mode \in SerialModes /\ image \in BOOLEAN
  /\ at \in {"idle", "boot", "selftest", "send", "reply", "stop", "inspect", "result", "finally"}
  /\ verdict \in {"PASS", "FAIL", "traceback", "none"} /\ expired \in BOOLEAN
  /\ banner \in BOOLEAN /\ hostReady \in BOOLEAN
  /\ guest \in GuestStates /\ wire \in {"quiet", "sent", "answered"}

(* docs/M9.1d-SERIAL-INVESTIGATION.md makes no COM claim without a reply:  *)
(* a PASS of EXCHANGE or MATRIX means that the guest of this very run got  *)
(* the harness's bytes and answered, and every PASS rests on a record of   *)
(* the run's mode, although the record itself may be an earlier run's.     *)
PassIsEvidenced ==
  verdict = "PASS" =>
    /\ mode # "SELFTEST" => wire = "answered"
    /\ judged.result = "PASS" /\ judged.mode = mode

(* The comment in run: "The FAT image is guest-owned until the process has *)
(* stopped."  The harness never looks into it beside a live guest, nor     *)
(* leaves a guest to write into the next run's image.                      *)
ImageIsQuiet == at \in {"idle", "inspect"} => guest \in {"none", "dead"}

(* A run comes to its end whatever the guest does or fails to do, and      *)
(* prints PASS or FAIL, except that one with an image may end in a         *)
(* traceback: its guest ignores SIGTERM, or has left no record.            *)
SerialEnds ==
  (at # "idle") ~> /\ at = "idle"
                   /\ verdict \in {"PASS", "FAIL"} \/ (verdict = "traceback" /\ image)
=============================================================================
