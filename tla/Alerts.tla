------------------------------- MODULE Alerts -------------------------------
(* MonitoringEngine.evaluate (ubb_monitoring/engine.py): the alerts file   *)
(* that the one-minute timer and every request for the alerts page derive  *)
(* from the current conditions and the file's last contents.  The          *)
(* evaluators are processes and threads without a common lock.  Counts and *)
(* times of a record are left out, except that the cleared alerts are kept *)
(* in the order in which they were cleared.                                *)
EXTENDS Naturals, Sequences, SequencesExt

CONSTANTS Conditions,   \* alert keys
          Evaluators,   \* concurrent calls of evaluate
          Retention,    \* cleared alerts kept
          MaxChanges    \* bound: changes of the conditions

ASSUME AlertsAssumption == Retention \in Nat \ {0} /\ MaxChanges \in Nat

VARIABLES holding,   \* the conditions that hold now
          changes,   \* how often they have changed
          file,      \* alerts.json
          tmp,       \* alerts.tmp, shared by all evaluators
          evaluator  \* progress of each evaluation

alertVars == <<holding, changes, file, tmp, evaluator>>

NoRecords == [active |-> {}, cleared |-> <<>>]
Missing == [text |-> "absent", records |-> NoRecords, writers |-> {}]
Resting == [at |-> "idle"]

AlertsInit ==
  /\ holding = {}
  /\ changes = 0
  /\ file = Missing
  /\ tmp = Missing
  /\ evaluator = [e \in Evaluators |-> Resting]

(* A service fails or recovers, a backup or a qualification appears.       *)
ConditionsChange(c) ==
  /\ changes < MaxChanges
  /\ changes' = changes + 1
  /\ holding' = IF c \in holding THEN holding \ {c} ELSE holding \cup {c}
  /\ UNCHANGED <<file, tmp, evaluator>>

-----------------------------------------------------------------------------
(* What evaluate makes of the old records when the conditions seen hold;   *)
(* alerts cleared together may come in either order.                       *)
Records(old, seen) ==
  {LET cleared == SelectSeq(old.cleared, LAMBDA c : c \notin seen) \o s
   IN  [active |-> seen,
        cleared |-> IF Len(cleared) > Retention
                    THEN SubSeq(cleared, Len(cleared) - Retention + 1, Len(cleared))
                    ELSE cleared] : s \in SetToSeqs(old.active \ seen)}

(* The snapshot is taken before evaluate is called, and the file read at   *)
(* its start; a file that does not parse counts as no records.             *)
Observe(e) ==
  /\ evaluator[e] = Resting
  /\ evaluator' = [evaluator EXCEPT ![e] = [at |-> "load", seen |-> holding]]
  /\ UNCHANGED <<holding, changes, file, tmp>>

FaultyLoad(e) ==
  /\ evaluator[e].at = "load"
  /\ \E records \in Records(file.records, evaluator[e].seen \cup file.records.active) :
       evaluator' = [evaluator EXCEPT ![e] = [at |-> "open", records |-> records]]
  /\ UNCHANGED <<holding, changes, file, tmp>>

Load(e) ==
  /\ evaluator[e].at = "load"
  /\ \E records \in Records(file.records, evaluator[e].seen) :
       evaluator' = [evaluator EXCEPT ![e] = [at |-> "open", records |-> records]]
  /\ UNCHANGED <<holding, changes, file, tmp>>

(* write_text truncates the one temporary file, whose other writers keep   *)
(* their handles on it.                                                    *)
OpenTmp(e) ==
  /\ evaluator[e].at = "open"
  /\ tmp' = [text |-> "torn", records |-> NoRecords, writers |-> tmp.writers \cup {e}]
  /\ evaluator' = [evaluator EXCEPT ![e].at = "write"]
  /\ UNCHANGED <<holding, changes, file>>

(* What file f is after e has written its text from the start: e's text,   *)
(* or, over another's longer text, one that does not parse.                *)
Written(f, e) ==
  LET mine == [text |-> "whole", records |-> evaluator[e].records,
               writers |-> f.writers \ {e}]
  IN  IF f.text = "whole" /\ f.records # mine.records
      THEN {mine, [mine EXCEPT !.text = "torn", !.records = NoRecords]} ELSE {mine}

(* The file that e opened may by now have been renamed, or replaced.       *)
WriteTmp(e) ==
  /\ evaluator[e].at = "write"
  /\ tmp' \in IF e \in tmp.writers THEN Written(tmp, e) ELSE {tmp}
  /\ file' \in IF e \in file.writers THEN Written(file, e) ELSE {file}
  /\ evaluator' = [evaluator EXCEPT ![e].at = "replace"]
  /\ UNCHANGED <<holding, changes>>

(* os.replace raises when the temporary file is gone.                      *)
ReplaceFile(e) ==
  /\ evaluator[e].at = "replace"
  /\ IF tmp = Missing THEN UNCHANGED <<file, tmp>> ELSE file' = tmp /\ tmp' = Missing
  /\ evaluator' = [evaluator EXCEPT ![e] = Resting]
  /\ UNCHANGED <<holding, changes>>

Evaluation(e) == Observe(e) \/ Load(e) \/ OpenTmp(e) \/ WriteTmp(e) \/ ReplaceFile(e)

AlertsNext ==
  \/ \E c \in Conditions : ConditionsChange(c)
  \/ \E e \in Evaluators : Evaluation(e)

(* The timer keeps evaluating, and an evaluation does not hang.            *)
AlertsFairness == \A e \in Evaluators : WF_alertVars(Evaluation(e))

AlertsSpec == AlertsInit /\ [][AlertsNext]_alertVars /\ AlertsFairness

-----------------------------------------------------------------------------
AlertsTypeOK ==
  /\ holding \subseteq Conditions
  /\ changes \in 0..MaxChanges
  /\ {file.text, tmp.text} \subseteq {"absent", "torn", "whole"}
  /\ \A e \in Evaluators :
       evaluator[e].at \in {"idle", "load", "open", "write", "replace"}

(* A condition that stays is reported: evaluations based on older          *)
(* snapshots may overwrite newer ones and each other's text, but once the  *)
(* conditions rest the file shows exactly them as active, again and again. *)
AlertsConverge ==
  \A s \in SUBSET Conditions :
    <>[](holding = s) => []<>(file.text = "whole" /\ file.records.active = s)
=============================================================================
