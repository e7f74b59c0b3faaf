---------------------------- MODULE Preparation -----------------------------
(* Preparation and qualification of the Amiga products (ABBS, AmiExpress): *)
(* prepare verifies the preserved original, extracts it, copies the tree   *)
(* to the workspace of the installation root and registers it in the       *)
(* archive as derived media; qualify judges the result.  Installation      *)
(* roots share the archive, and commands may overlap or be killed.  The    *)
(* rest of install is in Integrations, derive in Archive.                  *)
EXTENDS Naturals

CONSTANTS Preparers,   \* processes that run prepare
          Roots        \* installation roots

VARIABLES original,   \* what the archive says of the original; never changes
          media,      \* the bytes of the original's object
          derived,    \* the artifact <original>-install-tree
          workspace,  \* installation/<digest> of each root
          prep,       \* progress of each prepare
          report,     \* qualification/latest.json of each root: the worst status
          spoiled     \* history: two preparations have overlapped, or one has
                      \* begun beside a damaged tree

prepVars == <<original, media, derived, workspace, prep, report, spoiled>>

Bytes == {"preserved", "damaged"}
NotDerived == [bytes |-> "absent"]
PrepIdle == [at |-> "idle"]

PrepInit ==
  /\ original \in [classified : BOOLEAN, installable : BOOLEAN, publishable : BOOLEAN,
                   authentic : BOOLEAN]
  /\ media = "preserved"
  /\ derived = NotDerived
  /\ workspace = [r \in Roots |-> "absent"]
  /\ prep = [p \in Preparers |-> PrepIdle]
  /\ report = [r \in Roots |-> "none"]
  /\ spoiled = FALSE

-----------------------------------------------------------------------------
(* verify_artifacts: the bytes verify, family and role are right, the      *)
(* rights allow installation and nothing more, and the digest is that of   *)
(* the release unless the copy is a private one.                           *)
VerifyArtifacts ==
  /\ media = "preserved"
  /\ original.classified /\ original.authentic
  /\ original.installable /\ ~original.publishable

(* verify_one of the derived tree.                                         *)
DerivedVerifies == derived.bytes = "preserved"

(* The disk damages an object and the archive is repaired; an operator     *)
(* registers something else under the name of the tree.                    *)
MediaChanges(bytes) ==
  /\ media' = bytes
  /\ UNCHANGED <<original, derived, workspace, prep, report, spoiled>>

DerivedChanges(bytes) ==
  /\ derived # NotDerived
  /\ derived' = [derived EXCEPT !.bytes = bytes]
  /\ UNCHANGED <<original, media, workspace, prep, report, spoiled>>

RegisterOther ==
  /\ derived = NotDerived
  /\ derived' = [bytes |-> "preserved", lineage |-> FALSE]
  /\ UNCHANGED <<original, media, workspace, prep, report, spoiled>>

-----------------------------------------------------------------------------
(* prepare                                                                 *)

Prep(p, next) == prep' = [prep EXCEPT ![p] = next]
PrepUnchanged == UNCHANGED <<original, media, report, spoiled>>

(* A tree that verifies is taken as it is.                                 *)
Prepare(p, r) ==
  /\ prep[p] = PrepIdle
  /\ VerifyArtifacts /\ ~DerivedVerifies
  /\ Prep(p, [at |-> "extract", root |-> r])
  /\ workspace' = [workspace EXCEPT ![r] = IF @ = "absent" THEN "partial" ELSE @]
  /\ spoiled' = (spoiled \/ derived # NotDerived \/ \E q \in Preparers : prep[q] # PrepIdle)
  /\ UNCHANGED <<original, media, derived, report>>

(* _extract into a temporary directory refuses links and paths that lead   *)
(* out of it, lha may be missing or fail; damaged bytes may come through.  *)
ExtractTree(p) ==
  /\ prep[p].at = "extract"
  /\ \/ Prep(p, [at |-> "copy", root |-> prep[p].root])
     \/ Prep(p, PrepIdle)
  /\ UNCHANGED <<derived, workspace>> /\ PrepUnchanged

(* copytree writes over the files that are there, one after the other.     *)
CopyTree(p) ==
  /\ prep[p].at = "copy"
  /\ workspace' = [workspace EXCEPT ![prep[p].root] = "partial"]
  /\ Prep(p, [prep[p] EXCEPT !.at = "copying"])
  /\ UNCHANGED derived /\ PrepUnchanged

CopyEnds(p) ==
  /\ prep[p].at = "copying"
  /\ workspace' = [workspace EXCEPT ![prep[p].root] = "whole"]
  /\ Prep(p, [prep[p] EXCEPT !.at = "derive"])
  /\ UNCHANGED derived /\ PrepUnchanged

FaultyRegisterTree(p) ==
  /\ prep[p].at \in {"copy", "derive"}
  /\ derived = NotDerived
  /\ derived' = [bytes |-> "preserved", lineage |-> TRUE]
  /\ Prep(p, [prep[p] EXCEPT !.at = IF @ = "copy" THEN "copy" ELSE "recheck"])
  /\ UNCHANGED workspace /\ PrepUnchanged

(* ubb_archive.derive raises when the name is taken.                       *)
RegisterTree(p) ==
  /\ prep[p].at = "derive"
  /\ IF derived = NotDerived
     THEN /\ derived' = [bytes |-> "preserved", lineage |-> TRUE]
          /\ Prep(p, [prep[p] EXCEPT !.at = "recheck"])
     ELSE UNCHANGED derived /\ Prep(p, PrepIdle)
  /\ UNCHANGED workspace /\ PrepUnchanged

(* The original is hashed again; a change is reported, and the tree stays. *)
Recheck(p) ==
  /\ prep[p].at = "recheck"
  /\ Prep(p, PrepIdle)
  /\ UNCHANGED <<derived, workspace>> /\ PrepUnchanged

PrepareDies(p) ==
  /\ prep[p] # PrepIdle
  /\ Prep(p, PrepIdle)
  /\ UNCHANGED <<derived, workspace>> /\ PrepUnchanged

-----------------------------------------------------------------------------
(* configure: the operator's evidence is complete or a human is required.  *)
Configure(complete) == IF complete THEN "PASS" ELSE "HUMAN_REQUIRED"

Worst(statuses) ==
  IF "FAIL" \in statuses THEN "FAIL"
  ELSE IF "HUMAN_REQUIRED" \in statuses THEN "HUMAN_REQUIRED" ELSE "PASS"

LineageStatus == IF derived.lineage THEN "PASS" ELSE "FAIL"

(* qualify and _record; observed is the worst of the observations.         *)
QualifyPrepared(r, complete, observed) ==
  /\ report' = [report EXCEPT ![r] =
       IF VerifyArtifacts /\ DerivedVerifies
       THEN Worst({LineageStatus, Configure(complete), observed}) ELSE "FAIL"]
  /\ UNCHANGED <<original, media, derived, workspace, prep, spoiled>>

PrepNext ==
  \/ \E bytes \in Bytes : MediaChanges(bytes) \/ DerivedChanges(bytes)
  \/ RegisterOther
  \/ \E p \in Preparers :
       \/ \E r \in Roots : Prepare(p, r)
       \/ ExtractTree(p) \/ CopyTree(p) \/ CopyEnds(p) \/ RegisterTree(p)
       \/ Recheck(p) \/ PrepareDies(p)
  \/ \E r \in Roots, complete \in BOOLEAN, observed \in {"PASS", "FAIL", "HUMAN_REQUIRED"} :
       QualifyPrepared(r, complete, observed)

PrepSpec == PrepInit /\ [][PrepNext]_prepVars

-----------------------------------------------------------------------------
PrepTypeOK ==
  /\ media \in Bytes
  /\ derived.bytes \in Bytes \cup {"absent"}
  /\ workspace \in [Roots -> {"absent", "partial", "whole"}]
  /\ \A p \in Preparers :
       prep[p].at \in {"idle", "extract", "copy", "copying", "derive", "recheck"}
  /\ report \in [Roots -> {"none", "PASS", "FAIL", "HUMAN_REQUIRED"}]

(* While the archive vouches for an install tree that prepare made, some   *)
(* workspace has all of it, wherever a preparation failed or died: the     *)
(* next prepare would not copy it again.  Only preparations that overlap   *)
(* may spoil it, or one that is killed while it copies over the workspace  *)
(* of a damaged tree, once the archive is repaired.                        *)
TreeIsDelivered ==
  DerivedVerifies /\ derived.lineage /\ ~spoiled =>
    \E r \in Roots : workspace[r] = "whole"

(* A report without a failure is about media that may be installed, and    *)
(* about a tree with its lineage, although prepare takes whatever has the  *)
(* tree's name; nothing that fails later unmakes the lineage.              *)
ReportIsGrounded ==
  \A r \in Roots : report[r] \in {"PASS", "HUMAN_REQUIRED"} =>
    /\ original.installable /\ ~original.publishable
    /\ derived # NotDerived /\ derived.lineage
=============================================================================
