----------------------------- MODULE Deployment -----------------------------
(* DeploymentManager (ubb_deployment/manager.py): materialize copies a     *)
(* verified object of the archive to a staging directory, describes it in  *)
(* a manifest and renames the directory to the target; verify compares a   *)
(* deployment with its manifest and with the archive.  Several processes   *)
(* may materialize at once.  The bytes of a tree are "preserved" when they *)
(* are those the archive took in.                                          *)
EXTENDS Naturals

CONSTANTS Artifacts,      \* preserved artifacts
          Forbidden,      \* those whose rights forbid local installation
          Targets,        \* target directories
          Materializers   \* processes that call materialize

ASSUME DeploymentAssumption == Forbidden \subseteq Artifacts

VARIABLES object,   \* bytes of each artifact's object, or "missing"
          proc,     \* progress of each call of materialize
          target,   \* what each target directory holds
          struck,   \* history: calls whose object was damaged after its check
          tainted   \* history: targets that such a call published

deploymentVars == <<object, proc, target, struck, tainted>>

Contents == {"preserved", "damaged", "edited"}
Absent == [manifest |-> "absent"]
Deployed(a, tree) == [manifest |-> "whole", artifact |-> a, digest |-> tree, assets |-> tree]

DeploymentInit ==
  /\ object = [a \in Artifacts |-> "preserved"]
  /\ proc = [m \in Materializers |-> [phase |-> "idle"]]
  /\ target = [t \in Targets |-> Absent]
  /\ struck = {} /\ tainted = {}

-----------------------------------------------------------------------------
(* The archive's disk may damage an object or lose it, and the archive is  *)
(* repaired: a lost object is linked again by the next import of the same  *)
(* bytes.  A sysop may edit a deployment.                                  *)

Damage(a, bytes) ==
  /\ object' = [object EXCEPT ![a] = bytes]
  /\ struck' = struck \cup
       {m \in Materializers : proc[m].phase = "copy" /\ proc[m].artifact = a}
  /\ UNCHANGED <<proc, target, tainted>>

Repair(a) ==
  /\ object' = [object EXCEPT ![a] = "preserved"]
  /\ UNCHANGED <<proc, target, struck, tainted>>

EditAssets(t) ==
  /\ target[t] # Absent
  /\ target' = [target EXCEPT ![t].assets = "edited"]
  /\ UNCHANGED <<object, proc, struck, tainted>>

-----------------------------------------------------------------------------
FaultyMetadata(a) == a \notin Forbidden /\ object[a] # "missing"

(* _metadata: the rights allow it and the object has its digest.           *)
Metadata(a) == a \notin Forbidden /\ object[a] = "preserved"

Step(m, p) == proc' = [proc EXCEPT ![m] = p]

Begin(m, a, t) ==
  /\ proc[m].phase = "idle"
  /\ Metadata(a)
  /\ Step(m, [phase |-> "copy", artifact |-> a, target |-> t])
  /\ struck' = struck \ {m}
  /\ UNCHANGED <<object, target, tainted>>

(* The object is read a second time for the copy; the manifest's digest is *)
(* that of the copied tree.  An object that is gone by now is an OSError.  *)
CopyObject(m) ==
  /\ proc[m].phase = "copy"
  /\ Step(m, IF object[proc[m].artifact] = "missing" THEN [phase |-> "idle"]
             ELSE [phase |-> "check", artifact |-> proc[m].artifact,
                   target |-> proc[m].target, tree |-> object[proc[m].artifact]])
  /\ UNCHANGED <<object, target, struck, tainted>>

CheckTarget(m) ==
  /\ proc[m].phase = "check"
  /\ Step(m, IF target[proc[m].target] = Absent
             THEN [proc[m] EXCEPT !.phase = "replace"] ELSE [phase |-> "idle"])
  /\ UNCHANGED <<object, target, struck, tainted>>

(* os.replace refuses a directory that is not empty, which a target that   *)
(* appeared since the check always is.                                     *)
Replace(m) ==
  /\ proc[m].phase = "replace"
  /\ IF target[proc[m].target] = Absent
     THEN /\ target' = [target EXCEPT ![proc[m].target] =
                          Deployed(proc[m].artifact, proc[m].tree)]
          /\ tainted' = IF m \in struck THEN tainted \cup {proc[m].target} ELSE tainted
     ELSE UNCHANGED <<target, tainted>>
  /\ Step(m, [phase |-> "idle"])
  /\ UNCHANGED <<object, struck>>

(* The process dies, leaving its staging directory behind.                 *)
MaterializeDies(m) ==
  /\ proc[m].phase # "idle"
  /\ Step(m, [phase |-> "idle"])
  /\ UNCHANGED <<object, target, struck, tainted>>

DeploymentNext ==
  \/ \E a \in Artifacts : Repair(a) \/ \E bytes \in {"damaged", "missing"} : Damage(a, bytes)
  \/ \E t \in Targets : EditAssets(t)
  \/ \E m \in Materializers :
       \/ \E a \in Artifacts, t \in Targets : Begin(m, a, t)
       \/ CopyObject(m) \/ CheckTarget(m) \/ Replace(m) \/ MaterializeDies(m)

DeploymentSpec == DeploymentInit /\ [][DeploymentNext]_deploymentVars

-----------------------------------------------------------------------------
(* verify: the tree has the manifest's digest, and the archive still       *)
(* vouches for the artifact.                                               *)
Verify(t) ==
  /\ target[t] # Absent
  /\ target[t].assets = target[t].digest
  /\ Metadata(target[t].artifact)

DeploymentTypeOK ==
  /\ object \in [Artifacts -> {"preserved", "damaged", "missing"}]
  /\ struck \subseteq Materializers /\ tainted \subseteq Targets
  /\ \A m \in Materializers :
       proc[m].phase \in {"idle", "copy", "check", "replace"}
  /\ \A t \in Targets :
       target[t] # Absent =>
         /\ target[t].artifact \in Artifacts
         /\ {target[t].digest, target[t].assets} \subseteq Contents

(* What verify accepts are the bytes the archive preserved, of an artifact *)
(* that may be installed, whatever was damaged, lost, repaired or edited   *)
(* at other times.  The one way around it is an object damaged between     *)
(* the check of its digest and the copy: tree_sha256 is that of the copy   *)
(* and is not compared with artifact_sha256, so once the archive is        *)
(* repaired verify accepts the damaged tree.                               *)
VerifiedIsPreserved ==
  \A t \in Targets :
    Verify(t) => /\ target[t].assets = "preserved" \/ t \in tainted
                 /\ target[t].assets # "edited"
                 /\ target[t].artifact \notin Forbidden

(* docs/DEPLOYMENTS.md keeps deployments isolated: of two calls that found *)
(* the same target absent, the later one does not replace the earlier      *)
(* one's tree, nor the edits made to it.                                   *)
DeploymentKept ==
  [][\A t \in Targets :
       target[t] # Absent =>
         /\ target'[t] # Absent
         /\ target'[t].artifact = target[t].artifact
         /\ target'[t].assets \in {target[t].assets, "edited"}]_deploymentVars
=============================================================================
