------------------------------- MODULE MCHost -------------------------------
(* Instances of the host's services.  They share no state, so instead of   *)
(* their product one of them runs at a time: part says which.              *)
EXTENDS Backup, Deployment, DosRuntime, NodeAllocator, LoginThrottle,
        AdminActions, Alerts, Registry, SerialQualify, Preparation

VARIABLE part

hostVars == <<part, backupVars, deploymentVars, dosVars, nodeVars, throttleVars,
              adminVars, alertVars, registryVars, serialVars, prepVars>>

Parts == {"backup", "deployment", "dos", "node", "throttle", "admin", "alerts",
          "registry", "serial", "preparation"}

HostInit ==
  /\ part \in Parts
  /\ BackupInit /\ DeploymentInit /\ DosInit /\ NodeInit /\ ThrottleInit
  /\ AdminInit /\ AlertsInit /\ RegistryInit
  /\ IF part = "serial" THEN SerialInit ELSE SerialInit /\ hostFile = NoFile /\ ~hostReady
  /\ IF part = "preparation" THEN PrepInit
     ELSE PrepInit /\ original.classified /\ original.installable
          /\ ~original.publishable /\ original.authentic

(* The services other than p rest.                                         *)
Only(p) ==
  /\ part = p /\ UNCHANGED part
  /\ IF p = "backup" THEN TRUE ELSE UNCHANGED backupVars
  /\ IF p = "deployment" THEN TRUE ELSE UNCHANGED deploymentVars
  /\ IF p = "dos" THEN TRUE ELSE UNCHANGED dosVars
  /\ IF p = "node" THEN TRUE ELSE UNCHANGED nodeVars
  /\ IF p = "throttle" THEN TRUE ELSE UNCHANGED throttleVars
  /\ IF p = "admin" THEN TRUE ELSE UNCHANGED adminVars
  /\ IF p = "alerts" THEN TRUE ELSE UNCHANGED alertVars
  /\ IF p = "registry" THEN TRUE ELSE UNCHANGED registryVars
  /\ IF p = "serial" THEN TRUE ELSE UNCHANGED serialVars
  /\ IF p = "preparation" THEN TRUE ELSE UNCHANGED prepVars

HostNext ==
  \/ Only("backup") /\ BackupNext
  \/ Only("deployment") /\ DeploymentNext
  \/ Only("dos") /\ DosNext
  \/ Only("node") /\ NodeNext
  \/ Only("throttle") /\ ThrottleNext
  \/ Only("admin") /\ AdminNext
  \/ Only("alerts") /\ AlertsNext
  \/ Only("registry") /\ RegistryNext
  \/ Only("serial") /\ SerialNext
  \/ Only("preparation") /\ PrepNext

HostSpec ==
  /\ HostInit /\ [][HostNext]_hostVars
  /\ \A e \in Evaluators : WF_alertVars(part = "alerts" /\ Evaluation(e))
  /\ WF_serialVars(part = "serial" /\ Harness)

(* Every service's state has its type.                                     *)
HostTypeOK ==
  /\ BackupTypeOK /\ DeploymentTypeOK /\ DosTypeOK /\ NodeTypeOK /\ ThrottleTypeOK
  /\ AdminTypeOK /\ AlertsTypeOK /\ RegistryTypeOK /\ SerialTypeOK /\ PrepTypeOK

(* AlertsConverge, of the behaviours in which the alerts run: once the     *)
(* conditions rest, evaluate's file shows exactly them, again and again.   *)
HostAlertsConverge == part = "alerts" => AlertsConverge
=============================================================================
