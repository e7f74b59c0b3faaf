--------------------------- MODULE ArchiveProofs ----------------------------
(* The archive for any processes, ids, contents and number of crashes.     *)
EXTENDS Archive, TLAPS

-----------------------------------------------------------------------------
(* Types.                                                                  *)

\* What the operations do to a job keeps its type.
LEMMA StartType == ASSUME TypeOK, NEW p \in Processes, Start(p) PROVE TypeOK'
  <1> USE ArchiveAssumption DEF TypeOK
  <1>1. ASSUME NEW id \in Ids, NEW c \in Contents, NEW r \in RightsSets, Import(p, id, c, r)
        PROVE  TypeOK'
    BY <1>1 DEF Import, BeginPreserve, Job, Document, Stages
  <1>2. ASSUME NEW id \in Ids, NEW c \in Contents, NEW r \in RightsSets,
               NEW parents \in SUBSET Ids, Derive(p, id, c, r, parents)
        PROVE  TypeOK'
    <2> DEFINE lineage == {[artifact_id |-> q, sha256 |-> metadata[q].sha256] : q \in parents}
               doc == [sha256 |-> c, prior |-> {}, rights |-> r, parents |-> lineage]
    <2>1. lineage \subseteq Lineage
      BY <1>2 DEF Derive, Lineage, Document
    <2>2. doc \in Document
      BY <2>1 DEF Document
    <2>3. BeginPreserve(p, id, doc)
      BY <1>2 DEF Derive
    <2> HIDE DEF doc
    <2> QED BY <2>2, <2>3 DEF BeginPreserve, Job, Stages
  <1>3. ASSUME NEW id \in Ids, NEW kind \in Kinds, BeginExport(p, id, kind) PROVE TypeOK'
    BY <1>3 DEF BeginExport, Verified, Job, Stages
  <1> QED BY <1>1, <1>2, <1>3 DEF Start

\* inspect fills in the predecessors and leaves the rest of the document.
LEMMA InspectJob ==
  ASSUME TypeOK, NEW p \in Processes, Inspect(p)
  PROVE  /\ job' \in [Processes -> Job]
         /\ job'[p].at = "publish" /\ job'[p].id = job[p].id /\ job'[p].kind = job[p].kind
         /\ job'[p].doc \in Document
         /\ job'[p].doc.sha256 = job[p].doc.sha256
         /\ job'[p].doc.parents = job[p].doc.parents
         /\ \A q \in Processes \ {p} : job'[q] = job[q]
  <1> DEFINE prior == IF job[p].doc.parents = {} THEN Predecessors(job[p].doc.sha256) ELSE {}
             doc == [job[p].doc EXCEPT !.prior = prior]
             next == [job[p] EXCEPT !.at = "publish", !.doc = doc]
  <1>1. prior \subseteq Ids
    BY DEF Predecessors
  <1>2. /\ doc \in Document
        /\ doc.sha256 = job[p].doc.sha256 /\ doc.parents = job[p].doc.parents
    BY <1>1 DEF TypeOK, Inspect, Document
  <1>3. job' = [job EXCEPT ![p] = next] /\ job[p].at = "inspect"
    BY DEF Inspect
  <1> HIDE DEF doc
  <1>4. /\ next \in Job
        /\ next.at = "publish" /\ next.id = job[p].id /\ next.kind = job[p].kind /\ next.doc = doc
    BY <1>2, <1>3 DEF TypeOK, Job, Stages
  <1> HIDE DEF next
  <1>5. job' \in [Processes -> Job] /\ job'[p] = next /\ \A q \in Processes \ {p} : job'[q] = job[q]
    BY <1>3, <1>4 DEF TypeOK
  <1> QED BY <1>2, <1>4, <1>5

(* The step of a process, or its death, keeps the types.                   *)
LEMMA StepType == ASSUME TypeOK, NEW p \in Processes, Step(p) \/ Crash(p) PROVE TypeOK'
  <1> USE ArchiveAssumption DEF TypeOK
  <1>1. CASE TakeLock(p)
    BY <1>1 DEF TakeLock, Goto, Job, Stages, Idle
  <1>2. CASE OpenPart(p)
    BY <1>2 DEF OpenPart, Goto, Job, Stages
  <1>3. CASE Stream(p)
    BY <1>3 DEF Stream, Goto, Job, Stages
  <1>4. CASE Store(p)
    BY <1>4 DEF Store, Goto, Job, Stages, Document
  <1>5. CASE Seal(p)
    BY <1>5 DEF Seal, Goto, Job, Stages, Document
  <1>6. CASE Inspect(p)
    BY <1>6, InspectJob DEF Inspect
  <1>7. CASE Publish(p)
    BY <1>7 DEF Publish, Goto, Job, Stages
  <1>8. CASE Cleanup(p)
    BY <1>8 DEF Cleanup, Job, Stages, Idle
  <1>9. CASE FinishExport(p)
    BY <1>9 DEF FinishExport, Job, Stages, Idle, Bundle
  <1>10. CASE Crash(p)
    BY <1>10 DEF Crash, Job, Stages, Idle
  <1> QED BY <1>1, <1>2, <1>3, <1>4, <1>5, <1>6, <1>7, <1>8, <1>9, <1>10 DEF Step

(* The types hold at first.                                                *)
LEMMA TypeInit == Init => TypeOK
  BY ArchiveAssumption DEF Init, TypeOK, Job, Stages, Idle

(* Every step keeps the types.                                             *)
LEMMA TypeStep == TypeOK /\ [Next]_vars => TypeOK'
  <1> SUFFICES ASSUME TypeOK, [Next]_vars PROVE TypeOK'
    OBVIOUS
  <1>1. CASE Next
    BY <1>1, StartType, StepType DEF Next
  <1>2. CASE UNCHANGED vars
    BY <1>2 DEF vars, TypeOK
  <1> QED BY <1>1, <1>2

\* The archive and what its processes work on keep their types.
THEOREM ArchiveTypes == Spec => []TypeOK
  BY TypeInit, TypeStep, PTL DEF Spec

-----------------------------------------------------------------------------
(* The lock file.                                                          *)

\* ExclusiveWriter becomes inductive with the lock file of every writer: a
\* lock that is on disk belongs to the one writer of its id, or to nobody.
WriterHasLock == \A p \in Processes : Writing(p) => job[p].id \in locks

LockInv == TypeOK /\ WriterHasLock /\ ExclusiveWriter

\* A step of one process leaves the jobs of the others alone.
LEMMA LockStep == LockInv /\ [Next]_vars => LockInv'
  <1> SUFFICES ASSUME LockInv, [Next]_vars PROVE WriterHasLock' /\ ExclusiveWriter'
    BY TypeStep DEF LockInv
  <1> USE DEF LockInv, TypeOK, WriterHasLock, ExclusiveWriter, Writing
  <1>1. ASSUME NEW p \in Processes, Start(p) PROVE WriterHasLock' /\ ExclusiveWriter'
    <2>1. /\ job'[p].at \in {"lock", "bundle"} /\ locks' = locks
          /\ \A q \in Processes \ {p} : job'[q] = job[q]
      BY <1>1 DEF Start, Import, Derive, BeginPreserve, BeginExport
    <2> QED BY <2>1
  <1>2. ASSUME NEW p \in Processes, TakeLock(p) PROVE WriterHasLock' /\ ExclusiveWriter'
    BY <1>2 DEF TakeLock, Goto, Idle, Job
  <1>3. ASSUME NEW p \in Processes, Cleanup(p) PROVE WriterHasLock' /\ ExclusiveWriter'
    BY <1>3 DEF Cleanup, Idle
  <1>4. ASSUME NEW p \in Processes, OpenPart(p) \/ Stream(p) \/ Store(p) \/ Seal(p)
        PROVE  WriterHasLock' /\ ExclusiveWriter'
    <2>1. /\ Writing(p) /\ job'[p].id = job[p].id /\ locks' = locks
          /\ \A q \in Processes \ {p} : job'[q] = job[q]
      BY <1>4 DEF OpenPart, Stream, Store, Seal, Goto, Job
    <2> QED BY <2>1
  <1>5. ASSUME NEW p \in Processes, Inspect(p) \/ Publish(p)
        PROVE  WriterHasLock' /\ ExclusiveWriter'
    <2>1. /\ Writing(p) /\ job'[p].id = job[p].id /\ locks' = locks
          /\ \A q \in Processes \ {p} : job'[q] = job[q]
      <3>1. CASE Inspect(p)
        BY <3>1, InspectJob DEF Inspect
      <3>2. CASE Publish(p)
        BY <3>2 DEF Publish, Goto, Job
      <3> QED BY <1>5, <3>1, <3>2
    <2> QED BY <2>1
  <1>6. ASSUME NEW p \in Processes, FinishExport(p) \/ Crash(p)
        PROVE  WriterHasLock' /\ ExclusiveWriter'
    BY <1>6 DEF FinishExport, Crash, Idle
  <1>7. CASE UNCHANGED vars
    BY <1>7 DEF vars
  <1> QED BY <1>1, <1>2, <1>3, <1>4, <1>5, <1>6, <1>7 DEF Next, Step

\* Two processes are never inside preserve_stream for one id, for any number
\* of processes, ids and crashes.
THEOREM WritersExclude == Spec => []ExclusiveWriter
  <1>1. Init => LockInv
    BY TypeInit DEF Init, LockInv, WriterHasLock, ExclusiveWriter, Writing, Idle
  <1>2. LockInv => ExclusiveWriter
    BY DEF LockInv
  <1> QED BY <1>1, <1>2, LockStep, PTL DEF Spec

-----------------------------------------------------------------------------
(* Objects.                                                                *)

Present(c) == objects[c] # "absent"

\* What a process has established about the object of its document: it is
\* stored before the document is published, the parents were in the archive
\* when the derivation began, and what is bundled was verified and permitted.
JobGrounded(p) ==
    /\ job[p].at \in {"seal", "inspect", "publish", "bundle"} => Present(job[p].doc.sha256)
    /\ job[p].at # "idle" => \A l \in job[p].doc.parents : Present(l.sha256)
    /\ job[p].at = "bundle" => Allowed(job[p].doc.rights, job[p].kind)

ObjectInv ==
    /\ TypeOK
    /\ \A p \in Processes : JobGrounded(p)
    /\ PublishedVerifies
    /\ BundlePermitted

\* No step removes an object.
LEMMA ObjectsStay ==
  ASSUME TypeOK, [Next]_vars, NEW c \in Contents, Present(c) PROVE Present(c)'
  BY DEF TypeOK, Next, Start, Step, Crash, Import, Derive, BeginPreserve, BeginExport, TakeLock,
         OpenPart, Stream, Store, Seal, Inspect, Publish, Cleanup, FinishExport, vars, Present

\* What is grounded, published or bundled stays so: objects stay, and a step
\* that changes none of the three files keeps their invariants.
LEMMA ObjectStep == ObjectInv /\ [Next]_vars => ObjectInv'
  <1> SUFFICES ASSUME ObjectInv, [Next]_vars
               PROVE  (\A p \in Processes : JobGrounded(p)') /\ PublishedVerifies' /\ BundlePermitted'
    BY TypeStep DEF ObjectInv
  <1> USE DEF ObjectInv
  <1>t. TypeOK /\ TypeOK'
    BY TypeStep
  <1>s. \A c \in Contents : Present(c) => Present(c)'
    BY ObjectsStay
  <1>j. ASSUME NEW q \in Processes, job'[q] = job[q] PROVE JobGrounded(q)'
    BY <1>t, <1>s, <1>j DEF JobGrounded, TypeOK, Document, Lineage, Allowed
  <1>m. metadata' = metadata => PublishedVerifies'
    BY <1>t, <1>s DEF PublishedVerifies, Verified, TypeOK, Document, Lineage, Present
  <1>e. exports' = exports => BundlePermitted'
    BY <1>t, <1>s DEF BundlePermitted, TypeOK, Bundle, Document, Present
  <1> DEFINE Goal == (\A p \in Processes : JobGrounded(p)') /\ PublishedVerifies' /\ BundlePermitted'
  <1>k. ASSUME NEW p \in Processes, JobGrounded(p)', metadata' = metadata, exports' = exports,
               \A q \in Processes \ {p} : job'[q] = job[q]
        PROVE  Goal
    BY <1>j, <1>m, <1>e, <1>k
  <1>1. ASSUME NEW p \in Processes, Start(p) PROVE Goal
    <2>1. /\ metadata' = metadata /\ exports' = exports /\ objects' = objects
          /\ \A q \in Processes \ {p} : job'[q] = job[q]
      BY <1>1, <1>t DEF Start, Import, Derive, BeginPreserve, BeginExport, TypeOK
    <2>2. ASSUME NEW id \in Ids, NEW c \in Contents, NEW r \in RightsSets, Import(p, id, c, r)
          PROVE  JobGrounded(p)'
      BY <2>2, <1>t DEF Import, BeginPreserve, JobGrounded, TypeOK
    <2>3. ASSUME NEW id \in Ids, NEW c \in Contents, NEW r \in RightsSets,
                 NEW parents \in SUBSET Ids, Derive(p, id, c, r, parents)
          PROVE  JobGrounded(p)'
      <3> DEFINE lineage == {[artifact_id |-> q, sha256 |-> metadata[q].sha256] : q \in parents}
      <3>1. \A l \in lineage : Present(l.sha256)
        BY <2>3 DEF Derive, PublishedVerifies, Verified, Present
      <3>2. job'[p].at = "lock" /\ job'[p].doc.parents = lineage
        BY <2>3, <1>t DEF Derive, BeginPreserve, TypeOK
      <3> HIDE DEF lineage
      <3> QED BY <2>1, <3>1, <3>2 DEF JobGrounded, Present
    <2>4. ASSUME NEW id \in Ids, NEW kind \in Kinds, BeginExport(p, id, kind) PROVE JobGrounded(p)'
      BY <2>1, <2>4, <1>t DEF BeginExport, JobGrounded, TypeOK, PublishedVerifies, Verified, Present, Allowed
    <2>5. JobGrounded(p)'
      BY <1>1, <2>2, <2>3, <2>4 DEF Start
    <2> QED BY <1>k, <2>1, <2>5
  <1>2. ASSUME NEW p \in Processes, TakeLock(p) \/ OpenPart(p) \/ Stream(p) \/ Store(p) \/ Seal(p) PROVE Goal
    <2>1. /\ metadata' = metadata /\ exports' = exports
          /\ \A q \in Processes \ {p} : job'[q] = job[q]
      BY <1>2, <1>t DEF TakeLock, OpenPart, Stream, Store, Seal, Goto, TypeOK
    <2>2. /\ job[p].at # "idle"
          /\ job'[p].at # "idle" => job'[p].doc = job[p].doc
          /\ job'[p].at \notin {"publish", "bundle"}
          /\ job'[p].at \in {"seal", "inspect"} => Present(job[p].doc.sha256)'
      BY <1>2, <1>t DEF TakeLock, OpenPart, Stream, Store, Seal, Goto, TypeOK, Job, Document, Present, Idle
    <2>3. JobGrounded(p)'
      BY <1>t, <1>s, <2>2 DEF JobGrounded, Present, TypeOK, Document, Lineage
    <2> QED BY <1>k, <2>1, <2>3
  <1>3. ASSUME NEW p \in Processes, Inspect(p) PROVE Goal
    <2>1. /\ job'[p].at = "publish"
          /\ job'[p].doc.sha256 = job[p].doc.sha256 /\ job'[p].doc.parents = job[p].doc.parents
          /\ \A q \in Processes \ {p} : job'[q] = job[q]
      BY <1>3, <1>t, InspectJob
    <2>2. job[p].at = "inspect" /\ objects' = objects /\ metadata' = metadata /\ exports' = exports
      BY <1>3 DEF Inspect
    <2>3. JobGrounded(p)'
      BY <2>1, <2>2 DEF JobGrounded, Present
    <2> QED BY <1>k, <2>1, <2>2, <2>3
  <1>4. ASSUME NEW p \in Processes, Publish(p) PROVE Goal
    <2>1. /\ exports' = exports /\ objects' = objects
          /\ job[p].at = "publish" /\ job'[p].at = "cleanup" /\ job'[p].doc = job[p].doc
          /\ \A q \in Processes \ {p} : job'[q] = job[q]
      BY <1>4, <1>t DEF Publish, Goto, TypeOK, Job
    <2>2. JobGrounded(p)'
      BY <2>1 DEF JobGrounded, Present
    <2>3. PublishedVerifies'
      BY <1>4, <1>t, <2>1 DEF Publish, PublishedVerifies, Verified, JobGrounded, Present, TypeOK
    <2> QED BY <1>j, <1>e, <2>1, <2>2, <2>3
  <1>5. ASSUME NEW p \in Processes, FinishExport(p) PROVE Goal
    <2>1. /\ metadata' = metadata /\ objects' = objects
          /\ job[p].at = "bundle" /\ job'[p].at = "idle"
          /\ \A q \in Processes \ {p} : job'[q] = job[q]
      BY <1>5, <1>t DEF FinishExport, TypeOK, Idle
    <2>2. JobGrounded(p)'
      BY <2>1 DEF JobGrounded
    <2>3. BundlePermitted'
      BY <1>5, <1>t, <2>1 DEF FinishExport, BundlePermitted, JobGrounded, Present, TypeOK, Allowed, Kinds
    <2> QED BY <1>j, <1>m, <2>1, <2>2, <2>3
  <1>6. ASSUME NEW p \in Processes, Cleanup(p) \/ Crash(p) PROVE Goal
    <2>1. /\ metadata' = metadata /\ exports' = exports /\ job'[p].at = "idle"
          /\ \A q \in Processes \ {p} : job'[q] = job[q]
      BY <1>6, <1>t DEF Cleanup, Crash, TypeOK, Idle
    <2>2. JobGrounded(p)'
      BY <2>1 DEF JobGrounded
    <2> QED BY <1>k, <2>1, <2>2
  <1>7. ASSUME UNCHANGED vars PROVE Goal
    BY <1>7, <1>j, <1>m, <1>e DEF vars
  <1> HIDE DEF Goal
  <1>8. Goal
    <2>1. CASE Next
      <3>1. PICK p \in Processes : Start(p) \/ Step(p) \/ Crash(p)
        BY <2>1 DEF Next
      <3> QED BY <3>1, <1>1, <1>2, <1>3, <1>4, <1>5, <1>6 DEF Step
    <2> QED BY <2>1, <1>7
  <1> QED BY <1>8 DEF Goal

\* The empty archive satisfies it.
LEMMA ObjectInit == Init => ObjectInv
  BY TypeInit DEF Init, ObjectInv, JobGrounded, PublishedVerifies, BundlePermitted, Idle

\* Every published document verifies and its parents are in the archive, for
\* any number of processes, ids, contents and crashes.
THEOREM PublicationsVerify == Spec => []PublishedVerifies
  <1>1. ObjectInv => PublishedVerifies
    BY DEF ObjectInv
  <1> QED BY <1>1, ObjectInit, ObjectStep, PTL DEF Spec

\* Every bundle was permitted by the document inside it.
THEOREM BundlesPermitted == Spec => []BundlePermitted
  <1>1. ObjectInv => BundlePermitted
    BY DEF ObjectInv
  <1> QED BY <1>1, ObjectInit, ObjectStep, PTL DEF Spec

\* A bundle that exists is never overwritten, whichever exports overlap.
THEOREM BundlesKept == Spec => BundleKept
  <1>1. TypeOK /\ [Next]_vars => [\A i \in Ids : exports[i] # None => exports'[i] = exports[i]]_vars
    BY DEF TypeOK, Next, Start, Step, Crash, Import, Derive, BeginPreserve, BeginExport, TakeLock,
           OpenPart, Stream, Store, Seal, Inspect, Publish, Cleanup, FinishExport, vars
  <1> QED BY <1>1, ArchiveTypes, PTL DEF Spec, BundleKept
=============================================================================
