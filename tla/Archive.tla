------------------------------ MODULE Archive ------------------------------
(***************************************************************************)
(* The preservation archive (scripts/ubb_archive.py): processes that       *)
(* import, derive and export artifacts in one directory.  They share       *)
(* nothing but files: content-addressed objects, one metadata document per *)
(* artifact id, one lock file per id, and quarantine files named after the *)
(* id and the process.  A process may be killed between any two of its     *)
(* changes to the directory.                                               *)
(***************************************************************************)
EXTENDS Naturals, FiniteSets

CONSTANTS
    Processes,   \* process ids, which the system reuses
    Ids,         \* artifact ids
    Contents,    \* byte strings, each named by its digest
    RightsSets,  \* the rights documents in use, each the set of what it permits
    None,
    MaxCrashes   \* bound on the processes killed

VARIABLES
    objects,   \* objects/sha256: absent, writable (linked) or sealed (mode 0444)
    metadata,  \* metadata/<id>.json
    locks,     \* state/locks/<id>
    parts,     \* quarantine/<id>.<pid>.part
    exports,   \* the bundle <output>/<id> of each id
    job,       \* what each process is doing
    crashes    \* how many processes have been killed (bound)

vars == <<objects, metadata, locks, parts, exports, job, crashes>>

Permissions == {"publish_to_bbs_filebase", "export_from_archive", "redistribute_original"}

ASSUME ArchiveAssumption == /\ MaxCrashes \in Nat
                            /\ RightsSets \subseteq SUBSET Permissions
                            /\ None \notin Contents \cup Ids

\* A parent is recorded with the digest it had when the derivation began.
Lineage == [artifact_id : Ids, sha256 : Contents]

\* A metadata document.  A derived artifact has parents and no source URL;
\* every import in the model is from the same source URL.
Document == [sha256 : Contents, parents : SUBSET Lineage,
             prior : SUBSET Ids, rights : SUBSET Permissions]

Stages == {"idle", "lock", "open", "stream", "store", "seal", "inspect",
           "publish", "cleanup", "bundle"}

\* export, export --for-redistribution and publication-export.
Kinds == {"export", "redistribution", "publication"}

Bundle == [doc : Document, kind : Kinds]

Job == [at : Stages, id : Ids \cup {None}, doc : Document \cup {None}, kind : Kinds \cup {None}]

Idle == [at |-> "idle", id |-> None, doc |-> None, kind |-> None]

\* What this module's variables may hold: the files of the archive, and per
\* process the document it is building.
TypeOK ==
    /\ objects \in [Contents -> {"absent", "writable", "sealed"}]
    /\ metadata \in [Ids -> Document \cup {None}]
    /\ locks \subseteq Ids
    /\ parts \subseteq Ids \X Processes
    /\ exports \in [Ids -> Bundle \cup {None}]
    /\ job \in [Processes -> Job]
    /\ \A p \in Processes :
          /\ job[p].at # "idle" => job[p].id \in Ids /\ job[p].doc \in Document
          /\ job[p].at = "bundle" => job[p].kind \in Kinds
    /\ crashes \in 0..MaxCrashes

\* init_archive, and no artifact yet.
Init ==
    /\ objects = [c \in Contents |-> "absent"]
    /\ metadata = [i \in Ids |-> None]
    /\ locks = {}
    /\ parts = {}
    /\ exports = [i \in Ids |-> None]
    /\ job = [p \in Processes |-> Idle]
    /\ crashes = 0

Goto(p, stage) == job' = [job EXCEPT ![p].at = stage]

\* verify_one: the document is there and so is the object it names.  An object
\* is made by linking a file whose digest was computed, so its bytes match.
Verified(id) == metadata[id] # None /\ objects[metadata[id].sha256] # "absent"

-----------------------------------------------------------------------------
(* preserve_stream, which every kind of import ends in.                    *)

\* The check of the metadata file, before the lock is taken.
BeginPreserve(p, id, doc) ==
    /\ job[p].at = "idle"
    /\ metadata[id] = None
    /\ job' = [job EXCEPT ![p] = [at |-> "lock", id |-> id, doc |-> doc, kind |-> None]]
    /\ UNCHANGED <<objects, metadata, locks, parts, exports, crashes>>

\* import_artifact and acquire_http.
Import(p, id, content, rights) ==
    BeginPreserve(p, id, [sha256 |-> content, parents |-> {}, prior |-> {}, rights |-> rights])

\* derive: the parents' documents are read before anything else.
Derive(p, id, content, rights, parents) ==
    /\ parents # {}
    /\ \A q \in parents : metadata[q] # None
    /\ BeginPreserve(p, id, [sha256 |-> content, prior |-> {}, rights |-> rights,
                             parents |-> {[artifact_id |-> q, sha256 |-> metadata[q].sha256] : q \in parents}])

FaultyTakeLock(p) ==
    /\ job[p].at = "lock"
    /\ locks' = locks \cup {job[p].id}
    /\ Goto(p, "open")
    /\ UNCHANGED <<objects, metadata, parts, exports, crashes>>

FaultyWaitForLock(p) ==
    /\ job[p].at = "lock"
    /\ job[p].id \notin locks
    /\ Goto(p, "open")
    /\ locks' = locks \cup {job[p].id}
    /\ UNCHANGED <<objects, metadata, parts, exports, crashes>>

\* O_CREAT | O_EXCL: an existing lock file refuses the import.
TakeLock(p) ==
    /\ job[p].at = "lock"
    /\ IF job[p].id \in locks
          THEN job' = [job EXCEPT ![p] = Idle] /\ UNCHANGED locks
          ELSE Goto(p, "open") /\ locks' = locks \cup {job[p].id}
    /\ UNCHANGED <<objects, metadata, parts, exports, crashes>>

\* open("xb") fails on a file left behind by a process with the same id.
OpenPart(p) ==
    /\ job[p].at = "open"
    /\ IF <<job[p].id, p>> \in parts
          THEN Goto(p, "cleanup") /\ UNCHANGED parts
          ELSE Goto(p, "stream") /\ parts' = parts \cup {<<job[p].id, p>>}
    /\ UNCHANGED <<objects, metadata, locks, exports, crashes>>

FaultyStream(p) ==
    /\ job[p].at = "stream"
    /\ Goto(p, "inspect") \/ Goto(p, "cleanup")
    /\ UNCHANGED <<objects, metadata, locks, parts, exports, crashes>>

\* hashes_for, the length check and check_expected: the whole stream arrived
\* and is what was expected, or the import fails.
Stream(p) ==
    /\ job[p].at = "stream"
    /\ Goto(p, "store") \/ Goto(p, "cleanup")
    /\ UNCHANGED <<objects, metadata, locks, parts, exports, crashes>>

\* An existing object is used as it is; otherwise the quarantine file becomes
\* the object by a hard link, which may find that another process was faster.
Store(p) ==
    LET c == job[p].doc.sha256 IN
    /\ job[p].at = "store"
    /\ \/ /\ objects[c] # "absent"
          /\ parts' = parts \ {<<job[p].id, p>>}
          /\ Goto(p, "inspect")
          /\ UNCHANGED objects
       \/ /\ objects' = [objects EXCEPT ![c] = IF @ = "absent" THEN "writable" ELSE @]
          /\ Goto(p, "seal")
          /\ UNCHANGED parts
    /\ UNCHANGED <<metadata, locks, exports, crashes>>

\* chmod 0444, fsync of the directory, removal of the quarantine name.
Seal(p) ==
    /\ job[p].at = "seal"
    /\ objects' = [objects EXCEPT ![job[p].doc.sha256] = "sealed"]
    /\ parts' = parts \ {<<job[p].id, p>>}
    /\ Goto(p, "inspect")
    /\ UNCHANGED <<metadata, locks, exports, crashes>>

\* source_predecessors: imports from the same source with other bytes.
Predecessors(content) ==
    {i \in Ids : /\ metadata[i] # None
                 /\ metadata[i].parents = {}
                 /\ metadata[i].sha256 # content}

Inspect(p) ==
    LET prior == IF job[p].doc.parents = {} THEN Predecessors(job[p].doc.sha256) ELSE {}
        doc == [job[p].doc EXCEPT !.prior = prior] IN
    /\ job[p].at = "inspect"
    /\ job' = [job EXCEPT ![p] = [job[p] EXCEPT !.at = "publish", !.doc = doc]]
    /\ UNCHANGED <<objects, metadata, locks, parts, exports, crashes>>

\* atomic_json replaces the metadata file in one step.
Publish(p) ==
    /\ job[p].at = "publish"
    /\ metadata' = [metadata EXCEPT ![job[p].id] = job[p].doc]
    /\ Goto(p, "cleanup")
    /\ UNCHANGED <<objects, locks, parts, exports, crashes>>

\* The finally clause.
Cleanup(p) ==
    /\ job[p].at = "cleanup"
    /\ parts' = parts \ {<<job[p].id, p>>}
    /\ locks' = locks \ {job[p].id}
    /\ job' = [job EXCEPT ![p] = Idle]
    /\ UNCHANGED <<objects, metadata, exports, crashes>>

-----------------------------------------------------------------------------
(* build_export *)

Allowed(rights, kind) ==
    /\ (IF kind = "publication" THEN "publish_to_bbs_filebase" ELSE "export_from_archive") \in rights
    /\ kind = "redistribution" => "redistribute_original" \in rights

\* Verification, the rights and the existing bundle are looked at first; the
\* bundle is then built beside its final name from the document read here.
BeginExport(p, id, kind) ==
    /\ job[p].at = "idle"
    /\ Verified(id)
    /\ Allowed(metadata[id].rights, kind)
    /\ exports[id] = None
    /\ job' = [job EXCEPT ![p] = [at |-> "bundle", id |-> id, doc |-> metadata[id], kind |-> kind]]
    /\ UNCHANGED <<objects, metadata, locks, parts, exports, crashes>>

FaultyFinishExport(p) ==
    /\ job[p].at = "bundle"
    /\ exports' = [exports EXCEPT ![job[p].id] = [doc |-> job[p].doc, kind |-> job[p].kind]]
    /\ job' = [job EXCEPT ![p] = Idle]
    /\ UNCHANGED <<objects, metadata, locks, parts, crashes>>

\* os.replace of a directory raises when a bundle has appeared meanwhile.
FinishExport(p) ==
    /\ job[p].at = "bundle"
    /\ exports' = IF exports[job[p].id] = None
                     THEN [exports EXCEPT ![job[p].id] = [doc |-> job[p].doc, kind |-> job[p].kind]] ELSE exports
    /\ job' = [job EXCEPT ![p] = Idle]
    /\ UNCHANGED <<objects, metadata, locks, parts, crashes>>

-----------------------------------------------------------------------------
\* The process is killed: no finally clause runs and its files stay.
Crash(p) ==
    /\ job[p].at # "idle"
    /\ crashes < MaxCrashes
    /\ crashes' = crashes + 1
    /\ job' = [job EXCEPT ![p] = Idle]
    /\ UNCHANGED <<objects, metadata, locks, parts, exports>>

Step(p) ==
    \/ TakeLock(p) \/ OpenPart(p) \/ Stream(p) \/ Store(p) \/ Seal(p)
    \/ Inspect(p) \/ Publish(p) \/ Cleanup(p) \/ FinishExport(p)

Start(p) ==
    \E id \in Ids :
        \/ \E c \in Contents, r \in RightsSets :
              \/ Import(p, id, c, r)
              \/ \E parents \in SUBSET Ids : Derive(p, id, c, r, parents)
        \/ \E kind \in Kinds : BeginExport(p, id, kind)

Next == \E p \in Processes : Start(p) \/ Step(p) \/ Crash(p)

\* A process that has begun runs on until it ends or is killed.
Spec == Init /\ [][Next]_vars /\ \A p \in Processes : WF_vars(Step(p))

-----------------------------------------------------------------------------
(* Properties *)

Writing(p) == job[p].at \in {"open", "stream", "store", "seal", "inspect", "publish", "cleanup"}

\* Two processes are never inside preserve_stream for the same id, whatever was
\* killed before: the lock file excludes the second, and a lock left behind by
\* a killed process is never mistaken for a live one's.
ExclusiveWriter ==
    \A p, q \in Processes : p # q /\ Writing(p) /\ Writing(q) => job[p].id # job[q].id

\* Every published document passes verify_one and every parent it names is an
\* object of the archive, at every moment and after any crash.
PublishedVerifies ==
    \A i \in Ids : metadata[i] # None =>
        /\ Verified(i)
        /\ \A l \in metadata[i].parents : objects[l.sha256] # "absent"

\* What a bundle carries was permitted, for the kind of export it is, by the
\* document inside it, and its bytes are in the archive, although the document
\* in the archive may have been replaced while the bundle was built.
BundlePermitted ==
    \A i \in Ids : exports[i] # None =>
        /\ exports[i].kind = "publication" => "publish_to_bbs_filebase" \in exports[i].doc.rights
        /\ exports[i].kind # "publication" => "export_from_archive" \in exports[i].doc.rights
        /\ exports[i].kind = "redistribution" => "redistribute_original" \in exports[i].doc.rights
        /\ objects[exports[i].doc.sha256] # "absent"

\* "Existing output bundles are not overwritten" (docs/PRESERVATION.md), also
\* when two exports of an artifact are built at the same time.
BundleKept == [][\A i \in Ids : exports[i] # None => exports'[i] = exports[i]]_vars

\* "It never replaces history" (docs/PRESERVATION.md): a published document
\* does not change.
HistoryKept ==
    [][\A i \in Ids : metadata[i] # None => metadata'[i] = metadata[i]]_vars

\* Every process that begins ends.
WorkEnds == \A p \in Processes : (job[p].at # "idle") ~> (job[p].at = "idle")
=============================================================================
