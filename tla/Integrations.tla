---------------------------- MODULE Integrations ----------------------------
(***************************************************************************)
(* Installation, qualification and promotion of a BBS product under one    *)
(* installation root (integrations/bbs/).  A root belongs to one product:  *)
(* Mystic, installed as a release directory beside living data, or an      *)
(* Amiga product (ABBS, AmiExpress), installed as a golden disk image and  *)
(* a working copy of it.  Operators run the commands as processes of their *)
(* own; nothing keeps two from running at once, and any may be killed.     *)
(***************************************************************************)
EXTENDS Naturals, FiniteSets

CONSTANTS
    Installers,       \* processes
    Releases,         \* digests of the releases of the product
    Development,      \* those of the development channel
    DirItems,         \* entries that releases bundle in a live directory
    FileItems,        \* configuration files that releases bundle
    None,
    MaxCrashes        \* bound on the processes killed

ASSUME IntegrationsAssumption ==
    /\ Development \subseteq Releases
    /\ DirItems \cap FileItems = {}
    /\ None \notin Releases \cup {"edited"}
    /\ MaxCrashes \in Nat

Items == DirItems \cup FileItems

VARIABLES
    product,        \* whose root this is; never changes
    job,            \* what each process is doing
    installed,      \* software/releases
    current,        \* the link software/current
    newLink,        \* the link software/.current.new
    live,           \* the living data: which release an item came from, or edited
    golden,         \* the golden image
    working,        \* the working image
    qualification,  \* qualification/<artifact>.json: the worst status in it
    deployment,     \* deployment/amiexpress-current.json
    temporary,      \* deployment/.amiexpress-current.json.tmp
    overlapped,     \* history: two processes were at work at the same time
    approved,       \* history: releases that passed the gate of promote
    crashes

mysticVars == <<installed, current, newLink, live>>
amigaVars == <<golden, working>>
promotionVars == <<qualification, deployment, temporary, approved>>
vars == <<product, job, mysticVars, amigaVars, promotionVars, overlapped, crashes>>

Image == {"absent", "partial", "whole", "living"}
Statuses == {"PASS", "HUMAN_REQUIRED", "FAIL"}
Pointers == [current : Releases \cup {None}, previous : Releases \cup {None}]
Nowhere == [current |-> None, previous |-> None]

Idle == [at |-> "idle"]
Stages == {"idle", "stage", "move", "place", "unlink", "link", "switch",
           "golden", "check", "copy", "write", "replace"}

\* What each variable may hold; a job's other fields depend on its stage.
TypeOK ==
    /\ product \in {"mystic", "amiga"}
    /\ \A p \in Installers : job[p].at \in Stages
    /\ installed \subseteq Releases
    /\ current \in Releases \cup {None} /\ newLink \in Releases \cup {None}
    /\ live \in [Items -> Releases \cup {None, "edited"}]
    /\ golden \in Image /\ working \in Image
    /\ qualification \in [Releases -> Statuses \cup {None}]
    /\ deployment \in Pointers /\ temporary \in Pointers \cup {None}
    /\ overlapped \in BOOLEAN /\ approved \subseteq Releases
    /\ crashes \in 0..MaxCrashes

Init ==
    /\ product \in {"mystic", "amiga"}
    /\ job = [p \in Installers |-> Idle]
    /\ installed = {} /\ current = None /\ newLink = None
    /\ live = [i \in Items |-> None]
    /\ golden = "absent" /\ working = "absent"
    /\ qualification = [r \in Releases |-> None]
    /\ deployment = Nowhere /\ temporary = None
    /\ overlapped = FALSE /\ approved = {}
    /\ crashes = 0

Busy(p) == job[p].at # "idle"

\* A process begins, and history notes whether it is alone.
Begin(p, next) ==
    /\ ~Busy(p)
    /\ job' = [job EXCEPT ![p] = next]
    /\ overlapped' = (overlapped \/ \E q \in Installers : Busy(q))
    /\ UNCHANGED <<product, crashes>>

Continue(p, next) == job' = [job EXCEPT ![p] = next] /\ UNCHANGED <<product, overlapped, crashes>>

End(p) == Continue(p, Idle)

-----------------------------------------------------------------------------
(* MysticLinuxIntegration.install, of an artifact that verifies.           *)

InstallMystic(p, r) ==
    /\ product = "mystic"
    /\ Begin(p, [at |-> IF r \in installed THEN "unlink" ELSE "stage", release |-> r])
    /\ UNCHANGED <<mysticVars, amigaVars, promotionVars>>

\* Extraction into a staging directory of the process, and the vendor's
\* installer; a failure removes the staging directory.
Stage(p) ==
    /\ job[p].at = "stage"
    /\ \/ Continue(p, [at |-> "move", release |-> job[p].release, todo |-> Items])
       \/ End(p)
    /\ UNCHANGED <<mysticVars, amigaVars, promotionVars>>

FaultyLookAt(p, i) ==
    /\ job[p].at = "move" /\ i \in job[p].todo
    /\ Continue(p, [at |-> "place", release |-> job[p].release, todo |-> job[p].todo \ {i}, item |-> i])
    /\ UNCHANGED <<mysticVars, amigaVars, promotionVars>>

\* Directories come before configuration files.  An item that is not in the
\* living data yet will be moved there.  A bundled file that is there already
\* is dropped; a bundled directory entry that is there already stays behind,
\* and rmdir of its directory raises.
LookAt(p, i) ==
    /\ job[p].at = "move" /\ i \in job[p].todo
    /\ i \in FileItems => job[p].todo \subseteq FileItems
    /\ LET rest == job[p].todo \ {i} IN
       CASE live[i] = None -> Continue(p, [at |-> "place", release |-> job[p].release, todo |-> rest, item |-> i])
         [] live[i] # None /\ i \in FileItems -> Continue(p, [at |-> "move", release |-> job[p].release, todo |-> rest])
         [] OTHER -> End(p)
    /\ UNCHANGED <<mysticVars, amigaVars, promotionVars>>

\* shutil.move replaces whatever has appeared under the name since.
Place(p) ==
    /\ job[p].at = "place"
    /\ live' = [live EXCEPT ![job[p].item] = job[p].release]
    /\ Continue(p, [at |-> "move", release |-> job[p].release, todo |-> job[p].todo])
    /\ UNCHANGED <<installed, current, newLink, amigaVars, promotionVars>>

\* os.replace of the staging directory raises if the release is there by now.
PublishRelease(p) ==
    LET r == job[p].release IN
    /\ job[p].at = "move" /\ job[p].todo = {}
    /\ IF r \in installed THEN End(p)
                          ELSE Continue(p, [at |-> "unlink", release |-> r])
    /\ installed' = installed \cup {r}
    /\ UNCHANGED <<current, newLink, live, amigaVars, promotionVars>>

FaultyUnlink(p) ==
    /\ job[p].at \in {"unlink", "move"}
    /\ newLink' = None
    /\ Continue(p, [at |-> "link", release |-> job[p].release])
    /\ UNCHANGED <<installed, current, live, amigaVars, promotionVars>>

\* The link software/.current.new, whose name all processes share, is removed,
\* made and renamed; each step may find that another process was faster.
Unlink(p) ==
    /\ job[p].at = "unlink"
    /\ newLink' = None
    /\ Continue(p, [at |-> "link", release |-> job[p].release])
    /\ UNCHANGED <<installed, current, live, amigaVars, promotionVars>>

Link(p) ==
    /\ job[p].at = "link"
    /\ IF newLink = None THEN newLink' = job[p].release /\ Continue(p, [at |-> "switch"])
                         ELSE End(p) /\ UNCHANGED newLink
    /\ UNCHANGED <<installed, current, live, amigaVars, promotionVars>>

Switch(p) ==
    /\ job[p].at = "switch"
    /\ End(p)
    /\ current' = IF newLink = None THEN current ELSE newLink
    /\ newLink' = None
    /\ UNCHANGED <<installed, live, amigaVars, promotionVars>>

\* The BBS and its operator change what is in the living data.
Edit(i) ==
    /\ live[i] # None
    /\ live' = [live EXCEPT ![i] = "edited"]
    /\ UNCHANGED <<product, job, installed, current, newLink, amigaVars, promotionVars, overlapped, crashes>>

-----------------------------------------------------------------------------
(* install of the Amiga products, after the artifact has been prepared.     *)

\* A golden image is made from the operator's base image once it is qualified.
\* It is copied in place: copyfile creates the file and then fills it.
InstallAmiga(p, qualified) ==
    /\ product = "amiga"
    /\ golden # "absent" \/ qualified
    /\ IF golden = "absent"
          THEN golden' = "partial" /\ Begin(p, [at |-> "golden"])
          ELSE UNCHANGED golden /\ Begin(p, [at |-> "check"])
    /\ UNCHANGED <<working, mysticVars, promotionVars>>

\* The copy ends, or fails and leaves what it has written.
CopyGolden(p) ==
    /\ job[p].at = "golden"
    /\ \/ golden' = "whole" /\ Continue(p, [at |-> "check"])
       \/ UNCHANGED golden /\ End(p)
    /\ UNCHANGED <<working, mysticVars, promotionVars>>

\* copy_working_image: an existing working image is left alone.
CheckWorking(p) ==
    /\ job[p].at = "check"
    /\ IF working = "absent" THEN Continue(p, [at |-> "copy", image |-> golden])
                             ELSE End(p)
    /\ UNCHANGED <<amigaVars, mysticVars, promotionVars>>

\* The copy is complete under a temporary name and renamed, or fails.
PublishWorking(p) ==
    /\ job[p].at = "copy"
    /\ working' \in {job[p].image, working}
    /\ End(p)
    /\ UNCHANGED <<golden, mysticVars, promotionVars>>

\* The emulator runs from the working image, which is living data from then on.
Boot ==
    /\ working # "absent"
    /\ working' = "living"
    /\ UNCHANGED <<product, job, golden, mysticVars, promotionVars, overlapped, crashes>>

-----------------------------------------------------------------------------
(* qualify, promote and rollback of AmiExpress.                             *)

\* qualify and _record: a failed check outweighs a missing observation.
Qualify(r, status) ==
    /\ product = "amiga"
    /\ qualification' = [qualification EXCEPT ![r] = status]
    /\ UNCHANGED <<product, job, mysticVars, amigaVars, deployment, temporary, approved, overlapped, crashes>>

FaultyPromotable(r, approve) == r \in Development /\ qualification[r] # None

Promotable(r, approve) ==
    /\ r \in Development
    /\ qualification[r] \notin {None, "FAIL"}
    /\ qualification[r] = "HUMAN_REQUIRED" => approve

\* promote reads the state file and computes the new one; it is written later.
Promote(p, r, approve) ==
    /\ product = "amiga"
    /\ Promotable(r, approve)
    /\ Begin(p, [at |-> "write", state |-> [current |-> r, previous |-> deployment.current]])
    /\ approved' = IF qualification[r] = "FAIL" THEN approved ELSE approved \cup {r}
    /\ UNCHANGED <<mysticVars, amigaVars, qualification, deployment, temporary>>

Rollback(p) ==
    /\ product = "amiga"
    /\ deployment.previous # None
    /\ Begin(p, [at |-> "write", state |-> [current |-> deployment.previous, previous |-> deployment.current]])
    /\ UNCHANGED <<mysticVars, amigaVars, promotionVars>>

\* The temporary file has one name for all processes.
WriteState(p) ==
    /\ job[p].at = "write"
    /\ temporary' = job[p].state
    /\ Continue(p, [at |-> "replace"])
    /\ UNCHANGED <<mysticVars, amigaVars, qualification, deployment, approved>>

\* os.replace raises if another process has taken the file.
ReplaceState(p) ==
    /\ job[p].at = "replace"
    /\ End(p)
    /\ deployment' = IF temporary = None THEN deployment ELSE temporary
    /\ temporary' = None
    /\ UNCHANGED <<mysticVars, amigaVars, qualification, approved>>

-----------------------------------------------------------------------------
\* A process is killed.  Its staging directory or temporary copy has a name
\* that nothing else uses; the other files stay as they are.
Crash(p) ==
    /\ Busy(p)
    /\ crashes < MaxCrashes
    /\ crashes' = crashes + 1
    /\ job' = [job EXCEPT ![p] = Idle]
    /\ UNCHANGED <<product, mysticVars, amigaVars, promotionVars, overlapped>>

Work(p) ==
    \/ Stage(p) \/ \E i \in Items : LookAt(p, i)
    \/ Place(p) \/ PublishRelease(p) \/ Unlink(p) \/ Link(p) \/ Switch(p)
    \/ CopyGolden(p) \/ CheckWorking(p) \/ PublishWorking(p)
    \/ WriteState(p) \/ ReplaceState(p)

Command(p) ==
    \/ \E r \in Releases : InstallMystic(p, r)
    \/ \E qualified \in BOOLEAN : InstallAmiga(p, qualified)
    \/ \E r \in Releases, approve \in BOOLEAN : Promote(p, r, approve)
    \/ Rollback(p)

Next ==
    \/ \E p \in Installers : Command(p) \/ Work(p) \/ Crash(p)
    \/ \E i \in Items : Edit(i)
    \/ Boot
    \/ \E r \in Releases, s \in Statuses : Qualify(r, s)

Spec == Init /\ [][Next]_vars

-----------------------------------------------------------------------------
(* Properties *)

\* The selected release is a complete one, although the link that selects it
\* has a name shared by all installers and any of them may die at any step.
CurrentInstalled == current # None => current \in installed

\* Installers that do not overlap never touch what the BBS has made of its
\* living data: not on a second release, not on a retry after a failure or a
\* crash, and not through the working image.
LivingDataKept ==
    [][~overlapped' =>
          /\ \A i \in Items : live[i] = "edited" => live'[i] = "edited"
          /\ working = "living" => working' = "living"]_vars

\* Whatever promotions and rollbacks overlap or die, both pointers of the state
\* file name releases that passed the gate of promote.
PointersApproved ==
    {deployment.current, deployment.previous} \subseteq approved \cup {None}

=============================================================================
