------------------------- MODULE IntegrationsProofs -------------------------
(* Installation and promotion for any processes, releases and crashes.     *)
EXTENDS Integrations, TLAPS

JobsAreAFunction == job = [p \in Installers |-> job[p]]

\* A command or a step of process p moves that process only.
Moves(p, next) == job' = [job EXCEPT ![p] = next]

(* What a step can do to the job of a process.                             *)
LEMMA JobMoves ==
  ASSUME JobsAreAFunction, NEW p \in Installers, NEW next, Moves(p, next)
  PROVE  /\ JobsAreAFunction'
         /\ job'[p] = next
         /\ \A q \in Installers \ {p} : job'[q] = job[q]
  BY DEF JobsAreAFunction, Moves

-----------------------------------------------------------------------------
(* Types.                                                                  *)

\* The fields that a job has at each stage, on which the types of the files it
\* will write depend.
JobOK(j) ==
    /\ j.at \in Stages
    /\ j.at \in {"stage", "move", "place", "unlink", "link"} => j.release \in Releases
    /\ j.at = "place" => j.item \in Items
    /\ j.at = "copy" => j.image \in Image
    /\ j.at = "write" => j.state \in Pointers

TypeInv ==
    /\ JobsAreAFunction
    /\ \A p \in Installers : JobOK(job[p])
    /\ TypeOK

(* Every step keeps the types, and leaves each job with its fields.        *)
LEMMA TypeStep == TypeInv /\ [Next]_vars => TypeInv'
  <1> SUFFICES ASSUME TypeInv, [Next]_vars PROVE TypeInv'
    OBVIOUS
  <1> USE IntegrationsAssumption DEF TypeInv, TypeOK
  <1>1. ASSUME NEW p \in Installers, NEW next, Moves(p, next), JobOK(next)
        PROVE  /\ JobsAreAFunction'
               /\ \A q \in Installers : JobOK(job'[q]) /\ job'[q].at \in Stages
    <2>1. \A q \in Installers : JobOK(job'[q])
      BY <1>1, JobMoves
    <2> QED BY <1>1, <2>1, JobMoves DEF JobOK
  <1>2. ASSUME NEW p \in Installers, Command(p) PROVE TypeInv'
    <2>1. PICK next : Moves(p, next) /\ JobOK(next)
      <3> DEFINE Started == \E next : Moves(p, next) /\ JobOK(next)
      <3>1. ASSUME NEW r \in Releases, InstallMystic(p, r) PROVE Started
        <4> DEFINE next == [at |-> IF r \in installed THEN "unlink" ELSE "stage", release |-> r]
        <4>1. Moves(p, next)
          BY <3>1 DEF InstallMystic, Begin, Moves
        <4>2. JobOK(next)
          BY DEF JobOK, Stages
        <4> QED BY <4>1, <4>2
      <3>2. CASE \E qualified \in BOOLEAN : InstallAmiga(p, qualified)
        BY <3>2 DEF InstallAmiga, Begin, Moves, JobOK, Stages
      <3>3. ASSUME NEW r \in Releases, NEW approve \in BOOLEAN, Promote(p, r, approve) PROVE Started
        <4> DEFINE next == [at |-> "write", state |-> [current |-> r, previous |-> deployment.current]]
        <4>1. Moves(p, next)
          BY <3>3 DEF Promote, Begin, Moves
        <4>2. JobOK(next)
          BY DEF JobOK, Stages, Pointers
        <4> QED BY <4>1, <4>2
      <3>4. ASSUME Rollback(p) PROVE Started
        <4> DEFINE next == [at |-> "write",
                            state |-> [current |-> deployment.previous, previous |-> deployment.current]]
        <4>1. Moves(p, next)
          BY <3>4 DEF Rollback, Begin, Moves
        <4>2. JobOK(next)
          BY DEF JobOK, Stages, Pointers
        <4> QED BY <4>1, <4>2
      <3> QED BY <1>2, <3>1, <3>2, <3>3, <3>4 DEF Command
    <2>2. overlapped' \in BOOLEAN /\ UNCHANGED <<product, crashes, mysticVars, working>>
      BY <1>2 DEF Command, InstallMystic, InstallAmiga, Promote, Rollback, Begin, amigaVars
    <2>3. golden' \in Image /\ approved' \subseteq Releases /\ UNCHANGED <<qualification, deployment, temporary>>
      BY <1>2 DEF Command, InstallMystic, InstallAmiga, Promote, Rollback, amigaVars, promotionVars, Image
    <2> QED BY <1>1, <2>1, <2>2, <2>3 DEF mysticVars
  <1>3. ASSUME NEW p \in Installers, Work(p) \/ Crash(p) PROVE TypeInv'
    <2> JobOK(job[p]) /\ JobOK(Idle)
      BY DEF JobOK, Idle, Stages
    <2>1. CASE \/ Stage(p) \/ CheckWorking(p) \/ Crash(p)
      <3>1. PICK next : Moves(p, next) /\ JobOK(next)
        BY <2>1 DEF Stage, CheckWorking, Crash, Continue, End, Moves, JobOK, Idle, Stages
      <3>2. UNCHANGED <<mysticVars, amigaVars, promotionVars, product, overlapped>> /\ crashes' \in 0..MaxCrashes
        BY <2>1 DEF Stage, CheckWorking, Crash, Continue, End
      <3> QED BY <1>1, <3>1, <3>2 DEF mysticVars, amigaVars, promotionVars
    <2>2. ASSUME NEW i \in Items, LookAt(p, i) PROVE TypeInv'
      <3>1. PICK next : Moves(p, next) /\ JobOK(next)
        <4>1. CASE live[i] = None
          BY <2>2, <4>1 DEF LookAt, Continue, Moves, JobOK, Stages
        <4>2. CASE live[i] # None /\ i \in FileItems
          BY <2>2, <4>2 DEF LookAt, Continue, Moves, JobOK, Stages
        <4>3. CASE live[i] # None /\ i \notin FileItems
          BY <2>2, <4>3 DEF LookAt, Continue, End, Moves
        <4> QED BY <4>1, <4>2, <4>3
      <3>2. UNCHANGED <<mysticVars, amigaVars, promotionVars, product, overlapped, crashes>>
        BY <2>2 DEF LookAt, Continue, End
      <3> QED BY <1>1, <3>1, <3>2 DEF mysticVars, amigaVars, promotionVars
    <2>3. CASE \/ Place(p) \/ PublishRelease(p) \/ Unlink(p) \/ Link(p) \/ Switch(p)
      <3>1. PICK next : Moves(p, next) /\ JobOK(next)
        BY <2>3 DEF Place, PublishRelease, Unlink, Link, Switch, Continue, End, Moves, JobOK, Stages
      <3>2. UNCHANGED <<amigaVars, promotionVars, product, overlapped, crashes>>
        BY <2>3 DEF Place, PublishRelease, Unlink, Link, Switch, Continue, End
      <3>3. /\ installed' \subseteq Releases
            /\ current' \in Releases \cup {None} /\ newLink' \in Releases \cup {None}
            /\ live' \in [Items -> Releases \cup {None, "edited"}]
        BY <2>3 DEF Place, PublishRelease, Unlink, Link, Switch, JobOK
      <3> QED BY <1>1, <3>1, <3>2, <3>3 DEF amigaVars, promotionVars
    <2>4. CASE CopyGolden(p) \/ PublishWorking(p)
      <3>1. PICK next : Moves(p, next) /\ JobOK(next)
        BY <2>4 DEF CopyGolden, PublishWorking, Continue, End, Moves, JobOK, Stages
      <3>2. /\ golden' \in Image /\ working' \in Image
            /\ UNCHANGED <<mysticVars, promotionVars, product, overlapped, crashes>>
        BY <2>4 DEF CopyGolden, PublishWorking, Continue, End, JobOK, Image
      <3> QED BY <1>1, <3>1, <3>2 DEF mysticVars, promotionVars
    <2>5. CASE WriteState(p) \/ ReplaceState(p)
      <3>1. PICK next : Moves(p, next) /\ JobOK(next)
        BY <2>5 DEF WriteState, ReplaceState, Continue, End, Moves, JobOK, Stages
      <3>2. /\ deployment' \in Pointers /\ temporary' \in Pointers \cup {None}
            /\ UNCHANGED <<mysticVars, amigaVars, qualification, approved, product, overlapped, crashes>>
        BY <2>5 DEF WriteState, ReplaceState, Continue, End, JobOK
      <3> QED BY <1>1, <3>1, <3>2 DEF mysticVars, amigaVars
    <2> QED BY <1>3, <2>1, <2>2, <2>3, <2>4, <2>5 DEF Work
  <1>4. CASE \/ \E i \in Items : Edit(i)
             \/ Boot
             \/ \E r \in Releases, s \in Statuses : Qualify(r, s)
             \/ UNCHANGED vars
    <2>1. UNCHANGED <<product, job, installed, current, newLink, golden, deployment, temporary, overlapped, approved, crashes>>
      BY <1>4 DEF Edit, Boot, Qualify, vars, mysticVars, amigaVars, promotionVars
    <2>2. live' \in [Items -> Releases \cup {None, "edited"}]
      BY <1>4 DEF Edit, Boot, Qualify, vars, mysticVars
    <2>3. working' \in Image /\ qualification' \in [Releases -> Statuses \cup {None}]
      BY <1>4 DEF Edit, Boot, Qualify, vars, amigaVars, promotionVars, Image
    <2>4. JobsAreAFunction' /\ \A p \in Installers : JobOK(job'[p])
      BY <2>1 DEF JobsAreAFunction
    <2> QED BY <2>1, <2>2, <2>3, <2>4
  <1> QED BY <1>2, <1>3, <1>4 DEF Next

\* Every file, link and pointer of an installation root keeps its type.
THEOREM InstallTypes == Spec => []TypeOK
  <1>1. Init => TypeInv
    <2> SUFFICES ASSUME Init PROVE TypeInv
      OBVIOUS
    <2>1. JobsAreAFunction /\ \A p \in Installers : JobOK(job[p]) /\ job[p].at \in Stages
      BY DEF Init, JobsAreAFunction, JobOK, Idle, Stages
    <2>2. deployment \in Pointers
      BY DEF Init, Pointers, Nowhere
    <2>3. crashes \in 0..MaxCrashes
      BY IntegrationsAssumption DEF Init
    <2> QED BY <2>1, <2>2, <2>3 DEF Init, TypeInv, TypeOK, Image
  <1>2. TypeInv => TypeOK
    BY DEF TypeInv
  <1> QED BY <1>1, <1>2, TypeStep, PTL DEF Spec

-----------------------------------------------------------------------------
(* The selected release.                                                   *)

\* Whoever is about to make the link has its release in place, and so has the
\* link that waits under the shared name, whichever process made it.
LinkInv ==
    /\ JobsAreAFunction
    /\ \A p \in Installers : job[p].at \in {"unlink", "link"} => job[p].release \in installed
    /\ newLink # None => newLink \in installed
    /\ CurrentInstalled

(* Every step keeps the link of the selected release and the temporary     *)
(* link beside it on complete releases.                                    *)
LEMMA LinkStep == LinkInv /\ [Next]_vars => LinkInv'
  <1> SUFFICES ASSUME LinkInv, [Next]_vars PROVE LinkInv'
    OBVIOUS
  <1> USE DEF LinkInv, CurrentInstalled
  <1>1. ASSUME NEW p \in Installers, NEW r \in Releases, InstallMystic(p, r) PROVE LinkInv'
    <2> DEFINE next == [at |-> IF r \in installed THEN "unlink" ELSE "stage", release |-> r]
    <2>1. Moves(p, next) /\ UNCHANGED mysticVars
      BY <1>1 DEF InstallMystic, Begin, Moves
    <2>2. next.at \in {"unlink", "link"} => next.release \in installed
      OBVIOUS
    <2> HIDE DEF next
    <2> QED BY <2>1, <2>2, JobMoves DEF mysticVars
  <1>2. ASSUME NEW p \in Installers, PublishRelease(p) PROVE LinkInv'
    <2>1. PICK next : Moves(p, next) /\ (next.at \in {"unlink", "link"} => next.release = job[p].release)
      BY <1>2 DEF PublishRelease, End, Continue, Moves, Idle
    <2>2. installed' = installed \cup {job[p].release} /\ current' = current /\ newLink' = newLink
      BY <1>2 DEF PublishRelease
    <2> QED BY <2>1, <2>2, JobMoves
  <1>3. ASSUME NEW p \in Installers, Unlink(p) PROVE LinkInv'
    <2>1. Moves(p, [at |-> "link", release |-> job[p].release])
      BY <1>3 DEF Unlink, Continue, Moves
    <2> QED BY <1>3, <2>1, JobMoves DEF Unlink
  <1>4. ASSUME NEW p \in Installers, Link(p) PROVE LinkInv'
    <2>1. Moves(p, [at |-> "switch"]) \/ Moves(p, Idle)
      BY <1>4 DEF Link, End, Continue, Moves
    <2>2. installed' = installed /\ current' = current /\ newLink' \in {newLink, job[p].release} /\ job[p].at = "link"
      BY <1>4 DEF Link
    <2>3. job'[p].at \in {"switch", "idle"} /\ JobsAreAFunction' /\ \A q \in Installers \ {p} : job'[q] = job[q]
      BY <2>1, JobMoves DEF Idle
    <2> QED BY <2>2, <2>3
  <1>5. ASSUME NEW p \in Installers, Switch(p) PROVE LinkInv'
    <2>1. Moves(p, Idle)
      BY <1>5 DEF Switch, End, Continue, Moves
    <2> QED BY <1>5, <2>1, JobMoves DEF Switch, Idle
  <1>6. ASSUME NEW p \in Installers, NEW next, Moves(p, next), next.at \notin {"unlink", "link"},
               installed' = installed, newLink' = newLink, current' = current
        PROVE  LinkInv'
    BY <1>6, JobMoves
  <1>7. ASSUME NEW p \in Installers, Command(p) \/ Work(p) \/ Crash(p) PROVE LinkInv'
    <2>1. CASE \/ Stage(p) \/ Place(p) \/ CopyGolden(p) \/ CheckWorking(p) \/ PublishWorking(p)
               \/ WriteState(p) \/ ReplaceState(p)
      BY <2>1, <1>6 DEF Stage, Place, CopyGolden, CheckWorking, PublishWorking, WriteState, ReplaceState,
                        End, Continue, Idle, Moves, mysticVars
    <2>2. CASE \E i \in Items : LookAt(p, i)
      <3>1. PICK i \in Items : LookAt(p, i)
        BY <2>2
      <3>2. CASE live[i] = None
        BY <3>1, <3>2, <1>6 DEF LookAt, Continue, Moves, mysticVars
      <3>3. CASE live[i] # None /\ i \in FileItems
        BY <3>1, <3>3, <1>6 DEF LookAt, Continue, Moves, mysticVars
      <3>4. CASE live[i] # None /\ i \notin FileItems
        BY <3>1, <3>4, <1>6 DEF LookAt, End, Continue, Idle, Moves, mysticVars
      <3> QED BY <3>2, <3>3, <3>4
    <2>3. CASE Crash(p)
      BY <2>3, <1>6 DEF Crash, Idle, Moves, mysticVars
    <2>4. CASE \E qualified \in BOOLEAN : InstallAmiga(p, qualified)
      BY <2>4, <1>6 DEF InstallAmiga, Begin, Moves, mysticVars
    <2>5. CASE \E r \in Releases, approve \in BOOLEAN : Promote(p, r, approve)
      BY <2>5, <1>6 DEF Promote, Begin, Moves, mysticVars
    <2>6. CASE Rollback(p)
      BY <2>6, <1>6 DEF Rollback, Begin, Moves, mysticVars
    <2> QED BY <1>1, <1>2, <1>3, <1>4, <1>5, <1>7, <2>1, <2>2, <2>3, <2>4, <2>5, <2>6 DEF Command, Work
  <1>8. CASE \/ \E i \in Items : Edit(i)
             \/ Boot
             \/ \E r \in Releases, s \in Statuses : Qualify(r, s)
             \/ UNCHANGED vars
    BY <1>8 DEF Edit, Boot, Qualify, vars, mysticVars, JobsAreAFunction
  <1> QED BY <1>7, <1>8 DEF Next

\* software/current always names a release that is completely in place.
THEOREM CurrentIsInstalled == Spec => []CurrentInstalled
  <1>1. Init => LinkInv
    BY DEF Init, LinkInv, CurrentInstalled, JobsAreAFunction, Idle
  <1>2. LinkInv => CurrentInstalled
    BY DEF LinkInv
  <1> QED BY <1>1, <1>2, LinkStep, PTL DEF Spec

-----------------------------------------------------------------------------
(* The pointers of the state file.                                         *)

Approved(state) == {state.current, state.previous} \subseteq approved \cup {None}

\* What a promotion or a rollback is about to write, and what waits under the
\* shared temporary name, is as good as what is in the state file.
PointerInv ==
    /\ JobsAreAFunction
    /\ \A p \in Installers : job[p].at = "write" => Approved(job[p].state)
    /\ temporary # None => Approved(temporary)
    /\ PointersApproved

(* Every step keeps the pointers on approved releases.                     *)
LEMMA PointerStep == PointerInv /\ [Next]_vars => PointerInv'
  <1> SUFFICES ASSUME PointerInv, [Next]_vars PROVE PointerInv'
    OBVIOUS
  <1> USE DEF PointerInv, PointersApproved, Approved
  <1>1. ASSUME NEW p \in Installers, NEW r \in Releases, NEW approve \in BOOLEAN, Promote(p, r, approve)
        PROVE  PointerInv'
    <2> DEFINE state == [current |-> r, previous |-> deployment.current]
    <2>1. Moves(p, [at |-> "write", state |-> state])
      BY <1>1 DEF Promote, Begin, Moves
    <2>2. approved' = approved \cup {r} /\ deployment' = deployment /\ temporary' = temporary
      BY <1>1 DEF Promote, Promotable
    <2>3. job'[p].state = state /\ JobsAreAFunction' /\ \A q \in Installers \ {p} : job'[q] = job[q]
      BY <2>1, JobMoves
    <2>4. Approved(job[p].state)'
      BY <2>2, <2>3
    <2> QED BY <2>2, <2>3, <2>4
  <1>2. ASSUME NEW p \in Installers, Rollback(p) PROVE PointerInv'
    <2> DEFINE state == [current |-> deployment.previous, previous |-> deployment.current]
    <2>1. Moves(p, [at |-> "write", state |-> state]) /\ UNCHANGED promotionVars
      BY <1>2 DEF Rollback, Begin, Moves
    <2>2. job'[p].state = state /\ JobsAreAFunction' /\ \A q \in Installers \ {p} : job'[q] = job[q]
      BY <2>1, JobMoves
    <2>3. Approved(job[p].state)'
      BY <2>1, <2>2 DEF promotionVars
    <2> QED BY <2>1, <2>2, <2>3 DEF promotionVars
  <1>3. ASSUME NEW p \in Installers, WriteState(p) PROVE PointerInv'
    <2>1. Moves(p, [at |-> "replace"])
      BY <1>3 DEF WriteState, Continue, Moves
    <2> QED BY <1>3, <2>1, JobMoves DEF WriteState
  <1>4. ASSUME NEW p \in Installers, ReplaceState(p) PROVE PointerInv'
    <2>1. Moves(p, Idle)
      BY <1>4 DEF ReplaceState, End, Continue, Moves
    <2> QED BY <1>4, <2>1, JobMoves DEF ReplaceState, Idle
  <1>5. ASSUME NEW p \in Installers, NEW next, Moves(p, next), next.at # "write", UNCHANGED promotionVars
        PROVE  PointerInv'
    BY <1>5, JobMoves DEF promotionVars
  <1>6. ASSUME NEW p \in Installers, Command(p) \/ Work(p) \/ Crash(p) PROVE PointerInv'
    <2>1. CASE \/ Stage(p) \/ Place(p) \/ PublishRelease(p) \/ Unlink(p) \/ Link(p) \/ Switch(p)
      BY <2>1, <1>5 DEF Stage, Place, PublishRelease, Unlink, Link, Switch, End, Continue, Idle, Moves
    <2>2. CASE CopyGolden(p) \/ CheckWorking(p) \/ PublishWorking(p)
      BY <2>2, <1>5 DEF CopyGolden, CheckWorking, PublishWorking, End, Continue, Idle, Moves
    <2>3. CASE \E i \in Items : LookAt(p, i)
      <3>1. PICK i \in Items : LookAt(p, i)
        BY <2>3
      <3>2. CASE live[i] = None
        BY <3>1, <3>2, <1>5 DEF LookAt, Continue, Moves
      <3>3. CASE live[i] # None /\ i \in FileItems
        BY <3>1, <3>3, <1>5 DEF LookAt, Continue, Moves
      <3>4. CASE live[i] # None /\ i \notin FileItems
        BY <3>1, <3>4, <1>5 DEF LookAt, End, Continue, Idle, Moves
      <3> QED BY <3>2, <3>3, <3>4
    <2>4. CASE Crash(p)
      <3>1. Moves(p, Idle) /\ Idle.at # "write" /\ UNCHANGED promotionVars
        BY <2>4 DEF Crash, Idle, Moves
      <3> QED BY <3>1, <1>5
    <2>5. CASE \E qualified \in BOOLEAN : InstallAmiga(p, qualified)
      <3>1. \E at \in {"golden", "check"} : Moves(p, [at |-> at]) /\ UNCHANGED promotionVars
        BY <2>5 DEF InstallAmiga, Begin, Moves
      <3>2. PICK at \in {"golden", "check"} : Moves(p, [at |-> at]) /\ UNCHANGED promotionVars
        BY <3>1
      <3>3. [at |-> at].at # "write"
        OBVIOUS
      <3> QED BY <3>2, <3>3, <1>5
    <2>6. CASE \E r \in Releases : InstallMystic(p, r)
      <3>1. PICK r \in Releases : InstallMystic(p, r)
        BY <2>6
      <3> DEFINE next == [at |-> IF r \in installed THEN "unlink" ELSE "stage", release |-> r]
      <3>2. Moves(p, next) /\ next.at # "write" /\ UNCHANGED promotionVars
        BY <3>1 DEF InstallMystic, Begin, Moves
      <3> QED BY <3>2, <1>5
    <2> QED BY <1>1, <1>2, <1>3, <1>4, <1>6, <2>1, <2>2, <2>3, <2>4, <2>5, <2>6 DEF Command, Work
  <1>7. CASE \/ \E i \in Items : Edit(i)
             \/ Boot
             \/ \E r \in Releases, s \in Statuses : Qualify(r, s)
             \/ UNCHANGED vars
    BY <1>7 DEF Edit, Boot, Qualify, vars, promotionVars, JobsAreAFunction
  <1> QED BY <1>6, <1>7 DEF Next

\* Both pointers of amiexpress-current.json name releases that passed the gate
\* of promote, whichever promotions and rollbacks overlap or die.
THEOREM PointersAreApproved == Spec => []PointersApproved
  <1>1. Init => PointerInv
    BY DEF Init, PointerInv, PointersApproved, Approved, JobsAreAFunction, Idle, Nowhere
  <1>2. PointerInv => PointersApproved
    BY DEF PointerInv
  <1> QED BY <1>1, <1>2, PointerStep, PTL DEF Spec

-----------------------------------------------------------------------------
(* Living data.                                                            *)

\* As long as no two processes have overlapped there is one at work at most,
\* and what it found absent when it looked is still absent when it acts.
AloneInv ==
    /\ JobsAreAFunction
    /\ live = [i \in Items |-> live[i]]
    /\ overlapped \in BOOLEAN
    /\ ~overlapped =>
          /\ \A p, q \in Installers : Busy(p) /\ Busy(q) => p = q
          /\ \A p \in Installers : job[p].at = "place" => live[job[p].item] = None
          /\ \A p \in Installers : job[p].at = "copy" => working = "absent"

\* A command begins: if it does not overlap, nobody else was at work.
LEMMA BeginAlone ==
  ASSUME AloneInv, NEW p \in Installers, NEW next, Begin(p, next),
         next.at \notin {"place", "copy"}, live' = live
  PROVE  AloneInv'
  <1>1. /\ JobsAreAFunction' /\ job'[p] = next
        /\ \A q \in Installers \ {p} : job'[q] = job[q]
    BY JobMoves DEF AloneInv, Begin, Moves
  <1>2. overlapped' = (overlapped \/ \E q \in Installers : Busy(q))
    BY DEF Begin
  <1>3. overlapped' \in BOOLEAN
    BY <1>2
  <1>4. ASSUME ~overlapped' PROVE \A q \in Installers \ {p} : job'[q].at = "idle"
    BY <1>1, <1>2, <1>4 DEF Busy
  <1> QED BY <1>1, <1>3, <1>4 DEF AloneInv, Busy

\* A process at work goes on: the others are idle unless some have overlapped.
LEMMA ContinueAlone ==
  ASSUME AloneInv, NEW p \in Installers, NEW next, Moves(p, next), overlapped' = overlapped,
         Busy(p), live' = [i \in Items |-> live'[i]],
         ~overlapped => /\ next.at = "place" => live'[next.item] = None
                        /\ next.at = "copy" => working' = "absent"
  PROVE  AloneInv'
  <1>1. /\ JobsAreAFunction' /\ job'[p] = next
        /\ \A q \in Installers \ {p} : job'[q] = job[q]
    BY JobMoves DEF AloneInv
  <1>2. ASSUME ~overlapped PROVE \A q \in Installers \ {p} : job'[q].at = "idle"
    BY <1>1, <1>2 DEF AloneInv, Busy
  <1> QED BY <1>1, <1>2 DEF AloneInv, Busy

(* Every step keeps the copies of living data apart.                       *)
LEMMA AloneStep == AloneInv /\ [Next]_vars => AloneInv'
  <1> SUFFICES ASSUME AloneInv, [Next]_vars PROVE AloneInv'
    OBVIOUS
  <1>l. live = [i \in Items |-> live[i]]
    BY DEF AloneInv
  <1>1. ASSUME NEW p \in Installers, Command(p) PROVE AloneInv'
    <2>1. CASE \E r \in Releases : InstallMystic(p, r)
      <3>1. PICK r \in Releases : InstallMystic(p, r)
        BY <2>1
      <3> DEFINE next == [at |-> IF r \in installed THEN "unlink" ELSE "stage", release |-> r]
      <3>2. Begin(p, next) /\ next.at \notin {"place", "copy"} /\ live' = live
        BY <3>1 DEF InstallMystic, mysticVars
      <3> HIDE DEF next
      <3> QED BY <3>2, BeginAlone
    <2>2. CASE \E qualified \in BOOLEAN : InstallAmiga(p, qualified)
      <3>1. PICK at \in {"golden", "check"} : Begin(p, [at |-> at]) /\ live' = live
        BY <2>2 DEF InstallAmiga, mysticVars
      <3>2. [at |-> at].at \notin {"place", "copy"}
        OBVIOUS
      <3> QED BY <3>1, <3>2, BeginAlone
    <2>3. CASE Rollback(p) \/ \E r \in Releases, approve \in BOOLEAN : Promote(p, r, approve)
      <3>1. PICK state : Begin(p, [at |-> "write", state |-> state]) /\ live' = live
        BY <2>3 DEF Promote, Rollback, mysticVars
      <3>2. [at |-> "write", state |-> state].at \notin {"place", "copy"}
        OBVIOUS
      <3> QED BY <3>1, <3>2, BeginAlone
    <2> QED BY <1>1, <2>1, <2>2, <2>3 DEF Command
  <1> DEFINE Quiet(p, next) == /\ Moves(p, next) /\ Busy(p) /\ overlapped' = overlapped
                               /\ live' = live /\ next.at \notin {"place", "copy"}
  <1>q. ASSUME NEW p \in Installers, NEW next, Quiet(p, next) PROVE AloneInv'
    BY <1>q, <1>l, ContinueAlone
  <1>2. ASSUME NEW p \in Installers, Place(p) PROVE AloneInv'
    <2> DEFINE next == [at |-> "move", release |-> job[p].release, todo |-> job[p].todo]
    <2>1. /\ Moves(p, next) /\ Busy(p) /\ overlapped' = overlapped
          /\ next.at \notin {"place", "copy"}
      BY <1>2 DEF Place, Continue, Moves, Busy
    <2>2. live' = [i \in Items |-> live'[i]]
      BY <1>2, <1>l DEF Place
    <2> HIDE DEF next
    <2> QED BY <2>1, <2>2, ContinueAlone
  <1>3. ASSUME NEW p \in Installers, NEW i \in Items, LookAt(p, i) PROVE AloneInv'
    <2> DEFINE next == [at |-> "place", release |-> job[p].release, todo |-> job[p].todo \ {i}, item |-> i]
               skip == [at |-> "move", release |-> job[p].release, todo |-> job[p].todo \ {i}]
    <2>1. Busy(p) /\ overlapped' = overlapped /\ live' = live
      BY <1>3 DEF LookAt, Continue, End, Busy, mysticVars
    <2>2. CASE live[i] = None
      <3>1. Moves(p, next) /\ next.at = "place" /\ next.item = i
        BY <1>3, <2>2 DEF LookAt, Continue, Moves
      <3> HIDE DEF next
      <3> QED BY <2>1, <2>2, <3>1, <1>l, ContinueAlone
    <2>3. CASE live[i] # None /\ i \in FileItems
      <3>1. Moves(p, skip) /\ skip.at = "move"
        BY <1>3, <2>3 DEF LookAt, Continue, Moves
      <3> HIDE DEF skip
      <3> QED BY <2>1, <3>1, <1>q
    <2>4. CASE live[i] # None /\ i \notin FileItems
      <3>1. Moves(p, Idle) /\ Idle.at = "idle"
        BY <1>3, <2>4 DEF LookAt, End, Continue, Moves, Idle
      <3> QED BY <2>1, <3>1, <1>q
    <2> QED BY <2>2, <2>3, <2>4
  <1>4. ASSUME NEW p \in Installers, CheckWorking(p) PROVE AloneInv'
    <2> DEFINE next == [at |-> "copy", image |-> golden]
    <2>1. Busy(p) /\ overlapped' = overlapped /\ live' = live /\ working' = working
      BY <1>4 DEF CheckWorking, Continue, End, Busy, mysticVars, amigaVars
    <2>2. CASE working = "absent"
      <3>1. Moves(p, next) /\ next.at = "copy"
        BY <1>4, <2>2 DEF CheckWorking, Continue, Moves
      <3> HIDE DEF next
      <3> QED BY <2>1, <2>2, <3>1, <1>l, ContinueAlone
    <2>3. CASE working # "absent"
      <3>1. Moves(p, Idle) /\ Idle.at = "idle"
        BY <1>4, <2>3 DEF CheckWorking, End, Continue, Moves, Idle
      <3> QED BY <2>1, <3>1, <1>q
    <2> QED BY <2>2, <2>3
  <1>5. ASSUME NEW p \in Installers, Switch(p) \/ PublishWorking(p) \/ ReplaceState(p) \/ Crash(p) PROVE AloneInv'
    <2>1. Quiet(p, Idle)
      BY <1>5 DEF Switch, PublishWorking, ReplaceState, Crash, End, Continue, Moves, Busy, Idle, mysticVars
    <2> QED BY <2>1, <1>q
  <1>6. ASSUME NEW p \in Installers, Stage(p) \/ PublishRelease(p) \/ CopyGolden(p) PROVE AloneInv'
    <2>1. \E next : Quiet(p, next)
      <3>1. CASE Stage(p)
        BY <3>1 DEF Stage, End, Continue, Moves, Busy, Idle, mysticVars
      <3>2. CASE PublishRelease(p)
        BY <3>2 DEF PublishRelease, End, Continue, Moves, Busy, Idle
      <3>3. CASE CopyGolden(p)
        BY <3>3 DEF CopyGolden, End, Continue, Moves, Busy, Idle, mysticVars
      <3> QED BY <1>6, <3>1, <3>2, <3>3
    <2> QED BY <2>1, <1>q
  <1>7. ASSUME NEW p \in Installers, Unlink(p) \/ Link(p) \/ WriteState(p) PROVE AloneInv'
    <2>1. \E next : Quiet(p, next)
      <3>1. CASE Unlink(p)
        <4>1. Quiet(p, [at |-> "link", release |-> job[p].release])
          BY <3>1 DEF Unlink, Continue, Moves, Busy
        <4> QED BY <4>1
      <3>2. CASE Link(p)
        BY <3>2 DEF Link, End, Continue, Moves, Busy, Idle
      <3>3. CASE WriteState(p)
        <4>1. Quiet(p, [at |-> "replace"])
          BY <3>3 DEF WriteState, Continue, Moves, Busy, mysticVars
        <4> QED BY <4>1
      <3> QED BY <1>7, <3>1, <3>2, <3>3
    <2> QED BY <2>1, <1>q
  <1>8. CASE \/ \E i \in Items : Edit(i)
             \/ Boot
             \/ \E r \in Releases, s \in Statuses : Qualify(r, s)
             \/ UNCHANGED vars
    <2>1. CASE \E i \in Items : Edit(i)
      BY <2>1 DEF Edit, amigaVars, AloneInv, JobsAreAFunction, Busy
    <2>2. CASE Boot
      BY <2>2 DEF Boot, mysticVars, AloneInv, JobsAreAFunction, Busy
    <2>3. CASE (\E r \in Releases, s \in Statuses : Qualify(r, s)) \/ UNCHANGED vars
      BY <2>3 DEF Qualify, vars, mysticVars, amigaVars, AloneInv, JobsAreAFunction, Busy
    <2> QED BY <1>8, <2>1, <2>2, <2>3
  <1> HIDE DEF Quiet
  <1> QED BY <1>1, <1>2, <1>3, <1>4, <1>5, <1>6, <1>7, <1>8 DEF Next, Work

\* Installers that do not overlap never touch what the BBS has made of its
\* living data, for any number of items and releases, failures and crashes.
THEOREM LivingDataIsKept == Spec => LivingDataKept
  <1> DEFINE Kept == ~overlapped' =>
                        /\ \A i \in Items : live[i] = "edited" => live'[i] = "edited"
                        /\ working = "living" => working' = "living"
  <1>1. Init => AloneInv
    <2> SUFFICES ASSUME Init PROVE AloneInv
      OBVIOUS
    <2>1. JobsAreAFunction /\ live = [i \in Items |-> live[i]]
      BY DEF Init, JobsAreAFunction
    <2>2. overlapped \in BOOLEAN /\ \A p \in Installers : job[p].at = "idle"
      BY DEF Init, Idle
    <2> QED BY <2>1, <2>2 DEF AloneInv, Busy
  <1>2. ASSUME AloneInv, Next PROVE Kept
    <2>1. ASSUME NEW p \in Installers, Place(p) PROVE Kept
      BY <1>2, <2>1, IntegrationsAssumption DEF Place, Continue, AloneInv, amigaVars
    <2>2. ASSUME NEW p \in Installers, PublishWorking(p) PROVE Kept
      BY <1>2, <2>2 DEF PublishWorking, End, Continue, AloneInv, mysticVars
    <2>3. CASE \E i \in Items : Edit(i)
      BY <1>2, <2>3 DEF Edit, AloneInv, amigaVars
    <2>4. CASE Boot
      BY <2>4 DEF Boot, mysticVars
    <2>5. CASE \E r \in Releases, s \in Statuses : Qualify(r, s)
      BY <2>5 DEF Qualify, mysticVars, amigaVars
    <2>6. ASSUME NEW p \in Installers, Command(p) \/ Crash(p) PROVE Kept
      BY <2>6 DEF Command, InstallMystic, InstallAmiga, Promote, Rollback, Crash, mysticVars, amigaVars
    <2>7. ASSUME NEW p \in Installers,
                 \/ Stage(p) \/ PublishRelease(p) \/ Unlink(p) \/ Link(p) \/ Switch(p)
                 \/ CopyGolden(p) \/ CheckWorking(p) \/ WriteState(p) \/ ReplaceState(p)
                 \/ \E i \in Items : LookAt(p, i)
          PROVE  live' = live /\ working' = working
      BY <2>7 DEF Stage, LookAt, PublishRelease, Unlink, Link, Switch, CopyGolden, CheckWorking,
                  WriteState, ReplaceState, mysticVars, amigaVars
    <2> QED BY <1>2, <2>1, <2>2, <2>3, <2>4, <2>5, <2>6, <2>7 DEF Next, Work
  <1>3. AloneInv /\ [Next]_vars => [Kept]_vars
    BY <1>2
  <1> QED BY <1>1, <1>3, AloneStep, PTL DEF Spec, LivingDataKept
=============================================================================
