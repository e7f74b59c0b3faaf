--------------------------- MODULE RuntimeProofs ---------------------------
(* The process adapter, for any process ids and any number of processes,   *)
(* deaths of the supervisor and lost descriptors.                          *)
EXTENDS Runtime, TLAPS

(* The start ticks of an identity are those of at most one process, a      *)
(* runtime with the id that the identity names.                            *)
SoundIn(id, table, count) ==
    id.ticks # None =>
        /\ id.pid \in Pids /\ id.ticks < count
        /\ \A p \in Pids : table[p] # None /\ table[p].ticks = id.ticks
                              => p = id.pid /\ table[p].kind = "runtime"
Sound(id) == SoundIn(id, procs, births)

(* The live runtime p is the one that status() would ask about.            *)
KnownAs(p) ==
    IF own # Nobody THEN own.pid = p /\ own.ticks = procs[p].ticks
                    ELSE record.pid = p /\ record.ticks = procs[p].ticks

(* The victim of a stop in progress is the process looked at.  A child is  *)
(* in the table until it is polled; an adopted one may have left its id to *)
(* a process that was created since.                                       *)
Victim ==
    /\ victim \in Pids
    /\ victim = IF own # Nobody THEN own.pid ELSE record.pid
    /\ own # Nobody => procs[victim] # None /\ procs[victim].ticks = own.ticks
    /\ own = Nobody /\ procs[victim] # None =>
          procs[victim].ticks >= since \/ procs[victim].kind = "runtime"

IdentityInv ==
    /\ TypeOK
    /\ since <= births
    /\ \A p \in Pids : procs[p] # None => procs[p].ticks < births
    /\ Sound(own) /\ Sound(record) /\ Sound(saved)
    /\ own # Nobody => own.pid \in Pids /\ own.ticks \in Nat
    /\ own # Nobody => record.pid = own.pid /\ record.ticks \in {own.ticks, None}
    /\ own = Nobody => record \in {saved, Nobody}
    /\ crashes = 0 => orphans = {} /\ (own = Nobody => record = Nobody)
    /\ master # None => own.ticks = master
    /\ \A p \in Pids :
          procs[p] # None /\ procs[p].kind = "runtime" /\ procs[p].state = "live" /\ procs[p].ticks \notin orphans
              => KnownAs(p)
    /\ at \in {"term", "poll", "kill"} => Victim

(* At first there is no process and no record.                             *)
LEMMA IdentityInit == Init => IdentityInv
  BY RuntimeAssumption DEF Init, IdentityInv, TypeOK, Identity, Nobody, Sound, SoundIn

(* poll() removes the zombie of the child and nobody else.                 *)
LEMMA ReapedRest ==
  ASSUME TypeOK
  PROVE  /\ Reaped \in [Pids -> Process \cup {None}]
         /\ \A p \in Pids : Reaped[p] \in {procs[p], None}
         /\ \A p \in Pids : procs[p] # None /\ procs[p].state # "zombie" => Reaped[p] = procs[p]
  BY RuntimeAssumption DEF TypeOK, Reaped, Child, Exists

(* A runtime that the adapter knows is found alive, or it is an adopted    *)
(* one that cannot be proven.                                              *)
LEMMA AliveKnown ==
  ASSUME IdentityInv, NEW p \in Pids, procs[p] # None, procs[p].state # "zombie", KnownAs(p), ~Alive
  PROVE  procs[p].ticks \in Disowned
  BY RuntimeAssumption
  DEF IdentityInv, TypeOK, KnownAs, Alive, Disowned, Proven, Same, Running, Exists, Process, Nobody

(* Only a process with start ticks is disowned, and before the first death *)
(* of the supervisor there is none.                                        *)
LEMMA DisownedRest ==
  ASSUME IdentityInv
  PROVE  /\ Disowned \subseteq Nat
         /\ crashes = 0 => Disowned = {}
  BY RuntimeAssumption DEF IdentityInv, TypeOK, Identity, Disowned, Same, Nobody

(* A step in which processes only get older: nobody is created, and a      *)
(* process that is not live does not come back to life.                    *)
Ages ==
    /\ births' = births
    /\ procs' \in [Pids -> Process \cup {None}]
    /\ \A p \in Pids : procs'[p] # None =>
          /\ procs[p] # None /\ procs'[p].ticks = procs[p].ticks /\ procs'[p].kind = procs[p].kind
          /\ procs'[p].state = "live" => procs[p].state = "live"
          /\ procs[p].state = "zombie" => procs'[p].state = "zombie"

(* An identity stays sound while processes get older, and when one with    *)
(* new start ticks is created.                                             *)
LEMMA SoundKept ==
  ASSUME NEW id \in Identity, Sound(id), TypeOK,
         Ages \/ \E q \in Pids : /\ births' = births + 1 /\ procs'[q].ticks = births
                                 /\ \A p \in Pids \ {q} : procs'[p] \in {procs[p], None}
  PROVE  SoundIn(id, procs', births')
  BY RuntimeAssumption DEF Sound, SoundIn, Ages, TypeOK, Identity

(* The parts of the invariant that getting older cannot disturb, for a     *)
(* step that keeps what the adapter knows.                                 *)
LEMMA AgesRest ==
  ASSUME IdentityInv, Ages, TypeOK', UNCHANGED <<own, record, master, orphans, since, crashes>>,
         saved' \in {saved, record}, at' \in {"term", "poll", "kill"} => Victim'
  PROVE  IdentityInv'
  <1>1. Sound(own)' /\ Sound(record)' /\ Sound(saved)'
    BY SoundKept DEF IdentityInv, Sound, TypeOK
  <1>2. since' <= births' /\ \A p \in Pids : procs'[p] # None => procs'[p].ticks < births'
    BY DEF IdentityInv, Ages
  <1>3. /\ own' # Nobody => own'.pid \in Pids /\ own'.ticks \in Nat
        /\ own' # Nobody => record'.pid = own'.pid /\ record'.ticks \in {own'.ticks, None}
        /\ own' = Nobody => record' \in {saved', Nobody}
        /\ crashes' = 0 => orphans' = {} /\ (own' = Nobody => record' = Nobody)
        /\ master' # None => own'.ticks = master'
    BY DEF IdentityInv
  <1>5. \A p \in Pids :
          procs'[p] # None /\ procs'[p].kind = "runtime" /\ procs'[p].state = "live" /\ procs'[p].ticks \notin orphans'
              => KnownAs(p)'
    BY DEF IdentityInv, Ages, KnownAs
  <1> QED BY <1>1, <1>2, <1>3, <1>5 DEF IdentityInv

(* cleanup() is called when the runtime is gone, is not live any more or   *)
(* cannot be proven: no other live runtime is forgotten.                   *)
LEMMA CleanupKeeps ==
  ASSUME IdentityInv, Ages, TypeOK', Cleanup, UNCHANGED <<saved, crashes>>, at' = "save",
         since' \in {since, births}, orphans' \in {orphans, orphans \cup Disowned},
         \A p \in Pids : procs'[p] # None /\ procs'[p].kind = "runtime" /\ procs'[p].state = "live"
                              => ~KnownAs(p) \/ procs'[p].ticks \in orphans'
  PROVE  IdentityInv'
  <1>1. own' = Nobody /\ record' = Nobody /\ master' = None
    BY DEF Cleanup
  <1>2. Sound(own)' /\ Sound(record)' /\ Sound(saved)'
    BY <1>1, SoundKept DEF IdentityInv, Sound, SoundIn, TypeOK, Nobody
  <1>3. since' <= births' /\ \A p \in Pids : procs'[p] # None => procs'[p].ticks < births'
    BY DEF IdentityInv, Ages, TypeOK
  <1>4. \A p \in Pids : procs'[p] # None /\ procs'[p].kind = "runtime" /\ procs'[p].state = "live"
            => procs'[p].ticks \in orphans'
    BY DEF IdentityInv, Ages
  <1>5. crashes' = 0 => orphans' = {}
    BY DisownedRest DEF IdentityInv
  <1> QED BY <1>1, <1>2, <1>3, <1>4, <1>5 DEF IdentityInv

(* A process that the adapter sees as dead is not a live runtime it knows, *)
(* unless it is disowned.                                                  *)
LEMMA DeadIsUnknown ==
  ASSUME IdentityInv, ~Alive, Ages
  PROVE  \A p \in Pids : procs'[p] # None /\ procs'[p].kind = "runtime" /\ procs'[p].state = "live"
                              => ~KnownAs(p) \/ procs'[p].ticks \in Disowned
  BY AliveKnown DEF Ages

(* Every step keeps the invariant.                                         *)
LEMMA IdentityStep == IdentityInv /\ [Next]_vars => IdentityInv'
  <1> SUFFICES ASSUME IdentityInv, [Next]_vars PROVE IdentityInv'
    OBVIOUS
  <1>t. TypeOK
    BY DEF IdentityInv
  <1>r. procs' = Reaped /\ births' = births => Ages
    BY <1>t, ReapedRest DEF Ages
  <1>u. UNCHANGED <<procs, births>> => Ages
    BY <1>t DEF Ages, TypeOK
  <1>n. Nobody \in Identity
    BY DEF Nobody, Identity
  <1>d. Disowned \subseteq Nat /\ (crashes = 0 => Disowned = {})
    BY DisownedRest
  <1>1. ASSUME NEW q \in Pids, NEW image \in {"readable", "unreadable", "exited"}, Spawn(q, image)
        PROVE  IdentityInv'
    <2>1. births \in Nat /\ births' \in 0 .. MaxBirths
      BY <1>1, <1>t, RuntimeAssumption DEF Spawn, TypeOK
    <2>2. /\ procs' \in [Pids -> Process \cup {None}]
          /\ procs'[q] # None /\ procs'[q].ticks = births /\ procs'[q].kind = "runtime"
          /\ \A p \in Pids \ {q} : procs'[p] = Reaped[p]
      BY <1>1, <1>t, <2>1, ReapedRest, RuntimeAssumption DEF Spawn, Process
    <2>3. \A p \in Pids \ {q} : procs'[p] # None => procs'[p] = procs[p] /\ procs[p].ticks < births
      BY <2>2, <1>t, ReapedRest DEF IdentityInv
    <2>4. own' \in Identity /\ record' \in Identity
      BY <1>1, <2>1 DEF Spawn, Identity
    <2>5. TypeOK'
      BY <1>1, <1>t, <1>d, <2>1, <2>2, <2>4 DEF Spawn, TypeOK
    <2>6. SoundIn(own', procs', births') /\ SoundIn(record', procs', births')
      BY <1>1, <2>1, <2>2, <2>3 DEF Spawn, SoundIn
    <2>7. SoundIn(saved, procs', births')
      BY <1>1, <1>t, <2>2, <2>3, SoundKept DEF Spawn, IdentityInv, TypeOK
    <2>8. \A p \in Pids \ {q} :
            procs'[p] # None /\ procs'[p].kind = "runtime" /\ procs'[p].state = "live" => procs'[p].ticks \in orphans'
      BY <1>1, <2>3, AliveKnown DEF Spawn, IdentityInv
    <2>9. own' # Nobody /\ own'.pid = q /\ own'.ticks = births /\ record'.pid = q /\ master' = births
      BY <1>1, RuntimeAssumption DEF Spawn, Nobody
    <2>10. record'.ticks \in {births, None}
      BY <1>1 DEF Spawn
    <2>11. UNCHANGED <<saved, since, crashes>> /\ at' = "ready" /\ births' = births + 1
      BY <1>1 DEF Spawn
    <2>12. crashes' = 0 => orphans' = {}
      BY <1>1, <1>d DEF Spawn, IdentityInv
    <2>13. \A p \in Pids :
             procs'[p] # None /\ procs'[p].kind = "runtime" /\ procs'[p].state = "live" /\ procs'[p].ticks \notin orphans'
               => KnownAs(p)'
      BY <2>2, <2>8, <2>9 DEF KnownAs
    <2>14. since' <= births' /\ \A p \in Pids : procs'[p] # None => procs'[p].ticks < births'
      <3>1. \A p \in Pids : procs'[p] # None => procs'[p].ticks \in Nat /\ procs'[p].ticks <= births
        BY <2>1, <2>2, <2>3 DEF Process
      <3> QED BY <2>1, <2>11, <3>1, <1>t DEF IdentityInv, TypeOK
    <2>15. /\ own' # Nobody => own'.pid \in Pids /\ own'.ticks \in Nat
           /\ own' # Nobody => record'.pid = own'.pid /\ record'.ticks \in {own'.ticks, None}
           /\ own' = Nobody => record' \in {saved', Nobody}
           /\ crashes' = 0 => orphans' = {} /\ (own' = Nobody => record' = Nobody)
           /\ master' # None => own'.ticks = master'
      BY <2>1, <2>9, <2>10, <2>12
    <2> QED BY <2>5, <2>6, <2>7, <2>11, <2>13, <2>14, <2>15 DEF IdentityInv, Sound
  <1>2. CASE SpawnFails
    <2>1. TypeOK'
      BY <1>2, <1>t, <1>r DEF SpawnFails, TypeOK, adapter, observed, Ages
    <2> QED BY <1>2, <2>1, <1>r, AgesRest DEF SpawnFails, adapter, observed
  <1>3. CASE BecomesReady
    <2>1. TypeOK'
      BY <1>3, <1>t DEF BecomesReady, TypeOK, adapter, observed
    <2> QED BY <1>3, <2>1, <1>u, AgesRest DEF BecomesReady, adapter, observed
  <1>4. CASE Stop
    <2>1. Ages
      BY <1>4, <1>r DEF Stop
    <2>2. ASSUME Alive PROVE IdentityInv'
      <3>1. /\ UNCHANGED <<own, master, leaked, record, saved, orphans, hit, crashes, births>> /\ at' = "term" /\ since' = births
            /\ victim' = IF own # Nobody THEN own.pid ELSE record.pid
        BY <1>4, <2>2 DEF Stop, adapter
      <3>2. /\ victim' \in Pids /\ procs[victim'] # None /\ procs[victim'].state # "zombie"
            /\ procs[victim'].ticks = IF own # Nobody THEN own.ticks ELSE record.ticks
        BY <2>2, <3>1, <1>t DEF Alive, Proven, Same, Running, Exists, TypeOK, Identity
      <3>3. procs'[victim'] = procs[victim']
        BY <1>4, <1>t, <3>2, ReapedRest DEF Stop
      <3>4. procs[victim'].kind = "runtime"
        BY <2>2, <3>1, <3>2 DEF IdentityInv, Sound, SoundIn, Alive, Proven, Same
      <3>5. TypeOK'
        BY <2>1, <3>1, <3>2, <1>t DEF TypeOK, Ages
      <3>6. Victim'
        BY <3>1, <3>2, <3>3, <3>4 DEF Victim
      <3>7. Sound(own)' /\ Sound(record)' /\ Sound(saved)'
        BY <2>1, <3>1, SoundKept, <1>t DEF IdentityInv, Sound, TypeOK
      <3>8. since' <= births' /\ \A p \in Pids : procs'[p] # None => procs'[p].ticks < births'
        BY <2>1, <3>1, <1>t DEF IdentityInv, Ages, TypeOK
      <3>10. \A p \in Pids :
              procs'[p] # None /\ procs'[p].kind = "runtime" /\ procs'[p].state = "live" /\ procs'[p].ticks \notin orphans'
                => KnownAs(p)'
        BY <2>1, <3>1 DEF IdentityInv, Ages, KnownAs
      <3>11. /\ own' # Nobody => own'.pid \in Pids /\ own'.ticks \in Nat
             /\ own' # Nobody => record'.pid = own'.pid /\ record'.ticks \in {own'.ticks, None}
             /\ own' = Nobody => record' \in {saved', Nobody}
             /\ crashes' = 0 => orphans' = {} /\ (own' = Nobody => record' = Nobody)
             /\ master' # None => own'.ticks = master'
        BY <3>1 DEF IdentityInv
      <3> QED BY <3>5, <3>6, <3>7, <3>8, <3>10, <3>11 DEF IdentityInv
    <2>3. ASSUME ~Alive PROVE IdentityInv'
      <3>1. /\ Cleanup /\ at' = "save" /\ since' = births
            /\ UNCHANGED <<victim, births, saved, hit, crashes>>
            /\ orphans' = orphans \cup Disowned
        BY <1>4, <2>3 DEF Stop
      <3>2. TypeOK'
        BY <2>1, <3>1, <1>t, <1>n, <1>d DEF TypeOK, Ages, Cleanup
      <3> QED BY <2>1, <2>3, <3>1, <3>2, CleanupKeeps, DeadIsUnknown
    <2> QED BY <2>2, <2>3
  <1>5. ASSUME Gone, UNCHANGED <<births, saved, victim, since, hit, crashes>> PROVE IdentityInv'
    <2>1. Ages
      BY <1>5, <1>r DEF Gone
    <2>2. TypeOK'
      BY <1>5, <2>1, <1>t, <1>n, <1>d DEF TypeOK, Ages, Gone, Cleanup
    <2> QED BY <1>5, <2>1, <2>2, CleanupKeeps, DeadIsUnknown DEF Gone
  <1>6. ASSUME UNCHANGED <<procs, births, adapter, saved, victim, since, orphans, crashes>>,
               <<at, at'>> \in {<<"term", "poll">>, <<"poll", "kill">>, <<"wait", "save">>},
               hit' \in Process \cup {None}
        PROVE  IdentityInv'
    <2>1. TypeOK'
      BY <1>6, <1>t DEF TypeOK, adapter
    <2>2. at' \in {"term", "poll", "kill"} => Victim'
      BY <1>6 DEF IdentityInv, Victim, adapter
    <2> QED BY <1>6, <2>1, <2>2, <1>u, AgesRest DEF adapter
  <1>7. CASE Kill
    <2>1. Victim
      BY <1>7 DEF Kill, IdentityInv
    <2>2. Ages
      <3>1. ASSUME Running(victim) PROVE Ages
        <4>1. procs[victim] \in Process /\ procs[victim].state # "zombie"
          BY <2>1, <3>1, <1>t DEF Running, Exists, TypeOK, Victim
        <4>2. procs' = [procs EXCEPT ![victim] = [procs[victim] EXCEPT !.state = "dying"]] /\ births' = births
          BY <1>7, <3>1 DEF Kill
        <4>3. [procs[victim] EXCEPT !.state = "dying"] \in Process
          BY <4>1 DEF Process
        <4>4. procs'[victim] = [procs[victim] EXCEPT !.state = "dying"] /\ \A p \in Pids \ {victim} : procs'[p] = procs[p]
          BY <2>1, <4>2, <1>t DEF TypeOK, Victim
        <4> QED BY <2>1, <4>1, <4>2, <4>3, <4>4, <1>t, RuntimeAssumption DEF Ages, TypeOK, Process, Victim
      <3>2. CASE ~Running(victim)
        BY <1>7, <3>2, <1>u DEF Kill
      <3> QED BY <3>1, <3>2
    <2>3. procs'[victim] # None => procs'[victim].state # "live"
      <3>1. CASE Running(victim)
        BY <1>7, <2>1, <3>1, <1>t DEF Kill, TypeOK, Process, Victim
      <3>2. CASE ~Running(victim)
        BY <1>7, <2>1, <3>2, RuntimeAssumption DEF Kill, Running, Exists, Victim
      <3> QED BY <3>1, <3>2
    <2>4. hit' \in Process \cup {None}
      BY <1>7, <2>1, <1>t DEF Kill, TypeOK, Victim
    <2>5. CASE own # Nobody
      <3>1. at' = "wait" /\ UNCHANGED adapter
        BY <1>7, <2>5 DEF Kill
      <3>2. TypeOK'
        BY <1>7, <3>1, <2>2, <2>4, <1>t DEF Kill, TypeOK, Ages, adapter
      <3> QED BY <1>7, <3>1, <3>2, <2>2, AgesRest DEF Kill, adapter
    <2>6. CASE own = Nobody
      <3>1. at' = "save" /\ Cleanup
        BY <1>7, <2>6 DEF Kill
      <3>2. TypeOK'
        BY <1>7, <3>1, <2>2, <2>4, <1>t, <1>n DEF Kill, TypeOK, Ages, Cleanup
      <3>3. \A p \in Pids : procs'[p] # None /\ procs'[p].kind = "runtime" /\ procs'[p].state = "live" => ~KnownAs(p)
        BY <2>1, <2>3, <2>6 DEF Victim, KnownAs
      <3> QED BY <1>7, <3>1, <3>2, <3>3, <2>2, CleanupKeeps DEF Kill
    <2> QED BY <2>5, <2>6
  <1>8. CASE Save
    <2>1. TypeOK'
      BY <1>8, <1>t DEF Save, TypeOK, adapter, observed
    <2> QED BY <1>8, <2>1, <1>u, AgesRest DEF Save, adapter, observed
  <1>9. ASSUME NEW q \in Pids, Exit(q) PROVE IdentityInv'
    <2>1. procs[q] \in Process /\ procs[q].state # "zombie"
      BY <1>9, <1>t DEF Exit, Running, Exists, TypeOK
    <2>2. procs' = [procs EXCEPT ![q] = IF Child(q) THEN [@ EXCEPT !.state = "zombie"] ELSE None]
      BY <1>9 DEF Exit
    <2>3. procs'[q] = (IF Child(q) THEN [procs[q] EXCEPT !.state = "zombie"] ELSE None)
          /\ \A p \in Pids \ {q} : procs'[p] = procs[p]
      BY <2>2, <1>t DEF TypeOK
    <2>4. Ages
      BY <1>9, <2>1, <2>2, <2>3, <1>t, RuntimeAssumption DEF Exit, Ages, TypeOK, Process
    <2>5. TypeOK'
      BY <1>9, <2>4, <1>t DEF Exit, Ages, TypeOK, adapter, observed
    <2>6. ASSUME Victim PROVE Victim'
      <3>1. own # Nobody => Child(victim)
        BY <2>6, RuntimeAssumption DEF Victim, Child, Exists
      <3>2. UNCHANGED <<own, record, victim, since>>
        BY <1>9 DEF Exit, adapter, observed
      <3>3. own # Nobody => procs'[victim] # None /\ procs'[victim].ticks = own.ticks
        BY <2>1, <2>3, <2>6, <3>1, RuntimeAssumption DEF Victim, Process
      <3> QED BY <2>4, <2>6, <3>2, <3>3 DEF Victim, Ages
    <2> QED BY <1>9, <2>4, <2>5, <2>6, AgesRest DEF Exit, adapter, observed, IdentityInv
  <1>10. ASSUME NEW q \in Pids, ForeignStart(q) PROVE IdentityInv'
    <2>1. births \in Nat /\ births' \in 0 .. MaxBirths /\ births' = births + 1
      BY <1>10, <1>t, RuntimeAssumption DEF ForeignStart, TypeOK
    <2>2. /\ procs' \in [Pids -> Process \cup {None}] /\ procs[q] = None
          /\ procs'[q] # None /\ procs'[q].ticks = births /\ procs'[q].kind = "foreign"
          /\ \A p \in Pids \ {q} : procs'[p] = procs[p]
      BY <1>10, <1>t, <2>1, RuntimeAssumption DEF ForeignStart, Process, TypeOK
    <2>3. UNCHANGED <<own, master, leaked, record, saved, at, victim, since, hit, orphans, crashes>>
      BY <1>10 DEF ForeignStart, adapter, observed
    <2>4. TypeOK'
      BY <1>t, <2>1, <2>2, <2>3 DEF TypeOK
    <2>5. Sound(own)' /\ Sound(record)' /\ Sound(saved)'
      BY <1>t, <2>1, <2>2, <2>3, SoundKept DEF IdentityInv, Sound, TypeOK
    <2>6. since' <= births' /\ \A p \in Pids : procs'[p] # None => procs'[p].ticks < births'
      <3>1. \A p \in Pids : procs'[p] # None => procs'[p].ticks \in Nat /\ procs'[p].ticks <= births
        BY <2>1, <2>2 DEF Process, IdentityInv
      <3> QED BY <2>1, <2>3, <3>1, <1>t DEF IdentityInv, TypeOK
    <2>8. \A p \in Pids :
            procs'[p] # None /\ procs'[p].kind = "runtime" /\ procs'[p].state = "live" /\ procs'[p].ticks \notin orphans'
              => KnownAs(p)'
      BY <2>2, <2>3 DEF IdentityInv, KnownAs
    <2>9. Victim => Victim'
      BY <2>1, <2>2, <2>3, <1>t DEF Victim, IdentityInv, TypeOK
    <2>10. /\ own' # Nobody => own'.pid \in Pids /\ own'.ticks \in Nat
           /\ own' # Nobody => record'.pid = own'.pid /\ record'.ticks \in {own'.ticks, None}
           /\ own' = Nobody => record' \in {saved', Nobody}
           /\ crashes' = 0 => orphans' = {} /\ (own' = Nobody => record' = Nobody)
           /\ master' # None => own'.ticks = master'
      BY <2>3 DEF IdentityInv
    <2> QED BY <2>3, <2>4, <2>5, <2>6, <2>8, <2>9, <2>10 DEF IdentityInv
  <1>11. CASE Crash
    <2>1. Ages
      BY <1>11, <1>r DEF Crash
    <2>2. /\ own' = Nobody /\ record' = saved /\ saved' = saved /\ master' = None /\ at' = "free" /\ since' = since
          /\ crashes' = crashes + 1 /\ crashes \in Nat
          /\ orphans' = IF Same(own) /\ saved # own THEN orphans \cup {own.ticks} ELSE orphans
      BY <1>11, <1>t, RuntimeAssumption DEF Crash, TypeOK
    <2>3. orphans \subseteq orphans' /\ orphans' \subseteq Nat
      BY <2>2, <1>t DEF Same, TypeOK, Identity
    <2>4. TypeOK'
      BY <1>11, <2>1, <2>2, <2>3, <1>t, <1>n, RuntimeAssumption DEF Crash, Ages, TypeOK
    <2>5. Sound(own)' /\ Sound(record)' /\ Sound(saved)'
      BY <1>t, <2>1, <2>2, SoundKept DEF IdentityInv, Sound, SoundIn, TypeOK, Nobody
    <2>6. since' <= births' /\ \A p \in Pids : procs'[p] # None => procs'[p].ticks < births'
      BY <2>1, <2>2 DEF IdentityInv, Ages
    <2>7. ASSUME NEW p \in Pids, procs'[p] # None, procs'[p].kind = "runtime", procs'[p].state = "live",
                 procs'[p].ticks \notin orphans'
          PROVE  saved.pid = p /\ saved.ticks = procs'[p].ticks
      <3>1. /\ procs[p] # None /\ procs[p].kind = "runtime" /\ procs[p].state = "live"
            /\ procs[p].ticks = procs'[p].ticks /\ KnownAs(p)
        BY <2>1, <2>3, <2>7 DEF Ages, IdentityInv
      <3>2. CASE own # Nobody
        <4>1. own.pid = p /\ own.ticks = procs[p].ticks /\ Same(own)
          BY <3>1, <3>2, <1>t, RuntimeAssumption DEF KnownAs, Same, Running, Exists, IdentityInv
        <4>2. saved = own
          BY <2>2, <2>7, <3>1, <4>1
        <4> QED BY <3>1, <4>1, <4>2
      <3>3. CASE own = Nobody
        <4>1. record.pid = p /\ record.ticks = procs[p].ticks
          BY <3>1, <3>3 DEF KnownAs
        <4>2. record = saved
          BY <3>3, <4>1, RuntimeAssumption DEF IdentityInv, Nobody
        <4> QED BY <3>1, <4>1, <4>2
      <3> QED BY <3>2, <3>3
    <2> QED BY <2>2, <2>4, <2>5, <2>6, <2>7 DEF IdentityInv, KnownAs
  <1>12. CASE UNCHANGED vars
    <2>1. TypeOK' /\ (Victim => Victim')
      BY <1>12, <1>t DEF vars, TypeOK, adapter, observed, Victim
    <2> QED BY <1>12, <2>1, <1>u, AgesRest DEF vars, adapter, observed, IdentityInv
  <1>13. CASE Terminate
    <2>1. hit' \in Process \cup {None}
      BY <1>13, <1>t DEF Terminate, IdentityInv, Victim, TypeOK
    <2> QED BY <1>6, <1>13, <2>1 DEF Terminate
  <1>14. CASE Poll \/ Wait
    BY <1>5, <1>6, <1>14, <1>t DEF Poll, Wait, TypeOK
  <1>15. ASSUME NEW q \in Pids, Execs(q) PROVE IdentityInv'
    <2>1. procs[q] \in Process
      BY <1>15, <1>t DEF Execs, Running, Exists, TypeOK
    <2>2. PICK e \in {"first", "other"} : procs' = [procs EXCEPT ![q] = [procs[q] EXCEPT !.exe = e]]
      BY <1>15 DEF Execs
    <2>3. [procs[q] EXCEPT !.exe = e] \in Process
      BY <2>1, <2>2 DEF Process
    <2>4. procs'[q] = [procs[q] EXCEPT !.exe = e] /\ \A p \in Pids \ {q} : procs'[p] = procs[p]
      BY <2>2, <1>t DEF TypeOK
    <2>5. /\ procs'[q] # None /\ procs[q] # None /\ procs'[q].ticks = procs[q].ticks
          /\ procs'[q].kind = procs[q].kind /\ procs'[q].state = procs[q].state
      BY <2>1, <2>3, <2>4, RuntimeAssumption DEF Process
    <2>6. Ages
      BY <1>15, <2>2, <2>3, <2>4, <2>5, <1>t DEF Ages, TypeOK, Execs
    <2>7. TypeOK' /\ UNCHANGED <<own, record, master, orphans, since, crashes, saved, at, victim>>
      BY <1>15, <2>6, <1>t DEF Execs, Ages, TypeOK, adapter, observed
    <2>8. Victim => Victim'
      BY <2>4, <2>5, <2>7 DEF Victim
    <2> QED BY <2>6, <2>7, <2>8, AgesRest DEF IdentityInv
  <1> QED BY <1>1, <1>2, <1>3, <1>4, <1>7, <1>8, <1>9, <1>10, <1>11, <1>12, <1>13, <1>14, <1>15 DEF Next, Work

(* Every variable of the adapter keeps its type.                           *)
THEOREM RuntimeTypes == Spec => []TypeOK
  <1>1. IdentityInv => TypeOK
    BY DEF IdentityInv
  <1> QED BY <1>1, IdentityInit, IdentityStep, PTL DEF Spec

(* No second runtime is spawned beside a live one.  It takes a death of    *)
(* the supervisor to lose a live runtime: at the crash, with no identity   *)
(* of it in the state file, or later, when start() or stop() finds the     *)
(* adopted process with another executable than recorded.                  *)
THEOREM RuntimeIsAlone == Spec => []OneRuntime
  <1>1. IdentityInv => OneRuntime
    <2> SUFFICES ASSUME IdentityInv, NEW p \in Pids, NEW q \in Pids, p # q, Exists(p), Exists(q)
                 PROVE  \E r \in {p, q} : \/ procs[r].kind = "foreign" \/ procs[r].state # "live"
                                          \/ crashes > 0 /\ procs[r].ticks \in orphans
      BY DEF OneRuntime
    <2>1. procs[p] \in Process /\ procs[q] \in Process
      BY DEF Exists, IdentityInv, TypeOK
    <2>2. crashes = 0 => orphans = {}
      BY DEF IdentityInv
    <2>3. crashes \in Nat
      BY RuntimeAssumption DEF IdentityInv, TypeOK
    <2> QED BY <2>1, <2>2, <2>3 DEF IdentityInv, KnownAs, Exists, Process
  <1> QED BY <1>1, IdentityInit, IdentityStep, PTL DEF Spec

(* A caller is never connected to the terminal of an earlier runtime.      *)
THEOREM TerminalsAreCurrent == Spec => []TerminalIsCurrent
  <1>1. IdentityInv => TerminalIsCurrent
    BY DEF IdentityInv, TerminalIsCurrent
  <1> QED BY <1>1, IdentityInit, IdentityStep, PTL DEF Spec

(* stop() signals the runtime it proved, or a process that took the id of  *)
(* an adopted one since: never a stranger that merely has the recorded id. *)
THEOREM SignalsFailClosed == Spec => FailsClosed
  <1> DEFINE Hits == hit' # hit /\ hit' # None =>
                        hit'.kind = "runtime" \/ (own = Nobody /\ hit'.ticks >= since)
  <1>1. IdentityInv /\ [Next]_vars => [Hits]_vars
    <2> SUFFICES ASSUME IdentityInv, Next, hit' # hit, hit' # None
                 PROVE  hit'.kind = "runtime" \/ (own = Nobody /\ hit'.ticks >= since)
      BY DEF vars
    <2>1. Terminate \/ Kill
      BY DEF Next, Work, Spawn, SpawnFails, Stop, Poll, Wait, Save, BecomesReady, Exit, Execs, ForeignStart, Crash, observed
    <2>2. Victim /\ hit' = procs[victim]
      BY <2>1 DEF Terminate, Kill, IdentityInv
    <2>3. own # Nobody => procs[victim].kind = "runtime"
      BY <2>2, RuntimeAssumption DEF Victim, IdentityInv, Sound, SoundIn
    <2> QED BY <2>2, <2>3 DEF Victim
  <1> QED BY <1>1, IdentityInit, IdentityStep, PTL DEF Spec, FailsClosed
=============================================================================
