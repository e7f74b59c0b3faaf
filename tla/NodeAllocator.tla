--------------------------- MODULE NodeAllocator ----------------------------
(* The pool of DOS nodes (NodeAllocator of ubb_dos.py) and the sessions    *)
(* that use it.  Each method runs under the allocator's lock and is one    *)
(* step.  A session is told its node once and keeps the number after it    *)
(* has ended, so that its release may come late, or twice.                 *)
EXTENDS Naturals

CONSTANTS Callers,    \* DOS sessions; an identifier is used once
          Capacity,   \* nodes
          NoCaller

ASSUME CapacityAssumption == Capacity \in Nat \ {0} /\ NoCaller \notin Callers

VARIABLES allocated,  \* owner of each node, or NoCaller
          told,       \* node each session was given, 0 before
          life,       \* of each session: new, live, ended
          robbed      \* history: sessions whose node another one released

nodeVars == <<allocated, told, life, robbed>>

Nodes == 1..Capacity

NodeInit ==
  /\ allocated = [n \in Nodes |-> NoCaller]
  /\ told = [c \in Callers |-> 0]
  /\ life = [c \in Callers |-> "new"]
  /\ robbed = {}

Free == {n \in Nodes : allocated[n] = NoCaller}
Owned(c) == {n \in Nodes : allocated[n] = c}

(* allocate: the node the session has already, or the first free one.      *)
Allocate(c) ==
  /\ life[c] \in {"new", "live"}
  /\ \E n \in Nodes :
       /\ IF Owned(c) # {} THEN n \in Owned(c)
          ELSE n \in Free /\ \A k \in Free : n <= k
       /\ allocated' = [allocated EXCEPT ![n] = c]
       /\ told' = [told EXCEPT ![c] = n]
       /\ life' = [life EXCEPT ![c] = "live"]
       /\ robbed' = robbed \ {c}

FaultyReleased(c, named) == [allocated EXCEPT ![told[c]] = NoCaller]

(* release(node, session_id): a node that has another owner stays.         *)
(* release(node), with no session named, frees it whoever owns it.         *)
Released(c, named) ==
  IF named /\ allocated[told[c]] # c THEN allocated
  ELSE [allocated EXCEPT ![told[c]] = NoCaller]

Release(c, named) ==
  /\ life[c] \in {"live", "ended"}
  /\ allocated' = Released(c, named)
  /\ life' = [life EXCEPT ![c] = "ended"]
  /\ robbed' = robbed \cup {d \in Callers \ {c} : ~named /\ allocated[told[c]] = d}
  /\ UNCHANGED told

(* A session goes away without releasing its node.                         *)
Vanish(c) ==
  /\ life[c] = "live"
  /\ life' = [life EXCEPT ![c] = "ended"]
  /\ UNCHANGED <<allocated, told, robbed>>

(* recover_stale, called with the sessions that are live.                  *)
RecoverStale ==
  /\ allocated' = [n \in Nodes |->
                     IF allocated[n] \in {c \in Callers : life[c] = "live"}
                     THEN allocated[n] ELSE NoCaller]
  /\ UNCHANGED <<told, life, robbed>>

NodeNext ==
  \/ \E c \in Callers : \/ Allocate(c) \/ Vanish(c)
                       \/ \E named \in BOOLEAN : Release(c, named)
  \/ RecoverStale

NodeSpec == NodeInit /\ [][NodeNext]_nodeVars

-----------------------------------------------------------------------------
NodeTypeOK ==
  /\ allocated \in [Nodes -> Callers \cup {NoCaller}]
  /\ told \in [Callers -> 0..Capacity]
  /\ life \in [Callers -> {"new", "live", "ended"}]
  /\ robbed \subseteq Callers

(* Two live sessions never run on one DOS node, however late or often the  *)
(* releases of the sessions before them arrive and whenever stale nodes    *)
(* are recovered.  Only a release that names no session can bring them     *)
(* together: it takes the node from its owner, who is not told and keeps   *)
(* using it until it asks for a node again.                                *)
NodeExclusive ==
  \A c, d \in Callers :
    life[c] = "live" /\ life[d] = "live" /\ c # d /\ told[c] = told[d]
      => c \in robbed \/ d \in robbed
=============================================================================
