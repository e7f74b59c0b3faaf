------------------------------- MODULE Router -------------------------------
(***************************************************************************)
(* The session router (scripts/ubb_router/router.py): opening a session    *)
(* for a route request, handing a caller over from one service to another, *)
(* closing, and the hold each session has in the supervisor.               *)
(*                                                                         *)
(* Each session has a lock.  open_session keeps it while the session is    *)
(* being set up (call[s] = "open"), close_session keeps it from the first  *)
(* change to the last, so that a close is one step, and nobody keeps the   *)
(* lock of a parent while its child is opened.  A thread that is between   *)
(* two critical sections is remembered in call (the end of a handoff) or   *)
(* in restoring (the end of a close).                                      *)
(*                                                                         *)
(* The supervisor appears as the references it has handed out, with the    *)
(* steps of SessionLedger: acquire_session may grant one or raise,         *)
(* release_session raises for a reference it does not know, and a forced   *)
(* stop or a restart of the service drops them all.                        *)
(***************************************************************************)
EXTENDS Naturals, FiniteSets

CONSTANTS
    Sessions,     \* identities id_factory can produce
    Services,     \* the services of the registry
    Menu,         \* services that a caller may reach directly
    Via,          \* for every service, the services it may be reached from
    SingleUse,    \* services with sharing = "single_session"
    MaxForced,    \* bound: forced stops of services that have sessions
    NoSession, NoService

ASSUME RouterAssumption ==
    /\ IsFiniteSet(Sessions)
    /\ Menu \subseteq Services
    /\ Via \in [Services -> SUBSET Services]
    /\ SingleUse \subseteq Services
    /\ MaxForced \in Nat
    /\ NoSession \notin Sessions /\ NoService \notin Services

VARIABLES
    state, target, origin, parent, mode,   \* Session
    stream, held, released,                \* its stream and its hold
    call, restoring,                       \* threads between two locks
    refs, forced                           \* the supervisor

sessionVars == <<state, target, origin, parent, mode>>
holdVars == <<held, released, refs>>
vars == <<sessionVars, stream, holdVars, call, restoring, forced>>

-----------------------------------------------------------------------------
SessionStates ==
    {"created", "authorizing", "acquiring", "connecting", "active", "handing_off",
     "closed", "failed"}

(* TRANSITIONS, with the passage through closing, which nobody can see,    *)
(* folded into the edges of its neighbours.                                *)
Transitions ==
    [created     |-> {"authorizing", "failed"},
     authorizing |-> {"acquiring", "failed"},
     acquiring   |-> {"connecting", "failed"},
     connecting  |-> {"active", "failed"},
     active      |-> {"handing_off", "closed", "failed"},
     handing_off |-> {"active", "closed", "failed"},
     failed      |-> {"closed", "failed"},
     closed      |-> {}]

OpenStates == {"active", "handing_off"}
Registered == {s \in Sessions : state[s] # "unborn"}

(* Every variable keeps its type, and only a session that has a parent has *)
(* one to restore.                                                         *)
TypeOK ==
    /\ state \in [Sessions -> SessionStates \cup {"unborn"}]
    /\ target \in [Sessions -> Services \cup {NoService}]
    /\ origin \in [Sessions -> Services \cup {NoService}]
    /\ parent \in [Sessions -> Sessions \cup {NoSession}]
    /\ mode \in [Sessions -> {"none", "replace", "return_to_origin"}]
    /\ stream \in [Sessions -> {"none", "open", "closed"}]
    /\ held \in SUBSET Sessions /\ released \in SUBSET Sessions
    /\ call \in [Sessions -> {"none", "open", "opened", "failed"}]
    /\ restoring \in SUBSET {c \in Sessions : parent[c] \in Sessions}
    /\ refs \in [Services -> SUBSET Sessions]
    /\ forced \in 0 .. MaxForced

Init ==
    /\ state = [s \in Sessions |-> "unborn"]
    /\ target = [s \in Sessions |-> NoService] /\ origin = [s \in Sessions |-> NoService]
    /\ parent = [s \in Sessions |-> NoSession] /\ mode = [s \in Sessions |-> "none"]
    /\ stream = [s \in Sessions |-> "none"] /\ held = {} /\ released = {}
    /\ call = [s \in Sessions |-> "none"] /\ restoring = {}
    /\ refs = [v \in Services |-> {}] /\ forced = 0

-----------------------------------------------------------------------------
(* The supervisor, as the router uses it.                                  *)

MayAcquire(v) == v \in SingleUse => refs[v] = {}

(* stop with force, or restart: every reference of the service is gone.    *)
ForceStop(v) ==
    /\ forced < MaxForced /\ refs[v] # {}
    /\ refs' = [refs EXCEPT ![v] = {}] /\ forced' = forced + 1
    /\ UNCHANGED <<sessionVars, stream, held, released, call, restoring>>

(* _release_hold.  The supervisor raises for a reference it has dropped;   *)
(* the session then still counts as holding.                               *)
(* The faulty variants, which the specification does not use, forget the   *)
(* hold of a session that fails to connect, or release by service.         *)
FaultyReleaseDue(s) == s \in held /\ s \notin released /\ state[s] # "connecting"
ReleaseDue(s) == s \in held /\ s \notin released
ReleaseRaises(s) == ReleaseDue(s) /\ s \notin refs[target[s]]
ReleaseHold(s) ==
    LET given == IF ReleaseDue(s) /\ ~ReleaseRaises(s) THEN {s} ELSE {}
    IN  /\ released' = released \cup given
        /\ refs' = [v \in Services |-> refs[v] \ given]
        /\ UNCHANGED held

-----------------------------------------------------------------------------
(* open_session.                                                           *)

(* _register: v is the target, o the claimed origin (none for a direct     *)
(* route), p the parent session named in the request.                      *)
Register(s, v, o, p, m) ==
    /\ state[s] = "unborn"
    /\ target' = [target EXCEPT ![s] = v] /\ origin' = [origin EXCEPT ![s] = o]
    /\ parent' = [parent EXCEPT ![s] = p] /\ mode' = [mode EXCEPT ![s] = m]

OpenSession(s, v, o, p) ==
    /\ Register(s, v, o, p, "none") /\ state' = [state EXCEPT ![s] = "created"]
    /\ UNCHANGED <<stream, holdVars, call, restoring, forced>>

(* The opener takes the lock of the new session.                           *)
OpenBegins(s) ==
    /\ state[s] = "created" /\ state' = [state EXCEPT ![s] = "authorizing"]
    /\ call' = [call EXCEPT ![s] = "open"]
    /\ UNCHANGED <<target, origin, parent, mode, stream, holdVars, restoring, forced>>

(* Where the opener is after open_session: back in handoff, or gone.  The  *)
(* faulty handoffs overlook that the open failed, or that it succeeded.    *)
FaultyAfterFailure(s, outcome) == IF mode[s] = "replace" THEN outcome ELSE "none"
AfterOpen(s, outcome) ==
    IF mode[s] = "replace" \/ (mode[s] = "return_to_origin" /\ outcome = "failed")
    THEN outcome ELSE "none"

(* The except branch: the hold is given back and the session has failed,   *)
(* or giving back raises and the session stays what it was.                *)
OpenFails(s) ==
    /\ ReleaseHold(s)
    /\ state' = IF ReleaseRaises(s) THEN state ELSE [state EXCEPT ![s] = "failed"]
    /\ call' = [call EXCEPT ![s] = AfterOpen(s, "failed")]
    /\ UNCHANGED <<target, origin, parent, mode, stream, restoring, forced>>

(* Nobody keeps the lock of s, where there is such a session.  A handoff   *)
(* that kept the lock of the parent would block every open from it in      *)
(* another thread; its own thread may take the lock, an RLock, again.      *)
FaultyFree(s) == s \in Sessions => call[s] # "open" /\ state[s] # "handing_off"
Free(s) == s \in Sessions => call[s] # "open"

(* _validate_origin: a claimed origin needs a parent session that is open  *)
(* and is connected to that very service.                                  *)
FaultyOriginOpen(s) ==
    origin[s] # NoService => parent[s] # NoSession /\ target[parent[s]] = origin[s]
OriginOpen(s) ==
    origin[s] # NoService =>
        /\ parent[s] # NoSession
        /\ state[parent[s]] \in OpenStates
        /\ target[parent[s]] = origin[s]

(* RoutePolicy.authorize.                                                  *)
Allowed(s) ==
    IF origin[s] = NoService THEN target[s] \in Menu ELSE origin[s] \in Via[target[s]]

(* The steps of the opener that holds the lock of s.                       *)
Opening(s, stage) == call[s] = "open" /\ state[s] = stage

Authorize(s) ==
    /\ Opening(s, "authorizing") /\ Free(parent[s]) /\ OriginOpen(s) /\ Allowed(s)
    /\ state' = [state EXCEPT ![s] = "acquiring"]
    /\ UNCHANGED <<target, origin, parent, mode, stream, holdVars, call, restoring, forced>>

Denied(s) ==
    /\ Opening(s, "authorizing") /\ Free(parent[s]) /\ ~(OriginOpen(s) /\ Allowed(s))
    /\ OpenFails(s)

AcquireHold(s) ==
    /\ Opening(s, "acquiring") /\ MayAcquire(target[s])
    /\ refs' = [refs EXCEPT ![target[s]] = @ \cup {s}] /\ held' = held \cup {s}
    /\ state' = [state EXCEPT ![s] = "connecting"]
    /\ UNCHANGED <<target, origin, parent, mode, stream, released, call, restoring, forced>>

(* acquire_session raises: the service is in use, or did not come up.      *)
AcquireRaises(s) == Opening(s, "acquiring") /\ OpenFails(s)

Connect(s) ==
    /\ Opening(s, "connecting") /\ stream' = [stream EXCEPT ![s] = "open"]
    /\ state' = [state EXCEPT ![s] = "active"]
    /\ call' = [call EXCEPT ![s] = AfterOpen(s, "opened")]
    /\ UNCHANGED <<target, origin, parent, mode, holdVars, restoring, forced>>

ConnectFails(s) == Opening(s, "connecting") /\ OpenFails(s)

-----------------------------------------------------------------------------
(* close_session, by a caller, or by read and write at the end of the      *)
(* stream or after an error.  Either cleanup may raise: the session has    *)
(* then failed, its parent is not looked at, and it may be closed again.   *)

Closable(s) == s \in Registered /\ "closed" \in Transitions[state[s]]

(* Whether closing s gives control back to a parent.                       *)
Returns(s) == mode[s] = "return_to_origin"

CloseSession(s, raised) ==
    LET error == raised \/ ReleaseRaises(s)
    IN  /\ Closable(s) /\ call[s] # "open" /\ (raised => stream[s] # "none")
        /\ stream' = [stream EXCEPT ![s] = IF @ = "none" THEN @ ELSE "closed"]
        /\ ReleaseHold(s)
        /\ state' = [state EXCEPT ![s] = IF error THEN "failed" ELSE "closed"]
        /\ restoring' = IF ~error /\ Returns(s)
                        THEN restoring \cup {s} ELSE restoring
        /\ UNCHANGED <<target, origin, parent, mode, forced>>

Close(s, raised) == CloseSession(s, raised) /\ UNCHANGED call

(* A parent that hands off is active again; any other state is left alone. *)
Reactivate(p) ==
    IF state[p] = "handing_off" THEN [state EXCEPT ![p] = "active"] ELSE state

(* _restore_parent, once the lock of the child has been given up.          *)
FaultyRestores(c) == c \in restoring /\ state[parent[c]] = "active"
Restores(c) == c \in restoring
RestoreParent(c) ==
    /\ Restores(c) /\ Free(parent[c]) /\ restoring' = restoring \ {c}
    /\ state' = Reactivate(parent[c])
    /\ UNCHANGED <<target, origin, parent, mode, stream, holdVars, call, forced>>

-----------------------------------------------------------------------------
(* handoff.                                                                *)

HandoffBegins(p, c, v, m) ==
    /\ state[p] = "active" /\ call[p] # "open" /\ Register(c, v, target[p], p, m)
    /\ state' = [state EXCEPT ![p] = "handing_off", ![c] = "created"]
    /\ UNCHANGED <<stream, holdVars, call, restoring, forced>>

(* The child could not be opened.                                          *)
HandoffFails(c) ==
    /\ call[c] = "failed" /\ Free(parent[c]) /\ call' = [call EXCEPT ![c] = "none"]
    /\ state' = Reactivate(parent[c])
    /\ UNCHANGED <<target, origin, parent, mode, stream, holdVars, restoring, forced>>

(* A replaced parent is closed, if that is still possible.                 *)
HandoffReplaces(c) ==
    /\ call[c] = "opened" /\ call' = [call EXCEPT ![c] = "none"]
    /\ \/ \E raised \in BOOLEAN : CloseSession(parent[c], raised)
       \/ ~Closable(parent[c]) /\ UNCHANGED <<sessionVars, stream, holdVars, restoring, forced>>

-----------------------------------------------------------------------------
OpenerStep(s) ==
    \/ OpenBegins(s) \/ Authorize(s) \/ Denied(s) \/ AcquireHold(s) \/ AcquireRaises(s)
    \/ Connect(s) \/ ConnectFails(s)
    \/ HandoffFails(s) \/ HandoffReplaces(s)

CallerStep ==
    \/ \E s \in Sessions, v \in Services :
          \/ OpenSession(s, v, NoService, NoSession)
          \/ \E o \in Services, p \in Registered \cup {NoSession} : OpenSession(s, v, o, p)
    \/ \E s \in Sessions, raised \in BOOLEAN : Close(s, raised)
    \/ \E p, c \in Sessions, v \in Services, m \in {"replace", "return_to_origin"} :
          HandoffBegins(p, c, v, m)

Next ==
    \/ CallerStep
    \/ \E s \in Sessions : OpenerStep(s) \/ RestoreParent(s)
    \/ \E v \in Services : ForceStop(v)

(* A thread that is inside the router goes on; connects and acquisitions   *)
(* are bounded by their timeouts.  Nobody has to call the router.          *)
Fairness == \A s \in Sessions : WF_vars(OpenerStep(s)) /\ WF_vars(RestoreParent(s))

Spec == Init /\ [][Next]_vars
FairSpec == Spec /\ Fairness

-----------------------------------------------------------------------------
(* Properties that the code has.                                           *)

(* A hold lives exactly as long as the session it serves: every reference  *)
(* that the supervisor keeps for the router belongs to a session that is   *)
(* connecting or open, so no path through a failed open, a close, an EOF   *)
(* or a failed cleanup leaves a runtime held for a caller who is gone      *)
(* ("Close and EOF release that hold exactly once"); and the service under *)
(* an open session is held, unless a forced stop dropped the references.   *)
HoldsMatchSessions ==
    /\ \A v \in Services : \A s \in refs[v] :
          target[s] = v /\ state[s] \in OpenStates \cup {"connecting"}
    /\ forced = 0 => \A s \in Sessions : state[s] \in OpenStates => s \in refs[target[s]]

(* "A caller cannot forge origin_service": a session that came past the    *)
(* authorization was either on the menu or was opened from a session that  *)
(* had itself been connected, to a service its target may be reached from. *)
RouteAuthorized ==
    \A s \in Sessions :
        state[s] \in {"acquiring", "connecting"} \/ stream[s] # "none" =>
            \/ origin[s] = NoService /\ target[s] \in Menu
            \/ /\ parent[s] \in Sessions /\ stream[parent[s]] # "none"
               /\ target[parent[s]] \in Via[target[s]]

(* A parent that is handing off waits for something: a child that is being *)
(* opened, is open or is about to give control back, or whose close        *)
(* failed.                                                                 *)
HandoffPending ==
    \A p \in Sessions : state[p] = "handing_off" =>
        \E c \in Sessions :
            /\ parent[c] = p /\ mode[c] # "none"
            /\ \/ call[c] # "none" \/ c \in restoring
               \/ state[c] \in OpenStates \cup {"created"}
               \/ state[c] = "failed" /\ stream[c] # "none"

(* "replace closes the parent once the child is active": when the handoff  *)
(* is over its parent is closed, or has failed to close.                   *)
ReplacedIsClosed ==
    \A c \in Sessions :
        mode[c] = "replace" /\ stream[c] # "none" /\ call[c] = "none"
            => state[parent[c]] \in {"closed", "failed"}

(* Every open_session and every handoff comes to its end, also when it has *)
(* to wait for the lock of a parent that is itself being opened.           *)
OpenEnds == \A s \in Sessions : call[s] # "none" ~> call[s] = "none"

(* Every child that p has handed off to is in one of the ended states.     *)
HandedOffTo(p) == {c \in Sessions : parent[c] = p /\ mode[c] # "none"}
AllEnded(p) ==
    \A c \in HandedOffTo(p) : state[c] = "closed" \/ (state[c] = "failed" /\ stream[c] = "none")

(* A parent that hands off gets control back, or is closed, once every     *)
(* child it has handed off to is closed or could not be opened.            *)
ControlReturns ==
    \A p \in Sessions :
        (state[p] = "handing_off" /\ AllEnded(p)) ~> state[p] # "handing_off"

=============================================================================
