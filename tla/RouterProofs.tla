---------------------------- MODULE RouterProofs ----------------------------
(* The router, for any sessions, services, menu and routes, and for any    *)
(* number of forced stops.                                                 *)
EXTENDS Router, TLAPS

-----------------------------------------------------------------------------
(* The shape of a session: how its state, its stream, its parent and the   *)
(* thread that opens it belong together.                                   *)

Connected == {"active", "handing_off", "closed", "failed"}
BeingOpened == {"authorizing", "acquiring", "connecting"}

ShapeOf(s) ==
    /\ state[s] # "unborn" => target[s] \in Services
    /\ state[s] \in {"unborn", "created"} => call[s] = "none" /\ s \notin restoring
    /\ state[s] = "unborn" => mode[s] = "none"
    /\ mode[s] # "none" => parent[s] \in Sessions /\ state[parent[s]] \in Connected
    /\ stream[s] # "none" => state[s] \in Connected /\ call[s] \in {"none", "opened"}
    /\ state[s] \in OpenStates => stream[s] # "none"
    /\ call[s] = "open" => state[s] \in BeingOpened
    /\ call[s] = "failed" => mode[s] # "none"
    /\ call[s] = "opened" => mode[s] = "replace" /\ stream[s] # "none"

ShapeInv == TypeOK /\ \A s \in Sessions : ShapeOf(s)

(* close_session acts on a session that is open or has failed.             *)
LEMMA ClosableStates ==
  ASSUME TypeOK, NEW s PROVE Closable(s) <=> s \in Sessions /\ state[s] \in {"active", "handing_off", "failed"}
  BY DEF TypeOK, Closable, Registered, Transitions, SessionStates

(* Giving back a hold keeps the types, and changes what concerns s only.   *)
LEMMA ReleaseTyped ==
  ASSUME TypeOK, NEW s \in Sessions, ReleaseHold(s)
  PROVE  /\ held' = held /\ released' \in SUBSET Sessions /\ refs' \in [Services -> SUBSET Sessions]
         /\ released \subseteq released' /\ released' \subseteq released \cup {s}
         /\ \A v \in Services : refs'[v] \subseteq refs[v] /\ refs[v] \subseteq refs'[v] \cup {s}
  BY DEF ReleaseHold, TypeOK

(* No session exists at first.                                             *)
LEMMA ShapeInit == Init => ShapeInv
  BY RouterAssumption DEF Init, ShapeInv, ShapeOf, TypeOK, OpenStates

(* The except branch of open_session keeps the shape, also when giving the *)
(* hold back raises and the session stays what it was.                     *)
LEMMA OpenFailsShape ==
  ASSUME ShapeInv, NEW s \in Sessions, call[s] = "open", OpenFails(s) PROVE ShapeInv'
  <1> USE DEF ShapeInv
  <1>1. /\ held' = held /\ released' \in SUBSET Sessions /\ refs' \in [Services -> SUBSET Sessions]
    BY ReleaseTyped DEF OpenFails
  <1>2. TypeOK'
    BY <1>1 DEF OpenFails, TypeOK, AfterOpen, SessionStates
  <1>3. \A t \in Sessions : ShapeOf(t)'
    BY DEF OpenFails, TypeOK, AfterOpen, ShapeOf, Connected, BeingOpened, OpenStates
  <1> QED BY <1>2, <1>3

(* close_session keeps the shape, called by anyone or by a handoff.        *)
LEMMA CloseShape ==
  ASSUME ShapeInv, NEW s, NEW raised \in BOOLEAN, CloseSession(s, raised),
         call' \in [Sessions -> {"none", "open", "opened", "failed"}],
         \A t \in Sessions : call'[t] \in {call[t], "none"}
  PROVE  ShapeInv'
  <1> USE DEF ShapeInv
  <1>0. s \in Sessions /\ state[s] \in {"active", "handing_off", "failed"}
    BY ClosableStates DEF CloseSession
  <1>1. /\ held' = held /\ released' \in SUBSET Sessions /\ refs' \in [Services -> SUBSET Sessions]
    BY <1>0, ReleaseTyped DEF CloseSession
  <1>2. /\ state' \in [Sessions -> SessionStates \cup {"unborn"}]
        /\ state'[s] \in {"closed", "failed"} /\ \A t \in Sessions \ {s} : state'[t] = state[t]
    BY <1>0 DEF CloseSession, TypeOK, SessionStates
  <1>3. /\ stream' \in [Sessions -> {"none", "open", "closed"}]
        /\ \A t \in Sessions : stream'[t] = "none" <=> stream[t] = "none"
    BY <1>0 DEF CloseSession, TypeOK
  <1>4. restoring' \subseteq restoring \cup {s} /\ restoring' \subseteq {c \in Sessions : parent[c] \in Sessions}
    BY <1>0 DEF CloseSession, TypeOK, Returns, ShapeOf
  <1>5. UNCHANGED <<target, origin, parent, mode, forced>>
    BY DEF CloseSession
  <1>6. TypeOK'
    BY <1>1, <1>2, <1>3, <1>4, <1>5 DEF TypeOK
  <1>7. \A t \in Sessions : ShapeOf(t)'
    BY <1>0, <1>2, <1>3, <1>4, <1>5 DEF TypeOK, ShapeOf, Connected, BeingOpened, OpenStates
  <1> QED BY <1>6, <1>7

(* Every step keeps the types and the shape of every session.              *)
LEMMA ShapeStep == ShapeInv /\ [Next]_vars => ShapeInv'
  <1> SUFFICES ASSUME ShapeInv, [Next]_vars PROVE ShapeInv'
    OBVIOUS
  <1> USE DEF ShapeInv, SessionStates, Connected, BeingOpened, OpenStates
  <1>1. ASSUME NEW s \in Sessions, NEW v \in Services, NEW o \in Services \cup {NoService},
               NEW p \in Registered \cup {NoSession}, OpenSession(s, v, o, p)
        PROVE  ShapeInv'
    <2>1. TypeOK'
      BY <1>1 DEF OpenSession, Register, TypeOK, holdVars, Registered, ShapeOf
    <2>2. \A t \in Sessions : ShapeOf(t)'
      BY <1>1 DEF OpenSession, Register, TypeOK, ShapeOf, holdVars
    <2> QED BY <2>1, <2>2
  <1>2. ASSUME NEW s \in Sessions, OpenBegins(s) \/ Authorize(s) \/ AcquireHold(s) PROVE ShapeInv'
    <2>1. TypeOK'
      BY <1>2 DEF OpenBegins, Authorize, AcquireHold, Opening, TypeOK, holdVars
    <2>2. \A t \in Sessions : ShapeOf(t)'
      BY <1>2 DEF OpenBegins, Authorize, AcquireHold, Opening, TypeOK, ShapeOf, holdVars
    <2> QED BY <2>1, <2>2
  <1>3. ASSUME NEW s \in Sessions, Connect(s) PROVE ShapeInv'
    <2>1. TypeOK'
      BY <1>3 DEF Connect, Opening, TypeOK, AfterOpen, holdVars
    <2>2. \A t \in Sessions : ShapeOf(t)'
      BY <1>3 DEF Connect, Opening, TypeOK, AfterOpen, ShapeOf, holdVars
    <2> QED BY <2>1, <2>2
  <1>4. ASSUME NEW s \in Sessions, Denied(s) \/ AcquireRaises(s) \/ ConnectFails(s) PROVE ShapeInv'
    BY <1>4, OpenFailsShape DEF Denied, AcquireRaises, ConnectFails, Opening
  <1>5. ASSUME NEW s \in Sessions, NEW raised \in BOOLEAN, Close(s, raised) PROVE ShapeInv'
    BY <1>5, CloseShape DEF Close, TypeOK
  <1>6. ASSUME NEW c \in Sessions, RestoreParent(c) \/ HandoffFails(c) PROVE ShapeInv'
    <2>1. TypeOK'
      BY <1>6 DEF RestoreParent, HandoffFails, Reactivate, TypeOK, holdVars
    <2>2. \A t \in Sessions : ShapeOf(t)'
      BY <1>6 DEF RestoreParent, HandoffFails, Reactivate, TypeOK, ShapeOf, holdVars
    <2> QED BY <2>1, <2>2
  <1>7. ASSUME NEW p \in Sessions, NEW c \in Sessions, NEW v \in Services, NEW m \in {"replace", "return_to_origin"},
               HandoffBegins(p, c, v, m)
        PROVE  ShapeInv'
    <2>1. TypeOK' /\ p # c
      BY <1>7 DEF HandoffBegins, Register, TypeOK, holdVars, ShapeOf
    <2>2. \A t \in Sessions : ShapeOf(t)'
      BY <1>7, <2>1 DEF HandoffBegins, Register, TypeOK, ShapeOf, holdVars
    <2> QED BY <2>1, <2>2
  <1>8. ASSUME NEW c \in Sessions, HandoffReplaces(c) PROVE ShapeInv'
    <2>1. /\ call' \in [Sessions -> {"none", "open", "opened", "failed"}]
          /\ \A t \in Sessions : call'[t] \in {call[t], "none"}
      BY <1>8 DEF HandoffReplaces, TypeOK
    <2>2. CASE \E raised \in BOOLEAN : CloseSession(parent[c], raised)
      BY <2>1, <2>2, CloseShape
    <2>3. CASE UNCHANGED <<sessionVars, stream, holdVars, restoring, forced>>
      BY <2>1, <2>3 DEF sessionVars, holdVars, TypeOK, ShapeOf
    <2> QED BY <1>8, <2>2, <2>3 DEF HandoffReplaces
  <1>9. CASE \E v \in Services : ForceStop(v)
    <2>1. forced' \in 0 .. MaxForced
      BY <1>9, RouterAssumption DEF ForceStop, TypeOK
    <2>2. refs' \in [Services -> SUBSET Sessions]
      BY <1>9 DEF ForceStop, TypeOK
    <2>3. UNCHANGED <<state, target, origin, parent, mode, stream, held, released, call, restoring>>
      BY <1>9 DEF ForceStop, sessionVars
    <2> QED BY <2>1, <2>2, <2>3 DEF TypeOK, ShapeOf
  <1>10. CASE UNCHANGED vars
    BY <1>10 DEF vars, sessionVars, holdVars, TypeOK, ShapeOf
  <1> QED BY <1>1, <1>2, <1>3, <1>4, <1>5, <1>6, <1>7, <1>8, <1>9, <1>10 DEF Next, CallerStep, OpenerStep

(* Every variable of the router keeps its type.                            *)
THEOREM RouterTypes == Spec => []TypeOK
  <1>1. ShapeInv => TypeOK
    BY DEF ShapeInv
  <1> QED BY <1>1, ShapeInit, ShapeStep, PTL DEF Spec

-----------------------------------------------------------------------------
(* Holds.                                                                  *)

(* A reference belongs to a session that holds it still, so that the close *)
(* or the failure that ends the session finds it due; and as long as no    *)
(* service was forced down, whoever is connecting or open has one.         *)
HoldInv ==
    /\ \A v \in Services : \A s \in refs[v] :
          /\ target[s] = v /\ state[s] \in OpenStates \cup {"connecting"}
          /\ s \in held /\ s \notin released
    /\ released \subseteq held
    /\ \A s \in held : state[s] \notin {"unborn", "created", "authorizing", "acquiring"}
    /\ forced = 0 => \A s \in Sessions :
          state[s] \in OpenStates \cup {"connecting"} => s \in refs[target[s]]

(* Steps that leave the holds alone and move no session across the states  *)
(* that need one.                                                          *)
LEMMA HoldsRest ==
  ASSUME ShapeInv, ShapeInv', HoldInv, UNCHANGED <<held, released, refs, forced>>,
         \A s \in Sessions :
            /\ state[s] # "unborn" => target'[s] = target[s] /\ state'[s] # "unborn"
            /\ state'[s] \in OpenStates \cup {"connecting"} <=> state[s] \in OpenStates \cup {"connecting"}
            /\ state'[s] \in {"unborn", "created", "authorizing", "acquiring"}
                  => state[s] \in {"unborn", "created", "authorizing", "acquiring"}
  PROVE  HoldInv'
  BY DEF HoldInv, ShapeInv, TypeOK, OpenStates

(* A session that ends gives its reference back, or has none any more.     *)
LEMMA HoldsEnd ==
  ASSUME ShapeInv, HoldInv, NEW s \in Sessions, ReleaseHold(s), UNCHANGED <<target, forced>>,
         state[s] \notin {"unborn", "created"},
         \A t \in Sessions \ {s} : state'[t] = state[t],
         IF state'[s] \in {"failed", "closed"} THEN TRUE ELSE ReleaseRaises(s) /\ state'[s] = state[s]
  PROVE  HoldInv'
  <1> USE DEF ShapeInv, TypeOK, OpenStates
  <1>1. \A v \in Services : s \in refs[v] => ReleaseDue(s) /\ ~ReleaseRaises(s)
    BY DEF HoldInv, ReleaseDue, ReleaseRaises
  <1>2. \A v \in Services : s \notin refs'[v]
    BY <1>1 DEF ReleaseHold
  <1>3. \A v \in Services : refs'[v] \subseteq refs[v] /\ refs[v] \subseteq refs'[v] \cup {s}
    BY DEF ReleaseHold
  <1>4. held' = held /\ released' \subseteq held /\ released' \subseteq released \cup {s}
    BY DEF ReleaseHold, ReleaseDue, HoldInv
  <1>5. \A v \in Services : \A t \in refs'[v] :
          /\ target'[t] = v /\ state'[t] \in OpenStates \cup {"connecting"}
          /\ t \in held' /\ t \notin released'
    BY <1>2, <1>3, <1>4 DEF HoldInv
  <1>6. \A t \in held' : state'[t] \notin {"unborn", "created", "authorizing", "acquiring"}
    BY <1>4 DEF HoldInv
  <1>7. forced' = 0 => \A t \in Sessions :
          state'[t] \in OpenStates \cup {"connecting"} => t \in refs'[target'[t]]
    <2> SUFFICES ASSUME forced = 0, NEW t \in Sessions, state'[t] \in OpenStates \cup {"connecting"}
                 PROVE  t \in refs'[target[t]]
      OBVIOUS
    <2>1. CASE t = s
      BY <2>1 DEF HoldInv, ReleaseRaises
    <2>2. CASE t # s
      BY <2>2, <1>3 DEF HoldInv, ShapeOf
    <2> QED BY <2>1, <2>2
  <1> QED BY <1>4, <1>5, <1>6, <1>7 DEF HoldInv

(* Every step keeps references and sessions together.                      *)
LEMMA HoldStep == ShapeInv /\ HoldInv /\ [Next]_vars => HoldInv'
  <1> SUFFICES ASSUME ShapeInv, HoldInv, [Next]_vars PROVE HoldInv'
    OBVIOUS
  <1>s. ShapeInv'
    BY ShapeStep
  <1> USE DEF OpenStates
  <1>1. ASSUME NEW s \in Sessions, NEW v \in Services, NEW o \in Services \cup {NoService},
               NEW p \in Registered \cup {NoSession}, OpenSession(s, v, o, p)
        PROVE  HoldInv'
    BY <1>1, <1>s, HoldsRest DEF OpenSession, Register, holdVars, ShapeInv, TypeOK
  <1>2. ASSUME NEW s \in Sessions, OpenBegins(s) \/ Authorize(s) \/ Connect(s) PROVE HoldInv'
    BY <1>2, <1>s, HoldsRest DEF OpenBegins, Authorize, Connect, Opening, holdVars, ShapeInv, TypeOK
  <1>3. ASSUME NEW s \in Sessions, AcquireHold(s) PROVE HoldInv'
    <2>1. target[s] \in Services /\ s \notin held /\ s \notin released
      BY <1>3 DEF AcquireHold, Opening, ShapeInv, ShapeOf, HoldInv
    <2> QED BY <1>3, <2>1 DEF AcquireHold, Opening, ShapeInv, TypeOK, HoldInv
  <1>4. ASSUME NEW s \in Sessions, Denied(s) \/ AcquireRaises(s) \/ ConnectFails(s) PROVE HoldInv'
    BY <1>4, HoldsEnd DEF Denied, AcquireRaises, ConnectFails, Opening, OpenFails, ShapeInv, TypeOK
  <1>5. ASSUME NEW s, NEW raised \in BOOLEAN, CloseSession(s, raised) PROVE HoldInv'
    <2>1. s \in Sessions /\ state[s] \in {"active", "handing_off", "failed"}
      BY <1>5, ClosableStates DEF CloseSession, ShapeInv
    <2>2. state'[s] \in {"closed", "failed"} /\ \A t \in Sessions \ {s} : state'[t] = state[t]
      BY <1>5, <2>1 DEF CloseSession, ShapeInv, TypeOK
    <2> QED BY <1>5, <2>1, <2>2, HoldsEnd DEF CloseSession
  <1>6. ASSUME NEW c \in Sessions, RestoreParent(c) \/ HandoffFails(c) PROVE HoldInv'
    BY <1>6, <1>s, HoldsRest DEF RestoreParent, HandoffFails, Reactivate, holdVars, ShapeInv, TypeOK
  <1>7. ASSUME NEW p \in Sessions, NEW c \in Sessions, NEW v \in Services, NEW m \in {"replace", "return_to_origin"},
               HandoffBegins(p, c, v, m)
        PROVE  HoldInv'
    BY <1>7, <1>s, HoldsRest DEF HandoffBegins, Register, holdVars, ShapeInv, TypeOK
  <1>8. ASSUME NEW v \in Services, ForceStop(v) PROVE HoldInv'
    BY <1>8, RouterAssumption DEF ForceStop, sessionVars, ShapeInv, TypeOK, HoldInv
  <1>9. ASSUME UNCHANGED <<sessionVars, holdVars, forced>> PROVE HoldInv'
    BY <1>9, <1>s, HoldsRest DEF sessionVars, holdVars
  <1>10. CASE UNCHANGED vars
    BY <1>9, <1>10 DEF vars
  <1> QED BY <1>1, <1>2, <1>3, <1>4, <1>5, <1>6, <1>7, <1>8, <1>9, <1>10
          DEF Next, CallerStep, OpenerStep, Close, HandoffReplaces

(* Nobody holds anything at first.                                         *)
LEMMA HoldInit == Init => HoldInv
  BY DEF Init, HoldInv, OpenStates

(* Every reference the supervisor keeps for the router belongs to a        *)
(* session that is connecting or open, and the service under an open       *)
(* session is held unless it was forced down.                              *)
THEOREM HoldsAreExact == Spec => []HoldsMatchSessions
  <1>1. HoldInv => HoldsMatchSessions
    BY DEF HoldInv, HoldsMatchSessions
  <1> QED BY <1>1, ShapeInit, ShapeStep, HoldInit, HoldStep, PTL DEF Spec

-----------------------------------------------------------------------------
(* Routes and handoffs.                                                    *)

(* What a route request said stays as it was said, a stream that was once  *)
(* open was open for ever, and a session that has ended stays ended.       *)
LEMMA SessionMoves ==
  ASSUME ShapeInv, [Next]_vars, NEW s \in Sessions, state[s] # "unborn"
  PROVE  /\ UNCHANGED <<target[s], origin[s], parent[s], mode[s]>> /\ state'[s] # "unborn"
         /\ stream[s] # "none" => stream'[s] # "none"
         /\ state[s] \in {"closed", "failed"} => state'[s] \in {"closed", "failed"}
  <1> DEFINE Goal == /\ UNCHANGED <<target[s], origin[s], parent[s], mode[s]>> /\ state'[s] # "unborn"
                     /\ stream[s] # "none" => stream'[s] # "none"
                     /\ state[s] \in {"closed", "failed"} => state'[s] \in {"closed", "failed"}
  <1> USE DEF ShapeInv, TypeOK, OpenStates
  <1>1. ASSUME NEW t \in Sessions, NEW v \in Services, NEW o, NEW p, OpenSession(t, v, o, p) PROVE Goal
    BY <1>1 DEF OpenSession, Register
  <1>2. ASSUME NEW t \in Sessions, OpenBegins(t) \/ Authorize(t) \/ AcquireHold(t) \/ Connect(t) PROVE Goal
    BY <1>2 DEF OpenBegins, Authorize, AcquireHold, Connect, Opening
  <1>3. ASSUME NEW t \in Sessions, Denied(t) \/ AcquireRaises(t) \/ ConnectFails(t) PROVE Goal
    BY <1>3 DEF Denied, AcquireRaises, ConnectFails, Opening, OpenFails
  <1>4. ASSUME NEW t, NEW raised \in BOOLEAN, CloseSession(t, raised) PROVE Goal
    <2>1. t \in Sessions /\ state[t] \in {"active", "handing_off", "failed"}
      BY <1>4, ClosableStates DEF CloseSession
    <2> QED BY <1>4, <2>1 DEF CloseSession
  <1>5. ASSUME NEW c \in Sessions, RestoreParent(c) \/ HandoffFails(c) PROVE Goal
    BY <1>5 DEF RestoreParent, HandoffFails, Reactivate
  <1>6. ASSUME NEW p \in Sessions, NEW c \in Sessions, NEW v \in Services, NEW m, HandoffBegins(p, c, v, m)
        PROVE  Goal
    BY <1>6 DEF HandoffBegins, Register
  <1>7. ASSUME UNCHANGED <<sessionVars, stream>> PROVE Goal
    BY <1>7 DEF sessionVars
  <1> HIDE DEF Goal
  <1>8. Goal
    BY <1>1, <1>2, <1>3, <1>4, <1>5, <1>6, <1>7
       DEF Next, CallerStep, OpenerStep, Close, HandoffReplaces, ForceStop, vars
  <1> QED BY <1>8 DEF Goal

(* The sessions whose route has been authorized.                           *)
PastPolicy(s) == state[s] \in {"acquiring", "connecting"} \/ stream[s] # "none"

(* Nobody gets past the policy but through it.                             *)
LEMMA OnlyAuthorize ==
  ASSUME ShapeInv, [Next]_vars, NEW s \in Sessions, PastPolicy(s)', ~PastPolicy(s)
  PROVE  Authorize(s)
  <1> USE DEF ShapeInv, TypeOK, OpenStates, PastPolicy
  <1>1. ASSUME NEW t \in Sessions, NEW v \in Services, NEW o, NEW p, OpenSession(t, v, o, p) PROVE FALSE
    BY <1>1 DEF OpenSession, Register
  <1>2. ASSUME NEW t \in Sessions, OpenBegins(t) \/ AcquireHold(t) \/ Connect(t) PROVE FALSE
    BY <1>2 DEF OpenBegins, AcquireHold, Connect, Opening
  <1>3. ASSUME NEW t \in Sessions, Denied(t) \/ AcquireRaises(t) \/ ConnectFails(t) PROVE FALSE
    BY <1>3 DEF Denied, AcquireRaises, ConnectFails, Opening, OpenFails
  <1>4. ASSUME NEW t, NEW raised \in BOOLEAN, CloseSession(t, raised) PROVE FALSE
    <2>1. t \in Sessions /\ state[t] \in {"active", "handing_off", "failed"}
      BY <1>4, ClosableStates DEF CloseSession
    <2> QED BY <1>4, <2>1 DEF CloseSession
  <1>5. ASSUME NEW c \in Sessions, RestoreParent(c) \/ HandoffFails(c) PROVE FALSE
    BY <1>5 DEF RestoreParent, HandoffFails, Reactivate
  <1>6. ASSUME NEW p \in Sessions, NEW c \in Sessions, NEW v \in Services, NEW m, HandoffBegins(p, c, v, m)
        PROVE  FALSE
    BY <1>6 DEF HandoffBegins, Register
  <1>7. ASSUME UNCHANGED <<sessionVars, stream>> PROVE FALSE
    BY <1>7 DEF sessionVars
  <1>8. ASSUME NEW t \in Sessions, Authorize(t) PROVE Authorize(s)
    BY <1>8 DEF Authorize, Opening
  <1> QED BY <1>1, <1>2, <1>3, <1>4, <1>5, <1>6, <1>7, <1>8
          DEF Next, CallerStep, OpenerStep, Close, HandoffReplaces, ForceStop, vars

(* A route that was authorized stays so, since neither it nor the session  *)
(* it came from can change.                                                *)
LEMMA RouteStep == ShapeInv /\ RouteAuthorized /\ [Next]_vars => RouteAuthorized'
  <1> SUFFICES ASSUME ShapeInv, RouteAuthorized, [Next]_vars, NEW s \in Sessions, PastPolicy(s)'
               PROVE  \/ origin'[s] = NoService /\ target'[s] \in Menu
                      \/ /\ parent'[s] \in Sessions /\ stream'[parent'[s]] # "none"
                         /\ target'[parent'[s]] \in Via[target'[s]]
    BY DEF RouteAuthorized, PastPolicy
  <1>1. state[s] # "unborn"
    <2>1. CASE PastPolicy(s)
      BY <2>1 DEF PastPolicy, ShapeInv, ShapeOf, Connected
    <2>2. CASE ~PastPolicy(s)
      BY <2>2, OnlyAuthorize DEF Authorize, Opening
    <2> QED BY <2>1, <2>2
  <1>2. \/ origin[s] = NoService /\ target[s] \in Menu
        \/ /\ parent[s] \in Sessions /\ stream[parent[s]] # "none"
           /\ target[parent[s]] \in Via[target[s]]
    <2>1. CASE PastPolicy(s)
      BY <2>1 DEF PastPolicy, RouteAuthorized
    <2>2. CASE ~PastPolicy(s)
      BY <2>2, OnlyAuthorize DEF Authorize, OriginOpen, Allowed, ShapeInv, ShapeOf, TypeOK
    <2> QED BY <2>1, <2>2
  <1>3. UNCHANGED <<target[s], origin[s], parent[s]>>
    BY <1>1, SessionMoves
  <1>4. ASSUME parent[s] \in Sessions, stream[parent[s]] # "none"
        PROVE  target'[parent[s]] = target[parent[s]] /\ stream'[parent[s]] # "none"
    BY <1>4, SessionMoves DEF ShapeInv, ShapeOf, Connected
  <1> QED BY <1>2, <1>3, <1>4

(* Whoever came past the authorization was on the menu or came from a      *)
(* session that had itself been connected to a permitted origin.           *)
THEOREM RoutesAuthorized == Spec => []RouteAuthorized
  <1>1. Init => RouteAuthorized
    BY DEF Init, RouteAuthorized
  <1> QED BY <1>1, ShapeInit, ShapeStep, RouteStep, PTL DEF Spec

(* The thread of a replacing handoff ends only by closing the parent, or   *)
(* by finding that it cannot be closed, and then it has been.              *)
LEMMA ReplaceStep == ShapeInv /\ ReplacedIsClosed /\ [Next]_vars => ReplacedIsClosed'
  <1> SUFFICES ASSUME ShapeInv, ReplacedIsClosed, [Next]_vars, NEW c \in Sessions,
                      mode'[c] = "replace", stream'[c] # "none", call'[c] = "none"
               PROVE  state'[parent'[c]] \in {"closed", "failed"}
    BY DEF ReplacedIsClosed
  <1> DEFINE Before == mode[c] = "replace" /\ stream[c] # "none" /\ call[c] = "none"
             Goal == state'[parent'[c]] \in {"closed", "failed"}
  <1>0. ASSUME Before PROVE Goal
    <2>1. state[c] # "unborn" /\ parent[c] \in Sessions /\ state[parent[c]] \in {"closed", "failed"}
      BY <1>0 DEF ShapeInv, ShapeOf, ReplacedIsClosed
    <2>2. parent'[c] = parent[c]
      BY <2>1, SessionMoves
    <2> QED BY <2>1, <2>2, SessionMoves
  <1> USE DEF ShapeInv, TypeOK, ShapeOf, OpenStates, Connected, BeingOpened
  <1>1. ASSUME NEW t \in Sessions, NEW v \in Services, NEW o, NEW p, OpenSession(t, v, o, p) PROVE Before
    BY <1>1 DEF OpenSession, Register
  <1>2. ASSUME NEW t \in Sessions, OpenBegins(t) \/ Authorize(t) \/ AcquireHold(t) \/ Connect(t) PROVE Before
    BY <1>2 DEF OpenBegins, Authorize, AcquireHold, Connect, Opening, AfterOpen
  <1>3. ASSUME NEW t \in Sessions, Denied(t) \/ AcquireRaises(t) \/ ConnectFails(t) PROVE Before
    BY <1>3 DEF Denied, AcquireRaises, ConnectFails, Opening, OpenFails, AfterOpen
  <1>4. ASSUME NEW t \in Sessions, NEW raised \in BOOLEAN, Close(t, raised) PROVE Before
    BY <1>4 DEF Close, CloseSession
  <1>5. ASSUME NEW t \in Sessions, RestoreParent(t) \/ HandoffFails(t) PROVE Before
    BY <1>5 DEF RestoreParent, HandoffFails
  <1>6. ASSUME NEW p \in Sessions, NEW t \in Sessions, NEW v \in Services, NEW m, HandoffBegins(p, t, v, m)
        PROVE  Before
    BY <1>6 DEF HandoffBegins, Register
  <1>7. ASSUME UNCHANGED <<sessionVars, stream, call>> PROVE Before
    BY <1>7 DEF sessionVars
  <1>8. ASSUME NEW t \in Sessions, HandoffReplaces(t) PROVE Goal
    <2>1. UNCHANGED <<parent, mode>> /\ \A d \in Sessions \ {t} : call'[d] = call[d]
      BY <1>8 DEF HandoffReplaces, CloseSession, sessionVars
    <2>2. stream[c] # "none"
      <3>1. ASSUME NEW p, NEW raised, CloseSession(p, raised) PROVE stream[c] # "none"
        BY <3>1, ClosableStates DEF CloseSession
      <3> QED BY <1>8, <3>1 DEF HandoffReplaces
    <2>3. CASE t # c
      BY <2>1, <2>2, <2>3, <1>0
    <2>4. ASSUME t = c PROVE Goal
      <3>1. parent[c] \in Sessions /\ state[parent[c]] \in Connected
        BY <2>1
      <3>2. ASSUME NEW raised \in BOOLEAN, CloseSession(parent[c], raised) PROVE Goal
        BY <3>1, <3>2, <2>1 DEF CloseSession
      <3>3. ASSUME ~Closable(parent[c]), UNCHANGED sessionVars PROVE Goal
        BY <3>1, <3>3, ClosableStates DEF sessionVars
      <3> QED BY <1>8, <2>4, <3>2, <3>3 DEF HandoffReplaces
    <2> QED BY <2>3, <2>4
  <1> HIDE DEF Before, Goal
  <1>9. Goal
    BY <1>0, <1>1, <1>2, <1>3, <1>4, <1>5, <1>6, <1>7, <1>8
       DEF Next, CallerStep, OpenerStep, ForceStop, vars
  <1> QED BY <1>9 DEF Goal

(* When a replacing handoff is over, its parent is closed or has failed.   *)
THEOREM ReplacedAreClosed == Spec => []ReplacedIsClosed
  <1>1. Init => ReplacedIsClosed
    BY DEF Init, ReplacedIsClosed
  <1> QED BY <1>1, ShapeInit, ShapeStep, ReplaceStep, PTL DEF Spec

(* What keeps a parent waiting for the child c.                            *)
Awaited(c) ==
    \/ call[c] # "none" \/ c \in restoring
    \/ state[c] \in OpenStates \cup {"created"}
    \/ state[c] = "failed" /\ stream[c] # "none"

(* A close of an awaited child leaves it awaited, unless it was the        *)
(* replacement of its parent and the parent is closed as well.             *)
LEMMA CloseAwaited ==
  ASSUME ShapeInv, ReplacedIsClosed', NEW s, NEW raised \in BOOLEAN, CloseSession(s, raised),
         NEW c \in Sessions, parent[c] \in Sessions, mode[c] # "none", Awaited(c), call'[c] = call[c],
         state'[parent[c]] = "handing_off"
  PROVE  Awaited(c)'
  <1> USE DEF ShapeInv, TypeOK, ShapeOf, OpenStates, Connected, BeingOpened
  <1>0. s \in Sessions /\ state[s] \in {"active", "handing_off", "failed"}
    BY ClosableStates DEF CloseSession
  <1>1. UNCHANGED <<parent, mode>> /\ restoring \subseteq restoring'
    BY DEF CloseSession
  <1>2. CASE c # s
    BY <1>0, <1>1, <1>2 DEF CloseSession, Awaited
  <1>3. CASE call[c] # "none" \/ c \in restoring
    BY <1>1, <1>3 DEF Awaited
  <1>4. CASE c = s /\ call[c] = "none" /\ c \notin restoring
    <2>1. stream[c] # "none" /\ stream'[c] # "none" /\ call'[c] = "none"
      BY <1>0, <1>4 DEF Awaited, CloseSession
    <2>2. mode[c] = "return_to_origin"
      BY <1>1, <2>1 DEF ReplacedIsClosed
    <2>3. \/ state'[c] = "failed" \/ c \in restoring'
      BY <1>0, <1>4, <2>2 DEF CloseSession, Returns
    <2> QED BY <2>1, <2>3 DEF Awaited
  <1> QED BY <1>2, <1>3, <1>4

(* Every step that ends the wait for a child gives control back, and every *)
(* other one leaves something to wait for.                                 *)
LEMMA AwaitStep ==
  ASSUME ShapeInv, ReplacedIsClosed', [Next]_vars, NEW p \in Sessions, state'[p] = "handing_off",
         NEW c \in Sessions, parent[c] = p, mode[c] # "none", Awaited(c), state[p] = "handing_off"
  PROVE  Awaited(c)'
  <1> DEFINE Goal == Awaited(c)'
  <1> USE DEF ShapeInv, TypeOK, ShapeOf, OpenStates, Connected, BeingOpened
  <1>1. ASSUME NEW t \in Sessions, NEW v \in Services, NEW o, NEW q, OpenSession(t, v, o, q) PROVE Goal
    BY <1>1 DEF OpenSession, Register, Awaited
  <1>2. ASSUME NEW t \in Sessions, OpenBegins(t) \/ Authorize(t) \/ AcquireHold(t) \/ Connect(t) PROVE Goal
    BY <1>2 DEF OpenBegins, Authorize, AcquireHold, Connect, Opening, Awaited
  <1>3. ASSUME NEW t \in Sessions, Denied(t) \/ AcquireRaises(t) \/ ConnectFails(t) PROVE Goal
    BY <1>3 DEF Denied, AcquireRaises, ConnectFails, Opening, OpenFails, AfterOpen, Awaited
  <1>4. ASSUME NEW t \in Sessions, NEW raised \in BOOLEAN, Close(t, raised) PROVE Goal
    BY <1>4, CloseAwaited DEF Close
  <1>5. ASSUME NEW t \in Sessions, RestoreParent(t) \/ HandoffFails(t) PROVE Goal
    BY <1>5 DEF RestoreParent, HandoffFails, Reactivate, Awaited
  <1>6. ASSUME NEW q \in Sessions, NEW t \in Sessions, NEW v \in Services, NEW m, HandoffBegins(q, t, v, m)
        PROVE  Goal
    BY <1>6 DEF HandoffBegins, Register, Awaited
  <1>7. ASSUME UNCHANGED <<sessionVars, stream, call, restoring>> PROVE Goal
    BY <1>7 DEF sessionVars, Awaited
  <1>8. ASSUME NEW t \in Sessions, HandoffReplaces(t) PROVE Goal
    <2>1. t # c
      BY <1>8, ClosableStates DEF HandoffReplaces, CloseSession
    <2>2. call'[c] = call[c]
      BY <1>8, <2>1 DEF HandoffReplaces
    <2>3. ASSUME NEW raised \in BOOLEAN, CloseSession(parent[t], raised) PROVE Goal
      BY <2>2, <2>3, CloseAwaited
    <2>4. ASSUME UNCHANGED <<sessionVars, stream, holdVars, restoring, forced>> PROVE Goal
      BY <2>2, <2>4 DEF sessionVars, Awaited
    <2> QED BY <1>8, <2>3, <2>4 DEF HandoffReplaces
  <1> HIDE DEF Goal
  <1>9. Goal
    BY <1>1, <1>2, <1>3, <1>4, <1>5, <1>6, <1>7, <1>8
       DEF Next, CallerStep, OpenerStep, ForceStop, vars
  <1> QED BY <1>9 DEF Goal

(* Only a handoff makes a session hand off, and it registers a child.      *)
LEMMA HandoffOnly ==
  ASSUME ShapeInv, [Next]_vars, NEW p \in Sessions, state'[p] = "handing_off", state[p] # "handing_off"
  PROVE  \E c \in Sessions, v \in Services, m \in {"replace", "return_to_origin"} : HandoffBegins(p, c, v, m)
  <1> DEFINE Goal == \E c \in Sessions, v \in Services, m \in {"replace", "return_to_origin"} : HandoffBegins(p, c, v, m)
  <1> USE DEF ShapeInv, TypeOK
  <1>1. ASSUME NEW t \in Sessions, NEW v \in Services, NEW o, NEW q, OpenSession(t, v, o, q) PROVE FALSE
    BY <1>1 DEF OpenSession
  <1>2. ASSUME NEW t \in Sessions, OpenBegins(t) \/ Authorize(t) \/ AcquireHold(t) \/ Connect(t) PROVE FALSE
    BY <1>2 DEF OpenBegins, Authorize, AcquireHold, Connect
  <1>3. ASSUME NEW t \in Sessions, Denied(t) \/ AcquireRaises(t) \/ ConnectFails(t) PROVE FALSE
    BY <1>3 DEF Denied, AcquireRaises, ConnectFails, OpenFails
  <1>4. ASSUME NEW t, NEW raised \in BOOLEAN, CloseSession(t, raised) PROVE FALSE
    BY <1>4, ClosableStates DEF CloseSession
  <1>5. ASSUME NEW t \in Sessions, RestoreParent(t) \/ HandoffFails(t) PROVE FALSE
    BY <1>5 DEF RestoreParent, HandoffFails, Reactivate
  <1>6. ASSUME NEW q \in Sessions, NEW t \in Sessions, NEW v \in Services, NEW m \in {"replace", "return_to_origin"},
               HandoffBegins(q, t, v, m)
        PROVE  Goal
    BY <1>6 DEF HandoffBegins
  <1>7. ASSUME UNCHANGED sessionVars PROVE FALSE
    BY <1>7 DEF sessionVars
  <1> HIDE DEF Goal
  <1>8. Goal
    BY <1>1, <1>2, <1>3, <1>4, <1>5, <1>6, <1>7
       DEF Next, CallerStep, OpenerStep, Close, HandoffReplaces, ForceStop, vars
  <1> QED BY <1>8 DEF Goal

(* A parent that hands off keeps a child to wait for.                      *)
LEMMA PendingStep ==
    ShapeInv /\ ReplacedIsClosed /\ HandoffPending /\ [Next]_vars => HandoffPending'
  <1> SUFFICES ASSUME ShapeInv, ReplacedIsClosed, HandoffPending, [Next]_vars,
                      NEW p \in Sessions, state'[p] = "handing_off"
               PROVE  \E c \in Sessions : parent'[c] = p /\ mode'[c] # "none" /\ Awaited(c)'
    BY DEF HandoffPending, Awaited
  <1>0. ReplacedIsClosed'
    BY ReplaceStep
  <1>1. CASE state[p] = "handing_off"
    <2>1. PICK c \in Sessions : parent[c] = p /\ mode[c] # "none" /\ Awaited(c)
      BY <1>1 DEF HandoffPending, Awaited
    <2>2. Awaited(c)'
      BY <1>0, <1>1, <2>1, AwaitStep
    <2>3. state[c] # "unborn"
      BY <2>1 DEF ShapeInv, ShapeOf
    <2>4. parent'[c] = p /\ mode'[c] # "none"
      BY <2>1, <2>3, SessionMoves
    <2> QED BY <2>2, <2>4
  <1>2. CASE state[p] # "handing_off"
    <2>1. PICK c \in Sessions, v \in Services, m \in {"replace", "return_to_origin"} : HandoffBegins(p, c, v, m)
      BY <1>2, HandoffOnly
    <2>2. parent'[c] = p /\ mode'[c] = m /\ state'[c] = "created"
      BY <2>1 DEF HandoffBegins, Register, ShapeInv, TypeOK
    <2> QED BY <2>2 DEF Awaited
  <1> QED BY <1>1, <1>2

(* A parent that is handing off always has something to wait for.          *)
THEOREM HandoffsPending == Spec => []HandoffPending
  <1>1. Init => ReplacedIsClosed /\ HandoffPending
    BY DEF Init, ReplacedIsClosed, HandoffPending
  <1> QED BY <1>1, ShapeInit, ShapeStep, ReplaceStep, PendingStep, PTL DEF Spec
=============================================================================
