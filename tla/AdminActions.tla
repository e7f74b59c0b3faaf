---------------------------- MODULE AdminActions ----------------------------
(* The administrative requests of the dashboard (ubb_dashboard.py): web    *)
(* sessions (SessionStore), accounts (AuthStore), the delegating action    *)
(* service (ubb_admin/actions.py) and the audit log (audit.py).  Each      *)
(* request runs in a thread of its own, and takes a copy of the session it *)
(* found; the calls it delegates to other components may raise.            *)
EXTENDS Naturals, Sequences

CONSTANTS Accounts,  \* administrator names
          Requests,  \* action requests, each with a request ID
          Tokens     \* session tokens that logins may hand out

VARIABLES accounts,  \* role of each enabled account, or "none"
          sessions,  \* session of each token
          request,   \* progress of each request
          effects,   \* calls that each request has delegated
          audit      \* records, in the order of the file

adminVars == <<accounts, sessions, request, effects, audit>>

Roles == {"viewer", "operator", "administrator"}
Rank == [none |-> 0, viewer |-> 1, operator |-> 2, administrator |-> 3]
NoSession == [role |-> "none"]
NewRequest == [at |-> "new"]

(* What each action asks for and delegates.  start stands for every action *)
(* of one call that an operator may request (stop, maintenance, backup and *)
(* qualify too), promote for rollback and lifecycle as well.               *)
Needs == [start |-> "operator", restart |-> "operator", promote |-> "administrator"]
Calls == [start |-> <<"start">>, restart |-> <<"stop", "start">>,
          promote |-> <<"promote">>]
Actions == DOMAIN Needs

AdminInit ==
  /\ accounts = [u \in Accounts |-> "none"]
  /\ sessions = [t \in Tokens |-> NoSession]
  /\ request = [r \in Requests |-> NewRequest]
  /\ effects = [r \in Requests |-> <<>>]
  /\ audit = <<>>

-----------------------------------------------------------------------------
(* Accounts and sessions                                                   *)

FaultyAddAccount(u, role) ==
  /\ accounts' = [accounts EXCEPT ![u] = "unchecked"]
  /\ UNCHANGED <<sessions, request, effects, audit>>

AddAccount(u, role) ==
  /\ accounts' = [accounts EXCEPT ![u] = role]
  /\ UNCHANGED <<sessions, request, effects, audit>>

DisableAccount(u) ==
  /\ accounts[u] # "none"
  /\ accounts' = [accounts EXCEPT ![u] = "none"]
  /\ UNCHANGED <<sessions, request, effects, audit>>

(* A login whose password is right; the token is new.                      *)
CreateSession(t, u) ==
  /\ accounts[u] # "none"
  /\ sessions[t] = NoSession
  /\ sessions' = [sessions EXCEPT ![t] =
                    [user |-> u, role |-> accounts[u], over |-> FALSE]]
  /\ UNCHANGED <<accounts, request, effects, audit>>

(* The lifetime of a session passes; it stays in the store.                *)
SessionExpires(t) ==
  /\ sessions[t] # NoSession
  /\ sessions' = [sessions EXCEPT ![t].over = TRUE]
  /\ UNCHANGED <<accounts, request, effects, audit>>

Valid(t) == sessions[t] # NoSession /\ ~sessions[t].over

Logout(t) ==
  /\ Valid(t)
  /\ sessions' = [sessions EXCEPT ![t] = NoSession]
  /\ UNCHANGED <<accounts, request, effects, audit>>

-----------------------------------------------------------------------------
(* A request                                                               *)

Proceed(r, p) == request' = [request EXCEPT ![r] = p]

(* authenticate: a session that is over is dropped and answered with 401.  *)
Receive(r, t, action, csrf) ==
  /\ request[r] = NewRequest
  /\ IF Valid(t)
       THEN /\ Proceed(r, [at |-> IF csrf THEN "role" ELSE "audit", action |-> action,
                           role |-> sessions[t].role, calls |-> Calls[action],
                           result |-> IF csrf THEN "failure" ELSE "denied"])
            /\ UNCHANGED sessions
       ELSE /\ Proceed(r, [at |-> "refused"])
            /\ sessions' = [sessions EXCEPT ![t] = NoSession]
  /\ UNCHANGED <<accounts, effects, audit>>

FaultyCheckRole(r) ==
  /\ request[r].at = "role"
  /\ IF Rank[request[r].role] < Rank[Needs[request[r].action]]
       THEN Proceed(r, [request[r] EXCEPT !.at = "audit", !.result = "denied"])
       ELSE Proceed(r, [request[r] EXCEPT !.at = "act", !.result = "success"])
  /\ UNCHANGED <<accounts, sessions, effects, audit>>

(* _p, before anything is delegated.                                       *)
CheckRole(r) ==
  /\ request[r].at = "role"
  /\ IF Rank[request[r].role] < Rank[Needs[request[r].action]]
       THEN Proceed(r, [request[r] EXCEPT !.at = "audit", !.result = "denied"])
       ELSE Proceed(r, [request[r] EXCEPT !.at = "act"])
  /\ UNCHANGED <<accounts, sessions, effects, audit>>

(* The next call of the action is made, and changes something.             *)
Delegate(r) ==
  /\ request[r].at = "act"
  /\ LET rest == Tail(request[r].calls)
     IN  /\ effects' = [effects EXCEPT ![r] = Append(@, Head(request[r].calls))]
         /\ Proceed(r, IF rest # <<>> THEN [request[r] EXCEPT !.calls = rest]
                       ELSE [request[r] EXCEPT !.at = "audit", !.calls = rest,
                                               !.result = "success"])
  /\ UNCHANGED <<accounts, sessions, audit>>

(* It raises: ValueError, BackupError or anything else is a failure, but a *)
(* PermissionError of the operating system is taken for a denial.          *)
CallRaises(r, result) ==
  /\ request[r].at = "act"
  /\ Proceed(r, [request[r] EXCEPT
                   !.at = "audit", !.result = IF result = "failure" THEN @ ELSE result])
  /\ UNCHANGED <<accounts, sessions, effects, audit>>

(* append, under the log's lock.                                           *)
AppendAudit(r) ==
  /\ request[r].at = "audit"
  /\ audit' = Append(audit, [request |-> r, result |-> request[r].result])
  /\ Proceed(r, [request[r] EXCEPT !.at = "answer"])
  /\ UNCHANGED <<accounts, sessions, effects>>

Answer(r) ==
  /\ request[r].at = "answer"
  /\ Proceed(r, [request[r] EXCEPT !.at = "answered"])
  /\ UNCHANGED <<accounts, sessions, effects, audit>>

(* The append fails (a full disk): the thread ends without an answer.      *)
AuditFails(r) ==
  /\ request[r].at = "audit"
  /\ Proceed(r, [at |-> "lost"])
  /\ UNCHANGED <<accounts, sessions, effects, audit>>

(* The dashboard restarts: sessions are in memory, threads die.            *)
DashboardRestarts ==
  /\ sessions' = [t \in Tokens |-> NoSession]
  /\ request' = [r \in Requests |->
                   IF request[r].at \in {"role", "act", "audit", "answer"}
                   THEN [at |-> "lost"] ELSE request[r]]
  /\ UNCHANGED <<accounts, effects, audit>>

AdminNext ==
  \/ \E u \in Accounts :
       \/ \E role \in Roles : AddAccount(u, role)
       \/ DisableAccount(u)
       \/ \E t \in Tokens : CreateSession(t, u)
  \/ \E t \in Tokens : Logout(t) \/ SessionExpires(t)
  \/ \E r \in Requests :
       \/ \E t \in Tokens, action \in Actions, csrf \in BOOLEAN :
            Receive(r, t, action, csrf)
       \/ CheckRole(r) \/ Delegate(r)
       \/ \E result \in {"failure", "denied"} : CallRaises(r, result)
       \/ AppendAudit(r) \/ AuditFails(r) \/ Answer(r)
  \/ DashboardRestarts

AdminSpec == AdminInit /\ [][AdminNext]_adminVars

-----------------------------------------------------------------------------
RecordsOf(r) == {i \in DOMAIN audit : audit[i].request = r}

AdminTypeOK ==
  /\ accounts \in [Accounts -> Roles \cup {"none"}]
  /\ \A t \in Tokens : sessions[t].role \in Roles \cup {"none"}
  /\ \A r \in Requests :
       request[r].at \in {"new", "role", "act", "audit", "answer", "answered",
                          "refused", "lost"}

(* docs/ADMIN-SECURITY.md: "each authenticated action request receives one *)
(* terminal record", and the record tells what happened.  With any         *)
(* interleaving of requests, logouts, expiries and restarts, a request that*)
(* was answered has exactly one record and no request has two (one lost to *)
(* a restart or a full disk may have none); a request recorded as a success*)
(* made all the calls of its action, a restart both of them in their order,*)
(* for a role that allowed the action.                                     *)
AuditFaithful ==
  /\ \A r \in Requests :
       /\ \A i, k \in RecordsOf(r) : i = k
       /\ request[r].at = "answered" => RecordsOf(r) # {}
  /\ \A i \in DOMAIN audit :
       LET r == audit[i].request IN
       audit[i].result = "success" =>
         /\ effects[r] \in {Calls[a] : a \in Actions}
         /\ request[r].at # "lost" =>
              /\ effects[r] = Calls[request[r].action]
              /\ Rank[request[r].role] >= Rank[Needs[request[r].action]]
=============================================================================
