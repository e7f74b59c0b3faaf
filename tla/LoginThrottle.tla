--------------------------- MODULE LoginThrottle ----------------------------
(* The login form of the dashboard: LoginThrottle (ubb_admin/auth.py) as   *)
(* used by do_POST and DashboardApp.login (ubb_dashboard.py).  Every       *)
(* request has a thread; the throttle's methods are atomic under its lock, *)
(* but the password is verified between retry_after and failure or         *)
(* success, without it.  The clock counts units of five seconds, so that   *)
(* the backoff of 5, 10, 20, 40, 60 s is 1, 2, 4, 8, 12.                   *)
EXTENDS Naturals, FiniteSets, Sequences, SequencesExt

CONSTANTS Users, Sources,  \* names tried and peers they come from
          Threads,         \* requests in progress at once
          MaxEntries,      \* max_entries
          MaxClock         \* bound on the clock

ASSUME ThrottleAssumption ==
  IsFiniteSet(Threads) /\ MaxEntries \in Nat \ {0} /\ MaxClock \in Nat

VARIABLES clock,
          entries,   \* the keys of _entries, least recently failed first
          failures,  \* failures of each key, 0 without an entry
          retryAt,   \* end of the lockout of each key, 0 without one
          attempt    \* what each thread is doing

throttleVars == <<clock, entries, failures, retryAt, attempt>>

Keys == ({"user"} \X Users) \cup ({"source"} \X Sources)
NoAttempt == [at |-> "idle"]
KeysOf(a) == {<<"user", a.user>>, <<"source", a.source>>}

ThrottleInit ==
  /\ clock = 0
  /\ entries = <<>>
  /\ failures = [k \in Keys |-> 0]
  /\ retryAt = [k \in Keys |-> 0]
  /\ attempt = [t \in Threads |-> NoAttempt]

TickClock ==
  /\ clock < MaxClock
  /\ clock' = clock + 1
  /\ UNCHANGED <<entries, failures, retryAt, attempt>>

-----------------------------------------------------------------------------
(* _delay: 5 seconds for the fourth failure, doubled by each that follows  *)
(* up to a minute.                                                         *)
Delays == <<1, 2, 4, 8, 12>>
Delay(n) == IF n < 4 THEN 0 ELSE IF n < 8 THEN Delays[n - 3] ELSE Delays[5]

(* The keys left when those of a set are popped, in their order.           *)
Without(order, gone) ==
  LET rest[i \in 0..Len(order)] ==
        IF i = 0 THEN <<>>
        ELSE IF order[i] \in gone THEN rest[i - 1] ELSE Append(rest[i - 1], order[i])
  IN  rest[Len(order)]

(* _cleanup, of a table [order, failures, retryAt]: keys whose lockout is  *)
(* over go, and then the oldest beyond the limit.                          *)
Cleanup(table) ==
  LET over == {k \in Keys : table.failures[k] >= 4 /\ table.retryAt[k] <= clock}
      left == Without(table.order, over)
      kept == IF Len(left) > MaxEntries
              THEN SubSeq(left, Len(left) - MaxEntries + 1, Len(left)) ELSE left
      gone == over \cup (ToSet(left) \ ToSet(kept))
  IN  [order |-> kept,
       failures |-> [k \in Keys |-> IF k \in gone THEN 0 ELSE table.failures[k]],
       retryAt |-> [k \in Keys |-> IF k \in gone THEN 0 ELSE table.retryAt[k]]]

Table == [order |-> entries, failures |-> failures, retryAt |-> retryAt]

SetTable(table) ==
  /\ entries' = table.order
  /\ failures' = table.failures
  /\ retryAt' = table.retryAt

(* Counting one failure of key k.                                          *)
Count(table, k) ==
  LET n == table.failures[k] + 1
  IN  [order |-> Append(Without(table.order, {k}), k),
       failures |-> [table.failures EXCEPT ![k] = n],
       retryAt |-> [table.retryAt EXCEPT ![k] = IF n < 4 THEN 0 ELSE clock + Delay(n)]]

-----------------------------------------------------------------------------
FaultyRetryAfter(t, a, next) ==
  LET table == Cleanup(Table)
  IN  /\ SetTable(table)
      /\ attempt' = [attempt EXCEPT ![t] =
                       IF table.retryAt[<<"source", a.source>>] > clock THEN NoAttempt
                       ELSE [a EXCEPT !.at = next]]
      /\ UNCHANGED clock

(* retry_after of do_POST, and once more at the head of login; a positive  *)
(* answer ends the request with 429.                                       *)
RetryAfter(t, a, next) ==
  LET table == Cleanup(Table)
  IN  /\ SetTable(table)
      /\ attempt' = [attempt EXCEPT ![t] =
                       IF \E k \in KeysOf(a) : table.retryAt[k] > clock THEN NoAttempt
                       ELSE [a EXCEPT !.at = next]]
      /\ UNCHANGED clock

Request(t, u, s) ==
  /\ attempt[t] = NoAttempt
  /\ RetryAfter(t, [at |-> "idle", user |-> u, source |-> s], "login")

Login(t) ==
  /\ attempt[t].at = "login"
  /\ RetryAfter(t, attempt[t], "verify")

(* The password was wrong, or the account is unknown or disabled.          *)
Failure(t) ==
  /\ attempt[t].at = "verify"
  /\ LET user == <<"user", attempt[t].user>>
         source == <<"source", attempt[t].source>>
     IN  SetTable(Cleanup(Count(Count(Cleanup(Table), user), source)))
  /\ attempt' = [attempt EXCEPT ![t] = NoAttempt]
  /\ UNCHANGED clock

(* The password was right: both keys are forgotten.                        *)
Success(t) ==
  /\ attempt[t].at = "verify"
  /\ LET gone == KeysOf(attempt[t])
     IN  SetTable([order |-> Without(entries, gone),
                   failures |-> [k \in Keys |-> IF k \in gone THEN 0 ELSE failures[k]],
                   retryAt |-> [k \in Keys |-> IF k \in gone THEN 0 ELSE retryAt[k]]])
  /\ attempt' = [attempt EXCEPT ![t] = NoAttempt]
  /\ UNCHANGED clock

ThrottleNext ==
  \/ TickClock
  \/ \E t \in Threads :
       \/ \E u \in Users, s \in Sources : Request(t, u, s)
       \/ Login(t) \/ Failure(t) \/ Success(t)

ThrottleSpec == ThrottleInit /\ [][ThrottleNext]_throttleVars

-----------------------------------------------------------------------------
ThrottleTypeOK ==
  /\ clock \in 0..MaxClock
  /\ entries \in Seq(Keys)
  /\ failures \in [Keys -> Nat] /\ retryAt \in [Keys -> Nat]
  /\ \A t \in Threads : attempt[t].at \in {"idle", "login", "verify"}

(* The fourth failure closes the door: only the requests that were already *)
(* past it, at most one to each other thread, can still be counted, so a   *)
(* key's failures stay within three plus the threads, and its lockout      *)
(* within what that many failures call for.                                *)
FailuresBounded ==
  \A k \in Keys :
    /\ failures[k] <= 3 + Cardinality(Threads)
    /\ retryAt[k] <= clock + Delay(3 + Cardinality(Threads))
=============================================================================
