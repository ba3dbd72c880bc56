----------------------------- MODULE RateLimiter -----------------------------
(***************************************************************************)
(* rate_limit.rs and its callers: login, setup_first_user and the customer *)
(* gate of the contract pages.                                             *)
(*                                                                         *)
(* Each method holds the write lock from its first line to its last, so it *)
(* is one action; but a request checks, awaits the database, and records   *)
(* its outcome in two separate calls, and in between others run.  The      *)
(* clock counts ticks, finer than the minutes in which the code measures.  *)
(*                                                                         *)
(* An operator whose name ends in Bug is a wrong version of the definition *)
(* below it: nothing uses it, and it is there to show that a property      *)
(* would notice.                                                           *)
(***************************************************************************)
EXTENDS Integers, FiniteSets, Sequences

CONSTANTS
  IPs,             \* addresses of clients
  Requests,        \* concurrent requests to the guarded handlers
  MaxAttempts,     \* 5
  WindowMinutes,   \* 15
  CleanupMinutes,  \* 30
  TicksPerMinute,  \* the clock is finer than num_minutes()
  MaxTime          \* bound on the clock

ASSUME LimitAssumption == MaxAttempts \in Nat \ {0}
ASSUME MinutesAssumption ==
  /\ WindowMinutes \in Nat \ {0} /\ CleanupMinutes \in Nat
  /\ CleanupMinutes >= WindowMinutes
ASSUME ClockAssumption == TicksPerMinute \in Nat \ {0} /\ MaxTime \in Nat
ASSUME RequestsAssumption == IsFiniteSet(Requests)

VARIABLES
  attempts,  \* the map, a function over the addresses that have a tracker
  now,       \* Utc::now()
  checked,   \* the requests that were let through, with their address
  failed     \* history: the times of the failures of an address since the
             \* last success from it

vars == <<attempts, now, checked, failed>>

Times == 0 .. MaxTime

Tracked == DOMAIN attempts

\* Minutes rounded up.
Elapsed_Bug(tracker) ==
  (now - tracker.window_start + TicksPerMinute - 1) \div TicksPerMinute

\* signed_duration_since(window_start).num_minutes(), which truncates.
Elapsed(tracker) == (now - tracker.window_start) \div TicksPerMinute

Without(map, keys) == [k \in DOMAIN map \ keys |-> map[k]]

Init ==
  /\ attempts = [ip \in {} |-> 0]
  /\ now = 0
  /\ checked = [r \in {} |-> 0]
  /\ failed = [ip \in IPs |-> <<>>]

-----------------------------------------------------------------------------
\* retain() swapped: the old trackers stay and the others go.
Stale_Bug == {ip \in Tracked : Elapsed(attempts[ip]) < CleanupMinutes}

\* What the cleanup at the start of every check removes, whoever asks.
Stale == {ip \in Tracked : Elapsed(attempts[ip]) >= CleanupMinutes}

\* The attempt after the last one let through.
Blocked_Bug(ip) ==
  /\ ip \in Tracked
  /\ Elapsed(attempts[ip]) < WindowMinutes
  /\ attempts[ip].count > MaxAttempts

Blocked(ip) ==
  /\ ip \in Tracked
  /\ Elapsed(attempts[ip]) < WindowMinutes
  /\ attempts[ip].count >= MaxAttempts

\* check_rate_limit: cleanup, then the address's own tracker is dropped when its
\* window is over.  A request that is refused ends here.
CheckRateLimit(r, ip) ==
  LET over == {i \in {ip} \cap Tracked : Elapsed(attempts[i]) >= WindowMinutes} IN
  /\ r \notin DOMAIN checked
  /\ attempts' = Without(attempts, Stale \cup over)
  /\ checked' = IF Blocked(ip) THEN checked
                ELSE [q \in DOMAIN checked \cup {r} |->
                        IF q = r THEN ip ELSE checked[q]]
  /\ UNCHANGED <<now, failed>>

Return(r) == checked' = Without(checked, {r})

\* The first failure not counted.
AfterFailure_ZeroBug(ip) ==
  IF ip \notin Tracked \/ Elapsed(attempts[ip]) >= WindowMinutes
  THEN [count |-> 0, window_start |-> now]
  ELSE [attempts[ip] EXCEPT !.count = @ + 1]

\* The window starts again with every failure.
AfterFailure_SlideBug(ip) ==
  IF ip \notin Tracked \/ Elapsed(attempts[ip]) >= WindowMinutes
  THEN [count |-> 1, window_start |-> now]
  ELSE [count |-> attempts[ip].count + 1, window_start |-> now]

\* The entry of an address after one more failure.
AfterFailure(ip) ==
  IF ip \notin Tracked \/ Elapsed(attempts[ip]) >= WindowMinutes
  THEN [count |-> 1, window_start |-> now]
  ELSE [attempts[ip] EXCEPT !.count = @ + 1]

\* record_failed_attempt, the last thing a request does that was turned away.
RecordFailedAttempt(r) ==
  /\ r \in DOMAIN checked
  /\ LET ip == checked[r] IN
     /\ attempts' = [i \in Tracked \cup {ip} |->
          IF i = ip THEN AfterFailure(ip) ELSE attempts[i]]
     /\ failed' = [failed EXCEPT ![ip] = Append(@, now)]
  /\ Return(r)
  /\ UNCHANGED now

\* reset_attempts, when the request is verified.
ResetAttempts(r) ==
  /\ r \in DOMAIN checked
  /\ attempts' = Without(attempts, {checked[r]})
  /\ failed' = [failed EXCEPT ![checked[r]] = <<>>]
  /\ Return(r)
  /\ UNCHANGED now

\* The handler returns in between, with neither: no connection, bcrypt fails, a
\* second setup, the client hangs up.
Leave(r) ==
  /\ r \in DOMAIN checked
  /\ Return(r)
  /\ UNCHANGED <<attempts, now, failed>>

Tick ==
  /\ now < MaxTime
  /\ now' = now + 1
  /\ UNCHANGED <<attempts, checked, failed>>

Next ==
  \/ \E r \in Requests, ip \in IPs : CheckRateLimit(r, ip)
  \/ \E r \in Requests :
       RecordFailedAttempt(r) \/ ResetAttempts(r) \/ Leave(r)
  \/ Tick

Spec == Init /\ [][Next]_vars

-----------------------------------------------------------------------------
(* Properties *)

Tracker == [count : Nat \ {0}, window_start : Times]

\* Well-typed trackers, none of which starts in the future.
TypeOK ==
  /\ attempts = [ip \in Tracked |-> attempts[ip]] /\ Tracked \subseteq IPs
  /\ \A ip \in Tracked : attempts[ip] \in Tracker /\ attempts[ip].window_start <= now
  /\ now \in Times
  /\ checked = [r \in DOMAIN checked |-> checked[r]]
  /\ DOMAIN checked \subseteq Requests
  /\ \A r \in DOMAIN checked : checked[r] \in IPs
  /\ failed \in [IPs -> Seq(Times)]

\* The requests of an address that are past the check.
Under(ip) == {r \in DOMAIN checked : checked[r] = ip}

\* "5 attempts per 15 minutes" (rate_limit.rs:24) is said of requests one after
\* the other.  Checking before and counting after lets every concurrent request
\* through on the same count, and no more than that: the count, with all that may still be
\* added to it, exceeds the limit by less than the number of requests.
MostInOneWindow == MaxAttempts - 1 + Cardinality(Requests)

OverrunBounded ==
  \A ip \in Tracked :
    attempts[ip].count + Cardinality(Under(ip)) <= MostInOneWindow

\* A window that starts with its first failure may end just before the next one
\* starts: any stretch of WindowMinutes, wherever it begins, sees less than two
\* windows' worth of failures.
SlidingBound ==
  LET most == 2 * MostInOneWindow - 1 IN
  \A ip \in IPs : \A i, j \in DOMAIN failed[ip] :
    j - i >= most =>
      failed[ip][j] - failed[ip][i] >= WindowMinutes * TicksPerMinute

\* An address is refused for a cause: since its last success it failed as often
\* as the limit allows, all within the last WindowMinutes.
BlockedForCause ==
  \A ip \in IPs : Blocked(ip) =>
    LET first == Len(failed[ip]) - MaxAttempts + 1 IN
    first >= 1 /\ now - failed[ip][first] < WindowMinutes * TicksPerMinute

\* Within its window a tracker forgets nothing: not by the cleanup that others
\* trigger, only by a success from the address itself.
NothingForgotten ==
  [][\A ip \in Tracked : Elapsed(attempts[ip]) < WindowMinutes =>
       \/ /\ ip \in Tracked'
          /\ attempts'[ip].window_start = attempts[ip].window_start
          /\ attempts'[ip].count >= attempts[ip].count
       \/ \E r \in Under(ip) : ResetAttempts(r)]_vars
=============================================================================
