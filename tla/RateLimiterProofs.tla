-------------------------- MODULE RateLimiterProofs --------------------------
(***************************************************************************)
(* Proofs about RateLimiter, for every limit, window and number of         *)
(* requests.                                                               *)
(***************************************************************************)
EXTENDS RateLimiter, FiniteSetTheorems, TLAPS

LEMMA TypeInit == Init => TypeOK
BY ClockAssumption DEF Init, TypeOK, Tracked, Times

LEMMA TypeNext == TypeOK /\ [Next]_vars => TypeOK'
<1> SUFFICES ASSUME TypeOK, [Next]_vars PROVE TypeOK'
  OBVIOUS
<1> USE DEF TypeOK, Tracked, Times
<1>1. ASSUME NEW r \in Requests, NEW ip \in IPs, CheckRateLimit(r, ip)
      PROVE  TypeOK'
  BY <1>1 DEF CheckRateLimit, Without
<1>2. ASSUME NEW r \in Requests, RecordFailedAttempt(r)
      PROVE  TypeOK'
  <2> DEFINE ip == checked[r]
  <2>1. ip \in IPs
    BY <1>2 DEF RecordFailedAttempt
  <2>2. AfterFailure(ip) \in Tracker /\ AfterFailure(ip).window_start <= now
    BY <2>1 DEF AfterFailure, Tracker
  <2>3. attempts' = [i \in Tracked \cup {ip} |->
          IF i = ip THEN AfterFailure(ip) ELSE attempts[i]]
    BY <1>2 DEF RecordFailedAttempt
  <2>4. failed' \in [IPs -> Seq(Times)]
    <3>1. Append(failed[ip], now) \in Seq(Times)
      BY <2>1
    <3> QED
      BY <1>2, <2>1, <3>1 DEF RecordFailedAttempt
  <2> QED
    BY <1>2, <2>1, <2>2, <2>3, <2>4 DEF RecordFailedAttempt, Return, Without
<1>3. ASSUME NEW r \in Requests, ResetAttempts(r) PROVE TypeOK'
  <2>1. checked[r] \in IPs /\ <<>> \in Seq(Times)
    BY <1>3 DEF ResetAttempts
  <2>2. failed' \in [IPs -> Seq(Times)]
    BY <1>3, <2>1 DEF ResetAttempts
  <2> QED
    BY <1>3, <2>2 DEF ResetAttempts, Return, Without
<1>4. ASSUME NEW r \in Requests, Leave(r) PROVE TypeOK'
  BY <1>4 DEF Leave, Return, Without
<1>5. CASE Tick
  BY <1>5, ClockAssumption DEF Tick, Tracker
<1>6. CASE UNCHANGED vars
  BY <1>6 DEF vars
<1> QED
  BY <1>1, <1>2, <1>3, <1>4, <1>5, <1>6 DEF Next

\* Trackers and requests are well typed in every reachable state.
THEOREM TypeCorrect == Spec => []TypeOK
BY TypeInit, TypeNext, PTL DEF Spec

-----------------------------------------------------------------------------

LEMMA UnderFinite ==
  ASSUME TypeOK, NEW ip
  PROVE  /\ IsFiniteSet(Under(ip)) /\ Cardinality(Under(ip)) \in Nat
         /\ Cardinality(Under(ip)) <= Cardinality(Requests)
         /\ Cardinality(Requests) \in Nat
<1>1. Under(ip) \subseteq Requests
  BY DEF TypeOK, Under
<1> QED
  BY <1>1, RequestsAssumption, FS_Subset, FS_CardinalityType

\* A request that returns leaves one less past the check.
LEMMA UnderReturns ==
  ASSUME TypeOK, NEW r \in DOMAIN checked, Return(r), NEW ip
  PROVE  Cardinality(Under(ip)') =
           Cardinality(Under(ip)) - (IF ip = checked[r] THEN 1 ELSE 0)
<1>1. Under(ip)' = Under(ip) \ {r} /\ (r \in Under(ip) <=> ip = checked[r])
  BY DEF Return, Without, Under
<1>2. Cardinality(Under(ip) \ {r}) =
        IF r \in Under(ip) THEN Cardinality(Under(ip)) - 1 ELSE Cardinality(Under(ip))
  BY UnderFinite, FS_RemoveElement
<1> QED
  BY <1>1, <1>2, UnderFinite

OverrunInv == TypeOK /\ OverrunBounded

LEMMA OverrunNext == OverrunInv /\ [Next]_vars => OverrunInv'
<1> SUFFICES ASSUME OverrunInv, [Next]_vars PROVE OverrunBounded'
  BY TypeNext DEF OverrunInv
<1>0. TypeOK /\ TypeOK' /\ OverrunBounded
  BY TypeNext DEF OverrunInv
<1>a. /\ \A ip : Cardinality(Under(ip)) \in Nat
      /\ \A ip : Cardinality(Under(ip)) <= Cardinality(Requests)
      /\ Cardinality(Requests) \in Nat
  BY <1>0, UnderFinite
<1>b. \A ip \in Tracked : attempts[ip].count \in Nat \ {0}
  BY <1>0 DEF TypeOK, Tracker
<1>1. ASSUME NEW r \in Requests, NEW ip \in IPs, CheckRateLimit(r, ip)
      PROVE  OverrunBounded'
  <2>1. /\ Tracked' \subseteq Tracked
        /\ \A i \in Tracked' : attempts'[i] = attempts[i]
    BY <1>1 DEF CheckRateLimit, Without, Tracked
  <2>2. CASE Blocked(ip)
    BY <1>1, <1>0, <2>1, <2>2
       DEF CheckRateLimit, OverrunBounded, Under, MostInOneWindow
  <2>3. CASE ~Blocked(ip)
    <3>1. \A i : i # ip => Under(i)' = Under(i)
      BY <1>1, <2>3 DEF CheckRateLimit, Under
    <3>2. Cardinality(Under(ip)') <= Cardinality(Requests)
          /\ Cardinality(Under(ip)') \in Nat
      <4>1. Under(ip)' \subseteq Requests
        BY <1>0 DEF TypeOK, Under
      <4> QED
        BY <4>1, RequestsAssumption, FS_Subset, FS_CardinalityType
    <3>3. ip \in Tracked' => attempts[ip].count <= MaxAttempts - 1
      <4>1. ip \in Tracked' => ip \in Tracked /\ ~(Elapsed(attempts[ip]) >= WindowMinutes)
        BY <1>1 DEF CheckRateLimit, Without, Tracked
      <4>2. ip \in Tracked' => Elapsed(attempts[ip]) < WindowMinutes
        <5>1. ip \in Tracked => Elapsed(attempts[ip]) \in Int
          BY <1>0, ClockAssumption DEF Elapsed, TypeOK, Tracker, Times
        <5> QED
          BY <4>1, <5>1, MinutesAssumption
      <4> QED
        BY <1>b, <2>3, <4>1, <4>2, LimitAssumption DEF Blocked
    <3>4. ip \in Tracked' =>
            attempts'[ip].count + Cardinality(Under(ip)') <= MostInOneWindow
      BY <1>b, <2>1, <3>2, <3>3, <1>a, LimitAssumption DEF MostInOneWindow
    <3>5. \A i \in Tracked' \ {ip} :
            attempts'[i].count + Cardinality(Under(i)') <= MostInOneWindow
      BY <1>0, <2>1, <3>1 DEF OverrunBounded
    <3> QED
      BY <3>4, <3>5 DEF OverrunBounded, MostInOneWindow
  <2> QED
    BY <2>2, <2>3
<1>2. ASSUME NEW r \in Requests, RecordFailedAttempt(r) PROVE OverrunBounded'
  <2>1. r \in DOMAIN checked /\ Return(r)
    BY <1>2 DEF RecordFailedAttempt
  <2>2. \A i : Cardinality(Under(i)') =
                 Cardinality(Under(i)) - (IF i = checked[r] THEN 1 ELSE 0)
    BY <1>0, <2>1, UnderReturns
  <2>3. PICK ip : ip = checked[r]
    OBVIOUS
  <2>4. /\ Tracked' = Tracked \cup {ip} /\ attempts'[ip] = AfterFailure(ip)
        /\ \A i \in Tracked' \ {ip} : i \in Tracked /\ attempts'[i] = attempts[i]
    BY <1>2, <2>3 DEF RecordFailedAttempt, Tracked
  <2>5. AfterFailure(ip).count =
          IF ip \notin Tracked \/ Elapsed(attempts[ip]) >= WindowMinutes
          THEN 1 ELSE attempts[ip].count + 1
    BY <1>0 DEF AfterFailure, TypeOK, Tracker
  <2>6. AfterFailure(ip).count + Cardinality(Under(ip)') <= MostInOneWindow
    <3>1. 1 + (Cardinality(Under(ip)) - 1) <= MostInOneWindow
      BY <1>a, LimitAssumption DEF MostInOneWindow
    <3>2. ip \in Tracked =>
            attempts[ip].count + 1 + (Cardinality(Under(ip)) - 1) <= MostInOneWindow
      BY <1>0, <1>a, <1>b, LimitAssumption DEF OverrunBounded, MostInOneWindow
    <3> QED
      BY <1>a, <1>b, <2>2, <2>3, <2>5, <3>1, <3>2
  <2>7. \A i \in Tracked' \ {ip} :
          attempts'[i].count + Cardinality(Under(i)') <= MostInOneWindow
    BY <1>0, <1>a, <1>b, <2>2, <2>3, <2>4 DEF OverrunBounded
  <2> QED
    BY <2>4, <2>6, <2>7 DEF OverrunBounded, MostInOneWindow
<1>3. ASSUME NEW r \in Requests, ResetAttempts(r) \/ Leave(r) PROVE OverrunBounded'
  <2>1. r \in DOMAIN checked /\ Return(r)
    BY <1>3 DEF ResetAttempts, Leave
  <2>2. \A i : Cardinality(Under(i)') =
                 Cardinality(Under(i)) - (IF i = checked[r] THEN 1 ELSE 0)
    BY <1>0, <2>1, UnderReturns
  <2>3. /\ Tracked' \subseteq Tracked
        /\ \A i \in Tracked' : attempts'[i] = attempts[i]
    BY <1>3 DEF ResetAttempts, Leave, Without, Tracked
  <2>4. \A i \in Tracked' :
          attempts'[i].count + Cardinality(Under(i)') <= MostInOneWindow
    <3> TAKE i \in Tracked'
    <3>1. attempts[i].count + Cardinality(Under(i)) <= MostInOneWindow
      BY <1>0, <2>3 DEF OverrunBounded
    <3>2. Cardinality(Under(i)') <= Cardinality(Under(i)) /\ Cardinality(Under(i)') \in Int
      BY <1>a, <2>2
    <3> QED
      BY <1>a, <1>b, <2>3, <3>1, <3>2, LimitAssumption DEF MostInOneWindow
  <2> QED
    BY <2>4 DEF OverrunBounded, MostInOneWindow
<1>4. CASE Tick \/ UNCHANGED vars
  BY <1>0, <1>4 DEF Tick, vars, OverrunBounded, Under, Tracked, MostInOneWindow
<1> QED
  BY <1>1, <1>2, <1>3, <1>4 DEF Next

\* However many requests check before the others record, the count exceeds the
\* limit by less than their number.
THEOREM OverrunHolds == Spec => []OverrunBounded
<1>1. Init => OverrunInv
  BY TypeInit DEF OverrunInv, OverrunBounded, Init, Tracked
<1> QED
  BY <1>1, OverrunNext, PTL DEF Spec, OverrunInv

-----------------------------------------------------------------------------

\* A tracker that is still in its window keeps its start, and is dropped only by
\* a success.
LEMMA WindowKept ==
  ASSUME TypeOK, [Next]_vars, NEW ip \in Tracked,
         Elapsed(attempts[ip]) < WindowMinutes
  PROVE  \/ /\ ip \in Tracked'
            /\ attempts'[ip].window_start = attempts[ip].window_start
            /\ attempts'[ip].count >= attempts[ip].count
         \/ \E r \in Under(ip) : ResetAttempts(r)
<1> DEFINE Kept == /\ ip \in Tracked'
                   /\ attempts'[ip].window_start = attempts[ip].window_start
                   /\ attempts'[ip].count >= attempts[ip].count
<1>a. attempts[ip] \in Tracker /\ Elapsed(attempts[ip]) \in Int
  BY ClockAssumption DEF TypeOK, Tracker, Elapsed, Times
<1>b. attempts[ip].count >= attempts[ip].count
  BY <1>a DEF Tracker
<1>c. ~(Elapsed(attempts[ip]) >= WindowMinutes) /\ ~(Elapsed(attempts[ip]) >= CleanupMinutes)
  BY <1>a, MinutesAssumption
<1>1. ASSUME NEW r \in Requests, NEW i \in IPs, CheckRateLimit(r, i)
      PROVE  Kept
  BY <1>1, <1>b, <1>c DEF CheckRateLimit, Without, Tracked, Stale
<1>2. ASSUME NEW r \in Requests, RecordFailedAttempt(r)
      PROVE  Kept
  <2>1. attempts' = [i \in Tracked \cup {checked[r]} |->
          IF i = checked[r] THEN AfterFailure(checked[r]) ELSE attempts[i]]
    BY <1>2 DEF RecordFailedAttempt
  <2>2. CASE ip = checked[r]
    <3>1. attempts'[ip] = [attempts[ip] EXCEPT !.count = @ + 1] /\ ip \in Tracked'
      BY <1>c, <2>1, <2>2 DEF AfterFailure, Tracked
    <3> QED
      BY <1>a, <3>1 DEF Tracker
  <2>3. CASE ip # checked[r]
    BY <1>b, <2>1, <2>3 DEF Tracked
  <2> QED
    BY <2>2, <2>3
<1>3. ASSUME NEW r \in Requests, ResetAttempts(r)
      PROVE  Kept \/ \E q \in Under(ip) : ResetAttempts(q)
  <2>1. CASE ip = checked[r]
    BY <1>3, <2>1 DEF ResetAttempts, Under
  <2>2. CASE ip # checked[r]
    BY <1>3, <1>b, <2>2 DEF ResetAttempts, Without, Tracked
  <2> QED
    BY <2>1, <2>2
<1>4. CASE Tick \/ UNCHANGED vars \/ \E r \in Requests : Leave(r)
  BY <1>4, <1>b DEF Tick, vars, Leave, Tracked
<1> QED
  BY <1>1, <1>2, <1>3, <1>4 DEF Next

\* A tracker in its window forgets nothing, whoever triggers a cleanup: the
\* cleanup age is no shorter than the window (30 and 15 minutes in the code).
THEOREM NothingIsForgotten == Spec => NothingForgotten
<1>1. TypeOK /\ [Next]_vars =>
        [\A ip \in Tracked : Elapsed(attempts[ip]) < WindowMinutes =>
           \/ /\ ip \in Tracked'
              /\ attempts'[ip].window_start = attempts[ip].window_start
              /\ attempts'[ip].count >= attempts[ip].count
           \/ \E r \in Under(ip) : ResetAttempts(r)]_vars
  BY WindowKept
<1> QED
  BY <1>1, TypeCorrect, PTL DEF Spec, NothingForgotten

-----------------------------------------------------------------------------

\* The count of a tracker is that of the latest failures in the history, and they
\* are no older than its window.
CountedFailures ==
  \A ip \in Tracked : LET f == failed[ip] IN
    /\ attempts[ip].count <= Len(f)
    /\ \A k \in DOMAIN f :
         k > Len(f) - attempts[ip].count => f[k] >= attempts[ip].window_start

CauseInv == TypeOK /\ CountedFailures

LEMMA CauseNext == CauseInv /\ [Next]_vars => CauseInv'
<1> SUFFICES ASSUME CauseInv, [Next]_vars PROVE CountedFailures'
  BY TypeNext DEF CauseInv
<1>0. TypeOK /\ CountedFailures
  BY DEF CauseInv
<1>1. ASSUME Tracked' \subseteq Tracked, \A i \in Tracked' : attempts'[i] = attempts[i],
             \A i \in Tracked' : failed'[i] = failed[i]
      PROVE  CountedFailures'
  BY <1>0, <1>1 DEF CountedFailures
<1>2. ASSUME NEW r \in Requests, NEW ip \in IPs, CheckRateLimit(r, ip)
      PROVE  CountedFailures'
  BY <1>1, <1>2 DEF CheckRateLimit, Without, Tracked
<1>3. ASSUME NEW r \in Requests, RecordFailedAttempt(r)
      PROVE  CountedFailures'
  <2>1. PICK ip \in IPs : ip = checked[r]
    BY <1>0, <1>3 DEF RecordFailedAttempt, TypeOK
  <2>2. /\ Tracked' = Tracked \cup {ip} /\ attempts'[ip] = AfterFailure(ip)
        /\ \A i \in Tracked' \ {ip} : i \in Tracked /\ attempts'[i] = attempts[i]
        /\ failed' = [failed EXCEPT ![ip] = Append(@, now)]
    BY <1>3, <2>1 DEF RecordFailedAttempt, Tracked
  <2>3. failed[ip] \in Seq(Times) /\ now \in Times
    BY <1>0 DEF TypeOK
  <2>4. failed'[ip] = Append(failed[ip], now)
        /\ \A i \in Tracked' \ {ip} : failed'[i] = failed[i]
    BY <1>0, <2>2 DEF TypeOK
  <2>5. /\ Len(failed'[ip]) = Len(failed[ip]) + 1
        /\ DOMAIN failed'[ip] = 1 .. Len(failed[ip]) + 1
        /\ \A k \in 1 .. Len(failed[ip]) : failed'[ip][k] = failed[ip][k]
        /\ failed'[ip][Len(failed[ip]) + 1] = now
        /\ Len(failed[ip]) \in Nat /\ DOMAIN failed[ip] = 1 .. Len(failed[ip])
    BY <2>3, <2>4
  <2>6. CASE ip \notin Tracked \/ Elapsed(attempts[ip]) >= WindowMinutes
    <3>1. attempts'[ip].count = 1 /\ attempts'[ip].window_start = now
      BY <2>2, <2>6 DEF AfterFailure
    <3>2. /\ attempts'[ip].count <= Len(failed'[ip])
          /\ \A k \in DOMAIN failed'[ip] :
               k > Len(failed'[ip]) - attempts'[ip].count =>
                 failed'[ip][k] >= attempts'[ip].window_start
      BY <2>3, <2>5, <3>1 DEF Times
    <3> QED
      BY <1>0, <2>2, <2>4, <3>2 DEF CountedFailures
  <2>7. CASE ~(ip \notin Tracked \/ Elapsed(attempts[ip]) >= WindowMinutes)
    <3>0. attempts[ip] \in Tracker /\ attempts[ip].window_start <= now
      BY <1>0, <2>7 DEF TypeOK
    <3>1. /\ attempts'[ip].count = attempts[ip].count + 1
          /\ attempts'[ip].window_start = attempts[ip].window_start
      BY <2>2, <2>7, <3>0 DEF AfterFailure, Tracker
    <3>2. /\ attempts[ip].count <= Len(failed[ip])
          /\ \A k \in DOMAIN failed[ip] :
               k > Len(failed[ip]) - attempts[ip].count =>
                 failed[ip][k] >= attempts[ip].window_start
      BY <1>0, <2>7 DEF CountedFailures
    <3>3. /\ attempts'[ip].count <= Len(failed'[ip])
          /\ \A k \in DOMAIN failed'[ip] :
               k > Len(failed'[ip]) - attempts'[ip].count =>
                 failed'[ip][k] >= attempts'[ip].window_start
      <4>1. attempts'[ip].count <= Len(failed'[ip])
        BY <2>5, <3>0, <3>1, <3>2 DEF Tracker
      <4>2. ASSUME NEW k \in 1 .. Len(failed[ip]) + 1,
                   k > Len(failed'[ip]) - attempts'[ip].count
            PROVE  failed'[ip][k] >= attempts'[ip].window_start
        <5>1. CASE k = Len(failed[ip]) + 1
          BY <2>5, <3>0, <3>1, <5>1
        <5>2. CASE k # Len(failed[ip]) + 1
          <6>1. k \in 1 .. Len(failed[ip]) /\ k > Len(failed[ip]) - attempts[ip].count
            BY <2>5, <3>0, <3>1, <4>2, <5>2 DEF Tracker
          <6> QED
            BY <2>5, <3>1, <3>2, <6>1
        <5> QED
          BY <5>1, <5>2
      <4> QED
        BY <2>5, <4>1, <4>2
    <3> QED
      BY <1>0, <2>2, <2>4, <3>3 DEF CountedFailures
  <2> QED
    BY <2>6, <2>7
<1>4. ASSUME NEW r \in Requests, ResetAttempts(r) PROVE CountedFailures'
  <2>1. /\ Tracked' \subseteq Tracked /\ checked[r] \notin Tracked'
        /\ \A i \in Tracked' : attempts'[i] = attempts[i]
    BY <1>4 DEF ResetAttempts, Without, Tracked
  <2>2. \A i \in Tracked' : failed'[i] = failed[i]
    BY <1>0, <1>4, <2>1 DEF ResetAttempts, TypeOK
  <2> QED
    BY <1>1, <2>1, <2>2
<1>5. CASE Tick \/ UNCHANGED vars \/ \E r \in Requests : Leave(r)
  BY <1>1, <1>5 DEF Tick, vars, Leave, Tracked
<1> QED
  BY <1>2, <1>3, <1>4, <1>5 DEF Next

\* A minute that has not ended.
LEMMA MinuteEnds ==
  ASSUME NEW d \in Nat, NEW ticks \in Nat \ {0}
  PROVE  d \div ticks \in Int /\ d < (d \div ticks + 1) * ticks
OBVIOUS

\* No address is refused without having failed MaxAttempts times within the last
\* WindowMinutes.
THEOREM BlocksHaveACause == Spec => []BlockedForCause
<1>1. Init => CauseInv
  BY TypeInit DEF CauseInv, CountedFailures, Init, Tracked
<1>2. CauseInv => BlockedForCause
  <2> SUFFICES ASSUME CauseInv, NEW ip \in IPs, Blocked(ip),
                      NEW first, first = Len(failed[ip]) - MaxAttempts + 1
               PROVE  first >= 1 /\ now - failed[ip][first] < WindowMinutes * TicksPerMinute
    BY DEF BlockedForCause
  <2>1. /\ ip \in Tracked /\ attempts[ip] \in Tracker /\ now \in Nat
        /\ failed[ip] \in Seq(Times) /\ attempts[ip].window_start <= now
    BY DEF CauseInv, TypeOK, Blocked, Times
  <2>2. /\ first >= 1 /\ first \in DOMAIN failed[ip]
        /\ first > Len(failed[ip]) - attempts[ip].count
    BY <2>1, LimitAssumption DEF Blocked, CauseInv, CountedFailures, Tracker
  <2>3. failed[ip][first] >= attempts[ip].window_start /\ failed[ip][first] \in Nat
    <3>1. failed[ip][first] \in Times
      BY <2>1, <2>2
    <3>2. \A k \in DOMAIN failed[ip] :
            k > Len(failed[ip]) - attempts[ip].count =>
              failed[ip][k] >= attempts[ip].window_start
      BY <2>1 DEF CauseInv, CountedFailures
    <3> QED
      BY <2>2, <3>1, <3>2 DEF Times
  <2>4. now - attempts[ip].window_start < WindowMinutes * TicksPerMinute
    <3>1. PICK d \in Nat : d = now - attempts[ip].window_start
      BY <2>1 DEF Tracker, Times
    <3>2. d \div TicksPerMinute < WindowMinutes
      BY <3>1 DEF Blocked, Elapsed
    <3>3. d < (d \div TicksPerMinute + 1) * TicksPerMinute
          /\ d \div TicksPerMinute \in Int
      BY <3>1, ClockAssumption, MinuteEnds
    <3>4. \A q \in Int : q < WindowMinutes =>
            (q + 1) * TicksPerMinute <= WindowMinutes * TicksPerMinute
      BY MinutesAssumption, ClockAssumption
    <3>5. \A q \in Int : (q + 1) * TicksPerMinute \in Int
      BY ClockAssumption
    <3>6. WindowMinutes * TicksPerMinute \in Int
      BY MinutesAssumption, ClockAssumption
    <3> QED
      BY <3>1, <3>2, <3>3, <3>4, <3>5, <3>6
  <2> QED
    BY <2>1, <2>2, <2>3, <2>4, MinutesAssumption, ClockAssumption DEF Tracker, Times
<1> QED
  BY <1>1, <1>2, CauseNext, PTL DEF Spec, CauseInv

-----------------------------------------------------------------------------
(* Any stretch of WindowMinutes *)

WindowTicks == WindowMinutes * TicksPerMinute

\* Of the failures f, the last count of which are those of the window that
\* started at start: the earlier ones came no later, and all but those of the
\* window before it (and of these, its first) at least a window earlier.
Behind(f, count, start) ==
  \A i \in DOMAIN f :
    /\ i <= Len(f) - count + 1 => f[i] <= start
    /\ i <= Len(f) - count - MostInOneWindow + 1 => f[i] + WindowTicks <= start

\* Those of the last window, but for its first, are the only ones of late.
Away(f, t) ==
  \A i \in DOMAIN f : i <= Len(f) - MostInOneWindow + 1 => f[i] + WindowTicks <= t

SpreadOut(f) ==
  \A i, j \in DOMAIN f :
    j - i >= 2 * MostInOneWindow - 1 => f[j] - f[i] >= WindowTicks

PacedOn(ip) ==
  /\ SpreadOut(failed[ip])
  /\ \A i \in DOMAIN failed[ip] : failed[ip][i] <= now
  /\ ip \in Tracked =>
       Behind(failed[ip], attempts[ip].count, attempts[ip].window_start)
  /\ ip \notin Tracked => Away(failed[ip], now)

PacedInv == OverrunInv /\ \A ip \in IPs : PacedOn(ip)

LEMMA LimitsAreNumbers ==
  /\ WindowTicks \in Nat
  /\ MostInOneWindow \in Nat
  /\ Requests # {} => MostInOneWindow >= 1
<1>1. WindowTicks \in Nat
  BY MinutesAssumption, ClockAssumption DEF WindowTicks
<1>2. Cardinality(Requests) \in Nat /\ (Requests # {} => Cardinality(Requests) # 0)
  BY RequestsAssumption, FS_CardinalityType, FS_EmptySet
<1> QED
  BY <1>1, <1>2, LimitAssumption DEF MostInOneWindow

\* A window is over after WindowTicks, and not before.
LEMMA WindowLasts ==
  ASSUME TypeOK, NEW ip \in Tracked
  PROVE  Elapsed(attempts[ip]) >= WindowMinutes =>
           attempts[ip].window_start + WindowTicks <= now
<1>1. PICK d \in Nat : d = now - attempts[ip].window_start
  BY DEF TypeOK, Tracker, Times
<1>2. (d \div TicksPerMinute) * TicksPerMinute <= d /\ d \div TicksPerMinute \in Nat
  BY ClockAssumption
<1>3. \A q \in Nat : q >= WindowMinutes =>
        /\ q * TicksPerMinute >= WindowMinutes * TicksPerMinute
        /\ q * TicksPerMinute \in Int
  BY MinutesAssumption, ClockAssumption
<1>4. /\ attempts[ip].window_start \in Int /\ now \in Int /\ WindowTicks \in Int
  BY LimitsAreNumbers DEF TypeOK, Tracker, Times
<1>5. ASSUME Elapsed(attempts[ip]) >= WindowMinutes
      PROVE  attempts[ip].window_start + WindowTicks <= now
  <2>1. d \div TicksPerMinute >= WindowMinutes
    BY <1>1, <1>5 DEF Elapsed
  <2>2. d >= WindowTicks
    BY <1>2, <1>3, <1>4, <2>1 DEF WindowTicks
  <2> QED
    BY <1>1, <1>4, <2>2
<1> QED
  BY <1>5

\* A tracker that is dropped or replaced is over.
LEMMA DroppedIsOver ==
  ASSUME TypeOK, NEW r \in Requests, NEW i \in IPs, CheckRateLimit(r, i),
         NEW ip \in Tracked, ip \notin Tracked'
  PROVE  Elapsed(attempts[ip]) >= WindowMinutes
<1>1. Elapsed(attempts[ip]) \in Int
  BY ClockAssumption DEF TypeOK, Tracker, Elapsed, Times
<1> QED
  BY <1>1, MinutesAssumption DEF CheckRateLimit, Without, Tracked, Stale

LEMMA TimesOf ==
  ASSUME NEW f \in Seq(Times)
  PROVE  /\ Len(f) \in Nat /\ DOMAIN f = 1 .. Len(f)
         /\ \A i \in 1 .. Len(f) : f[i] \in Nat
<1>1. \A i \in 1 .. Len(f) : f[i] \in Times
  OBVIOUS
<1>2. \A t \in Times : t \in Nat
  BY DEF Times
<1>3. Len(f) \in Nat /\ DOMAIN f = 1 .. Len(f)
  OBVIOUS
<1>4. \A i \in 1 .. Len(f) : f[i] \in Nat
  BY <1>1, <1>2
<1> QED
  BY <1>3, <1>4

\* When a window is over, at most one window's worth of failures is recent.
LEMMA OverIsAway ==
  ASSUME NEW f \in Seq(Times), NEW count \in Nat, count <= MostInOneWindow,
         NEW start \in Nat, NEW t \in Nat, start + WindowTicks <= t,
         Behind(f, count, start)
  PROVE  Away(f, t)
<1> SUFFICES ASSUME NEW i \in DOMAIN f, i <= Len(f) - MostInOneWindow + 1
             PROVE  f[i] + WindowTicks <= t
  BY DEF Away
<1>1. i \in Nat /\ f[i] \in Nat /\ Len(f) \in Nat
  BY TimesOf
<1>2. i <= Len(f) - count + 1
  BY <1>1, LimitsAreNumbers
<1>3. f[i] <= start
  BY <1>2 DEF Behind
<1> QED
  BY <1>1, <1>3, LimitsAreNumbers

\* One more failure starts a window, when most others are away,
LEMMA StartsWindow ==
  ASSUME NEW f \in Seq(Times), NEW t \in Times, SpreadOut(f), Away(f, t),
         \A i \in DOMAIN f : f[i] <= t, MostInOneWindow >= 1
  PROVE  SpreadOut(Append(f, t)) /\ Behind(Append(f, t), 1, t)
<1> DEFINE g == Append(f, t)  n == Len(f)
<1>1. /\ n \in Nat /\ Len(g) = n + 1 /\ DOMAIN g = 1 .. n + 1 /\ DOMAIN f = 1 .. n
      /\ \A i \in 1 .. n : g[i] = f[i] /\ f[i] \in Nat /\ f[i] <= t
      /\ g[n + 1] = t /\ t \in Nat
  <2>1. \A i \in 1 .. Len(f) : Append(f, t)[i] = f[i]
    OBVIOUS
  <2>2. t \in Nat
    BY DEF Times
  <2> QED
    BY <2>1, <2>2, TimesOf
<1> HIDE DEF g, n
<1>2. \A i \in 1 .. n : i <= n - MostInOneWindow + 1 => f[i] + WindowTicks <= t
  BY <1>1 DEF Away, n
<1>3. ASSUME NEW i \in 1 .. n + 1, NEW j \in 1 .. n + 1,
             j - i >= 2 * MostInOneWindow - 1
      PROVE  g[j] - g[i] >= WindowTicks
  <2>1. CASE j = n + 1
    <3>1. i \in 1 .. n /\ i <= n - MostInOneWindow + 1
      BY <1>1, <1>3, <2>1, LimitsAreNumbers
    <3> QED
      BY <1>1, <1>2, <2>1, <3>1, LimitsAreNumbers
  <2>2. CASE j # n + 1
    <3>1. i \in 1 .. n /\ j \in 1 .. n
      BY <1>1, <1>3, <2>2, LimitsAreNumbers
    <3> QED
      BY <1>1, <1>3, <3>1 DEF SpreadOut
  <2> QED
    BY <2>1, <2>2
<1>4. Behind(g, 1, t)
  <2> SUFFICES ASSUME NEW i \in 1 .. n + 1
               PROVE  /\ g[i] <= t
                      /\ i <= n + 1 - MostInOneWindow => g[i] + WindowTicks <= t
    BY <1>1, LimitsAreNumbers DEF Behind
  <2>1. g[i] <= t
    BY <1>1
  <2>2. ASSUME i <= n + 1 - MostInOneWindow PROVE g[i] + WindowTicks <= t
    <3>1. i \in 1 .. n
      BY <1>1, <2>2, LimitsAreNumbers
    <3> QED
      BY <1>1, <1>2, <2>2, <3>1, LimitsAreNumbers
  <2> QED
    BY <2>1, <2>2
<1> QED
  BY <1>1, <1>3, <1>4 DEF SpreadOut, g

\* or goes on with one that has room for it.
LEMMA GoesOnInWindow ==
  ASSUME NEW f \in Seq(Times), NEW t \in Times, SpreadOut(f),
         \A i \in DOMAIN f : f[i] <= t,
         NEW count \in Nat \ {0}, count + 1 <= MostInOneWindow,
         NEW start \in Nat, start <= t, Behind(f, count, start)
  PROVE  SpreadOut(Append(f, t)) /\ Behind(Append(f, t), count + 1, start)
<1> DEFINE g == Append(f, t)  n == Len(f)
<1>1. /\ n \in Nat /\ Len(g) = n + 1 /\ DOMAIN g = 1 .. n + 1 /\ DOMAIN f = 1 .. n
      /\ \A i \in 1 .. n : g[i] = f[i] /\ f[i] \in Nat /\ f[i] <= t
      /\ g[n + 1] = t /\ t \in Nat
  <2>1. \A i \in 1 .. Len(f) : Append(f, t)[i] = f[i]
    OBVIOUS
  <2>2. t \in Nat
    BY DEF Times
  <2> QED
    BY <2>1, <2>2, TimesOf
<1>2. \A i \in 1 .. n :
        /\ i <= n - count + 1 => f[i] <= start
        /\ i <= n - count - MostInOneWindow + 1 => f[i] + WindowTicks <= start
  BY <1>1 DEF Behind
<1> HIDE DEF g, n
<1>3. ASSUME NEW i \in 1 .. n + 1, NEW j \in 1 .. n + 1,
             j - i >= 2 * MostInOneWindow - 1
      PROVE  g[j] - g[i] >= WindowTicks
  <2>1. CASE j = n + 1
    <3>1. i \in 1 .. n /\ i <= n - count - MostInOneWindow + 1
      BY <1>1, <1>3, <2>1, LimitsAreNumbers
    <3> QED
      BY <1>1, <1>2, <2>1, <3>1, LimitsAreNumbers
  <2>2. CASE j # n + 1
    <3>1. i \in 1 .. n /\ j \in 1 .. n
      BY <1>1, <1>3, <2>2, LimitsAreNumbers
    <3> QED
      BY <1>1, <1>3, <3>1 DEF SpreadOut
  <2> QED
    BY <2>1, <2>2
<1>4. Behind(g, count + 1, start)
  <2> SUFFICES ASSUME NEW i \in 1 .. n + 1
               PROVE  /\ i <= n - count + 1 => g[i] <= start
                      /\ i <= n - count - MostInOneWindow + 1 =>
                           g[i] + WindowTicks <= start
    BY <1>1, LimitsAreNumbers DEF Behind
  <2>1. ASSUME i <= n - count + 1 PROVE g[i] <= start
    <3>1. i \in 1 .. n
      BY <1>1, <2>1
    <3> QED
      BY <1>1, <1>2, <2>1, <3>1
  <2>2. ASSUME i <= n - count - MostInOneWindow + 1 PROVE g[i] + WindowTicks <= start
    <3>1. i \in 1 .. n
      BY <1>1, <2>2, LimitsAreNumbers
    <3> QED
      BY <1>1, <1>2, <2>2, <3>1
  <2> QED
    BY <2>1, <2>2
<1> QED
  BY <1>1, <1>3, <1>4 DEF SpreadOut, g

LEMMA PacedRecord ==
  ASSUME PacedInv, NEW r \in Requests, RecordFailedAttempt(r)
  PROVE  \A ip \in IPs : PacedOn(ip)'
<1>1. PICK ip \in IPs : ip = checked[r]
  BY DEF RecordFailedAttempt, PacedInv, OverrunInv, TypeOK
<1>2. /\ Tracked' = Tracked \cup {ip} /\ attempts'[ip] = AfterFailure(ip)
      /\ \A i \in Tracked \ {ip} : attempts'[i] = attempts[i]
      /\ failed'[ip] = Append(failed[ip], now)
      /\ \A i \in IPs \ {ip} : failed'[i] = failed[i]
      /\ UNCHANGED now
  BY <1>1 DEF RecordFailedAttempt, Tracked, PacedInv, OverrunInv, TypeOK
<1>3. ASSUME NEW i \in IPs, i # ip PROVE PacedOn(i)'
  BY <1>2, <1>3 DEF PacedInv, PacedOn, SpreadOut, Behind, Away
<1>4. PICK f \in Seq(Times), t \in Times :
        /\ f = failed[ip] /\ t = now /\ SpreadOut(f)
        /\ \A i \in DOMAIN f : f[i] <= t
        /\ ip \in Tracked => Behind(f, attempts[ip].count, attempts[ip].window_start)
        /\ ip \notin Tracked => Away(f, t)
  BY DEF PacedInv, OverrunInv, TypeOK, PacedOn
<1>5. t \in Nat /\ MostInOneWindow >= 1 /\ MostInOneWindow \in Nat
  BY LimitsAreNumbers DEF Times
<1>6. \A i \in DOMAIN Append(f, t) : Append(f, t)[i] <= t
  BY <1>4, <1>5
<1>7. ASSUME NEW n, NEW s, attempts'[ip].count = n, attempts'[ip].window_start = s,
             SpreadOut(Append(f, t)), Behind(Append(f, t), n, s)
      PROVE  PacedOn(ip)'
  BY <1>2, <1>4, <1>6, <1>7 DEF PacedOn, SpreadOut, Behind
<1>8. ASSUME ip \in Tracked
      PROVE  /\ attempts[ip].count \in Nat \ {0}
             /\ attempts[ip].count + 1 <= MostInOneWindow
             /\ attempts[ip].window_start \in Nat /\ attempts[ip].window_start <= t
             /\ attempts[ip] \in Tracker
  <2>1. attempts[ip] \in Tracker /\ attempts[ip].window_start <= now
    BY <1>8 DEF PacedInv, OverrunInv, TypeOK
  <2>2. /\ Cardinality(Under(ip)) \in Nat
        /\ IsFiniteSet(Under(ip)) /\ r \in Under(ip)
    BY <1>1, UnderFinite DEF PacedInv, OverrunInv, RecordFailedAttempt, Under
  <2>3. Cardinality(Under(ip)) >= 1
    BY <2>2, FS_EmptySet
  <2>4. attempts[ip].count + Cardinality(Under(ip)) <= MostInOneWindow
    BY <1>8 DEF PacedInv, OverrunInv, OverrunBounded
  <2> QED
    BY <1>4, <1>5, <2>1, <2>2, <2>3, <2>4 DEF Tracker, Times
<1>9. ASSUME ip \notin Tracked \/ Elapsed(attempts[ip]) >= WindowMinutes
      PROVE  PacedOn(ip)'
  <2>1. attempts'[ip].count = 1 /\ attempts'[ip].window_start = t
    BY <1>2, <1>4, <1>9 DEF AfterFailure
  <2>2. Away(f, t)
    <3>1. CASE ip \in Tracked
      <4>1. PICK n, s : n = attempts[ip].count /\ s = attempts[ip].window_start
        OBVIOUS
      <4>2. s + WindowTicks <= t /\ n \in Nat /\ n <= MostInOneWindow /\ s \in Nat
        BY <1>4, <1>5, <1>8, <1>9, <3>1, <4>1, WindowLasts DEF PacedInv, OverrunInv
      <4> QED
        BY <1>4, <1>5, <3>1, <4>1, <4>2, OverIsAway
    <3> QED
      BY <1>4, <3>1
  <2>3. SpreadOut(Append(f, t)) /\ Behind(Append(f, t), 1, t)
    BY <1>4, <1>5, <2>2, StartsWindow
  <2> QED
    BY <1>7, <2>1, <2>3
<1>10. ASSUME ~(ip \notin Tracked \/ Elapsed(attempts[ip]) >= WindowMinutes)
       PROVE  PacedOn(ip)'
  <2>1. PICK n, s : n = attempts[ip].count /\ s = attempts[ip].window_start
    OBVIOUS
  <2>2. attempts'[ip].count = n + 1 /\ attempts'[ip].window_start = s
    BY <1>2, <1>8, <1>10, <2>1 DEF AfterFailure, Tracker
  <2>3. SpreadOut(Append(f, t)) /\ Behind(Append(f, t), n + 1, s)
    BY <1>4, <1>8, <1>10, <2>1, GoesOnInWindow
  <2> QED
    BY <1>7, <2>2, <2>3
<1> QED
  BY <1>3, <1>9, <1>10

LEMMA PacedNext == PacedInv /\ [Next]_vars => PacedInv'
<1> SUFFICES ASSUME PacedInv, [Next]_vars PROVE \A ip \in IPs : PacedOn(ip)'
  BY OverrunNext DEF PacedInv
<1>1. TypeOK /\ OverrunInv /\ \A ip \in IPs : PacedOn(ip)
  BY DEF PacedInv, OverrunInv
<1>2. \A ip \in IPs : failed[ip] \in Seq(Times)
  BY <1>1 DEF TypeOK
<1>3. now \in Nat
  BY <1>1 DEF TypeOK, Times
<1>4. ASSUME NEW r \in Requests, NEW i \in IPs, CheckRateLimit(r, i), NEW ip \in IPs
      PROVE  PacedOn(ip)'
  <2>1. /\ Tracked' \subseteq Tracked /\ \A j \in Tracked' : attempts'[j] = attempts[j]
        /\ UNCHANGED <<failed, now>>
    BY <1>4 DEF CheckRateLimit, Without, Tracked
  <2>2. CASE ip \in Tracked /\ ip \notin Tracked'
    <3>1. PICK f, n, s :
            /\ f \in Seq(Times) /\ f = failed[ip] /\ n = attempts[ip].count
            /\ s = attempts[ip].window_start /\ Behind(f, n, s)
      BY <1>1, <1>2, <2>2 DEF PacedOn
    <3>2. s + WindowTicks <= now
      BY <1>1, <1>4, <2>2, <3>1, DroppedIsOver, WindowLasts
    <3>3. n \in Nat /\ s \in Nat /\ n <= MostInOneWindow
      <4>1. attempts[ip] \in Tracker
        BY <1>1, <2>2 DEF TypeOK
      <4>2. n \in Nat /\ s \in Nat
        BY <3>1, <4>1 DEF Tracker, Times
      <4>3. Cardinality(Under(ip)) \in Nat
        BY <1>1, UnderFinite
      <4>4. n + Cardinality(Under(ip)) <= MostInOneWindow
        BY <1>1, <2>2, <3>1 DEF OverrunInv, OverrunBounded
      <4> QED
        BY <4>2, <4>3, <4>4, LimitsAreNumbers
    <3>4. Away(f, now)
      BY <1>3, <3>1, <3>2, <3>3, OverIsAway
    <3> QED
      BY <1>1, <2>1, <2>2, <3>1, <3>4 DEF PacedOn, SpreadOut, Away
  <2>3. CASE ~(ip \in Tracked /\ ip \notin Tracked')
    BY <1>1, <2>1, <2>3 DEF PacedOn, SpreadOut, Behind, Away
  <2> QED
    BY <2>2, <2>3
<1>5. ASSUME NEW r \in Requests, ResetAttempts(r), NEW ip \in IPs
      PROVE  PacedOn(ip)'
  <2>1. /\ Tracked' = Tracked \ {checked[r]} /\ UNCHANGED now
        /\ \A i \in Tracked' : attempts'[i] = attempts[i]
    BY <1>5 DEF ResetAttempts, Without, Tracked
  <2>2. /\ ip = checked[r] => failed'[ip] = <<>>
        /\ ip # checked[r] => failed'[ip] = failed[ip]
    BY <1>1, <1>5 DEF ResetAttempts, TypeOK
  <2>3. CASE ip = checked[r]
    BY <2>1, <2>2, <2>3 DEF PacedOn, SpreadOut, Away
  <2>4. CASE ip # checked[r]
    BY <1>1, <2>1, <2>2, <2>4 DEF PacedOn, SpreadOut, Behind, Away
  <2> QED
    BY <2>3, <2>4
<1>6. ASSUME Tick, NEW ip \in IPs PROVE PacedOn(ip)'
  <2>1. now' = now + 1 /\ UNCHANGED <<attempts, failed, Tracked>>
    BY <1>6 DEF Tick, Tracked
  <2>2. \A i \in DOMAIN failed[ip] : failed[ip][i] \in Nat
    BY <1>2, TimesOf
  <2> QED
    BY <1>1, <1>3, <2>1, <2>2, LimitsAreNumbers DEF PacedOn, SpreadOut, Behind, Away
<1>7. CASE UNCHANGED vars \/ \E r \in Requests : Leave(r)
  BY <1>1, <1>7 DEF vars, Leave, Tracked, PacedOn, SpreadOut, Behind, Away
<1> QED
  BY <1>4, <1>5, <1>6, <1>7, PacedRecord DEF Next

\* In any stretch of WindowMinutes, wherever it begins, an address fails less often
\* than two windows allow, however its requests overlap.
THEOREM FailuresAreSpread == Spec => []SlidingBound
<1>1. Init => PacedInv
  <2> SUFFICES ASSUME Init PROVE PacedInv
    OBVIOUS
  <2>1. Tracked = {} /\ \A ip \in IPs : failed[ip] = <<>>
    BY DEF Init, Tracked
  <2>2. OverrunInv
    BY <2>1, TypeInit DEF OverrunInv, OverrunBounded
  <2> QED
    BY <2>1, <2>2 DEF PacedInv, PacedOn, SpreadOut, Away
<1>2. PacedInv => SlidingBound
  BY DEF PacedInv, PacedOn, SpreadOut, SlidingBound, WindowTicks
<1> QED
  BY <1>1, <1>2, PacedNext, PTL DEF Spec
=============================================================================
