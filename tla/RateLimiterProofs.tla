-------------------------- MODULE RateLimiterProofs --------------------------
(***************************************************************************)
(* Proofs about the rate limiter, for any number of requests, any limit,   *)
(* window and delay, and any distance between the clocks of the hosts.     *)
(***************************************************************************)
EXTENDS RateLimiter, FiniteSetTheorems, TLAPS

Request ==
  [kind : Kinds, pc : {"idle", "pipeline", "endpoint", "write", "invalidate", "blocked", "ok"},
   run : {1, 2}, read : Nat, score : Nat, found : BOOLEAN, commits : 0 .. 2, overtaken : BOOLEAN, stale : BOOLEAN]

(* What is true of a request, given the row.  An endpoint that is about to be  *)
(* called the n-th time has committed less than n times, that of a POST never.  *)
(* Who has committed and was not overtaken finds the row as it has left it, so *)
(* that it does not get to write again; and a row that was found is there       *)
(* unless another request has been faster.                                     *)
Sound(q, value) ==
  /\ q.commits <= q.run
  /\ q.pc \in {"endpoint", "write"} =>
       q.commits < q.run /\ (q.kind = "assign" => q.commits = 0)
  /\ q.pc = "pipeline" => q.commits = 0
  /\ q.kind = "read" => q.stale = FALSE
  /\ q.commits > 1 => q.overtaken = TRUE
  /\ q.commits > 0 /\ q.overtaken = FALSE /\ q.kind = "revoke" => value = FALSE
  /\ q.pc = "write" =>
       /\ q.commits > 0 => q.overtaken = TRUE
       /\ q.kind = "revoke" /\ q.found = FALSE => q.overtaken = TRUE
  /\ q.pc = "ok" => q.stale = FALSE

\* A pipeline is in time, and its score is the time at which the clock was read
\* or ahead of it by no more than the skew.
InTime(q, time) ==
  q.pc = "pipeline" =>
    /\ q.read <= time /\ time <= q.read + Delay
    /\ q.read <= q.score /\ q.score <= q.read + setup.skew

RequestInv == \A r \in Requests : Sound(request[r], row) /\ InTime(request[r], now)

\* Time does not go back along the log, and no score is far from its time.
LogOrdered ==
  /\ \A i \in Counted : /\ log[i].at <= now
                        /\ log[i].at <= log[i].score + Delay
                        /\ log[i].score <= log[i].at + setup.skew
  /\ \A i, j \in Counted : i < j => log[i].at <= log[j].at

\* What is not in the set any more is out of the window of a later request, or
\* of the time; and the set is empty when its time to live is over.
KeptInv ==
  /\ \A i \in Counted \ kept : \/ log[i].at + Window <= now
                               \/ \E j \in Counted : log[i].score + Window <= log[j].score
  /\ kept # {} => log[count].at + Window > now

LimiterInv ==
  /\ TypeOK
  /\ RequestInv
  /\ LogOrdered
  /\ KeptInv
  /\ AtMostMaxRequests /\ RefusedForCause /\ RetryAfterHonoured

\* The history of what Redis has counted.
logVars == <<setup, now, count, log, kept>>

-----------------------------------------------------------------------------
(* Requests. *)

\* What the setup allows.
LEMMA SetupTyped ==
  ASSUME TypeOK
  PROVE  /\ setup.kinds \subseteq Kinds /\ setup.skew \in Nat /\ setup.until \in Nat
         /\ setup.entries \in 0 .. MaxEntries
BY LimiterAssumption DEF TypeOK

\* A request that is not under way.
LEMMA IdleTyped ==
  /\ Idle \in Request /\ Idle.kind = "read" /\ Idle.pc = "idle" /\ Idle.run = 1
  /\ Idle.commits = 0 /\ Idle.overtaken = FALSE /\ Idle.stale = FALSE
BY DEF Idle, Request, Kinds

\* Steps that move one request and leave all else alone.
LEMMA MoveKeeps ==
  ASSUME LimiterInv, NEW r \in Requests, NEW q \in Request,
         request' = [request EXCEPT ![r] = q], UNCHANGED <<logVars, row>>,
         Sound(q, row), InTime(q, now)
  PROVE  LimiterInv'
<1>1. (request \in [Requests -> Request])'
  BY DEF LimiterInv, TypeOK, Request
<1>2. TypeOK'
  BY <1>1 DEF LimiterInv, TypeOK, logVars, Request
<1>3. RequestInv'
  <2> SUFFICES ASSUME NEW x \in Requests
               PROVE  (Sound(request[x], row) /\ InTime(request[x], now))'
    BY DEF RequestInv
  <2>1. request'[x] = IF x = r THEN q ELSE request[x]
    BY DEF LimiterInv, TypeOK
  <2>2. Sound(request'[x], row) /\ InTime(request'[x], now)
    BY <2>1 DEF LimiterInv, RequestInv
  <2> QED
    BY <2>2 DEF Sound, InTime, logVars
<1>4. (LogOrdered /\ KeptInv /\ AtMostMaxRequests /\ RefusedForCause /\ RetryAfterHonoured)'
  BY DEF LimiterInv, LogOrdered, KeptInv, AtMostMaxRequests, RefusedForCause, RetryAfterHonoured,
         Counted, logVars
<1> QED
  BY <1>2, <1>3, <1>4 DEF LimiterInv

\* A request that fails, or that is called for the second time.
LEMMA FailureKeeps ==
  ASSUME LimiterInv, NEW r \in Requests, Failure(r), UNCHANGED <<logVars, row>>
  PROVE  LimiterInv'
<1>1. Idle \in Request /\ Sound(Idle, row) /\ InTime(Idle, now)
  BY DEF Idle, Request, Kinds, Sound, InTime
<1> QED
  BY <1>1, MoveKeeps DEF Failure

\* A request whose endpoint is called, and that has committed less often before.
Called(o, run) ==
  [o EXCEPT !.pc = IF o.pc # "pipeline" /\ o.kind = "assign" THEN "blocked" ELSE "endpoint",
            !.run = run, !.read = 0, !.score = 0]

LEMMA CalledTyped ==
  ASSUME TypeOK, NEW r \in Requests, NEW run \in {1, 2}, request[r].commits < run, Sound(request[r], row)
  PROVE  LET q == Called(request[r], run) IN
         q \in Request /\ q.pc # "pipeline" /\ Sound(q, row) /\ InTime(q, now)
<1> DEFINE o == request[r]
           q == Called(o, run)
           pc == IF o.pc # "pipeline" /\ o.kind = "assign" THEN "blocked" ELSE "endpoint"
<1>1. o \in Request
  BY DEF TypeOK, Request
<1>2. q = [o EXCEPT !.pc = pc, !.run = run, !.read = 0, !.score = 0] /\ pc \in {"blocked", "endpoint"}
  BY <1>1 DEF Called, Request
<1>3. /\ q.pc = pc /\ q.run = run /\ q.kind = o.kind /\ q.commits = o.commits
      /\ q.overtaken = o.overtaken /\ q.stale = o.stale /\ q \in Request
  <2> HIDE DEF pc, q
  <2> QED
    BY <1>1, <1>2 DEF Request
<1>4. Sound(o, row) /\ o.commits < run /\ o.commits \in 0 .. 2
  BY <1>1 DEF Request
<1>5. pc = "endpoint" /\ o.kind = "assign" => o.commits = 0
  BY <1>4 DEF Sound
<1> HIDE DEF q, o, pc
<1>6. Sound(q, row)
  BY <1>2, <1>3, <1>4, <1>5 DEF Sound
<1>7. InTime(q, now) /\ q.pc # "pipeline"
  BY <1>2, <1>3 DEF InTime
<1> QED
  BY <1>3, <1>6, <1>7 DEF q, o

LEMMA CallNextCalls ==
  ASSUME NEW r, NEW run, CallNext(r, run), TypeOK, r \in Requests
  PROVE  request' = [request EXCEPT ![r] = Called(request[r], run)]
BY DEF CallNext, Called, TypeOK

LEMMA DegradedKeeps ==
  ASSUME LimiterInv, NEW r \in Requests, Degraded(r), request[r].commits < 2, UNCHANGED <<logVars, row>>
  PROVE  LimiterInv'
<1>1. CASE setup.failOpen
  <2>1. request' = [request EXCEPT ![r] = Called(request[r], 2)]
    BY <1>1, CallNextCalls DEF Degraded, LimiterInv
  <2>2. LET q == Called(request[r], 2) IN q \in Request /\ Sound(q, row) /\ InTime(q, now)
    BY CalledTyped DEF LimiterInv, RequestInv
  <2> QED
    BY <2>1, <2>2, MoveKeeps
<1>2. CASE ~setup.failOpen
  BY <1>2, FailureKeeps DEF Degraded
<1> QED
  BY <1>1, <1>2

\* The client's request: the clock of its host is read.
LEMMA ArriveKeeps ==
  ASSUME LimiterInv, NEW r \in Requests, NEW kind \in Kinds, NEW ahead \in 0 .. setup.skew,
         Arrive(r, kind, ahead)
  PROVE  LimiterInv'
<1> DEFINE q == [Idle EXCEPT !.kind = kind, !.pc = "pipeline", !.read = now, !.score = now + ahead]
<1>1. now \in Nat /\ setup.skew \in Nat /\ now + ahead \in Nat
  BY SetupTyped DEF LimiterInv, TypeOK
<1>2. q \in Request
  BY <1>1, IdleTyped DEF Request
<1>3. /\ q.pc = "pipeline" /\ q.run = 1 /\ q.commits = 0 /\ q.read = now /\ q.score = now + ahead
      /\ q.overtaken = FALSE /\ q.stale = FALSE
  BY IdleTyped DEF Request
<1>4. request' = [request EXCEPT ![r] = q] /\ UNCHANGED <<logVars, row>>
  BY DEF Arrive, logVars
<1> HIDE DEF q
<1>5. Sound(q, row) /\ InTime(q, now)
  BY <1>1, <1>3, LimiterAssumption DEF Sound, InTime
<1> QED
  BY <1>2, <1>4, <1>5, MoveKeeps

LEMMA ReadKeeps ==
  ASSUME LimiterInv, NEW r \in Requests, Read(r)
  PROVE  LimiterInv'
<1> DEFINE q == [Idle EXCEPT !.pc = "ok", !.stale = request[r].stale]
<1>1. request[r].stale = FALSE
  BY DEF Read, LimiterInv, RequestInv, Sound
<1>2. q \in Request /\ q.kind = "read" /\ q.pc = "ok" /\ q.run = 1 /\ q.commits = 0 /\ q.stale = FALSE
  BY <1>1, IdleTyped DEF Request
<1>3. request' = [request EXCEPT ![r] = q] /\ UNCHANGED <<logVars, row>>
  BY DEF Read, Success, logVars
<1>4. Sound(q, row) /\ InTime(q, now)
  BY <1>2 DEF Sound, InTime
<1> HIDE DEF q
<1> QED
  BY <1>2, <1>3, <1>4, MoveKeeps

\* An endpoint that has nothing to commit.
LEMMA GotoKeeps ==
  ASSUME LimiterInv, NEW r \in Requests, Goto(r, "invalidate"), UNCHANGED <<logVars, row>>
  PROVE  LimiterInv'
<1> DEFINE o == request[r]
           q == [o EXCEPT !.pc = "invalidate"]
<1>1. o \in Request /\ Sound(o, row)
  BY DEF LimiterInv, RequestInv, TypeOK, Request
<1>2. q \in Request
  BY <1>1 DEF Request
<1>3. /\ q.pc = "invalidate" /\ q.run = o.run /\ q.kind = o.kind /\ q.commits = o.commits
      /\ q.overtaken = o.overtaken /\ q.stale = o.stale
  BY <1>1 DEF Request
<1>4. request' = [request EXCEPT ![r] = q]
  BY DEF Goto
<1> HIDE DEF q, o
<1>5. Sound(q, row) /\ InTime(q, now)
  BY <1>1, <1>3 DEF Sound, InTime
<1> QED
  BY <1>2, <1>4, <1>5, MoveKeeps

\* An endpoint that has something to commit: one that has committed before was
\* overtaken, for it finds the row otherwise than it has left it.
LEMMA ToWriteKeeps ==
  ASSUME LimiterInv, NEW r \in Requests, request[r].pc = "endpoint", ToWrite(r),
         \/ request[r].kind = "assign"
         \/ request[r].kind = "revoke" /\ row = TRUE,
         UNCHANGED <<logVars, row>>
  PROVE  LimiterInv'
<1> DEFINE o == request[r]
           q == [o EXCEPT !.pc = "write", !.found = row]
<1>1. o \in Request /\ Sound(o, row) /\ row \in BOOLEAN
  BY DEF LimiterInv, RequestInv, TypeOK, Request
<1>2. q \in Request
  BY <1>1 DEF Request
<1>3. /\ q.pc = "write" /\ q.run = o.run /\ q.kind = o.kind /\ q.commits = o.commits
      /\ q.overtaken = o.overtaken /\ q.stale = o.stale /\ q.found = row
  BY <1>1 DEF Request
<1>4. request' = [request EXCEPT ![r] = q]
  BY DEF ToWrite, LimiterInv, TypeOK
<1>5. o.commits \in 0 .. 2 /\ o.overtaken \in BOOLEAN /\ o.run \in {1, 2}
  BY <1>1 DEF Request
<1>6. o.pc = "endpoint" /\ (o.kind = "assign" \/ (o.kind = "revoke" /\ row = TRUE))
  OBVIOUS
<1> HIDE DEF q, o
<1>7. Sound(q, row) /\ InTime(q, now)
  BY <1>1, <1>3, <1>5, <1>6 DEF Sound, InTime
<1> QED
  BY <1>2, <1>4, <1>7, MoveKeeps

-----------------------------------------------------------------------------
(* Steps that reach into other requests. *)

\* A change of all the requests, and of the row.
LEMMA RowKeeps ==
  ASSUME LimiterInv, NEW value \in BOOLEAN, row' = value, UNCHANGED logVars,
         NEW f \in [Requests -> Request], request' = f,
         \A x \in Requests : Sound(f[x], value) /\ InTime(f[x], now)
  PROVE  LimiterInv'
<1>1. TypeOK'
  BY DEF LimiterInv, TypeOK, logVars, Request
<1>2. RequestInv'
  BY DEF RequestInv, Sound, InTime, logVars
<1>3. (LogOrdered /\ KeptInv /\ AtMostMaxRequests /\ RefusedForCause /\ RetryAfterHonoured)'
  BY DEF LimiterInv, LogOrdered, KeptInv, AtMostMaxRequests, RefusedForCause, RetryAfterHonoured,
         Counted, logVars
<1> QED
  BY <1>1, <1>2, <1>3 DEF LimiterInv

\* The commit: the others that have looked at the row, or changed it, are overtaken.
LEMMA CommitsKeep ==
  ASSUME LimiterInv, NEW r \in Requests, request[r].pc = "write", NEW value \in BOOLEAN,
         \/ request[r].kind = "assign" /\ value = TRUE
         \/ request[r].kind = "revoke" /\ value = FALSE,
         Commits(r, value), UNCHANGED logVars
  PROVE  LimiterInv'
<1> DEFINE o == request[r]
           q == [o EXCEPT !.pc = "invalidate", !.commits = @ + 1, !.stale = TRUE]
           z(x) == [request[x] EXCEPT !.found = @ /\ value,
                                      !.overtaken = @ \/ request[x].commits > 0 \/ request[x].pc = "write"]
           f == [x \in Requests |-> IF x = r THEN q ELSE z(x)]
<1>1. o \in Request /\ Sound(o, row) /\ row \in BOOLEAN
  BY DEF LimiterInv, RequestInv, TypeOK, Request
<1>2. /\ o.commits + 1 \in 0 .. 2 /\ o.run \in {1, 2} /\ o.commits < o.run /\ o.commits \in 0 .. 2
      /\ o.commits > 0 => o.overtaken = TRUE
  BY <1>1 DEF Sound, Request
<1>3. q \in Request
  BY <1>1, <1>2 DEF Request
<1>4. /\ q.pc = "invalidate" /\ q.run = o.run /\ q.kind = o.kind /\ q.commits = o.commits + 1
      /\ q.overtaken = o.overtaken
  BY <1>1 DEF Request
<1>5. \/ o.kind = "assign" /\ value = TRUE
      \/ o.kind = "revoke" /\ value = FALSE
  OBVIOUS
<1>6. Sound(q, value) /\ InTime(q, now)
  <2> HIDE DEF o, q
  <2> QED
    BY <1>2, <1>4, <1>5 DEF Sound, InTime
<1>7. ASSUME NEW x \in Requests, x # r
      PROVE  z(x) \in Request /\ Sound(z(x), value) /\ InTime(z(x), now)
  <2> DEFINE y == request[x]
             found == y.found /\ value
             late == y.overtaken \/ y.commits > 0 \/ y.pc = "write"
  <2>1. y \in Request /\ Sound(y, row) /\ InTime(y, now)
    BY DEF LimiterInv, RequestInv, TypeOK, Request
  <2>2. found \in BOOLEAN /\ late \in BOOLEAN
    OBVIOUS
  <2>3. y.overtaken = TRUE \/ y.commits > 0 \/ y.pc = "write" => late = TRUE
    OBVIOUS
  <2>4. z(x) = [y EXCEPT !.found = found, !.overtaken = late]
    BY <2>1 DEF Request
  <2> HIDE DEF found, late, z
  <2>5. z(x) \in Request
    BY <2>1, <2>2, <2>4 DEF Request
  <2>6. /\ z(x).pc = y.pc /\ z(x).run = y.run /\ z(x).kind = y.kind /\ z(x).commits = y.commits
        /\ z(x).read = y.read /\ z(x).score = y.score /\ z(x).stale = y.stale
        /\ z(x).overtaken = late
    BY <2>1, <2>4 DEF Request
  <2>7. y.commits \in 0 .. 2 /\ y.run \in {1, 2}
    BY <2>1 DEF Request
  <2> HIDE DEF y
  <2> QED
    BY <2>1, <2>3, <2>5, <2>6, <2>7 DEF Sound, InTime
<1>8. f \in [Requests -> Request] /\ \A x \in Requests : Sound(f[x], value) /\ InTime(f[x], now)
  <2> HIDE DEF q, z, o
  <2> QED
    BY <1>3, <1>6, <1>7
<1>9. request' = f /\ row' = value
  BY DEF Commits
<1> HIDE DEF f
<1> QED
  BY <1>8, <1>9, RowKeeps

LEMMA AssignKeeps ==
  ASSUME LimiterInv, NEW r \in Requests, AssignLooks(r) \/ AssignCommits(r)
  PROVE  LimiterInv'
<1>1. UNCHANGED logVars /\ request[r].kind = "assign" /\ row \in BOOLEAN
  BY DEF AssignLooks, AssignCommits, logVars, LimiterInv, TypeOK
<1>2. CASE AssignLooks(r)
  BY <1>1, <1>2, GotoKeeps, ToWriteKeeps DEF AssignLooks
<1>3. CASE AssignCommits(r)
  <2>1. request[r].pc = "write"
    BY <1>3 DEF AssignCommits
  <2>2. CASE row
    BY <1>1, <1>3, <2>2, FailureKeeps DEF AssignCommits
  <2>3. CASE ~row
    <3>1. PICK value \in BOOLEAN : value = TRUE
      OBVIOUS
    <3>2. Commits(r, value)
      BY <1>3, <2>3, <3>1 DEF AssignCommits
    <3> QED
      BY <1>1, <2>1, <3>1, <3>2, CommitsKeep
  <2> QED
    BY <2>2, <2>3
<1> QED
  BY <1>2, <1>3

LEMMA RevokeKeeps ==
  ASSUME LimiterInv, NEW r \in Requests, RevokeLooks(r) \/ RevokeCommits(r)
  PROVE  LimiterInv'
<1>1. UNCHANGED logVars /\ request[r].kind = "revoke" /\ row \in BOOLEAN
  BY DEF RevokeLooks, RevokeCommits, logVars, LimiterInv, TypeOK
<1>2. CASE RevokeLooks(r)
  <2>1. CASE row
    BY <1>1, <1>2, <2>1, ToWriteKeeps DEF RevokeLooks
  <2>2. CASE ~row
    BY <1>1, <1>2, <2>2, FailureKeeps DEF RevokeLooks
  <2> QED
    BY <2>1, <2>2
<1>3. CASE RevokeCommits(r) /\ request[r].found
  <2>1. PICK value \in BOOLEAN : value = FALSE
    OBVIOUS
  <2>2. Commits(r, value) /\ request[r].pc = "write"
    BY <1>3, <2>1 DEF RevokeCommits
  <2> QED
    BY <1>1, <2>1, <2>2, CommitsKeep
<1>4. CASE RevokeCommits(r) /\ ~request[r].found
  <2> DEFINE o == request[r]
             q == [o EXCEPT !.pc = "invalidate", !.commits = @ + 1]
  <2>1. o \in Request /\ Sound(o, row) /\ o.pc = "write" /\ o.found = FALSE
    BY <1>4 DEF RevokeCommits, LimiterInv, RequestInv, TypeOK, Request
  <2>2. /\ o.commits + 1 \in 0 .. 2 /\ o.run \in {1, 2} /\ o.commits < o.run /\ o.commits \in 0 .. 2
        /\ o.overtaken = TRUE /\ o.kind = "revoke"
    BY <1>1, <2>1 DEF Sound, Request
  <2>3. request' = [request EXCEPT ![r] = q] /\ row' = row
    BY <1>4 DEF RevokeCommits, LimiterInv, TypeOK
  <2>4. q \in Request
    BY <2>1, <2>2 DEF Request
  <2>5. /\ q.pc = "invalidate" /\ q.run = o.run /\ q.kind = o.kind /\ q.commits = o.commits + 1
        /\ q.overtaken = o.overtaken /\ q.stale = o.stale
    BY <2>1 DEF Request
  <2> HIDE DEF q, o
  <2>6. Sound(q, row) /\ InTime(q, now)
    BY <2>2, <2>5 DEF Sound, InTime
  <2> QED
    BY <1>1, <2>3, <2>4, <2>6, MoveKeeps
<1> QED
  BY <1>2, <1>3, <1>4

LEMMA InvalidateKeeps ==
  ASSUME LimiterInv, NEW r \in Requests, Invalidate(r)
  PROVE  LimiterInv'
<1> DEFINE q == [Idle EXCEPT !.pc = "ok"]
           z(x) == [request[x] EXCEPT !.stale = FALSE]
           f == [x \in Requests |-> IF x = r THEN q ELSE z(x)]
<1>1. q \in Request /\ q.pc = "ok" /\ q.kind = "read" /\ q.run = 1 /\ q.commits = 0 /\ q.stale = FALSE
  BY IdleTyped DEF Request
<1>2. Sound(q, row) /\ InTime(q, now)
  BY <1>1 DEF Sound, InTime
<1>3. ASSUME NEW x \in Requests
      PROVE  z(x) \in Request /\ Sound(z(x), row) /\ InTime(z(x), now)
  <2> DEFINE y == request[x]
  <2>1. y \in Request /\ Sound(y, row) /\ InTime(y, now)
    BY DEF LimiterInv, RequestInv, TypeOK, Request
  <2>2. z(x) \in Request
    BY <2>1 DEF Request
  <2>3. /\ z(x).pc = y.pc /\ z(x).run = y.run /\ z(x).kind = y.kind /\ z(x).commits = y.commits
        /\ z(x).read = y.read /\ z(x).score = y.score /\ z(x).overtaken = y.overtaken /\ z(x).stale = FALSE
        /\ z(x).found = y.found
    BY <2>1 DEF Request
  <2> HIDE DEF y, z
  <2> QED
    BY <2>1, <2>2, <2>3 DEF Sound, InTime
<1>4. f \in [Requests -> Request] /\ \A x \in Requests : Sound(f[x], row) /\ InTime(f[x], now)
  <2> HIDE DEF q, z
  <2> QED
    BY <1>1, <1>2, <1>3
<1>5. request' = f /\ row' = row /\ row \in BOOLEAN /\ UNCHANGED logVars
  BY DEF Invalidate, logVars, LimiterInv, TypeOK
<1> HIDE DEF f
<1> QED
  BY <1>4, <1>5, RowKeeps

-----------------------------------------------------------------------------
(* The log: what Redis does. *)

\* An interval and its next number.
LEMMA OneMore ==
  ASSUME NEW n \in Nat
  PROVE  n + 1 \in 1 .. n + 1 /\ 1 .. n \subseteq 1 .. n + 1 /\ IsFiniteSet(1 .. n + 1)
BY FS_Interval

\* The set of a request's pipeline: what is in the window and the request.
LEMMA AddedFinite ==
  ASSUME TypeOK, NEW score \in Nat
  PROVE  /\ IsFiniteSet(Added(score)) /\ Cardinality(Added(score)) \in Nat
         /\ Added(score) \subseteq kept \union {count + 1}
<1>1. count \in Nat /\ kept \subseteq 1 .. count
  BY SetupTyped, LimiterAssumption DEF TypeOK
<1>2. Added(score) \subseteq 1 .. count + 1 /\ IsFiniteSet(1 .. count + 1)
  <2>1. Recent(score) \subseteq 1 .. count
    BY <1>1 DEF Recent
  <2> QED
    BY <1>1, <2>1, OneMore DEF Added
<1> QED
  BY <1>2, FS_Subset, FS_CardinalityType DEF Added, Recent

\* What is so of each entry: times and scores.
LEMMA EntriesTyped ==
  ASSUME LimiterInv
  PROVE  /\ count \in Nat /\ now \in Nat /\ setup.skew \in Nat /\ Window \in Nat \ {0} /\ Delay \in Nat
         /\ kept \subseteq Counted /\ count <= MaxEntries /\ MaxEntries \in Nat
         /\ \A i \in Counted : log[i] \in Entry /\ log[i].at \in Nat /\ log[i].score \in Nat
<1>1. /\ count \in Nat /\ now \in Nat /\ setup.skew \in Nat /\ Window \in Nat \ {0} /\ Delay \in Nat
      /\ kept \subseteq Counted /\ count <= MaxEntries /\ MaxEntries \in Nat
  BY SetupTyped, LimiterAssumption DEF LimiterInv, TypeOK, Counted
<1>2. \A i \in Counted : log[i] \in Entry
  BY <1>1 DEF LimiterInv, TypeOK, Counted, Entries
<1> QED
  BY <1>1, <1>2 DEF Entry

\* A new entry of the log is as it should be.
LEMMA RecordTyped ==
  ASSUME LimiterInv, NEW r \in Requests, request[r].pc = "pipeline",
         NEW verdict \in {"admitted", "refused", "lost"}, Record(r, verdict)
  PROVE  /\ count' = count + 1 /\ count' \in 0 .. setup.entries
         /\ log' \in [Entries -> Entry] /\ kept' \subseteq 1 .. count'
         /\ \A i \in Counted : log'[i] = log[i]
         /\ log'[count'].at = now /\ log'[count'].verdict = verdict
         /\ log'[count'].score = request[r].score /\ request[r].score \in Nat
         /\ now <= request[r].score + Delay /\ request[r].score <= now + setup.skew
<1> DEFINE n == count + 1
           e == [at |-> now, score |-> request[r].score, verdict |-> verdict]
<1>1. count \in Nat /\ setup.entries \in 0 .. MaxEntries /\ now \in Nat /\ MaxEntries \in Nat
  BY SetupTyped, EntriesTyped DEF LimiterInv
<1>2. count < setup.entries /\ count' = n /\ kept' = Added(request[r].score) /\ log' = [log EXCEPT ![n] = e]
  BY DEF Record
<1>3. n \in Entries /\ n \in 0 .. setup.entries
  BY <1>1, <1>2 DEF Entries
<1>4. request[r].score \in Nat /\ request[r].read \in Nat
  BY DEF LimiterInv, TypeOK
<1>5. e \in Entry
  BY <1>1, <1>4 DEF Entry
<1>6. log' \in [Entries -> Entry] /\ log'[n] = e
  BY <1>2, <1>3, <1>5 DEF LimiterInv, TypeOK
<1>7. \A i \in Counted : log'[i] = log[i]
  BY <1>1, <1>2, <1>3 DEF LimiterInv, TypeOK, Counted, Entries
<1>8. kept' \subseteq 1 .. n
  <2>1. kept \subseteq 1 .. count /\ Added(request[r].score) \subseteq kept \union {n}
    BY <1>4, AddedFinite, EntriesTyped DEF LimiterInv, Counted
  <2> QED
    BY <1>1, <1>2, <2>1, OneMore
<1>9. InTime(request[r], now) /\ setup.skew \in Nat /\ Delay \in Nat
  BY EntriesTyped DEF LimiterInv, RequestInv
<1>10. now <= request[r].score + Delay /\ request[r].score <= now + setup.skew
  BY <1>1, <1>4, <1>9 DEF InTime
<1> QED
  BY <1>2, <1>3, <1>4, <1>6, <1>7, <1>8, <1>10

\* The log stays in order.
LEMMA RecordOrdered ==
  ASSUME LimiterInv, NEW r \in Requests, request[r].pc = "pipeline",
         NEW verdict \in {"admitted", "refused", "lost"}, Record(r, verdict), UNCHANGED <<setup, now>>
  PROVE  LogOrdered'
<1> DEFINE n == count + 1
<1>1. /\ count' = n /\ \A i \in Counted : log'[i] = log[i]
      /\ log'[n].at = now /\ log'[n].score = request[r].score /\ request[r].score \in Nat
      /\ now <= request[r].score + Delay /\ request[r].score <= now + setup.skew
  BY RecordTyped
<1>2. count \in Nat /\ now \in Nat
  BY EntriesTyped
<1>3. Counted' = Counted \union {n} /\ \A i \in Counted : i < n
  BY <1>1, <1>2 DEF Counted
<1>4. LogOrdered
  BY DEF LimiterInv
<1> HIDE DEF n
<1>5. ASSUME NEW i \in Counted'
      PROVE  /\ log'[i].at <= now /\ log'[i].at <= log'[i].score + Delay
             /\ log'[i].score <= log'[i].at + setup.skew
  <2>1. CASE i = n
    BY <1>1, <1>2, <2>1
  <2>2. CASE i \in Counted
    BY <1>1, <1>4, <2>2 DEF LogOrdered
  <2> QED
    BY <1>3, <2>1, <2>2
<1>6. ASSUME NEW i \in Counted', NEW j \in Counted', i < j
      PROVE  log'[i].at <= log'[j].at
  <2>1. i \in Counted
    <3>1. CASE i = n
      <4>1. j \in Nat /\ n \in Nat /\ j <= n
        BY <1>2, <1>3 DEF Counted, n
      <4> QED
        BY <1>6, <3>1, <4>1
    <3> QED
      BY <1>3, <3>1
  <2>2. CASE j = n
    <3>1. log[i].at <= now
      BY <1>4, <2>1 DEF LogOrdered
    <3> QED
      BY <1>1, <2>1, <2>2, <3>1
  <2>3. CASE j \in Counted
    BY <1>1, <1>4, <1>6, <2>1, <2>3 DEF LogOrdered
  <2> QED
    BY <1>3, <2>2, <2>3
<1> QED
  BY <1>5, <1>6 DEF LogOrdered

\* What a new entry removes from the set is out of its window.
LEMMA RecordKept ==
  ASSUME LimiterInv, NEW r \in Requests, request[r].pc = "pipeline",
         NEW verdict \in {"admitted", "refused", "lost"}, Record(r, verdict), UNCHANGED <<setup, now>>
  PROVE  KeptInv'
<1> DEFINE n == count + 1
           s == request[r].score
<1>1. /\ count' = n /\ \A i \in Counted : log'[i] = log[i]
      /\ log'[n].at = now /\ log'[n].score = s /\ s \in Nat
  BY RecordTyped
<1>2. count \in Nat /\ now \in Nat /\ Window \in Nat \ {0} /\ kept \subseteq Counted
  BY EntriesTyped
<1>3. Counted' = Counted \union {n} /\ n \notin Counted
  BY <1>1, <1>2 DEF Counted
<1>4. kept' = Recent(s) \union {n}
  BY DEF Record, Added
<1> HIDE DEF s, n
<1>5. ASSUME NEW i \in Counted' \ kept'
      PROVE  \/ log'[i].at + Window <= now
             \/ \E j \in Counted' : log'[i].score + Window <= log'[j].score
  <2>1. i \in Counted /\ log'[i] = log[i] /\ i \notin Recent(s)
    BY <1>1, <1>3, <1>4
  <2>2. CASE i \in kept
    <3>1. log[i].score \in Nat
      BY <2>1, EntriesTyped
    <3>2. ~(log[i].score + Window > s)
      BY <2>1, <2>2 DEF Recent
    <3>3. log'[i].score + Window <= log'[n].score
      BY <1>1, <1>2, <2>1, <3>1, <3>2
    <3> QED
      BY <1>3, <3>3
  <2>3. CASE i \notin kept
    <3>1. CASE log[i].at + Window <= now
      BY <2>1, <3>1
    <3>2. CASE \E j \in Counted : log[i].score + Window <= log[j].score
      BY <1>1, <1>3, <2>1, <3>2
    <3> QED
      BY <2>1, <2>3, <3>1, <3>2 DEF LimiterInv, KeptInv
  <2> QED
    BY <2>2, <2>3
<1>6. log'[count'].at + Window > now
  BY <1>1, <1>2
<1> QED
  BY <1>5, <1>6 DEF KeptInv

\* Who is admitted leaves, within the shortened window, only members of its own set behind it.
LEMMA RecordAdmits ==
  ASSUME LimiterInv, NEW r \in Requests, request[r].pc = "pipeline",
         NEW verdict \in {"admitted", "refused", "lost"}, Record(r, verdict), UNCHANGED <<setup, now>>,
         verdict = "admitted" => Cardinality(Added(request[r].score)) <= MaxRequests
  PROVE  AtMostMaxRequests'
<1> DEFINE n == count + 1
           s == request[r].score
           Recently(j) == {i \in 1 .. j : /\ log[i].verdict = "admitted"
                                          /\ log[i].at + Window > log[j].at + Delay + setup.skew}
<1>1. /\ count' = n /\ \A i \in Counted : log'[i] = log[i]
      /\ log'[n].at = now /\ log'[n].verdict = verdict /\ s \in Nat
      /\ now <= s + Delay /\ s <= now + setup.skew
  BY RecordTyped
<1>2. /\ count \in Nat /\ now \in Nat /\ Window \in Nat \ {0} /\ Delay \in Nat /\ setup.skew \in Nat
      /\ \A i \in Counted : log[i].at \in Nat /\ log[i].score \in Nat
  BY EntriesTyped
<1>3. Counted' = Counted \union {n} /\ n \notin Counted
  BY <1>1, <1>2 DEF Counted
<1>4. ASSUME NEW i \in Counted, log[i].at + Window > now + Delay + setup.skew
      PROVE  i \in Recent(s)
  <2>1. /\ log[i].at \in Nat /\ log[i].score \in Nat
        /\ log[i].at <= log[i].score + Delay
    BY <1>2 DEF LimiterInv, LogOrdered
  <2>2. log[i].score + Window > now + setup.skew
    BY <1>2, <1>4, <2>1
  <2>3. i \in kept
    <3>1. SUFFICES ASSUME i \notin kept PROVE FALSE
      OBVIOUS
    <3>2. ~(log[i].at + Window <= now)
      BY <1>2, <1>4, <2>1
    <3>3. PICK j \in Counted : log[i].score + Window <= log[j].score
      BY <3>1, <3>2 DEF LimiterInv, KeptInv
    <3>4. log[j].score \in Nat /\ log[j].at \in Nat /\ log[j].at <= now /\ log[j].score <= log[j].at + setup.skew
      BY <1>2 DEF LimiterInv, LogOrdered
    <3> QED
      BY <1>2, <2>1, <2>2, <3>3, <3>4
  <2>4. log[i].score + Window > s
    BY <1>1, <1>2, <2>1, <2>2
  <2> QED
    BY <2>3, <2>4 DEF Recent
<1>5. ASSUME NEW j \in Counted', log'[j].verdict = "admitted"
      PROVE  Cardinality(Recently(j)') <= MaxRequests
  <2>1. CASE j = n
    <3>1. Recently(j)' \subseteq Added(s)
      <4>1. SUFFICES ASSUME NEW i \in Recently(j)' PROVE i \in Added(s)
        OBVIOUS
      <4>2. i \in Counted \union {n} /\ log'[i].at + Window > now + Delay + setup.skew
        BY <1>1, <1>2, <2>1, <4>1 DEF Counted
      <4>3. CASE i \in Counted
        BY <1>1, <1>4, <4>2, <4>3 DEF Added
      <4> QED
        BY <4>2, <4>3 DEF Added
    <3>2. IsFiniteSet(Added(s)) /\ Cardinality(Added(s)) \in Nat
      BY <1>1, AddedFinite DEF LimiterInv
    <3>3. Cardinality(Recently(j)') <= Cardinality(Added(s)) /\ Cardinality(Recently(j)') \in Nat
      BY <3>1, <3>2, FS_Subset, FS_CardinalityType
    <3>4. Cardinality(Added(s)) <= MaxRequests
      BY <1>1, <1>5, <2>1
    <3> HIDE DEF Recently, n
    <3> QED
      BY <2>1, <3>2, <3>3, <3>4, LimiterAssumption
  <2>2. CASE j \in Counted
    <3>1. 1 .. j \subseteq Counted
      BY <1>2, <2>2 DEF Counted
    <3>2. Recently(j)' = Recently(j)
      BY <1>1, <2>2, <3>1
    <3> HIDE DEF Recently
    <3>3. log[j].verdict = "admitted"
      BY <1>1, <1>5, <2>2
    <3> QED
      BY <2>2, <3>2, <3>3 DEF LimiterInv, AtMostMaxRequests, Recently
  <2> QED
    BY <1>3, <2>1, <2>2
<1> QED
  BY <1>5 DEF AtMostMaxRequests

\* Who is refused has found its set full of entries of the lengthened window.
LEMMA RecordRefuses ==
  ASSUME LimiterInv, NEW r \in Requests, request[r].pc = "pipeline",
         NEW verdict \in {"admitted", "refused", "lost"}, Record(r, verdict), UNCHANGED <<setup, now>>,
         verdict = "refused" => Cardinality(Added(request[r].score)) > MaxRequests
  PROVE  RefusedForCause'
<1> DEFINE n == count + 1
           s == request[r].score
           Near(j) == {i \in 1 .. j : log[i].at + Window + Delay + setup.skew > log[j].at}
<1>1. /\ count' = n /\ \A i \in Counted : log'[i] = log[i]
      /\ log'[n].at = now /\ log'[n].verdict = verdict /\ s \in Nat
      /\ now <= s + Delay /\ s <= now + setup.skew
  BY RecordTyped
<1>2. /\ count \in Nat /\ now \in Nat /\ Window \in Nat \ {0} /\ Delay \in Nat /\ setup.skew \in Nat
      /\ \A i \in Counted : log[i].at \in Nat /\ log[i].score \in Nat
      /\ kept \subseteq Counted
  BY EntriesTyped
<1>3. Counted' = Counted \union {n} /\ n \notin Counted
  BY <1>1, <1>2 DEF Counted
<1>4. ASSUME NEW i \in Recent(s)
      PROVE  i \in Counted /\ log[i].at + Window + Delay + setup.skew > now
  <2>1. i \in Counted /\ log[i].score + Window > s
    BY <1>2 DEF Recent
  <2>2. /\ log[i].at \in Nat /\ log[i].score \in Nat
        /\ log[i].score <= log[i].at + setup.skew
    BY <1>2, <2>1 DEF LimiterInv, LogOrdered
  <2>3. log[i].at + Window + Delay + setup.skew > now
    BY <1>1, <1>2, <2>1, <2>2
  <2> QED
    BY <2>1, <2>3
<1>5. ASSUME NEW j \in Counted', log'[j].verdict = "refused"
      PROVE  Cardinality(Near(j)') > MaxRequests
  <2>1. CASE j = n
    <3>1. Added(s) \subseteq Near(j)'
      <4>1. SUFFICES ASSUME NEW i \in Added(s) PROVE i \in Near(j)'
        OBVIOUS
      <4>2. CASE i \in Recent(s)
        <5>1. i \in 1 .. n /\ log'[i].at + Window + Delay + setup.skew > log'[n].at
          BY <1>1, <1>2, <1>4, <4>2 DEF Counted
        <5> QED
          BY <2>1, <5>1
      <4>3. CASE i = n
        <5>1. n \in 1 .. n /\ now + Window + Delay + setup.skew > now
          BY <1>2, OneMore
        <5> QED
          BY <1>1, <2>1, <4>3, <5>1
      <4> QED
        BY <4>1, <4>2, <4>3 DEF Added
    <3>2. IsFiniteSet(Near(j)')
      <4>1. IsFiniteSet(1 .. n) /\ Near(j)' \subseteq 1 .. n
        BY <1>2, <2>1, OneMore
      <4> QED
        BY <4>1, FS_Subset
    <3>3. /\ Cardinality(Added(s)) <= Cardinality(Near(j)')
          /\ Cardinality(Added(s)) \in Nat /\ Cardinality(Near(j)') \in Nat
      BY <3>1, <3>2, FS_Subset, FS_CardinalityType
    <3>4. Cardinality(Added(s)) > MaxRequests
      BY <1>1, <1>5, <2>1
    <3> HIDE DEF Near, n
    <3> QED
      BY <2>1, <3>3, <3>4, LimiterAssumption
  <2>2. CASE j \in Counted
    <3>1. 1 .. j \subseteq Counted
      BY <1>2, <2>2 DEF Counted
    <3>2. Near(j)' = Near(j)
      BY <1>1, <2>2, <3>1
    <3> HIDE DEF Near
    <3>3. log[j].verdict = "refused"
      BY <1>1, <1>5, <2>2
    <3> QED
      BY <2>2, <3>2, <3>3 DEF LimiterInv, RefusedForCause, Near
  <2> QED
    BY <1>3, <2>1, <2>2
<1> QED
  BY <1>5 DEF RefusedForCause

\* Who has waited a window finds the set empty, whatever its scores were.
LEMMA RecordWelcomes ==
  ASSUME LimiterInv, NEW r \in Requests, request[r].pc = "pipeline",
         NEW verdict \in {"admitted", "refused", "lost"}, Record(r, verdict), UNCHANGED <<setup, now>>,
         verdict = "refused" => Cardinality(Added(request[r].score)) > MaxRequests
  PROVE  RetryAfterHonoured'
<1> DEFINE n == count + 1
           s == request[r].score
<1>1. /\ count' = n /\ \A i \in Counted : log'[i] = log[i]
      /\ log'[n].at = now /\ log'[n].verdict = verdict
  BY RecordTyped
<1>2. /\ count \in Nat /\ now \in Nat /\ Window \in Nat \ {0} /\ kept \subseteq Counted
      /\ \A i \in Counted : log[i].at \in Nat
  BY EntriesTyped
<1>3. Counted' = Counted \union {n} /\ n \notin Counted /\ 1 .. n - 1 = Counted
  BY <1>1, <1>2 DEF Counted
<1>4. ASSUME NEW j \in Counted', \A i \in 1 .. j - 1 : log'[i].at + Window <= log'[j].at,
             log'[j].verdict = "refused"
      PROVE  FALSE
  <2>1. CASE j = n
    <3>1. \A i \in Counted : log[i].at + Window <= now
      BY <1>1, <1>3, <1>4, <2>1
    <3>2. kept = {}
      <4>1. SUFFICES ASSUME kept # {} PROVE FALSE
        OBVIOUS
      <4>2. count \in Counted
        BY <1>2, <4>1 DEF Counted
      <4>3. log[count].at + Window > now
        BY <4>1 DEF LimiterInv, KeptInv
      <4> QED
        BY <1>2, <3>1, <4>2, <4>3
    <3>3. Added(s) = {n}
      BY <3>2 DEF Added, Recent
    <3>4. Cardinality(Added(s)) = 1
      BY <3>3, FS_Singleton
    <3> QED
      BY <1>1, <1>4, <2>1, <3>4, LimiterAssumption
  <2>2. CASE j \in Counted
    <3>1. 1 .. j - 1 \subseteq Counted
      BY <1>2, <2>2 DEF Counted
    <3>2. \A i \in 1 .. j - 1 : log[i].at + Window <= log[j].at
      BY <1>1, <1>4, <2>2, <3>1
    <3>3. log[j].verdict = "refused"
      BY <1>1, <1>4, <2>2
    <3> QED
      BY <2>2, <3>2, <3>3 DEF LimiterInv, RetryAfterHonoured
  <2> QED
    BY <1>3, <2>1, <2>2
<1> QED
  BY <1>4 DEF RetryAfterHonoured

-----------------------------------------------------------------------------
(* The actions. *)

\* A request is counted and goes on as q.
LEMMA RecordKeeps ==
  ASSUME LimiterInv, NEW r \in Requests, request[r].pc = "pipeline",
         NEW verdict \in {"admitted", "refused", "lost"}, Record(r, verdict), UNCHANGED <<setup, now, row>>,
         verdict = "admitted" => Cardinality(Added(request[r].score)) <= MaxRequests,
         verdict = "refused" => Cardinality(Added(request[r].score)) > MaxRequests,
         NEW q \in Request, request' = [request EXCEPT ![r] = q], Sound(q, row), q.pc # "pipeline"
  PROVE  LimiterInv'
<1>1. (request \in [Requests -> Request])'
  BY DEF LimiterInv, TypeOK, Request
<1>2. TypeOK'
  <2>1. (setup \in Setups /\ now \in 0 .. setup.until /\ row \in BOOLEAN)'
    BY DEF LimiterInv, TypeOK
  <2>2. (count \in 0 .. setup.entries /\ log \in [Entries -> Entry] /\ kept \subseteq 1 .. count)'
    BY RecordTyped
  <2> QED
    BY <1>1, <2>1, <2>2 DEF TypeOK, Request
<1>3. RequestInv'
  <2> SUFFICES ASSUME NEW x \in Requests
               PROVE  (Sound(request[x], row) /\ InTime(request[x], now))'
    BY DEF RequestInv
  <2>1. request'[x] = IF x = r THEN q ELSE request[x]
    BY DEF LimiterInv, TypeOK
  <2>2. Sound(request'[x], row) /\ InTime(request'[x], now)
    BY <2>1 DEF LimiterInv, RequestInv, InTime
  <2> QED
    BY <2>2 DEF Sound, InTime
<1>4. LogOrdered' /\ KeptInv'
  BY RecordOrdered, RecordKept
<1>5. AtMostMaxRequests'
  BY RecordAdmits
<1>6. RefusedForCause' /\ RetryAfterHonoured'
  BY RecordRefuses, RecordWelcomes
<1> QED
  BY <1>2, <1>3, <1>4, <1>5, <1>6 DEF LimiterInv

LEMMA CountKeeps ==
  ASSUME LimiterInv, NEW r \in Requests, Count(r)
  PROVE  LimiterInv'
<1> DEFINE s == request[r].score
<1>1. request[r].pc = "pipeline" /\ UNCHANGED <<setup, now, row>>
  BY DEF Count
<1>2. Sound(request[r], row) /\ request[r].commits < 1 /\ request[r].commits < 2
  BY <1>1 DEF LimiterInv, RequestInv, Sound
<1>3. Cardinality(Added(s)) \in Nat /\ MaxRequests \in Nat
  BY AddedFinite, LimiterAssumption DEF LimiterInv, TypeOK
<1>4. CASE Cardinality(Added(s)) > MaxRequests
  <2>1. Record(r, "refused") /\ request' = [request EXCEPT ![r] = Idle]
    BY <1>4 DEF Count, Failure
  <2>2. Idle \in Request /\ Sound(Idle, row) /\ Idle.pc # "pipeline"
    BY IdleTyped DEF Sound
  <2> QED
    BY <1>1, <1>4, <2>1, <2>2, RecordKeeps
<1>5. CASE ~(Cardinality(Added(s)) > MaxRequests)
  <2> DEFINE q == Called(request[r], 1)
  <2>1. Record(r, "admitted") /\ request' = [request EXCEPT ![r] = q]
    BY <1>5, CallNextCalls DEF Count, LimiterInv
  <2>2. q \in Request /\ Sound(q, row) /\ q.pc # "pipeline"
    BY <1>2, CalledTyped DEF LimiterInv
  <2>3. Cardinality(Added(s)) <= MaxRequests
    BY <1>3, <1>5
  <2> HIDE DEF q
  <2> QED
    BY <1>1, <2>1, <2>2, <2>3, RecordKeeps
<1> QED
  BY <1>4, <1>5

LEMMA UnansweredKeeps ==
  ASSUME LimiterInv, NEW r \in Requests, Unanswered(r)
  PROVE  LimiterInv'
<1>1. request[r].pc = "pipeline" /\ UNCHANGED <<setup, now, row>> /\ Record(r, "lost")
  BY DEF Unanswered
<1>2. Sound(request[r], row) /\ request[r].commits < 1 /\ request[r].commits < 2
  BY <1>1 DEF LimiterInv, RequestInv, Sound
<1>3. CASE setup.failOpen
  <2> DEFINE q == Called(request[r], 2)
  <2>1. request' = [request EXCEPT ![r] = q]
    BY <1>3, CallNextCalls DEF Unanswered, Degraded, LimiterInv
  <2>2. q \in Request /\ Sound(q, row) /\ q.pc # "pipeline"
    BY <1>2, CalledTyped DEF LimiterInv
  <2> HIDE DEF q
  <2> QED
    BY <1>1, <2>1, <2>2, RecordKeeps
<1>4. CASE ~setup.failOpen
  <2>1. request' = [request EXCEPT ![r] = Idle]
    BY <1>4 DEF Unanswered, Degraded, Failure
  <2>2. Idle \in Request /\ Sound(Idle, row) /\ Idle.pc # "pipeline"
    BY IdleTyped DEF Sound
  <2> QED
    BY <1>1, <2>1, <2>2, RecordKeeps
<1> QED
  BY <1>3, <1>4

LEMMA UnreachedKeeps ==
  ASSUME LimiterInv, NEW r \in Requests, Unreached(r)
  PROVE  LimiterInv'
<1>1. Degraded(r) /\ UNCHANGED <<logVars, row>> /\ request[r].pc = "pipeline"
  BY DEF Unreached, logVars
<1>2. request[r].commits < 2
  BY <1>1 DEF LimiterInv, RequestInv, Sound
<1> QED
  BY <1>1, <1>2, DegradedKeeps

LEMMA RedisFailsKeeps ==
  ASSUME LimiterInv, NEW r \in Requests, RedisFails(r)
  PROVE  LimiterInv'
<1>1. UNCHANGED <<logVars, row>>
  BY DEF RedisFails, logVars
<1>2. CASE request[r].run = 1
  <2>1. request[r].commits <= 1 /\ request[r].commits \in 0 .. 2
    BY <1>2 DEF LimiterInv, RequestInv, Sound, TypeOK
  <2>2. request[r].commits < 2
    BY <2>1
  <2> QED
    BY <1>1, <1>2, <2>2, DegradedKeeps DEF RedisFails
<1>3. CASE request[r].run # 1
  BY <1>1, <1>3, FailureKeeps DEF RedisFails
<1> QED
  BY <1>2, <1>3

\* Time: a key that lapses has no entry whose window is not over.
LEMMA TickKeeps ==
  ASSUME LimiterInv, Tick
  PROVE  LimiterInv'
<1>1. /\ count \in Nat /\ now \in Nat /\ Window \in Nat \ {0} /\ Delay \in Nat /\ kept \subseteq Counted
      /\ \A i \in Counted : log[i].at \in Nat
  BY EntriesTyped
<1>2. /\ now' = now + 1 /\ now < setup.until /\ UNCHANGED <<setup, count, log, row, request>>
      /\ kept' = IF Expired(now + 1) THEN {} ELSE kept
  BY DEF Tick
<1>3. TypeOK'
  <2>1. now' \in 0 .. setup'.until
    BY <1>1, <1>2, SetupTyped DEF LimiterInv
  <2>2. kept' \subseteq 1 .. count'
    BY <1>1, <1>2 DEF Counted
  <2> QED
    BY <1>2, <2>1, <2>2 DEF LimiterInv, TypeOK
<1>4. RequestInv'
  <2> SUFFICES ASSUME NEW r \in Requests
               PROVE  (Sound(request[r], row) /\ InTime(request[r], now))'
    BY DEF RequestInv
  <2>1. Sound(request[r], row) /\ InTime(request[r], now)
    BY DEF LimiterInv, RequestInv
  <2>2. request[r].read \in Nat /\ (request[r].pc = "pipeline" => now < request[r].read + Delay)
    BY DEF LimiterInv, TypeOK, Tick
  <2>3. InTime(request[r], now + 1)
    BY <1>1, <2>1, <2>2 DEF InTime
  <2> QED
    BY <1>2, <2>1, <2>3 DEF Sound, InTime
<1>5. LogOrdered'
  BY <1>1, <1>2 DEF LimiterInv, LogOrdered, Counted
<1>6. KeptInv'
  <2>1. CASE Expired(now + 1)
    <3>1. kept' = {} /\ count \in Counted /\ log[count].at + Window <= now + 1
      BY <1>1, <1>2, <2>1 DEF Expired, Counted
    <3>2. ASSUME NEW i \in Counted PROVE log[i].at + Window <= now + 1
      <4>1. log[i].at <= log[count].at
        <5>1. i = count \/ i < count
          BY <1>1 DEF Counted
        <5>2. i < count => log[i].at <= log[count].at
          BY <3>1 DEF LimiterInv, LogOrdered
        <5>3. log[i].at \in Nat
          BY <1>1
        <5> QED
          BY <5>1, <5>2, <5>3
      <4> QED
        BY <1>1, <3>1, <4>1
    <3> QED
      BY <1>2, <3>1, <3>2 DEF KeptInv, Counted
  <2>2. CASE ~Expired(now + 1)
    <3>1. kept' = kept /\ (count > 0 => ~(log[count].at + Window <= now + 1))
      BY <1>2, <2>2 DEF Expired
    <3>2. ASSUME kept' # {} PROVE log[count].at + Window > now + 1
      <4>1. count \in Counted /\ count > 0
        <5>1. PICK i \in Counted : i \in kept
          BY <1>1, <3>1, <3>2
        <5> QED
          BY <1>1, <5>1 DEF Counted
      <4>2. log[count].at \in Nat
        BY <1>1, <4>1
      <4>3. ~(log[count].at + Window <= now + 1)
        BY <3>1, <4>1
      <4> QED
        BY <1>1, <4>2, <4>3
    <3>3. ASSUME NEW i \in Counted \ kept
          PROVE  \/ log[i].at + Window <= now + 1
                 \/ \E j \in Counted : log[i].score + Window <= log[j].score
      BY <1>1, <3>3 DEF LimiterInv, KeptInv
    <3> QED
      BY <1>2, <3>1, <3>2, <3>3 DEF KeptInv, Counted
  <2> QED
    BY <2>1, <2>2
<1>7. (AtMostMaxRequests /\ RefusedForCause /\ RetryAfterHonoured)'
  BY <1>2 DEF LimiterInv, AtMostMaxRequests, RefusedForCause, RetryAfterHonoured, Counted
<1> QED
  BY <1>3, <1>4, <1>5, <1>6, <1>7 DEF LimiterInv

LEMMA InitInv == Init => LimiterInv
<1> SUFFICES ASSUME Init PROVE LimiterInv
  OBVIOUS
<1>1. /\ setup \in Setups /\ now = 0 /\ count = 0 /\ kept = {} /\ row = FALSE
      /\ log = [i \in Entries |-> [at |-> 0, score |-> 0, verdict |-> "none"]]
      /\ request = [r \in Requests |-> Idle]
  BY DEF Init
<1>2. setup.until \in Nat /\ setup.entries \in Nat
  BY <1>1, LimiterAssumption
<1>3. Counted = {}
  BY <1>1 DEF Counted
<1>4. log \in [Entries -> Entry] /\ request \in [Requests -> Request]
  BY <1>1, IdleTyped DEF Entry
<1>5. TypeOK
  <2>1. now \in 0 .. setup.until /\ count \in 0 .. setup.entries /\ kept \subseteq 1 .. count
    BY <1>1, <1>2
  <2>2. row \in BOOLEAN
    BY <1>1
  <2> QED
    BY <1>1, <1>4, <2>1, <2>2 DEF TypeOK, Request
<1>6. RequestInv
  BY <1>1, IdleTyped DEF RequestInv, Sound, InTime
<1> QED
  BY <1>1, <1>3, <1>5, <1>6 DEF LimiterInv, LogOrdered, KeptInv, AtMostMaxRequests, RefusedForCause,
     RetryAfterHonoured

LEMMA StepKeeps == LimiterInv /\ [Next]_vars => LimiterInv'
<1> SUFFICES ASSUME LimiterInv, [Next]_vars PROVE LimiterInv'
  OBVIOUS
<1>1. CASE Tick
  BY <1>1, TickKeeps
<1>2. ASSUME NEW r \in Requests, NEW kind \in Kinds, NEW ahead \in 0 .. setup.skew, Arrive(r, kind, ahead)
      PROVE  LimiterInv'
  BY <1>2, ArriveKeeps
<1>3. ASSUME NEW r \in Requests, Work(r)
      PROVE  LimiterInv'
  <2>1. CASE Count(r) \/ Unreached(r) \/ Unanswered(r)
    BY <2>1, CountKeeps, UnreachedKeeps, UnansweredKeeps
  <2>2. CASE \/ Read(r) \/ AssignLooks(r) \/ AssignCommits(r)
             \/ RevokeLooks(r) \/ RevokeCommits(r) \/ Invalidate(r)
    BY <2>2, ReadKeeps, AssignKeeps, RevokeKeeps, InvalidateKeeps
  <2>3. CASE RedisFails(r)
    BY <2>3, RedisFailsKeeps
  <2>4. CASE OtherError(r)
    BY <2>4, FailureKeeps DEF OtherError, logVars
  <2> QED
    BY <1>3, <2>1, <2>2, <2>3, <2>4 DEF Work
<1>4. ASSUME NEW r \in Requests, ClientLeaves(r)
      PROVE  LimiterInv'
  BY <1>4, FailureKeeps DEF ClientLeaves, logVars
<1>5. CASE UNCHANGED vars
  BY <1>5 DEF vars, LimiterInv, TypeOK, RequestInv, Sound, InTime, LogOrdered, KeptInv, Counted,
     AtMostMaxRequests, RefusedForCause, RetryAfterHonoured
<1> QED
  BY <1>1, <1>2, <1>3, <1>4, <1>5 DEF Next

THEOREM LimiterInvariant == Spec => []LimiterInv
BY InitInv, StepKeeps, PTL DEF Spec

-----------------------------------------------------------------------------
\* Every variable keeps its type: in particular no endpoint commits more than twice.
THEOREM LimiterTyped == Spec => []TypeOK
<1>1. LimiterInv => TypeOK
  BY DEF LimiterInv
<1> QED
  BY <1>1, LimiterInvariant, PTL

\* The limiter admits no more than max_requests in the window, shortened by the
\* delay and the skew.
THEOREM AdmissionsBounded == Spec => []AtMostMaxRequests
<1>1. LimiterInv => AtMostMaxRequests
  BY DEF LimiterInv
<1> QED
  BY <1>1, LimiterInvariant, PTL

\* The limiter refuses nobody who has not sent too much.
THEOREM RefusalsJustified == Spec => []RefusedForCause
<1>1. LimiterInv => RefusedForCause
  BY DEF LimiterInv
<1> QED
  BY <1>1, LimiterInvariant, PTL

\* Whoever waits for a whole window, as Retry-After says, is not refused: also
\* when the clocks of other hosts are ahead and pipelines arrive late.
THEOREM RetryAfterKept == Spec => []RetryAfterHonoured
<1>1. LimiterInv => RetryAfterHonoured
  BY DEF LimiterInv
<1> QED
  BY <1>1, LimiterInvariant, PTL

\* The second call of an endpoint does not repeat the change of the first, unless
\* others have changed the row since.
THEOREM ChangesAppliedOnce == Spec => []AppliedOnce
<1>1. LimiterInv => AppliedOnce
  <2> SUFFICES ASSUME LimiterInv, NEW r \in Requests, request[r].commits > 1
               PROVE  request[r].overtaken
    BY DEF AppliedOnce
  <2>1. request[r].overtaken = TRUE
    BY DEF LimiterInv, RequestInv, Sound
  <2> QED
    BY <2>1
<1> QED
  BY <1>1, LimiterInvariant, PTL

\* Nobody is told of a success that has left the cache as it was.
THEOREM SuccessesAreWhole == Spec => []SuccessIsWhole
<1>1. LimiterInv => SuccessIsWhole
  BY DEF LimiterInv, RequestInv, Sound, SuccessIsWhole
<1> QED
  BY <1>1, LimiterInvariant, PTL
=============================================================================
