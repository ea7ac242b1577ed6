----------------------------- MODULE RateLimiter -----------------------------
(***************************************************************************)
(* RateLimitMiddleware (app/middleware/rate_limit.py), with the endpoints  *)
(* behind it.  It keeps a sorted set per client in Redis; this module      *)
(* follows the requests of one client.  Each adds an entry, whose score is *)
(* the clock of the host that serves it, and is let through when the set   *)
(* holds no more than max_requests.  The endpoint is called within the     *)
(* `try` of the middleware: when Redis fails under the endpoint and the    *)
(* limiter fails open, the endpoint is called again, though what the client *)
(* has sent as the body of a POST is gone.                                 *)
(***************************************************************************)
EXTENDS Naturals, FiniteSets

CONSTANTS
  Requests,       \* requests in flight
  MaxRequests,    \* max_requests
  Window,         \* window_seconds
  Delay,          \* at most this long from time.time() to the pipeline in Redis
  Setups,          \* each: the kinds of request there are, fail_open, how far apart
                  \* the clocks of the hosts are, and how long the behaviour is
  MaxEntries      \* bound: how many requests Redis counts

Kinds == {"read", "assign", "revoke"}

ASSUME LimiterAssumption ==
  /\ MaxRequests \in Nat \ {0} /\ Window \in Nat \ {0}
  /\ Delay \in Nat /\ MaxEntries \in Nat
  /\ \A m \in Setups : /\ m.kinds \subseteq Kinds /\ m.failOpen \in BOOLEAN
                       /\ m.skew \in Nat /\ m.until \in Nat /\ m.entries \in 0 .. MaxEntries

VARIABLES
  setup,       \* fail_open, the hosts and the bounds of this behaviour; never changes
  now,       \* the time
  count,     \* how many requests Redis has counted
  log,       \* history: when each was counted, its score, and what became of it
  kept,      \* those in the sorted set
  row,       \* the assignment that the endpoints `assign` and `revoke` are about
  request

vars == <<setup, now, count, log, kept, row, request>>

Entries == 1 .. MaxEntries

Idle == [kind |-> "read", pc |-> "idle", run |-> 1, read |-> 0, score |-> 0,
         found |-> FALSE, commits |-> 0, overtaken |-> FALSE, stale |-> FALSE]

Pending(r) == request[r].pc \in {"pipeline", "endpoint", "write", "invalidate", "blocked"}

Goto(r, pc) == request' = [request EXCEPT ![r].pc = pc]

\* The answer: what the request has left behind, or an error.
Success(r) == request' = [request EXCEPT ![r] = [Idle EXCEPT !.pc = "ok", !.stale = request[r].stale]]
Failure(r) == request' = [request EXCEPT ![r] = Idle]

-----------------------------------------------------------------------------
(* dispatch, up to the answer of Redis. *)

\* `now` is read, on a host whose clock is `ahead` of the slowest one.
Arrive(r, kind, ahead) ==
  /\ ~Pending(r) /\ kind \in setup.kinds
  /\ request' = [request EXCEPT
       ![r] = [Idle EXCEPT !.kind = kind, !.pc = "pipeline", !.read = now, !.score = now + ahead]]
  /\ UNCHANGED <<setup, now, count, log, kept, row>>

\* Mutant of Recent: no ZREMRANGEBYSCORE.
RecentAll(score) == kept

\* ZREMRANGEBYSCORE key 0 window_start
Recent(score) == {i \in kept : log[i].score + Window > score}

\* Mutant of Added: the member is the time alone, without perf_counter_ns.
AddedByTime(score) == {i \in Recent(score) : log[i].score # score} \union {count + 1}

\* ZADD: every request is a member of its own.
Added(score) == Recent(score) \union {count + 1}

Record(r, verdict) ==
  /\ count < setup.entries
  /\ count' = count + 1
  /\ kept' = Added(request[r].score)
  /\ log' = [log EXCEPT ![count + 1] = [at |-> now, score |-> request[r].score, verdict |-> verdict]]

\* call_next.  The body of a POST can be read once: an endpoint that is called
\* after another call waits in receive(), which has only the end of the
\* connection to deliver.
CallNext(r, run) == request' = [request EXCEPT
  ![r] = [@ EXCEPT
    !.pc = IF request[r].pc # "pipeline" /\ request[r].kind = "assign" THEN "blocked" ELSE "endpoint",
    !.run = run, !.read = 0, !.score = 0]]

\* The pipeline is a transaction: remove, add, count.  A refused request
\* stays in the set.
Count(r) ==
  /\ request[r].pc = "pipeline"
  /\ IF Cardinality(Added(request[r].score)) > MaxRequests
     THEN Record(r, "refused") /\ Failure(r)
     ELSE Record(r, "admitted") /\ CallNext(r, 1)
  /\ UNCHANGED <<setup, now, row>>

\* Mutant of Degraded: Redis is asked again until it answers.
DegradedAgain(r) == IF setup.failOpen THEN Goto(r, "pipeline") ELSE Failure(r)

\* except (RedisError, RuntimeError): call_next a last time, or 503.
Degraded(r) == IF setup.failOpen THEN CallNext(r, 2) ELSE Failure(r)

\* Redis is not reached, or its answer is lost: the entry is there then.
Unreached(r) ==
  /\ request[r].pc = "pipeline"
  /\ Degraded(r)
  /\ UNCHANGED <<setup, now, count, log, kept, row>>

Unanswered(r) ==
  /\ request[r].pc = "pipeline"
  /\ Record(r, "lost")
  /\ Degraded(r)
  /\ UNCHANGED <<setup, now, row>>

-----------------------------------------------------------------------------
(* call_next: the endpoint. *)

Read(r) ==
  /\ request[r].pc = "endpoint" /\ request[r].kind = "read"
  /\ Success(r)
  /\ UNCHANGED <<setup, now, count, log, kept, row>>

\* There is something to change, and what the SELECT has found is kept meanwhile.
ToWrite(r) == request' = [request EXCEPT ![r].pc = "write", ![r].found = row]

\* The transaction of an endpoint that sets the row.  The cached permissions
\* are out of date from here on; who has looked at the row or committed before
\* is overtaken, and a row that another has found is gone when it is deleted:
\* one that is assigned later has an id of its own.
Commits(r, value) ==
  /\ row' = value
  /\ request' = [q \in Requests |->
       IF q = r THEN [request[q] EXCEPT !.pc = "invalidate", !.commits = @ + 1, !.stale = TRUE]
       ELSE [request[q] EXCEPT !.found = @ /\ value,
                               !.overtaken = @ \/ request[q].commits > 0 \/ request[q].pc = "write"]]

\* assign_permission_to_role, assign_role_to_user: a row that exists is left alone.
AssignLooks(r) ==
  /\ request[r].pc = "endpoint" /\ request[r].kind = "assign"
  /\ IF row THEN Goto(r, "invalidate") ELSE ToWrite(r)
  /\ UNCHANGED <<setup, now, count, log, kept, row>>

\* The INSERT of a row that another has inserted by now is an IntegrityError.
AssignCommits(r) ==
  /\ request[r].pc = "write" /\ request[r].kind = "assign"
  /\ IF row THEN Failure(r) /\ UNCHANGED row ELSE Commits(r, TRUE)
  /\ UNCHANGED <<setup, now, count, log, kept>>

\* Mutant of RevokeLooks: a row that is gone already is a success.
RevokeLooksAgain(r) ==
  /\ request[r].pc = "endpoint" /\ request[r].kind = "revoke"
  /\ IF row THEN ToWrite(r) ELSE Success(r)
  /\ UNCHANGED <<setup, now, count, log, kept, row>>

\* Mutant of RevokeLooks: the row is not looked up first.
RevokeUnchecked(r) ==
  /\ request[r].pc = "endpoint" /\ request[r].kind = "revoke"
  /\ ToWrite(r)
  /\ UNCHANGED <<setup, now, count, log, kept, row>>

\* revoke_permission_from_role, revoke_role_from_user: 404 without the row.
RevokeLooks(r) ==
  /\ request[r].pc = "endpoint" /\ request[r].kind = "revoke"
  /\ IF row THEN ToWrite(r) ELSE Failure(r)
  /\ UNCHANGED <<setup, now, count, log, kept, row>>

\* The DELETE of a row that is gone by now is no error.
RevokeCommits(r) ==
  /\ request[r].pc = "write" /\ request[r].kind = "revoke"
  /\ IF request[r].found THEN Commits(r, FALSE)
     ELSE /\ request' = [request EXCEPT ![r].pc = "invalidate", ![r].commits = @ + 1]
          /\ UNCHANGED row
  /\ UNCHANGED <<setup, now, count, log, kept>>

\* The DEL of the cached permissions, which is the DEL of everybody's change.
Invalidate(r) ==
  /\ request[r].pc = "invalidate"
  /\ request' = [q \in Requests |->
       IF q = r THEN [Idle EXCEPT !.pc = "ok"]
       ELSE [request[q] EXCEPT !.stale = FALSE]]
  /\ UNCHANGED <<setup, now, count, log, kept, row>>

\* Mutant of RedisFails: the second call is taken for the first.
RedisFailsForEver(r) ==
  /\ request[r].pc \in {"endpoint", "invalidate"}
  /\ Degraded(r)
  /\ UNCHANGED <<setup, now, count, log, kept, row>>

\* Redis fails under the endpoint, in get_current_user or in the DEL: back to
\* the middleware, or, from its second call, to the handler of the application.
RedisFails(r) ==
  /\ request[r].pc \in {"endpoint", "invalidate"}
  /\ IF request[r].run = 1 THEN Degraded(r) ELSE Failure(r)
  /\ UNCHANGED <<setup, now, count, log, kept, row>>

\* Any other error, of the database mostly, is answered by the application's own
\* handlers, below the middleware.
OtherError(r) ==
  /\ request[r].pc \in {"endpoint", "write", "invalidate"}
  /\ Failure(r)
  /\ UNCHANGED <<setup, now, count, log, kept, row>>

\* The client closes the connection: an endpoint that waits for its body ends
\* with ClientDisconnect.  No step of the server.
ClientLeaves(r) ==
  /\ request[r].pc = "blocked"
  /\ Failure(r)
  /\ UNCHANGED <<setup, now, count, log, kept, row>>

-----------------------------------------------------------------------------
\* Mutant of Expired: no EXPIRE.
ExpiredNever(time) == FALSE

\* EXPIRE: the key lapses window_seconds after the last request.
Expired(time) == count > 0 /\ log[count].at + Window <= time

Tick ==
  /\ now < setup.until
  /\ \A r \in Requests : request[r].pc = "pipeline" => now < request[r].read + Delay
  /\ now' = now + 1
  /\ kept' = IF Expired(now + 1) THEN {} ELSE kept
  /\ UNCHANGED <<setup, count, log, row, request>>

Entry == [at : Nat, score : Nat, verdict : {"none", "admitted", "refused", "lost"}]

Init ==
  /\ setup \in Setups
  /\ now = 0
  /\ count = 0
  /\ log = [i \in Entries |-> [at |-> 0, score |-> 0, verdict |-> "none"]]
  /\ kept = {}
  /\ row = FALSE
  /\ request = [r \in Requests |-> Idle]

Work(r) ==
  \/ Count(r) \/ Unreached(r) \/ Unanswered(r)
  \/ Read(r) \/ AssignLooks(r) \/ AssignCommits(r) \/ RevokeLooks(r) \/ RevokeCommits(r)
  \/ Invalidate(r) \/ RedisFails(r) \/ OtherError(r)

Next ==
  \/ Tick
  \/ \E r \in Requests :
       \/ \E kind \in Kinds, ahead \in 0 .. setup.skew : Arrive(r, kind, ahead)
       \/ Work(r) \/ ClientLeaves(r)

Spec == Init /\ [][Next]_vars

\* The event loop goes on with a request that can go on; a client need not leave.
FairSpec == Spec /\ \A r \in Requests : WF_vars(Work(r))

-----------------------------------------------------------------------------
\* Every variable holds a value of its type.
TypeOK ==
  /\ setup \in Setups
  /\ now \in 0 .. setup.until
  /\ count \in 0 .. setup.entries
  /\ log \in [Entries -> Entry]
  /\ kept \subseteq 1 .. count
  /\ row \in BOOLEAN
  /\ request \in [Requests ->
       [kind : Kinds, pc : {"idle", "pipeline", "endpoint", "write", "invalidate", "blocked", "ok"},
        run : {1, 2}, read : Nat, score : Nat, found : BOOLEAN, commits : 0 .. 2, overtaken : BOOLEAN, stale : BOOLEAN]]

Counted == 1 .. count

\* Whatever the hosts' clocks say and however long the pipelines take, no more
\* than max_requests are admitted by the limiter in any stretch of time that is
\* shorter than the window by the delay and the skew.
AtMostMaxRequests ==
  \A j \in Counted : log[j].verdict = "admitted" =>
    Cardinality({i \in 1 .. j : /\ log[i].verdict = "admitted"
                                /\ log[i].at + Window > log[j].at + Delay + setup.skew}) <= MaxRequests

\* Nobody is refused who has not sent more than max_requests in the window,
\* lengthened by the delay and the skew: a failure of Redis, a late pipeline or
\* a clock that is ahead never make the limiter refuse on its own account.
RefusedForCause ==
  \A j \in Counted : log[j].verdict = "refused" =>
    Cardinality({i \in 1 .. j : log[i].at + Window + Delay + setup.skew > log[j].at}) > MaxRequests

\* Retry-After is true: a client that sends nothing for window_seconds is
\* admitted, even if clocks that are ahead have left entries of the future.
RetryAfterHonoured ==
  \A j \in Counted :
    (\A i \in 1 .. j - 1 : log[i].at + Window <= log[j].at) => log[j].verdict # "refused"

\* An endpoint that is called twice commits its change twice only if another
\* request has changed the row since it was first looked up.
AppliedOnce == \A r \in Requests : request[r].commits > 1 => request[r].overtaken

\* Success is whole: who is answered with success has not left the cached
\* permissions as they were before its change, whichever call made the change
\* and whichever call answers.
SuccessIsWhole == \A r \in Requests : request[r].pc = "ok" => ~request[r].stale

\* Every request is answered, for the endpoint is called a second time and not a
\* third; but for a POST whose second call waits for a client that stays.
AnsweredOrBlocked ==
  \A r \in Requests : Pending(r) ~> (~Pending(r) \/ request[r].pc = "blocked")

\* What rate_limit.py:82 promises of a limiter that fails open: "never block
\* legitimate traffic".
NeverBlocked == \A r \in Requests : Pending(r) ~> ~Pending(r)
=============================================================================
