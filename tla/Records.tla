------------------------------- MODULE Records -------------------------------
(***************************************************************************)
(* The rows that residents and staff keep: announcements, permits, cases,  *)
(* profiles, emergency reports and alerts, chat messages, and the log rows *)
(* that are read page by page and cleaned up.  All of their handlers go    *)
(* through app/repositories/base.py, each in a READ COMMITTED transaction  *)
(* of its own: SELECT, flush, commit.  A flush waits for the transaction   *)
(* that has written the same row or inserted the same unique key.          *)
(***************************************************************************)
EXTENDS Naturals, FiniteSets

CONSTANTS
  Ids,        \* rows, by id
  Keys,       \* values of a unique column (profiles.user_id, emergency_alerts.type)
  NoKey,      \* the key of a row in a table without one
  Fields,     \* the columns a PATCH may set
  Values,     \* what a column may hold
  Default,    \* what it holds at first
  Refused,    \* a value the column does not take: null where nullable=False
  Unset,      \* not in the body: exclude_unset=True
  Handlers,   \* request handlers
  Workers,    \* Celery worker processes
  Mixes,      \* operations that run beside each other, and the rows there are at
              \* first, each with its created_at
  Bodies,     \* the bodies of the PATCHes
  MaxTime,    \* bound: created_at and the cut-off are in 0 .. MaxTime
  PageSize    \* limit of Pagination

\* createKeyed: in a table with a unique column; listUnordered: of a table without
\* created_at (EmergencyReport).
Operations == {"create", "createKeyed", "patch", "delete", "list", "listUnordered", "cleanup"}

ASSUME RowsAssumption ==
  /\ IsFiniteSet(Ids) /\ Ids # {}
  /\ NoKey \notin Keys /\ Ids \intersect Keys = {}
  /\ Default \in Values /\ {Refused, Unset} \intersect Values = {} /\ Refused # Unset
  /\ Bodies \subseteq [Fields -> Values \union {Refused, Unset}]

ASSUME WorkAssumption ==
  /\ Handlers \intersect Workers = {}
  /\ MaxTime \in Nat /\ PageSize \in Nat \ {0}
  /\ \A m \in Mixes : /\ m.operations \subseteq Operations
                       /\ DOMAIN m.stock \subseteq Ids
                       /\ \A i \in DOMAIN m.stock : m.stock[i] \in 0 .. MaxTime

VARIABLES
  offered,   \* the operations of this behaviour; never changes
  rows,      \* the committed rows
  cutoff,    \* 90 days ago
  request,   \* the handlers and the jobs
  job,       \* there is a cleanup_old_logs message that is not acknowledged
  walk       \* a client that reads the list page by page

vars == <<offered, rows, cutoff, request, job, walk>>

Processes == Handlers \union Workers
Live == {i \in Ids : rows[i].state = "live"}
Blank == [f \in Fields |-> Default]

Idle == [op |-> "none", pc |-> "idle", id |-> CHOOSE i \in Ids : TRUE, key |-> NoKey,
         asked |-> [f \in Fields |-> Unset], read |-> Blank, overtaken |-> {}, locks |-> {}]

-----------------------------------------------------------------------------
(* Requests. *)

\* POST: the handler adds a new object to the session; no id is used twice.
Create(h, i, k) ==
  /\ (IF k = NoKey THEN "create" ELSE "createKeyed") \in offered /\ request[h].pc = "idle"
  /\ rows[i].state = "new" /\ \A g \in Handlers : request[g].op = "create" => request[g].id # i
  /\ request' = [request EXCEPT
       ![h] = [Idle EXCEPT !.op = "create", !.pc = "flush", !.id = i, !.key = k]]
  /\ UNCHANGED <<offered, rows, cutoff, job, walk>>

\* PATCH: the SELECT; a row that is not there is answered with 404.
Patch(h, i, want) ==
  /\ "patch" \in offered /\ request[h].pc = "idle" /\ i \in Live
  /\ request' = [request EXCEPT
       ![h] = [Idle EXCEPT !.op = "patch", !.pc = "flush", !.id = i, !.asked = want, !.read = rows[i].val]]
  /\ UNCHANGED <<offered, rows, cutoff, job, walk>>

\* DELETE: the SELECT, as in Patch.
Delete(h, i) ==
  /\ "delete" \in offered /\ request[h].pc = "idle" /\ i \in Live
  /\ request' = [request EXCEPT ![h] = [Idle EXCEPT !.op = "delete", !.pc = "flush", !.id = i]]
  /\ UNCHANGED <<offered, rows, cutoff, job, walk>>

\* A worker is given the message, which stays until it is acknowledged.
CleanUp(w) ==
  /\ "cleanup" \in offered /\ request[w].pc = "idle" /\ job
  /\ request' = [request EXCEPT ![w] = [Idle EXCEPT !.op = "cleanup", !.pc = "flush"]]
  /\ UNCHANGED <<offered, rows, cutoff, job, walk>>

-----------------------------------------------------------------------------
(* BaseRepository: create, update and delete, up to their flush. *)

\* Mutant of Changes: a value that the column does not take is left out.
ChangesTaken(r) == {f \in Fields : r.asked[f] \in Values \ {r.read[f]}}

\* The columns of the UPDATE: those whose new value differs from the one read.
Changes(r) == {f \in Fields : r.asked[f] \notin {Unset, r.read[f]}}

Refuses(r) == \E f \in Changes(r) : r.asked[f] = Refused

OldRows == {i \in Live : rows[i].born < cutoff}

\* What the statement of the flush locks.
Claim(r) ==
  CASE r.op = "create" -> {r.key} \ {NoKey}
    [] r.op = "patch" -> IF Refuses(r) \/ Changes(r) = {} THEN {} ELSE {r.id}
    [] r.op = "delete" -> {r.id}
    [] r.op = "cleanup" -> OldRows
    [] OTHER -> {}

\* Mutant of Waits: a flush goes on beside the transaction that has the lock.
WaitsForNobody(p) == FALSE

Waits(p) == \E q \in Processes \ {p} : request[q].locks \intersect Claim(request[p]) # {}

\* Mutant of Accepted: the columns take everything.
AcceptedUnchecked(r) ==
  /\ r.op = "create" => r.key = NoKey \/ \A i \in Live : rows[i].key # r.key
  /\ r.op = "patch" => r.id \in Live

\* A duplicate key or a refused value is an IntegrityError; an UPDATE, or the
\* refresh after it, that finds no row is an error too; a DELETE is not.
Accepted(r) ==
  /\ r.op = "create" => r.key = NoKey \/ \A i \in Live : rows[i].key # r.key
  /\ r.op = "patch" => ~Refuses(r) /\ r.id \in Live

Flush(p) ==
  LET r == request[p] IN
  /\ r.pc = "flush" /\ ~Waits(p)
  /\ request' = [request EXCEPT
       ![p].pc = IF Accepted(r) THEN "commit" ELSE "rollback",
       ![p].locks = IF Accepted(r) THEN Claim(r) \intersect (Live \union Keys) ELSE {}]
  /\ UNCHANGED <<offered, rows, cutoff, job, walk>>

-----------------------------------------------------------------------------
(* The commits. *)

\* The last place a row can have in a list that is ordered by created_at.
Rank(i) == Cardinality({j \in Live : rows[j].born >= rows[i].born})

\* created_at is stamped by the process that flushes: a row that is committed
\* later may stand behind others, or beside one of the same time, though never
\* among those of 90 days ago.
CommitCreate(h, t) ==
  LET r == request[h] IN
  /\ r.pc = "commit" /\ r.op = "create"
  /\ t >= cutoff
  /\ rows' = [rows EXCEPT ![r.id] = [state |-> "live", key |-> r.key, val |-> Blank, born |-> t]]
  /\ walk' = [walk EXCEPT
       !.grown = IF Cardinality({i \in Live : rows[i].born > t}) < walk.skip THEN @ + 1 ELSE @,
       !.fixed = @ /\ \A i \in Live : rows[i].born # t]
  /\ request' = [request EXCEPT ![h] = Idle]
  /\ UNCHANGED <<offered, cutoff, job>>

\* Mutant of Written: the UPDATE sets every column of the object.
WrittenWhole(r) == [f \in Fields |-> IF f \in Changes(r) THEN r.asked[f] ELSE r.read[f]]

Written(r) == [f \in Fields |-> IF f \in Changes(r) THEN r.asked[f] ELSE rows[r.id].val[f]]

CommitPatch(h) ==
  LET r == request[h] IN
  /\ r.pc = "commit" /\ r.op = "patch"
  /\ rows' = IF Changes(r) = {} THEN rows
             ELSE [rows EXCEPT ![r.id].state = "live", ![r.id].val = Written(r)]
  /\ request' = [p \in Processes |->
       IF p = h THEN Idle
       ELSE IF request[p].op = "patch" /\ request[p].id = r.id
            THEN [request[p] EXCEPT !.overtaken = @ \union Changes(r)]
            ELSE request[p]]
  /\ UNCHANGED <<offered, cutoff, job, walk>>

\* Mutant of CommitRemoval: the session is closed without a commit.
RemovalForgotten(p) ==
  /\ request[p].pc = "commit" /\ request[p].op \in {"delete", "cleanup"}
  /\ job' = (job /\ request[p].op # "cleanup")
  /\ request' = [request EXCEPT ![p] = Idle]
  /\ UNCHANGED <<offered, rows, cutoff, walk>>

\* The DELETE of one row, or of the old ones, whose message is acknowledged.
CommitRemoval(p) ==
  LET r == request[p] IN
  /\ r.pc = "commit" /\ r.op \in {"delete", "cleanup"}
  /\ rows' = [i \in Ids |-> IF i \in r.locks THEN [rows[i] EXCEPT !.state = "gone"] ELSE rows[i]]
  /\ job' = (job /\ r.op # "cleanup")
  /\ walk' = IF r.op = "cleanup" THEN walk
             ELSE [walk EXCEPT !.shrunk = @ + Cardinality({i \in r.locks : Rank(i) <= walk.skip})]
  /\ request' = [request EXCEPT ![p] = Idle]
  /\ UNCHANGED <<offered, cutoff>>

\* get_db rolls back, and the client is answered with 500.
Rollback(p) ==
  /\ request[p].pc = "rollback"
  /\ request' = [request EXCEPT ![p] = Idle]
  /\ UNCHANGED <<offered, rows, cutoff, job, walk>>

\* Mutant of Fails: the transaction is left open.
FailsInTransaction(p) ==
  /\ request[p].pc # "idle"
  /\ request' = [request EXCEPT ![p].pc = "idle"]
  /\ job' \in {job, job /\ p \notin Workers}
  /\ UNCHANGED <<offered, rows, cutoff, walk>>

\* The database fails, or the process.  A task that raises is acknowledged, a
\* worker that dies leaves the message (acks_late, reject_on_worker_lost).
Fails(p) ==
  /\ request[p].pc # "idle"
  /\ request' = [request EXCEPT ![p] = Idle]
  /\ job' \in {job, job /\ p \notin Workers}
  /\ UNCHANGED <<offered, rows, cutoff, walk>>

-----------------------------------------------------------------------------
(* Time, the schedule and the pages. *)

Age ==
  /\ "cleanup" \in offered /\ cutoff < MaxTime
  /\ cutoff' = cutoff + 1
  /\ UNCHANGED <<offered, rows, request, job, walk>>

\* Celery Beat, once a week.
Beat ==
  /\ "cleanup" \in offered /\ ~job
  /\ job' = TRUE
  /\ UNCHANGED <<offered, rows, cutoff, request, walk>>

BeginWalk ==
  /\ {"list", "listUnordered"} \intersect offered # {} /\ walk.pc = "before"
  /\ walk' = [walk EXCEPT !.pc = "reading", !.first = Live]
  /\ UNCHANGED <<offered, rows, cutoff, request, job>>

\* Mutant of Leads: the oldest rows first.
LeadsOldest(A) == \A i \in A, j \in Live \ A : rows[i].born <= rows[j].born

\* ORDER BY created_at DESC, if the table has it: rows may stand before all others.
Leads(A) == "list" \in offered => \A i \in A, j \in Live \ A : rows[i].born >= rows[j].born

\* What the first n rows of the list may be.  PostgreSQL returns rows of the same
\* created_at in any order, another one each time, and so all rows without ORDER BY.
Firsts(n) ==
  {A \in SUBSET Live : Leads(A) /\ (Cardinality(A) = n \/ (A = Live /\ Cardinality(A) < n))}

\* BaseRepository.list: OFFSET skip LIMIT limit.
Pages == {p[2] \ p[1] : p \in
            {q \in Firsts(walk.skip) \X Firsts(walk.skip + PageSize) : q[1] \subseteq q[2]}}

\* The client asks for the next page until one is not full.
ReadPage ==
  \E page \in Pages :
    /\ walk.pc = "reading"
    /\ walk' = [walk EXCEPT
         !.pc = IF Cardinality(page) = PageSize THEN "reading" ELSE "over",
         !.skip = @ + PageSize, !.seen = @ \union page,
         !.twice = @ + Cardinality(page \intersect walk.seen)]
    /\ UNCHANGED <<offered, rows, cutoff, request, job>>

-----------------------------------------------------------------------------
Row == [state : {"new", "live", "gone"}, key : Keys \union {NoKey}, val : [Fields -> Values],
        born : 0 .. MaxTime]

Request == [op : {"none", "create", "patch", "delete", "cleanup"},
            pc : {"idle", "flush", "commit", "rollback"},
            id : Ids, key : Keys \union {NoKey}, asked : [Fields -> Values \union {Refused, Unset}],
            read : [Fields -> Values], overtaken : SUBSET Fields, locks : SUBSET (Ids \union Keys)]

\* fixed, grown, shrunk: histories, whether the order of the rows was a matter of
\* created_at alone all the time, and how many rows came to and went from the part
\* that was read.
Walk == [pc : {"before", "reading", "over"}, skip : Nat, first : SUBSET Ids, seen : SUBSET Ids,
         twice : Nat, grown : Nat, shrunk : Nat, fixed : BOOLEAN]

Init ==
  /\ \E m \in Mixes :
       /\ offered = m.operations
       /\ rows = [i \in Ids |->
            [state |-> IF i \in DOMAIN m.stock THEN "live" ELSE "new", key |-> NoKey, val |-> Blank,
             born |-> IF i \in DOMAIN m.stock THEN m.stock[i] ELSE 0]]
       /\ walk = [pc |-> "before", skip |-> 0, first |-> {}, seen |-> {}, twice |-> 0,
                  grown |-> 0, shrunk |-> 0,
                  fixed |-> /\ "list" \in m.operations
                            /\ \A i, j \in DOMAIN m.stock : m.stock[i] = m.stock[j] => i = j]
  /\ cutoff = 0
  /\ request = [p \in Processes |-> Idle]
  /\ job = FALSE

Ask(h) ==
  \/ \E i \in Ids, k \in Keys \union {NoKey} : Create(h, i, k)
  \/ \E i \in Ids, want \in Bodies : Patch(h, i, want)
  \/ \E i \in Ids : Delete(h, i)

Commit(p) == (\E t \in 0 .. MaxTime : CommitCreate(p, t)) \/ CommitPatch(p) \/ CommitRemoval(p)

Work(p) == Flush(p) \/ Commit(p) \/ Rollback(p)

Next ==
  \/ \E h \in Handlers : Ask(h)
  \/ \E w \in Workers : CleanUp(w)
  \/ \E p \in Processes : Work(p) \/ Fails(p)
  \/ Age \/ Beat \/ BeginWalk \/ ReadPage

Spec == Init /\ [][Next]_vars

\* A process that can go on does, and the database grants a lock in the order
\* in which it was asked for it.  Beat runs, some worker takes the message, and
\* a job that is begun again whenever it dies does not die every time.
Fairness ==
  /\ \A p \in Processes : SF_vars(Work(p))
  /\ WF_vars(Beat) /\ WF_vars(\E w \in Workers : CleanUp(w))
  /\ \A w \in Workers : SF_vars(CommitRemoval(w))

FairSpec == Spec /\ Fairness

-----------------------------------------------------------------------------
\* Every variable holds a value of its type.
TypeOK ==
  /\ offered \subseteq Operations
  /\ rows \in [Ids -> Row]
  /\ cutoff \in 0 .. MaxTime
  /\ request \in [Processes -> Request]
  /\ job \in BOOLEAN
  /\ walk \in Walk

\* A user has one profile and a kind of emergency one alert, however often and
\* however closely together a POST is repeated: no handler looks before it
\* inserts.
OneRowPerKey == \A i, j \in Live : rows[i].key = rows[j].key /\ rows[i].key # NoKey => i = j

\* A PATCH that is answered with success is in the row in full.  The exception
\* is a column that already held the asked value when the row was read, which is
\* left out of the UPDATE, and which another PATCH has set since.
PatchTakesEffect ==
  [][\A h \in Handlers : LET r == request[h] IN
       r.op = "patch" /\ r.pc = "commit" /\ CommitPatch(h) =>
         \A f \in Fields : r.asked[f] # Unset /\ r.id \in Live =>
           rows'[r.id].val[f] = r.asked[f] \/ (f \in r.overtaken /\ r.read[f] = r.asked[f])]_vars

\* A PATCH never undoes what another one has set in a column it was not asked
\* to change, although it read the row before.
OnlyAskedFields ==
  [][\A i \in Ids, f \in Fields : rows[i].state = "live" /\ rows'[i].val[f] # rows[i].val[f] =>
       \E h \in Handlers : /\ request[h].op = "patch" /\ request[h].pc = "commit"
                           /\ request[h].id = i /\ request[h].asked[f] = rows'[i].val[f]]_vars

\* A row that was deleted does not come back by a PATCH that had read it, and
\* no other handler turns up with its id.
DeletedForEver == [][\A i \in Ids : rows[i].state = "gone" => rows'[i] = rows[i]]_vars

\* In a list that is ordered by created_at, and while no two of its rows have the
\* same one, a client that reads to the last page misses no more of the rows that
\* were there all the time than were deleted from the part it had read; and it
\* misses none because of the clean-up, which takes rows from the other end.
WalkMisses ==
  walk.pc = "over" /\ walk.fixed =>
    Cardinality((walk.first \intersect Live) \ walk.seen) <= walk.shrunk

\* In such a list it sees a row again no more often than rows were inserted before
\* its place.
WalkRepeats == walk.fixed => walk.twice <= walk.grown

\* Every request is answered: waiting for a row or a key ends.
EveryRequestEnds == \A h \in Handlers : request[h].pc # "idle" ~> request[h].pc = "idle"

\* The old rows go, again and again, although a worker may die in the job and
\* its message may be delivered twice.
OldRowsGo == []<>(OldRows = {})
=============================================================================
