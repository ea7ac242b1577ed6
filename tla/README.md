# A verification project for the BMIS backend

TLA+ models of the Barangay Management Information System backend
(FastAPI, PostgreSQL through SQLAlchemy, Redis, Celery), TLC configurations that
check them on small instances, and theorems about them with proofs checked by
TLAPS. `src/` is the repository; paths below are relative to it.

## 1. The system

The application runs as several worker processes (gunicorn), each an asyncio
event loop. A request is a coroutine; it may be overtaken by other requests of
its own process at every `await`, and by other processes anywhere. The shared
state is in PostgreSQL (READ COMMITTED, one session for each request,
`app/db/session.py`) and in Redis. No module takes a lock; what atomicity there is comes from
single SQL statements, commits, unique and foreign keys, and single Redis
commands.

| Component | State it keeps | Operations | Talks to |
|---|---|---|---|
| Permission checks (`app/core/dependencies.py`) | Redis set `user_permissions:{id}` with a TTL | `require_permissions`, `_load_user_permission_codes`, `invalidate_user_permissions_cache` | RBAC tables, Redis; every protected endpoint depends on it |
| RBAC administration (`app/modules/rbac`) | tables roles, permissions, role_permissions, user_role_assignments | create/delete permission and role, assign/revoke permission and role | PostgreSQL; deletes cache keys of the component above |
| Token session (`app/core/security.py`, `app/modules/auth/router.py`) | the JWTs themselves; Redis keys `blacklist:{jti}` | login, refresh, logout, `get_current_user` | Redis; every protected endpoint |
| Database log handler (`app/core/log_handler.py`) | in-process queue, buffer of the background task, table system_logs | `emit`, `_db_log_worker`, start and stop from the lifespan of `app/main.py` | every logger of the application; PostgreSQL |
| Accounts (`app/modules/auth`, `users`) | table users, the assignments of the role resident; Redis keys `oauth_state:*` | register, Google sign-in (redirect and id token) | PostgreSQL, Google; issues tokens |
| Rate limiter (`app/middleware/rate_limit.py`) | a Redis sorted set per client | one window check before each request | wraps every endpoint |
| Case numbers (`blotter`, `complaints`, `certificates`) | their tables, certificate_counters | file, update | PostgreSQL |
| Records: profiles, emergency, chat, announcements, business permits, the PATCHes of cases, log queries (`app/repositories/base.py`) | their tables | insert, PATCH, DELETE, list by page | PostgreSQL |
| Background jobs (`app/workers`) | none of their own; a message until it is acknowledged | clean-up of old logs | the table system_logs, Celery |
| Application shell | settings | start and stop, error handlers, headers | - |

### What is hard here, and what makes each component correct

* **Permission checks and administration.** A check fills the cache in four
  round trips (SMEMBERS, SELECT, SADD, EXPIRE); an administration handler
  checks, commits, selects the affected users and deletes their keys one by one;
  the deletions do the last two *before* the commit. Any of these steps may
  come between any others, and a process may end anywhere. Correct means: what
  a check decides was true not long ago; entries go away; a wrong entry is
  one of a few known accidents; the mapping rows stay consistent.
* **Token session.** The blacklist key has its own life, counted from the
  logout; the token's expiry is in whole seconds. Correct means: a token that
  was logged out is not accepted again.
* **Database log handler.** A bounded queue that may overflow, batches that may
  fail, and a shutdown that cancels the task at any await, also inside a
  commit. Records that cannot be formatted, that find the queue full or that are still in it
  at the end are dropped without a word. Correct means: order is kept, every record is in the table or
  in one of the known losses, one bad record does not block the rest.
* **Accounts.** Both ways in look for an account with several SELECTs and then
  write; other requests commit in between, and only the unique columns stop a second
  account. Beside them an operator may run the seed script, before which there is no role to give. Correct means: one
  account to a person, no account without its role but in that known gap, and no error but for a reason.
* **Case numbers.** COUNT+1 and check-then-write without locks. Correct means: each series
  is numbered without a gap or a repetition.
* **Rate limiter.** Its scores come from the hosts' clocks and its pipelines arrive late; it
  fails open, and its `try` also covers the endpoint it calls, which it may call twice, although the
  body of a request can be read once. Correct means: no more than the limit in a window, no refusal without a cause, no change applied
  twice, and an answer to everybody.
* **Records.** Inserts without a look, PATCHes that write what differs from an older row, pages cut
  by offset out of a list that changes, or that has no order, a clean-up whose message may be delivered again. Correct means: one row
  to a key, a PATCH that succeeds is in the row, deleted rows stay deleted, old rows go.

`PROJECT.json` lists the hazards one by one with their lines and with the
properties that cover them.

## 2. The modules

| Module | Models | Extends |
|---|---|---|
| `PermissionCache` | permission checks, RBAC administration, Redis expiry | - |
| `PermissionTiming` | history variables: how old are the cached facts? | `PermissionCache` |
| `PermissionCauses` | history variables: what made a cache entry wrong? | `PermissionCache` |
| `TokenSession` | tokens, expiry, blacklist | - |
| `DbLogPipeline` | the log handler of one process | - |
| `CaseNumbers` | how reports, complaints and certificates get their numbers | - |
| `Accounts` | registration, Google sign-in, the role of a new account, the seed script beside them | - |
| `Records` | the handlers that create, change, delete and list rows, and the clean-up job | - |
| `RateLimiter` | the sliding window of one client and the endpoint behind it | - |
| `NumberBook` | what the numbering promises: the abstract specification that `CaseNumbers` implements | - |
| `AccountBook` | what registration and sign-in promise: the abstract specification that `Accounts` implements | - |
| `LossyLog` | what the log handler promises: the abstract specification that `DbLogPipeline` implements | - |
| `PermissionCacheProofs`, `PermissionHistoryProofs` (on `PermissionTiming` and `PermissionCauses`), `TokenSessionProofs`, `DbLogPipelineProofs`, `CaseNumbersProofs`, `AccountsProofs`, `RecordsProofs`, `RateLimiterProofs` | theorems | the module named |
| `MC*` | instances for TLC | the module named |

Some modules hold definitions marked as mutants. Each is a copy of the next
action with a plausible mistake; with the mutant in the action's place TLC finds
the property that `PROJECT.json` names with it violated.

### PermissionCache

`roles`, `permissions`, `rolePermissions`, `userRoles` are the committed rows;
`usedIds` keeps the ids (UUIDs) from being used twice. `cache[u]` is the Redis set,
where Redis has no empty sets, so `{}` is a missing key; `ttl[u]` is what Redis
answers to TTL, with `NoTTL` for a key without expiry. `loader[l]` is a request
inside `require_permissions`; `pc` is the await it stands at. `admin[a]`
is a handler: `op`, the rows it names, `pc`, and the roles and users whose caches
it has yet to invalidate (`roles`, `users`).

One statement is one action. `Request`, `Lookup`, `Query`, `Sadd`,
`Expire` are the lines of `_load_user_permission_codes` in order. A handler's
checks are one action (they write nothing, and the commit holds what has to be
checked again: the unique and foreign keys), its commit another, then
`ReadAssignees` for each role and `DeleteKey` for each user. `HandlerFails` and `LoadFails` end either at
any await, with the state as it is then: the code has no clean-up of Redis.
`Advance` also marks a handler whose loaded row was deleted by another one
(`noop`): the ORM deletes by primary key and deletes nothing then.

Left out: names, descriptions, timestamps, the listing endpoints, and the
uniqueness of role codes (two roles with one code cannot exist; nothing here reads codes
of roles). Endpoints require one permission code each; `require_permissions` with several is their conjunction.
`PartialFill` says whether a request may die between SADD and EXPIRE. It
may in reality; the switch separates what holds in spite of all other failures
from what this one failure breaks.

### PermissionTiming and PermissionCauses

They add history variables and restrict nothing, but that `PermissionTiming` lets
no fill last longer than `MaxLoad` ticks. `held[u][c]` counts the ticks since
user u had code c, `lacked[u][c]` since not; `StaleBound` is
`TTL + 2 * MaxLoad`: a fill may write, up to `MaxLoad` after its own cache miss, to a key that
another fill wrote with codes as old, and renews its TTL. `cause[u]` collects
the events that may have made u's entry wrong since it was last empty.

### TokenSession

`now` counts ticks, `Sub` to a second. A token is a kind and the number of the
pair it was issued in. Its `exp` is a whole second, and jose accepts it until
the second is over (`Valid`); the key in Redis lasts the lifetime from the SETEX,
to the tick (`Blacklist`, `keyUntil`). A request decodes its token (`Begin`),
asks Redis (`Refused`, `Accept...`), and a logout then writes up to two keys, the second for any token
that its body names. `MaxWait` bounds the ticks between two steps of a request. `revoked` is a history:
tokens logged out at least `Sub + MaxWait` ticks after they were issued.

That bound is the price of the rounding: a token that is logged out in the second in which it was
issued has a key that lapses up to a second before the token does. The lifetimes are configuration; the model assumes that the
refresh lifetime is not the shorter one (60 minutes and 7 days are the defaults).

A logout whose second SETEX fails has revoked the access token and not the refresh token, and its client, whose
access token is now refused, cannot repeat it: the model contains this, and `RevokedTokenRejected` speaks of each token by itself.

### DbLogPipeline and LossyLog

`queue`, `buffer` and `task` are the handler's queue, the task's list and the await at
which the task stands; `rows` and `lastRows` are the table's rows from the loop and from
the last flush. `emit` takes on what has level INFO and is of no suppressed logger (`Taken`), and drops such a record in two ways, both of them an
`except` with `pass`: formatting it raises (`Malformed`, kept in the history `unformatted`) or the queue is full (`overflow`). `lost` is the
history of the batches that were given up, and `Stranded` is what the queue holds when the task has ended, for nobody will read it. Cancellation is
`Cancel` and, in a commit, `CancelCommit`, after which the rows may be there or not. `FLUSH_EVERY` is a
timeout, so `BeginCommit` may happen with any non-empty buffer.
`asyncio.wait_for` is taken as in Python 3.12 and later: a timeout or a cancellation loses no record of the queue.
The handler's level is INFO, whatever is configured: `install_db_handler` sets it, `LOG_LEVEL_DB`
("Minimum level written to DB", `config.py:57`) is only printed at the start (`main.py:52`). Nothing is persisted
before the commit, so a killed process loses its queue and its buffer; the module ends with the process.

The repository says that "Every log at or above LOG_LEVEL_DB is written async to the DB" (`RUNBOOK.html:619`), that the shutdown flushes the "remaining log buffer"
(`main.py:56`), and that `emit` drops records rather than block a request (`log_handler.py:57`). The first sentence cannot be true of a bounded queue, and
`RecordsAccounted` says exactly how it fails: a record that the handler took on is
in the table, or waits for a task that will read it, or went in one of four ways (unformatted, overflow, a failed batch, stranded), and the four
do not overlap. A fifth way, such as a deadline that takes a record with it, violates it.

`LossyLog` is the promise: records are accepted in order or dropped at once, those that wait are stored or given
up from the front, a batch at a time, and only the batch under way when the log is closed may be stored twice. The mapping
(`Log`) concatenates: what waits is `buffer \o queue`, the table is `rows \o lastRows`, what is dropped is
`unformatted \union overflow \union lost \union Stranded`, and of a task that has ended nothing waits: what it leaves in the queue is dropped with the closing. Filling the buffer is then no step at all, and neither is the start of a commit.

### CaseNumbers and NumberBook

A series is a register (blotter reports or complaints: both routers have the
same handler) or a certificate type. `issued[s][y]` lists the numbers of the
committed rows of a series and year, in the order of the commits; `counter[t]`
is the committed row of `certificate_counters`. `filing[f]` is a handler: it reads
the year (`File`), then the count or the counter (`CountRows`, `ReadCounter`),
then `Flush` writes the counter and inserts the case, and `Commit` makes both
visible. `Flush` waits while another transaction holds the key or the row
(`Waits`), and is refused by a unique constraint (`CounterFits`, `NumberFits`): the
number for a register, the type for a new counter row. SQLAlchemy writes the counter before the
request (mappers without a dependency go in the order of their names), so a
refused request may hold the counter row until `Rollback`. The counter is
written as the number read plus one, not incremented in the database; the
unique request number is all that stops a stale value, and `CountersMatch` says
that it does. It also says what the unique certificate type means when the year turns:
the query finds no counter for the new year, the insert of a new one is refused, and so
is every certificate of that type from then on. No document promises otherwise,
so this is recorded here and in the hazards, not as a finding.

`NumberBook` is the promise: each series and year is numbered 1, 2, 3, ... in
the order of the commits. The mapping is the identity on `issued`.

### Accounts and AccountBook

`users` is the sequence of committed rows, so that the index is the id; a row has its
e-mail, its user name and its Google id (`oauth_provider_id`). A user name is a base and a suffix, which is what the search for a
free one tells apart. `residents` are the ids that have the role "resident", `signedIn[g]` is a
history of what sign-ins of a Google id returned. `requests[h]` is a request: `pc` is its next statement.
`register` is `Register`, `CheckEmail`, `CheckName`, `Insert`, `Commit`; both Google flows
are `GoogleSignIn` and then `_find_or_create_google_user`: `FindById`, `FindByEmail`, and either `ReadRole` and `Link`, or
`Pick` until a name is free, `Insert` and `Commit`. The session does not flush by itself
(`autoflush=False`), so a link writes nothing before its commit, and both of its rows in that one;
a new row is inserted by the explicit flush of `_ensure_dynamic_role_assignment` and is held, unseen, until the commit.

The role is read in between (`ReadRole`, at `role` for a link and at `grant` for a new row): if there is none (`~seeded`), the function returns and the account is
committed without it, if there is one, the commit inserts the assignment that was read as missing (`Given`).
A write waits for an open transaction with the same key (`InsertWaits`, `LinkWaits`); what is then a
duplicate is an IntegrityError (`conflict`), and `get_db` rolls back. `Fail` ends a request at any statement.

`Seed` is one run of `scripts/seed.py` beside the service, a transaction that creates the role if it is missing, reads the accounts (`SeedReads`), then which of
them have the assignment (`SeedLooks`), and inserts the others with its commit (`SeedCommits`); an assignment that was inserted meanwhile makes it fail. Nothing makes anybody
run the seed before the service (the quick start of the runbook, 232-265, does not mention it), so that `Init` has the role or not. `RoleWithAccount` names the gap this leaves: an account is without its role only if there
was no role when its request began (`late` is the history of a role that came since), and the seed that creates the role gives it to every account it had read.

The callback does not look at the status of Google's answer, and reads a missing id and e-mail as the empty string: `BlankId` and `NoEmail`. An empty id is not looked for (`FindById`), an empty id in a row counts as no link (`FindByEmail`),
and the unique columns treat the empty string as a value: all such answers together are one person to the code, and so to the model.

`AccountBook` is the promise: each request is one step, which opens an account that shares no e-mail, name or Google id with another
(`Open`), links the account of one's e-mail if it is linked to nobody and nobody else is linked to this Google id (`Link`), or returns one's own (`Return`). The mapping is the identity on
the rows and the answers (the roles have `RoleWithAccount`): only `Commit`, the commit in `Link` and the answers of `FindById` and `FindByEmail` are steps of the book. Of
two overlapping requests that link one account, the first is the book's `Link`; the second writes the same Google id once more and is a `Return`.

Assumed of the world: Google reports an e-mail with one Google id only (`EmailOwner`; a person may have several e-mails), and an answer has
both an id and an e-mail or neither. Left out: the accounts that the seed script itself creates, the OAuth state key, whose double use depends on
Google refusing a used code, the revocation of the role (`PermissionCache` has it), and the fields that nothing here reads.

### Records

One module for the tables that are all handled in the same way, through `BaseRepository`: announcements, business permits,
profiles, emergency reports and alerts, chat messages, and the PATCHes of cases. A handler loads a row (or makes
one), flushes and commits: `Create`, `Patch`, `Delete`, then `Flush`, then the commit of its kind, or `Rollback`. The
UPDATE of a PATCH holds the columns whose new value differs from the one read (`Changes`), as SQLAlchemy writes it. A flush
waits for the transaction that has written the same row or inserted the same key (`Claim`, `Waits`); a duplicate key or a null where
there may be none is an IntegrityError (`Accepted`), an UPDATE that finds no row an error, a DELETE that finds none is not.
`Fails` ends a process at any statement. `CleanUp` is the weekly task: its message (`job`) stays until the commit, so that a worker that
dies is followed by another delivery, and `Beat` may add another message beside a job under way. `walk` is a client that reads
the list to its last page by offset (`ReadPage`), with histories of the rows that came and went in the part it had read.
`createKeyed` is the POST to a table with a unique column (profiles, alerts), `create` that to one without.

`created_at` is stamped before the commit; a row may turn up behind others that were committed before it, or with the same `created_at` as
another. `BaseRepository.list` orders by `created_at` if the model has it, and not at all otherwise (`listUnordered`: emergency reports, `emergency/model.py:41`). PostgreSQL
returns rows that the ORDER BY does not tell apart in any order, in another one for each query: `Firsts(n)` are the sets that the first n rows may be, and a page is what
one of them has more than another (`Pages`). Then a reader may miss rows though none was deleted, and see rows twice though none came. No document
promises otherwise; `WalkMisses` and `WalkRepeats` are therefore stated of the lists that have an order and only while it is a matter of `created_at` alone
(`walk.fixed`, a history), and the run reads the other lists too. Which operations run beside each other, and on what rows, is a constant (`Mixes`): the theorems are
for any. Two PATCHes of one row may leave a mixture, which the code does not rule out: `PatchTakesEffect` says exactly
which column may be missing, and `OnlyAskedFields` that none is undone.

Met on the way, and not modelled: GET /chat reads `ChatMessage.sender_id`, which the model class does not have, so it
answers 500; other query helpers of the repositories name missing columns too, and nothing calls them.

### RateLimiter

One client, since the keys are by client. `kept` is its sorted set, by number of arrival; `log` the history of what arrived, with the
time of arrival, the score and the verdict. `Arrive` reads the clock of one host, `Count` is the pipeline (one
MULTI/EXEC: remove, add, count, expire), which comes at most `Delay` later. A refused request stays in the set, as in the
code. `Unreached` and `Unanswered` are Redis errors before and after the pipeline took effect; `Degraded` is the `except`:
call the endpoint a last time, or answer 503.

The endpoint reads (`Read`), or assigns or revokes one assignment: it looks at the row (`AssignLooks`, `RevokeLooks`), writes and commits (`AssignCommits`,
`RevokeCommits`), and then deletes the cached permissions (`Invalidate`). Other requests run between the look and the commit: the row that an INSERT meets is an IntegrityError, the row that a DELETE misses is no error,
and `found` says whether the row that was found is still that one. Redis may fail in the permission check and in the DEL (`RedisFails`), the database anywhere (`OtherError`). A Redis error comes back to the middleware's `try`, which fails open
by calling the endpoint a second time; from the second call it goes to the application's handler. `stale` says that the cached permissions are those of
before a commit of the request, `overtaken` that another request has committed since this one first looked.

The body of a POST can be read once. Where the endpoint is called a second time, it waits in `receive()` for a body that has been delivered already, and is woken by
nothing but the client's disconnect (Starlette): `CallNext` puts such a request at `blocked`, and `ClientLeaves`, which is a step of the client and under no fairness, ends it.
A POST that comes to the second call because Redis failed in the limiter itself has its body still, and goes on. So every request is answered but those
(`AnsweredOrBlocked`), and `NeverBlocked`, which is what the comment at `rate_limit.py:82` says, is violated: see the runs below.

What one reads off the model and no document denies: failing closed, a change may be done and answered with 503, and a
repeated revocation whose first call was done is answered with 404 while the cached permissions are the old ones. `SuccessIsWhole` says that
this happens to nobody who is answered with success. Left out: the paths that bypass the limiter; the DELs of several users are one step here (`PermissionCache` has them one by one), and
the roles, users and permissions that the endpoints check before the row (they are only read).

## 3. What TLC checks

| Run | Question | Instance |
|---|---|---|
| `permission_timing` | `TypeOK`; can a cached set or a decision be older than the bound? (`CacheStaleness`, `DecisionsAreRecent`) | 1 user, 1 role, 2 permissions, 2 requests, 1 handler, TTL 2, MaxLoad 1 |
| `permission_causes` | `ReferencesLive`; `ExpiryAttached`; does every wrong entry have one of the known causes (`WrongEntriesExplained`); does every entry go away (`EntriesExpire`) | 1 user, 2 roles (one created on the way), 1 permission, 2 handlers, 1 request, TTL 1 |
| `token_session` | `TypeOK`; is a revoked token ever accepted (`RevokedTokenRejected`) | 2 pairs, 2 requests, lives 1 and 2 s, 4 s, MaxWait 1 |
| `case_numbers` | `TypeOK`; `CountersMatch`; do the handlers implement the number book (`NumbersInOrder`); is every filing answered (`EveryFilingAnswered`) | 1 register, 1 certificate type, 2 handlers, 3 numbers to a series and year, 2 years |
| `accounts` | `TypeOK`; one account to a person (`SameAccount`); are the look-ups enough for one who is alone (`ConflictOnlyWhenOvertaken`); `RoleWithAccount`; do the requests implement the account book (`ActsAtOnce`); does every request end (`EveryRequestEnds`) | 2 requests; 3 crowds: 2 e-mails of one person with one local part and 2 chosen names, one e-mail and the seed script, one e-mail and an empty answer; an account or none, the role or none |
| `db_log` | `TypeOK`; `LoggedOrder`; is every record accounted for (`RecordsAccounted`); `EventuallySettled`; does the handler implement the lossy log (`KeepsItsPromise`) | 10 records, queue 3, batch 3 |
| `records` | `TypeOK`; `OneRowPerKey`; `PatchTakesEffect`; `OnlyAskedFields`; `DeletedForEver`; what may a reader of pages miss or see twice (`WalkMisses`, `WalkRepeats`); is every request answered (`EveryRequestEnds`); do old rows go (`OldRowsGo`) | 5 mixes of operations, 3 rows, 1 key, 2 columns of 2 values, 5 bodies, 2 handlers, 2 workers, pages of 1 |
| `rate_limiter` | `TypeOK`; `AtMostMaxRequests`; `RefusedForCause`; `RetryAfterHonoured`; `AppliedOnce`; `SuccessIsWhole`; is every request answered, or blocked (`AnsweredOrBlocked`) | 2 requests at a time, 3 counted, limit 2, window 3, delay 1, skew 0 or 1, 4 setups |

Why these bounds are enough for the interesting cases: two requests overlap in the fill, which
is where one adds to the other's key and renews its TTL (the bound of `CacheStaleness` is reached; one tick less is violated); two handlers are needed for a
revocation that another handler's SELECT of the assignees overtakes, and a second role so
that a user may have a code from two sides. Time in `PermissionCache` is unbounded: `Tick` is enabled in every
state. Rows are bounded by the finite ids. Two pairs allow a logout with another
login's refresh token and a refresh into a new pair; four seconds are beyond the last key and
the last token of the first pair. The clock of the run counts whole seconds; fractions are
in the theorem. Queue and batch of three make it possible to overflow, to fill a
batch and to leave records on both sides of the failing one; the ten records are one below INFO, one of
a suppressed logger, one that cannot be formatted and one that the table refuses among more than the queue and a batch hold together.

Two filing handlers compute the same number, and with three numbers one of them can
read a counter that the other moves on by two before it is written; the second year finds the
counter of the first. More handlers are left to the theorems.

In `accounts` the e-mails bound the rows. Two e-mails of one person are what it takes to
create, or link, two accounts at once; the common local part and the chosen names make the search
for a name try up to three while the other request takes what it has found free. Two requests are in progress at a time, one after
another for ever; that only certain people come together (`Crowds`) bounds the run, and a theorem needs no such bound. With the seed script one e-mail is enough:
its race is with the request that creates or links that account.

In `records` each mix is one of the encounters that matter: PATCHes and a DELETE of one row; inserts of one key; inserts and deletions
while pages are read; the clean-up beside inserts and pages; inserts while pages of an unordered list are read. Three times to three rows make for ties and for every order. The bodies set both columns (to the row's value or to another one), one, none, and one
that is refused, so that two PATCHes can overlap in each way; a third row and two workers are what a second delivery of the clean-up needs. Pages of one row make every
insertion and deletion fall before, at or behind the reader's place.

In `rate_limiter` the limit of two and three counted requests reach a refusal; a window of three ticks is longer than delay
and skew together, so that an entry may leave the set on time, too early and too late; the setups without time give their states to
the endpoint, between whose look and commit the other request may assign, revoke and assign again, to which time does not matter. An entry can lapse, and the key's expiry passes, before the clock stops.

Symmetry is used for requests or handlers that are interchangeable, never
with a liveness property. `CHECK_DEADLOCK FALSE` is given where the system does stop: the
log task after the shutdown, the token model when its clock runs out, the numbering when its series are full, the limiter when its clock and its entries run out, and the records when all are deleted.

### Fairness

`PermissionCache!Fairness` is weak fairness of `Tick` (Redis' clock) and of the
steps of a request that has started: the event loop resumes a coroutine whose answer has come. Nothing is assumed of administrators, of new
requests or of failures. `DbLogPipeline!FairSpec` assumes that the event loop goes on running the task.
`CaseNumbers!Fairness` is weak fairness of a handler's next step and strong fairness of its flush:
PostgreSQL grants a lock in the order in which it was asked for it.
`Accounts!FairSpec` is the same for a request's next step and for `Insert` and `Link`, which
PostgreSQL wakes whenever the transaction they wait for ends. Failures are not excluded: they may end other requests again and again.
`Records!Fairness` is strong fairness of a process's next step (the database grants a row lock in the order of asking), weak fairness of
Beat and of taking a message from the queue, and strong fairness of a worker's commit: a job that is begun again whenever it dies does not
die every time. That is assumed for `OldRowsGo` only; `EveryRequestEnds` would hold without it.
`Accounts` assumes nothing of the seed script, which nobody has to run.
`RateLimiter!FairSpec` is weak fairness of a request's next step (`Work`): a coroutine that can go on does. A request that waits for a body that will not come
cannot; that its client leaves is assumed nowhere.
All other properties are safety properties and use no fairness.

### Where the code and its documentation differ

Each of these runs ends in a violation of one property that states a sentence of the repository.

| Run | Sentence | What the code does |
|---|---|---|
| `deletion` | "Invalidate caches for all roles that had this permission" (`rbac/router.py:96`) | the keys are deleted before the commit; a check in between fills the cache from the old tables and nothing deletes that entry |
| `immortal_key` | "Result is cached in Redis for 300s" (`RUNBOOK.html:490`) | a request that dies between SADD and EXPIRE leaves a set without expiry, which later requests only read |
| `fallback` | "if not yet assigned in dynamic RBAC" (`dependencies.py:138`) | the fallback is for users without permissions, also when they have roles |
| `blocked_post` | "Redis unavailable: fail open — never block legitimate traffic" (`rate_limit.py:82`) | a POST whose endpoint meets a Redis error, after its commit too, is called again, waits for a body that has been read, and is not answered as long as its client stays |

## 4. What is proved

For every number of users, roles, permissions, requests, handlers and every TTL:

* `TypeCorrect`, `ReferencesStayLive`, `KeysGetTheirExpiry` (`PermissionCacheProofs`).
  `ReferencesLive` is inductive with the types, once the part about rows in a
  handler's hand is in it: without that part a revocation might commit a row that is gone.
  `ExpiryAttached` is inductive with the types, too; its second conjunct
  says which request will give a key its TTL, and only SADD and EXPIRE need an argument.
* `CacheIsRecent`, `DecisionsStayRecent` (`PermissionHistoryProofs`), under `~PartialFill`.
  `CacheStaleness` is not inductive: what is in a cache says nothing about what a fill is about to add.
  The invariant `TimingInv` adds three facts: a fill's codes are no older than the fill;
  while a fill is under way the key of its user holds nothing older than `MaxLoad` plus the
  fill's age; and the TTL of a key and the age of what it says add up to at most `StaleBound`.
  SADD uses the first and keeps the second, EXPIRE turns the second into the third, a tick takes
  one from the TTL and adds one to the age.
* `WrongEntriesHaveCauses` (`PermissionHistoryProofs`), without any assumption on failures. That a wrong entry has a noted cause, or a handler
  that owes its DEL, needs `FillsFresh`: the codes that a fill is about to write are the user's, unless a commit has
  overtaken it. The work is in the commits. Only a commit makes a right entry wrong (`OnlyCommitsChange`); the commit of a handler that invalidates afterwards leaves
  the user in what it has yet to delete, and until then owes the DEL (`CommitOwes`); a DEL, or the end of the handler before it, which notes a cause,
  ends it (`OwingEnds`); and nobody else's step does (`OthersOwe`).
* `TokensTyped`, `RevokedStayRejected` (`TokenSessionProofs`), for every clock resolution,
  lifetime, waiting time and number of tokens and requests. The invariant `BlacklistInv`
  says that a revoked token has a key that ends `MaxWait` after the token's last second, or that this
  time has passed, and that a request at the blacklist has decoded a token that was valid at most
  `MaxWait` ago; the two times exclude each other.

* `CaseNumbersTyped`, `CountersStayMatched`, `NumbersStayInOrder` (`CaseNumbersProofs`), for
  every number of registers, certificate types, handlers and years. The last one is the refinement: `Spec`
  implements `NumberBook`. The invariant `Inv` says that the i-th number of a series and year is i; that a
  handler's number is at most one ahead of the table; that a handler about to commit holds its lock and has exactly
  the next number; and that no two handlers hold the same lock. The last two are why the commit of one handler
  cannot make the number of another one stale.

* `AccountsTyped`, `OnePersonOneAccount`, `AccountsHaveTheirRole`, `ConflictsExplained` (`AccountsProofs`), for every number of
  requests, e-mails, people and names, with and without the seed script and empty answers. `SameAccount` needs `AccountInv`: no two rows have one Google id and each row's is the owner of its
  e-mail; a request that holds its row unseen has a Google id that no row and no other such request has (this is what waiting gives); and the account that a
  request is about to link has the request's e-mail, so that linking takes it from nobody. `AccountsHaveTheirRole` needs of
  it that a request at its commit which has found no role began before there was one, and that the seed script has an assignment, or the lack of it, for all that it has read (`SeedSound`). `ConflictsExplained` adds `LookUpsCover`: what a
  request looked up (no such e-mail, name, Google id, assignment) still holds as long as nobody has overtaken it, and by the time it writes it has looked up all that its write needs.
* `RequestsActAtOnce` (`AccountsProofs`) is the refinement: `Spec` implements `AccountBook`. It rests on another part of `AccountInv`: a row that waits for its commit shares
  none of the unique columns with a committed row or another that waits, so that `Commit` is an `Open` however long after its flush. It says more than the properties beside it: no
  failure or conflict leaves a trace, and no look-up that has gone stale is written back.

* `RecordsTyped`, `KeysUnique`, `PatchesTakeEffect`, `OnlyAskedWritten`, `DeletedStayDeleted` (`RecordsProofs`), for every number of rows, keys, columns, values,
  handlers and workers, and all mixes. The invariant `RecordInv` says that locks are held only between flush and commit and by one process, that a
  creating request has an id nobody else has and, once flushed, a key that no row has; and that what a patching request read is still in
  its row but for the columns other PATCHes have set since. The last one is the reason why an UPDATE of the differing columns only is safe.
* `MissesOnlyForDeletions`, `RepeatsOnlyForInsertions` (`RecordsProofs`), about the reader of pages, for any number of rows and any size of page. `WalkMisses` speaks of the last page;
  the invariant `WalkInv` speaks of every moment: of the rows that were there at the start and have not been seen, those before the reader's place are no more than the
  deletions there (`Skipped`), and the rows already seen that have moved behind that place, which it will see again, are with those it has seen
  again no more than the insertions before it (`SeenAhead`). All this (`PagesInv`) is claimed only as long as `walk.fixed`: then no two rows have one `created_at`, so that of the sets that the first n rows may be there is one
  (`SortedFirsts`) and a page is what the sorted list has at the reader's place (`SortedPage`). Whatever the list, the clean-up takes the oldest rows (`RemovalInv`), hence the last of the list,
  which is why it makes nobody miss a row. The lemmas below it are about places in a sorted list: they are distinct (`PositionsApart`), all taken
  (`PositionsTaken`), a page before the last one is full (`PageFull`), and a removal or an insertion moves those behind it by one (`PositionsClose`, `PositionsOpen`).
* `LimiterTyped`, `AdmissionsBounded`, `RefusalsJustified`, `RetryAfterKept`, `ChangesAppliedOnce`, `SuccessesAreWhole` (`RateLimiterProofs`), for every number of requests, limit, window, delay and
  distance of the clocks. The bound of admissions is not inductive by itself: `LimiterInv` adds that a pipeline in flight is in time, that scores are near the
  times of arrival, and that whatever has left the set is out of the window of some later entry or of the time (`KeptInv`). So the set that a request counts
  contains everything that arrived within the shortened window (admissions) and nothing from outside the lengthened one (refusals); the rest is the
  cardinality of subsets. `RetryAfterKept` rests on the expiry of the key, which every request
  renews: while the set is not empty, the last arrival is less than a window ago, so that a silence empties it, whatever scores were in it. For the endpoint, it says that whoever has committed and was not overtaken finds the row as it has left it, which is why the second call
  finds nothing to do; and whoever has looked and was not overtaken still has the row it found.
* `PipelineTyped`, `OrderIsKept`, `LossesAreAccounted`, `PromiseIsKept` (`DbLogPipelineProofs`), for every number of records of any level, any queue and
  any batch. The last one is the refinement: `Spec` implements `LossyLog`. `PipelineInv` is the three properties and `Shape`, which says where the buffer and
  the rows of the last flush can be; sequences are cut and joined by lemmas about concatenation, and the order is kept because each step
  leaves stored and waiting records, taken together, as they were, adds one at the end, or takes a whole batch out.

The proofs assume what the modules assume of their constants: the seeded rows have ids, `TTL` is
positive, there is a register and no series is both a register and a certificate type, there is an e-mail and each has one owner, the empty id owns none but the empty e-mail, NULL is no Google id, chosen names have a modelled base, `MaxLoad` is a number, rows and keys are told apart and there is a row, limit and window are positive, queue and batch have room, records have a level, the refresh lifetime is at least the access lifetime. TLC evaluates these assumptions in the runs.

Only model-checked: what needs fairness (`EntriesExpire`, `EventuallySettled`, `EveryFilingAnswered`, both `EveryRequestEnds`, `OldRowsGo`, `AnsweredOrBlocked`), which is out of
the prover's reach. Every other property of a run that passes is a theorem, for all values of the constants.

## 5. What is not modelled, and why

* The application shell: request parsing, password hashing, CORS, security headers, settings, migrations. No state that a step could break; its error
  handlers are the failures of the other modules, the lifespan's part in the log handler is in `DbLogPipeline`.
* The filters of the log query and its count: they read only.
* The three placeholder tasks of `app/workers/tasks.py` log a line, and nothing sends them.
* The seed script's own accounts, permissions and mappings beside a running service. As the initial state they are in `PermissionCache`; the role and the assignments it backfills are in `Accounts`.
* The OAuth state key (GET and DELETE are two commands): what a second use of one state does depends on Google refusing a used code. The account status and the
  claims of a token: each is one read, of what the request itself has loaded or decoded.
* Losing Redis' or PostgreSQL's data; the connection pool's limit (a request that gets no connection fails at an
  await, which every action's failure covers).

## 6. Plan

Done: all components but the shell, their safety properties proved, three refinements (`NumberBook`, `LossyLog`, `AccountBook`) proved. Next:

1. An abstract permission service that answers from a recent state of the tables, implemented by `PermissionTiming`.
2. The OAuth state key as two more steps of the Google flow in `Accounts`.
3. Composition: the token session with the limiter in front, whose second call repeats a logout.
