--------------------------- MODULE PermissionCache ---------------------------
(***************************************************************************)
(* The dynamic RBAC tables, the per-user permission cache in Redis, the    *)
(* requests that check a permission through it (app/core/dependencies.py)  *)
(* and the RBAC handlers that change the tables and invalidate the cache   *)
(* (app/modules/rbac/router.py).  Every await of a handler is a point      *)
(* where another worker process may run, so every statement sent to        *)
(* Postgres or Redis is a step of its own.                                 *)
(***************************************************************************)
EXTENDS Integers

CONSTANTS
  Users,            \* rows of the users table (no endpoint deletes one)
  RoleIds, PermIds, \* primary keys; an id is used for at most one row
  Codes, CodeOf,    \* Permission.code of each permission id
  TokenRole,        \* the "role" claim of each user's access token
  SystemRoles, SeedPerms, SeedGrants, SeedAssignments,  \* the seeded rows
  Loaders,          \* requests inside require_permissions at the same time
  Admins,           \* RBAC handlers running at the same time
  TTL,              \* EXPIRE of user_permissions:{id}, in ticks
  PartialFill       \* may a request die between SADD and EXPIRE?

ASSUME IdsAssumption ==
  /\ Users # {} /\ Codes # {} /\ RoleIds # {} /\ PermIds # {}
  /\ CodeOf \in [PermIds -> Codes]
  /\ TokenRole \in [Users -> {"super_admin", "barangay_admin", "staff", "resident"}]

ASSUME SeedAssumption ==
  /\ SystemRoles \subseteq RoleIds
  /\ SeedPerms \subseteq PermIds
  /\ SeedGrants \subseteq SystemRoles \X SeedPerms
  /\ SeedAssignments \subseteq Users \X SystemRoles
  /\ \A p, q \in SeedPerms : CodeOf[p] = CodeOf[q] => p = q

ASSUME TTLAssumption == TTL \in Nat \ {0}

ASSUME PartialFillAssumption == PartialFill \in BOOLEAN

VARIABLES
  roles, permissions,          \* live rows, by id
  rolePermissions, userRoles,  \* <<role, permission>> and <<user, role>> rows
  usedIds,                     \* ids that were ever inserted
  cache,                       \* the Redis set of each user; {}: no key
  ttl,                         \* what TTL(key) answers; 0: no key
  loader,                      \* the permission check of each request
  admin                        \* the RBAC handler each process runs

db == <<roles, permissions, rolePermissions, userRoles, usedIds>>
vars == <<db, cache, ttl, loader, admin>>

NoTTL == -1   \* Redis' answer for a key that never expires

-----------------------------------------------------------------------------
(* The query of _load_user_permission_codes. *)

HeldCodes(ur, rp, u) == {CodeOf[g[2]] : g \in {h \in rp : <<u, h[1]>> \in ur}}
Granted(u) == HeldCodes(userRoles, rolePermissions, u)

-----------------------------------------------------------------------------
(* Permission checks. *)

Filling == {"query", "sadd", "expire"}   \* missed the cache, not answered yet
Answered == {"idle", "bypass", "allowed", "fallback", "denied"}

NoRequest == [pc |-> "idle", user |-> CHOOSE u \in Users : TRUE,
              need |-> CHOOSE c \in Codes : TRUE, codes |-> {}]

\* What require_permissions answers once the codes are known.
Verdict(u, need, codes) ==
  IF codes = {} /\ TokenRole[u] = "barangay_admin" THEN "fallback"
  ELSE IF need \in codes THEN "allowed" ELSE "denied"

\* A request with a valid access token reaches require_permissions(c).
Request(l, u, c) ==
  /\ loader[l].pc \in Answered
  /\ loader' = [loader EXCEPT ![l] =
       [pc |-> IF TokenRole[u] = "super_admin" THEN "bypass" ELSE "lookup",
        user |-> u, need |-> c, codes |-> {}]]
  /\ UNCHANGED <<db, cache, ttl, admin>>

\* Mutant of Lookup: a hit renews the TTL.
LookupSlides(l) ==
  LET u == loader[l].user IN
  /\ loader[l].pc = "lookup"
  /\ loader' = [loader EXCEPT ![l].pc =
       IF cache[u] = {} THEN "query" ELSE Verdict(u, loader[l].need, cache[u])]
  /\ ttl' = [ttl EXCEPT ![u] = IF cache[u] = {} THEN @ ELSE TTL]
  /\ UNCHANGED <<db, cache, admin>>

\* SMEMBERS: an empty answer is a miss, any other decides the request.
Lookup(l) ==
  LET u == loader[l].user IN
  /\ loader[l].pc = "lookup"
  /\ loader' = [loader EXCEPT ![l].pc =
       IF cache[u] = {} THEN "query" ELSE Verdict(u, loader[l].need, cache[u])]
  /\ UNCHANGED <<db, cache, ttl, admin>>

\* The join query; an empty result decides at once and is not cached.
Query(l) ==
  LET u == loader[l].user IN
  /\ loader[l].pc = "query"
  /\ loader' = [loader EXCEPT
       ![l].pc = IF Granted(u) = {} THEN Verdict(u, loader[l].need, {}) ELSE "sadd",
       ![l].codes = Granted(u)]
  /\ UNCHANGED <<db, cache, ttl, admin>>

\* SADD adds to whatever the key holds; a key it creates has no TTL yet.
Sadd(l) ==
  LET u == loader[l].user IN
  /\ loader[l].pc = "sadd"
  /\ cache' = [cache EXCEPT ![u] = @ \union loader[l].codes]
  /\ ttl' = [ttl EXCEPT ![u] = IF cache[u] = {} THEN NoTTL ELSE @]
  /\ loader' = [loader EXCEPT ![l].pc = "expire"]
  /\ UNCHANGED <<db, admin>>

\* Mutant of Expire: the command is left out.
ExpireForgotten(l) ==
  /\ loader[l].pc = "expire"
  /\ loader' = [loader EXCEPT ![l].pc = Verdict(loader[l].user, loader[l].need, loader[l].codes)]
  /\ UNCHANGED <<db, cache, ttl, admin>>

\* EXPIRE does nothing to a key that was deleted meanwhile.
Expire(l) ==
  LET u == loader[l].user IN
  /\ loader[l].pc = "expire"
  /\ ttl' = [ttl EXCEPT ![u] = IF cache[u] = {} THEN @ ELSE TTL]
  /\ loader' = [loader EXCEPT ![l].pc = Verdict(u, loader[l].need, loader[l].codes)]
  /\ UNCHANGED <<db, cache, admin>>

\* Mutant of LoadFails: SADD and EXPIRE are two round trips that may part.
LoadFailsAnywhere(l) ==
  /\ loader[l].pc \in {"lookup"} \union Filling
  /\ loader' = [loader EXCEPT ![l] = NoRequest]
  /\ UNCHANGED <<db, cache, ttl, admin>>

\* A Redis or database error, or the end of the worker process: no answer.
LoadFails(l) ==
  /\ loader[l].pc \in {"lookup", "query", "sadd"} \union (IF PartialFill THEN {"expire"} ELSE {})
  /\ loader' = [loader EXCEPT ![l] = NoRequest]
  /\ UNCHANGED <<db, cache, ttl, admin>>

LoaderStep(l) == Lookup(l) \/ Query(l) \/ Sadd(l) \/ Expire(l)

-----------------------------------------------------------------------------
(* RBAC handlers.  A handler is a record: what it does, where it is, the   *)
(* rows it names, and the roles and users whose caches it has yet to       *)
(* invalidate.  "noop": the row it loaded was deleted by somebody else.    *)

Deletions == {"delete_permission", "delete_role"}

NoJob == [op |-> "none", pc |-> "idle", role |-> CHOOSE r \in RoleIds : TRUE,
          perm |-> CHOOSE p \in PermIds : TRUE, user |-> CHOOSE u \in Users : TRUE,
          roles |-> {}, users |-> {}]

\* A handler that has no cache left to invalidate: the deletions go on to
\* their commit, the others have committed before and return.
Settle(j) ==
  IF j.roles # {} \/ j.users # {} THEN [j EXCEPT !.pc = "invalidate"]
  ELSE IF j.op \in Deletions THEN [j EXCEPT !.pc = "commit"] ELSE NoJob

\* The ORM deletes by primary key: a revoke whose row is gone deletes nothing.
RowGone(j, rp, ur) ==
  /\ j.pc = "commit"
  /\ \/ j.op = "revoke_permission" /\ <<j.role, j.perm>> \notin rp
     \/ j.op = "revoke_role" /\ <<j.user, j.role>> \notin ur

\* Handler a moves on to j, the tables are now rp and ur.
Advance(a, j, rp, ur) ==
  admin' = [b \in Admins |-> IF b = a THEN j
                             ELSE IF RowGone(admin[b], rp, ur) THEN [admin[b] EXCEPT !.pc = "noop"]
                             ELSE admin[b]]

Start(a, j) ==
  /\ admin[a].pc = "idle"
  /\ Advance(a, j, rolePermissions, userRoles)
  /\ UNCHANGED <<db, cache, ttl, loader>>

\* Codes are unique; a duplicate is refused by the check or by the constraint.
CreatePermission(a, p) ==
  /\ admin[a].pc = "idle"
  /\ p \in PermIds \ usedIds
  /\ \A q \in permissions : CodeOf[q] # CodeOf[p]
  /\ permissions' = permissions \union {p}
  /\ usedIds' = usedIds \union {p}
  /\ UNCHANGED <<roles, rolePermissions, userRoles, cache, ttl, loader, admin>>

CreateRole(a, r) ==
  /\ admin[a].pc = "idle"
  /\ r \in RoleIds \ usedIds
  /\ roles' = roles \union {r}
  /\ usedIds' = usedIds \union {r}
  /\ UNCHANGED <<permissions, rolePermissions, userRoles, cache, ttl, loader, admin>>

DeletePermission(a, p) ==
  /\ p \in permissions
  /\ Start(a, Settle([NoJob EXCEPT !.op = "delete_permission", !.perm = p,
                      !.roles = {g[1] : g \in {h \in rolePermissions : h[2] = p}}]))

\* _guard_system_role refuses the seeded roles.
DeleteRole(a, r) ==
  /\ r \in roles \ SystemRoles
  /\ Start(a, Settle([NoJob EXCEPT !.op = "delete_role", !.role = r, !.roles = {r}]))

\* No guard here: a system role may be given a permission.
AssignPermission(a, r, p) ==
  /\ r \in roles /\ p \in permissions
  /\ LET j == [NoJob EXCEPT !.op = "assign_permission", !.role = r, !.perm = p] IN
     Start(a, IF <<r, p>> \in rolePermissions THEN Settle([j EXCEPT !.roles = {r}])
              ELSE [j EXCEPT !.pc = "commit"])

RevokePermission(a, r, p) ==
  /\ r \in roles \ SystemRoles
  /\ <<r, p>> \in rolePermissions
  /\ Start(a, [NoJob EXCEPT !.op = "revoke_permission", !.pc = "commit", !.role = r, !.perm = p])

AssignRole(a, u, r) ==
  /\ r \in roles
  /\ LET j == [NoJob EXCEPT !.op = "assign_role", !.user = u, !.role = r] IN
     Start(a, IF <<u, r>> \in userRoles THEN Settle([j EXCEPT !.users = {u}])
              ELSE [j EXCEPT !.pc = "commit"])

RevokeRole(a, u, r) ==
  /\ <<u, r>> \in userRoles
  /\ Start(a, [NoJob EXCEPT !.op = "revoke_role", !.pc = "commit", !.user = u, !.role = r])

-----------------------------------------------------------------------------
(* The commits.  The database holds unique and foreign keys: an insert     *)
(* that would break one fails, and a deletion cascades.                    *)

\* delete_permission and delete_role end with their commit.
CommitDeletePermission(a) ==
  LET p == admin[a].perm
      rp == {g \in rolePermissions : g[2] # p} IN
  /\ admin[a].op = "delete_permission" /\ admin[a].pc = "commit"
  /\ permissions' = permissions \ {p}
  /\ rolePermissions' = rp
  /\ Advance(a, NoJob, rp, userRoles)
  /\ UNCHANGED <<roles, userRoles, usedIds, cache, ttl, loader>>

\* Mutant of CommitDeleteRole: the assignments do not cascade.
CommitDeleteRoleOrphans(a) ==
  LET r == admin[a].role
      rp == {g \in rolePermissions : g[1] # r} IN
  /\ admin[a].op = "delete_role" /\ admin[a].pc = "commit"
  /\ roles' = roles \ {r}
  /\ rolePermissions' = rp
  /\ Advance(a, NoJob, rp, userRoles)
  /\ UNCHANGED <<permissions, userRoles, usedIds, cache, ttl, loader>>

CommitDeleteRole(a) ==
  LET r == admin[a].role
      rp == {g \in rolePermissions : g[1] # r}
      ur == {g \in userRoles : g[2] # r} IN
  /\ admin[a].op = "delete_role" /\ admin[a].pc = "commit"
  /\ roles' = roles \ {r}
  /\ rolePermissions' = rp
  /\ userRoles' = ur
  /\ Advance(a, NoJob, rp, ur)
  /\ UNCHANGED <<permissions, usedIds, cache, ttl, loader>>

CommitAssignPermission(a) ==
  LET j == admin[a] IN
  /\ j.op = "assign_permission" /\ j.pc = "commit"
  /\ j.role \in roles /\ j.perm \in permissions /\ <<j.role, j.perm>> \notin rolePermissions
  /\ rolePermissions' = rolePermissions \union {<<j.role, j.perm>>}
  /\ Advance(a, Settle([j EXCEPT !.roles = {j.role}]), rolePermissions', userRoles)
  /\ UNCHANGED <<roles, permissions, userRoles, usedIds, cache, ttl, loader>>

\* Mutant of CommitRevokePermission: the role's caches are not invalidated.
CommitRevokePermissionOnly(a) ==
  LET j == admin[a]
      rp == IF j.pc = "noop" THEN rolePermissions ELSE rolePermissions \ {<<j.role, j.perm>>} IN
  /\ j.op = "revoke_permission" /\ j.pc \in {"commit", "noop"}
  /\ rolePermissions' = rp
  /\ Advance(a, NoJob, rp, userRoles)
  /\ UNCHANGED <<roles, permissions, userRoles, usedIds, cache, ttl, loader>>

CommitRevokePermission(a) ==
  LET j == admin[a]
      rp == IF j.pc = "noop" THEN rolePermissions ELSE rolePermissions \ {<<j.role, j.perm>>} IN
  /\ j.op = "revoke_permission" /\ j.pc \in {"commit", "noop"}
  /\ rolePermissions' = rp
  /\ Advance(a, Settle([j EXCEPT !.roles = {j.role}]), rp, userRoles)
  /\ UNCHANGED <<roles, permissions, userRoles, usedIds, cache, ttl, loader>>

CommitAssignRole(a) ==
  LET j == admin[a] IN
  /\ j.op = "assign_role" /\ j.pc = "commit"
  /\ j.role \in roles /\ <<j.user, j.role>> \notin userRoles
  /\ userRoles' = userRoles \union {<<j.user, j.role>>}
  /\ Advance(a, Settle([j EXCEPT !.users = {j.user}]), rolePermissions, userRoles')
  /\ UNCHANGED <<roles, permissions, rolePermissions, usedIds, cache, ttl, loader>>

CommitRevokeRole(a) ==
  LET j == admin[a]
      ur == IF j.pc = "noop" THEN userRoles ELSE userRoles \ {<<j.user, j.role>>} IN
  /\ j.op = "revoke_role" /\ j.pc \in {"commit", "noop"}
  /\ userRoles' = ur
  /\ Advance(a, Settle([j EXCEPT !.users = {j.user}]), rolePermissions, ur)
  /\ UNCHANGED <<roles, permissions, rolePermissions, usedIds, cache, ttl, loader>>

-----------------------------------------------------------------------------
(* _invalidate_role_caches and invalidate_user_permissions_cache. *)

\* SELECT the users assigned to one of the roles.
ReadAssignees(a, r) ==
  LET j == admin[a] IN
  /\ j.pc = "invalidate" /\ j.users = {} /\ r \in j.roles
  /\ Advance(a, Settle([j EXCEPT !.roles = @ \ {r}, !.users = {u \in Users : <<u, r>> \in userRoles}]),
             rolePermissions, userRoles)
  /\ UNCHANGED <<db, cache, ttl, loader>>

\* DEL the key of one of them.
DeleteKey(a, u) ==
  LET j == admin[a] IN
  /\ j.pc = "invalidate" /\ u \in j.users
  /\ cache' = [cache EXCEPT ![u] = {}]
  /\ ttl' = [ttl EXCEPT ![u] = 0]
  /\ Advance(a, Settle([j EXCEPT !.users = @ \ {u}]), rolePermissions, userRoles)
  /\ UNCHANGED <<db, loader>>

\* A refused insert, a database or Redis error, or the end of the process.
HandlerFails(a) ==
  /\ admin[a].pc # "idle"
  /\ admin' = [admin EXCEPT ![a] = NoJob]
  /\ UNCHANGED <<db, cache, ttl, loader>>

AdminStep(a) ==
  \/ CommitDeletePermission(a) \/ CommitDeleteRole(a)
  \/ CommitAssignPermission(a) \/ CommitRevokePermission(a)
  \/ CommitAssignRole(a) \/ CommitRevokeRole(a)
  \/ \E r \in RoleIds : ReadAssignees(a, r)
  \/ \E u \in Users : DeleteKey(a, u)

StartHandler(a) ==
  \/ \E p \in PermIds : CreatePermission(a, p) \/ DeletePermission(a, p)
  \/ \E r \in RoleIds : CreateRole(a, r) \/ DeleteRole(a, r)
  \/ \E r \in RoleIds, p \in PermIds : AssignPermission(a, r, p) \/ RevokePermission(a, r, p)
  \/ \E u \in Users, r \in RoleIds : AssignRole(a, u, r) \/ RevokeRole(a, u, r)

-----------------------------------------------------------------------------
(* Redis counts every TTL down and drops a key whose TTL runs out. *)

\* Mutant of Tick: a key without a TTL is counted down too.
TickCountsAll ==
  /\ ttl' = [u \in Users |-> IF ttl[u] # 0 THEN ttl[u] - 1 ELSE ttl[u]]
  /\ cache' = [u \in Users |-> IF ttl[u] = 1 THEN {} ELSE cache[u]]
  /\ UNCHANGED <<db, loader, admin>>

Tick ==
  /\ ttl' = [u \in Users |-> IF ttl[u] > 0 THEN ttl[u] - 1 ELSE ttl[u]]
  /\ cache' = [u \in Users |-> IF ttl[u] = 1 THEN {} ELSE cache[u]]
  /\ UNCHANGED <<db, loader, admin>>

-----------------------------------------------------------------------------
Init ==
  /\ roles = SystemRoles
  /\ permissions = SeedPerms
  /\ rolePermissions = SeedGrants
  /\ userRoles = SeedAssignments
  /\ usedIds = SystemRoles \union SeedPerms
  /\ cache = [u \in Users |-> {}]
  /\ ttl = [u \in Users |-> 0]
  /\ loader = [l \in Loaders |-> NoRequest]
  /\ admin = [a \in Admins |-> NoJob]

\* Everything but the passing of time.
Work ==
  \/ \E l \in Loaders :
       \/ \E u \in Users, c \in Codes : Request(l, u, c)
       \/ LoaderStep(l) \/ LoadFails(l)
  \/ \E a \in Admins : StartHandler(a) \/ AdminStep(a) \/ HandlerFails(a)

Next == Work \/ Tick

Spec == Init /\ [][Next]_vars

\* Redis' clock runs, and a request that has started is carried on with (or
\* fails); nothing obliges anybody to send a request or to change a role.
Fairness == WF_vars(Tick) /\ \A l \in Loaders : WF_vars(LoaderStep(l))

FairSpec == Spec /\ Fairness

-----------------------------------------------------------------------------
(* Types. *)

LoaderRecord == [pc : Filling \union Answered \union {"lookup"}, user : Users,
                 need : Codes, codes : SUBSET Codes]

AdminRecord ==
  [op : Deletions \union {"none", "assign_permission", "revoke_permission", "assign_role", "revoke_role"},
   pc : {"idle", "commit", "noop", "invalidate"},
   role : RoleIds, perm : PermIds, user : Users, roles : SUBSET RoleIds, users : SUBSET Users]

\* Every variable holds a value of its type (the tables, the Redis keys with
\* their TTL, the requests and the handlers).
TypeOK ==
  /\ roles \subseteq RoleIds /\ permissions \subseteq PermIds
  /\ rolePermissions \subseteq RoleIds \X PermIds /\ userRoles \subseteq Users \X RoleIds
  /\ usedIds \subseteq RoleIds \union PermIds
  /\ cache \in [Users -> SUBSET Codes]
  /\ ttl \in [Users -> (0 .. TTL) \union {NoTTL}]
  /\ loader \in [Loaders -> LoaderRecord]
  /\ admin \in [Admins -> AdminRecord]

-----------------------------------------------------------------------------
(* Safety. *)

\* A mapping row never outlives its role or its permission, and a handler that
\* loaded a mapping row to delete it holds one that is still there ("noop"
\* otherwise), however the eight handlers overlap between check and commit.
ReferencesLive ==
  /\ rolePermissions \subseteq roles \X permissions
  /\ userRoles \subseteq Users \X roles
  /\ \A a \in Admins :
       /\ admin[a].op = "revoke_permission" /\ admin[a].pc = "commit" =>
            <<admin[a].role, admin[a].perm>> \in rolePermissions
       /\ admin[a].op = "revoke_role" /\ admin[a].pc = "commit" =>
            <<admin[a].user, admin[a].role>> \in userRoles

\* Unless requests die between SADD and EXPIRE, every key that exists either
\* has a TTL or is about to get one from a fill that has done its SADD, though
\* SADD and EXPIRE are two commands and DELs and other fills come in between.
ExpiryAttached ==
  \A u \in Users :
    /\ cache[u] = {} <=> ttl[u] = 0
    /\ ~PartialFill /\ ttl[u] = NoTTL =>
         \E l \in Loaders : loader[l].pc = "expire" /\ loader[l].user = u

\* Every cached permission set goes away in time, whatever traffic there is:
\* "Result is cached in Redis for 300s" (RUNBOOK.html:490), "In production, the
\* cache will expire naturally" (RUNBOOK.html:604).
EntriesExpire == \A u \in Users : (cache[u] # {}) ~> (cache[u] = {})

-----------------------------------------------------------------------------
(* What the documentation says of the handlers. *)

\* The barangay_admin fallback is for accounts "not yet assigned in dynamic
\* RBAC" (dependencies.py:138): a check that ends in it, which the query with
\* its empty result decides, is one of an account without a role.
FallbackOnlyUnassigned ==
  [][\A l \in Loaders : loader[l].pc = "query" /\ loader'[l].pc = "fallback" =>
       \A r \in RoleIds : <<loader[l].user, r>> \notin userRoles]_vars

=============================================================================
