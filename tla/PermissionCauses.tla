--------------------------- MODULE PermissionCauses ---------------------------
(***************************************************************************)
(* Which races can leave a wrong permission set in the cache?  Two history *)
(* variables are added to PermissionCache: whether the tables changed for  *)
(* its user while a fill held codes it had queried, and what has happened  *)
(* to each user's cache entry that may have made it wrong.                 *)
(***************************************************************************)
EXTENDS PermissionCache

VARIABLES overtaken, cause

causeVars == <<vars, overtaken, cause>>

Changes(u) == Granted(u)' # Granted(u)

\* Handler a has changed the tables and its DEL of u's key is still to come.
Owes(a, u) ==
  /\ admin[a].pc = "invalidate" /\ admin[a].op \notin Deletions
  /\ u \in admin[a].users \/ \E r \in admin[a].roles : <<u, r>> \in userRoles

\* A fill writes codes that a commit has meanwhile made wrong.
OvertakenFill(u) ==
  \E l \in Loaders : /\ loader[l].pc = "sadd" /\ loader'[l].pc = "expire"
                     /\ loader[l].user = u /\ overtaken[l]

\* A handler dies between its commit and its last DEL.
LostInvalidation(u) ==
  \E a \in Admins : Owes(a, u) /\ admin'[a].pc = "idle"

\* A role or permission is deleted, after the caches were invalidated.
LateDeletion(u) ==
  /\ \E a \in Admins : admin[a].pc = "commit" /\ admin[a].op \in Deletions /\ admin'[a].pc = "idle"
  /\ Changes(u) \/ \E r \in RoleIds : <<u, r>> \in userRoles \ userRoles'

CauseInit ==
  /\ Init
  /\ overtaken = [l \in Loaders |-> FALSE]
  /\ cause = [u \in Users |-> {}]

CauseNext ==
  /\ Next
  /\ overtaken' = [l \in Loaders |->
       /\ loader'[l].pc = "sadd" /\ loader[l].pc = "sadd"
       /\ overtaken[l] \/ Changes(loader[l].user)]
  /\ cause' = [u \in Users |-> IF cache'[u] = {} THEN {}
       ELSE cause[u] \union (IF OvertakenFill(u) THEN {"fill"} ELSE {})
                     \union (IF LostInvalidation(u) THEN {"failure"} ELSE {})
                     \union (IF LateDeletion(u) THEN {"deletion"} ELSE {})]

CauseSpec == CauseInit /\ [][CauseNext]_causeVars

CauseFairSpec == CauseSpec /\ Fairness

Wrong(u) == cache[u] # {} /\ cache[u] # Granted(u)

-----------------------------------------------------------------------------
\* A cached set that differs from the tables is about to be deleted by the
\* handler that made it wrong, or it goes back to one of three events: a fill
\* overtaken by a commit, a handler that failed before its last DEL, or the
\* commit of a deletion.  Handlers that overlap (a role revoked from a user
\* while another handler reads that role's assignees) add no fourth one.
WrongEntriesExplained ==
  \A u \in Users : Wrong(u) => cause[u] # {} \/ \E a \in Admins : Owes(a, u)

\* The same without the third event: a deletion, like the other handlers,
\* would leave no wrong set behind ("Invalidate caches for all roles that had
\* this permission", rbac/router.py:95; _invalidate_role_caches:45).
DeletionInvalidates ==
  \A u \in Users : Wrong(u) => cause[u] \ {"deletion"} # {} \/ \E a \in Admins : Owes(a, u)

=============================================================================
