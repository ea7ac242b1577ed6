------------------------ MODULE PermissionCacheProofs ------------------------
(* What holds of the permission cache for any tables, requests and handlers. *)
EXTENDS PermissionCache, TLAPS

(* The records of an idle request and of an idle handler have their types. *)
LEMMA DefaultsTyped == NoRequest \in LoaderRecord /\ NoJob \in AdminRecord
BY IdsAssumption DEF NoRequest, NoJob, LoaderRecord, AdminRecord, Answered, Deletions

\* A handler that settles is a handler, or none.
LEMMA SettleTyped ==
  ASSUME NEW j \in AdminRecord
  PROVE  Settle(j) \in AdminRecord
BY DefaultsTyped DEF Settle, AdminRecord

\* A step of one handler leaves all of them well typed.
LEMMA AdvanceTyped ==
  ASSUME admin \in [Admins -> AdminRecord], NEW a \in Admins, NEW j \in AdminRecord,
         NEW rp, NEW ur, Advance(a, j, rp, ur)
  PROVE  admin' \in [Admins -> AdminRecord]
BY DEF Advance, AdminRecord

(* Starting a handler moves that handler only. *)
LEMMA StartTyped ==
  ASSUME TypeOK, NEW a \in Admins, NEW j \in AdminRecord, Start(a, j) \/ Start(a, Settle(j))
  PROVE  TypeOK'
<1>1. CASE Start(a, j)
  BY <1>1, AdvanceTyped DEF TypeOK, Start, db
<1>2. CASE Start(a, Settle(j))
  BY <1>2, AdvanceTyped, SettleTyped DEF TypeOK, Start, db
<1> QED
  BY <1>1, <1>2

\* require_permissions ends in one of three answers.
LEMMA VerdictTyped ==
  ASSUME NEW u, NEW c, NEW codes
  PROVE  Verdict(u, c, codes) \in {"allowed", "fallback", "denied"}
BY DEF Verdict

\* The join query yields permission codes.
LEMMA GrantedTyped ==
  ASSUME TypeOK, NEW u
  PROVE  Granted(u) \subseteq Codes
<1>1. \A g \in rolePermissions : CodeOf[g[2]] \in Codes
  BY IdsAssumption DEF TypeOK
<1> QED
  BY <1>1 DEF Granted, HeldCodes

\* The seeded tables and the empty cache are well typed.
LEMMA InitTyped == Init => TypeOK
<1>1. ASSUME Init PROVE NoRequest \in LoaderRecord /\ NoJob \in AdminRecord
  BY DefaultsTyped
<1> QED
  BY <1>1, SeedAssumption, TTLAssumption DEF Init, TypeOK

\* Every step keeps the types: one case for each action.
LEMMA NextTyped == TypeOK /\ [Next]_vars => TypeOK'
<1> SUFFICES ASSUME TypeOK, [Next]_vars PROVE TypeOK'
  OBVIOUS
<1> USE DEF TypeOK
<1>1. ASSUME NEW l \in Loaders, NEW u \in Users, NEW c \in Codes, Request(l, u, c) PROVE TypeOK'
  BY <1>1 DEF Request, LoaderRecord, Answered, db
<1>2. ASSUME NEW l \in Loaders, Lookup(l) PROVE TypeOK'
  BY <1>2, VerdictTyped DEF Lookup, LoaderRecord, Answered, Filling, db
<1>3. ASSUME NEW l \in Loaders, Query(l) PROVE TypeOK'
  <2>1. loader[l].user \in Users /\ Granted(loader[l].user) \subseteq Codes
    BY GrantedTyped DEF LoaderRecord
  <2>2. Verdict(loader[l].user, loader[l].need, {}) \in Answered
    BY VerdictTyped DEF Answered
  <2>3. loader' \in [Loaders -> LoaderRecord]
    <3> DEFINE codes == Granted(loader[l].user)
               pc == IF codes = {} THEN Verdict(loader[l].user, loader[l].need, {}) ELSE "sadd"
    <3>1. pc \in Filling \union Answered
      BY <2>2 DEF Filling
    <3>2. loader' = [loader EXCEPT ![l].pc = pc, ![l].codes = codes]
      BY <1>3 DEF Query
    <3>3. codes \in SUBSET Codes
      BY <2>1
    <3> HIDE DEF codes, pc
    <3>4. [loader[l] EXCEPT !.pc = pc, !.codes = codes] \in LoaderRecord
      BY <3>1, <3>3 DEF LoaderRecord
    <3> QED
      BY <3>2, <3>4
  <2> QED
    BY <1>3, <2>3 DEF Query, db
<1>4. ASSUME NEW l \in Loaders, Sadd(l) PROVE TypeOK'
  BY <1>4, TTLAssumption DEF Sadd, LoaderRecord, Filling, db, NoTTL
<1>5. ASSUME NEW l \in Loaders, Expire(l) PROVE TypeOK'
  <2>1. loader' \in [Loaders -> LoaderRecord]
    <3> DEFINE pc == Verdict(loader[l].user, loader[l].need, loader[l].codes)
    <3>1. pc \in Answered
      BY VerdictTyped DEF Answered
    <3>2. loader' = [loader EXCEPT ![l].pc = pc]
      BY <1>5 DEF Expire
    <3> HIDE DEF pc
    <3>3. [loader[l] EXCEPT !.pc = pc] \in LoaderRecord
      BY <3>1 DEF LoaderRecord
    <3> QED
      BY <3>2, <3>3
  <2>2. ttl' \in [Users -> (0 .. TTL) \union {NoTTL}]
    <3>1. TTL \in (0 .. TTL) \union {NoTTL}
      BY TTLAssumption
    <3>2. ttl' = [ttl EXCEPT ![loader[l].user] = IF cache[loader[l].user] = {} THEN @ ELSE TTL]
      BY <1>5 DEF Expire
    <3> QED
      BY <3>1, <3>2
  <2> QED
    BY <1>5, <2>1, <2>2 DEF Expire, db
<1>6. ASSUME NEW l \in Loaders, LoadFails(l) PROVE TypeOK'
  BY <1>6, DefaultsTyped DEF LoadFails, db
<1>7. ASSUME NEW a \in Admins, StartHandler(a) PROVE TypeOK'
  <2>1. ASSUME NEW p \in PermIds, CreatePermission(a, p) PROVE TypeOK'
    BY <2>1 DEF CreatePermission
  <2>2. ASSUME NEW p \in PermIds, DeletePermission(a, p) PROVE TypeOK'
    <3> DEFINE j == [NoJob EXCEPT !.op = "delete_permission", !.perm = p,
                     !.roles = {g[1] : g \in {h \in rolePermissions : h[2] = p}}]
    <3>1. {g[1] : g \in {h \in rolePermissions : h[2] = p}} \subseteq RoleIds
      OBVIOUS
    <3>2. j \in AdminRecord
      BY <3>1, DefaultsTyped DEF AdminRecord, Deletions
    <3> QED
      BY <2>2, <3>2, StartTyped DEF DeletePermission
  <2>3. ASSUME NEW r \in RoleIds, CreateRole(a, r) PROVE TypeOK'
    BY <2>3 DEF CreateRole
  <2>4. ASSUME NEW r \in RoleIds, DeleteRole(a, r) PROVE TypeOK'
    BY <2>4, DefaultsTyped, StartTyped DEF DeleteRole, AdminRecord, Deletions
  <2>5. ASSUME NEW r \in RoleIds, NEW p \in PermIds, AssignPermission(a, r, p) PROVE TypeOK'
    BY <2>5, DefaultsTyped, StartTyped DEF AssignPermission, AdminRecord
  <2>6. ASSUME NEW r \in RoleIds, NEW p \in PermIds, RevokePermission(a, r, p) PROVE TypeOK'
    BY <2>6, DefaultsTyped, StartTyped DEF RevokePermission, AdminRecord
  <2>7. ASSUME NEW u \in Users, NEW r \in RoleIds, AssignRole(a, u, r) PROVE TypeOK'
    BY <2>7, DefaultsTyped, StartTyped DEF AssignRole, AdminRecord
  <2>8. ASSUME NEW u \in Users, NEW r \in RoleIds, RevokeRole(a, u, r) PROVE TypeOK'
    BY <2>8, DefaultsTyped, StartTyped DEF RevokeRole, AdminRecord
  <2> QED
    BY <1>7, <2>1, <2>2, <2>3, <2>4, <2>5, <2>6, <2>7, <2>8 DEF StartHandler
<1>8. ASSUME NEW a \in Admins, AdminStep(a) PROVE TypeOK'
  <2> DEFINE j == admin[a]
  <2>0. j \in AdminRecord
    OBVIOUS
  <2>1. CASE CommitDeletePermission(a)
    BY <2>0, <2>1, DefaultsTyped, AdvanceTyped DEF CommitDeletePermission
  <2>2. CASE CommitDeleteRole(a)
    BY <2>0, <2>2, DefaultsTyped, AdvanceTyped DEF CommitDeleteRole
  <2>3. CASE CommitAssignPermission(a)
    <3>1. [j EXCEPT !.roles = {j.role}] \in AdminRecord
      BY <2>0 DEF AdminRecord
    <3>2. admin' \in [Admins -> AdminRecord]
      BY <2>3, <3>1, SettleTyped, AdvanceTyped DEF CommitAssignPermission
    <3> QED
      BY <2>0, <2>3, <3>2 DEF CommitAssignPermission, AdminRecord
  <2>4. CASE CommitRevokePermission(a)
    BY <2>0, <2>4, SettleTyped, AdvanceTyped DEF CommitRevokePermission, AdminRecord
  <2>5. CASE CommitAssignRole(a)
    BY <2>0, <2>5, SettleTyped, AdvanceTyped DEF CommitAssignRole, AdminRecord
  <2>6. CASE CommitRevokeRole(a)
    BY <2>0, <2>6, SettleTyped, AdvanceTyped DEF CommitRevokeRole, AdminRecord
  <2>7. ASSUME NEW r \in RoleIds, ReadAssignees(a, r) PROVE TypeOK'
    <3> DEFINE k == [j EXCEPT !.roles = @ \ {r}, !.users = {u \in Users : <<u, r>> \in userRoles}]
    <3>1. k \in AdminRecord
      BY <2>0 DEF AdminRecord
    <3>2. admin' \in [Admins -> AdminRecord]
      BY <2>7, <3>1, SettleTyped, AdvanceTyped DEF ReadAssignees
    <3> QED
      BY <2>7, <3>2 DEF ReadAssignees, db
  <2>8. ASSUME NEW u \in Users, DeleteKey(a, u) PROVE TypeOK'
    <3>1. [j EXCEPT !.users = @ \ {u}] \in AdminRecord
      BY <2>0 DEF AdminRecord
    <3>2. admin' \in [Admins -> AdminRecord]
      BY <2>8, <3>1, SettleTyped, AdvanceTyped DEF DeleteKey
    <3> QED
      BY <2>8, <3>2, TTLAssumption DEF DeleteKey, db
  <2> QED
    BY <1>8, <2>1, <2>2, <2>3, <2>4, <2>5, <2>6, <2>7, <2>8 DEF AdminStep
<1>9. ASSUME NEW a \in Admins, HandlerFails(a) PROVE TypeOK'
  BY <1>9, DefaultsTyped DEF HandlerFails, db
<1>10. CASE Tick
  BY <1>10, TTLAssumption DEF Tick, db, NoTTL
<1>11. CASE UNCHANGED vars
  BY <1>11 DEF vars, db
<1> QED
  BY <1>1, <1>2, <1>3, <1>4, <1>5, <1>6, <1>7, <1>8, <1>9, <1>10, <1>11
  DEF Next, Work, LoaderStep

(* Every variable keeps its type: a request or handler never reaches a state *)
(* outside the steps of dependencies.py and rbac/router.py.                  *)
THEOREM TypeCorrect == Spec => []TypeOK
BY InitTyped, NextTyped, PTL DEF Spec

-----------------------------------------------------------------------------
(* Keys and their expiry. *)

\* A handler moves no request; all it does to the cache is to delete a key.
LEMMA AdminKeepsLoaders ==
  ASSUME TypeOK, NEW a \in Admins, StartHandler(a) \/ AdminStep(a) \/ HandlerFails(a)
  PROVE  /\ loader' = loader
         /\ \/ UNCHANGED <<cache, ttl>>
            \/ \E u \in Users : /\ cache' = [cache EXCEPT ![u] = {}]
                                /\ ttl' = [ttl EXCEPT ![u] = 0]
<1>1. CASE StartHandler(a)
  BY <1>1 DEF StartHandler, Start, CreatePermission, DeletePermission, CreateRole, DeleteRole,
     AssignPermission, RevokePermission, AssignRole, RevokeRole
<1>2. CASE AdminStep(a)
  BY <1>2 DEF AdminStep, CommitDeletePermission, CommitDeleteRole, CommitAssignPermission,
     CommitRevokePermission, CommitAssignRole, CommitRevokeRole, ReadAssignees, DeleteKey
<1>3. CASE HandlerFails(a)
  BY <1>3 DEF HandlerFails
<1> QED
  BY <1>1, <1>2, <1>3

(* A request between SADD and EXPIRE writes at least one code: a key it      *)
(* creates exists.                                                           *)
FillHasCodes == \A l \in Loaders : loader[l].pc = "sadd" => loader[l].codes # {}

ExpiryInv == TypeOK /\ FillHasCodes /\ ExpiryAttached

(* A request that leaves the cache alone and was not at its EXPIRE.          *)
LEMMA StepBeforeSadd ==
  ASSUME ExpiryInv, TypeOK', NEW l \in Loaders, UNCHANGED <<cache, ttl>>,
         loader[l].pc # "expire", \A k \in Loaders \ {l} : loader'[k] = loader[k],
         loader'[l].pc = "sadd" => loader'[l].codes # {}
  PROVE  ExpiryInv'
<1>1. FillHasCodes'
  BY DEF ExpiryInv, FillHasCodes
<1>2. ASSUME NEW u \in Users, ~PartialFill, ttl'[u] = NoTTL
      PROVE  \E k \in Loaders : loader'[k].pc = "expire" /\ loader'[k].user = u
  <2>1. PICK k \in Loaders : loader[k].pc = "expire" /\ loader[k].user = u
    BY <1>2 DEF ExpiryInv, ExpiryAttached
  <2> QED
    BY <2>1
<1> QED
  BY <1>1, <1>2 DEF ExpiryInv, ExpiryAttached

(* No cached permission set is without an expiry unless a fill is about to   *)
(* give it one, for any number of requests and handlers; that the fill that  *)
(* creates a key is the one whose EXPIRE is outstanding is the induction.    *)
THEOREM KeysGetTheirExpiry == Spec => []ExpiryAttached
<1>1. Init => ExpiryInv
  <2> SUFFICES ASSUME Init PROVE ExpiryInv
    OBVIOUS
  <2>1. TypeOK
    BY InitTyped
  <2> QED
    <3>1. FillHasCodes
      BY DEF Init, FillHasCodes, NoRequest
    <3>2. ExpiryAttached
      <4>1. \A u \in Users : cache[u] = {} /\ ttl[u] = 0
        BY DEF Init
      <4>2. 0 # NoTTL
        BY DEF NoTTL
      <4> QED
        BY <4>1, <4>2 DEF ExpiryAttached
    <3> QED
      BY <2>1, <3>1, <3>2 DEF ExpiryInv
<1>2. ExpiryInv /\ [Next]_vars => ExpiryInv'
  <2> SUFFICES ASSUME ExpiryInv, [Next]_vars PROVE ExpiryInv'
    OBVIOUS
  <2>0. TypeOK /\ TypeOK'
    BY NextTyped DEF ExpiryInv
  <2> USE DEF ExpiryInv, FillHasCodes, ExpiryAttached
  <2>1. ASSUME NEW l \in Loaders, NEW u \in Users, NEW c \in Codes, Request(l, u, c) PROVE ExpiryInv'
    BY <2>0, <2>1 DEF Request, Answered, TypeOK, LoaderRecord
  <2>2. ASSUME NEW l \in Loaders, Lookup(l) PROVE ExpiryInv'
    <3> DEFINE u == loader[l].user
               pc == IF cache[u] = {} THEN "query" ELSE Verdict(u, loader[l].need, cache[u])
    <3>1. pc # "sadd"
      BY VerdictTyped
    <3>2. loader[l].pc = "lookup" /\ loader' = [loader EXCEPT ![l].pc = pc]
      BY <2>2 DEF Lookup
    <3>3. UNCHANGED <<cache, ttl>>
      BY <2>2 DEF Lookup
    <3> HIDE DEF pc
    <3>4. loader'[l].pc = pc /\ \A k \in Loaders \ {l} : loader'[k] = loader[k]
      BY <2>0, <3>2 DEF TypeOK, LoaderRecord
    <3> QED
      BY <2>0, <3>1, <3>2, <3>3, <3>4, StepBeforeSadd
  <2>3. ASSUME NEW l \in Loaders, Query(l) PROVE ExpiryInv'
    <3>1. Verdict(loader[l].user, loader[l].need, {}) # "sadd"
      BY VerdictTyped
    <3>2. loader'[l].pc = "sadd" => loader'[l].codes # {}
      <4> DEFINE codes == Granted(loader[l].user)
                 pc == IF codes = {} THEN Verdict(loader[l].user, loader[l].need, {}) ELSE "sadd"
      <4>1. pc = "sadd" => codes # {}
        BY <3>1
      <4>2. loader' = [loader EXCEPT ![l].pc = pc, ![l].codes = codes]
        BY <2>3 DEF Query
      <4> HIDE DEF codes, pc
      <4> QED
        BY <2>0, <4>1, <4>2 DEF TypeOK, LoaderRecord
    <3>3. \A k \in Loaders \ {l} : loader'[k] = loader[k]
      BY <2>0, <2>3 DEF Query, TypeOK
    <3> QED
      BY <2>0, <2>3, <3>2, <3>3, StepBeforeSadd DEF Query
  <2>4. ASSUME NEW l \in Loaders, Sadd(l) PROVE ExpiryInv'
    <3> DEFINE v == loader[l].user
    <3>1. v \in Users /\ loader[l].pc = "sadd" /\ loader[l].codes # {}
      BY <2>0, <2>4 DEF Sadd, TypeOK, LoaderRecord
    <3>2. loader'[l].pc = "expire" /\ loader'[l].user = v
      BY <2>0, <2>4 DEF Sadd, TypeOK, LoaderRecord
    <3>3. \A k \in Loaders \ {l} : loader'[k] = loader[k]
      BY <2>0, <2>4 DEF Sadd, TypeOK
    <3>4. cache'[v] # {} /\ ttl'[v] = (IF cache[v] = {} THEN NoTTL ELSE ttl[v])
      BY <2>0, <2>4, <3>1 DEF Sadd, TypeOK
    <3>5. \A u \in Users \ {v} : cache'[u] = cache[u] /\ ttl'[u] = ttl[u]
      BY <2>0, <2>4 DEF Sadd, TypeOK
    <3>6. FillHasCodes'
      BY <3>2, <3>3
    <3>7. ASSUME NEW u \in Users PROVE (cache[u] = {} <=> ttl[u] = 0)'
      BY <3>1, <3>4, <3>5 DEF NoTTL
    <3>8. ASSUME NEW u \in Users, ~PartialFill, ttl'[u] = NoTTL
          PROVE  \E k \in Loaders : loader'[k].pc = "expire" /\ loader'[k].user = u
      <4>1. CASE u = v
        BY <4>1, <3>2
      <4>2. CASE u # v
        <5>1. PICK k \in Loaders : loader[k].pc = "expire" /\ loader[k].user = u
          BY <4>2, <3>5, <3>8
        <5>2. k # l
          BY <5>1, <3>1
        <5> QED
          BY <5>1, <5>2, <3>3
      <4> QED
        BY <4>1, <4>2
    <3> QED
      BY <2>0, <3>6, <3>7, <3>8
  <2>5. ASSUME NEW l \in Loaders, Expire(l) PROVE ExpiryInv'
    <3> DEFINE v == loader[l].user
    <3>1. v \in Users
      BY <2>0 DEF TypeOK, LoaderRecord
    <3>2. loader'[l].pc # "sadd"
      BY <2>0, <2>5, VerdictTyped DEF Expire, TypeOK, LoaderRecord
    <3>3. \A k \in Loaders \ {l} : loader'[k] = loader[k]
      BY <2>0, <2>5 DEF Expire, TypeOK
    <3>4. cache' = cache /\ ttl'[v] = (IF cache[v] = {} THEN ttl[v] ELSE TTL)
      BY <2>0, <2>5, <3>1 DEF Expire, TypeOK
    <3>5. \A u \in Users \ {v} : ttl'[u] = ttl[u]
      BY <2>0, <2>5 DEF Expire, TypeOK
    <3>6. FillHasCodes'
      BY <3>2, <3>3
    <3>7. ASSUME NEW u \in Users PROVE (cache[u] = {} <=> ttl[u] = 0)'
      BY <3>4, <3>5, TTLAssumption
    <3>8. ASSUME NEW u \in Users, ~PartialFill, ttl'[u] = NoTTL
          PROVE  \E k \in Loaders : loader'[k].pc = "expire" /\ loader'[k].user = u
      <4>1. u # v
        <5>1. CASE cache[v] = {}
          BY <5>1, <3>1, <3>4, <3>8 DEF NoTTL
        <5>2. CASE cache[v] # {}
          BY <5>2, <3>4, <3>8, TTLAssumption DEF NoTTL
        <5> QED
          BY <5>1, <5>2
      <4>2. PICK k \in Loaders : loader[k].pc = "expire" /\ loader[k].user = u
        BY <4>1, <3>5, <3>8
      <4> QED
        BY <4>1, <4>2, <3>3
    <3> QED
      BY <2>0, <3>6, <3>7, <3>8
  <2>6. ASSUME NEW l \in Loaders, LoadFails(l) PROVE ExpiryInv'
    BY <2>0, <2>6 DEF LoadFails, NoRequest, TypeOK, LoaderRecord
  <2>7. ASSUME NEW a \in Admins, StartHandler(a) \/ AdminStep(a) \/ HandlerFails(a) PROVE ExpiryInv'
    BY <2>0, <2>7, AdminKeepsLoaders DEF TypeOK, NoTTL
  <2>8. CASE Tick
    BY <2>0, <2>8, TTLAssumption DEF Tick, TypeOK, NoTTL
  <2>9. CASE UNCHANGED vars
    BY <2>0, <2>9 DEF vars, db
  <2> QED
    BY <2>1, <2>2, <2>3, <2>4, <2>5, <2>6, <2>7, <2>8, <2>9 DEF Next, Work, LoaderStep
<1> QED
  BY <1>1, <1>2, PTL DEF Spec, ExpiryInv

-----------------------------------------------------------------------------
(* Mapping rows and the rows they refer to. *)

RowsLive == /\ rolePermissions \subseteq roles \X permissions
            /\ userRoles \subseteq Users \X roles

RowsInHand == \A a \in Admins : ~RowGone(admin[a], rolePermissions, userRoles)

\* The invariant in its two parts, the rows and the rows in a handler's hand.
LEMMA ReferencesSplit == ReferencesLive <=> RowsLive /\ RowsInHand
BY DEF ReferencesLive, RowsLive, RowsInHand, RowGone

(* Whatever the tables become, Advance leaves no handler with a lost row.    *)
LEMMA AdvanceInHand ==
  ASSUME admin \in [Admins -> AdminRecord], NEW a \in Admins, NEW j,
         Advance(a, j, rolePermissions', userRoles'), ~RowGone(j, rolePermissions', userRoles')
  PROVE  RowsInHand'
<1> SUFFICES ASSUME NEW b \in Admins
             PROVE  ~RowGone(admin'[b], rolePermissions', userRoles')
  BY DEF RowsInHand
<1>1. CASE b = a
  BY <1>1 DEF Advance
<1>2. CASE b # a /\ RowGone(admin[b], rolePermissions', userRoles')
  BY <1>2 DEF Advance, AdminRecord, RowGone
<1>3. CASE b # a /\ ~RowGone(admin[b], rolePermissions', userRoles')
  BY <1>3 DEF Advance
<1> QED
  BY <1>1, <1>2, <1>3

(* A handler that invalidates caches, or has returned, holds no row.         *)
LEMMA SettledHoldsNone ==
  ASSUME NEW j \in AdminRecord, NEW rp, NEW ur,
         j.op \in {"revoke_permission", "revoke_role"} => j.roles # {} \/ j.users # {}
  PROVE  ~RowGone(NoJob, rp, ur) /\ ~RowGone(Settle(j), rp, ur)
BY DefaultsTyped DEF Settle, RowGone, AdminRecord, NoJob, Deletions

\* The first statements of a handler load rows that are there.
LEMMA StartInHand ==
  ASSUME TypeOK, RowsLive, NEW a \in Admins, StartHandler(a)
  PROVE  RowsLive' /\ (RowsInHand => RowsInHand')
<1>1. ASSUME NEW j, ~RowGone(j, rolePermissions, userRoles), Start(a, j)
      PROVE  RowsLive' /\ RowsInHand'
  BY <1>1, AdvanceInHand DEF Start, TypeOK, RowsLive, db
<1>2. ASSUME NEW p \in PermIds, CreatePermission(a, p) PROVE RowsLive' /\ (RowsInHand => RowsInHand')
  BY <1>2 DEF CreatePermission, RowsLive, RowsInHand
<1>3. ASSUME NEW r \in RoleIds, CreateRole(a, r) PROVE RowsLive' /\ (RowsInHand => RowsInHand')
  BY <1>3 DEF CreateRole, RowsLive, RowsInHand
<1>4. ASSUME NEW j \in AdminRecord, j.op \notin {"revoke_permission", "revoke_role"}
      PROVE  ~RowGone(j, rolePermissions, userRoles) /\ ~RowGone(Settle(j), rolePermissions, userRoles)
  BY <1>4, SettledHoldsNone DEF RowGone
<1>5. ASSUME NEW p \in PermIds, DeletePermission(a, p) PROVE RowsLive' /\ RowsInHand'
  <2> DEFINE j == [NoJob EXCEPT !.op = "delete_permission", !.perm = p,
                   !.roles = {g[1] : g \in {h \in rolePermissions : h[2] = p}}]
  <2>1. {g[1] : g \in {h \in rolePermissions : h[2] = p}} \subseteq RoleIds
    BY DEF TypeOK
  <2>2. j \in AdminRecord /\ j.op = "delete_permission"
    BY <2>1, DefaultsTyped DEF AdminRecord, Deletions
  <2> QED
    BY <1>1, <1>4, <1>5, <2>2 DEF DeletePermission
<1>6. ASSUME NEW r \in RoleIds, DeleteRole(a, r) PROVE RowsLive' /\ RowsInHand'
  <2> DEFINE j == [NoJob EXCEPT !.op = "delete_role", !.role = r, !.roles = {r}]
  <2>1. j \in AdminRecord /\ j.op = "delete_role"
    BY DefaultsTyped DEF AdminRecord, Deletions
  <2> QED
    BY <1>1, <1>4, <1>6, <2>1 DEF DeleteRole
<1>7. ASSUME NEW r \in RoleIds, NEW p \in PermIds, AssignPermission(a, r, p) PROVE RowsLive' /\ RowsInHand'
  <2> DEFINE j == [NoJob EXCEPT !.op = "assign_permission", !.role = r, !.perm = p]
             k == [j EXCEPT !.roles = {r}]
             m == [j EXCEPT !.pc = "commit"]
  <2>1. k \in AdminRecord /\ k.op = "assign_permission" /\ m \in AdminRecord /\ m.op = "assign_permission"
    BY DefaultsTyped DEF AdminRecord
  <2>2. Start(a, Settle(k)) \/ Start(a, m)
    BY <1>7 DEF AssignPermission
  <2> HIDE DEF k, m
  <2> QED
    BY <1>1, <1>4, <2>1, <2>2
<1>8. ASSUME NEW u \in Users, NEW r \in RoleIds, AssignRole(a, u, r) PROVE RowsLive' /\ RowsInHand'
  <2> DEFINE j == [NoJob EXCEPT !.op = "assign_role", !.user = u, !.role = r]
             k == [j EXCEPT !.users = {u}]
             m == [j EXCEPT !.pc = "commit"]
  <2>1. k \in AdminRecord /\ k.op = "assign_role" /\ m \in AdminRecord /\ m.op = "assign_role"
    BY DefaultsTyped DEF AdminRecord
  <2>2. Start(a, Settle(k)) \/ Start(a, m)
    BY <1>8 DEF AssignRole
  <2> HIDE DEF k, m
  <2> QED
    BY <1>1, <1>4, <2>1, <2>2
<1>9. ASSUME NEW r \in RoleIds, NEW p \in PermIds, RevokePermission(a, r, p) PROVE RowsLive' /\ RowsInHand'
  <2> DEFINE j == [NoJob EXCEPT !.op = "revoke_permission", !.pc = "commit", !.role = r, !.perm = p]
  <2>1. ~RowGone(j, rolePermissions, userRoles)
    BY <1>9, DefaultsTyped DEF RevokePermission, RowGone, AdminRecord
  <2> QED
    BY <1>1, <1>9, <2>1 DEF RevokePermission
<1>10. ASSUME NEW u \in Users, NEW r \in RoleIds, RevokeRole(a, u, r) PROVE RowsLive' /\ RowsInHand'
  <2> DEFINE j == [NoJob EXCEPT !.op = "revoke_role", !.pc = "commit", !.user = u, !.role = r]
  <2>1. ~RowGone(j, rolePermissions, userRoles)
    BY <1>10, DefaultsTyped DEF RevokeRole, RowGone, AdminRecord
  <2> QED
    BY <1>1, <1>10, <2>1 DEF RevokeRole
<1> QED
  BY <1>2, <1>3, <1>5, <1>6, <1>7, <1>8, <1>9, <1>10 DEF StartHandler

\* A commit orphans no row, and takes no row out of another handler's hand
\* without that handler's noticing ("noop").
LEMMA AdminInHand ==
  ASSUME TypeOK, RowsLive, RowsInHand, NEW a \in Admins, AdminStep(a)
  PROVE  RowsLive' /\ RowsInHand'
<1> DEFINE j == admin[a]
<1>0. j \in AdminRecord /\ j.user \in Users
  BY DEF TypeOK, AdminRecord
<1>1. CASE CommitDeletePermission(a)
  <2>1. RowsInHand'
    BY <1>1, AdvanceInHand, SettledHoldsNone, DefaultsTyped
    DEF CommitDeletePermission, TypeOK, NoJob, RowGone
  <2> QED
    BY <1>1, <2>1 DEF CommitDeletePermission, RowsLive
<1>2. CASE CommitDeleteRole(a)
  <2>1. RowsInHand'
    BY <1>2, AdvanceInHand, SettledHoldsNone, DefaultsTyped
    DEF CommitDeleteRole, TypeOK, NoJob, RowGone
  <2> QED
    BY <1>2, <2>1 DEF CommitDeleteRole, RowsLive
<1>3. CASE CommitAssignPermission(a)
  <2> DEFINE k == [j EXCEPT !.roles = {j.role}]
  <2>1. k \in AdminRecord /\ k.roles # {}
    BY <1>0 DEF AdminRecord
  <2>2. RowsInHand'
    BY <1>3, <2>1, AdvanceInHand, SettledHoldsNone DEF CommitAssignPermission, TypeOK
  <2> QED
    BY <1>3, <2>2 DEF CommitAssignPermission, RowsLive
<1>4. CASE CommitRevokePermission(a)
  <2> DEFINE k == [j EXCEPT !.roles = {j.role}]
  <2>1. k \in AdminRecord /\ k.roles # {}
    BY <1>0 DEF AdminRecord
  <2>2. RowsInHand'
    BY <1>4, <2>1, AdvanceInHand, SettledHoldsNone DEF CommitRevokePermission, TypeOK
  <2> QED
    BY <1>4, <2>2 DEF CommitRevokePermission, RowsLive
<1>5. CASE CommitAssignRole(a)
  <2> DEFINE k == [j EXCEPT !.users = {j.user}]
  <2>1. k \in AdminRecord /\ k.users # {}
    BY <1>0 DEF AdminRecord
  <2>2. RowsInHand'
    BY <1>5, <2>1, AdvanceInHand, SettledHoldsNone DEF CommitAssignRole, TypeOK
  <2> QED
    BY <1>0, <1>5, <2>2 DEF CommitAssignRole, RowsLive
<1>6. CASE CommitRevokeRole(a)
  <2> DEFINE k == [j EXCEPT !.users = {j.user}]
  <2>1. k \in AdminRecord /\ k.users # {}
    BY <1>0 DEF AdminRecord
  <2>2. RowsInHand'
    BY <1>6, <2>1, AdvanceInHand, SettledHoldsNone DEF CommitRevokeRole, TypeOK
  <2> QED
    BY <1>6, <2>2 DEF CommitRevokeRole, RowsLive
<1>7. CASE (\E r \in RoleIds : ReadAssignees(a, r)) \/ (\E u \in Users : DeleteKey(a, u))
  <2> DEFINE Moves(k) == /\ Advance(a, Settle(k), rolePermissions, userRoles)
                         /\ UNCHANGED db /\ j.pc = "invalidate" /\ k.op = j.op
  <2>1. PICK k \in AdminRecord : Moves(k)
    <3>1. ASSUME NEW r \in RoleIds, ReadAssignees(a, r)
          PROVE  \E k \in AdminRecord : Moves(k)
      <4> DEFINE k == [j EXCEPT !.roles = @ \ {r}, !.users = {u \in Users : <<u, r>> \in userRoles}]
      <4>1. k \in AdminRecord /\ k.op = j.op
        BY <1>0 DEF AdminRecord
      <4>2. Moves(k)
        BY <3>1, <4>1 DEF ReadAssignees
      <4> QED
        BY <4>1, <4>2
    <3>2. ASSUME NEW u \in Users, DeleteKey(a, u)
          PROVE  \E k \in AdminRecord : Moves(k)
      <4> DEFINE k == [j EXCEPT !.users = @ \ {u}]
      <4>1. k \in AdminRecord /\ k.op = j.op
        BY <1>0 DEF AdminRecord
      <4>2. Moves(k)
        BY <3>2, <4>1 DEF DeleteKey
      <4> QED
        BY <4>1, <4>2
    <3> QED
      BY <1>7, <3>1, <3>2
  <2>2. ~RowGone(Settle(k), rolePermissions, userRoles)
    BY DefaultsTyped DEF Settle, RowGone, AdminRecord, NoJob, Deletions
  <2> QED
    BY <2>1, <2>2, AdvanceInHand DEF TypeOK, RowsLive, db
<1> QED
  BY <1>1, <1>2, <1>3, <1>4, <1>5, <1>6, <1>7 DEF AdminStep

(* No mapping row outlives what it refers to and no handler deletes a row    *)
(* that is not the one it loaded, for any number of overlapping handlers.    *)
THEOREM ReferencesStayLive == Spec => []ReferencesLive
<1> DEFINE Inv == TypeOK /\ RowsLive /\ RowsInHand
<1>1. Init => Inv
  <2> SUFFICES ASSUME Init PROVE Inv
    OBVIOUS
  <2>1. RowsLive
    BY SeedAssumption DEF Init, RowsLive
  <2>2. RowsInHand
    BY DEF Init, RowsInHand, RowGone, NoJob
  <2> QED
    BY <2>1, <2>2, InitTyped
<1>2. Inv /\ [Next]_vars => Inv'
  <2> SUFFICES ASSUME Inv, [Next]_vars PROVE Inv'
    OBVIOUS
  <2>1. TypeOK'
    BY NextTyped
  <2>2. ASSUME NEW a \in Admins, HandlerFails(a) PROVE RowsLive' /\ RowsInHand'
    <3>1. \A b \in Admins : admin'[b] = admin[b] \/ admin'[b] = NoJob
      BY <2>2 DEF HandlerFails, TypeOK
    <3>2. NoJob.pc # "commit"
      BY DEF NoJob
    <3> QED
      BY <2>2, <3>1, <3>2 DEF HandlerFails, RowsLive, RowsInHand, RowGone, db
  <2>3. ASSUME UNCHANGED <<db, admin>> PROVE RowsLive' /\ RowsInHand'
    BY <2>3 DEF RowsLive, RowsInHand, RowGone, db
  <2>4. ASSUME NEW l \in Loaders, (\E u \in Users, c \in Codes : Request(l, u, c)) \/ LoaderStep(l) \/ LoadFails(l)
        PROVE  UNCHANGED <<db, admin>>
    BY <2>4 DEF Request, LoaderStep, Lookup, Query, Sadd, Expire, LoadFails
  <2>5. CASE Tick \/ UNCHANGED vars
    BY <2>1, <2>3, <2>5 DEF Tick, vars
  <2> QED
    BY <2>1, <2>2, <2>3, <2>4, <2>5, StartInHand, AdminInHand DEF Next, Work
<1> QED
  BY <1>1, <1>2, ReferencesSplit, PTL DEF Spec

=============================================================================
