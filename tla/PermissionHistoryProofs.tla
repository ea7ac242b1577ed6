----------------------- MODULE PermissionHistoryProofs -----------------------
(* The age of permission decisions is bounded, and every wrong cache entry   *)
(* has its cause, for any number of users, codes, requests and handlers and  *)
(* any TTL and fill time.                                                    *)
EXTENDS PermissionTiming, PermissionCauses, PermissionCacheProofs

\* The set S said the truth about each code at most n ticks ago, where h and k
\* are the ages of the codes' last grant and last absence.
Near(h, k, S, n) == \A c \in Codes : (c \in S => h[c] <= n) /\ (c \notin S => k[c] <= n)

Ages == [Codes -> 0 .. StaleBound]

\* The bound is a number.
LEMMA StaleBoundNat == StaleBound \in Nat /\ TTL + 2 * MaxLoad = StaleBound
BY TTLAssumption, MaxLoadAssumption DEF StaleBound

\* What was true at most m ticks ago was true at most n >= m ticks ago.
LEMMA NearGrows ==
  ASSUME NEW h \in Ages, NEW k \in Ages, NEW S, NEW m \in Int, NEW n \in Int,
         Near(h, k, S, m), m <= n
  PROVE  Near(h, k, S, n)
BY StaleBoundNat DEF Near, Ages

\* Two sets that were both true lately have a union that was.
LEMMA NearUnion ==
  ASSUME NEW h, NEW k, NEW S, NEW T, NEW n, Near(h, k, S, n), Near(h, k, T, n)
  PROVE  Near(h, k, S \union T, n)
BY DEF Near

-----------------------------------------------------------------------------
(* Invariants of the histories. *)

TimedTypeOK ==
  /\ held \in [Users -> Ages] /\ lacked \in [Users -> Ages]
  /\ age \in [Loaders -> 0 .. MaxLoad]

NearTruth(u, S, n) == Near(held[u], lacked[u], S, n)

\* The codes a fill has read are as old as the fill, at most.
CodesRecent ==
  \A l \in Loaders : loader[l].pc \in {"sadd", "expire"} =>
    NearTruth(loader[l].user, loader[l].codes, age[l])

\* While a fill is under way, the key holds only what was written since its
\* cache miss, and that was at most MaxLoad old when it was written.
KeyRecentForFill ==
  \A l \in Loaders : IsFilling(l) /\ cache[loader[l].user] # {} =>
    NearTruth(loader[l].user, cache[loader[l].user], MaxLoad + age[l])

\* What is left of the TTL and the age of the entry add up to the bound.
KeyRecentForTTL ==
  \A u \in Users : ttl[u] > 0 => NearTruth(u, cache[u], StaleBound - ttl[u])

TimingInv == TimedTypeOK /\ CodesRecent /\ KeyRecentForFill /\ KeyRecentForTTL

-----------------------------------------------------------------------------
(* A step that is no tick makes nothing older, a tick one tick.              *)
LEMMA WorkKeepsAges ==
  ASSUME TypeOK, TypeOK', TimedTypeOK, TimedWork
  PROVE  /\ TimedTypeOK'
         /\ \A u \in Users, n \in Int : \A S : NearTruth(u, S, n) => Near(held'[u], lacked'[u], S, n)
<1>1. \A u \in Users : held'[u] \in Ages /\ lacked'[u] \in Ages
  BY StaleBoundNat DEF TimedWork, Record, Same, TimedTypeOK, Ages
<1>2. \A u \in Users, c \in Codes : held'[u][c] <= held[u][c] /\ lacked'[u][c] <= lacked[u][c]
  BY StaleBoundNat DEF TimedWork, Record, Same, TimedTypeOK, Ages
<1>3. TimedTypeOK'
  <2>1. age' \in [Loaders -> 0 .. MaxLoad]
    BY MaxLoadAssumption DEF TimedWork, TimedTypeOK
  <2>2. held' \in [Users -> Ages] /\ lacked' \in [Users -> Ages]
    BY <1>1 DEF TimedWork, Record
  <2> QED
    BY <2>1, <2>2 DEF TimedTypeOK
<1>4. ASSUME NEW u \in Users, NEW S, NEW n \in Int, NearTruth(u, S, n)
      PROVE  Near(held'[u], lacked'[u], S, n)
  <2>1. \A c \in Codes : /\ held[u][c] \in Int /\ held'[u][c] \in Int
                         /\ lacked[u][c] \in Int /\ lacked'[u][c] \in Int
    BY <1>1, StaleBoundNat DEF TimedTypeOK, Ages
  <2> QED
    BY <1>2, <1>4, <2>1 DEF NearTruth, Near
<1> QED
  BY <1>3, <1>4

\* A tick makes everything that was true one tick older, at most.
LEMMA TickAgesByOne ==
  ASSUME TypeOK, TypeOK', TimedTypeOK, TimedTick
  PROVE  /\ TimedTypeOK'
         /\ \A u \in Users, n \in Int : \A S : NearTruth(u, S, n) => Near(held'[u], lacked'[u], S, n + 1)
<1>1. \A u \in Users : held'[u] \in Ages /\ lacked'[u] \in Ages
  BY StaleBoundNat DEF TimedTick, Record, Older, TimedTypeOK, Ages
<1>2. \A u \in Users, c \in Codes : held'[u][c] <= held[u][c] + 1 /\ lacked'[u][c] <= lacked[u][c] + 1
  BY StaleBoundNat DEF TimedTick, Record, Older, TimedTypeOK, Ages
<1>3. TimedTypeOK'
  <2>1. age' \in [Loaders -> 0 .. MaxLoad]
    BY MaxLoadAssumption DEF TimedTick, TimedTypeOK
  <2>2. held' \in [Users -> Ages] /\ lacked' \in [Users -> Ages]
    BY <1>1 DEF TimedTick, Record
  <2> QED
    BY <2>1, <2>2 DEF TimedTypeOK
<1>4. ASSUME NEW u \in Users, NEW S, NEW n \in Int, NearTruth(u, S, n)
      PROVE  Near(held'[u], lacked'[u], S, n + 1)
  <2>1. \A c \in Codes : /\ held[u][c] \in Int /\ held'[u][c] \in Int
                         /\ lacked[u][c] \in Int /\ lacked'[u][c] \in Int
    BY <1>1, StaleBoundNat DEF TimedTypeOK, Ages
  <2> QED
    BY <1>2, <1>4, <2>1 DEF NearTruth, Near
<1> QED
  BY <1>3, <1>4

-----------------------------------------------------------------------------
(* The loaders, the keys and the TTLs after each kind of step. *)

\* A request that writes no key: it stops, it starts, or it goes on with codes
\* that its query has just read; it begins to fill only when there is no key.
QuietLoader(l) ==
  /\ UNCHANGED <<cache, ttl>>
  /\ \A k \in Loaders \ {l} : loader'[k] = loader[k]
  /\ IsFilling(l)' => /\ loader'[l].user = loader[l].user
                      /\ IsFilling(l) \/ cache[loader[l].user] = {}
  /\ loader'[l].pc # "expire"
  /\ loader'[l].pc = "sadd" =>
       loader'[l].codes = HeldCodes(userRoles', rolePermissions', loader'[l].user)

\* No command of a request but SADD and EXPIRE touches the cache.
LEMMA LoadersQuiet ==
  ASSUME TypeOK, TypeOK', NEW l \in Loaders,
         \/ \E u \in Users, c \in Codes : Request(l, u, c)
         \/ Lookup(l) \/ Query(l) \/ LoadFails(l)
  PROVE  QuietLoader(l)
<1>0. loader[l] \in LoaderRecord
  BY DEF TypeOK
<1>1. ASSUME NEW u \in Users, NEW c \in Codes, Request(l, u, c) PROVE QuietLoader(l)
  <2>1. loader'[l].pc \in {"bypass", "lookup"}
    BY <1>1 DEF Request, TypeOK
  <2>2. \A k \in Loaders \ {l} : loader'[k] = loader[k]
    BY <1>1 DEF Request, TypeOK
  <2> QED
    BY <1>1, <2>1, <2>2 DEF Request, QuietLoader, IsFilling, Filling
<1>2. CASE Lookup(l)
  <2> DEFINE pc == IF cache[loader[l].user] = {} THEN "query"
                   ELSE Verdict(loader[l].user, loader[l].need, cache[loader[l].user])
  <2>1. cache[loader[l].user] # {} => pc \in {"allowed", "fallback", "denied"}
    BY VerdictTyped
  <2>2. cache[loader[l].user] = {} => pc = "query"
    OBVIOUS
  <2>3. loader' = [loader EXCEPT ![l].pc = pc]
    BY <1>2 DEF Lookup
  <2> HIDE DEF pc
  <2> QED
    BY <1>0, <1>2, <2>1, <2>2, <2>3 DEF Lookup, QuietLoader, IsFilling, Filling, TypeOK, LoaderRecord
<1>3. CASE Query(l)
  <2> DEFINE codes == Granted(loader[l].user)
             pc == IF codes = {} THEN Verdict(loader[l].user, loader[l].need, {}) ELSE "sadd"
  <2>1. pc \in {"sadd", "allowed", "fallback", "denied"}
    BY VerdictTyped
  <2>2. loader' = [loader EXCEPT ![l].pc = pc, ![l].codes = codes]
    BY <1>3 DEF Query
  <2>3. loader[l].pc = "query" /\ UNCHANGED <<cache, ttl>> /\ UNCHANGED db
    BY <1>3 DEF Query
  <2>4. codes = HeldCodes(userRoles', rolePermissions', loader[l].user)
    BY <2>3 DEF Granted, db
  <2> HIDE DEF codes, pc
  <2>6. loader'[l].pc = pc /\ loader'[l].codes = codes /\ loader'[l].user = loader[l].user
    BY <1>0, <2>2 DEF TypeOK, LoaderRecord
  <2>7. \A k \in Loaders \ {l} : loader'[k] = loader[k]
    BY <2>2 DEF TypeOK
  <2> QED
    BY <2>1, <2>3, <2>4, <2>6, <2>7 DEF QuietLoader, IsFilling, Filling
<1>4. CASE LoadFails(l)
  <2>1. loader'[l].pc = "idle" /\ \A k \in Loaders \ {l} : loader'[k] = loader[k]
    BY <1>4 DEF LoadFails, NoRequest, TypeOK
  <2> QED
    BY <1>4, <2>1 DEF LoadFails, QuietLoader, IsFilling, Filling
<1> QED
  BY <1>1, <1>2, <1>3, <1>4

-----------------------------------------------------------------------------
(* Each kind of step keeps the invariant. *)

\* The age of a fill does not change in a step that is no tick.
LEMMA AgeOfFill ==
  ASSUME TimedWork, NEW l \in Loaders
  PROVE  age'[l] = IF IsFilling(l) /\ IsFilling(l)' THEN age[l] ELSE 0
BY DEF TimedWork

\* What the join query returns is true now.
LEMMA JustRead ==
  ASSUME TimedWork, NEW u \in Users
  PROVE  Near(held'[u], lacked'[u], HeldCodes(userRoles', rolePermissions', u), 0)
<1>1. ASSUME NEW c \in Codes
      PROVE  /\ c \in Granted(u)' => held'[u][c] = 0
             /\ c \notin Granted(u)' => lacked'[u][c] = 0
  BY DEF TimedWork, Record
<1> QED
  BY <1>1 DEF Near, Granted

\* A request has a user, and its fill an age within MaxLoad.
LEMMA LoaderFields ==
  ASSUME TypeOK, TimedTypeOK, NEW l \in Loaders
  PROVE  /\ loader[l].user \in Users
         /\ age[l] \in Int /\ 0 <= age[l] /\ age[l] <= MaxLoad
BY MaxLoadAssumption DEF TypeOK, LoaderRecord, TimedTypeOK

\* A request that changes neither its own codes nor its user, in a step that
\* leaves the key of that user as it was.
LEMMA OthersKeepCodes ==
  ASSUME TypeOK, TypeOK', TimingInv, TimedWork, NEW l \in Loaders, loader'[l] = loader[l]
  PROVE  /\ loader[l].pc \in {"sadd", "expire"} =>
              Near(held'[loader[l].user], lacked'[loader[l].user], loader[l].codes, age'[l])
         /\ IsFilling(l) /\ cache[loader[l].user] # {} =>
              Near(held'[loader[l].user], lacked'[loader[l].user], cache[loader[l].user], MaxLoad + age'[l])
         /\ IsFilling(l) => age'[l] = age[l]
<1>1. IsFilling(l) => age'[l] = age[l]
  BY AgeOfFill DEF IsFilling
<1>2. loader[l].user \in Users /\ age[l] \in Int /\ MaxLoad + age[l] \in Int
  BY LoaderFields, MaxLoadAssumption DEF TimingInv
<1>3. \A n \in Int : \A S : NearTruth(loader[l].user, S, n) =>
        Near(held'[loader[l].user], lacked'[loader[l].user], S, n)
  BY <1>2, WorkKeepsAges DEF TimingInv
<1>4. loader[l].pc \in {"sadd", "expire"} => IsFilling(l)
  BY DEF IsFilling, Filling
<1>5. loader[l].pc \in {"sadd", "expire"} => NearTruth(loader[l].user, loader[l].codes, age[l])
  BY DEF TimingInv, CodesRecent
<1>6. IsFilling(l) /\ cache[loader[l].user] # {} =>
        NearTruth(loader[l].user, cache[loader[l].user], MaxLoad + age[l])
  BY DEF TimingInv, KeyRecentForFill
<1> DEFINE v == loader[l].user
<1>7. ASSUME loader[l].pc \in {"sadd", "expire"}
      PROVE  Near(held'[v], lacked'[v], loader[l].codes, age'[l])
  <2>1. NearTruth(v, loader[l].codes, age[l]) /\ age'[l] = age[l]
    BY <1>1, <1>4, <1>5, <1>7
  <2> QED
    BY <1>2, <1>3, <2>1
<1>8. ASSUME IsFilling(l), cache[v] # {}
      PROVE  Near(held'[v], lacked'[v], cache[v], MaxLoad + age'[l])
  <2>1. NearTruth(v, cache[v], MaxLoad + age[l]) /\ age'[l] = age[l]
    BY <1>1, <1>6, <1>8
  <2> QED
    BY <1>2, <1>3, <2>1
<1> QED
  BY <1>1, <1>7, <1>8

\* A key that a step leaves alone keeps the balance of age and TTL.
LEMMA KeysKeepTTL ==
  ASSUME TypeOK, TypeOK', TimingInv, TimedWork, NEW u \in Users,
         cache'[u] = cache[u], ttl'[u] = ttl[u]
  PROVE  ttl'[u] > 0 => Near(held'[u], lacked'[u], cache'[u], StaleBound - ttl'[u])
<1>1. StaleBound - ttl[u] \in Int
  BY StaleBoundNat, TTLAssumption DEF TypeOK, NoTTL
<1> SUFFICES ASSUME ttl'[u] > 0
             PROVE  Near(held'[u], lacked'[u], cache'[u], StaleBound - ttl'[u])
  OBVIOUS
<1>2. NearTruth(u, cache[u], StaleBound - ttl[u])
  BY DEF TimingInv, KeyRecentForTTL
<1> QED
  BY <1>1, <1>2, WorkKeepsAges DEF TimingInv

\* A request's step that writes nothing to the cache keeps the invariant.
LEMMA QuietKeepsTiming ==
  ASSUME TypeOK, TypeOK', TimingInv, TimedWork, NEW l \in Loaders, QuietLoader(l)
  PROVE  TimingInv'
<1>0. TimedTypeOK'
  BY WorkKeepsAges DEF TimingInv
<1>1. CodesRecent'
  <2> SUFFICES ASSUME NEW k \in Loaders, loader'[k].pc \in {"sadd", "expire"}
               PROVE  Near(held'[loader'[k].user], lacked'[loader'[k].user], loader'[k].codes, age'[k])
    BY DEF CodesRecent, NearTruth
  <2>1. CASE k # l
    BY <2>1, OthersKeepCodes DEF QuietLoader
  <2>2. CASE k = l
    <3> DEFINE v == loader'[l].user
    <3>1. v \in Users /\ held'[v] \in Ages /\ lacked'[v] \in Ages /\ age'[l] \in Int /\ 0 <= age'[l]
      BY <1>0, MaxLoadAssumption DEF TimedTypeOK, TypeOK, LoaderRecord
    <3>2. loader'[l].codes = HeldCodes(userRoles', rolePermissions', v)
      BY <2>2 DEF QuietLoader
    <3>3. Near(held'[v], lacked'[v], loader'[l].codes, 0)
      BY <3>1, <3>2, JustRead
    <3> QED
      BY <2>2, <3>1, <3>3, NearGrows
  <2> QED
    BY <2>1, <2>2
<1>2. KeyRecentForFill'
  <2> SUFFICES ASSUME NEW k \in Loaders, IsFilling(k)', cache'[loader'[k].user] # {}
               PROVE  Near(held'[loader'[k].user], lacked'[loader'[k].user], cache'[loader'[k].user], MaxLoad + age'[k])
    BY DEF KeyRecentForFill, NearTruth
  <2>1. CASE k # l
    <3>1. loader'[k] = loader[k] /\ cache' = cache
      BY <2>1 DEF QuietLoader
    <3>2. IsFilling(k)
      BY <3>1 DEF IsFilling
    <3> QED
      BY <3>1, <3>2, OthersKeepCodes
  <2>2. CASE k = l
    <3> DEFINE v == loader[l].user
    <3>1. IsFilling(l) /\ loader'[l].user = v /\ cache[v] # {} /\ cache' = cache
      BY <2>2 DEF QuietLoader
    <3>2. NearTruth(v, cache[v], MaxLoad + age[l])
      BY <3>1 DEF TimingInv, KeyRecentForFill
    <3>3. age'[l] = age[l]
      BY <2>2, <3>1, AgeOfFill
    <3>4. v \in Users /\ MaxLoad + age[l] \in Int
      BY LoaderFields, MaxLoadAssumption DEF TimingInv
    <3> QED
      BY <2>2, <3>1, <3>2, <3>3, <3>4, WorkKeepsAges DEF TimingInv
  <2> QED
    BY <2>1, <2>2
<1>3. KeyRecentForTTL'
  BY KeysKeepTTL DEF QuietLoader, KeyRecentForTTL, NearTruth
<1> QED
  BY <1>0, <1>1, <1>2, <1>3 DEF TimingInv

\* SADD keeps it: the key holds what fills wrote since this one's cache miss,
\* or what its TTL vouches for, and the fill adds what it has read itself.
LEMMA SaddKeepsTiming ==
  ASSUME TypeOK, TypeOK', TimingInv, TimedWork, NEW l \in Loaders, Sadd(l)
  PROVE  TimingInv'
<1> DEFINE v == loader[l].user
<1>0. TimedTypeOK' /\ v \in Users /\ held'[v] \in Ages /\ lacked'[v] \in Ages
  BY WorkKeepsAges, LoaderFields DEF TimingInv, TimedTypeOK
<1>1. /\ loader'[l].pc = "expire" /\ loader'[l].user = v /\ loader'[l].codes = loader[l].codes
      /\ IsFilling(l) /\ IsFilling(l)'
      /\ \A k \in Loaders \ {l} : loader'[k] = loader[k]
  BY DEF Sadd, TypeOK, LoaderRecord, IsFilling, Filling
<1>2. /\ cache'[v] = cache[v] \union loader[l].codes
      /\ ttl'[v] = (IF cache[v] = {} THEN NoTTL ELSE ttl[v])
      /\ \A u \in Users \ {v} : cache'[u] = cache[u] /\ ttl'[u] = ttl[u]
  BY <1>0 DEF Sadd, TypeOK
<1>3. age'[l] = age[l] /\ age[l] \in Int /\ 0 <= age[l] /\ age[l] <= MaxLoad
  BY <1>1, AgeOfFill, LoaderFields DEF TimingInv
\* What the fill writes is at most as old as the fill.
<1>4. Near(held'[v], lacked'[v], loader[l].codes, age[l])
  <2>1. NearTruth(v, loader[l].codes, age[l])
    BY DEF TimingInv, CodesRecent, Sadd
  <2> QED
    BY <1>0, <1>3, <2>1, WorkKeepsAges DEF TimingInv
\* Added to what was there, it makes the key no older.
<1>5. ASSUME NEW n \in Int, MaxLoad <= n,
             cache[v] # {} => Near(held'[v], lacked'[v], cache[v], n)
      PROVE  Near(held'[v], lacked'[v], cache'[v], n)
  <2>1. Near(held'[v], lacked'[v], loader[l].codes, n)
    BY <1>0, <1>3, <1>4, <1>5, NearGrows, MaxLoadAssumption
  <2>2. CASE cache[v] = {}
    BY <1>2, <2>1, <2>2
  <2>3. CASE cache[v] # {}
    BY <1>2, <1>5, <2>1, <2>3, NearUnion
  <2> QED
    BY <2>2, <2>3
<1>6. CodesRecent'
  <2> SUFFICES ASSUME NEW k \in Loaders, loader'[k].pc \in {"sadd", "expire"}
               PROVE  Near(held'[loader'[k].user], lacked'[loader'[k].user], loader'[k].codes, age'[k])
    BY DEF CodesRecent, NearTruth
  <2> QED
    BY <1>1, <1>3, <1>4, OthersKeepCodes
<1>7. KeyRecentForFill'
  <2> SUFFICES ASSUME NEW k \in Loaders, IsFilling(k)', cache'[loader'[k].user] # {}
               PROVE  Near(held'[loader'[k].user], lacked'[loader'[k].user], cache'[loader'[k].user], MaxLoad + age'[k])
    BY DEF KeyRecentForFill, NearTruth
  <2> DEFINE u == loader[k].user
  <2>1. IsFilling(k) /\ loader'[k].user = u
    BY <1>1 DEF IsFilling
  <2>2. u \in Users /\ age'[k] = age[k] /\ age[k] \in Int /\ 0 <= age[k]
    BY <2>1, AgeOfFill, LoaderFields DEF TimingInv
  <2>3. MaxLoad + age'[k] \in Int /\ MaxLoad <= MaxLoad + age'[k]
    BY <2>2, MaxLoadAssumption
  <2>4. cache[u] # {} => Near(held'[u], lacked'[u], cache[u], MaxLoad + age'[k])
    <3>1. cache[u] # {} => NearTruth(u, cache[u], MaxLoad + age'[k])
      BY <2>1, <2>2 DEF TimingInv, KeyRecentForFill
    <3> QED
      BY <2>2, <2>3, <3>1, WorkKeepsAges DEF TimingInv
  <2>5. CASE u = v
    BY <1>5, <2>1, <2>3, <2>4, <2>5
  <2>6. CASE u # v
    BY <1>2, <2>1, <2>2, <2>4, <2>6
  <2> QED
    BY <2>5, <2>6
<1>8. KeyRecentForTTL'
  <2> SUFFICES ASSUME NEW u \in Users, ttl'[u] > 0
               PROVE  Near(held'[u], lacked'[u], cache'[u], StaleBound - ttl'[u])
    BY DEF KeyRecentForTTL, NearTruth
  <2>1. CASE u # v
    BY <1>2, <2>1, KeysKeepTTL
  <2>2. CASE u = v
    <3>1. cache[v] # {} /\ ttl'[v] = ttl[v] /\ ttl[v] > 0 /\ ttl[v] \in 1 .. TTL
      BY <1>0, <1>2, <2>2, TTLAssumption DEF NoTTL, TypeOK
    <3>2. StaleBound - ttl[v] \in Int /\ MaxLoad <= StaleBound - ttl[v]
      BY <3>1, StaleBoundNat, TTLAssumption, MaxLoadAssumption
    <3>3. NearTruth(v, cache[v], StaleBound - ttl[v])
      BY <1>0, <3>1 DEF TimingInv, KeyRecentForTTL
    <3>4. Near(held'[v], lacked'[v], cache[v], StaleBound - ttl[v])
      BY <1>0, <3>2, <3>3, WorkKeepsAges DEF TimingInv
    <3> QED
      BY <1>5, <2>2, <3>1, <3>2, <3>4
  <2> QED
    BY <2>1, <2>2
<1> QED
  BY <1>0, <1>6, <1>7, <1>8 DEF TimingInv

\* EXPIRE keeps it: the key is at most 2 * MaxLoad old when its TTL is renewed.
LEMMA ExpireKeepsTiming ==
  ASSUME TypeOK, TypeOK', ExpiryAttached, TimingInv, TimedWork, NEW l \in Loaders, Expire(l)
  PROVE  TimingInv'
<1> DEFINE v == loader[l].user
<1>0. TimedTypeOK' /\ v \in Users /\ held'[v] \in Ages /\ lacked'[v] \in Ages
  BY WorkKeepsAges, LoaderFields DEF TimingInv, TimedTypeOK
<1>1. loader'[l].pc \in {"allowed", "fallback", "denied"} /\ \A k \in Loaders \ {l} : loader'[k] = loader[k]
  BY VerdictTyped DEF Expire, TypeOK, LoaderRecord
<1>2. /\ cache' = cache /\ ttl'[v] = (IF cache[v] = {} THEN ttl[v] ELSE TTL)
      /\ \A u \in Users \ {v} : ttl'[u] = ttl[u]
  BY <1>0 DEF Expire, TypeOK
<1>3. CodesRecent'
  <2> SUFFICES ASSUME NEW k \in Loaders, loader'[k].pc \in {"sadd", "expire"}
               PROVE  Near(held'[loader'[k].user], lacked'[loader'[k].user], loader'[k].codes, age'[k])
    BY DEF CodesRecent, NearTruth
  <2> QED
    BY <1>1, OthersKeepCodes
<1>4. KeyRecentForFill'
  <2> SUFFICES ASSUME NEW k \in Loaders, IsFilling(k)', cache'[loader'[k].user] # {}
               PROVE  Near(held'[loader'[k].user], lacked'[loader'[k].user], cache'[loader'[k].user], MaxLoad + age'[k])
    BY DEF KeyRecentForFill, NearTruth
  <2>1. loader'[k] = loader[k] /\ IsFilling(k)
    BY <1>1 DEF IsFilling, Filling
  <2> QED
    BY <1>2, <2>1, OthersKeepCodes
<1>5. KeyRecentForTTL'
  <2> SUFFICES ASSUME NEW u \in Users, ttl'[u] > 0
               PROVE  Near(held'[u], lacked'[u], cache'[u], StaleBound - ttl'[u])
    BY DEF KeyRecentForTTL, NearTruth
  <2>1. CASE u # v
    BY <1>2, <2>1, KeysKeepTTL
  <2>2. CASE u = v /\ cache[v] = {}
    BY <1>0, <1>2, <2>2, KeysKeepTTL
  <2>3. CASE u = v /\ cache[v] # {}
    <3>1. IsFilling(l) /\ age[l] \in Int /\ age[l] <= MaxLoad
      BY LoaderFields DEF Expire, IsFilling, Filling, TimingInv
    <3>2. NearTruth(v, cache[v], MaxLoad + age[l])
      BY <2>3, <3>1 DEF TimingInv, KeyRecentForFill
    <3>3. /\ MaxLoad + age[l] \in Int /\ 2 * MaxLoad \in Int
          /\ MaxLoad + age[l] <= 2 * MaxLoad /\ StaleBound - TTL = 2 * MaxLoad
      BY <3>1, StaleBoundNat, MaxLoadAssumption, TTLAssumption
    <3>4. Near(held'[v], lacked'[v], cache[v], MaxLoad + age[l])
      BY <1>0, <3>2, <3>3, WorkKeepsAges DEF TimingInv
    <3> QED
      BY <1>0, <1>2, <2>3, <3>3, <3>4, NearGrows
  <2> QED
    BY <2>1, <2>2, <2>3
<1> QED
  BY <1>0, <1>3, <1>4, <1>5 DEF TimingInv

\* A handler keeps it: the tables it changes are true from now on, and a key it
\* deletes is empty.
LEMMA AdminKeepsTiming ==
  ASSUME TypeOK, TypeOK', TimingInv, TimedWork, NEW a \in Admins,
         StartHandler(a) \/ AdminStep(a) \/ HandlerFails(a)
  PROVE  TimingInv'
<1>0. TimedTypeOK'
  BY WorkKeepsAges DEF TimingInv
<1>1. loader' = loader /\ \A u \in Users : \/ cache'[u] = cache[u] /\ ttl'[u] = ttl[u]
                                           \/ cache'[u] = {} /\ ttl'[u] = 0
  BY AdminKeepsLoaders DEF TypeOK
<1>2. CodesRecent'
  BY <1>1, OthersKeepCodes DEF CodesRecent, NearTruth
<1>3. KeyRecentForFill'
  <2> SUFFICES ASSUME NEW k \in Loaders, IsFilling(k)', cache'[loader'[k].user] # {}
               PROVE  Near(held'[loader'[k].user], lacked'[loader'[k].user], cache'[loader'[k].user], MaxLoad + age'[k])
    BY DEF KeyRecentForFill, NearTruth
  <2>1. loader'[k] = loader[k] /\ IsFilling(k) /\ loader[k].user \in Users
    BY <1>1, LoaderFields DEF IsFilling, TimingInv
  <2>2. cache'[loader[k].user] = cache[loader[k].user]
    BY <1>1, <2>1
  <2> QED
    BY <2>1, <2>2, OthersKeepCodes
<1>4. KeyRecentForTTL'
  <2> SUFFICES ASSUME NEW u \in Users, ttl'[u] > 0
               PROVE  Near(held'[u], lacked'[u], cache'[u], StaleBound - ttl'[u])
    BY DEF KeyRecentForTTL, NearTruth
  <2>1. cache'[u] = cache[u] /\ ttl'[u] = ttl[u]
    BY <1>1
  <2> QED
    BY <2>1, KeysKeepTTL
<1> QED
  BY <1>0, <1>2, <1>3, <1>4 DEF TimingInv

\* All steps but the tick keep it.
LEMMA WorkKeepsTiming ==
  ASSUME TypeOK, TypeOK', ExpiryAttached, TimingInv, TimedWork
  PROVE  TimingInv'
<1>1. ASSUME NEW l \in Loaders,
             (\E u \in Users, c \in Codes : Request(l, u, c)) \/ LoaderStep(l) \/ LoadFails(l)
      PROVE  TimingInv'
  BY <1>1, LoadersQuiet, QuietKeepsTiming, SaddKeepsTiming, ExpireKeepsTiming DEF LoaderStep
<1> QED
  BY <1>1, AdminKeepsTiming DEF TimedWork, Work

\* A tick keeps it: the entries grow older by the tick their TTL loses.
LEMMA TickKeepsTiming ==
  ASSUME TypeOK, TypeOK', TimingInv, TimedTick
  PROVE  TimingInv'
<1>0. TimedTypeOK'
  BY TickAgesByOne DEF TimingInv
<1>1. loader' = loader /\ \A l \in Loaders : IsFilling(l) => age'[l] = age[l] + 1
  BY DEF TimedTick, Tick
<1>2. \A u \in Users : /\ ttl'[u] = (IF ttl[u] > 0 THEN ttl[u] - 1 ELSE ttl[u])
                       /\ cache'[u] = (IF ttl[u] = 1 THEN {} ELSE cache[u])
                       /\ ttl[u] \in Int
  BY TTLAssumption DEF TimedTick, Tick, TypeOK, NoTTL
<1>3. CodesRecent'
  <2> SUFFICES ASSUME NEW k \in Loaders, loader[k].pc \in {"sadd", "expire"}
               PROVE  Near(held'[loader[k].user], lacked'[loader[k].user], loader[k].codes, age'[k])
    BY <1>1 DEF CodesRecent, NearTruth
  <2>1. loader[k].user \in Users /\ age[k] \in Int /\ age'[k] = age[k] + 1
    BY <1>1, LoaderFields DEF TimingInv, IsFilling, Filling
  <2>2. NearTruth(loader[k].user, loader[k].codes, age[k])
    BY DEF TimingInv, CodesRecent
  <2> QED
    BY <2>1, <2>2, TickAgesByOne DEF TimingInv
<1>4. KeyRecentForFill'
  <2> SUFFICES ASSUME NEW k \in Loaders, IsFilling(k), cache'[loader[k].user] # {}
               PROVE  Near(held'[loader[k].user], lacked'[loader[k].user], cache'[loader[k].user], MaxLoad + age'[k])
    BY <1>1 DEF KeyRecentForFill, NearTruth, IsFilling
  <2> DEFINE v == loader[k].user
  <2>1. v \in Users /\ age[k] \in Int /\ age'[k] = age[k] + 1
    BY <1>1, LoaderFields DEF TimingInv
  <2>2. cache'[v] = cache[v] /\ cache[v] # {}
    BY <1>2, <2>1
  <2>3. NearTruth(v, cache[v], MaxLoad + age[k])
    BY <2>2 DEF TimingInv, KeyRecentForFill
  <2>4. MaxLoad + age[k] \in Int /\ MaxLoad + age'[k] = (MaxLoad + age[k]) + 1
    BY <2>1, MaxLoadAssumption
  <2>5. Near(held'[v], lacked'[v], cache[v], (MaxLoad + age[k]) + 1)
    BY <2>1, <2>3, <2>4, TickAgesByOne DEF TimingInv
  <2> QED
    BY <2>2, <2>4, <2>5
<1>5. KeyRecentForTTL'
  <2> SUFFICES ASSUME NEW u \in Users, ttl'[u] > 0
               PROVE  Near(held'[u], lacked'[u], cache'[u], StaleBound - ttl'[u])
    BY DEF KeyRecentForTTL, NearTruth
  <2>1. ttl[u] > 1 /\ ttl'[u] = ttl[u] - 1 /\ cache'[u] = cache[u] /\ ttl[u] \in Int
    BY <1>2
  <2>2. NearTruth(u, cache[u], StaleBound - ttl[u])
    BY <2>1 DEF TimingInv, KeyRecentForTTL
  <2>3. StaleBound - ttl[u] \in Int /\ StaleBound - ttl'[u] = (StaleBound - ttl[u]) + 1
    BY <2>1, StaleBoundNat
  <2>4. Near(held'[u], lacked'[u], cache[u], (StaleBound - ttl[u]) + 1)
    BY <2>2, <2>3, TickAgesByOne DEF TimingInv
  <2> QED
    BY <2>1, <2>3, <2>4
<1> QED
  BY <1>0, <1>3, <1>4, <1>5 DEF TimingInv

-----------------------------------------------------------------------------
(* The theorems. *)

\* The histories only watch: every behaviour is one of the permission cache.
LEMMA TimedIsSpec == TimedSpec => Spec
<1>1. TimedInit => Init
  BY DEF TimedInit
<1>2. [TimedNext]_timedVars => [Next]_vars
  BY DEF TimedNext, TimedWork, TimedTick, Next, timedVars
<1> QED
  BY <1>1, <1>2, PTL DEF TimedSpec, Spec

\* The invariant holds in every state.
LEMMA TimingInvariant == TimedSpec => [](TypeOK /\ ExpiryAttached /\ TimingInv)
<1>1. TimedInit => TimingInv
  <2> SUFFICES ASSUME TimedInit PROVE TimingInv
    OBVIOUS
  <2>1. TimedTypeOK
    BY StaleBoundNat, MaxLoadAssumption DEF TimedInit, TimedTypeOK, Ages
  <2>2. \A l \in Loaders : loader[l].pc = "idle"
    BY DEF TimedInit, Init, NoRequest
  <2>3. \A u \in Users : ttl[u] = 0
    BY DEF TimedInit, Init
  <2>4. CodesRecent /\ KeyRecentForFill
    BY <2>2 DEF CodesRecent, KeyRecentForFill, IsFilling, Filling
  <2>5. KeyRecentForTTL
    BY <2>3 DEF KeyRecentForTTL
  <2> QED
    BY <2>1, <2>4, <2>5 DEF TimingInv
<1>2. TypeOK /\ TypeOK' /\ ExpiryAttached /\ TimingInv /\ [TimedNext]_timedVars => TimingInv'
  <2>1. TypeOK /\ TimingInv /\ UNCHANGED timedVars => TimingInv'
    BY DEF timedVars, vars, TimingInv, TimedTypeOK, CodesRecent, KeyRecentForFill, KeyRecentForTTL,
       NearTruth, IsFilling
  <2> QED
    BY <2>1, WorkKeepsTiming, TickKeepsTiming DEF TimedNext
<1> QED
  BY <1>1, <1>2, TimedIsSpec, TypeCorrect, KeysGetTheirExpiry, PTL DEF TimedSpec

\* An entry is younger than the bound: its TTL says so, or the fill that is
\* about to give it one.
LEMMA EntryIsRecent ==
  ASSUME ~PartialFill, TypeOK, ExpiryAttached, TimingInv, NEW u \in Users, cache[u] # {}
  PROVE  NearTruth(u, cache[u], StaleBound - 1)
<1>0. held[u] \in Ages /\ lacked[u] \in Ages /\ StaleBound - 1 \in Int
  BY StaleBoundNat DEF TimingInv, TimedTypeOK
<1>1. CASE ttl[u] = NoTTL
  <2>1. PICK l \in Loaders : loader[l].pc = "expire" /\ loader[l].user = u
    BY <1>1 DEF ExpiryAttached
  <2>2. NearTruth(u, cache[u], MaxLoad + age[l])
    BY <2>1 DEF TimingInv, KeyRecentForFill, IsFilling, Filling
  <2>3. MaxLoad + age[l] \in Int /\ MaxLoad + age[l] <= StaleBound - 1
    BY LoaderFields, StaleBoundNat, MaxLoadAssumption, TTLAssumption DEF TimingInv
  <2> QED
    BY <1>0, <2>2, <2>3, NearGrows DEF NearTruth
<1>2. CASE ttl[u] # NoTTL
  <2>1. ttl[u] > 0 /\ ttl[u] \in Int
    BY <1>2, TTLAssumption DEF ExpiryAttached, TypeOK
  <2>2. NearTruth(u, cache[u], StaleBound - ttl[u])
    BY <2>1 DEF TimingInv, KeyRecentForTTL
  <2>3. StaleBound - ttl[u] \in Int /\ StaleBound - ttl[u] <= StaleBound - 1
    BY <2>1, StaleBoundNat
  <2> QED
    BY <1>0, <2>2, <2>3, NearGrows DEF NearTruth
<1> QED
  BY <1>1, <1>2

(* Whatever a cached permission set says of its user was true less than      *)
(* TTL + 2 * MaxLoad ticks ago: the 300 s of the EXPIRE and twice the time a *)
(* fill takes, whichever fills, DELs and commits overlap.                    *)
THEOREM CacheIsRecent == ~PartialFill => (TimedSpec => []CacheStaleness)
<1> SUFFICES ASSUME ~PartialFill PROVE TimedSpec => []CacheStaleness
  OBVIOUS
<1>1. TypeOK /\ ExpiryAttached /\ TimingInv => CacheStaleness
  <2> SUFFICES ASSUME TypeOK, ExpiryAttached, TimingInv, NEW u \in Users, NEW c \in Codes
               PROVE  /\ c \in cache[u] => held[u][c] < StaleBound
                      /\ cache[u] # {} /\ c \notin cache[u] => lacked[u][c] < StaleBound
    BY DEF CacheStaleness
  <2>1. held[u][c] \in Int /\ lacked[u][c] \in Int
    BY StaleBoundNat DEF TimingInv, TimedTypeOK, Ages
  <2> QED
    BY <2>1, EntryIsRecent, StaleBoundNat DEF NearTruth, Near
<1> QED
  BY <1>1, TimingInvariant, PTL

\* The histories are up to date.
TruthNow == \A u \in Users : NearTruth(u, Granted(u), 0)

\* The histories say of the present what the tables say.
LEMMA HistoriesUpToDate == TimedSpec => []TruthNow
<1>1. TimedInit => TruthNow
  BY DEF TimedInit, TruthNow, NearTruth, Near
<1>2. TimedNext => TruthNow'
  <2> SUFFICES ASSUME TimedNext, NEW u \in Users, NEW c \in Codes
               PROVE  /\ c \in Granted(u)' => held'[u][c] = 0
                      /\ c \notin Granted(u)' => lacked'[u][c] = 0
    BY DEF TruthNow, NearTruth, Near
  <2> QED
    BY DEF TimedNext, TimedWork, TimedTick, Record
<1>3. TruthNow /\ UNCHANGED timedVars => TruthNow'
  BY DEF TruthNow, NearTruth, timedVars, vars, db, Granted
<1> QED
  BY <1>1, <1>2, <1>3, PTL DEF TimedSpec

\* An answer follows from a set of codes that is recent.
AnswersFrom(l, S) ==
  /\ loader'[l].pc = Verdict(loader[l].user, loader[l].need, S)
  /\ NearTruth(loader[l].user, S, StaleBound - 1)

\* A request that is answered is answered from a set that was true lately.
LEMMA AnswerIsRecent ==
  ASSUME ~PartialFill, TypeOK, TypeOK', ExpiryAttached, TimingInv, TruthNow,
         NEW l \in Loaders, Lookup(l) \/ Query(l) \/ Expire(l)
  PROVE  /\ loader'[l].user = loader[l].user /\ loader'[l].need = loader[l].need
         /\ loader'[l].pc \in {"query", "sadd"} \/ \E S : AnswersFrom(l, S)
<1> DEFINE u == loader[l].user
           c == loader[l].need
<1>0. /\ loader[l] \in LoaderRecord /\ u \in Users /\ held[u] \in Ages /\ lacked[u] \in Ages
      /\ StaleBound - 1 \in Int /\ 0 <= StaleBound - 1
      /\ age[l] \in Int /\ age[l] <= StaleBound - 1
  BY StaleBoundNat, LoaderFields, MaxLoadAssumption, TTLAssumption
  DEF TypeOK, LoaderRecord, TimingInv, TimedTypeOK
<1>1. CASE Lookup(l)
  <2> DEFINE pc == IF cache[u] = {} THEN "query" ELSE Verdict(u, c, cache[u])
  <2>1. loader' = [loader EXCEPT ![l].pc = pc]
    BY <1>1 DEF Lookup
  <2>2. pc = "query" \/ (pc = Verdict(u, c, cache[u]) /\ NearTruth(u, cache[u], StaleBound - 1))
    BY <1>0, EntryIsRecent
  <2> HIDE DEF pc
  <2>3. loader'[l].pc = pc /\ loader'[l].user = u /\ loader'[l].need = c
    BY <1>0, <2>1 DEF TypeOK, LoaderRecord
  <2> QED
    BY <2>2, <2>3 DEF AnswersFrom
<1>2. CASE Query(l)
  <2> DEFINE codes == Granted(u)
             pc == IF codes = {} THEN Verdict(u, c, {}) ELSE "sadd"
  <2>1. loader' = [loader EXCEPT ![l].pc = pc, ![l].codes = codes]
    BY <1>2 DEF Query
  <2>2. Near(held[u], lacked[u], codes, StaleBound - 1)
    BY <1>0, NearGrows DEF TruthNow, NearTruth
  <2>3. pc = "sadd" \/ (pc = Verdict(u, c, {}) /\ NearTruth(u, {}, StaleBound - 1))
    BY <2>2 DEF NearTruth
  <2> HIDE DEF codes, pc
  <2>4. loader'[l].pc = pc /\ loader'[l].user = u /\ loader'[l].need = c
    BY <1>0, <2>1 DEF TypeOK, LoaderRecord
  <2> QED
    BY <2>3, <2>4 DEF AnswersFrom
<1>3. CASE Expire(l)
  <2> DEFINE pc == Verdict(u, c, loader[l].codes)
  <2>1. loader' = [loader EXCEPT ![l].pc = pc] /\ loader[l].pc = "expire"
    BY <1>3 DEF Expire
  <2>2. NearTruth(u, loader[l].codes, age[l])
    BY <2>1 DEF TimingInv, CodesRecent
  <2>3. NearTruth(u, loader[l].codes, StaleBound - 1)
    BY <1>0, <2>2, NearGrows DEF NearTruth
  <2>4. pc = Verdict(u, c, loader[l].codes)
    OBVIOUS
  <2> HIDE DEF pc
  <2>5. loader'[l].pc = pc /\ loader'[l].user = u /\ loader'[l].need = c
    BY <1>0, <2>1 DEF TypeOK, LoaderRecord
  <2> QED
    BY <2>3, <2>4, <2>5 DEF AnswersFrom
<1> QED
  BY <1>1, <1>2, <1>3

(* No request passes on a permission its user has been without for longer    *)
(* than that, and none is refused for one the user has had for longer.       *)
THEOREM DecisionsStayRecent == ~PartialFill => (TimedSpec => DecisionsAreRecent)
<1> SUFFICES ASSUME ~PartialFill PROVE TimedSpec => DecisionsAreRecent
  OBVIOUS
<1> DEFINE Recent(l) == LET u == loader'[l].user
                            c == loader'[l].need IN
                        /\ Answers(l, "allowed") => held[u][c] < StaleBound
                        /\ Answers(l, "denied") => lacked[u][c] < StaleBound
           Inv == TypeOK /\ ExpiryAttached /\ TimingInv /\ TruthNow
<1>1. ASSUME Inv, TypeOK', NEW l \in Loaders, Lookup(l) \/ Query(l) \/ Expire(l) PROVE Recent(l)
  <2> DEFINE u == loader[l].user
             c == loader[l].need
  <2>0. u \in Users /\ c \in Codes /\ held[u][c] \in Int /\ lacked[u][c] \in Int
    BY <1>1, StaleBoundNat DEF TypeOK, LoaderRecord, TimingInv, TimedTypeOK, Ages
  <2>1. /\ loader'[l].user = u /\ loader'[l].need = c
        /\ loader'[l].pc \in {"query", "sadd"} \/ \E S : AnswersFrom(l, S)
    BY <1>1, AnswerIsRecent
  <2>2. CASE loader'[l].pc \in {"query", "sadd"}
    BY <2>2 DEF Answers
  <2>3. ASSUME NEW S, AnswersFrom(l, S) PROVE Recent(l)
    <3>1. loader'[l].pc = "allowed" => c \in S
      BY <2>3 DEF AnswersFrom, Verdict
    <3>2. loader'[l].pc = "denied" => c \notin S
      BY <2>3 DEF AnswersFrom, Verdict
    <3> QED
      BY <2>0, <2>1, <2>3, <3>1, <3>2, StaleBoundNat DEF Answers, AnswersFrom, NearTruth, Near
  <2> QED
    BY <2>1, <2>2, <2>3
<1>2. ASSUME Inv, TypeOK', NEW l \in Loaders, loader'[l] = loader[l] PROVE Recent(l)
  BY <1>2 DEF Answers
<1>3. ASSUME Inv, TypeOK', NEW l \in Loaders, loader'[l].pc \notin {"allowed", "denied"} PROVE Recent(l)
  BY <1>3 DEF Answers
<1>4. ASSUME Inv, TypeOK', Work, NEW l \in Loaders PROVE Recent(l)
  <2>1. ASSUME NEW k \in Loaders, Lookup(k) \/ Query(k) \/ Expire(k) PROVE Recent(l)
    <3>1. k # l => loader'[l] = loader[l]
      BY <1>4, <2>1 DEF Lookup, Query, Expire, TypeOK
    <3> QED
      BY <1>1, <1>2, <1>4, <2>1, <3>1
  <2>2. ASSUME NEW k \in Loaders,
               (\E u \in Users, c \in Codes : Request(k, u, c)) \/ Sadd(k) \/ LoadFails(k)
        PROVE  Recent(l)
    <3>1. loader'[l] = loader[l] \/ loader'[l].pc \notin {"allowed", "denied"}
      BY <1>4, <2>2 DEF Request, Sadd, LoadFails, NoRequest, TypeOK, LoaderRecord
    <3> QED
      BY <1>2, <1>3, <1>4, <3>1
  <2>3. ASSUME NEW a \in Admins, StartHandler(a) \/ AdminStep(a) \/ HandlerFails(a) PROVE Recent(l)
    BY <1>2, <1>4, <2>3, AdminKeepsLoaders
  <2> QED
    BY <1>4, <2>1, <2>2, <2>3 DEF Work, LoaderStep
<1>5. Inv /\ TypeOK' /\ [TimedNext]_timedVars => [\A l \in Loaders : Recent(l)]_timedVars
  <2> SUFFICES ASSUME Inv, TypeOK', TimedNext, NEW l \in Loaders PROVE Recent(l)
    OBVIOUS
  <2>1. CASE TimedWork
    BY <1>4, <2>1 DEF TimedWork
  <2>2. CASE TimedTick
    BY <1>2, <2>2 DEF TimedTick, Tick
  <2> QED
    BY <2>1, <2>2 DEF TimedNext
<1>6. [\A l \in Loaders : Recent(l)]_timedVars =>
      [\A l \in Loaders :
         LET u == loader'[l].user
             c == loader'[l].need IN
         /\ Answers(l, "allowed") => held[u][c] < StaleBound
         /\ Answers(l, "denied") => lacked[u][c] < StaleBound]_timedVars
  OBVIOUS
<1> QED
  BY <1>5, <1>6, TimingInvariant, HistoriesUpToDate, PTL DEF TimedSpec, DecisionsAreRecent

-----------------------------------------------------------------------------
(* PermissionCauses: what made a cached set wrong. *)

\* A wrong set in u's key has its event noted, or a handler that owes its DEL.
Explained(u) == cause[u] # {} \/ \E a \in Admins : Owes(a, u)

\* Codes that are about to be written are the user's, or were overtaken.
FillsFresh ==
  \A l \in Loaders : loader[l].pc = "sadd" =>
    loader[l].codes = Granted(loader[l].user) \/ overtaken[l]

CauseInv == TypeOK /\ FillsFresh /\ WrongEntriesExplained

\* u has lost one of the rows that give it a role.
LosesRole(u) == \E r \in RoleIds : <<u, r>> \in userRoles \ userRoles'

\* Two states of the tables with the same rows for a user give it the same codes.
LEMMA SameRowsSameCodes ==
  ASSUME NEW u, NEW rp, NEW ur, NEW rq, NEW uq,
         \A g : g \in rp /\ <<u, g[1]>> \in ur <=> g \in rq /\ <<u, g[1]>> \in uq
  PROVE  HeldCodes(ur, rp, u) = HeldCodes(uq, rq, u)
<1>1. {h \in rp : <<u, h[1]>> \in ur} = {h \in rq : <<u, h[1]>> \in uq}
  OBVIOUS
<1> QED
  BY <1>1 DEF HeldCodes

\* A handler whose job has caches left to invalidate goes on to invalidate them.
LEMMA SettleOwes ==
  ASSUME NEW j \in AdminRecord, j.roles # {} \/ j.users # {}
  PROVE  /\ Settle(j).pc = "invalidate" /\ Settle(j).op = j.op
         /\ Settle(j).roles = j.roles /\ Settle(j).users = j.users
BY DEF Settle, AdminRecord

\* A step of a handler leaves those alone that are invalidating caches.
LEMMA AdvanceKeepsOwing ==
  ASSUME TypeOK, NEW a \in Admins, NEW j, NEW rp, NEW ur, Advance(a, j, rp, ur)
  PROVE  /\ admin'[a] = j
         /\ \A b \in Admins \ {a} : admin[b].pc = "invalidate" => admin'[b] = admin[b]
BY DEF Advance, RowGone, TypeOK

\* What a commit of handler a changes for a user, a owes to that user, unless
\* it was a deletion.
LEMMA CommitOwes ==
  ASSUME TypeOK, NEW a \in Admins, NEW u \in Users, admin[a].pc \in {"commit", "noop"}, AdminStep(a),
         Changes(u) \/ LosesRole(u)
  PROVE  Owes(a, u)' \/ LateDeletion(u)
<1> DEFINE j == admin[a]
           granted(rp, ur) == HeldCodes(ur, rp, u)
<1>1. j \in AdminRecord /\ j.role \in RoleIds /\ j.perm \in PermIds /\ j.user \in Users
  BY DEF TypeOK, AdminRecord
<1>2. /\ Granted(u) = HeldCodes(userRoles, rolePermissions, u)
      /\ Granted(u)' = HeldCodes(userRoles', rolePermissions', u)
  BY DEF Granted
<1>3. CASE CommitDeletePermission(a) \/ CommitDeleteRole(a)
  <2>1. j.pc = "commit" /\ j.op \in Deletions /\ admin'[a] = NoJob
    BY <1>3, AdvanceKeepsOwing DEF CommitDeletePermission, CommitDeleteRole, Deletions
  <2>2. admin'[a].pc = "idle"
    BY <2>1, DefaultsTyped DEF NoJob
  <2> QED
    BY <2>1, <2>2 DEF LateDeletion, LosesRole
<1>4. CASE CommitAssignPermission(a) \/ CommitRevokePermission(a)
  <2> DEFINE k == [j EXCEPT !.roles = {j.role}]
  <2>1. k \in AdminRecord /\ k.roles = {j.role} /\ k.op = j.op
    BY <1>1 DEF AdminRecord
  <2>2. /\ admin'[a] = Settle(k) /\ userRoles' = userRoles /\ j.op \notin Deletions
        /\ \A g \in (rolePermissions \ rolePermissions') \union (rolePermissions' \ rolePermissions) : g[1] = j.role
    BY <1>4, AdvanceKeepsOwing DEF CommitAssignPermission, CommitRevokePermission, Deletions
  <2> HIDE DEF k
  <2>3. Changes(u)
    BY <2>2 DEF LosesRole
  <2>4. <<u, j.role>> \in userRoles
    <3>1. SUFFICES ASSUME <<u, j.role>> \notin userRoles PROVE FALSE
      OBVIOUS
    <3>2. \A g : g \in rolePermissions /\ <<u, g[1]>> \in userRoles
                   <=> g \in rolePermissions' /\ <<u, g[1]>> \in userRoles'
      BY <2>2, <3>1
    <3>3. HeldCodes(userRoles, rolePermissions, u) = HeldCodes(userRoles', rolePermissions', u)
      BY <3>2, SameRowsSameCodes
    <3> QED
      BY <1>2, <2>3, <3>3 DEF Changes
  <2>5. admin'[a].pc = "invalidate" /\ admin'[a].op = j.op /\ admin'[a].roles = {j.role}
    BY <2>1, <2>2, SettleOwes
  <2> QED
    BY <2>2, <2>4, <2>5 DEF Owes
<1>5. CASE CommitAssignRole(a) \/ CommitRevokeRole(a)
  <2> DEFINE k == [j EXCEPT !.users = {j.user}]
  <2>1. k \in AdminRecord /\ k.users = {j.user} /\ k.op = j.op
    BY <1>1 DEF AdminRecord
  <2>2. /\ admin'[a] = Settle(k) /\ rolePermissions' = rolePermissions /\ j.op \notin Deletions
        /\ \A g \in (userRoles \ userRoles') \union (userRoles' \ userRoles) : g = <<j.user, j.role>>
    BY <1>5, AdvanceKeepsOwing DEF CommitAssignRole, CommitRevokeRole, Deletions
  <2> HIDE DEF k
  <2>3. u = j.user
    <3>1. SUFFICES ASSUME u # j.user PROVE FALSE
      OBVIOUS
    <3>2. \A r : <<u, r>> \in userRoles <=> <<u, r>> \in userRoles'
      BY <2>2, <3>1
    <3>3. HeldCodes(userRoles, rolePermissions, u) = HeldCodes(userRoles', rolePermissions', u)
      BY <2>2, <3>2, SameRowsSameCodes
    <3> QED
      BY <1>2, <3>2, <3>3 DEF Changes, LosesRole
  <2>4. admin'[a].pc = "invalidate" /\ admin'[a].op = j.op /\ admin'[a].users = {j.user}
    BY <2>1, <2>2, SettleOwes
  <2> QED
    BY <2>2, <2>3, <2>4 DEF Owes
<1> QED
  BY <1>3, <1>4, <1>5 DEF AdminStep, ReadAssignees, DeleteKey

\* A handler that owes u its DEL goes on owing it, deletes the key, or fails.
LEMMA OwingEnds ==
  ASSUME TypeOK, NEW a \in Admins, NEW u \in Users, Owes(a, u),
         StartHandler(a) \/ AdminStep(a) \/ HandlerFails(a)
  PROVE  Owes(a, u)' \/ LostInvalidation(u) \/ cache'[u] = {}
<1> DEFINE j == admin[a]
<1>1. j \in AdminRecord /\ j.pc = "invalidate" /\ j.op \notin Deletions
  BY DEF TypeOK, Owes
<1>2. CASE HandlerFails(a)
  <2>1. admin'[a] = NoJob
    BY <1>2 DEF HandlerFails, TypeOK
  <2> QED
    BY <2>1 DEF LostInvalidation, NoJob
<1>3. ASSUME NEW r \in RoleIds, ReadAssignees(a, r)
      PROVE  Owes(a, u)'
  <2> DEFINE k == [j EXCEPT !.roles = @ \ {r}, !.users = {v \in Users : <<v, r>> \in userRoles}]
  <2>1. /\ k \in AdminRecord /\ k.op = j.op /\ k.roles = j.roles \ {r}
        /\ k.users = {v \in Users : <<v, r>> \in userRoles}
    BY <1>1 DEF AdminRecord
  <2>2. admin'[a] = Settle(k) /\ userRoles' = userRoles /\ j.users = {}
    BY <1>3, AdvanceKeepsOwing DEF ReadAssignees, db
  <2> HIDE DEF k
  <2>3. u \in k.users \/ \E s \in k.roles : <<u, s>> \in userRoles
    BY <2>1, <2>2 DEF Owes
  <2>4. /\ admin'[a].pc = "invalidate" /\ admin'[a].op = k.op
        /\ admin'[a].roles = k.roles /\ admin'[a].users = k.users
    BY <2>1, <2>2, <2>3, SettleOwes
  <2> QED
    BY <1>1, <2>1, <2>2, <2>3, <2>4 DEF Owes
<1>4. ASSUME NEW v \in Users, DeleteKey(a, v)
      PROVE  Owes(a, u)' \/ cache'[u] = {}
  <2> DEFINE k == [j EXCEPT !.users = @ \ {v}]
  <2>1. k \in AdminRecord /\ k.op = j.op /\ k.roles = j.roles /\ k.users = j.users \ {v}
    BY <1>1 DEF AdminRecord
  <2>2. /\ admin'[a] = Settle(k) /\ userRoles' = userRoles
        /\ cache' = [cache EXCEPT ![v] = {}]
    BY <1>4, AdvanceKeepsOwing DEF DeleteKey, db
  <2> HIDE DEF k
  <2>3. CASE u = v
    BY <2>2, <2>3 DEF TypeOK
  <2>4. CASE u # v
    <3>1. u \in k.users \/ \E s \in k.roles : <<u, s>> \in userRoles
      BY <2>1, <2>4 DEF Owes
    <3>2. /\ admin'[a].pc = "invalidate" /\ admin'[a].op = k.op
          /\ admin'[a].roles = k.roles /\ admin'[a].users = k.users
      BY <2>1, <2>2, <3>1, SettleOwes
    <3> QED
      BY <1>1, <2>1, <2>2, <3>1, <3>2 DEF Owes
  <2> QED
    BY <2>3, <2>4
<1>5. CASE AdminStep(a)
  BY <1>1, <1>3, <1>4, <1>5 DEF AdminStep, CommitDeletePermission, CommitDeleteRole, CommitAssignPermission,
     CommitRevokePermission, CommitAssignRole, CommitRevokeRole
<1>6. CASE StartHandler(a)
  <2>1. CASE \/ \E p \in PermIds : CreatePermission(a, p)
             \/ \E r \in RoleIds : CreateRole(a, r)
    BY <1>1, <2>1 DEF CreatePermission, CreateRole
  <2>2. CASE \E k : Start(a, k)
    BY <1>1, <2>2 DEF Start
  <2> QED
    BY <1>6, <2>1, <2>2 DEF StartHandler, DeletePermission, DeleteRole, AssignPermission, RevokePermission,
       AssignRole, RevokeRole
<1> QED
  BY <1>2, <1>5, <1>6

\* Whatever handler a does, the others go on owing what they owe, as long as
\* the user keeps its roles.
LEMMA OthersOwe ==
  ASSUME TypeOK, NEW a \in Admins, StartHandler(a) \/ AdminStep(a) \/ HandlerFails(a),
         NEW u \in Users, ~LosesRole(u), NEW b \in Admins, b # a, Owes(b, u)
  PROVE  Owes(b, u)'
<1>1. admin'[b] = admin[b]
  <2>1. CASE \/ \E p \in PermIds : CreatePermission(a, p)
             \/ \E r \in RoleIds : CreateRole(a, r)
             \/ HandlerFails(a)
    BY <2>1 DEF CreatePermission, CreateRole, HandlerFails, TypeOK
  <2>2. CASE \E j, rp, ur : Advance(a, j, rp, ur)
    BY <2>2, AdvanceKeepsOwing DEF Owes
  <2>3. CASE AdminStep(a)
    BY <2>2, <2>3 DEF AdminStep, CommitDeletePermission, CommitDeleteRole, CommitAssignPermission,
       CommitRevokePermission, CommitAssignRole, CommitRevokeRole, ReadAssignees, DeleteKey
  <2> QED
    BY <2>1, <2>2, <2>3 DEF StartHandler, Start, DeletePermission, DeleteRole, AssignPermission, RevokePermission,
       AssignRole, RevokeRole
<1>2. \A r \in admin[b].roles : <<u, r>> \in userRoles => <<u, r>> \in userRoles'
  BY DEF LosesRole, TypeOK, AdminRecord
<1> QED
  BY <1>1, <1>2 DEF Owes

\* Only a commit changes what a user is granted, or takes a role from it.
LEMMA OnlyCommitsChange ==
  ASSUME TypeOK, NEW a \in Admins, StartHandler(a) \/ AdminStep(a) \/ HandlerFails(a),
         NEW u \in Users, Changes(u) \/ LosesRole(u)
  PROVE  admin[a].pc \in {"commit", "noop"} /\ AdminStep(a)
<1>1. ~(UNCHANGED <<userRoles, rolePermissions>>)
  BY DEF Changes, LosesRole, Granted
<1>2. ~StartHandler(a) /\ ~HandlerFails(a)
  BY <1>1 DEF StartHandler, Start, CreatePermission, DeletePermission, CreateRole, DeleteRole,
     AssignPermission, RevokePermission, AssignRole, RevokeRole, HandlerFails, db
<1> QED
  BY <1>1, <1>2 DEF AdminStep, CommitDeletePermission, CommitDeleteRole, CommitAssignPermission,
     CommitRevokePermission, CommitAssignRole, CommitRevokeRole, ReadAssignees, DeleteKey, db

\* What happens to a key that goes on existing is noted.
LEMMA CauseRecorded ==
  ASSUME CauseNext, NEW u \in Users, cache'[u] # {},
         cause[u] # {} \/ OvertakenFill(u) \/ LostInvalidation(u) \/ LateDeletion(u)
  PROVE  cause'[u] # {}
BY DEF CauseNext

\* A fill that stays at its SADD is overtaken by a change, and remains so.
LEMMA OvertakenRecorded ==
  ASSUME CauseNext, NEW l \in Loaders, loader[l].pc = "sadd", loader'[l].pc = "sadd",
         overtaken[l] \/ Changes(loader[l].user)
  PROVE  overtaken'[l]
BY DEF CauseNext

\* A step that changes neither tables nor handlers, nor u's key.
LEMMA KeyKeepsCause ==
  ASSUME CauseInv, CauseNext, UNCHANGED <<db, admin>>, NEW u \in Users,
         cache'[u] = cache[u], Wrong(u)'
  PROVE  Explained(u)'
<1>1. Wrong(u) /\ cache'[u] # {}
  BY DEF Wrong, Granted, db
<1>2. CASE cause[u] # {}
  BY <1>1, <1>2, CauseRecorded DEF Explained
<1>3. CASE \E a \in Admins : Owes(a, u)
  BY <1>3 DEF Explained, Owes, db
<1> QED
  BY <1>1, <1>2, <1>3 DEF CauseInv, WrongEntriesExplained

\* A check writes what the user has, unless it was overtaken.
LEMMA LoaderKeepsCauses ==
  ASSUME CauseInv, TypeOK', CauseNext, NEW l \in Loaders,
         (\E u \in Users, c \in Codes : Request(l, u, c)) \/ LoaderStep(l) \/ LoadFails(l)
  PROVE  FillsFresh' /\ WrongEntriesExplained'
<1>1. UNCHANGED <<db, admin>> /\ \A k \in Loaders \ {l} : loader'[k] = loader[k]
  BY DEF CauseInv, TypeOK, LoaderStep, Request, Lookup, Query, Sadd, Expire, LoadFails
<1>2. UNCHANGED <<userRoles, rolePermissions>>
  BY <1>1 DEF db
<1>3. FillsFresh'
  <2>1. ASSUME NEW k \in Loaders, k # l, loader'[k].pc = "sadd", ~overtaken'[k]
        PROVE  (loader[k].codes = Granted(loader[k].user))'
    <3>1. loader'[k] = loader[k]
      BY <1>1, <2>1
    <3>2. loader[k].pc = "sadd" /\ ~overtaken[k]
      BY <2>1, <3>1, OvertakenRecorded
    <3>3. loader[k].codes = Granted(loader[k].user)
      BY <3>2 DEF CauseInv, FillsFresh
    <3> QED
      BY <1>2, <3>1, <3>3 DEF Granted
  <2>2. (loader[l].pc = "sadd" => loader[l].codes = Granted(loader[l].user))'
    <3>1. CASE \/ \E u \in Users, c \in Codes : Request(l, u, c)
               \/ Lookup(l) \/ Query(l) \/ LoadFails(l)
      <4>1. QuietLoader(l)
        BY <3>1, LoadersQuiet DEF CauseInv
      <4> QED
        BY <4>1 DEF QuietLoader, Granted
    <3>2. CASE Sadd(l)
      BY <3>2 DEF Sadd, CauseInv, TypeOK
    <3>3. CASE Expire(l)
      <4> DEFINE pc == Verdict(loader[l].user, loader[l].need, loader[l].codes)
      <4>1. pc # "sadd"
        BY VerdictTyped
      <4>2. loader' = [loader EXCEPT ![l].pc = pc]
        BY <3>3 DEF Expire
      <4> HIDE DEF pc
      <4> QED
        BY <4>1, <4>2 DEF CauseInv, TypeOK, LoaderRecord
    <3> QED
      BY <3>1, <3>2, <3>3 DEF LoaderStep
  <2> QED
    BY <2>1, <2>2 DEF FillsFresh
<1>4. ASSUME NEW u \in Users, Wrong(u)'
      PROVE  Explained(u)'
  <2>1. CASE cache'[u] = cache[u]
    BY <1>1, <1>4, <2>1, KeyKeepsCause
  <2>2. CASE cache'[u] # cache[u]
    <3>1. Sadd(l)
      <4>1. ~UNCHANGED cache
        BY <2>2
      <4> QED
        BY <4>1 DEF LoaderStep, Request, Lookup, Query, Expire, LoadFails
    <3>2. /\ loader[l].pc = "sadd" /\ loader'[l].pc = "expire" /\ loader[l].user = u
          /\ cache'[u] = cache[u] \union loader[l].codes /\ cache'[u] # {}
      <4>1. loader[l].pc = "sadd" /\ loader'[l].pc = "expire"
        BY <3>1 DEF Sadd, CauseInv, TypeOK, LoaderRecord
      <4>2. cache' = [cache EXCEPT ![loader[l].user] = @ \union loader[l].codes]
        BY <3>1 DEF Sadd
      <4>3. loader[l].user = u /\ cache'[u] = cache[u] \union loader[l].codes
        BY <2>2, <4>2 DEF CauseInv, TypeOK
      <4>4. cache'[u] # {}
        BY <1>4 DEF Wrong
      <4> QED
        BY <4>1, <4>3, <4>4
    <3>3. CASE overtaken[l]
      <4>1. OvertakenFill(u)
        BY <3>2, <3>3 DEF OvertakenFill
      <4> QED
        BY <3>2, <4>1, CauseRecorded DEF Explained
    <3>4. CASE loader[l].codes = Granted(u)
      <4>1. Wrong(u)
        BY <1>2, <1>4, <3>2, <3>4 DEF Wrong, Granted
      <4>2. CASE cause[u] # {}
        BY <3>2, <4>2, CauseRecorded DEF Explained
      <4>3. CASE \E a \in Admins : Owes(a, u)
        BY <1>1, <4>3 DEF Explained, Owes, db
      <4> QED
        BY <4>1, <4>2, <4>3 DEF CauseInv, WrongEntriesExplained
    <3> QED
      BY <3>2, <3>3, <3>4 DEF CauseInv, FillsFresh
  <2> QED
    BY <2>1, <2>2
<1> QED
  BY <1>3, <1>4 DEF WrongEntriesExplained, Explained

\* A handler owes what it changes, and notes what it fails to do.
LEMMA AdminKeepsCauses ==
  ASSUME CauseInv, CauseNext, NEW a \in Admins, StartHandler(a) \/ AdminStep(a) \/ HandlerFails(a)
  PROVE  FillsFresh' /\ WrongEntriesExplained'
<1>1. TypeOK /\ loader' = loader /\ \A u \in Users : cache'[u] \in {cache[u], {}}
  BY AdminKeepsLoaders DEF CauseInv, TypeOK
<1>2. FillsFresh'
  <2> SUFFICES ASSUME NEW l \in Loaders, loader[l].pc = "sadd"
               PROVE  loader[l].codes = Granted(loader[l].user)' \/ overtaken'[l]
    BY <1>1 DEF FillsFresh
  <2>1. loader[l].codes = Granted(loader[l].user) \/ overtaken[l]
    BY DEF CauseInv, FillsFresh
  <2>2. CASE overtaken[l] \/ Changes(loader[l].user)
    BY <1>1, <2>2, OvertakenRecorded
  <2> QED
    BY <2>1, <2>2 DEF Changes
<1>3. ASSUME NEW u \in Users, Wrong(u)'
      PROVE  Explained(u)'
  <2>1. cache'[u] = cache[u] /\ cache'[u] # {}
    BY <1>1, <1>3 DEF Wrong
  <2>2. CASE Changes(u) \/ LosesRole(u)
    <3>1. Owes(a, u)' \/ LateDeletion(u)
      BY <1>1, <2>2, OnlyCommitsChange, CommitOwes
    <3> QED
      BY <2>1, <3>1, CauseRecorded DEF Explained
  <2>3. CASE ~Changes(u) /\ ~LosesRole(u)
    <3>1. Wrong(u)
      BY <1>3, <2>1, <2>3 DEF Wrong, Changes
    <3>2. CASE cause[u] # {}
      BY <2>1, <3>2, CauseRecorded DEF Explained
    <3>3. CASE Owes(a, u)
      <4>1. Owes(a, u)' \/ LostInvalidation(u)
        BY <1>1, <2>1, <3>3, OwingEnds
      <4> QED
        BY <2>1, <4>1, CauseRecorded DEF Explained
    <3>4. ASSUME NEW b \in Admins, b # a, Owes(b, u)
          PROVE  Owes(b, u)'
      BY <1>1, <2>3, <3>4, OthersOwe
    <3> QED
      BY <3>1, <3>2, <3>3, <3>4 DEF CauseInv, WrongEntriesExplained, Explained
  <2> QED
    BY <2>2, <2>3
<1> QED
  BY <1>2, <1>3 DEF WrongEntriesExplained, Explained

\* Redis only drops keys.
LEMMA TickKeepsCauses ==
  ASSUME CauseInv, CauseNext, Tick
  PROVE  FillsFresh' /\ WrongEntriesExplained'
<1>1. UNCHANGED <<db, admin, loader>> /\ \A u \in Users : cache'[u] \in {cache[u], {}}
  BY DEF Tick
<1>2. FillsFresh'
  BY <1>1, OvertakenRecorded DEF CauseInv, FillsFresh, Granted, db
<1>3. ASSUME NEW u \in Users, Wrong(u)'
      PROVE  Explained(u)'
  BY <1>1, <1>3, KeyKeepsCause DEF Wrong
<1> QED
  BY <1>2, <1>3 DEF WrongEntriesExplained, Explained

\* The histories of causes only watch, too.
LEMMA CausesAreSpec == CauseSpec => Spec
<1>1. CauseInit => Init
  BY DEF CauseInit
<1>2. [CauseNext]_causeVars => [Next]_vars
  BY DEF CauseNext, causeVars
<1> QED
  BY <1>1, <1>2, PTL DEF CauseSpec, Spec

\* However many requests and handlers overlap, a wrong set in the cache is
\* about to be deleted, or goes back to an overtaken fill, to a handler that
\* failed after its commit, or to the commit of a deletion.
THEOREM WrongEntriesHaveCauses == CauseSpec => []WrongEntriesExplained
<1>1. CauseInit => FillsFresh /\ WrongEntriesExplained
  <2> SUFFICES ASSUME CauseInit PROVE FillsFresh /\ WrongEntriesExplained
    OBVIOUS
  <2>1. \A l \in Loaders : loader[l].pc = "idle"
    BY DEF CauseInit, Init, NoRequest
  <2>2. \A u \in Users : cache[u] = {}
    BY DEF CauseInit, Init
  <2> QED
    BY <2>1, <2>2 DEF FillsFresh, WrongEntriesExplained, Wrong
<1>2. CauseInv /\ TypeOK' /\ [CauseNext]_causeVars => FillsFresh' /\ WrongEntriesExplained'
  <2>1. CauseInv /\ UNCHANGED causeVars => FillsFresh' /\ WrongEntriesExplained'
    BY DEF CauseInv, causeVars, vars, db, FillsFresh, WrongEntriesExplained, Wrong, Granted, Owes
  <2>2. CauseInv /\ TypeOK' /\ CauseNext => FillsFresh' /\ WrongEntriesExplained'
    <3> SUFFICES ASSUME CauseInv, TypeOK', CauseNext PROVE FillsFresh' /\ WrongEntriesExplained'
      OBVIOUS
    <3> QED
      BY LoaderKeepsCauses, AdminKeepsCauses, TickKeepsCauses DEF CauseNext, Next, Work
  <2> QED
    BY <2>1, <2>2
<1> QED
  BY <1>1, <1>2, CausesAreSpec, TypeCorrect, PTL DEF CauseSpec, CauseInv

=============================================================================
