------------------------- MODULE TokenSessionProofs -------------------------
(* A token that was logged out is not accepted again, for any number of      *)
(* tokens and requests, any lifetimes and any resolution of the clock.       *)
EXTENDS TokenSession, TLAPS

\* The end of a token's last second, at the latest, and where a key that was
\* set in good time ends, at the earliest.
Latest(token) == issuedAt[token[2]] + Life(token) * Sub + Sub

\* The lifetimes in ticks.
LEMMA Lives ==
  /\ AccessLife * Sub \in Nat /\ RefreshLife * Sub \in Nat
  /\ AccessLife * Sub <= RefreshLife * Sub
  /\ \A token \in Tokens : Life(token) \in {AccessLife, RefreshLife}
BY TimeAssumption DEF Life

\* A tick lies in its second.
LEMMA SecondBounds ==
  ASSUME NEW t \in Nat
  PROVE  Second(t) \in Nat /\ Second(t) * Sub <= t /\ t < Second(t) * Sub + Sub
BY TimeAssumption DEF Second

\* A token that decode_token takes is not past its last second.
LEMMA ValidInTime ==
  ASSUME TypeOK, NEW token \in Tokens, Valid(token)
  PROVE  token[2] <= pairs /\ now < Latest(token)
<1> DEFINE s == Second(now)
           i == Second(issuedAt[token[2]])
           life == Life(token)
<1>1. now \in Nat /\ issuedAt[token[2]] \in Nat /\ life \in Nat /\ Sub \in Nat
  <2>1. token[2] \in Pairs
    BY DEF Tokens
  <2>2. life \in Nat
    BY Lives, TimeAssumption
  <2> QED
    BY <2>1, <2>2, TimeAssumption DEF TypeOK
<1>2. /\ s \in Nat /\ now < s * Sub + Sub
      /\ i \in Nat /\ i * Sub <= issuedAt[token[2]]
  BY <1>1, SecondBounds
<1>3. s <= i + life
  BY DEF Valid, ExpSecond
<1> HIDE DEF s, i, life
<1>4. s * Sub <= (i + life) * Sub
  BY <1>1, <1>2, <1>3
<1>5. (i + life) * Sub = i * Sub + life * Sub
  BY <1>1, <1>2
<1>6. i * Sub \in Nat /\ life * Sub \in Nat /\ s * Sub \in Nat
  BY <1>1, <1>2
<1> QED
  BY <1>1, <1>2, <1>4, <1>5, <1>6 DEF Valid, Latest, life

-----------------------------------------------------------------------------
\* A token that was logged out in good time is covered: by a key that ends
\* when no check of it can be under way any more, or by its own expiry.
RevokedCovered ==
  \A token \in revoked :
    /\ token[2] <= pairs /\ InGoodTime(token)
    /\ IF keyUntil[token] = 0 THEN now >= Latest(token) + MaxWait
                              ELSE keyUntil[token] >= Latest(token) + MaxWait

\* A key that has not lapsed ends in the future.
KeysRunning == \A token \in Tokens : keyUntil[token] = 0 \/ now < keyUntil[token]

\* A request that waits for Redis has decoded a token that was valid then, and
\* the tokens a logout is about to write to the blacklist have been issued.
RequestInv(q) ==
  LET r == request[q] IN
  /\ r.pc \in Checks \union {"setAccess"} => r.token[2] <= pairs
  /\ r.pc \in Checks => now - r.waited < Latest(r.token)
  /\ r.pc \in {"logout", "setAccess"} => r.token[1] = "access"
  /\ r.pc = "setRefresh" => r.other[2] <= pairs

BlacklistInv == RevokedCovered /\ KeysRunning /\ \A q \in Requests : RequestInv(q)

\* Latest is a number.
LEMMA LatestNat ==
  ASSUME TypeOK, NEW token \in Tokens
  PROVE  /\ Latest(token) \in Nat /\ issuedAt[token[2]] \in Nat
         /\ Latest(token) = issuedAt[token[2]] + Life(token) * Sub + Sub
<1>1. token[2] \in Pairs
  BY DEF Tokens
<1>2. issuedAt[token[2]] \in Nat
  BY <1>1, TimeAssumption DEF TypeOK
<1>3. Life(token) * Sub \in Nat /\ Sub \in Nat
  BY Lives, TimeAssumption
<1> QED
  BY <1>2, <1>3 DEF Latest

-----------------------------------------------------------------------------
RequestRecord == [pc : Checks \union Answered \union {"setAccess", "setRefresh"},
                  token : Tokens, other : Tokens, waited : 0 .. MaxWait]

\* The steps that issue a pair, or leave the issued ones alone.
Keeps == Issue \/ UNCHANGED <<pairs, issuedAt>>

\* An issued token keeps its expiry.
LEMMA IssuedStays ==
  ASSUME TypeOK, Keeps
  PROVE  \A token \in Tokens : token[2] <= pairs =>
           token[2] <= pairs' /\ issuedAt'[token[2]] = issuedAt[token[2]]
<1> SUFFICES ASSUME NEW token \in Tokens, token[2] <= pairs
             PROVE  token[2] <= pairs' /\ issuedAt'[token[2]] = issuedAt[token[2]]
  OBVIOUS
<1>1. token[2] \in Pairs /\ issuedAt \in [Pairs -> 0 .. MaxTime] /\ pairs \in Nat
  BY TimeAssumption DEF Tokens, TypeOK
<1>2. token[2] # pairs + 1 /\ token[2] <= pairs + 1
  BY <1>1, TimeAssumption DEF Pairs
<1> QED
  BY <1>1, <1>2 DEF Keeps, Issue
\* An idle request is well typed.
LEMMA IdleTyped == Idle \in RequestRecord /\ [Idle EXCEPT !.pc = "accepted"] \in RequestRecord
<1>1. 1 \in Pairs /\ 0 \in 0 .. MaxWait
  BY TimeAssumption DEF Pairs
<1>2. <<"access", 1>> \in Tokens
  BY <1>1 DEF Tokens
<1>3. Idle \in RequestRecord
  BY <1>1, <1>2 DEF Idle, RequestRecord, Answered
<1>4. "accepted" \in Checks \union Answered \union {"setAccess", "setRefresh"}
  BY DEF Answered
<1> QED
  BY <1>3, <1>4 DEF RequestRecord

\* A step that keeps the clock and the keys, and leaves each request as it was
\* or with a record that satisfies its part of the invariant.
LEMMA RequestMoves ==
  ASSUME TypeOK, BlacklistInv, Keeps, UNCHANGED <<now, keyUntil, revoked>>,
         \A k \in Requests : request'[k] = request[k] \/ RequestInv(k)'
  PROVE  BlacklistInv'
<1>1. ASSUME NEW k \in Requests, request'[k] = request[k] PROVE RequestInv(k)'
  <2>1. request[k].token \in Tokens /\ request[k].other \in Tokens
    BY DEF TypeOK
  <2>2. /\ request[k].token[2] <= pairs =>
             /\ request[k].token[2] <= pairs'
             /\ issuedAt'[request[k].token[2]] = issuedAt[request[k].token[2]]
        /\ request[k].other[2] <= pairs => request[k].other[2] <= pairs'
    BY <2>1, IssuedStays
  <2>3. RequestInv(k) /\ request'[k] = request[k]
    BY <1>1 DEF BlacklistInv
  <2> QED
    BY <2>2, <2>3 DEF RequestInv, Latest, Checks
<1>2. RevokedCovered'
  <2> SUFFICES ASSUME NEW token \in revoked
               PROVE  /\ token[2] <= pairs'
                      /\ issuedAt'[token[2]] = issuedAt[token[2]]
    BY DEF RevokedCovered, Latest, BlacklistInv, InGoodTime
  <2>1. token \in Tokens /\ token[2] <= pairs
    BY DEF TypeOK, BlacklistInv, RevokedCovered
  <2> QED
    BY <2>1, IssuedStays
<1>3. KeysRunning'
  BY DEF BlacklistInv, KeysRunning
<1> QED
  BY <1>1, <1>2, <1>3 DEF BlacklistInv

-----------------------------------------------------------------------------
\* Blacklist writes one key, within the type's bounds.
LEMMA BlacklistTyped ==
  ASSUME TypeOK, NEW token \in Tokens, NEW seconds \in {AccessLife, RefreshLife}, Blacklist(token, seconds)
  PROVE  /\ keyUntil' \in [Tokens -> 0 .. MaxTime + RefreshLife * Sub]
         /\ revoked' \subseteq Tokens
<1>1. now + seconds * Sub \in 0 .. MaxTime + RefreshLife * Sub
  BY Lives, TimeAssumption DEF TypeOK
<1> QED
  BY <1>1 DEF Blacklist, TypeOK

\* Issuing a pair keeps the types.
LEMMA IssueTyped ==
  ASSUME TypeOK, Issue
  PROVE  pairs' \in 0 .. MaxPairs /\ issuedAt' \in [Pairs -> 0 .. MaxTime]
<1>1. pairs + 1 \in Pairs
  BY TimeAssumption DEF TypeOK, Issue, Pairs
<1> QED
  BY <1>1, TimeAssumption DEF TypeOK, Issue, Pairs

\* Every step of a request leaves the requests well typed.
LEMMA RequestTyped ==
  ASSUME TypeOK, NEW q \in Requests,
         \/ \E k \in Pairs : BeginUse(q, k) \/ BeginRefresh(q, k)
         \/ \E k \in Pairs, other \in Tokens : BeginLogout(q, k, other)
         \/ Refused(q) \/ AcceptUse(q) \/ AcceptRefresh(q) \/ AcceptLogout(q)
         \/ SetAccess(q) \/ SetRefresh(q) \/ Fails(q)
  PROVE  request' \in [Requests -> RequestRecord]
<1>0. request \in [Requests -> RequestRecord] /\ request[q] \in RequestRecord
  BY DEF TypeOK, RequestRecord
<1>1. request[q].token \in Tokens /\ request[q].other \in Tokens /\ 0 \in 0 .. MaxWait
  BY <1>0, TimeAssumption DEF RequestRecord
<1>3. Idle \in RequestRecord /\ [Idle EXCEPT !.pc = "accepted"] \in RequestRecord /\ Idle.other \in Tokens
  BY IdleTyped DEF RequestRecord
<1>4. ASSUME NEW pc \in Checks, NEW token \in Tokens, NEW other \in Tokens, Begin(q, pc, token, other)
      PROVE  request' \in [Requests -> RequestRecord]
  BY <1>0, <1>1, <1>4 DEF Begin, RequestRecord
<1>5. \A j \in Pairs : <<"access", j>> \in Tokens /\ <<"refresh", j>> \in Tokens
  BY DEF Tokens
<1>6. "use" \in Checks /\ "refresh" \in Checks /\ "logout" \in Checks
  BY DEF Checks
<1>7. CASE \E j \in Pairs : BeginUse(q, j) \/ BeginRefresh(q, j)
  BY <1>3, <1>4, <1>5, <1>6, <1>7 DEF BeginUse, BeginRefresh
<1>8. CASE \E j \in Pairs, other \in Tokens : BeginLogout(q, j, other)
  BY <1>4, <1>5, <1>6, <1>8 DEF BeginLogout
<1>9. CASE Refused(q) \/ AcceptUse(q) \/ AcceptRefresh(q) \/ SetRefresh(q) \/ Fails(q)
  BY <1>0, <1>3, <1>9 DEF Refused, AcceptUse, AcceptRefresh, SetRefresh, Fails, Answer, Accept
<1>10. CASE AcceptLogout(q)
  BY <1>0, <1>1, <1>10 DEF AcceptLogout, Goto, RequestRecord
<1>11. CASE SetAccess(q)
  <2>1. [Idle EXCEPT !.pc = "setRefresh", !.other = request[q].other] \in RequestRecord
    BY <1>1, <1>3 DEF RequestRecord
  <2> QED
    BY <1>0, <1>3, <1>11, <2>1 DEF SetAccess
<1> QED
  BY <1>7, <1>8, <1>9, <1>10, <1>11

\* Every variable keeps its type.
THEOREM TokensTyped == Spec => []TypeOK
<1>1. Init => TypeOK
  <2> SUFFICES ASSUME Init PROVE TypeOK
    OBVIOUS
  <2>1. RefreshLife * Sub \in Nat
    BY Lives
  <2> QED
    BY <2>1, IdleTyped, TimeAssumption DEF Init, TypeOK, RequestRecord
<1>2. TypeOK /\ [Next]_vars => TypeOK'
  <2> SUFFICES ASSUME TypeOK, [Next]_vars PROVE TypeOK'
    OBVIOUS
  <2>1. CASE UNCHANGED vars
    BY <2>1 DEF vars, TypeOK
  <2>2. CASE Tick
    <3>1. now' \in 0 .. MaxTime
      BY <2>2, TimeAssumption DEF Tick, TypeOK
    <3>2. keyUntil' \in [Tokens -> 0 .. MaxTime + RefreshLife * Sub]
      BY <2>2, Lives, TimeAssumption DEF Tick, TypeOK
    <3>3. request' \in [Requests -> RequestRecord]
      <4>1. ASSUME NEW q \in Requests, Waiting(q) PROVE [request[q] EXCEPT !.waited = @ + 1] \in RequestRecord
        <5>1. request[q] \in RequestRecord /\ request[q].waited \in 0 .. MaxWait /\ request[q].waited < MaxWait
          BY <2>2, <4>1 DEF Tick, TypeOK, RequestRecord
        <5>2. request[q].waited + 1 \in 0 .. MaxWait
          BY <5>1, TimeAssumption
        <5> QED
          BY <5>1, <5>2 DEF RequestRecord
      <4> QED
        BY <2>2, <4>1 DEF Tick, TypeOK, RequestRecord
    <3> QED
      BY <2>2, <3>1, <3>2, <3>3 DEF Tick, TypeOK, RequestRecord
  <2>3. CASE Login
    BY <2>3, IssueTyped DEF Login, TypeOK
  <2>4. ASSUME NEW q \in Requests,
               \/ \E k \in Pairs : BeginUse(q, k) \/ BeginRefresh(q, k)
               \/ \E k \in Pairs, other \in Tokens : BeginLogout(q, k, other)
               \/ Refused(q) \/ AcceptUse(q) \/ AcceptRefresh(q) \/ AcceptLogout(q)
               \/ SetAccess(q) \/ SetRefresh(q) \/ Fails(q)
        PROVE  TypeOK'
    <3>1. request' \in [Requests -> RequestRecord]
      BY <2>4, RequestTyped
    <3>2. request[q].token \in Tokens /\ request[q].other \in Tokens
      BY DEF TypeOK
    <3>3. CASE AcceptRefresh(q)
      BY <3>1, <3>3, IssueTyped DEF AcceptRefresh, TypeOK, RequestRecord
    <3>4. CASE SetAccess(q)
      BY <3>1, <3>2, <3>4, BlacklistTyped DEF SetAccess, TypeOK, RequestRecord
    <3>5. CASE SetRefresh(q)
      BY <3>1, <3>2, <3>5, BlacklistTyped DEF SetRefresh, TypeOK, RequestRecord
    <3>6. UNCHANGED <<now, pairs, issuedAt, keyUntil, revoked>> => TypeOK'
      BY <3>1 DEF TypeOK, RequestRecord
    <3> QED
      BY <2>4, <3>3, <3>4, <3>5, <3>6
         DEF BeginUse, BeginRefresh, BeginLogout, Begin, Refused, AcceptUse, AcceptLogout, Fails
  <2> QED
    BY <2>1, <2>2, <2>3, <2>4 DEF Next
<1> QED
  BY <1>1, <1>2, PTL DEF Spec

-----------------------------------------------------------------------------
\* A SETEX of at least the token's lifetime covers the token, and keeps the
\* others covered.
LEMMA BlacklistCovers ==
  ASSUME TypeOK, BlacklistInv, UNCHANGED <<now, pairs, issuedAt>>,
         NEW token \in Tokens, token[2] <= pairs, NEW seconds \in {AccessLife, RefreshLife},
         seconds >= Life(token), Blacklist(token, seconds)
  PROVE  RevokedCovered' /\ KeysRunning'
<1>1. /\ seconds * Sub \in Nat \ {0} /\ Life(token) * Sub \in Nat
      /\ seconds * Sub >= Life(token) * Sub
  BY Lives, TimeAssumption DEF Life
<1>2. KeysRunning'
  BY <1>1 DEF KeysRunning, BlacklistInv, Blacklist, TypeOK
<1>3. ASSUME NEW t \in revoked', t # token
      PROVE  /\ t[2] <= pairs' /\ InGoodTime(t)'
             /\ IF keyUntil'[t] = 0 THEN now' >= Latest(t)' + MaxWait
                                    ELSE keyUntil'[t] >= Latest(t)' + MaxWait
  <2>1. t \in revoked /\ t \in Tokens /\ keyUntil'[t] = keyUntil[t]
    BY <1>3 DEF Blacklist, TypeOK
  <2> QED
    BY <2>1 DEF BlacklistInv, RevokedCovered, InGoodTime, Latest
<1>4. ASSUME token \in revoked'
      PROVE  /\ token[2] <= pairs' /\ InGoodTime(token)'
             /\ keyUntil'[token] # 0 /\ keyUntil'[token] >= Latest(token)' + MaxWait
  <2>1. InGoodTime(token)
    BY <1>4 DEF Blacklist, BlacklistInv, RevokedCovered
  <2>2. keyUntil'[token] = now + seconds * Sub /\ now \in Nat
    BY TimeAssumption DEF Blacklist, TypeOK
  <2>3. issuedAt[token[2]] \in Nat
    BY LatestNat
  <2>4. Latest(token)' = issuedAt[token[2]] + Life(token) * Sub + Sub
    BY DEF Latest
  <2> QED
    BY <1>1, <2>1, <2>2, <2>3, <2>4, TimeAssumption DEF InGoodTime
<1>5. RevokedCovered'
  <2> SUFFICES ASSUME NEW t \in revoked'
               PROVE  /\ t[2] <= pairs' /\ InGoodTime(t)'
                      /\ IF keyUntil'[t] = 0 THEN now' >= Latest(t)' + MaxWait
                                             ELSE keyUntil'[t] >= Latest(t)' + MaxWait
    BY DEF RevokedCovered
  <2> QED
    BY <1>3, <1>4
<1> QED
  BY <1>2, <1>5

\* A step of q that writes to the blacklist keeps the other requests' part.
LEMMA OthersWait ==
  ASSUME TypeOK, BlacklistInv, UNCHANGED <<now, pairs, issuedAt>>,
         NEW q \in Requests, \A k \in Requests \ {q} : request'[k] = request[k], RequestInv(q)'
  PROVE  \A k \in Requests : RequestInv(k)'
BY DEF BlacklistInv, RequestInv, Latest

\* A request in its idle state owes the invariant nothing.
LEMMA IdleInv ==
  ASSUME NEW q \in Requests, request'[q].pc \in Answered
  PROVE  RequestInv(q)'
BY DEF RequestInv, Answered, Checks

\* Decoding keeps the invariant: a token that is taken is in time.
LEMMA BeginKeeps ==
  ASSUME TypeOK, BlacklistInv, NEW q \in Requests, NEW pc \in Checks, NEW token \in Tokens,
         NEW other \in Tokens, pc = "logout" => token[1] = "access", Begin(q, pc, token, other)
  PROVE  BlacklistInv'
<1>1. /\ request'[q] = [pc |-> pc, token |-> token, other |-> other, waited |-> 0]
      /\ \A k \in Requests \ {q} : request'[k] = request[k]
      /\ UNCHANGED <<now, pairs, issuedAt, keyUntil, revoked>>
  BY DEF Begin, TypeOK
<1>2. token[2] <= pairs /\ now < Latest(token) /\ now \in Nat
  BY ValidInTime, TimeAssumption DEF Begin, TypeOK
<1>3. RequestInv(q)'
  BY <1>1, <1>2 DEF RequestInv, Latest, Checks
<1> QED
  BY <1>1, <1>3, RequestMoves DEF Keeps

\* Every other step of a request keeps it.
LEMMA RequestKeeps ==
  ASSUME TypeOK, BlacklistInv, NEW q \in Requests,
         \/ \E k \in Pairs : BeginUse(q, k) \/ BeginRefresh(q, k)
         \/ \E k \in Pairs, other \in Tokens : BeginLogout(q, k, other)
         \/ Refused(q) \/ AcceptUse(q) \/ AcceptRefresh(q) \/ AcceptLogout(q)
         \/ SetAccess(q) \/ SetRefresh(q) \/ Fails(q)
  PROVE  BlacklistInv'
<1> DEFINE r == request[q]
<1>0. /\ r.token \in Tokens /\ r.other \in Tokens /\ RequestInv(q)
      /\ Idle.pc \in Answered /\ [Idle EXCEPT !.pc = "accepted"].pc \in Answered
  BY DEF TypeOK, BlacklistInv, Idle, Answered
<1>1. /\ \A j \in Pairs : <<"access", j>> \in Tokens /\ <<"refresh", j>> \in Tokens
      /\ "use" \in Checks /\ "refresh" \in Checks /\ "logout" \in Checks
      /\ Idle.other \in Tokens
  BY IdleTyped DEF Tokens, Checks, RequestRecord
<1>2. CASE \E j \in Pairs : BeginUse(q, j) \/ BeginRefresh(q, j)
  BY <1>1, <1>2, BeginKeeps DEF BeginUse, BeginRefresh
<1>3. CASE \E j \in Pairs, other \in Tokens : BeginLogout(q, j, other)
  BY <1>1, <1>3, BeginKeeps DEF BeginLogout
<1>4. CASE Refused(q) \/ AcceptUse(q) \/ AcceptRefresh(q) \/ Fails(q)
  <2>1. request'[q].pc \in Answered /\ \A k \in Requests \ {q} : request'[k] = request[k]
    BY <1>0, <1>4 DEF Refused, AcceptUse, AcceptRefresh, Fails, Answer, Accept, TypeOK
  <2>2. Keeps /\ UNCHANGED <<now, keyUntil, revoked>>
    BY <1>4 DEF Keeps, Refused, AcceptUse, AcceptRefresh, Fails
  <2> QED
    BY <2>1, <2>2, IdleInv, RequestMoves
<1>5. CASE AcceptLogout(q)
  <2>1. /\ request'[q] = [r EXCEPT !.pc = "setAccess", !.waited = 0]
        /\ \A k \in Requests \ {q} : request'[k] = request[k]
    BY <1>5 DEF AcceptLogout, Goto, TypeOK
  <2>2. r.token[2] <= pairs /\ r.token[1] = "access"
    BY <1>0, <1>5 DEF AcceptLogout, Passes, RequestInv, Checks
  <2>3. request'[q].pc = "setAccess" /\ request'[q].token = r.token
    BY <2>1 DEF TypeOK
  <2>4. Keeps /\ UNCHANGED <<now, keyUntil, revoked, pairs>>
    BY <1>5 DEF Keeps, AcceptLogout
  <2>5. RequestInv(q)'
    BY <2>2, <2>3, <2>4 DEF RequestInv, Checks
  <2> QED
    BY <2>1, <2>4, <2>5, RequestMoves
<1>6. CASE SetAccess(q)
  <2>1. r.token[2] <= pairs /\ r.token[1] = "access"
    BY <1>0, <1>6 DEF SetAccess, RequestInv, Checks
  <2>2. UNCHANGED <<now, pairs, issuedAt>> /\ Blacklist(r.token, AccessLife)
    BY <1>6 DEF SetAccess
  <2>3. RevokedCovered' /\ KeysRunning'
    <3>1. AccessLife >= Life(r.token)
      BY <2>1, TimeAssumption DEF Life
    <3> QED
      BY <1>0, <2>1, <2>2, <3>1, BlacklistCovers
  <2>4. /\ \A k \in Requests \ {q} : request'[k] = request[k]
        /\ \/ request'[q].pc \in Answered
           \/ request'[q].pc = "setRefresh" /\ request'[q].other = r.other /\ Valid(r.other)
    BY <1>0, <1>6 DEF SetAccess, TypeOK, Idle
  <2>5. RequestInv(q)'
    <3>1. CASE request'[q].pc \in Answered
      BY <3>1, IdleInv
    <3>2. CASE request'[q].pc = "setRefresh" /\ request'[q].other = r.other /\ Valid(r.other)
      BY <2>2, <3>2 DEF RequestInv, Valid, Checks
    <3> QED
      BY <2>4, <3>1, <3>2
  <2> QED
    BY <2>2, <2>3, <2>4, <2>5, OthersWait DEF BlacklistInv
<1>7. CASE SetRefresh(q)
  <2>1. r.other[2] <= pairs /\ UNCHANGED <<now, pairs, issuedAt>> /\ Blacklist(r.other, RefreshLife)
    BY <1>0, <1>7 DEF SetRefresh, RequestInv
  <2>2. RevokedCovered' /\ KeysRunning'
    <3>1. RefreshLife >= Life(r.other)
      BY TimeAssumption DEF Life
    <3> QED
      BY <1>0, <2>1, <3>1, BlacklistCovers
  <2>3. request'[q].pc \in Answered /\ \A k \in Requests \ {q} : request'[k] = request[k]
    BY <1>0, <1>7 DEF SetRefresh, Answer, TypeOK
  <2> QED
    BY <2>1, <2>2, <2>3, IdleInv, OthersWait DEF BlacklistInv
<1> QED
  BY <1>2, <1>3, <1>4, <1>5, <1>6, <1>7

\* So does a tick: keys lapse only when what they cover has expired.
LEMMA TickKeeps ==
  ASSUME TypeOK, BlacklistInv, Tick
  PROVE  BlacklistInv'
<1>0. /\ now \in Nat /\ now' = now + 1 /\ UNCHANGED <<pairs, issuedAt, revoked>>
      /\ \A t \in Tokens : keyUntil[t] \in Int
  BY Lives, TimeAssumption DEF Tick, TypeOK
<1>1. KeysRunning'
  BY <1>0 DEF Tick, BlacklistInv, KeysRunning, TypeOK
<1>2. RevokedCovered'
  <2> SUFFICES ASSUME NEW t \in revoked
               PROVE  /\ t[2] <= pairs /\ InGoodTime(t)'
                      /\ IF keyUntil'[t] = 0 THEN now + 1 >= Latest(t)' + MaxWait
                                             ELSE keyUntil'[t] >= Latest(t)' + MaxWait
    BY <1>0 DEF RevokedCovered
  <2>1. t \in Tokens /\ keyUntil'[t] = (IF keyUntil[t] = now + 1 THEN 0 ELSE keyUntil[t])
    BY DEF Tick, TypeOK
  <2>2. Latest(t)' = Latest(t) /\ Latest(t) \in Nat /\ issuedAt[t[2]] \in Nat
    BY <1>0, <2>1, LatestNat DEF Latest
  <2>3. /\ t[2] <= pairs /\ InGoodTime(t)
        /\ IF keyUntil[t] = 0 THEN now >= Latest(t) + MaxWait ELSE keyUntil[t] >= Latest(t) + MaxWait
    BY DEF BlacklistInv, RevokedCovered
  <2>4. InGoodTime(t)'
    BY <1>0, <2>2, <2>3, TimeAssumption DEF InGoodTime
  <2> QED
    BY <1>0, <2>1, <2>2, <2>3, <2>4, TimeAssumption
<1>3. ASSUME NEW q \in Requests PROVE RequestInv(q)'
  <2>1. /\ request'[q].pc = request[q].pc /\ request'[q].token = request[q].token
        /\ request'[q].other = request[q].other
        /\ Waiting(q) => request'[q].waited = request[q].waited + 1
    BY DEF Tick, TypeOK
  <2>2. request[q].pc \in Checks => Waiting(q) /\ now' - request'[q].waited = now - request[q].waited
    BY <1>0, <2>1 DEF Waiting, Checks, Answered, TypeOK
  <2>3. RequestInv(q)
    BY DEF BlacklistInv
  <2> QED
    BY <1>0, <2>1, <2>2, <2>3 DEF RequestInv, Latest
<1> QED
  BY <1>1, <1>2, <1>3 DEF BlacklistInv

\* A check that the blacklist lets pass is not one of a revoked token.
LEMMA PassesNotRevoked ==
  ASSUME TypeOK, BlacklistInv, NEW q \in Requests, request[q].pc \in Checks,
         ~Blacklisted(request[q].token)
  PROVE  request[q].token \notin revoked
<1> DEFINE t == request[q].token
<1> SUFFICES ASSUME t \in revoked PROVE FALSE
  OBVIOUS
<1>1. t \in Tokens /\ request[q].waited \in 0 .. MaxWait /\ now \in Nat /\ Latest(t) \in Nat
  BY LatestNat, TimeAssumption DEF TypeOK
<1>2. now >= Latest(t) + MaxWait
  BY DEF Blacklisted, BlacklistInv, RevokedCovered
<1>3. now - request[q].waited < Latest(t)
  BY DEF BlacklistInv, RequestInv
<1> HIDE DEF t
<1> QED
  BY <1>1, <1>2, <1>3, TimeAssumption

\* No endpoint accepts a token that was logged out in good time, however
\* requests overlap, whatever tokens logouts name, and whenever Redis fails.
THEOREM RevokedStayRejected == Spec => RevokedTokenRejected
<1>1. Init => BlacklistInv
  BY DEF Init, Idle, Checks, BlacklistInv, RevokedCovered, KeysRunning, RequestInv
<1>2. TypeOK /\ BlacklistInv /\ [Next]_vars => BlacklistInv'
  <2> SUFFICES ASSUME TypeOK, BlacklistInv, [Next]_vars PROVE BlacklistInv'
    OBVIOUS
  <2>1. CASE UNCHANGED vars
    BY <2>1 DEF vars, BlacklistInv, RevokedCovered, KeysRunning, RequestInv, Latest, InGoodTime
  <2>2. CASE Login
    BY <2>2, RequestMoves DEF Login, Keeps
  <2> QED
    BY <2>1, <2>2, TickKeeps, RequestKeeps DEF Next
<1>3. TypeOK /\ BlacklistInv /\ [Next]_vars =>
        (\A q \in Requests :
           request[q].pc \in Checks /\ request'[q].pc \in {"accepted", "setAccess"} =>
             request[q].token \notin revoked)
  <2> SUFFICES ASSUME TypeOK, BlacklistInv, [Next]_vars, NEW q \in Requests,
                      request[q].pc \in Checks, request'[q].pc \in {"accepted", "setAccess"}
               PROVE  ~Blacklisted(request[q].token)
    BY PassesNotRevoked
  <2>1. request'[q].pc # request[q].pc /\ request'[q].pc # "idle"
    BY DEF Checks
  <2>2. CASE Tick
    BY <2>1, <2>2 DEF Tick, TypeOK
  <2>3. CASE UNCHANGED vars \/ Login
    BY <2>1, <2>3 DEF vars, Login
  <2>4. ASSUME NEW k \in Requests,
               \/ \E j \in Pairs : BeginUse(k, j) \/ BeginRefresh(k, j)
               \/ \E j \in Pairs, other \in Tokens : BeginLogout(k, j, other)
               \/ Refused(k) \/ SetAccess(k) \/ SetRefresh(k) \/ Fails(k)
        PROVE  FALSE
    <3>1. k = q
      BY <2>1, <2>4 DEF BeginUse, BeginRefresh, BeginLogout, Begin, Refused, SetAccess, SetRefresh,
                        Fails, Answer, TypeOK
    <3>2. request[q].pc \notin Answered \union {"setAccess", "setRefresh"}
      BY DEF Checks, Answered
    <3>3. Refused(q) \/ Fails(q)
      BY <2>4, <3>1, <3>2 DEF BeginUse, BeginRefresh, BeginLogout, Begin, SetAccess, SetRefresh
    <3> QED
      BY <2>1, <3>3 DEF Refused, Fails, Answer, Idle, TypeOK
  <2>5. ASSUME NEW k \in Requests, AcceptUse(k) \/ AcceptRefresh(k) \/ AcceptLogout(k)
        PROVE  ~Blacklisted(request[q].token)
    <3>1. k = q
      BY <2>1, <2>5 DEF AcceptUse, AcceptRefresh, AcceptLogout, Accept, Goto, TypeOK
    <3> QED
      BY <2>5, <3>1 DEF AcceptUse, AcceptRefresh, AcceptLogout, Passes
  <2> QED
    BY <2>2, <2>3, <2>4, <2>5 DEF Next
<1> QED
  BY <1>1, <1>2, <1>3, TokensTyped, PTL DEF Spec, RevokedTokenRejected
=============================================================================
