---------------------------- MODULE TokenSession ----------------------------
(***************************************************************************)
(* Access and refresh tokens, their expiry and their blacklist             *)
(* (app/modules/auth/router.py, get_current_user of                        *)
(* app/core/dependencies.py, app/core/security.py).  A token carries its   *)
(* expiry in whole seconds and is valid to the end of that second; Redis   *)
(* forgets a blacklist key a given number of seconds, to the tick, after   *)
(* the SETEX.  A login, a registration and a refresh issue tokens in       *)
(* pairs; pair k stands for its access and its refresh token.              *)
(***************************************************************************)
EXTENDS Integers

CONSTANTS
  Sub,          \* ticks per second
  AccessLife,   \* ACCESS_TOKEN_EXPIRE_MINUTES, in seconds
  RefreshLife,  \* REFRESH_TOKEN_EXPIRE_DAYS, in seconds
  MaxPairs,     \* bound: how many pairs are ever issued
  MaxTime,      \* bound: ticks
  MaxWait,      \* ticks between decoding a token and the answer of Redis
  Requests

ASSUME TimeAssumption ==
  /\ Sub \in Nat \ {0} /\ AccessLife \in Nat \ {0} /\ RefreshLife \in Nat \ {0}
  /\ AccessLife <= RefreshLife
  /\ MaxPairs \in Nat \ {0} /\ MaxTime \in Nat /\ MaxWait \in Nat

VARIABLES
  now,        \* the clock, in ticks
  pairs,      \* how many pairs have been issued
  issuedAt,   \* when each pair was issued
  keyUntil,   \* when Redis forgets the blacklist key of each token; 0: no key
  revoked,    \* history: the tokens that were logged out in good time
  request     \* requests that use a token

vars == <<now, pairs, issuedAt, keyUntil, revoked, request>>

Pairs == 1 .. MaxPairs
Tokens == {"access", "refresh"} \X Pairs

-----------------------------------------------------------------------------
(* Security.create_access_token, create_refresh_token and decode_token. *)

Second(t) == t \div Sub

Life(token) == IF token[1] = "access" THEN AccessLife ELSE RefreshLife

ExpSecond(token) == Second(issuedAt[token[2]]) + Life(token)

\* The library compares whole seconds: exp itself is still valid.
Valid(token) == token[2] <= pairs /\ Second(now) <= ExpSecond(token)

Issue == /\ pairs < MaxPairs
         /\ pairs' = pairs + 1
         /\ issuedAt' = [issuedAt EXCEPT ![pairs + 1] = now]

\* login, register and the Google flows, once they have accepted the user
Login == Issue /\ UNCHANGED <<now, keyUntil, revoked, request>>

-----------------------------------------------------------------------------
(* Requests.  The token is decoded; one that is invalid or of the wrong    *)
(* type is refused at once, any other when Redis says it is blacklisted.   *)

Idle == [pc |-> "idle", token |-> <<"access", 1>>, other |-> <<"access", 1>>, waited |-> 0]

Checks == {"use", "refresh", "logout"}   \* waiting for the answer of Redis

Answered == {"idle", "accepted"}

Goto(q, pc) == request' = [request EXCEPT ![q].pc = pc, ![q].waited = 0]

Answer(q) == request' = [request EXCEPT ![q] = Idle]   \* with an error, or after logout

Accept(q) == request' = [request EXCEPT ![q] = [Idle EXCEPT !.pc = "accepted"]]

Begin(q, pc, token, other) ==
  /\ request[q].pc \in Answered
  /\ Valid(token)
  /\ request' = [request EXCEPT ![q] = [pc |-> pc, token |-> token, other |-> other, waited |-> 0]]
  /\ UNCHANGED <<now, pairs, issuedAt, keyUntil, revoked>>

\* get_current_user of any endpoint, of refresh, and of logout with the token
\* of its body, which may be any token.
BeginUse(q, k) == Begin(q, "use", <<"access", k>>, Idle.other)
BeginRefresh(q, k) == Begin(q, "refresh", <<"refresh", k>>, Idle.other)
BeginLogout(q, k, other) == Begin(q, "logout", <<"access", k>>, other)

Blacklisted(token) == keyUntil[token] # 0

Refused(q) ==
  /\ request[q].pc \in Checks
  /\ Blacklisted(request[q].token)
  /\ Answer(q)
  /\ UNCHANGED <<now, pairs, issuedAt, keyUntil, revoked>>

Passes(q, pc) == request[q].pc = pc /\ ~Blacklisted(request[q].token)

AcceptUse(q) ==
  /\ Passes(q, "use")
  /\ Accept(q)
  /\ UNCHANGED <<now, pairs, issuedAt, keyUntil, revoked>>

\* Mutant of AcceptRefresh: the blacklist is not asked.
AcceptRefreshUnchecked(q) ==
  /\ request[q].pc = "refresh"
  /\ Issue
  /\ Accept(q)
  /\ UNCHANGED <<now, keyUntil, revoked>>

\* The new pair is made in the same step; the old refresh token stays good.
AcceptRefresh(q) ==
  /\ Passes(q, "refresh")
  /\ Issue
  /\ Accept(q)
  /\ UNCHANGED <<now, keyUntil, revoked>>

AcceptLogout(q) ==
  /\ Passes(q, "logout")
  /\ Goto(q, "setAccess")
  /\ UNCHANGED <<now, pairs, issuedAt, keyUntil, revoked>>

\* Not in the second the token was issued in, nor within MaxWait of it.
InGoodTime(token) == now - issuedAt[token[2]] >= Sub + MaxWait

\* Mutant of Blacklist: milliseconds for seconds.
BlacklistTooLong(token, seconds) ==
  /\ keyUntil' = [keyUntil EXCEPT ![token] = now + 1000 * seconds * Sub]
  /\ revoked' = IF InGoodTime(token) THEN revoked \union {token} ELSE revoked

\* SETEX blacklist:{jti}
Blacklist(token, seconds) ==
  /\ keyUntil' = [keyUntil EXCEPT ![token] = now + seconds * Sub]
  /\ revoked' = IF InGoodTime(token) THEN revoked \union {token} ELSE revoked

\* The token of the body is decoded once the access token is blacklisted; an
\* invalid one is left alone.
SetAccess(q) ==
  /\ request[q].pc = "setAccess"
  /\ Blacklist(request[q].token, AccessLife)
  /\ LET other == request[q].other IN
     request' = [request EXCEPT ![q] =
       IF Valid(other) THEN [Idle EXCEPT !.pc = "setRefresh", !.other = other] ELSE Idle]
  /\ UNCHANGED <<now, pairs, issuedAt>>

SetRefresh(q) ==
  /\ request[q].pc = "setRefresh"
  /\ Blacklist(request[q].other, RefreshLife)
  /\ Answer(q)
  /\ UNCHANGED <<now, pairs, issuedAt>>

Waiting(q) == request[q].pc \notin Answered

\* Redis fails: no answer, and what has been done stays done.
Fails(q) ==
  /\ Waiting(q)
  /\ Answer(q)
  /\ UNCHANGED <<now, pairs, issuedAt, keyUntil, revoked>>

-----------------------------------------------------------------------------
Tick ==
  /\ now < MaxTime
  /\ \A q \in Requests : Waiting(q) => request[q].waited < MaxWait
  /\ now' = now + 1
  /\ request' = [q \in Requests |->
       IF Waiting(q) THEN [request[q] EXCEPT !.waited = @ + 1] ELSE request[q]]
  /\ keyUntil' = [token \in Tokens |-> IF keyUntil[token] = now + 1 THEN 0 ELSE keyUntil[token]]
  /\ UNCHANGED <<pairs, issuedAt, revoked>>

Init ==
  /\ now = 0
  /\ pairs = 0
  /\ issuedAt = [k \in Pairs |-> 0]
  /\ keyUntil = [token \in Tokens |-> 0]
  /\ revoked = {}
  /\ request = [q \in Requests |-> Idle]

Next ==
  \/ Tick
  \/ Login
  \/ \E q \in Requests :
       \/ \E k \in Pairs : BeginUse(q, k) \/ BeginRefresh(q, k)
       \/ \E k \in Pairs, other \in Tokens : BeginLogout(q, k, other)
       \/ Refused(q) \/ AcceptUse(q) \/ AcceptRefresh(q) \/ AcceptLogout(q)
       \/ SetAccess(q) \/ SetRefresh(q) \/ Fails(q)

Spec == Init /\ [][Next]_vars

-----------------------------------------------------------------------------
\* Every variable holds a value of its type.
TypeOK ==
  /\ now \in 0 .. MaxTime
  /\ pairs \in 0 .. MaxPairs
  /\ issuedAt \in [Pairs -> 0 .. MaxTime]
  /\ keyUntil \in [Tokens -> 0 .. MaxTime + RefreshLife * Sub]
  /\ revoked \subseteq Tokens
  /\ request \in [Requests -> [pc : Checks \union Answered \union {"setAccess", "setRefresh"},
                               token : Tokens, other : Tokens, waited : 0 .. MaxWait]]

\* A token that was logged out is not accepted again, by any endpoint, unless
\* it was logged out in the same second it was issued in (or in the time a
\* request may wait after that): the key then lapses a moment before the token
\* does.  Nothing in between, a repeated logout, another user's logout with the
\* same refresh token, a slow request, opens a wider gap.
RevokedTokenRejected ==
  [][\A q \in Requests :
       request[q].pc \in Checks /\ request'[q].pc \in {"accepted", "setAccess"} =>
         request[q].token \notin revoked]_vars

=============================================================================
