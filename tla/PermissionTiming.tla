--------------------------- MODULE PermissionTiming ---------------------------
(***************************************************************************)
(* How old may a permission decision be?  Two history variables are added  *)
(* to PermissionCache: for each user and code the number of ticks since    *)
(* the tables last gave the user that code (held) and since they last did  *)
(* not (lacked), and for each request the ticks since its cache miss.      *)
(* They record, and constrain nothing but the time a fill may take.        *)
(***************************************************************************)
EXTENDS PermissionCache

CONSTANT MaxLoad   \* ticks a fill may take from its SMEMBERS to its EXPIRE

ASSUME MaxLoadAssumption == MaxLoad \in Nat

VARIABLES held, lacked, age

timedVars == <<vars, held, lacked, age>>

\* A fill that starts just before an entry is written may write to that entry
\* up to MaxLoad later, with codes that were up to MaxLoad old.
StaleBound == TTL + 2 * MaxLoad

Older(n) == IF n < StaleBound THEN n + 1 ELSE n   \* counted up to the bound

Same(n) == n

IsFilling(l) == loader[l].pc \in Filling

\* Codes a user has now are 0 ticks old, the others as old as Grow makes them.
Record(Grow(_)) ==
  /\ held' = [u \in Users |-> [c \in Codes |->
       IF c \in Granted(u)' THEN 0 ELSE Grow(held[u][c])]]
  /\ lacked' = [u \in Users |-> [c \in Codes |->
       IF c \notin Granted(u)' THEN 0 ELSE Grow(lacked[u][c])]]

TimedInit ==
  /\ Init
  /\ held = [u \in Users |-> [c \in Codes |-> IF c \in Granted(u) THEN 0 ELSE StaleBound]]
  /\ lacked = [u \in Users |-> [c \in Codes |-> IF c \notin Granted(u) THEN 0 ELSE StaleBound]]
  /\ age = [l \in Loaders |-> 0]

TimedWork ==
  /\ Work
  /\ Record(Same)
  /\ age' = [l \in Loaders |-> IF IsFilling(l) /\ IsFilling(l)' THEN age[l] ELSE 0]

TimedTick ==
  /\ \A l \in Loaders : IsFilling(l) => age[l] < MaxLoad
  /\ Tick
  /\ Record(Older)
  /\ age' = [l \in Loaders |-> IF IsFilling(l) THEN age[l] + 1 ELSE 0]

TimedNext == TimedWork \/ TimedTick

TimedSpec == TimedInit /\ [][TimedNext]_timedVars

-----------------------------------------------------------------------------
\* Whatever a cached set says of a user was true at most StaleBound ticks ago:
\* a code it contains was granted, a code it leaves out was not.  It is the
\* promise of the 300 s cache once the fills in flight are counted, and has to
\* survive fills that add to each other's key and reset each other's TTL
\* (_load_user_permission_codes, SADD and EXPIRE).
CacheStaleness ==
  \A u \in Users, c \in Codes :
    /\ c \in cache[u] => held[u][c] < StaleBound
    /\ cache[u] # {} /\ c \notin cache[u] => lacked[u][c] < StaleBound

Answers(l, verdict) == loader[l].pc # verdict /\ loader'[l].pc = verdict

\* require_permissions lets a request pass on a permission only if the user had
\* it less than StaleBound ticks ago, and refuses it only if the user was
\* without it less than StaleBound ticks ago.
DecisionsAreRecent ==
  [][\A l \in Loaders :
       LET u == loader'[l].user
           c == loader'[l].need IN
       /\ Answers(l, "allowed") => held[u][c] < StaleBound
       /\ Answers(l, "denied") => lacked[u][c] < StaleBound]_timedVars

=============================================================================
