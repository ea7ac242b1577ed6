---------------------------- MODULE MCRateLimiter ----------------------------
(* A client that only reads, over time, and one that changes an assignment *)
(* while Redis fails, with the limiter failing open and failing closed.    *)
EXTENDS RateLimiter

CONSTANTS r1, r2

MCSetups == {
  [kinds |-> {"read"}, failOpen |-> FALSE, skew |-> 1, until |-> 4, entries |-> 3],
  [kinds |-> {"read"}, failOpen |-> TRUE, skew |-> 0, until |-> 4, entries |-> 3],
  [kinds |-> {"assign", "revoke"}, failOpen |-> TRUE, skew |-> 0, until |-> 0, entries |-> 3],
  [kinds |-> {"assign", "revoke"}, failOpen |-> FALSE, skew |-> 0, until |-> 0, entries |-> 3]}
=============================================================================
