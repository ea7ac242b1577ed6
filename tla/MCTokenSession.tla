--------------------------- MODULE MCTokenSession ---------------------------
(* Two pairs of tokens and two requests; ticks of a second, lives of one and *)
(* two seconds.                                                              *)
EXTENDS TokenSession, TLC

CONSTANTS q1, q2

MCSymmetry == Permutations({q1, q2})
=============================================================================
