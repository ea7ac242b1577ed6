----------------------------- MODULE NumberBook -----------------------------
(***************************************************************************)
(* What the numbering of reports, complaints and certificates promises:    *)
(* each series is numbered 1, 2, 3, ... within a year, in the order in     *)
(* which the cases are recorded, without a gap and without a duplicate.    *)
(***************************************************************************)
EXTENDS Naturals, Sequences

CONSTANTS Series, Years

VARIABLE issued   \* the numbers of each series and year, in order of commit

Init == issued = [s \in Series |-> [y \in Years |-> << >>]]

Issue(s, y) == issued' = [issued EXCEPT ![s][y] = Append(@, Len(@) + 1)]

Next == \E s \in Series, y \in Years : Issue(s, y)

Spec == Init /\ [][Next]_issued
=============================================================================
