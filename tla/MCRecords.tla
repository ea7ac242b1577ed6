------------------------------ MODULE MCRecords ------------------------------
EXTENDS Records, TLC

CONSTANTS r1, r2, status, remarks, x, y

\* The operations of announcements, and so of cases and permits, which are never
\* deleted; profiles and alerts; announcements read page by page; the log rows; and
\* emergency reports.
MCMixes == {
  [operations |-> {"patch", "delete"}, stock |-> r1 :> 0],
  [operations |-> {"createKeyed"}, stock |-> << >>],
  [operations |-> {"create", "delete", "list"}, stock |-> r1 :> 0 @@ r2 :> 2],
  [operations |-> {"create", "list", "cleanup"}, stock |-> r1 :> 0 @@ r2 :> 1],
  [operations |-> {"create", "listUnordered"}, stock |-> r1 :> 0 @@ r2 :> 1]}

Body(s, r) == status :> s @@ remarks :> r

\* Both columns, one, or none, and one that is refused; the row may hold a value
\* already.
MCBodies == {Body(y, x), Body(x, y), Body(Unset, y), Body(Refused, y), Body(Unset, Unset)}
=============================================================================
