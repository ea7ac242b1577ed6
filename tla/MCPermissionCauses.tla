------------------------- MODULE MCPermissionCauses -------------------------
(* Two overlapping handlers and a request: one user, whose two roles may     *)
(* share a permission; the second role is created on the way.                *)
EXTENDS PermissionCauses, TLC

CONSTANTS sam, r1, p1, c1, a1, a2

MCCodeOf == p1 :> c1
MCTokenRole == sam :> "staff"
MCSeedGrants == {<<r1, p1>>}
MCSeedAssignments == {<<sam, r1>>}
MCSymmetry == Permutations({a1, a2})
=============================================================================
