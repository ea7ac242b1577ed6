------------------------- MODULE MCPermissionTiming -------------------------
(* One resident, one role and two permissions, one of them seeded; two of    *)
(* her requests at a time.                                                   *)
EXTENDS PermissionTiming, TLC

CONSTANTS alice, r1, p1, p2, c1, c2, l1, l2

MCCodeOf == (p1 :> c1) @@ (p2 :> c2)
MCTokenRole == alice :> "resident"
MCSeedGrants == {<<r1, p1>>}
MCSeedAssignments == {<<alice, r1>>}
MCSymmetry == Permutations({l1, l2})
=============================================================================
