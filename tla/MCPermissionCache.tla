------------------------- MODULE MCPermissionCache -------------------------
(* The smallest instance: one barangay_admin with the seeded role r1, which  *)
(* has the one permission p1.                                                *)
EXTENDS PermissionCache, TLC

CONSTANTS rosa, r1, p1, c1

MCTokenRole == rosa :> "barangay_admin"
MCCodeOf == p1 :> c1
MCSeedGrants == {<<r1, p1>>}
MCSeedAssignments == {<<rosa, r1>>}
=============================================================================
