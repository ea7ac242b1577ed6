--------------------------- MODULE MCCaseNumbers ----------------------------
(* One register, one certificate type, three handlers, two years. *)
EXTENDS CaseNumbers

CONSTANTS blotter, clearance, f1, f2, f3
=============================================================================
