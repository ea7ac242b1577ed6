----------------------------- MODULE MCAccounts -----------------------------
(* Registration and Google sign-in, small: a person with two e-mails that     *)
(* share a local part; one who registers while the seed script is run; and an *)
(* answer of Google that names nobody beside them.                            *)
EXTENDS Accounts

CONSTANTS ana1, ana2, gAna, base, nothing

MCEmailOwner == [e \in Emails |-> IF e = NoEmail THEN BlankId ELSE gAna]
MCLocalPart == [e \in Emails |-> IF e = NoEmail THEN nothing ELSE base]
MCCrowds == {
  [emails |-> {ana1, ana2}, names |-> {<<base, 0>>, <<base, 1>>}, seeds |-> FALSE],
  [emails |-> {ana1}, names |-> {<<base, 1>>}, seeds |-> TRUE],
  [emails |-> {ana1, NoEmail}, names |-> {<<base, 0>>}, seeds |-> FALSE]}
=============================================================================
