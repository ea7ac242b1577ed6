----------------------------- MODULE AccountBook -----------------------------
(***************************************************************************)
(* What registration and Google sign-in promise: as if each request were   *)
(* one step, an account is opened with an e-mail, a user name and a Google *)
(* id that no account has; or the account of one's e-mail is linked, once  *)
(* and for ever, to one's Google id; or one's own account is returned.     *)
(***************************************************************************)
EXTENDS Naturals, Sequences, SequencesExt

CONSTANTS Emails, Names, GoogleIds, NoGoogle, EmailOwner

VARIABLES
  accounts,  \* in the order in which they were opened
  answers    \* the ids that were returned to each Google id

vars == <<accounts, answers>>

Account == [email : Emails, name : Names, google : GoogleIds \union {NoGoogle}]

Alike(a, b) ==
  a.email = b.email \/ a.name = b.name \/ (a.google = b.google /\ a.google # NoGoogle)

Answer(g, id) == answers' = [answers EXCEPT ![g] = @ \union {id}]

Open(a) ==
  /\ a \in Account /\ a.google \in {NoGoogle, EmailOwner[a.email]}
  /\ \A i \in DOMAIN accounts : ~Alike(a, accounts[i])
  /\ accounts' = Append(accounts, a)
  /\ IF a.google = NoGoogle THEN UNCHANGED answers ELSE Answer(a.google, Len(accounts) + 1)

Link(g, id) ==
  /\ accounts[id].google = NoGoogle /\ EmailOwner[accounts[id].email] = g
  /\ \A i \in DOMAIN accounts : accounts[i].google # g
  /\ accounts' = [accounts EXCEPT ![id].google = g]
  /\ Answer(g, id)

Return(g, id) ==
  /\ accounts[id].google = g
  /\ Answer(g, id)
  /\ UNCHANGED accounts

\* The accounts there are.
Init ==
  /\ accounts \in Seq(Account)
  /\ \A i, j \in DOMAIN accounts : Alike(accounts[i], accounts[j]) => i = j
  /\ \A i \in DOMAIN accounts : accounts[i].google = NoGoogle
  /\ answers = [g \in GoogleIds |-> {}]

Next ==
  \/ accounts' # << >> /\ Open(Last(accounts'))
  \/ \E g \in GoogleIds, id \in DOMAIN accounts : Link(g, id) \/ Return(g, id)

Spec == Init /\ [][Next]_vars
=============================================================================
