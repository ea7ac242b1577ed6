------------------------------ MODULE Accounts ------------------------------
(***************************************************************************)
(* Registration and Google sign-in (app/modules/auth/router.py) over the   *)
(* tables users, roles and user_role_assignments.  Both look for an        *)
(* account with SELECTs and then write; every request is a READ COMMITTED  *)
(* transaction, so what they looked up may be gone when they write, and    *)
(* the unique constraints of users/model.py and rbac/model.py decide.      *)
(* Beside them an operator may run scripts/seed.py, which creates the role *)
(* "resident" and gives it to the accounts there are.                      *)
(***************************************************************************)
EXTENDS Naturals, Sequences

CONSTANTS
  Handlers,    \* concurrent requests
  GoogleIds,   \* subjects of Google's answers
  NoGoogle,    \* oauth_provider_id IS NULL
  BlankId,     \* the empty id, of an answer that names nobody
  Emails,
  NoEmail,     \* the empty e-mail of such an answer
  EmailOwner,  \* the one Google id that Google reports with an e-mail
  LocalPart,   \* the part of an e-mail before the @
  Crowds       \* who may come together, and whether the seed script is run: a bound

\* A user name is a base and a suffix; suffix 0 stands for none.
Names == {LocalPart[e] : e \in Emails} \X Nat

ASSUME AccountsAssumption ==
  /\ NoGoogle \notin GoogleIds
  /\ BlankId # NoGoogle
  /\ Emails \ {NoEmail} # {}
  /\ EmailOwner \in [Emails -> GoogleIds]
  /\ \A e \in Emails : EmailOwner[e] = BlankId => e = NoEmail
  /\ Crowds \subseteq [emails : SUBSET Emails, names : SUBSET Names, seeds : BOOLEAN]

VARIABLES
  users,      \* the committed rows in order of commit; the index is the id
  seeded,     \* whether the role "resident" exists
  residents,  \* the ids that hold it
  seed,       \* the run of the seed script
  signedIn,   \* history: the ids that sign-ins of each Google id returned
  requests,   \* the requests in progress
  crowd       \* whose requests they are, and the names they choose; never changes

roles == <<seeded, residents, seed>>
moving == <<users, seeded, residents, seed, signedIn, requests>>
vars == <<moving, crowd>>

AnEmail == CHOOSE e \in Emails : TRUE

\* user: the account to link, 0 for a new one; role: what the look-up of the
\* role and the assignment found; overtaken, late: histories, of a commit since
\* the request began, and of the creation of the role since then.
Done == [pc |-> "idle", google |-> NoGoogle, email |-> AnEmail,
         name |-> <<LocalPart[AnEmail], 0>>, user |-> 0, role |-> "none",
         overtaken |-> FALSE, late |-> FALSE]

NoRun == [pc |-> "idle", read |-> {}, missing |-> {}]

Row(r) == [email |-> r.email, name |-> r.name, google |-> r.google]

Goto(h, pc) == [requests EXCEPT ![h].pc = pc]

\* A commit overtakes the requests in progress.
Overtaken(r, late) ==
  IF r.pc = "idle" THEN r ELSE [r EXCEPT !.overtaken = TRUE, !.late = @ \/ late]
Overtake(h) ==
  [k \in Handlers |-> IF k = h THEN Done ELSE Overtaken(requests[k], FALSE)]

EmailTaken(e) == \E id \in DOMAIN users : users[id].email = e
NameTaken(n) == \E id \in DOMAIN users : users[id].name = n

\* The answer is the account id, for the Google id that asked.
SignIn(h, id) ==
  signedIn' = [signedIn EXCEPT ![requests[h].google] = @ \union {id}]

-----------------------------------------------------------------------------
\* register: a new account for an e-mail and a user name.
Register(h, e, n) ==
  /\ requests[h].pc = "idle" /\ e # NoEmail
  /\ requests' = [requests EXCEPT ![h] =
       [Done EXCEPT !.pc = "email", !.email = e, !.name = n]]
  /\ UNCHANGED <<users, roles, signedIn>>

\* A duplicate is answered 409 and the request is over.
CheckEmail(h) ==
  /\ requests[h].pc = "email"
  /\ requests' = IF EmailTaken(requests[h].email)
                 THEN [requests EXCEPT ![h] = Done] ELSE Goto(h, "name")
  /\ UNCHANGED <<users, roles, signedIn>>

CheckName(h) ==
  /\ requests[h].pc = "name"
  /\ requests' = IF NameTaken(requests[h].name)
                 THEN [requests EXCEPT ![h] = Done] ELSE Goto(h, "insert")
  /\ UNCHANGED <<users, roles, signedIn>>

\* google_oauth_callback, google_login_with_id_token: Google vouches for g and e.
\* The callback does not look at the status of the answer: one that reports an
\* error has neither id nor e-mail, and both are read as the empty string.
GoogleSignIn(h, g, e) ==
  /\ requests[h].pc = "idle" /\ EmailOwner[e] = g
  /\ requests' = [requests EXCEPT ![h] =
       [Done EXCEPT !.pc = "byId", !.google = g, !.email = e]]
  /\ UNCHANGED <<users, roles, signedIn>>

\* An empty id is not looked for.
FindById(h) ==
  LET g == requests[h].google IN
  /\ requests[h].pc = "byId"
  /\ \/ \E id \in DOMAIN users :
          /\ users[id].google = g /\ g # BlankId
          /\ SignIn(h, id) /\ requests' = [requests EXCEPT ![h] = Done]
     \/ /\ g = BlankId \/ \A id \in DOMAIN users : users[id].google # g
        /\ requests' = Goto(h, "byEmail")
        /\ UNCHANGED signedIn
  /\ UNCHANGED <<users, roles>>

\* An account of the e-mail is returned as it is, or is to be linked, again if its
\* Google id is the empty one; without one, a search for a user name starts from
\* the e-mail's local part.
FindByEmail(h) ==
  LET r == requests[h] IN
  /\ r.pc = "byEmail"
  /\ \/ \E id \in DOMAIN users :
          /\ users[id].email = r.email /\ users[id].google \notin {NoGoogle, BlankId}
          /\ SignIn(h, id) /\ requests' = [requests EXCEPT ![h] = Done]
     \/ \E id \in DOMAIN users :
          /\ users[id].email = r.email /\ users[id].google \in {NoGoogle, BlankId}
          /\ requests' = [requests EXCEPT ![h].pc = "role", ![h].user = id]
          /\ UNCHANGED signedIn
     \/ /\ ~EmailTaken(r.email)
        /\ requests' = [requests EXCEPT ![h].pc = "pick", ![h].name = <<LocalPart[r.email], 0>>]
        /\ UNCHANGED signedIn
  /\ UNCHANGED <<users, roles>>

\* _ensure_dynamic_role_assignment returns without the role if there is none;
\* a new account has no assignment yet.
ReadRole(h) ==
  LET r == requests[h] IN
  /\ r.pc \in {"role", "grant"}
  /\ requests' = [requests EXCEPT
       ![h].pc = IF r.pc = "role" THEN "link" ELSE "commit",
       ![h].role = IF ~seeded THEN "none"
                  ELSE IF r.pc = "role" /\ r.user \in residents THEN "held" ELSE "missing"]
  /\ UNCHANGED <<users, roles, signedIn>>

\* Mutant of Pick: the base name is taken without a look.
PickBase(h) ==
  /\ requests[h].pc = "pick"
  /\ requests' = Goto(h, "insert")
  /\ UNCHANGED <<users, roles, signedIn>>

\* Mutant of Pick: the suffix does not grow.
PickStuck(h) ==
  LET n == requests[h].name IN
  /\ requests[h].pc = "pick"
  /\ requests' = IF NameTaken(n) THEN [requests EXCEPT ![h].name = <<n[1], 1>>]
                 ELSE Goto(h, "insert")
  /\ UNCHANGED <<users, roles, signedIn>>

\* The loop over user names: one SELECT a turn, and the next suffix if taken.
Pick(h) ==
  LET n == requests[h].name IN
  /\ requests[h].pc = "pick"
  /\ requests' = IF NameTaken(n) THEN [requests EXCEPT ![h].name = <<n[1], n[2] + 1>>]
                 ELSE Goto(h, "insert")
  /\ UNCHANGED <<users, roles, signedIn>>

\* Mutant of SameGoogle: oauth_provider_id is not unique.
GoogleMayRepeat(r, s) == FALSE

SameGoogle(r, s) == r.google = s.google /\ r.google # NoGoogle

\* Mutant of Clash: users.email is not unique.
EmailMayRepeat(r, s) == r.name = s.name \/ SameGoogle(r, s)

Clash(r, s) == r.email = s.email \/ r.name = s.name \/ SameGoogle(r, s)

\* A new row is flushed before its role is looked up, and committed after that.
Holds(r) == r.pc \in {"grant", "commit"}

\* A write waits for the open transaction that holds the same key.
InsertWaits(h) ==
  \E k \in Handlers \ {h} : Holds(requests[k]) /\ Clash(requests[h], requests[k])
LinkWaits(h) ==
  \E k \in Handlers \ {h} : Holds(requests[k]) /\ SameGoogle(requests[h], requests[k])

InsertFits(h) == \A id \in DOMAIN users : ~Clash(Row(requests[h]), users[id])
\* The row is updated by its id; an assignment read as missing is inserted.
LinkFits(h) ==
  LET r == requests[h] IN
  /\ \A id \in DOMAIN users \ {r.user} : ~SameGoogle(r, users[id])
  /\ r.role = "missing" => r.user \notin residents

\* The assignment that goes with a write, if the role was found without it.
Given(h, id) == IF requests[h].role = "missing" THEN {id} ELSE {}

\* The commit of a linked account: user and assignment are flushed together.
Link(h) ==
  LET r == requests[h] IN
  /\ r.pc = "link" /\ ~LinkWaits(h)
  /\ \/ /\ LinkFits(h)
        /\ users' = [users EXCEPT ![r.user].google = r.google]
        /\ residents' = residents \union Given(h, r.user)
        /\ SignIn(h, r.user)
        /\ UNCHANGED <<seeded, seed>>
        /\ requests' = Overtake(h)
     \/ /\ ~LinkFits(h)
        /\ requests' = Goto(h, "conflict")
        /\ UNCHANGED <<users, roles, signedIn>>

\* Mutant of Insert: the assignment is committed with the flush.
AssignFirst(h) ==
  /\ requests[h].pc = "insert" /\ ~InsertWaits(h)
  /\ requests' = Goto(h, IF InsertFits(h) THEN "grant" ELSE "conflict")
  /\ residents' = residents \union {Len(users) + 1}
  /\ UNCHANGED <<users, seeded, seed, signedIn>>

\* _ensure_dynamic_role_assignment, for a new account: the flush inserts the row.
Insert(h) ==
  /\ requests[h].pc = "insert" /\ ~InsertWaits(h)
  /\ requests' = Goto(h, IF InsertFits(h) THEN "grant" ELSE "conflict")
  /\ UNCHANGED <<users, roles, signedIn>>

\* Mutant of Commit: the account is committed, its assignment is not.
CommitUserOnly(h) ==
  LET id == Len(users) + 1 IN
  /\ requests[h].pc = "commit"
  /\ users' = Append(users, Row(requests[h]))
  /\ IF requests[h].google = NoGoogle THEN UNCHANGED signedIn ELSE SignIn(h, id)
  /\ requests' = Overtake(h)
  /\ UNCHANGED roles

\* The account and its assignment, if the role was found, become visible together.
Commit(h) ==
  LET id == Len(users) + 1 IN
  /\ requests[h].pc = "commit"
  /\ users' = Append(users, Row(requests[h]))
  /\ residents' = residents \union Given(h, id)
  /\ IF requests[h].google = NoGoogle THEN UNCHANGED signedIn ELSE SignIn(h, id)
  /\ requests' = Overtake(h)
  /\ UNCHANGED <<seeded, seed>>

\* An IntegrityError: get_db rolls back, the client gets a 500.
Rollback(h) ==
  /\ requests[h].pc = "conflict"
  /\ requests' = [requests EXCEPT ![h] = Done]
  /\ UNCHANGED <<users, roles, signedIn>>

\* The database fails under a request, or the client leaves: get_db rolls back.
Fail(h) ==
  /\ requests[h].pc # "idle"
  /\ requests' = [requests EXCEPT ![h] = Done]
  /\ UNCHANGED <<users, roles, signedIn>>

-----------------------------------------------------------------------------
(* scripts/seed.py, one transaction: it creates the role, reads the accounts, *)
(* then the assignment of each, and inserts the missing ones with its commit. *)

SeedReads ==
  /\ seed.pc = "idle" /\ crowd.seeds
  /\ seed' = [NoRun EXCEPT !.pc = "look", !.read = DOMAIN users]
  /\ UNCHANGED <<users, seeded, residents, signedIn, requests>>

SeedLooks ==
  /\ seed.pc = "look"
  /\ seed' = [seed EXCEPT !.pc = "commit", !.missing = seed.read \ residents]
  /\ UNCHANGED <<users, seeded, residents, signedIn, requests>>

SeedCommits ==
  /\ seed.pc = "commit" /\ seed.missing \cap residents = {}
  /\ seeded' = TRUE
  /\ residents' = residents \union seed.missing
  /\ seed' = NoRun
  /\ requests' = [h \in Handlers |-> Overtaken(requests[h], ~seeded)]
  /\ UNCHANGED <<users, signedIn>>

\* An assignment is there already, or the script fails otherwise.
SeedFails ==
  /\ seed.pc # "idle"
  /\ seed' = NoRun
  /\ UNCHANGED <<users, seeded, residents, signedIn, requests>>

Seed == SeedReads \/ SeedLooks \/ SeedCommits \/ SeedFails

-----------------------------------------------------------------------------
\* There may be an account, and the script may have been run, before or after
\* it came.
Init ==
  /\ users \in {<<>>} \union
       {<<[email |-> e, name |-> <<LocalPart[e], 0>>, google |-> NoGoogle]>> : e \in Emails \ {NoEmail}}
  /\ seeded \in BOOLEAN
  /\ residents \in SUBSET DOMAIN users /\ (~seeded => residents = {})
  /\ seed = NoRun
  /\ signedIn = [g \in GoogleIds |-> {}]
  /\ requests = [h \in Handlers |-> Done]
  /\ crowd \in Crowds

Step(h) ==
  \/ CheckEmail(h) \/ CheckName(h)
  \/ FindById(h) \/ FindByEmail(h) \/ ReadRole(h) \/ Pick(h)
  \/ Link(h) \/ Insert(h) \/ Commit(h) \/ Rollback(h)

Arrive(h) ==
  \/ \E e \in crowd.emails, n \in crowd.names : Register(h, e, n)
  \/ \E g \in GoogleIds, e \in crowd.emails : GoogleSignIn(h, g, e)

Next ==
  /\ (\E h \in Handlers : Step(h) \/ Arrive(h) \/ Fail(h)) \/ Seed
  /\ UNCHANGED crowd

Spec == Init /\ [][Next]_vars

\* The event loop and PostgreSQL serve every request that is in progress, and
\* PostgreSQL wakes a waiting write whenever the transaction it waits for ends.
\* Nobody has to run the seed script.
FairSpec == Spec /\ \A h \in Handlers : WF_moving(Step(h)) /\ SF_moving(Insert(h) \/ Link(h))

-----------------------------------------------------------------------------
UserRow == [email : Emails, name : Names, google : GoogleIds \union {NoGoogle}]

Places == {"idle", "email", "name", "byId", "byEmail", "role", "pick", "link",
           "insert", "grant", "commit", "conflict"}

RequestRecord == [pc : Places, google : GoogleIds \union {NoGoogle}, email : Emails,
                  name : Names, user : Nat, role : {"none", "held", "missing"},
                  overtaken : BOOLEAN, late : BOOLEAN]

SeedRun == [pc : {"idle", "look", "commit"}, read : SUBSET DOMAIN users,
            missing : SUBSET DOMAIN users]

\* Every value has its type; an assignment and an answer name an existing account.
TypeOK ==
  /\ users \in Seq(UserRow)
  /\ seeded \in BOOLEAN /\ residents \subseteq DOMAIN users /\ seed \in SeedRun
  /\ signedIn \in [GoogleIds -> SUBSET DOMAIN users]
  /\ requests \in [Handlers -> RequestRecord] /\ crowd \in Crowds

\* A person has one account: all sign-ins of a Google id, with any of its
\* e-mails and however they overlap with each other and with registrations,
\* return the same account, which stays linked to this Google id and has an
\* e-mail of this person (_find_or_create_google_user).
SameAccount ==
  \A g \in GoogleIds : \A id \in signedIn[g] :
    /\ \A other \in signedIn[g] : other = id
    /\ users[id].google = g
    /\ EmailOwner[users[id].email] = g

\* A request ends in an IntegrityError only if another one, or the seed script,
\* committed since it began: its own look-ups cover every unique constraint it may
\* meet (register, _find_or_create_google_user).
ConflictOnlyWhenOvertaken ==
  \A h \in Handlers : requests[h].pc = "conflict" => requests[h].overtaken

\* No account is left without the role "resident" but in the one known gap.
\* Whoever is created or linked holds it from that commit on, unless there is no
\* such role yet, or it came after the request had begun
\* (_ensure_dynamic_role_assignment returns when it finds no role); and when it
\* comes, every account that the seed script had read by then gets it.
RoleWithAccount ==
  [][/\ \A id \in DOMAIN users' : id \notin DOMAIN users \/ users'[id] # users[id] =>
          \/ ~seeded \/ id \in residents'
          \/ \E h \in Handlers :
               requests[h].pc # "idle" /\ requests'[h].pc = "idle" /\ requests[h].late
     /\ ~seeded /\ seeded' => seed.read \subseteq residents']_vars

\* The requests, in all their interleavings and with all their failures, act on
\* the tables as if each were one step: nothing a SELECT has found is written
\* back when it is no longer so, and a failure leaves nothing behind.
Book == INSTANCE AccountBook WITH accounts <- users, answers <- signedIn
ActsAtOnce == Book!Spec

\* Every request ends: the search for a user name stops although others take
\* names, and no two inserts or links wait for each other.
EveryRequestEnds ==
  \A h \in Handlers : requests[h].pc # "idle" ~> requests[h].pc = "idle"
=============================================================================
