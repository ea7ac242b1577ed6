--------------------------- MODULE AccountsProofs ---------------------------
(***************************************************************************)
(* Proofs about registration and Google sign-in, for any number of         *)
(* requests, e-mails and Google ids.                                       *)
(***************************************************************************)
EXTENDS Accounts, TLAPS

(* A committed account is linked to the owner of its e-mail or to nobody, and *)
(* no two have the same e-mail, user name or Google id.                       *)
RowsOwned ==
  \A id \in DOMAIN users :
    users[id].google = NoGoogle \/ users[id].google = EmailOwner[users[id].email]
RowsDistinct ==
  \A i, j \in DOMAIN users : Clash(users[i], users[j]) => i = j

\* What a sign-in returned is linked to the Google id that asked.
SignedInLinked ==
  \A g \in GoogleIds : \A id \in signedIn[g] : users[id].google = g

\* The script has an assignment, or the lack of it, for all that it has read.
SeedSound == seed.pc = "commit" => seed.read \subseteq residents \union seed.missing

(* A request acts for the owner of its e-mail, knows the account it links, its *)
(* row repeats nothing while it waits for the commit, and what it found about  *)
(* the role is true but for a role that came since.                            *)
RequestSound(r) ==
  /\ r.google = NoGoogle \/ r.google = EmailOwner[r.email]
  /\ r.pc \in {"byId", "byEmail", "role", "link"} => r.google # NoGoogle
  /\ r.pc \in {"role", "link"} => r.user \in DOMAIN users /\ users[r.user].email = r.email
  /\ Holds(r) => \A id \in DOMAIN users : ~Clash(r, users[id])
  /\ r.pc = "commit" => r.role # "held"
  /\ r.pc = "link" /\ r.role = "held" => r.user \in residents
  /\ r.pc \in {"link", "commit"} /\ r.role = "none" => ~seeded \/ r.late
HeldApart ==
  \A h \in Handlers : \A k \in Handlers \ {h} :
    Holds(requests[h]) /\ Holds(requests[k]) => ~Clash(requests[h], requests[k])

AccountInv ==
  /\ TypeOK
  /\ RowsOwned /\ RowsDistinct /\ SignedInLinked /\ SeedSound
  /\ \A h \in Handlers : RequestSound(requests[h])
  /\ HeldApart

\* The record of a handler without a request.
LEMMA DoneTyped ==
  /\ Done \in RequestRecord /\ Done.pc = "idle" /\ Done.google = NoGoogle
  /\ RequestSound(Done)
<1>1. AnEmail \in Emails
  BY AccountsAssumption DEF AnEmail
<1>2. <<LocalPart[AnEmail], 0>> \in Names
  BY <1>1 DEF Names
<1> QED
  BY <1>1, <1>2 DEF Done, RequestRecord, Places, RequestSound, Holds

\* The first state.
LEMMA InitInv == Init => AccountInv
<1> SUFFICES ASSUME Init PROVE AccountInv
  OBVIOUS
<1> DEFINE Seeded == /\ users \in Seq(UserRow)
                     /\ \A id \in DOMAIN users : id = 1 /\ users[id].google = NoGoogle
<1>1. Seeded
  <2>1. CASE users = <<>>
    BY <2>1
  <2>2. ASSUME NEW e \in Emails \ {NoEmail},
               users = <<[email |-> e, name |-> <<LocalPart[e], 0>>, google |-> NoGoogle]>>
        PROVE  Seeded
    <3>1. [email |-> e, name |-> <<LocalPart[e], 0>>, google |-> NoGoogle] \in UserRow
      BY DEF UserRow, Names
    <3> QED
      BY <2>2, <3>1
  <2> QED
    BY <2>1, <2>2 DEF Init
<1>2. TypeOK
  BY <1>1, DoneTyped DEF Init, TypeOK, SeedRun, NoRun
<1>3. RowsOwned /\ RowsDistinct
  BY <1>1 DEF RowsOwned, RowsDistinct
<1>4. /\ SignedInLinked /\ SeedSound /\ HeldApart
      /\ \A h \in Handlers : RequestSound(requests[h])
  BY DoneTyped DEF Init, SignedInLinked, SeedSound, NoRun, HeldApart, Holds
<1> QED
  BY <1>2, <1>3, <1>4 DEF AccountInv

-----------------------------------------------------------------------------
(* A step that moves one request and writes nothing, but may answer with an *)
(* account that is linked to the Google id that asks.                       *)
LEMMA MoveKeeps ==
  ASSUME AccountInv, NEW h \in Handlers, NEW r \in RequestRecord,
         requests' = [requests EXCEPT ![h] = r], UNCHANGED <<users, roles, crowd>>,
         RequestSound(r),
         Holds(r) => \A k \in Handlers \ {h} :
                       Holds(requests[k]) => ~Clash(r, requests[k]) /\ ~Clash(requests[k], r),
         \/ UNCHANGED signedIn
         \/ \E id \in DOMAIN users : SignIn(h, id)
              /\ (users[id].google = requests[h].google \/ requests[h].google = NoGoogle)
  PROVE  AccountInv'
<1>1. requests \in [Handlers -> RequestRecord] /\ requests' \in [Handlers -> RequestRecord]
  BY DEF AccountInv, TypeOK
<1>2. ASSUME NEW g \in GoogleIds, NEW id \in signedIn'[g]
      PROVE  id \in DOMAIN users /\ users[id].google = g
  <2>1. \A x \in signedIn[g] : x \in DOMAIN users /\ users[x].google = g
    BY DEF AccountInv, TypeOK, SignedInLinked
  <2>2. CASE UNCHANGED signedIn
    BY <1>2, <2>1, <2>2
  <2>3. ASSUME NEW x \in DOMAIN users, SignIn(h, x),
               users[x].google = requests[h].google \/ requests[h].google = NoGoogle
        PROVE  id \in DOMAIN users /\ users[id].google = g
    BY <1>2, <2>1, <2>3, AccountsAssumption DEF SignIn, AccountInv, TypeOK
  <2> QED
    BY <2>2, <2>3
<1>3. signedIn' \in [GoogleIds -> SUBSET DOMAIN users]
  <2>1. signedIn' = [g \in GoogleIds |-> signedIn'[g]]
    BY DEF AccountInv, TypeOK, SignIn
  <2> QED
    BY <1>2, <2>1
<1>4. TypeOK'
  BY <1>1, <1>3 DEF AccountInv, TypeOK, roles, SeedRun
<1>5. (RowsOwned /\ RowsDistinct /\ SeedSound)'
  BY DEF AccountInv, RowsOwned, RowsDistinct, SeedSound, Clash, SameGoogle, roles
<1>6. SignedInLinked'
  BY <1>2 DEF SignedInLinked
<1>7. \A k \in Handlers : RequestSound(requests[k])'
  <2>1. \A k \in Handlers : RequestSound(requests'[k])
    BY <1>1 DEF AccountInv
  <2> QED
    BY <2>1 DEF RequestSound, Holds, Clash, SameGoogle, roles
<1>8. HeldApart'
  BY <1>1 DEF AccountInv, HeldApart, Holds, Clash, SameGoogle
<1> QED
  BY <1>4, <1>5, <1>6, <1>7, <1>8 DEF AccountInv

\* The answers and the writes keep the invariant; every other step moves a request.
LEMMA EndKeeps ==
  ASSUME AccountInv, NEW h \in Handlers, requests' = [requests EXCEPT ![h] = Done],
         UNCHANGED <<users, roles, signedIn, crowd>>
  PROVE  AccountInv'
BY DoneTyped, MoveKeeps DEF Holds

LEMMA GotoKeeps ==
  ASSUME AccountInv, NEW h \in Handlers, NEW pc \in Places \ {"role", "link", "grant", "commit"},
         pc \in {"byId", "byEmail"} => requests[h].google # NoGoogle,
         requests' = Goto(h, pc), UNCHANGED <<users, roles, signedIn, crowd>>
  PROVE  AccountInv'
<1> DEFINE r == [requests[h] EXCEPT !.pc = pc]
<1>1. requests[h] \in RequestRecord /\ RequestSound(requests[h])
  BY DEF AccountInv, TypeOK
<1>2. r \in RequestRecord /\ r.pc = pc /\ r.google = requests[h].google /\ r.email = requests[h].email
  BY <1>1 DEF RequestRecord
<1>3. requests' = [requests EXCEPT ![h] = r]
  BY DEF Goto
<1> HIDE DEF r
<1>4. RequestSound(r)
  BY <1>1, <1>2 DEF RequestSound, Holds
<1> QED
  BY <1>2, <1>3, <1>4, MoveKeeps DEF Holds

LEMMA ArriveKeeps ==
  ASSUME AccountInv, NEW h \in Handlers, Arrive(h), UNCHANGED crowd
  PROVE  AccountInv'
<1>1. ASSUME NEW e \in Emails, NEW n \in Names, Register(h, e, n) PROVE AccountInv'
  <2> DEFINE r == [Done EXCEPT !.pc = "email", !.email = e, !.name = n]
  <2>1. r \in RequestRecord /\ r.pc = "email" /\ r.google = NoGoogle
    BY DoneTyped, AccountsAssumption DEF RequestRecord, Places
  <2>2. requests' = [requests EXCEPT ![h] = r]
    BY <1>1 DEF Register
  <2> HIDE DEF r
  <2>3. RequestSound(r)
    BY <2>1 DEF RequestSound, Holds
  <2> QED
    BY <1>1, <2>1, <2>2, <2>3, MoveKeeps DEF Holds, Register
<1>2. ASSUME NEW g \in GoogleIds, NEW e \in Emails, GoogleSignIn(h, g, e) PROVE AccountInv'
  <2> DEFINE r == [Done EXCEPT !.pc = "byId", !.google = g, !.email = e]
  <2>1. r \in RequestRecord /\ r.pc = "byId" /\ r.google = g /\ r.email = e
    BY DoneTyped DEF RequestRecord, Places
  <2>2. requests' = [requests EXCEPT ![h] = r] /\ EmailOwner[e] = g
    BY <1>2 DEF GoogleSignIn
  <2> HIDE DEF r
  <2>3. RequestSound(r)
    BY <2>1, <2>2, AccountsAssumption DEF RequestSound, Holds
  <2> QED
    BY <1>2, <2>1, <2>2, <2>3, MoveKeeps DEF Holds, GoogleSignIn
<1>3. crowd.emails \subseteq Emails /\ crowd.names \subseteq Names
  BY AccountsAssumption DEF AccountInv, TypeOK
<1> QED
  BY <1>1, <1>2, <1>3 DEF Arrive

\* FindById and FindByEmail, which may answer.
LEMMA FindKeeps ==
  ASSUME AccountInv, NEW h \in Handlers, FindById(h) \/ FindByEmail(h), UNCHANGED crowd
  PROVE  AccountInv'
<1>1. requests[h] \in RequestRecord /\ RequestSound(requests[h])
  BY DEF AccountInv, TypeOK
<1>2. CASE FindById(h)
  <2>1. ASSUME NEW id \in DOMAIN users, users[id].google = requests[h].google,
               SignIn(h, id), requests' = [requests EXCEPT ![h] = Done]
        PROVE  AccountInv'
    BY <1>2, <2>1, DoneTyped, MoveKeeps DEF Holds, FindById
  <2>2. ASSUME requests' = Goto(h, "byEmail"), UNCHANGED signedIn PROVE AccountInv'
    BY <1>1, <1>2, <2>2, GotoKeeps DEF FindById, Places, RequestSound
  <2> QED
    BY <1>2, <2>1, <2>2 DEF FindById
<1>3. CASE FindByEmail(h)
  <2>1. ASSUME NEW id \in DOMAIN users, users[id].email = requests[h].email,
               users[id].google \notin {NoGoogle, BlankId}, SignIn(h, id),
               requests' = [requests EXCEPT ![h] = Done]
        PROVE  AccountInv'
    <3>1. users[id].google = requests[h].google \/ requests[h].google = NoGoogle
      BY <1>1, <2>1 DEF AccountInv, RowsOwned, RequestSound
    <3> QED
      BY <1>3, <2>1, <3>1, DoneTyped, MoveKeeps DEF Holds, FindByEmail
  <2>2. ASSUME NEW id \in DOMAIN users, users[id].email = requests[h].email, UNCHANGED signedIn,
               requests' = [requests EXCEPT ![h].pc = "role", ![h].user = id]
        PROVE  AccountInv'
    <3> DEFINE r == [requests[h] EXCEPT !.pc = "role", !.user = id]
    <3>1. id \in Nat
      BY DEF AccountInv, TypeOK
    <3>2. r \in RequestRecord /\ r.pc = "role" /\ r.user = id /\ r.google = requests[h].google
          /\ r.email = requests[h].email
      BY <1>1, <3>1 DEF RequestRecord, Places
    <3>3. requests' = [requests EXCEPT ![h] = r]
      BY <2>2
    <3> HIDE DEF r
    <3>4. RequestSound(r)
      BY <1>1, <1>3, <2>2, <3>2 DEF RequestSound, Holds, FindByEmail
    <3> QED
      BY <1>3, <2>2, <3>2, <3>3, <3>4, MoveKeeps DEF Holds, FindByEmail
  <2>3. ASSUME requests' = [requests EXCEPT ![h].pc = "pick",
                                            ![h].name = <<LocalPart[requests[h].email], 0>>],
               UNCHANGED signedIn
        PROVE  AccountInv'
    <3> DEFINE n == <<LocalPart[requests[h].email], 0>>
               r == [requests[h] EXCEPT !.pc = "pick", !.name = n]
    <3>1. n \in Names
      BY <1>1 DEF RequestRecord, Names
    <3>2. requests' = [requests EXCEPT ![h] = r]
      BY <2>3
    <3> HIDE DEF n
    <3>3. r \in RequestRecord /\ r.pc = "pick" /\ r.google = requests[h].google
          /\ r.email = requests[h].email
      BY <1>1, <3>1 DEF RequestRecord, Places
    <3> HIDE DEF r
    <3>4. RequestSound(r)
      BY <1>1, <3>3 DEF RequestSound, Holds
    <3> QED
      BY <1>3, <2>3, <3>2, <3>3, <3>4, MoveKeeps DEF Holds, FindByEmail
  <2> QED
    BY <1>3, <2>1, <2>2, <2>3 DEF FindByEmail
<1> QED
  BY <1>2, <1>3

\* What is read about the role is so when it is read.
LEMMA ReadRoleKeeps ==
  ASSUME AccountInv, NEW h \in Handlers, ReadRole(h), UNCHANGED crowd
  PROVE  AccountInv'
<1> DEFINE pc == IF requests[h].pc = "role" THEN "link" ELSE "commit"
           role == IF ~seeded THEN "none"
                   ELSE IF requests[h].pc = "role" /\ requests[h].user \in residents THEN "held"
                   ELSE "missing"
           r == [requests[h] EXCEPT !.pc = pc, !.role = role]
<1>1. requests[h] \in RequestRecord /\ RequestSound(requests[h])
  BY DEF AccountInv, TypeOK
<1>2. requests' = [requests EXCEPT ![h] = r] /\ requests[h].pc \in {"role", "grant"}
  BY DEF ReadRole
<1>3. /\ pc \in {"link", "commit"} /\ (pc = "link" <=> requests[h].pc = "role")
      /\ role \in {"none", "held", "missing"} /\ (role = "none" => ~seeded)
      /\ role = "held" => pc = "link" /\ requests[h].user \in residents
  OBVIOUS
<1> HIDE DEF pc, role
<1>4. r \in RequestRecord /\ r.pc = pc /\ r.role = role /\ r.user = requests[h].user
      /\ r.google = requests[h].google /\ r.email = requests[h].email /\ r.name = requests[h].name
  BY <1>1, <1>3 DEF RequestRecord, Places
<1> HIDE DEF r
<1>5. /\ r.google = NoGoogle \/ r.google = EmailOwner[r.email]
      /\ r.pc = "link" => /\ r.google # NoGoogle /\ r.user \in DOMAIN users
                          /\ users[r.user].email = r.email
  BY <1>1, <1>2, <1>3, <1>4 DEF RequestSound
<1>6. Holds(r) => Holds(requests[h])
  BY <1>2, <1>3, <1>4 DEF Holds
<1>7. Holds(r) => \A id \in DOMAIN users : ~Clash(r, users[id])
  BY <1>1, <1>4, <1>6 DEF RequestSound, Clash, SameGoogle
<1>8. Holds(r) => \A k \in Handlers \ {h} :
        Holds(requests[k]) => ~Clash(r, requests[k]) /\ ~Clash(requests[k], r)
  BY <1>4, <1>6 DEF AccountInv, HeldApart, Clash, SameGoogle
<1>9. RequestSound(r)
  BY <1>3, <1>4, <1>5, <1>7 DEF RequestSound
<1> QED
  BY <1>2, <1>4, <1>8, <1>9, MoveKeeps DEF ReadRole

LEMMA PickKeeps ==
  ASSUME AccountInv, NEW h \in Handlers, Pick(h), UNCHANGED crowd
  PROVE  AccountInv'
<1> DEFINE n == requests[h].name
           next == <<n[1], n[2] + 1>>
           r == [requests[h] EXCEPT !.name = next]
<1>1. requests[h] \in RequestRecord /\ RequestSound(requests[h])
  BY DEF AccountInv, TypeOK
<1>2. CASE ~NameTaken(n)
  BY <1>2, GotoKeeps DEF Pick, Places
<1>3. CASE NameTaken(n)
  <2>1. next \in Names
    BY <1>1 DEF RequestRecord, Names
  <2>2. requests' = [requests EXCEPT ![h] = r] /\ requests[h].pc = "pick"
    BY <1>3 DEF Pick
  <2> HIDE DEF next
  <2>3. r \in RequestRecord /\ r.pc = requests[h].pc /\ r.google = requests[h].google
        /\ r.email = requests[h].email
    BY <1>1, <2>1 DEF RequestRecord
  <2> HIDE DEF r
  <2>4. RequestSound(r)
    BY <1>1, <2>2, <2>3 DEF RequestSound, Holds
  <2> QED
    BY <2>2, <2>3, <2>4, MoveKeeps DEF Holds, Pick
<1> QED
  BY <1>2, <1>3

\* The insert has waited for every request that holds a key of its row.
LEMMA InsertKeeps ==
  ASSUME AccountInv, NEW h \in Handlers, Insert(h), UNCHANGED crowd
  PROVE  AccountInv'
<1> DEFINE r == [requests[h] EXCEPT !.pc = "grant"]
<1>1. requests[h] \in RequestRecord /\ RequestSound(requests[h])
  BY DEF AccountInv, TypeOK
<1>2. CASE ~InsertFits(h)
  BY <1>2, GotoKeeps DEF Insert, Places
<1>3. CASE InsertFits(h)
  <2>1. requests' = [requests EXCEPT ![h] = r]
    BY <1>3 DEF Insert, Goto
  <2>2. r \in RequestRecord /\ r.pc = "grant" /\ r.google = requests[h].google
        /\ r.email = requests[h].email /\ r.name = requests[h].name
    BY <1>1 DEF RequestRecord, Places
  <2> HIDE DEF r
  <2>3. \A id \in DOMAIN users : ~Clash(r, users[id])
    BY <1>3, <2>2 DEF InsertFits, Clash, SameGoogle, Row
  <2>4. \A k \in Handlers \ {h} :
          Holds(requests[k]) => ~Clash(r, requests[k]) /\ ~Clash(requests[k], r)
    BY <2>2 DEF Insert, InsertWaits, Clash, SameGoogle
  <2>5. RequestSound(r)
    BY <1>1, <2>2, <2>3 DEF RequestSound
  <2> QED
    BY <2>1, <2>2, <2>4, <2>5, MoveKeeps DEF Insert
<1> QED
  BY <1>2, <1>3

\* What a commit of another request, or of the seed script, does to a request.
LEMMA OvertakenTyped ==
  ASSUME NEW r \in RequestRecord, NEW late \in BOOLEAN
  PROVE  LET t == Overtaken(r, late) IN
         /\ t \in RequestRecord /\ t.pc = r.pc /\ t.google = r.google /\ t.email = r.email
         /\ t.name = r.name /\ t.user = r.user /\ t.role = r.role
         /\ r.late => t.late
         /\ r.pc # "idle" => t.overtaken /\ (late => t.late)
<1>1. CASE r.pc = "idle"
  BY <1>1 DEF Overtaken
<1>2. CASE r.pc # "idle"
  <2> DEFINE t == [r EXCEPT !.overtaken = TRUE, !.late = @ \/ late]
  <2>1. r.late \in BOOLEAN
    BY DEF RequestRecord
  <2>2. (r.late \/ late) \in BOOLEAN
    OBVIOUS
  <2>3. /\ t \in RequestRecord /\ t.pc = r.pc /\ t.google = r.google /\ t.email = r.email
        /\ t.name = r.name /\ t.user = r.user /\ t.role = r.role
        /\ t.overtaken /\ t.late = (r.late \/ late)
    BY <2>2 DEF RequestRecord
  <2>4. Overtaken(r, late) = t
    BY <1>2 DEF Overtaken
  <2> HIDE DEF t
  <2> QED
    BY <2>1, <2>3, <2>4
<1> QED
  BY <1>1, <1>2

LEMMA OvertakeTyped ==
  ASSUME AccountInv, NEW h \in Handlers, requests' = Overtake(h)
  PROVE  /\ requests' \in [Handlers -> RequestRecord]
         /\ requests'[h] = Done
         /\ \A k \in Handlers \ {h} :
              /\ requests'[k].pc = requests[k].pc /\ requests'[k].google = requests[k].google
              /\ requests'[k].email = requests[k].email /\ requests'[k].name = requests[k].name
              /\ requests'[k].user = requests[k].user /\ requests'[k].role = requests[k].role
              /\ requests[k].late => requests'[k].late
              /\ requests[k].pc # "idle" => requests'[k].overtaken
<1>1. \A k \in Handlers : requests[k] \in RequestRecord
  BY DEF AccountInv, TypeOK
<1> DEFINE late == FALSE
<1>2. /\ requests' = [k \in Handlers |-> requests'[k]] /\ requests'[h] = Done
      /\ late \in BOOLEAN /\ \A k \in Handlers \ {h} : requests'[k] = Overtaken(requests[k], late)
  BY DEF Overtake
<1> HIDE DEF late
<1>3. \A k \in Handlers \ {h} :
        /\ requests'[k] \in RequestRecord
        /\ requests'[k].pc = requests[k].pc /\ requests'[k].google = requests[k].google
        /\ requests'[k].email = requests[k].email /\ requests'[k].name = requests[k].name
        /\ requests'[k].user = requests[k].user /\ requests'[k].role = requests[k].role
        /\ requests[k].late => requests'[k].late
        /\ requests[k].pc # "idle" => requests'[k].overtaken
  BY <1>1, <1>2, OvertakenTyped
<1> QED
  BY <1>2, <1>3, DoneTyped

(* The invariant after a commit, from what the commit did to the rows: each row *)
(* keeps its e-mail, no assignment goes, and a row that waits fits the others.  *)
LEMMA CommitKeeps ==
  ASSUME AccountInv, NEW h \in Handlers, requests' = Overtake(h),
         TypeOK', RowsOwned', RowsDistinct', SignedInLinked',
         UNCHANGED <<seeded, seed>>, residents \subseteq residents',
         DOMAIN users \subseteq DOMAIN users',
         \A id \in DOMAIN users : users'[id].email = users[id].email,
         \A k \in Handlers \ {h} : Holds(requests[k]) =>
           \A id \in DOMAIN users' : ~Clash(requests[k], users'[id])
  PROVE  AccountInv'
<1>1. \A k \in Handlers : RequestSound(requests[k])'
  <2>1. RequestSound(requests[h])'
    BY OvertakeTyped, DoneTyped DEF RequestSound, Holds
  <2>2. ASSUME NEW k \in Handlers \ {h} PROVE RequestSound(requests[k])'
    <3>1. RequestSound(requests[k])
      BY DEF AccountInv
    <3> QED
      BY <2>2, <3>1, OvertakeTyped DEF RequestSound, Holds, Clash, SameGoogle
  <2> QED
    BY <2>1, <2>2
<1>2. HeldApart'
  BY OvertakeTyped, DoneTyped DEF AccountInv, HeldApart, Holds, Clash, SameGoogle
<1>3. SeedSound'
  BY DEF AccountInv, SeedSound
<1> QED
  BY <1>1, <1>2, <1>3 DEF AccountInv

LEMMA NewRowKeeps ==
  ASSUME AccountInv, NEW h \in Handlers, Commit(h), UNCHANGED crowd
  PROVE  AccountInv'
<1> DEFINE r == requests[h]
           new == Len(users) + 1
<1>1. r \in RequestRecord /\ RequestSound(r) /\ r.pc = "commit"
  BY DEF AccountInv, TypeOK, Commit
<1>2. Row(r) \in UserRow /\ Row(r).email = r.email /\ Row(r).google = r.google
      /\ Row(r).name = r.name
  BY <1>1 DEF Row, UserRow, RequestRecord
<1>3. users \in Seq(UserRow) /\ users' = Append(users, Row(r))
  BY DEF AccountInv, TypeOK, Commit
<1>4. /\ users' \in Seq(UserRow) /\ DOMAIN users' = DOMAIN users \union {new}
      /\ new \notin DOMAIN users /\ users'[new] = Row(r)
      /\ \A id \in DOMAIN users : users'[id] = users[id]
  BY <1>2, <1>3
<1> HIDE DEF r, new
<1>5. /\ residents \subseteq residents' /\ residents' \subseteq residents \union {new}
      /\ UNCHANGED <<seeded, seed>>
  BY DEF Commit, Given, new
<1>6. requests' = Overtake(h)
  BY DEF Commit
<1>7. \A g \in GoogleIds : \A id \in signedIn'[g] : id \in signedIn[g] \/ (id = new /\ g = r.google)
  BY DEF Commit, SignIn, AccountInv, TypeOK, r, new
<1>8. signedIn' \in [GoogleIds -> SUBSET DOMAIN users']
  <2>1. signedIn' = [g \in GoogleIds |-> signedIn'[g]]
    BY DEF AccountInv, TypeOK, SignIn, Commit
  <2>2. \A g \in GoogleIds : signedIn[g] \subseteq DOMAIN users
    BY DEF AccountInv, TypeOK
  <2> QED
    BY <1>4, <1>7, <2>1, <2>2
<1>9. TypeOK'
  BY <1>4, <1>5, <1>6, <1>8, OvertakeTyped DEF AccountInv, TypeOK, SeedRun
<1>10. RowsOwned'
  BY <1>1, <1>2, <1>4 DEF AccountInv, RowsOwned, RequestSound
<1>11. \A id \in DOMAIN users : ~Clash(r, users[id])
  BY <1>1 DEF RequestSound, Holds
<1>12. RowsDistinct'
  BY <1>2, <1>4, <1>11 DEF AccountInv, RowsDistinct, Clash, SameGoogle
<1>13. SignedInLinked'
  <2>1. ASSUME NEW g \in GoogleIds, NEW id \in signedIn'[g] PROVE users'[id].google = g
    <3>1. CASE id \in signedIn[g]
      BY <1>4, <3>1 DEF AccountInv, TypeOK, SignedInLinked
    <3>2. CASE id = new /\ g = r.google
      BY <1>2, <1>4, <3>2
    <3> QED
      BY <1>7, <2>1, <3>1, <3>2
  <2> QED
    BY <2>1 DEF SignedInLinked
<1>14. ASSUME NEW k \in Handlers \ {h}, Holds(requests[k]), NEW id \in DOMAIN users'
       PROVE  ~Clash(requests[k], users'[id])
  <2>1. CASE id \in DOMAIN users
    BY <1>4, <1>14, <2>1 DEF AccountInv, RequestSound
  <2>2. CASE id = new
    <3>1. ~Clash(requests[k], r)
      BY <1>1, <1>14 DEF AccountInv, HeldApart, Holds, r
    <3> QED
      BY <1>2, <1>4, <2>2, <3>1 DEF Clash, SameGoogle
  <2> QED
    BY <1>4, <2>1, <2>2
<1> QED
  BY <1>4, <1>5, <1>6, <1>9, <1>10, <1>12, <1>13, <1>14, CommitKeeps

\* The link has waited too, and the account it writes was linked to nobody else.
LEMMA LinkKeeps ==
  ASSUME AccountInv, NEW h \in Handlers, Link(h), UNCHANGED crowd
  PROVE  AccountInv'
<1>1. CASE requests' = Goto(h, "conflict") /\ UNCHANGED <<users, roles, signedIn>>
  BY <1>1, GotoKeeps DEF Places
<1>2. CASE LinkFits(h) /\ requests' = Overtake(h)
  <2> DEFINE r == requests[h]
             u == r.user
             row == [users[u] EXCEPT !.google = r.google]
  <2>1. r \in RequestRecord /\ RequestSound(r) /\ r.pc = "link"
    BY DEF AccountInv, TypeOK, Link
  <2>2. u \in DOMAIN users /\ users[u].email = r.email
    BY <2>1 DEF RequestSound
  <2>3. users \in Seq(UserRow) /\ users[u] \in UserRow
    BY <2>2 DEF AccountInv, TypeOK
  <2>4. /\ row \in UserRow /\ row.google = r.google
        /\ row.email = users[u].email /\ row.name = users[u].name
    BY <2>1, <2>3 DEF UserRow, RequestRecord
  <2>5. /\ users' = [users EXCEPT ![u] = row] /\ SignIn(h, u)
        /\ residents \subseteq residents' /\ residents' \subseteq residents \union {u}
        /\ UNCHANGED <<seeded, seed>>
    BY <1>2, <2>1, DoneTyped DEF Link, Goto, Overtake, Given, AccountInv, TypeOK, RequestRecord
  <2> HIDE DEF row
  <2>6. /\ users' \in Seq(UserRow) /\ DOMAIN users' = DOMAIN users /\ users'[u] = row
        /\ \A id \in DOMAIN users \ {u} : users'[id] = users[id]
    BY <2>2, <2>3, <2>4, <2>5
  <2>7. \A g \in GoogleIds : \A id \in signedIn'[g] : id \in signedIn[g] \/ (id = u /\ g = r.google)
    BY <2>5 DEF SignIn, AccountInv, TypeOK
  <2>8. signedIn' \in [GoogleIds -> SUBSET DOMAIN users']
    <3>1. signedIn' = [g \in GoogleIds |-> signedIn'[g]]
      BY <2>5 DEF AccountInv, TypeOK, SignIn
    <3>2. \A g \in GoogleIds : signedIn[g] \subseteq DOMAIN users
      BY DEF AccountInv, TypeOK
    <3> QED
      BY <2>2, <2>6, <2>7, <3>1, <3>2
  <2>9. TypeOK'
    BY <1>2, <2>2, <2>5, <2>6, <2>8, OvertakeTyped DEF AccountInv, TypeOK, SeedRun
  <2>10. RowsOwned'
    BY <2>1, <2>2, <2>4, <2>6 DEF AccountInv, RowsOwned, RequestSound
  <2>11. \A id \in DOMAIN users \ {u} : ~SameGoogle(r, users[id])
    BY <1>2 DEF LinkFits
  <2>12. RowsDistinct'
    BY <2>4, <2>6, <2>11 DEF AccountInv, RowsDistinct, Clash, SameGoogle
  <2>13. SignedInLinked'
    <3>1. ASSUME NEW g \in GoogleIds, NEW id \in signedIn'[g] PROVE users'[id].google = g
      <4>1. CASE id = u /\ g = r.google
        BY <2>4, <2>6, <4>1
      <4>2. CASE id \in signedIn[g] /\ id # u
        BY <2>6, <4>2 DEF AccountInv, TypeOK, SignedInLinked
      <4>3. CASE id \in signedIn[g] /\ id = u
        <5>1. users[u].google = g /\ g # NoGoogle
          BY <4>3, AccountsAssumption DEF AccountInv, SignedInLinked
        <5>2. g = EmailOwner[r.email]
          BY <2>2, <5>1 DEF AccountInv, RowsOwned
        <5>3. r.google = g
          BY <2>1, <5>2 DEF RequestSound, Link, AccountInv
        <5> QED
          BY <2>4, <2>6, <4>3, <5>3
      <4> QED
        BY <2>7, <3>1, <4>1, <4>2, <4>3
    <3> QED
      BY <3>1 DEF SignedInLinked
  <2>14. ASSUME NEW k \in Handlers \ {h}, Holds(requests[k]), NEW id \in DOMAIN users'
         PROVE  ~Clash(requests[k], users'[id])
    <3>1. ~Clash(requests[k], users[id])
      BY <2>6, <2>14 DEF AccountInv, RequestSound
    <3>2. CASE id # u
      BY <2>6, <3>1, <3>2
    <3>3. CASE id = u
      <4>1. ~SameGoogle(r, requests[k])
        BY <1>2, <2>14, DoneTyped DEF Link, LinkWaits
      <4> QED
        BY <2>4, <2>6, <3>1, <3>3, <4>1 DEF Clash, SameGoogle
    <3> QED
      BY <3>2, <3>3
  <2> QED
    BY <1>2, <2>4, <2>5, <2>6, <2>9, <2>10, <2>12, <2>13, <2>14, CommitKeeps
<1> QED
  BY <1>1, <1>2 DEF Link

\* The seed script, which reads, looks and commits, or fails.
LEMMA SeedKeeps ==
  ASSUME AccountInv, Seed, UNCHANGED crowd
  PROVE  AccountInv'
<1>1. \A k \in Handlers : requests[k] \in RequestRecord /\ RequestSound(requests[k])
  BY DEF AccountInv, TypeOK
<1>2. CASE SeedCommits
  <2> DEFINE late == ~seeded
  <2>1. late \in BOOLEAN /\ (~late => seeded) /\ seeded'
    BY <1>2 DEF SeedCommits
  <2>2. /\ requests' = [k \in Handlers |-> requests'[k]] /\ UNCHANGED <<users, signedIn>>
        /\ \A k \in Handlers : requests'[k] = Overtaken(requests[k], late)
        /\ residents' = residents \union seed.missing /\ seed' = NoRun
    BY <1>2 DEF SeedCommits
  <2> HIDE DEF late
  <2>3. \A k \in Handlers :
          /\ requests'[k] \in RequestRecord
          /\ requests'[k].pc = requests[k].pc /\ requests'[k].google = requests[k].google
          /\ requests'[k].email = requests[k].email /\ requests'[k].name = requests[k].name
          /\ requests'[k].user = requests[k].user /\ requests'[k].role = requests[k].role
          /\ requests[k].late => requests'[k].late
          /\ requests[k].pc # "idle" => (late => requests'[k].late)
    BY <1>1, <2>1, <2>2, OvertakenTyped
  <2>4. TypeOK'
    BY <2>1, <2>2, <2>3 DEF AccountInv, TypeOK, SeedRun, NoRun
  <2>5. (RowsOwned /\ RowsDistinct /\ SignedInLinked /\ SeedSound)'
    BY <2>2 DEF AccountInv, RowsOwned, RowsDistinct, SignedInLinked, SeedSound, NoRun, Clash, SameGoogle
  <2>6. ASSUME NEW k \in Handlers PROVE RequestSound(requests[k])'
    <3>1. requests'[k].pc \in {"link", "commit"} /\ requests'[k].role = "none" => requests'[k].late
      BY <1>1, <2>1, <2>3 DEF RequestSound
    <3> QED
      BY <1>1, <2>2, <2>3, <3>1 DEF RequestSound, Holds, Clash, SameGoogle
  <2>7. HeldApart'
    BY <2>3 DEF AccountInv, HeldApart, Holds, Clash, SameGoogle
  <2> QED
    BY <2>4, <2>5, <2>6, <2>7 DEF AccountInv
<1>3. CASE SeedReads \/ SeedLooks \/ SeedFails
  <2>1. UNCHANGED <<users, seeded, residents, signedIn, requests>>
    BY <1>3 DEF SeedReads, SeedLooks, SeedFails
  <2>2. /\ seed \in SeedRun /\ seed' \in SeedRun
        /\ seed'.pc = "commit" => seed'.read \subseteq residents \union seed'.missing
    <3>1. seed \in SeedRun
      BY DEF AccountInv, TypeOK
    <3>2. CASE SeedReads
      BY <3>1, <3>2 DEF SeedReads, SeedRun, NoRun
    <3>3. CASE SeedLooks
      BY <3>1, <3>3 DEF SeedLooks, SeedRun
    <3>4. CASE SeedFails
      BY <3>1, <3>4 DEF SeedFails, SeedRun, NoRun
    <3> QED
      BY <1>3, <3>1, <3>2, <3>3, <3>4
  <2>3. TypeOK'
    BY <2>1, <2>2 DEF AccountInv, TypeOK, SeedRun
  <2>4. (RowsOwned /\ RowsDistinct /\ SignedInLinked /\ SeedSound)'
    BY <2>1, <2>2 DEF AccountInv, RowsOwned, RowsDistinct, SignedInLinked, SeedSound, Clash, SameGoogle
  <2>5. (HeldApart /\ \A k \in Handlers : RequestSound(requests[k]))'
    BY <2>1 DEF AccountInv, HeldApart, RequestSound, Holds, Clash, SameGoogle
  <2> QED
    BY <2>3, <2>4, <2>5 DEF AccountInv
<1> QED
  BY <1>2, <1>3 DEF Seed

\* Every step keeps the invariant: one lemma for each kind of action.
LEMMA NextInv == AccountInv /\ [Next]_vars => AccountInv'
<1> SUFFICES ASSUME AccountInv, [Next]_vars PROVE AccountInv'
  OBVIOUS
<1>1. UNCHANGED crowd
  BY DEF Next, vars
<1>2. ASSUME NEW h \in Handlers, CheckEmail(h) PROVE AccountInv'
  BY <1>1, <1>2, EndKeeps, GotoKeeps DEF CheckEmail, Places
<1>3. ASSUME NEW h \in Handlers, CheckName(h) PROVE AccountInv'
  BY <1>1, <1>3, EndKeeps, GotoKeeps DEF CheckName, Places
<1>4. ASSUME NEW h \in Handlers, Rollback(h) \/ Fail(h) PROVE AccountInv'
  BY <1>1, <1>4, EndKeeps DEF Rollback, Fail
<1>5. CASE UNCHANGED vars
  BY <1>5 DEF vars, moving, AccountInv, TypeOK, RowsOwned, RowsDistinct, SignedInLinked, SeedSound,
              SeedRun, HeldApart, RequestSound, Holds, Clash, SameGoogle
<1> QED
  BY <1>1, <1>2, <1>3, <1>4, <1>5, ArriveKeeps, FindKeeps, ReadRoleKeeps, PickKeeps, InsertKeeps,
     NewRowKeeps, LinkKeeps, SeedKeeps DEF Next, Step

THEOREM AccountInvAlways == Spec => []AccountInv
BY InitInv, NextInv, PTL DEF Spec

(* Every value has its type, and the table of assignments and the answers *)
(* name existing accounts only.                                           *)
THEOREM AccountsTyped == Spec => []TypeOK
<1>1. AccountInv => TypeOK
  BY DEF AccountInv
<1> QED
  BY <1>1, AccountInvAlways, PTL

(* All sign-ins of a person return one account, which stays this person's: *)
(* _find_or_create_google_user, with the unique oauth_provider_id.         *)
THEOREM OnePersonOneAccount == Spec => []SameAccount
<1>1. AccountInv => SameAccount
  <2> SUFFICES ASSUME AccountInv, NEW g \in GoogleIds, NEW id \in signedIn[g],
                      NEW other \in signedIn[g]
               PROVE  other = id /\ users[id].google = g /\ EmailOwner[users[id].email] = g
    BY DEF SameAccount
  <2>1. id \in DOMAIN users /\ other \in DOMAIN users
    BY DEF AccountInv, TypeOK
  <2>2. users[id].google = g /\ users[other].google = g /\ g # NoGoogle
    BY AccountsAssumption DEF AccountInv, SignedInLinked
  <2> QED
    BY <2>1, <2>2 DEF AccountInv, RowsDistinct, RowsOwned, Clash, SameGoogle
<1> QED
  BY <1>1, AccountInvAlways, PTL

(* The rows after the two writes: a new row at the end, or *)
(* the Google id of an account that had none or this one.                      *)
LEMMA CommitRows ==
  ASSUME AccountInv, NEW h \in Handlers, Commit(h)
  PROVE  LET r == requests[h]
             new == Len(users) + 1 IN
         /\ Row(r) \in UserRow /\ users' \in Seq(UserRow)
         /\ DOMAIN users' = DOMAIN users \union {new} /\ new \notin DOMAIN users
         /\ users' = Append(users, Row(r)) /\ Len(users') = new /\ users'[new] = Row(r)
         /\ \A id \in DOMAIN users : users'[id] = users[id]
<1> DEFINE r == requests[h]
<1>1. Row(r) \in UserRow
  BY DEF AccountInv, TypeOK, Row, UserRow, RequestRecord
<1>2. users \in Seq(UserRow) /\ users' = Append(users, Row(r))
  BY DEF AccountInv, TypeOK, Commit
<1> HIDE DEF r
<1>3. /\ users' \in Seq(UserRow) /\ DOMAIN users' = DOMAIN users \union {Len(users) + 1}
      /\ Len(users) + 1 \notin DOMAIN users /\ Len(users') = Len(users) + 1
      /\ users'[Len(users) + 1] = Row(r) /\ \A id \in DOMAIN users : users'[id] = users[id]
  BY <1>1, <1>2
<1> QED
  BY <1>1, <1>2, <1>3 DEF r

LEMMA LinkEnds ==
  ASSUME AccountInv, NEW h \in Handlers, Link(h)
  PROVE  /\ requests' = Goto(h, "conflict") => UNCHANGED <<users, roles, signedIn>>
         /\ requests' # Goto(h, "conflict") =>
              /\ requests' = Overtake(h) /\ UNCHANGED <<seeded, seed>>
              /\ residents' = residents \union Given(h, requests[h].user)
<1>1. Goto(h, "conflict")[h].pc = "conflict"
  BY DEF AccountInv, TypeOK, Goto, RequestRecord
<1>2. Overtake(h)[h] = Done /\ Done.pc = "idle"
  BY DoneTyped DEF Overtake
<1>3. Goto(h, "conflict") # Overtake(h)
  BY <1>1, <1>2
<1> QED
  BY <1>3 DEF Link

LEMMA LinkRows ==
  ASSUME AccountInv, NEW h \in Handlers, Link(h), requests' # Goto(h, "conflict")
  PROVE  LET r == requests[h]
             u == r.user
             row == [users[u] EXCEPT !.google = r.google] IN
         /\ LinkFits(h) /\ requests' = Overtake(h) /\ r.google \in GoogleIds
         /\ u \in DOMAIN users /\ users[u].email = r.email /\ EmailOwner[r.email] = r.google
         /\ users[u].google \in {NoGoogle, r.google}
         /\ users' = [users EXCEPT ![u] = row] /\ DOMAIN users' = DOMAIN users
         /\ row.email = users[u].email /\ row.name = users[u].name /\ row.google = r.google
         /\ users[u].google = r.google => row = users[u]
         /\ SignIn(h, u)
<1> DEFINE r == requests[h]
           u == r.user
           row == [users[u] EXCEPT !.google = r.google]
<1>1. r \in RequestRecord /\ RequestSound(r) /\ r.pc = "link"
  BY DEF AccountInv, TypeOK, Link
<1>2. LinkFits(h) /\ requests' = Overtake(h)
      /\ SignIn(h, u) /\ users' = [users EXCEPT ![u] = row]
  BY DEF Link
<1>3. /\ u \in DOMAIN users /\ users[u].email = r.email /\ EmailOwner[r.email] = r.google
      /\ r.google \in GoogleIds
  BY <1>1 DEF RequestSound, RequestRecord
<1>4. users[u] \in UserRow /\ users[u].google \in {NoGoogle, r.google}
  BY <1>3 DEF AccountInv, TypeOK, RowsOwned
<1>5. /\ row.email = users[u].email /\ row.name = users[u].name /\ row.google = r.google
      /\ users[u].google = r.google => row = users[u]
  BY <1>4 DEF UserRow
<1>6. users \in Seq(UserRow)
  BY DEF AccountInv, TypeOK
<1> HIDE DEF row
<1>7. DOMAIN users' = DOMAIN users
  BY <1>2, <1>6
<1> QED
  BY <1>2, <1>3, <1>4, <1>5, <1>7 DEF row

(* An account that is created or linked holds the role from that commit on,  *)
(* unless there is none or it came while the request was in progress; and    *)
(* when it comes, the accounts that the seed script has read get it          *)
(* (_ensure_dynamic_role_assignment, scripts/seed.py).                       *)
THEOREM AccountsHaveTheirRole == Spec => RoleWithAccount
<1> DEFINE Assigned == \A id \in DOMAIN users' : id \notin DOMAIN users \/ users'[id] # users[id] =>
                         \/ ~seeded \/ id \in residents'
                         \/ \E h \in Handlers :
                              requests[h].pc # "idle" /\ requests'[h].pc = "idle" /\ requests[h].late
           Backfilled == ~seeded /\ seeded' => seed.read \subseteq residents'
<1>1. AccountInv /\ [Next]_vars => [Assigned /\ Backfilled]_vars
  <2> SUFFICES ASSUME AccountInv, Next PROVE Assigned /\ Backfilled
    OBVIOUS
  <2>1. CASE UNCHANGED <<users, seeded>>
    BY <2>1
  <2>2. ASSUME NEW h \in Handlers, Commit(h) PROVE Assigned /\ Backfilled
    <3> DEFINE new == Len(users) + 1
               r == requests[h]
    <3>1. /\ r \in RequestRecord /\ RequestSound(r) /\ r.pc = "commit"
          /\ requests'[h].pc = "idle" /\ UNCHANGED seeded
      BY <2>2, OvertakeTyped, DoneTyped DEF AccountInv, TypeOK, Commit
    <3>2. r.role \in {"none", "missing"} /\ (r.role = "none" => ~seeded \/ r.late)
      BY <3>1 DEF RequestSound, RequestRecord
    <3>3. r.role = "missing" => new \in residents'
      BY <2>2 DEF Commit, Given
    <3>4. DOMAIN users' = DOMAIN users \union {new} /\ \A id \in DOMAIN users : users'[id] = users[id]
      BY <2>2, CommitRows
    <3> HIDE DEF new
    <3> QED
      BY <3>1, <3>2, <3>3, <3>4
  <2>3. ASSUME NEW h \in Handlers, Link(h), requests' # Goto(h, "conflict")
        PROVE  Assigned /\ Backfilled
    <3> DEFINE r == requests[h]
               u == r.user
    <3>1. /\ r \in RequestRecord /\ RequestSound(r) /\ r.pc = "link"
          /\ requests'[h].pc = "idle" /\ UNCHANGED seeded
      BY <2>3, LinkEnds, OvertakeTyped, DoneTyped DEF AccountInv, TypeOK, Link
    <3>2. r.role # "missing" => u \in residents \/ ~seeded \/ r.late
      BY <3>1 DEF RequestSound, RequestRecord
    <3>3. residents \subseteq residents' /\ (r.role = "missing" => u \in residents')
      BY <2>3, LinkEnds DEF Given
    <3>4. DOMAIN users' = DOMAIN users /\ \A id \in DOMAIN users \ {u} : users'[id] = users[id]
      <4> DEFINE row == [users[u] EXCEPT !.google = r.google]
      <4>1. DOMAIN users' = DOMAIN users /\ users' = [users EXCEPT ![u] = row]
        BY <2>3, LinkRows
      <4> HIDE DEF row, u
      <4> QED
        BY <4>1
    <3> QED
      BY <3>1, <3>2, <3>3, <3>4
  <2>4. ASSUME NEW h \in Handlers, Link(h), requests' = Goto(h, "conflict")
        PROVE  UNCHANGED <<users, seeded>>
    BY <2>4, LinkEnds DEF roles
  <2>5. CASE SeedCommits
    BY <2>5 DEF SeedCommits, AccountInv, SeedSound
  <2> QED
    BY <2>1, <2>2, <2>3, <2>4, <2>5 DEF Next, Step, Arrive, Register, GoogleSignIn, CheckEmail,
       CheckName, FindById, FindByEmail, ReadRole, Pick, Insert, Rollback, Fail, roles,
       Seed, SeedReads, SeedLooks, SeedFails
<1> QED
  BY <1>1, AccountInvAlways, PTL DEF Spec, RoleWithAccount

-----------------------------------------------------------------------------
(* What a request has looked up still holds while nobody has overtaken it. *)
StillCovered(r) ==
  ~r.overtaken =>
    /\ r.pc # "conflict"
    /\ r.pc \in {"email", "name"} => r.google = NoGoogle
    /\ r.pc \in {"name", "pick"} => ~EmailTaken(r.email)
    /\ r.pc \in {"byEmail", "pick"} /\ r.google # BlankId =>
         \A id \in DOMAIN users : ~SameGoogle(r, users[id])
    /\ r.pc \in {"role", "link"} => \A id \in DOMAIN users \ {r.user} : ~SameGoogle(r, users[id])
    /\ r.pc = "insert" => \A id \in DOMAIN users : ~Clash(Row(r), users[id])
    /\ r.pc = "link" /\ r.role = "missing" => r.user \notin residents

LookUpsCover == \A h \in Handlers : StillCovered(requests[h])

\* A step that moves one request and writes nothing.
LEMMA MoveCovers ==
  ASSUME AccountInv, LookUpsCover, NEW h \in Handlers, NEW r,
         requests' = [requests EXCEPT ![h] = r], UNCHANGED <<users, roles>>,
         StillCovered(r)
  PROVE  LookUpsCover'
<1>1. ASSUME NEW k \in Handlers PROVE StillCovered(requests'[k])
  BY DEF AccountInv, TypeOK, LookUpsCover
<1> QED
  BY <1>1 DEF LookUpsCover, StillCovered, EmailTaken, SameGoogle, Clash, Row, roles

\* The record of a request that only goes on to its next statement.
LEMMA PlaceOnly ==
  ASSUME AccountInv, NEW h \in Handlers, NEW pc \in Places
  PROVE  LET r == [requests[h] EXCEPT !.pc = pc] IN
         /\ Goto(h, pc) = [requests EXCEPT ![h] = r]
         /\ r.pc = pc /\ r.google = requests[h].google /\ r.email = requests[h].email
         /\ r.name = requests[h].name /\ r.user = requests[h].user
         /\ r.role = requests[h].role /\ r.overtaken = requests[h].overtaken
<1>1. requests[h] \in RequestRecord
  BY DEF AccountInv, TypeOK
<1> QED
  BY <1>1 DEF Goto, RequestRecord

\* An ended request covers nothing.
LEMMA EndCovers ==
  ASSUME AccountInv, LookUpsCover, NEW h \in Handlers, requests' = [requests EXCEPT ![h] = Done],
         UNCHANGED <<users, roles>>
  PROVE  LookUpsCover'
<1>1. StillCovered(Done)
  BY DoneTyped DEF StillCovered
<1> QED
  BY <1>1, MoveCovers

\* A commit ends its request and overtakes every other that is in progress.
LEMMA CommitCovers ==
  ASSUME AccountInv, LookUpsCover, NEW h \in Handlers, requests' = Overtake(h)
  PROVE  LookUpsCover'
<1>1. ASSUME NEW k \in Handlers PROVE requests'[k].pc = "idle" \/ requests'[k].overtaken
  BY OvertakeTyped, DoneTyped
<1> QED
  BY <1>1 DEF LookUpsCover, StillCovered

(* Nobody else is linked to the Google id of a request with the e-mail it has: *)
(* the empty id goes with the empty e-mail only, and e-mails are unique.       *)
LEMMA BlankRows ==
  ASSUME AccountInv, NEW h \in Handlers, requests[h].google = BlankId,
         NEW id \in DOMAIN users, SameGoogle(requests[h], users[id])
  PROVE  users[id].email = requests[h].email
<1>1. users[id] \in UserRow /\ users[id].google = BlankId
  BY DEF AccountInv, TypeOK, SameGoogle
<1>2. EmailOwner[users[id].email] = BlankId /\ users[id].email \in Emails
  BY <1>1, AccountsAssumption DEF AccountInv, RowsOwned, UserRow
<1>3. requests[h].email \in Emails /\ EmailOwner[requests[h].email] = BlankId
  BY AccountsAssumption DEF AccountInv, TypeOK, RequestRecord, RequestSound
<1> QED
  BY <1>2, <1>3, AccountsAssumption

\* Each look-up establishes what the write relies on.
LEMMA LookUpCovers ==
  ASSUME AccountInv, LookUpsCover, NEW h \in Handlers,
         CheckEmail(h) \/ CheckName(h) \/ FindById(h) \/ Pick(h)
  PROVE  LookUpsCover'
<1> DEFINE at(pc) == [requests[h] EXCEPT !.pc = pc]
<1>1. requests[h] \in RequestRecord /\ StillCovered(requests[h])
  BY DEF AccountInv, TypeOK, LookUpsCover
<1>2. CASE CheckEmail(h)
  <2>1. CASE EmailTaken(requests[h].email)
    BY <1>2, <2>1, EndCovers DEF CheckEmail
  <2>2. CASE ~EmailTaken(requests[h].email)
    <3> DEFINE r == at("name")
    <3>1. "name" \in Places /\ "email" \in Places
      BY DEF Places
    <3>2. /\ Goto(h, "name") = [requests EXCEPT ![h] = r] /\ r.pc = "name"
          /\ r.google = requests[h].google /\ r.email = requests[h].email
          /\ r.overtaken = requests[h].overtaken
      BY <3>1, PlaceOnly
    <3> HIDE DEF r
    <3>3. StillCovered(r)
      BY <1>1, <1>2, <2>2, <3>2 DEF StillCovered, CheckEmail
    <3> QED
      BY <1>2, <2>2, <3>2, <3>3, MoveCovers DEF CheckEmail
  <2> QED
    BY <2>1, <2>2
<1>3. ASSUME requests' = Goto(h, "insert"), UNCHANGED <<users, roles>>,
             requests[h].pc \in {"name", "pick"}, ~NameTaken(requests[h].name)
      PROVE  LookUpsCover'
  <2> DEFINE r == at("insert")
  <2>1. "insert" \in Places
    BY DEF Places
  <2>2. /\ Goto(h, "insert") = [requests EXCEPT ![h] = r] /\ r.pc = "insert"
        /\ r.google = requests[h].google /\ r.email = requests[h].email
        /\ r.name = requests[h].name /\ r.overtaken = requests[h].overtaken
    BY <2>1, PlaceOnly
  <2> HIDE DEF r
  <2>3. ASSUME ~r.overtaken, NEW id \in DOMAIN users PROVE ~Clash(Row(r), users[id])
    <3>1. ~EmailTaken(requests[h].email) /\ ~SameGoogle(requests[h], users[id])
      <4>1. ~EmailTaken(requests[h].email)
        BY <1>1, <1>3, <2>2, <2>3 DEF StillCovered
      <4>2. CASE requests[h].google = BlankId
        BY <4>1, <4>2, BlankRows DEF EmailTaken
      <4>3. CASE requests[h].google # BlankId
        BY <1>1, <1>3, <2>2, <2>3, <4>3 DEF StillCovered, SameGoogle
      <4> QED
        BY <4>1, <4>2, <4>3
    <3> QED
      BY <1>3, <2>2, <3>1 DEF Clash, Row, SameGoogle, EmailTaken, NameTaken
  <2>4. StillCovered(r)
    BY <2>2, <2>3 DEF StillCovered
  <2> QED
    BY <1>3, <2>2, <2>4, MoveCovers
<1>4. CASE CheckName(h)
  BY <1>3, <1>4, EndCovers DEF CheckName
<1>5. CASE FindById(h)
  <2>1. CASE requests' = [requests EXCEPT ![h] = Done]
    BY <1>5, <2>1, EndCovers DEF FindById
  <2>2. ASSUME requests' = Goto(h, "byEmail"), requests[h].google # BlankId =>
                 \A id \in DOMAIN users : users[id].google # requests[h].google
        PROVE  LookUpsCover'
    <3> DEFINE r == at("byEmail")
    <3>1. "byEmail" \in Places
      BY DEF Places
    <3>2. /\ Goto(h, "byEmail") = [requests EXCEPT ![h] = r] /\ r.pc = "byEmail"
          /\ r.google = requests[h].google
      BY <3>1, PlaceOnly
    <3> HIDE DEF r
    <3>3. StillCovered(r)
      BY <2>2, <3>2 DEF StillCovered, SameGoogle
    <3> QED
      BY <1>5, <2>2, <3>2, <3>3, MoveCovers DEF FindById
  <2> QED
    BY <1>5, <2>1, <2>2 DEF FindById
<1>6. CASE Pick(h)
  <2>1. CASE ~NameTaken(requests[h].name)
    BY <1>3, <1>6, <2>1 DEF Pick
  <2>2. CASE NameTaken(requests[h].name)
    <3> DEFINE next == <<requests[h].name[1], requests[h].name[2] + 1>>
               r == [requests[h] EXCEPT !.name = next]
    <3>1. requests' = [requests EXCEPT ![h] = r]
      BY <1>6, <2>2 DEF Pick
    <3> HIDE DEF next
    <3>2. r.pc = requests[h].pc /\ r.google = requests[h].google
          /\ r.email = requests[h].email /\ r.overtaken = requests[h].overtaken
      BY <1>1 DEF RequestRecord
    <3> HIDE DEF r
    <3>3. StillCovered(r)
      BY <1>1, <1>6, <3>2 DEF StillCovered, Pick, SameGoogle
    <3> QED
      BY <1>6, <3>1, <3>3, MoveCovers DEF Pick
  <2> QED
    BY <2>1, <2>2
<1> QED
  BY <1>2, <1>4, <1>5, <1>6

LEMMA FindByEmailCovers ==
  ASSUME AccountInv, LookUpsCover, NEW h \in Handlers, FindByEmail(h)
  PROVE  LookUpsCover'
<1>1. requests[h] \in RequestRecord /\ StillCovered(requests[h]) /\ requests[h].pc = "byEmail"
  BY DEF AccountInv, TypeOK, LookUpsCover, FindByEmail
<1>2. CASE requests' = [requests EXCEPT ![h] = Done]
  BY <1>2, EndCovers DEF FindByEmail
<1>3. ASSUME NEW id \in DOMAIN users, users[id].email = requests[h].email,
             requests' = [requests EXCEPT ![h].pc = "role", ![h].user = id]
      PROVE  LookUpsCover'
  <2> DEFINE r == [requests[h] EXCEPT !.pc = "role", !.user = id]
  <2>1. /\ r.pc = "role" /\ r.google = requests[h].google /\ r.overtaken = requests[h].overtaken
        /\ r.user = id
    BY <1>1 DEF RequestRecord
  <2>2. requests' = [requests EXCEPT ![h] = r]
    BY <1>3
  <2> HIDE DEF r
  <2>3. ASSUME ~r.overtaken, NEW other \in DOMAIN users \ {id} PROVE ~SameGoogle(r, users[other])
    <3>1. ~SameGoogle(requests[h], users[other])
      <4>1. CASE requests[h].google = BlankId
        BY <1>3, <2>3, <4>1, BlankRows DEF AccountInv, RowsDistinct, Clash
      <4>2. CASE requests[h].google # BlankId
        BY <1>1, <2>1, <2>3, <4>2 DEF StillCovered
      <4> QED
        BY <4>1, <4>2
    <3> QED
      BY <2>1, <3>1 DEF SameGoogle
  <2>4. StillCovered(r)
    BY <2>1, <2>3 DEF StillCovered
  <2> QED
    BY <2>2, <2>4, MoveCovers DEF FindByEmail
<1>4. CASE ~EmailTaken(requests[h].email)
           /\ requests' = [requests EXCEPT ![h].pc = "pick",
                                            ![h].name = <<LocalPart[requests[h].email], 0>>]
  <2> DEFINE n == <<LocalPart[requests[h].email], 0>>
             r == [requests[h] EXCEPT !.pc = "pick", !.name = n]
  <2>1. requests' = [requests EXCEPT ![h] = r]
    BY <1>4
  <2> HIDE DEF n
  <2>2. r.pc = "pick" /\ r.google = requests[h].google /\ r.email = requests[h].email
        /\ r.overtaken = requests[h].overtaken
    BY <1>1 DEF RequestRecord
  <2> HIDE DEF r
  <2>3. StillCovered(r)
    BY <1>1, <1>4, <2>2 DEF StillCovered, SameGoogle
  <2> QED
    BY <2>1, <2>3, MoveCovers DEF FindByEmail
<1> QED
  BY <1>2, <1>3, <1>4 DEF FindByEmail

LEMMA ReadRoleCovers ==
  ASSUME AccountInv, LookUpsCover, NEW h \in Handlers, ReadRole(h)
  PROVE  LookUpsCover'
<1> DEFINE pc == IF requests[h].pc = "role" THEN "link" ELSE "commit"
           role == IF ~seeded THEN "none"
                   ELSE IF requests[h].pc = "role" /\ requests[h].user \in residents THEN "held"
                   ELSE "missing"
           r == [requests[h] EXCEPT !.pc = pc, !.role = role]
<1>1. /\ requests[h] \in RequestRecord /\ StillCovered(requests[h])
      /\ requests[h].pc \in {"role", "grant"}
  BY DEF AccountInv, TypeOK, LookUpsCover, ReadRole
<1>2. requests' = [requests EXCEPT ![h] = r]
  BY DEF ReadRole
<1>3. /\ pc \in {"link", "commit"} /\ (pc = "link" => requests[h].pc = "role")
      /\ pc = "link" /\ role = "missing" => requests[h].user \notin residents
  BY <1>1
<1> HIDE DEF pc, role
<1>4. r.pc = pc /\ r.google = requests[h].google /\ r.overtaken = requests[h].overtaken
      /\ r.user = requests[h].user /\ r.role = role
  BY <1>1 DEF RequestRecord
<1> HIDE DEF r
<1>5. StillCovered(r)
  BY <1>1, <1>3, <1>4 DEF StillCovered, SameGoogle
<1> QED
  BY <1>2, <1>5, MoveCovers DEF ReadRole

LEMMA ArriveCovers ==
  ASSUME AccountInv, LookUpsCover, NEW h \in Handlers, Arrive(h)
  PROVE  LookUpsCover'
<1>1. ASSUME NEW e, NEW n, Register(h, e, n) PROVE LookUpsCover'
  <2> DEFINE r == [Done EXCEPT !.pc = "email", !.email = e, !.name = n]
  <2>1. requests' = [requests EXCEPT ![h] = r] /\ r.pc = "email" /\ r.google = NoGoogle
    BY <1>1, DoneTyped DEF Register, RequestRecord
  <2> HIDE DEF r
  <2>2. StillCovered(r)
    BY <2>1 DEF StillCovered
  <2> QED
    BY <1>1, <2>1, <2>2, MoveCovers DEF Register
<1>2. ASSUME NEW g, NEW e, GoogleSignIn(h, g, e) PROVE LookUpsCover'
  <2> DEFINE r == [Done EXCEPT !.pc = "byId", !.google = g, !.email = e]
  <2>1. requests' = [requests EXCEPT ![h] = r] /\ r.pc = "byId"
    BY <1>2, DoneTyped DEF GoogleSignIn, RequestRecord
  <2> HIDE DEF r
  <2>2. StillCovered(r)
    BY <2>1 DEF StillCovered
  <2> QED
    BY <1>2, <2>1, <2>2, MoveCovers DEF GoogleSignIn
<1> QED
  BY <1>1, <1>2 DEF Arrive

\* A write fits, unless the request has been overtaken.
LEMMA WriteCovers ==
  ASSUME AccountInv, LookUpsCover, NEW h \in Handlers, Insert(h) \/ Link(h)
  PROVE  LookUpsCover'
<1>1. requests[h] \in RequestRecord /\ StillCovered(requests[h])
  BY DEF AccountInv, TypeOK, LookUpsCover
<1>2. /\ requests[h].overtaken \/ (requests[h].pc = "insert" => InsertFits(h))
      /\ requests[h].overtaken \/ (requests[h].pc = "link" => LinkFits(h))
  <2> SUFFICES ASSUME ~requests[h].overtaken
               PROVE  /\ requests[h].pc = "insert" => InsertFits(h)
                      /\ requests[h].pc = "link" => LinkFits(h)
    OBVIOUS
  <2>1. requests[h].pc = "insert" => InsertFits(h)
    BY <1>1 DEF StillCovered, InsertFits
  <2>2. requests[h].pc = "link" => LinkFits(h)
    BY <1>1 DEF StillCovered, LinkFits
  <2> QED
    BY <2>1, <2>2
<1>3. ASSUME NEW pc \in {"grant", "conflict"}, requests' = Goto(h, pc),
             pc = "conflict" => requests[h].overtaken, UNCHANGED <<users, roles>>
      PROVE  LookUpsCover'
  <2> DEFINE r == [requests[h] EXCEPT !.pc = pc]
  <2>1. pc \in Places
    BY DEF Places
  <2>2. Goto(h, pc) = [requests EXCEPT ![h] = r] /\ r.pc = pc
        /\ r.overtaken = requests[h].overtaken
    BY <2>1, PlaceOnly
  <2> HIDE DEF r
  <2>3. StillCovered(r)
    BY <1>3, <2>2 DEF StillCovered
  <2> QED
    BY <1>3, <2>2, <2>3, MoveCovers
<1>4. CASE Insert(h)
  BY <1>2, <1>3, <1>4 DEF Insert
<1>5. CASE Link(h)
  BY <1>2, <1>3, <1>5, CommitCovers DEF Link
<1> QED
  BY <1>4, <1>5

\* Every step keeps what the look-ups established.
LEMMA NextCovers == AccountInv /\ LookUpsCover /\ [Next]_vars => LookUpsCover'
<1> SUFFICES ASSUME AccountInv, LookUpsCover, [Next]_vars PROVE LookUpsCover'
  OBVIOUS
<1>1. ASSUME NEW h \in Handlers, Commit(h) PROVE LookUpsCover'
  BY <1>1, CommitCovers DEF Commit
<1>2. ASSUME NEW h \in Handlers, Rollback(h) \/ Fail(h) PROVE LookUpsCover'
  BY <1>2, EndCovers DEF Rollback, Fail
<1>3. CASE UNCHANGED vars
  BY <1>3 DEF vars, moving, LookUpsCover, StillCovered, EmailTaken, SameGoogle, Clash, Row
<1>4. CASE SeedCommits
  <2> DEFINE late == ~seeded
  <2>1. late \in BOOLEAN /\ \A k \in Handlers : requests'[k] = Overtaken(requests[k], late)
    BY <1>4 DEF SeedCommits
  <2> HIDE DEF late
  <2>2. \A k \in Handlers : requests'[k].pc = "idle" \/ requests'[k].overtaken
    BY <2>1, OvertakenTyped DEF AccountInv, TypeOK
  <2> QED
    BY <2>2 DEF LookUpsCover, StillCovered
<1>5. CASE SeedReads \/ SeedLooks \/ SeedFails
  BY <1>5 DEF SeedReads, SeedLooks, SeedFails, LookUpsCover, StillCovered, EmailTaken, SameGoogle,
              Clash, Row
<1> QED
  BY <1>1, <1>2, <1>3, <1>4, <1>5, LookUpCovers, FindByEmailCovers, ReadRoleCovers, ArriveCovers,
     WriteCovers DEF Next, Step, Seed

(* A request that nobody overtakes never meets a unique constraint: register *)
(* and _find_or_create_google_user look up all that their writes rely on.    *)
THEOREM ConflictsExplained == Spec => []ConflictOnlyWhenOvertaken
<1>1. Init => LookUpsCover
  BY DoneTyped DEF Init, LookUpsCover, StillCovered
<1>2. LookUpsCover => ConflictOnlyWhenOvertaken
  BY DEF LookUpsCover, StillCovered, ConflictOnlyWhenOvertaken
<1> QED
  BY <1>1, <1>2, NextCovers, AccountInvAlways, PTL DEF Spec

-----------------------------------------------------------------------------
\* The seeded accounts are a first state of the book.
LEMMA InitBook == Init => Book!Init
<1> SUFFICES ASSUME Init PROVE Book!Init
  OBVIOUS
<1>1. users \in Seq(UserRow)
  BY InitInv DEF AccountInv, TypeOK
<1>2. /\ \A i, j \in DOMAIN users : i = j
      /\ \A id \in DOMAIN users : users[id].google = NoGoogle
  BY DEF Init
<1> QED
  BY <1>1, <1>2 DEF Init, Book!Init, UserRow, Book!Account

\* A commit opens an account.
LEMMA CommitOpens ==
  ASSUME AccountInv, NEW h \in Handlers, Commit(h)
  PROVE  Book!Next
<1> DEFINE r == requests[h]
           new == Len(users) + 1
<1>1. /\ Row(r) \in UserRow /\ users' = Append(users, Row(r)) /\ Len(users') = new
      /\ users'[new] = Row(r)
  BY CommitRows
<1>2. r \in RequestRecord /\ RequestSound(r) /\ r.pc = "commit"
  BY DEF AccountInv, TypeOK, Commit
<1>3. Row(r).google \in {NoGoogle, EmailOwner[Row(r).email]}
  BY <1>2 DEF RequestSound, Row
<1>4. \A id \in DOMAIN users : ~Book!Alike(Row(r), users[id])
  BY <1>2 DEF RequestSound, Holds, Clash, SameGoogle, Row, Book!Alike
<1>5. IF Row(r).google = NoGoogle THEN UNCHANGED signedIn ELSE Book!Answer(Row(r).google, new)
  BY DEF Commit, SignIn, Book!Answer, Row
<1>6. Book!Last(users') = Row(r)
  BY <1>1 DEF Book!Last
<1>7. users' # << >>
  <2>1. users \in Seq(UserRow)
    BY DEF AccountInv, TypeOK
  <2> QED
    BY <1>1, <2>1
<1>8. Book!Open(Row(r))
  BY <1>1, <1>3, <1>4, <1>5 DEF Book!Open, Book!Account, UserRow
<1> QED
  BY <1>6, <1>7, <1>8 DEF Book!Next

(* A link is one step too; the second of two links of an account returns it. *)
LEMMA LinkLinks ==
  ASSUME AccountInv, NEW h \in Handlers, Link(h), requests' # Goto(h, "conflict")
  PROVE  Book!Next
<1> DEFINE r == requests[h]
           u == r.user
           row == [users[u] EXCEPT !.google = r.google]
<1>1. /\ LinkFits(h) /\ r.google \in GoogleIds /\ u \in DOMAIN users
      /\ users[u].email = r.email /\ EmailOwner[r.email] = r.google
      /\ users[u].google \in {NoGoogle, r.google}
      /\ users' = [users EXCEPT ![u] = row]
      /\ users[u].google = r.google => row = users[u]
      /\ SignIn(h, u)
  BY LinkRows
<1>2. Book!Answer(r.google, u)
  BY <1>1 DEF SignIn, Book!Answer
<1>3. r.google # NoGoogle
  BY <1>1, AccountsAssumption
<1>4. CASE users[u].google = NoGoogle
  <2>1. \A id \in DOMAIN users : users[id].google # r.google
    BY <1>1, <1>3, <1>4 DEF LinkFits, SameGoogle
  <2>2. users' = [users EXCEPT ![u].google = r.google]
    BY <1>1
  <2>3. Book!Link(r.google, u)
    BY <1>1, <1>2, <1>4, <2>1, <2>2 DEF Book!Link
  <2> QED
    BY <1>1, <2>3 DEF Book!Next
<1>5. CASE users[u].google = r.google
  <2>1. row = users[u] /\ users \in Seq(UserRow)
    BY <1>1, <1>5 DEF AccountInv, TypeOK
  <2> HIDE DEF row
  <2>2. UNCHANGED users
    BY <1>1, <2>1
  <2>3. Book!Return(r.google, u)
    BY <1>2, <1>5, <2>2 DEF Book!Return
  <2> QED
    BY <1>1, <2>3 DEF Book!Next
<1> QED
  BY <1>1, <1>4, <1>5

\* The answer of a look-up returns the account of the person who asks.
LEMMA FindReturns ==
  ASSUME AccountInv, NEW h \in Handlers, FindById(h) \/ FindByEmail(h),
         signedIn' # signedIn
  PROVE  Book!Next
<1> DEFINE r == requests[h]
<1>1. r \in RequestRecord /\ RequestSound(r)
  BY DEF AccountInv, TypeOK
<1>2. r.google \in GoogleIds /\ r.google = EmailOwner[r.email]
  BY <1>1 DEF RequestRecord, RequestSound, FindById, FindByEmail
<1>3. PICK id \in DOMAIN users : users[id].google = r.google /\ SignIn(h, id)
  BY <1>2 DEF FindById, FindByEmail, AccountInv, RowsOwned
<1>4. UNCHANGED <<users, roles>>
  BY DEF FindById, FindByEmail
<1>5. Book!Return(r.google, id)
  BY <1>3, <1>4 DEF Book!Return, Book!Answer, SignIn
<1> QED
  BY <1>2, <1>5 DEF Book!Next

(* Registration and Google sign-in implement the account book: a commit opens  *)
(* or links an account that is still as the look-ups found it, an answer       *)
(* returns one, and every other statement, a conflict and a failure leave the  *)
(* book alone (register, _find_or_create_google_user, get_db).                 *)
THEOREM RequestsActAtOnce == Spec => ActsAtOnce
<1>1. AccountInv /\ [Next]_vars => [Book!Next]_(Book!vars)
  <2> SUFFICES ASSUME AccountInv, [Next]_vars PROVE [Book!Next]_(Book!vars)
    OBVIOUS
  <2>1. ASSUME NEW h \in Handlers, Commit(h) PROVE Book!Next
    BY <2>1, CommitOpens
  <2>2. ASSUME NEW h \in Handlers, Link(h) PROVE [Book!Next]_(Book!vars)
    <3>1. CASE requests' # Goto(h, "conflict")
      BY <2>2, <3>1, LinkLinks
    <3>2. CASE requests' = Goto(h, "conflict")
      BY <2>2, <3>2, LinkEnds DEF Book!vars
    <3> QED
      BY <3>1, <3>2
  <2>3. ASSUME NEW h \in Handlers, FindById(h) \/ FindByEmail(h) PROVE [Book!Next]_(Book!vars)
    <3>1. CASE signedIn' # signedIn
      BY <2>3, <3>1, FindReturns
    <3>2. CASE signedIn' = signedIn
      BY <2>3, <3>2 DEF FindById, FindByEmail, Book!vars
    <3> QED
      BY <3>1, <3>2
  <2>4. ASSUME NEW h \in Handlers,
               \/ Arrive(h) \/ CheckEmail(h) \/ CheckName(h) \/ ReadRole(h) \/ Pick(h)
               \/ Insert(h) \/ Rollback(h) \/ Fail(h)
        PROVE  UNCHANGED Book!vars
    <3>1. CASE Arrive(h)
      <4>1. ASSUME NEW e, NEW n, Register(h, e, n) PROVE UNCHANGED Book!vars
        BY <4>1 DEF Register, Book!vars
      <4>2. ASSUME NEW g, NEW e, GoogleSignIn(h, g, e) PROVE UNCHANGED Book!vars
        BY <4>2 DEF GoogleSignIn, Book!vars
      <4> QED
        BY <3>1, <4>1, <4>2 DEF Arrive
    <3>2. CASE CheckEmail(h) \/ CheckName(h) \/ Pick(h) \/ ReadRole(h)
      BY <3>2 DEF CheckEmail, CheckName, Pick, ReadRole, Book!vars
    <3>3. CASE Insert(h) \/ Rollback(h) \/ Fail(h)
      BY <3>3 DEF Insert, Rollback, Fail, Book!vars
    <3> QED
      BY <2>4, <3>1, <3>2, <3>3
  <2>5. CASE UNCHANGED vars
    BY <2>5 DEF vars, moving, Book!vars
  <2>6. CASE Seed
    BY <2>6 DEF Seed, SeedReads, SeedLooks, SeedCommits, SeedFails, Book!vars
  <2> QED
    BY <2>1, <2>2, <2>3, <2>4, <2>5, <2>6 DEF Next, Step
<1> QED
  BY <1>1, InitBook, InitInv, NextInv, PTL DEF Spec, ActsAtOnce, Book!Spec
=============================================================================
