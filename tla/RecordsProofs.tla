---------------------------- MODULE RecordsProofs ----------------------------
(***************************************************************************)
(* Proofs about the records, for any number of rows, keys, columns,        *)
(* handlers and workers, and any mix of operations.                        *)
(***************************************************************************)
EXTENDS Records, FiniteSetTheorems, FunctionTheorems, TLAPS

(* A request holds locks only between its flush and its commit, on rows that   *)
(* are there; a creating one has a fresh id and a key that no row has; what a  *)
(* patching one read is still in the row, but for the columns it noted.        *)
Sound(p, r) ==
  /\ r.pc # "commit" => r.locks = {}
  /\ r.op \in {"create", "patch", "delete"} => p \in Handlers
  /\ r.op \in {"delete", "cleanup"} => r.locks \subseteq Ids
  /\ r.locks \intersect Ids \subseteq Live
SoundCreate(r) ==
  r.op = "create" =>
    /\ rows[r.id].state = "new"
    /\ r.pc = "commit" /\ r.key # NoKey => r.key \in r.locks /\ \A i \in Live : rows[i].key # r.key
SoundPatch(r) ==
  r.op = "patch" =>
    /\ rows[r.id].state # "new"
    /\ \A f \in Fields : rows[r.id].val[f] = r.read[f] \/ f \in r.overtaken
    /\ r.pc = "commit" => ~Refuses(r) /\ (Changes(r) # {} => r.id \in r.locks)

Apart(p, q) ==
  /\ request[p].locks \intersect request[q].locks = {}
  /\ request[p].op = "create" /\ request[q].op = "create" => request[p].id # request[q].id

RecordInv ==
  /\ TypeOK
  /\ \A p \in Processes : Sound(p, request[p]) /\ SoundCreate(request[p]) /\ SoundPatch(request[p])
  /\ \A p \in Processes : \A q \in Processes \ {p} : Apart(p, q)
  /\ OneRowPerKey

\* A process without a request.
LEMMA IdleTyped ==
  /\ Idle \in Request /\ Idle.pc = "idle" /\ Idle.op = "none" /\ Idle.locks = {}
  /\ \A p \in Processes : Sound(p, Idle) /\ SoundCreate(Idle) /\ SoundPatch(Idle)
<1>1. (CHOOSE i \in Ids : TRUE) \in Ids
  BY RowsAssumption
<1> QED
  BY <1>1, RowsAssumption DEF Idle, Request, Blank, Sound, SoundCreate, SoundPatch

\* The first state.
LEMMA InitInv == Init => RecordInv
<1> SUFFICES ASSUME Init PROVE RecordInv
  OBVIOUS
<1>1. PICK m \in Mixes : /\ offered = m.operations
                        /\ rows = [i \in Ids |->
                             [state |-> IF i \in DOMAIN m.stock THEN "live" ELSE "new", key |-> NoKey,
                              val |-> Blank, born |-> IF i \in DOMAIN m.stock THEN m.stock[i] ELSE 0]]
  BY DEF Init
<1>2. offered \subseteq Operations
  BY <1>1, WorkAssumption
<1>3. ASSUME NEW i \in Ids
      PROVE  rows[i] \in Row /\ rows[i].key = NoKey
  <2>1. (IF i \in DOMAIN m.stock THEN m.stock[i] ELSE 0) \in 0 .. MaxTime
    BY WorkAssumption
  <2>2. Blank \in [Fields -> Values]
    BY RowsAssumption DEF Blank
  <2> QED
    BY <1>1, <2>1, <2>2 DEF Row
<1>4. rows \in [Ids -> Row]
  BY <1>1, <1>3
<1>5. TypeOK
  <2>1. request \in [Processes -> Request]
    BY IdleTyped DEF Init
  <2>2. walk \in Walk
    BY DEF Init, Walk
  <2>3. cutoff \in 0 .. MaxTime
    BY WorkAssumption DEF Init
  <2>4. job \in BOOLEAN
    BY DEF Init
  <2> QED
    BY <1>2, <1>4, <2>1, <2>2, <2>3, <2>4 DEF TypeOK
<1>6. OneRowPerKey
  BY <1>3 DEF OneRowPerKey, Live
<1>7. \A p \in Processes : request[p] = Idle
  BY DEF Init
<1>8. \A p \in Processes : \A q \in Processes \ {p} : Apart(p, q)
  BY <1>7, IdleTyped DEF Apart
<1> QED
  BY <1>5, <1>6, <1>7, <1>8, IdleTyped DEF RecordInv

-----------------------------------------------------------------------------
(* Steps that move one request and leave the rows alone. *)

LEMMA MoveKeeps ==
  ASSUME RecordInv, NEW p \in Processes, NEW r \in Request,
         request' = [request EXCEPT ![p] = r], UNCHANGED <<offered, rows, cutoff, walk>>, job' \in BOOLEAN,
         Sound(p, r), SoundCreate(r), SoundPatch(r),
         \A q \in Processes \ {p} :
           /\ r.locks \intersect request[q].locks = {}
           /\ r.op = "create" /\ request[q].op = "create" => r.id # request[q].id
  PROVE  RecordInv'
<1>1. request \in [Processes -> Request] /\ request' \in [Processes -> Request]
  BY DEF RecordInv, TypeOK
<1>2. TypeOK'
  BY <1>1 DEF RecordInv, TypeOK
<1>3. \A q \in Processes : request'[q] = IF q = p THEN r ELSE request[q]
  BY <1>1
<1>4. Live' = Live
  BY DEF Live
<1>5. \A q \in Processes : Sound(q, request'[q]) /\ SoundCreate(request'[q]) /\ SoundPatch(request'[q])
  BY <1>3 DEF RecordInv
<1>6. \A q \in Processes : (Sound(q, request[q]) /\ SoundCreate(request[q]) /\ SoundPatch(request[q]))'
  BY <1>4, <1>5 DEF Sound, SoundCreate, SoundPatch, Refuses, Changes
<1>7. \A q, s \in Processes : q # s => Apart(q, s)'
  BY <1>3 DEF RecordInv, Apart
<1>8. OneRowPerKey'
  BY <1>4 DEF RecordInv, OneRowPerKey
<1> QED
  BY <1>2, <1>6, <1>7, <1>8 DEF RecordInv

\* The end of a request that wrote nothing.
LEMMA EndKeeps ==
  ASSUME RecordInv, NEW p \in Processes, request' = [request EXCEPT ![p] = Idle],
         UNCHANGED <<offered, rows, cutoff, walk>>, job' \in BOOLEAN
  PROVE  RecordInv'
BY IdleTyped, MoveKeeps

\* Create, Patch, Delete and CleanUp: a request begins with no lock.
LEMMA BeginKeeps ==
  ASSUME RecordInv, NEW p \in Processes, NEW r \in Request, r.pc = "flush", r.locks = {},
         request' = [request EXCEPT ![p] = r], UNCHANGED <<offered, rows, cutoff, job, walk>>,
         r.op \in {"create", "patch", "delete"} => p \in Handlers,
         r.op = "create" => /\ rows[r.id].state = "new"
                            /\ \A g \in Handlers : request[g].op = "create" => request[g].id # r.id,
         r.op = "patch" => r.id \in Live /\ r.read = rows[r.id].val
  PROVE  RecordInv'
<1>1. job' \in BOOLEAN
  BY DEF RecordInv, TypeOK
<1>2. Sound(p, r) /\ SoundCreate(r) /\ SoundPatch(r)
  BY DEF Sound, SoundCreate, SoundPatch, Live
<1>3. \A q \in Processes \ {p} : r.op = "create" /\ request[q].op = "create" => r.id # request[q].id
  BY DEF RecordInv, Sound
<1> QED
  BY <1>1, <1>2, <1>3, MoveKeeps

LEMMA AskKeeps ==
  ASSUME RecordInv, NEW h \in Handlers, Ask(h)
  PROVE  RecordInv'
<1>1. Idle \in Request /\ h \in Processes
  BY IdleTyped DEF Processes
<1>2. CASE \E i \in Ids, k \in Keys \union {NoKey} : Create(h, i, k)
  <2>1. PICK i \in Ids, k \in Keys \union {NoKey} : Create(h, i, k)
    BY <1>2
  <2> DEFINE r == [Idle EXCEPT !.op = "create", !.pc = "flush", !.id = i, !.key = k]
  <2>2. r \in Request /\ r.op = "create" /\ r.pc = "flush" /\ r.locks = {} /\ r.id = i
    BY <1>1 DEF Request, Idle
  <2>3. /\ request' = [request EXCEPT ![h] = r] /\ UNCHANGED <<offered, rows, cutoff, job, walk>>
        /\ rows[i].state = "new" /\ \A g \in Handlers : request[g].op = "create" => request[g].id # i
    BY <2>1 DEF Create
  <2> HIDE DEF r
  <2> QED
    BY <1>1, <2>2, <2>3, BeginKeeps
<1>3. CASE \E i \in Ids, want \in Bodies : Patch(h, i, want)
  <2>1. PICK i \in Ids, want \in Bodies : Patch(h, i, want)
    BY <1>3
  <2> DEFINE r == [Idle EXCEPT !.op = "patch", !.pc = "flush", !.id = i, !.asked = want, !.read = rows[i].val]
  <2>2. rows[i].val \in [Fields -> Values]
    BY DEF RecordInv, TypeOK, Row
  <2>3. want \in [Fields -> Values \union {Refused, Unset}]
    BY RowsAssumption
  <2>4. /\ r \in Request /\ r.op = "patch" /\ r.pc = "flush" /\ r.locks = {} /\ r.id = i
        /\ r.read = rows[i].val
    BY <1>1, <2>2, <2>3 DEF Request, Idle
  <2>5. /\ request' = [request EXCEPT ![h] = r] /\ UNCHANGED <<offered, rows, cutoff, job, walk>>
        /\ i \in Live
    BY <2>1 DEF Patch
  <2> HIDE DEF r
  <2> QED
    BY <1>1, <2>4, <2>5, BeginKeeps
<1>4. CASE \E i \in Ids : Delete(h, i)
  <2>1. PICK i \in Ids : Delete(h, i)
    BY <1>4
  <2> DEFINE r == [Idle EXCEPT !.op = "delete", !.pc = "flush", !.id = i]
  <2>2. r \in Request /\ r.op = "delete" /\ r.pc = "flush" /\ r.locks = {}
    BY <1>1 DEF Request, Idle
  <2>3. request' = [request EXCEPT ![h] = r] /\ UNCHANGED <<offered, rows, cutoff, job, walk>>
    BY <2>1 DEF Delete
  <2> HIDE DEF r
  <2> QED
    BY <1>1, <2>2, <2>3, BeginKeeps
<1> QED
  BY <1>2, <1>3, <1>4 DEF Ask

LEMMA CleanUpKeeps ==
  ASSUME RecordInv, NEW w \in Workers, CleanUp(w)
  PROVE  RecordInv'
<1> DEFINE r == [Idle EXCEPT !.op = "cleanup", !.pc = "flush"]
<1>1. r \in Request /\ r.op = "cleanup" /\ r.pc = "flush" /\ r.locks = {}
  BY IdleTyped DEF Request, Idle
<1>2. request' = [request EXCEPT ![w] = r] /\ UNCHANGED <<offered, rows, cutoff, job, walk>>
  BY DEF CleanUp
<1>3. w \in Processes
  BY DEF Processes
<1> HIDE DEF r
<1> QED
  BY <1>1, <1>2, <1>3, BeginKeeps

\* A flush takes free locks on rows that are there, or a new key; or is refused.
LEMMA FlushKeeps ==
  ASSUME RecordInv, NEW p \in Processes, Flush(p)
  PROVE  RecordInv'
<1> DEFINE ok == Accepted(request[p])
           taken == Claim(request[p]) \intersect (Live \union Keys)
           r == [request[p] EXCEPT !.pc = IF ok THEN "commit" ELSE "rollback",
                                   !.locks = IF ok THEN taken ELSE {}]
<1>1. /\ request[p] \in Request /\ request[p].pc = "flush"
      /\ Sound(p, request[p]) /\ SoundCreate(request[p]) /\ SoundPatch(request[p])
  BY DEF RecordInv, TypeOK, Flush
<1>2. taken \subseteq Ids \union Keys
  BY DEF Live
<1>3. /\ r \in Request /\ r.pc = (IF ok THEN "commit" ELSE "rollback")
      /\ r.locks = (IF ok THEN taken ELSE {})
      /\ r.op = request[p].op /\ r.id = request[p].id /\ r.key = request[p].key
      /\ r.asked = request[p].asked /\ r.read = request[p].read /\ r.overtaken = request[p].overtaken
  BY <1>1, <1>2 DEF Request
<1>4. request \in [Processes -> Request] /\ job' \in BOOLEAN
  BY DEF RecordInv, TypeOK, Flush
<1>5. request' = [request EXCEPT ![p] = r]
  BY <1>4 DEF Flush
<1>6. UNCHANGED <<offered, rows, cutoff, walk>> /\ ~Waits(p)
  BY DEF Flush
<1>7. Changes(r) = Changes(request[p]) /\ Refuses(r) = Refuses(request[p])
  BY <1>3 DEF Changes, Refuses
<1> HIDE DEF r
<1>8. Sound(p, r)
  <2>1. r.op \in {"delete", "cleanup"} => taken \subseteq Ids
    BY <1>3, RowsAssumption DEF Claim, OldRows, Live, Request
  <2>2. taken \intersect Ids \subseteq Live
    BY RowsAssumption
  <2> QED
    BY <1>1, <1>3, <2>1, <2>2 DEF Sound
<1>9. SoundCreate(r)
  <2>1. r.op = "create" /\ ok => r.key = NoKey \/ \A i \in Live : rows[i].key # r.key
    BY <1>3 DEF Accepted
  <2>2. r.op = "create" /\ r.key # NoKey => r.key \in taken
    BY <1>1, <1>3 DEF Claim, Request
  <2> QED
    BY <1>1, <1>3, <2>1, <2>2 DEF SoundCreate
<1>10. SoundPatch(r)
  <2>1. r.op = "patch" /\ ok => ~Refuses(r) /\ r.id \in Live
    BY <1>3, <1>7 DEF Accepted
  <2>2. r.op = "patch" /\ ok /\ Changes(r) # {} => r.id \in taken
    BY <1>3, <1>7, <2>1 DEF Claim
  <2> QED
    BY <1>1, <1>3, <2>1, <2>2 DEF SoundPatch
<1>11. \A q \in Processes \ {p} :
         /\ r.locks \intersect request[q].locks = {}
         /\ r.op = "create" /\ request[q].op = "create" => r.id # request[q].id
  BY <1>3, <1>6 DEF Waits, RecordInv, Apart
<1> QED
  BY <1>3, <1>4, <1>5, <1>6, <1>8, <1>9, <1>10, <1>11, MoveKeeps

-----------------------------------------------------------------------------
(* The commits. *)

\* A new row: nobody else holds its id or its key.
LEMMA CommitCreateKeeps ==
  ASSUME RecordInv, NEW p \in Processes, NEW t \in 0 .. MaxTime, CommitCreate(p, t)
  PROVE  RecordInv'
<1> DEFINE r == request[p]
           row == [state |-> "live", key |-> r.key, val |-> Blank, born |-> t]
<1>1. /\ r \in Request /\ r.pc = "commit" /\ r.op = "create"
      /\ rows' = [rows EXCEPT ![r.id] = row] /\ request' = [request EXCEPT ![p] = Idle]
      /\ UNCHANGED <<offered, cutoff, job>>
  BY DEF RecordInv, TypeOK, CommitCreate
<1>2. rows \in [Ids -> Row] /\ request \in [Processes -> Request] /\ walk \in Walk /\ r.id \in Ids
  BY <1>1 DEF RecordInv, TypeOK, Request
<1>3. row \in Row /\ row.state = "live" /\ row.key = r.key
  BY <1>1, RowsAssumption DEF Row, Request, Blank
<1>4. rows[r.id].state = "new" /\ (r.key # NoKey => r.key \in r.locks /\ \A i \in Live : rows[i].key # r.key)
  BY <1>1 DEF RecordInv, SoundCreate
<1>5. walk' \in Walk
  <2> DEFINE grown == IF Cardinality({i \in Live : rows[i].born > t}) < walk.skip
                       THEN walk.grown + 1 ELSE walk.grown
             fixed == walk.fixed /\ \A i \in Live : rows[i].born # t
  <2>1. grown \in Nat /\ fixed \in BOOLEAN
    BY <1>2 DEF Walk
  <2>2. walk' = [walk EXCEPT !.grown = grown, !.fixed = fixed]
    BY <1>2 DEF CommitCreate, Walk
  <2> HIDE DEF grown, fixed
  <2> QED
    BY <1>2, <2>1, <2>2 DEF Walk
<1> HIDE DEF row
<1>6. /\ \A i \in Ids : rows'[i] = IF i = r.id THEN row ELSE rows[i]
      /\ \A q \in Processes : request'[q] = IF q = p THEN Idle ELSE request[q]
  BY <1>1, <1>2
<1>7. TypeOK'
  <2>1. rows' \in [Ids -> Row] /\ request' \in [Processes -> Request]
    BY <1>1, <1>2, <1>3, IdleTyped
  <2> QED
    BY <1>1, <1>5, <2>1 DEF RecordInv, TypeOK
<1>8. Live' = Live \union {r.id} /\ r.id \notin Live
  BY <1>2, <1>3, <1>4, <1>6 DEF Live
<1>9. ASSUME NEW q \in Processes \ {p}
      PROVE  (Sound(q, request[q]) /\ SoundCreate(request[q]) /\ SoundPatch(request[q]))'
  <2>1. request'[q] = request[q] /\ request[q] \in Request
    BY <1>2, <1>6
  <2>2. Sound(q, request[q]) /\ SoundCreate(request[q]) /\ SoundPatch(request[q]) /\ Apart(q, p)
    BY DEF RecordInv
  <2>3. Sound(q, request[q])'
    BY <1>8, <2>1, <2>2 DEF Sound
  <2>4. SoundCreate(request[q])'
    BY <1>1, <1>3, <1>4, <1>6, <1>8, <2>1, <2>2 DEF SoundCreate, Apart, Request, Live
  <2>5. SoundPatch(request[q])'
    <3>1. request[q].op = "patch" => request[q].id # r.id
      BY <1>4, <2>2 DEF SoundPatch
    <3> QED
      BY <1>6, <2>1, <2>2, <3>1 DEF SoundPatch, Refuses, Changes, Request
  <2> QED
    BY <2>3, <2>4, <2>5
<1>10. (Sound(p, request[p]) /\ SoundCreate(request[p]) /\ SoundPatch(request[p]))'
  BY <1>6, IdleTyped DEF Sound, SoundCreate, SoundPatch
<1>11. \A q, s \in Processes : q # s => Apart(q, s)'
  BY <1>6, IdleTyped DEF RecordInv, Apart
<1>12. OneRowPerKey'
  BY <1>3, <1>4, <1>6, <1>8 DEF RecordInv, OneRowPerKey, Live
<1> QED
  BY <1>7, <1>9, <1>10, <1>11, <1>12 DEF RecordInv

\* A patched row: the others that have read it note the columns.
LEMMA CommitPatchKeeps ==
  ASSUME RecordInv, NEW p \in Processes, CommitPatch(p)
  PROVE  RecordInv'
<1> DEFINE r == request[p]
           new == Written(r)
<1>1. /\ r \in Request /\ r.pc = "commit" /\ r.op = "patch" /\ r.id \in Ids
      /\ Sound(p, r) /\ SoundPatch(r)
      /\ UNCHANGED <<offered, cutoff, job, walk>>
  BY DEF RecordInv, TypeOK, CommitPatch, Request
<1>2. rows \in [Ids -> Row] /\ request \in [Processes -> Request]
  BY DEF RecordInv, TypeOK
<1>3. new \in [Fields -> Values] /\ \A f \in Fields : new[f] = IF f \in Changes(r) THEN r.asked[f] ELSE rows[r.id].val[f]
  <2>1. \A f \in Changes(r) : r.asked[f] \in Values
    BY <1>1 DEF SoundPatch, Refuses, Changes, Request
  <2> QED
    BY <1>1, <1>2, <2>1 DEF Written, Row
<1>4. \A i \in Ids :
        /\ rows'[i] \in Row /\ rows'[i].state = rows[i].state /\ rows'[i].key = rows[i].key
        /\ rows'[i].val = IF i = r.id THEN new ELSE rows[i].val
  <2>1. CASE Changes(r) = {}
    <3>1. new = rows[r.id].val
      BY <1>1, <1>2, <1>3, <2>1 DEF Row
    <3>2. rows' = rows
      BY <2>1 DEF CommitPatch
    <3> HIDE DEF new
    <3> QED
      BY <1>2, <3>1, <3>2
  <2>2. CASE Changes(r) # {}
    <3>1. rows[r.id].state = "live"
      BY <1>1, <2>2 DEF SoundPatch, Sound, Live
    <3> HIDE DEF new
    <3> DEFINE row == [rows[r.id] EXCEPT !.state = "live", !.val = new]
    <3>2. row \in Row /\ row.state = "live" /\ row.key = rows[r.id].key /\ row.val = new
      <4>1. rows[r.id] \in Row /\ new \in [Fields -> Values]
        BY <1>1, <1>2, <1>3
      <4> QED
        BY <4>1 DEF Row
    <3>3. rows' = [rows EXCEPT ![r.id] = row]
      BY <1>1, <1>2, <2>2 DEF CommitPatch, new
    <3> HIDE DEF row
    <3>4. rows'[r.id] = row /\ \A i \in Ids \ {r.id} : rows'[i] = rows[i]
      BY <1>1, <1>2, <3>3
    <3> QED
      BY <1>2, <3>1, <3>2, <3>4
  <2> QED
    BY <2>1, <2>2
<1>5. rows' \in [Ids -> Row]
  BY <1>2, <1>4 DEF CommitPatch
<1>6. Live' = Live
  BY <1>4 DEF Live
<1>7. ASSUME NEW q \in Processes
      PROVE  /\ request'[q] \in Request
             /\ q = p => request'[q] = Idle
             /\ q # p => /\ request'[q].op = request[q].op /\ request'[q].pc = request[q].pc
                         /\ request'[q].id = request[q].id /\ request'[q].key = request[q].key
                         /\ request'[q].asked = request[q].asked /\ request'[q].read = request[q].read
                         /\ request'[q].locks = request[q].locks
                         /\ request[q].overtaken \subseteq request'[q].overtaken
                         /\ request[q].op = "patch" /\ request[q].id = r.id =>
                              Changes(r) \subseteq request'[q].overtaken
  <2> DEFINE noted == [request[q] EXCEPT !.overtaken = @ \union Changes(r)]
  <2>1. request'[q] = IF q = p THEN Idle
                     ELSE IF request[q].op = "patch" /\ request[q].id = r.id THEN noted ELSE request[q]
    BY DEF CommitPatch
  <2>2. request[q] \in Request
    BY <1>2
  <2>3. Changes(r) \subseteq Fields
    BY DEF Changes
  <2>4. /\ noted \in Request
        /\ noted.op = request[q].op /\ noted.pc = request[q].pc /\ noted.id = request[q].id
        /\ noted.key = request[q].key /\ noted.asked = request[q].asked /\ noted.read = request[q].read
        /\ noted.locks = request[q].locks /\ noted.overtaken = request[q].overtaken \union Changes(r)
    BY <2>2, <2>3 DEF Request
  <2> HIDE DEF noted
  <2> QED
    BY <2>1, <2>2, <2>4, IdleTyped
<1>8. TypeOK'
  <2>1. request' \in [Processes -> Request]
    BY <1>7 DEF CommitPatch
  <2> QED
    BY <1>1, <1>5, <2>1 DEF RecordInv, TypeOK
<1> HIDE DEF new
<1>9. ASSUME NEW q \in Processes \ {p}
      PROVE  (Sound(q, request[q]) /\ SoundCreate(request[q]) /\ SoundPatch(request[q]))'
  <2>1. Sound(q, request[q]) /\ SoundCreate(request[q]) /\ SoundPatch(request[q]) /\ request[q] \in Request
    BY <1>2 DEF RecordInv
  <2>2. Sound(q, request[q])'
    BY <1>6, <1>7, <2>1 DEF Sound
  <2>3. SoundCreate(request[q])'
    BY <1>4, <1>6, <1>7, <2>1 DEF SoundCreate, Request, Live
  <2>4. Changes(request[q])' = Changes(request[q]) /\ Refuses(request[q])' = Refuses(request[q])
    BY <1>7 DEF Changes, Refuses
  <2>5. ASSUME request[q].op = "patch", NEW f \in Fields
        PROVE  rows'[request[q].id].val[f] = request[q].read[f] \/ f \in request'[q].overtaken
    <3>1. rows[request[q].id].val[f] = request[q].read[f] \/ f \in request[q].overtaken
      BY <2>1, <2>5 DEF SoundPatch
    <3>2. request[q].id \in Ids
      BY <2>1 DEF Request
    <3> QED
      BY <1>3, <1>4, <1>7, <2>5, <3>1, <3>2
  <2>6. SoundPatch(request[q])'
    BY <1>4, <1>7, <2>1, <2>4, <2>5 DEF SoundPatch, Request
  <2> QED
    BY <2>2, <2>3, <2>6
<1>10. (Sound(p, request[p]) /\ SoundCreate(request[p]) /\ SoundPatch(request[p]))'
  BY <1>7, IdleTyped DEF Sound, SoundCreate, SoundPatch
<1>11. \A q, s \in Processes : q # s => Apart(q, s)'
  BY <1>7, IdleTyped DEF RecordInv, Apart
<1>12. OneRowPerKey'
  BY <1>4, <1>6 DEF RecordInv, OneRowPerKey, Live
<1> QED
  BY <1>8, <1>9, <1>10, <1>11, <1>12 DEF RecordInv

\* Removed rows: only those the request has locked, whatever was read of them.
LEMMA CommitRemovalKeeps ==
  ASSUME RecordInv, NEW p \in Processes, CommitRemoval(p)
  PROVE  RecordInv'
<1> DEFINE r == request[p]
           before == {i \in r.locks : Rank(i) <= walk.skip}
<1>1. /\ r \in Request /\ r.pc = "commit" /\ r.op \in {"delete", "cleanup"}
      /\ Sound(p, r) /\ r.locks \subseteq Live
      /\ request' = [request EXCEPT ![p] = Idle] /\ UNCHANGED <<offered, cutoff>>
  BY DEF RecordInv, TypeOK, CommitRemoval, Sound
<1>2. rows \in [Ids -> Row] /\ request \in [Processes -> Request] /\ walk \in Walk
  BY DEF RecordInv, TypeOK
<1>3. walk' \in Walk
  <2>1. before \subseteq Ids
    BY <1>1 DEF Live
  <2>2. Cardinality(before) \in Nat
    BY <2>1, RowsAssumption, FS_Subset, FS_CardinalityType
  <2> HIDE DEF before
  <2>3. [walk EXCEPT !.shrunk = @ + Cardinality(before)] \in Walk
    BY <1>2, <2>2 DEF Walk
  <2> QED
    BY <1>2, <2>3 DEF CommitRemoval, before
<1>4. \A i \in Ids :
        /\ rows'[i] \in Row /\ rows'[i].key = rows[i].key /\ rows'[i].val = rows[i].val
        /\ rows'[i].state = IF i \in r.locks THEN "gone" ELSE rows[i].state
  <2> SUFFICES ASSUME NEW i \in Ids
      PROVE  /\ rows'[i] \in Row /\ rows'[i].key = rows[i].key /\ rows'[i].val = rows[i].val
             /\ rows'[i].state = IF i \in r.locks THEN "gone" ELSE rows[i].state
    OBVIOUS
  <2> DEFINE gone == [rows[i] EXCEPT !.state = "gone"]
  <2>1. gone \in Row /\ gone.state = "gone" /\ gone.key = rows[i].key /\ gone.val = rows[i].val
    BY <1>2 DEF Row
  <2>2. rows'[i] = IF i \in r.locks THEN gone ELSE rows[i]
    BY DEF CommitRemoval
  <2> HIDE DEF gone
  <2> QED
    BY <1>2, <2>1, <2>2
<1>5. TypeOK'
  <2>1. rows' \in [Ids -> Row]
    BY <1>4 DEF CommitRemoval
  <2>2. job' \in BOOLEAN
    BY DEF CommitRemoval
  <2> QED
    BY <1>1, <1>2, <1>3, <2>1, <2>2, IdleTyped DEF RecordInv, TypeOK
<1>6. Live' = Live \ r.locks
  BY <1>4 DEF Live
<1>7. \A q \in Processes : request'[q] = IF q = p THEN Idle ELSE request[q]
  BY <1>1, <1>2
<1>8. ASSUME NEW q \in Processes \ {p}
      PROVE  (Sound(q, request[q]) /\ SoundCreate(request[q]) /\ SoundPatch(request[q]))'
  <2>1. /\ request'[q] = request[q] /\ request[q] \in Request
        /\ Sound(q, request[q]) /\ SoundCreate(request[q]) /\ SoundPatch(request[q]) /\ Apart(p, q)
    BY <1>2, <1>7 DEF RecordInv
  <2>2. Sound(q, request[q])'
    BY <1>6, <2>1 DEF Sound, Apart
  <2>3. SoundCreate(request[q])'
    BY <1>1, <1>4, <1>6, <2>1 DEF SoundCreate, Request, Live
  <2>4. SoundPatch(request[q])'
    BY <1>4, <2>1 DEF SoundPatch, Refuses, Changes, Request
  <2> QED
    BY <2>2, <2>3, <2>4
<1>9. (Sound(p, request[p]) /\ SoundCreate(request[p]) /\ SoundPatch(request[p]))'
  BY <1>7, IdleTyped DEF Sound, SoundCreate, SoundPatch
<1>10. \A q, s \in Processes : q # s => Apart(q, s)'
  BY <1>7, IdleTyped DEF RecordInv, Apart
<1>11. OneRowPerKey'
  BY <1>4, <1>6 DEF RecordInv, OneRowPerKey, Live
<1> QED
  BY <1>5, <1>8, <1>9, <1>10, <1>11 DEF RecordInv

\* Time, Beat and the reader leave the rows and the requests alone.
LEMMA AloneKeeps ==
  ASSUME RecordInv, UNCHANGED <<offered, rows, request>>,
         cutoff' \in 0 .. MaxTime, job' \in BOOLEAN, walk' \in Walk
  PROVE  RecordInv'
<1>1. TypeOK'
  BY DEF RecordInv, TypeOK
<1>2. Live' = Live
  BY DEF Live
<1> QED
  BY <1>1, <1>2 DEF RecordInv, Sound, SoundCreate, SoundPatch, Refuses, Changes, Apart, OneRowPerKey

LEMMA OtherStepsKeep ==
  ASSUME RecordInv, Age \/ Beat \/ BeginWalk \/ ReadPage \/ UNCHANGED vars
  PROVE  RecordInv'
<1>1. cutoff \in 0 .. MaxTime /\ walk \in Walk
  BY DEF RecordInv, TypeOK
<1>2. job \in BOOLEAN
  BY DEF RecordInv, TypeOK
<1>3. CASE Age
  BY <1>1, <1>2, <1>3, AloneKeeps, WorkAssumption DEF Age
<1>4. CASE Beat
  BY <1>1, <1>4, AloneKeeps DEF Beat
<1>5. CASE BeginWalk
  <2>1. Live \subseteq Ids
    BY DEF Live
  <2>2. [walk EXCEPT !.pc = "reading", !.first = Live] \in Walk
    BY <1>1, <2>1 DEF Walk
  <2> QED
    BY <1>1, <1>2, <1>5, <2>2, AloneKeeps DEF BeginWalk
<1>6. CASE ReadPage
  <2>0. PICK page \in Pages :
          /\ walk' = [walk EXCEPT
               !.pc = IF Cardinality(page) = PageSize THEN "reading" ELSE "over",
               !.skip = @ + PageSize, !.seen = @ \union page,
               !.twice = @ + Cardinality(page \intersect walk.seen)]
          /\ UNCHANGED <<offered, rows, cutoff, request, job>>
    BY <1>6 DEF ReadPage
  <2>1. page \subseteq Ids
    BY DEF Pages, Firsts, Live
  <2>2. Cardinality(page \intersect walk.seen) \in Nat
    BY <2>1, RowsAssumption, FS_Subset, FS_CardinalityType
  <2> DEFINE pc == IF Cardinality(page) = PageSize THEN "reading" ELSE "over"
             twice == Cardinality(page \intersect walk.seen)
  <2>3. pc \in {"reading", "over"} /\ twice \in Nat
    BY <2>2
  <2>4. walk' = [walk EXCEPT !.pc = pc, !.skip = @ + PageSize, !.seen = @ \union page, !.twice = @ + twice]
    BY <2>0
  <2> HIDE DEF pc, twice
  <2>7. walk.skip + PageSize \in Nat /\ walk.twice + twice \in Nat
    BY <1>1, <2>3, WorkAssumption DEF Walk
  <2>8. walk.seen \union page \in SUBSET Ids
    BY <1>1, <2>1 DEF Walk
  <2> DEFINE skip == walk.skip + PageSize
             again == walk.twice + twice
             seen == walk.seen \union page
  <2>9. walk' = [walk EXCEPT !.pc = pc, !.skip = skip, !.seen = seen, !.twice = again]
    BY <1>1, <2>4 DEF Walk
  <2> HIDE DEF skip, again, seen
  <2>5. walk' \in Walk
    <3>1. skip \in Nat /\ again \in Nat /\ seen \in SUBSET Ids
      BY <2>7, <2>8 DEF skip, again, seen
    <3> QED
      BY <1>1, <2>3, <2>9, <3>1 DEF Walk
  <2> QED
    BY <1>1, <1>2, <2>0, <2>5, AloneKeeps
<1>7. CASE UNCHANGED vars
  BY <1>1, <1>2, <1>7, AloneKeeps DEF vars
<1> QED
  BY <1>3, <1>4, <1>5, <1>6, <1>7

LEMMA EndStepsKeep ==
  ASSUME RecordInv, NEW p \in Processes, Rollback(p) \/ Fails(p)
  PROVE  RecordInv'
<1>1. job' \in BOOLEAN
  BY DEF RecordInv, TypeOK, Rollback, Fails
<1>2. request' = [request EXCEPT ![p] = Idle] /\ UNCHANGED <<offered, rows, cutoff, walk>>
  BY DEF Rollback, Fails
<1> QED
  BY <1>1, <1>2, EndKeeps

LEMMA StepKeeps == RecordInv /\ [Next]_vars => RecordInv'
<1> SUFFICES ASSUME RecordInv, [Next]_vars PROVE RecordInv'
  OBVIOUS
<1>1. ASSUME NEW h \in Handlers, Ask(h) PROVE RecordInv'
  BY <1>1, AskKeeps
<1>2. ASSUME NEW w \in Workers, CleanUp(w) PROVE RecordInv'
  BY <1>2, CleanUpKeeps
<1>3. ASSUME NEW p \in Processes, Work(p) \/ Fails(p) PROVE RecordInv'
  BY <1>3, FlushKeeps, CommitCreateKeeps, CommitPatchKeeps, CommitRemovalKeeps, EndStepsKeep
  DEF Work, Commit
<1> QED
  BY <1>1, <1>2, <1>3, OtherStepsKeep DEF Next

-----------------------------------------------------------------------------
LEMMA Invariance == Spec => []RecordInv
<1> QED
  BY InitInv, StepKeeps, PTL DEF Spec

\* Every variable always holds a value of its type: no refused value gets into a
\* row, and nothing is locked that is neither a row nor a key.
THEOREM RecordsTyped == Spec => []TypeOK
BY Invariance, PTL DEF RecordInv

\* For any number of POSTs that overlap, a unique key has one row.
THEOREM KeysUnique == Spec => []OneRowPerKey
BY Invariance, PTL DEF RecordInv

\* The commit of a PATCH, from the request's and the row's point of view.
LEMMA CommitPatchWrites ==
  ASSUME RecordInv, NEW p \in Processes, CommitPatch(p)
  PROVE  LET r == request[p] IN
         /\ \A i \in Ids \ {r.id} : rows'[i] = rows[i]
         /\ rows[r.id].state # "live" => rows'[r.id] = rows[r.id]
         /\ \A f \in Fields :
              rows'[r.id].val[f] = IF f \in Changes(r) THEN r.asked[f] ELSE rows[r.id].val[f]
<1> DEFINE r == request[p]
<1>1. r \in Request /\ r.pc = "commit" /\ r.op = "patch" /\ Sound(p, r) /\ SoundPatch(r)
  BY DEF RecordInv, TypeOK, CommitPatch
<1>2. rows \in [Ids -> Row] /\ r.id \in Ids
  BY <1>1 DEF RecordInv, TypeOK, Request
<1>3. CASE Changes(r) = {}
  BY <1>2, <1>3 DEF CommitPatch
<1>4. CASE Changes(r) # {}
  <2>1. rows[r.id].state = "live"
    BY <1>1, <1>2, <1>4 DEF SoundPatch, Sound, Live
  <2> DEFINE row == [rows[r.id] EXCEPT !.state = "live", !.val = Written(r)]
  <2>2. row.val = Written(r)
    BY <1>2 DEF Row
  <2>3. rows' = [rows EXCEPT ![r.id] = row]
    BY <1>2, <1>4 DEF CommitPatch
  <2> HIDE DEF row
  <2>4. rows'[r.id].val = Written(r) /\ \A i \in Ids \ {r.id} : rows'[i] = rows[i]
    BY <1>2, <2>2, <2>3
  <2> QED
    BY <2>1, <2>4 DEF Written
<1> QED
  BY <1>3, <1>4

\* A successful PATCH is in its row, but for the columns that held the asked value
\* when it read them and that another PATCH has set since.
THEOREM PatchesTakeEffect == Spec => PatchTakesEffect
<1>1. ASSUME RecordInv, [Next]_vars, NEW h \in Handlers,
             request[h].op = "patch", request[h].pc = "commit", CommitPatch(h),
             NEW f \in Fields, request[h].asked[f] # Unset, request[h].id \in Live
      PROVE  LET r == request[h] IN
             rows'[r.id].val[f] = r.asked[f] \/ (f \in r.overtaken /\ r.read[f] = r.asked[f])
  <2>1. h \in Processes
    BY DEF Processes
  <2>2. SoundPatch(request[h])
    BY <1>1, <2>1 DEF RecordInv
  <2>3. rows'[request[h].id].val[f] =
          IF f \in Changes(request[h]) THEN request[h].asked[f] ELSE rows[request[h].id].val[f]
    BY <1>1, <2>1, CommitPatchWrites
  <2> QED
    BY <1>1, <2>2, <2>3 DEF Changes, SoundPatch
<1>2. RecordInv /\ [Next]_vars => [\A h \in Handlers : LET r == request[h] IN
       r.op = "patch" /\ r.pc = "commit" /\ CommitPatch(h) =>
         \A f \in Fields : r.asked[f] # Unset /\ r.id \in Live =>
           rows'[r.id].val[f] = r.asked[f] \/ (f \in r.overtaken /\ r.read[f] = r.asked[f])]_vars
  BY <1>1
<1> QED
  BY <1>2, Invariance, PTL DEF Spec, PatchTakesEffect

\* What a step does to the row of an id.
LEMMA RowSteps ==
  ASSUME RecordInv, [Next]_vars, NEW i \in Ids
  PROVE  \/ rows'[i] = rows[i]
         \/ rows[i].state = "new"
         \/ rows[i].state = "live" /\ rows'[i].val = rows[i].val
         \/ rows[i].state = "live" /\ \E p \in Processes : CommitPatch(p) /\ request[p].id = i
<1>1. rows \in [Ids -> Row] /\ request \in [Processes -> Request]
  BY DEF RecordInv, TypeOK
<1>2. CASE UNCHANGED rows
  BY <1>2
<1>3. ASSUME NEW p \in Processes, NEW t \in 0 .. MaxTime, CommitCreate(p, t)
      PROVE  rows'[i] = rows[i] \/ rows[i].state = "new"
  BY <1>1, <1>3 DEF CommitCreate, RecordInv, SoundCreate
<1>4. ASSUME NEW p \in Processes, CommitPatch(p)
      PROVE  rows'[i] = rows[i] \/ (rows[i].state = "live" /\ request[p].id = i)
  BY <1>4, CommitPatchWrites
<1>5. ASSUME NEW p \in Processes, CommitRemoval(p)
      PROVE  rows'[i] = rows[i] \/ (rows[i].state = "live" /\ rows'[i].val = rows[i].val)
  <2>1. rows'[i] = IF i \in request[p].locks THEN [rows[i] EXCEPT !.state = "gone"] ELSE rows[i]
    BY <1>5 DEF CommitRemoval
  <2>2. i \in request[p].locks => rows[i].state = "live"
    BY DEF RecordInv, Sound, Live
  <2>3. [rows[i] EXCEPT !.state = "gone"].val = rows[i].val
    BY <1>1 DEF Row
  <2> QED
    BY <2>1, <2>2, <2>3
<1>6. UNCHANGED rows \/ \E p \in Processes : Commit(p)
  BY DEF Next, Ask, Create, Patch, Delete, CleanUp, Work, Flush, Rollback, Fails, Age, Beat, BeginWalk,
         ReadPage, vars, Processes
<1> QED
  BY <1>2, <1>3, <1>4, <1>5, <1>6 DEF Commit

\* A PATCH changes no column that it was not asked to change.
THEOREM OnlyAskedWritten == Spec => OnlyAskedFields
<1>1. ASSUME RecordInv, [Next]_vars, NEW i \in Ids, NEW f \in Fields,
             rows[i].state = "live", rows'[i].val[f] # rows[i].val[f]
      PROVE  \E h \in Handlers : /\ request[h].op = "patch" /\ request[h].pc = "commit"
                                /\ request[h].id = i /\ request[h].asked[f] = rows'[i].val[f]
  <2>1. PICK p \in Processes : CommitPatch(p) /\ request[p].id = i
    BY <1>1, RowSteps
  <2>2. rows'[i].val[f] = IF f \in Changes(request[p]) THEN request[p].asked[f] ELSE rows[i].val[f]
    BY <1>1, <2>1, CommitPatchWrites
  <2>3. request[p].op = "patch" /\ request[p].pc = "commit"
    BY <2>1 DEF CommitPatch
  <2>4. p \in Handlers
    BY <1>1, <2>3 DEF RecordInv, Sound
  <2> QED
    BY <1>1, <2>1, <2>2, <2>3, <2>4
<1>2. RecordInv /\ [Next]_vars =>
        [\A i \in Ids, f \in Fields : rows[i].state = "live" /\ rows'[i].val[f] # rows[i].val[f] =>
           \E h \in Handlers : /\ request[h].op = "patch" /\ request[h].pc = "commit"
                               /\ request[h].id = i /\ request[h].asked[f] = rows'[i].val[f]]_vars
  BY <1>1
<1> QED
  BY <1>2, Invariance, PTL DEF Spec, OnlyAskedFields

\* No handler that still holds a deleted row brings it back.
THEOREM DeletedStayDeleted == Spec => DeletedForEver
<1>1. ASSUME RecordInv, [Next]_vars, NEW i \in Ids, rows[i].state = "gone"
      PROVE  rows'[i] = rows[i]
  BY <1>1, RowSteps
<1>2. RecordInv /\ [Next]_vars => [\A i \in Ids : rows[i].state = "gone" => rows'[i] = rows[i]]_vars
  BY <1>1
<1> QED
  BY <1>2, Invariance, PTL DEF Spec, DeletedForEver

-----------------------------------------------------------------------------
(* Ranks: how a position in a list sorted by b moves when the list changes. *)

\* Those of L that do not come after i when b decreases, and how many they are;
\* and those that would come before an element with the value n.
NotAfter(L, b, i) == {j \in L : b[j] >= b[i]}
Position(L, b, i) == Cardinality(NotAfter(L, b, i))
Before(L, b, n) == {j \in L : b[j] > n}

Distinct(L, b) == \A i, j \in L : b[i] = b[j] => i = j

\* Positions are numbers from 1 on.
LEMMA PositionTyped ==
  ASSUME NEW L, IsFiniteSet(L), NEW b \in [L -> Nat], NEW i \in L
  PROVE  /\ IsFiniteSet(NotAfter(L, b, i))
         /\ Cardinality(L) \in Nat /\ Position(L, b, i) \in 1 .. Cardinality(L)
<1>1. NotAfter(L, b, i) \in SUBSET L /\ NotAfter(L, b, i) # {}
  BY DEF NotAfter
<1>2. /\ IsFiniteSet(NotAfter(L, b, i)) /\ Cardinality(NotAfter(L, b, i)) <= Cardinality(L)
  BY <1>1, FS_Subset
<1>3. Cardinality(NotAfter(L, b, i)) \in Nat /\ Cardinality(L) \in Nat
  BY <1>2, FS_CardinalityType
<1>4. Cardinality(NotAfter(L, b, i)) # 0
  BY <1>1, <1>2, FS_EmptySet
<1> QED
  BY <1>2, <1>3, <1>4 DEF Position

\* Who comes later has a greater position.
LEMMA PositionOrder ==
  ASSUME NEW L, IsFiniteSet(L), NEW b \in [L -> Nat], NEW i \in L, NEW j \in L, b[i] > b[j]
  PROVE  Position(L, b, i) < Position(L, b, j)
<1>1. NotAfter(L, b, i) \in SUBSET NotAfter(L, b, j) /\ NotAfter(L, b, i) # NotAfter(L, b, j)
  <2>1. j \in NotAfter(L, b, j) /\ j \notin NotAfter(L, b, i)
    BY DEF NotAfter
  <2>2. \A x \in L : b[x] >= b[i] => b[x] >= b[j]
    OBVIOUS
  <2> QED
    BY <2>1, <2>2 DEF NotAfter
<1>2. /\ IsFiniteSet(NotAfter(L, b, j))
      /\ Position(L, b, i) \in Nat /\ Position(L, b, j) \in Nat
  BY PositionTyped
<1> QED
  BY <1>1, <1>2, FS_Subset DEF Position

\* No two have the same position.
LEMMA PositionsApart ==
  ASSUME NEW L, IsFiniteSet(L), NEW b \in [L -> Nat], Distinct(L, b),
         NEW i \in L, NEW j \in L, Position(L, b, i) = Position(L, b, j)
  PROVE  i = j
<1>1. Position(L, b, i) \in Nat
  BY PositionTyped
<1>2. ~(b[i] > b[j]) /\ ~(b[j] > b[i])
  BY <1>1, PositionOrder
<1>3. b[i] \in Nat /\ b[j] \in Nat
  OBVIOUS
<1> QED
  BY <1>2, <1>3 DEF Distinct

\* Every position up to the length of the list is taken.
LEMMA PositionsTaken ==
  ASSUME NEW L, IsFiniteSet(L), NEW b \in [L -> Nat], Distinct(L, b), NEW n \in 1 .. Cardinality(L)
  PROVE  \E i \in L : Position(L, b, i) = n
<1> DEFINE all == 1 .. Cardinality(L)
           f == [i \in L |-> Position(L, b, i)]
<1>1. Cardinality(L) \in Nat
  BY FS_CardinalityType
<1>2. IsFiniteSet(all) /\ Cardinality(all) = Cardinality(L)
  BY <1>1, FS_Interval
<1>3. f \in Injection(L, all)
  <2>1. f \in [L -> all]
    BY PositionTyped
  <2>2. \A i, j \in L : f[i] = f[j] => i = j
    BY PositionsApart
  <2> QED
    BY <2>1, <2>2, Fun_IsInj
<1>4. f \in Surjection(L, all)
  BY <1>2, <1>3, FS_Injection
<1>5. \E i \in L : f[i] = n
  BY <1>4 DEF Surjection
<1> QED
  BY <1>5

\* A page is full, if anything comes after it.
LEMMA PageFull ==
  ASSUME NEW L, IsFiniteSet(L), NEW b \in [L -> Nat], Distinct(L, b), NEW s \in Nat, NEW k \in Nat,
         NEW i \in L, Position(L, b, i) > s + k
  PROVE  Cardinality({j \in L : Position(L, b, j) \in s + 1 .. s + k}) = k
<1> DEFINE page == {j \in L : Position(L, b, j) \in s + 1 .. s + k}
           places == s + 1 .. s + k
           f == [j \in page |-> Position(L, b, j)]
<1>1. Cardinality(L) \in Nat /\ Position(L, b, i) \in 1 .. Cardinality(L)
  BY PositionTyped
<1>2. places \subseteq 1 .. Cardinality(L)
  BY <1>1
<1>3. IsFiniteSet(places) /\ Cardinality(places) = k
  <2>1. /\ s + 1 \in Int /\ s + k \in Int
        /\ k = IF s + 1 > s + k THEN 0 ELSE (s + k) - (s + 1) + 1
    OBVIOUS
  <2> QED
    BY <2>1, FS_Interval
<1>4. f \in [page -> places]
  OBVIOUS
<1>5. f \in Injection(page, places)
  <2>1. \A x, y \in page : f[x] = f[y] => x = y
    BY PositionsApart
  <2> QED
    BY <1>4, <2>1, Fun_IsInj
<1>6. f \in Surjection(page, places)
  <2>1. ASSUME NEW n \in places
        PROVE  \E x \in page : f[x] = n
    <3>1. PICK x \in L : Position(L, b, x) = n
      BY <1>2, PositionsTaken
    <3> QED
      BY <3>1
  <2> QED
    BY <1>4, <2>1, Fun_IsSurj
<1>7. Cardinality(page) = Cardinality(places)
  BY <1>3, <1>5, <1>6, FS_Injection
<1> QED
  BY <1>3, <1>7

\* A list and its values without some elements: positions get no greater.
LEMMA PositionsShrink ==
  ASSUME NEW L, IsFiniteSet(L), NEW b \in [L -> Nat],
         NEW K \in SUBSET L, NEW c \in [K -> Nat], \A i \in K : c[i] = b[i], NEW i \in K
  PROVE  Position(K, c, i) <= Position(L, b, i)
<1>1. NotAfter(K, c, i) \in SUBSET NotAfter(L, b, i)
  BY DEF NotAfter
<1>2. IsFiniteSet(NotAfter(L, b, i))
  BY PositionTyped
<1> QED
  BY <1>1, <1>2, FS_Subset DEF Position

\* One element less: only what came after it moves, by one place.
LEMMA PositionsClose ==
  ASSUME NEW L, IsFiniteSet(L), NEW b \in [L -> Nat], Distinct(L, b), NEW d \in L,
         NEW c \in [L \ {d} -> Nat], \A i \in L \ {d} : c[i] = b[i], NEW i \in L \ {d}
  PROVE  \/ Position(L \ {d}, c, i) = Position(L, b, i)
         \/ /\ Position(L \ {d}, c, i) = Position(L, b, i) - 1
            /\ Position(L, b, d) < Position(L, b, i)
<1> DEFINE above == NotAfter(L, b, i)
<1>1. NotAfter(L \ {d}, c, i) = above \ {d}
  BY DEF NotAfter
<1>2. IsFiniteSet(above) /\ Position(L, b, i) \in Nat
  BY PositionTyped
<1>3. Position(L \ {d}, c, i) = IF d \in above THEN Position(L, b, i) - 1 ELSE Position(L, b, i)
  BY <1>1, <1>2, FS_RemoveElement DEF Position
<1>4. d \in above => Position(L, b, d) < Position(L, b, i)
  <2>1. SUFFICES ASSUME d \in above PROVE b[d] > b[i]
    BY PositionOrder
  <2>2. b[d] >= b[i] /\ b[d] \in Nat /\ b[i] \in Nat
    BY <2>1 DEF NotAfter
  <2> QED
    BY <2>2 DEF Distinct
<1> QED
  BY <1>3, <1>4

\* A new element: what comes after it, and only that, moves on by one place.
LEMMA PositionsOpen ==
  ASSUME NEW L, IsFiniteSet(L), NEW b \in [L -> Nat], NEW x, x \notin L,
         NEW c \in [L \union {x} -> Nat], \A i \in L : c[i] = b[i], \A i \in L : b[i] # c[x], NEW i \in L
  PROVE  \/ Position(L \union {x}, c, i) = Position(L, b, i)
         \/ /\ Position(L \union {x}, c, i) = Position(L, b, i) + 1
            /\ Cardinality(Before(L, b, c[x])) < Position(L, b, i)
<1> DEFINE above == NotAfter(L, b, i)
           before == Before(L, b, c[x])
<1>1. IsFiniteSet(above) /\ Position(L, b, i) \in Nat
  BY PositionTyped
<1>2. CASE c[x] >= b[i]
  <2>1. NotAfter(L \union {x}, c, i) = above \union {x} /\ x \notin above
    BY <1>2 DEF NotAfter
  <2>2. Position(L \union {x}, c, i) = Position(L, b, i) + 1
    BY <1>1, <2>1, FS_AddElement DEF Position
  <2>3. before \in SUBSET (above \ {i}) /\ i \in above
    <3>1. b[i] \in Nat /\ c[x] \in Nat /\ b[i] # c[x] /\ \A j \in L : b[j] \in Nat
      OBVIOUS
    <3> QED
      BY <1>2, <3>1 DEF NotAfter, Before
  <2>4. IsFiniteSet(above \ {i}) /\ Cardinality(above \ {i}) = Position(L, b, i) - 1
    BY <1>1, <2>3, FS_RemoveElement DEF Position
  <2>5. Cardinality(before) <= Position(L, b, i) - 1 /\ IsFiniteSet(before)
    BY <2>3, <2>4, FS_Subset
  <2>6. Cardinality(before) \in Nat
    BY <2>5, FS_CardinalityType
  <2> QED
    BY <1>1, <2>2, <2>5, <2>6
<1>3. CASE ~(c[x] >= b[i])
  <2>1. NotAfter(L \union {x}, c, i) = above
    BY <1>3 DEF NotAfter
  <2> QED
    BY <2>1 DEF Position
<1> QED
  BY <1>2, <1>3
-----------------------------------------------------------------------------
(* The pages: OFFSET and LIMIT on a list that changes between the pages. *)

\* The rows that the walk should have seen, and has not, within the part it has
\* read; and those it has seen that have moved back into the part it has yet to
\* read, where it will see them again.
Skipped == {i \in (walk.first \intersect Live) \ walk.seen : Rank(i) <= walk.skip}
SeenAhead == {i \in walk.seen \intersect Live : Rank(i) > walk.skip}

\* No two rows have the same created_at.
BornApart == \A i, j \in Live : rows[i].born = rows[j].born => i = j

\* No more is missed than was deleted from the part that was read.
MissedFew ==
  walk.pc = "over" => Cardinality((walk.first \intersect Live) \ walk.seen) <= walk.shrunk

\* What holds as long as the order of the list is a matter of created_at.
PagesInv ==
  /\ BornApart /\ "list" \in offered
  /\ \A i \in walk.first \union walk.seen : rows[i].state # "new"
  /\ walk.pc = "before" => walk.skip = 0 /\ walk.seen = {}
  /\ Cardinality(Skipped) <= walk.shrunk
  /\ Cardinality(SeenAhead) + walk.twice <= walk.grown
  /\ MissedFew

\* The rows to be removed: one, or the oldest of all.
RemovalInv(r) ==
  /\ r.op = "delete" => r.locks \subseteq {r.id}
  /\ r.op = "cleanup" =>
       \A d \in r.locks : rows[d].born < cutoff /\ \A i \in Live \ r.locks : rows[i].born > rows[d].born

WalkInv == (walk.fixed => PagesInv) /\ \A p \in Processes : RemovalInv(request[p])

\* Sets of rows can be counted.
LEMMA RowsCounted ==
  ASSUME NEW S \in SUBSET Ids
  PROVE  /\ IsFiniteSet(S) /\ Cardinality(S) \in Nat
         /\ \A T \in SUBSET S : Cardinality(T) \in Nat /\ Cardinality(T) <= Cardinality(S)
<1>1. IsFiniteSet(S)
  BY RowsAssumption, FS_Subset
<1>2. ASSUME NEW T \in SUBSET S
      PROVE  Cardinality(T) \in Nat /\ Cardinality(T) <= Cardinality(S)
  BY <1>1, FS_Subset, FS_CardinalityType
<1> QED
  BY <1>1, <1>2, FS_CardinalityType

\* A set with no more than one row that another lacks has at most one more.
LEMMA OneRowMore ==
  ASSUME NEW S \in SUBSET Ids, NEW T \in SUBSET Ids, \A i, j \in T \ S : i = j
  PROVE  Cardinality(T) <= Cardinality(S) + 1
<1>1. CASE T \subseteq S
  BY <1>1, RowsCounted
<1>2. ASSUME NEW x \in T \ S
      PROVE  Cardinality(T) <= Cardinality(S) + 1
  <2>1. T \in SUBSET (S \union {x}) /\ S \union {x} \in SUBSET Ids /\ x \notin S
    BY <1>2
  <2>2. Cardinality(S \union {x}) = Cardinality(S) + 1
    BY <2>1, RowsCounted, FS_AddElement
  <2> QED
    BY <2>1, <2>2, RowsCounted
<1> QED
  BY <1>1, <1>2

\* The list that the pages are cut from, by created_at.
Born == [i \in Live |-> rows[i].born]

LEMMA ListTyped ==
  ASSUME TypeOK
  PROVE  /\ IsFiniteSet(Live) /\ Live \in SUBSET Ids /\ Born \in [Live -> Nat]
         /\ BornApart => Distinct(Live, Born)
         /\ \A i \in Live : Rank(i) = Position(Live, Born, i) /\ Rank(i) \in Nat \ {0}
<1>1. Live \in SUBSET Ids /\ IsFiniteSet(Live)
  BY RowsCounted DEF Live
<1>2. Born \in [Live -> Nat]
  BY <1>1 DEF Born, TypeOK, Row
<1>3. BornApart => Distinct(Live, Born)
  BY DEF BornApart, Distinct, Born
<1>4. ASSUME NEW i \in Live
      PROVE  Rank(i) = Position(Live, Born, i) /\ Rank(i) \in Nat \ {0}
  <2>1. Rank(i) = Position(Live, Born, i)
    BY DEF Rank, Position, NotAfter, Born
  <2> QED
    BY <1>1, <1>2, <2>1, PositionTyped
<1> QED
  BY <1>1, <1>2, <1>3, <1>4

LEMMA NextListTyped ==
  ASSUME TypeOK'
  PROVE  /\ IsFiniteSet(Live') /\ Live' \in SUBSET Ids /\ Born' \in [Live' -> Nat]
         /\ BornApart' => Distinct(Live', Born')
         /\ \A i \in Live' : Rank(i)' = Position(Live', Born', i) /\ Rank(i)' \in Nat \ {0}
<1>1. Live' \in SUBSET Ids /\ IsFiniteSet(Live')
  BY RowsCounted DEF Live
<1>2. Born' \in [Live' -> Nat]
  BY <1>1 DEF Born, TypeOK, Row
<1>3. BornApart' => Distinct(Live', Born')
  BY DEF BornApart, Distinct, Born
<1>4. ASSUME NEW i \in Live'
      PROVE  Rank(i)' = Position(Live', Born', i) /\ Rank(i)' \in Nat \ {0}
  <2>1. Rank(i)' = Position(Live', Born', i)
    BY DEF Rank, Position, NotAfter, Born
  <2> QED
    BY <1>1, <1>2, <2>1, PositionTyped
<1> QED
  BY <1>1, <1>2, <1>3, <1>4

\* Two rows of the list are not in the same place.
LEMMA RanksApart ==
  ASSUME TypeOK, BornApart, NEW i \in Live, NEW j \in Live, Rank(i) = Rank(j)
  PROVE  i = j
BY ListTyped, PositionsApart

\* The first rows of a list that is ordered by created_at, when no two have the same.
LEMMA SortedFirsts ==
  ASSUME TypeOK, BornApart, "list" \in offered, NEW n \in Nat, NEW A \in Firsts(n)
  PROVE  A = {i \in Live : Rank(i) <= n}
<1>1. /\ IsFiniteSet(Live) /\ Live \in SUBSET Ids /\ Born \in [Live -> Nat]
      /\ \A i \in Live : /\ Rank(i) = Position(Live, Born, i) /\ Rank(i) \in Nat
                          /\ rows[i].born = Born[i]
  BY ListTyped DEF Born
<1>2. /\ A \in SUBSET Live /\ A \in SUBSET Ids
      /\ \A i \in A, j \in Live \ A : rows[i].born >= rows[j].born
      /\ Cardinality(A) = n \/ (A = Live /\ Cardinality(A) < n)
  BY <1>1 DEF Firsts, Leads
<1>3. \A i \in A, j \in Live \ A : Born[i] > Born[j]
  <2> SUFFICES ASSUME NEW i \in A, NEW j \in Live \ A PROVE Born[i] > Born[j]
    OBVIOUS
  <2>1. i \in Live /\ j \in Live /\ i # j /\ Born[i] \in Nat /\ Born[j] \in Nat
    BY <1>1, <1>2
  <2>2. Born[i] >= Born[j] /\ Born[i] # Born[j]
    BY <1>1, <1>2, <2>1 DEF BornApart
  <2> QED
    BY <2>1, <2>2
<1>4. IsFiniteSet(A) /\ Cardinality(A) \in Nat
  BY <1>2, RowsCounted
<1>5. ASSUME NEW i \in A
      PROVE  Rank(i) <= Cardinality(A)
  <2>1. NotAfter(Live, Born, i) \in SUBSET A
    <3> SUFFICES ASSUME NEW j \in Live, Born[j] >= Born[i], j \notin A PROVE FALSE
      BY DEF NotAfter
    <3>1. Born[i] > Born[j] /\ Born[i] \in Nat /\ Born[j] \in Nat
      BY <1>1, <1>2, <1>3
    <3> QED
      BY <3>1
  <2> QED
    BY <1>1, <1>2, <2>1, RowsCounted DEF Position
<1>6. ASSUME NEW j \in Live \ A
      PROVE  Rank(j) > Cardinality(A)
  <2>1. A \union {j} \in SUBSET NotAfter(Live, Born, j)
    <3>1. \A i \in A : i \in Live /\ Born[i] >= Born[j]
      BY <1>1, <1>2, <1>3
    <3> QED
      BY <1>1, <3>1 DEF NotAfter
  <2>2. NotAfter(Live, Born, j) \in SUBSET Ids
    BY <1>1 DEF NotAfter
  <2>3. Cardinality(A \union {j}) = Cardinality(A) + 1
    BY <1>4, FS_AddElement
  <2>4. Cardinality(A) + 1 <= Rank(j)
    BY <1>1, <2>1, <2>2, <2>3, RowsCounted DEF Position
  <2> QED
    BY <1>1, <1>4, <2>4
<1>7. CASE Cardinality(A) = n
  BY <1>1, <1>2, <1>4, <1>5, <1>6, <1>7
<1>8. CASE A = Live /\ Cardinality(A) < n
  <2>1. \A i \in Live : Rank(i) <= n
    BY <1>1, <1>4, <1>5, <1>8
  <2> QED
    BY <1>8, <2>1
<1> QED
  BY <1>2, <1>7, <1>8

\* So there is one page that the database may return.
Page == {i \in Live : Rank(i) \in walk.skip + 1 .. walk.skip + PageSize}

LEMMA SortedPage ==
  ASSUME TypeOK, BornApart, "list" \in offered, NEW page \in Pages
  PROVE  page = Page
<1>1. PICK A \in Firsts(walk.skip), B \in Firsts(walk.skip + PageSize) : page = B \ A
  BY DEF Pages
<1>2. walk.skip \in Nat /\ walk.skip + PageSize \in Nat
  BY WorkAssumption DEF TypeOK, Walk
<1>3. /\ A = {i \in Live : Rank(i) <= walk.skip}
      /\ B = {i \in Live : Rank(i) <= walk.skip + PageSize}
  BY <1>2, SortedFirsts
<1>4. \A i \in Live : Rank(i) \in Nat
  BY ListTyped
<1> QED
  BY <1>1, <1>2, <1>3, <1>4, WorkAssumption DEF Page

\* What the walk has noted is of the types the counting needs.
LEMMA WalkTyped ==
  ASSUME TypeOK
  PROVE  /\ Skipped \in SUBSET Ids /\ SeenAhead \in SUBSET Ids
         /\ walk.first \subseteq Ids /\ walk.seen \subseteq Ids
         /\ walk.skip \in Nat /\ walk.twice \in Nat /\ walk.grown \in Nat /\ walk.shrunk \in Nat
BY DEF TypeOK, Walk, Skipped, SeenAhead, Live

\* Steps after which the list and the walk are the same.
LEMMA SamePages ==
  ASSUME PagesInv, UNCHANGED <<offered, walk>>,
         \A i \in Ids : rows'[i].state = rows[i].state /\ rows'[i].born = rows[i].born, TypeOK
  PROVE  PagesInv'
<1>1. Live' = Live /\ \A i \in Live : rows'[i].born = rows[i].born
  BY DEF Live
<1>2. \A i \in Live : Rank(i)' = Rank(i)
  <2> SUFFICES ASSUME NEW i \in Live PROVE Rank(i)' = Rank(i)
    OBVIOUS
  <2>1. {j \in Live : rows[j].born >= rows[i].born}' = {j \in Live : rows[j].born >= rows[i].born}
    BY <1>1
  <2> QED
    BY <2>1 DEF Rank
<1>3. Skipped' = Skipped /\ SeenAhead' = SeenAhead
  BY <1>1, <1>2 DEF Skipped, SeenAhead
<1>4. BornApart' /\ "list" \in offered'
  BY <1>1 DEF PagesInv, BornApart
<1>5. MissedFew'
  BY <1>1 DEF PagesInv, MissedFew
<1>6. \A i \in walk.first \union walk.seen : rows'[i].state # "new"
  BY WalkTyped DEF PagesInv
<1> QED
  BY <1>3, <1>4, <1>5, <1>6 DEF PagesInv

\* The walk begins.
LEMMA BeginPages ==
  ASSUME TypeOK, PagesInv, BeginWalk
  PROVE  PagesInv'
<1>1. /\ rows' = rows /\ offered' = offered /\ walk.pc = "before" /\ walk.skip = 0 /\ walk.seen = {}
      /\ walk'.pc = "reading" /\ walk'.first = Live /\ walk'.skip = 0 /\ walk'.seen = {}
      /\ walk'.twice = walk.twice /\ walk'.grown = walk.grown /\ walk'.shrunk = walk.shrunk
  BY DEF BeginWalk, TypeOK, Walk, PagesInv
<1>2. Live' = Live /\ \A i \in Live : Rank(i)' = Rank(i)
  BY <1>1 DEF Live, Rank
<1>3. Skipped' = {} /\ SeenAhead' = {} /\ SeenAhead = {}
  BY <1>1, <1>2, ListTyped DEF Skipped, SeenAhead
<1>4. BornApart' /\ "list" \in offered' /\ MissedFew' /\ \A i \in Live : rows'[i].state # "new"
  BY <1>1, <1>2 DEF PagesInv, BornApart, MissedFew, Live
<1> QED
  BY <1>1, <1>3, <1>4, WalkTyped, FS_EmptySet DEF PagesInv

\* The walk reads a page.
LEMMA ReadPages ==
  ASSUME TypeOK, TypeOK', PagesInv, ReadPage
  PROVE  PagesInv'
<1> DEFINE again == Page \intersect walk.seen
<1>0. PICK page \in Pages :
        /\ walk' = [walk EXCEPT
             !.pc = IF Cardinality(page) = PageSize THEN "reading" ELSE "over",
             !.skip = @ + PageSize, !.seen = @ \union page,
             !.twice = @ + Cardinality(page \intersect walk.seen)]
        /\ UNCHANGED <<offered, rows>>
  BY DEF ReadPage
<1>00. page = Page
  BY SortedPage DEF PagesInv
<1>1. /\ rows' = rows /\ offered' = offered /\ walk'.pc # "before"
      /\ walk'.pc = "over" => Cardinality(Page) # PageSize
      /\ walk'.first = walk.first /\ walk'.skip = walk.skip + PageSize /\ walk'.seen = walk.seen \union Page
      /\ walk'.twice = walk.twice + Cardinality(again)
      /\ walk'.grown = walk.grown /\ walk'.shrunk = walk.shrunk
  BY <1>0, <1>00 DEF TypeOK, Walk
<1>2. Live' = Live /\ \A i \in Live : Rank(i)' = Rank(i)
  BY <1>1 DEF Live, Rank
<1>3. /\ \A i \in Live : Rank(i) \in Nat
      /\ walk.skip \in Nat /\ PageSize \in Nat /\ walk.twice \in Nat /\ walk.grown \in Nat /\ walk.shrunk \in Nat
  BY ListTyped, WalkTyped, WorkAssumption
<1>4. Page \subseteq Live /\ \A i \in Live : i \in Page <=> walk.skip < Rank(i) /\ Rank(i) <= walk.skip + PageSize
  BY <1>3 DEF Page
<1>5. Skipped' \in SUBSET Skipped
  BY <1>1, <1>2, <1>3, <1>4 DEF Skipped
<1>6. Cardinality(Skipped') <= walk.shrunk
  <2>1. Cardinality(Skipped') <= Cardinality(Skipped) /\ Cardinality(Skipped') \in Nat /\ Cardinality(Skipped) \in Nat
    BY <1>5, WalkTyped, RowsCounted
  <2> QED
    BY <1>3, <2>1 DEF PagesInv
<1>7. SeenAhead' \union again \in SUBSET SeenAhead /\ SeenAhead' \intersect again = {}
  BY <1>1, <1>2, <1>3, <1>4 DEF SeenAhead
<1>8. Cardinality(SeenAhead') + walk.twice + Cardinality(again) <= walk.grown
  <2>1. SeenAhead' \in SUBSET Ids /\ again \in SUBSET Ids /\ SeenAhead \in SUBSET Ids
    BY <1>7, WalkTyped
  <2>2. /\ Cardinality(SeenAhead') \in Nat /\ Cardinality(again) \in Nat /\ Cardinality(SeenAhead) \in Nat
        /\ IsFiniteSet(SeenAhead') /\ IsFiniteSet(again)
        /\ Cardinality(SeenAhead' \union again) <= Cardinality(SeenAhead)
    BY <1>7, <2>1, RowsCounted
  <2>3. Cardinality(SeenAhead' \union again) = Cardinality(SeenAhead') + Cardinality(again)
    <3>1. Cardinality(SeenAhead' \union again) = Cardinality(SeenAhead') + Cardinality(again) - Cardinality(SeenAhead' \intersect again)
      BY <2>2, FS_Union
    <3>2. Cardinality(SeenAhead' \intersect again) = 0
      BY <1>7, FS_EmptySet
    <3> QED
      BY <2>2, <3>1, <3>2
  <2>4. Cardinality(SeenAhead) + walk.twice <= walk.grown
    BY DEF PagesInv
  <2> HIDE DEF again
  <2> QED
    BY <1>3, <2>2, <2>3, <2>4
<1>9. MissedFew'
  <2> SUFFICES ASSUME walk'.pc = "over"
               PROVE  Cardinality((walk'.first \intersect Live') \ walk'.seen) <= walk'.shrunk
    BY DEF MissedFew
  <2>1. ASSUME NEW i \in Live
        PROVE  Rank(i) <= walk.skip + PageSize
    <3>1. Page = {j \in Live : Position(Live, Born, j) \in walk.skip + 1 .. walk.skip + PageSize}
      BY ListTyped DEF Page
    <3>2. ~(Position(Live, Born, i) > walk.skip + PageSize)
      BY <1>1, <1>3, <3>1, ListTyped, PageFull DEF PagesInv
    <3> QED
      BY <1>3, <3>2, ListTyped
  <2>2. (walk'.first \intersect Live') \ walk'.seen = Skipped'
    BY <1>1, <1>2, <2>1 DEF Skipped
  <2> QED
    BY <1>1, <1>6, <2>2
<1>10. BornApart' /\ "list" \in offered' /\ \A i \in walk.first \union walk.seen \union Page : rows'[i].state # "new"
  BY <1>1, <1>2, <1>4 DEF PagesInv, BornApart, Live
<1> HIDE DEF again
<1>11. walk.twice + Cardinality(again) \in Nat /\ Cardinality(SeenAhead') \in Nat
  BY <1>1, <1>7, WalkTyped, RowsCounted DEF TypeOK, Walk
<1>12. Cardinality(SeenAhead') + walk'.twice <= walk'.grown
  <2>1. again \in SUBSET Ids
    BY <1>4, WalkTyped DEF again
  <2>2. Cardinality(again) \in Nat
    BY <2>1, RowsCounted
  <2> QED
    BY <1>1, <1>3, <1>8, <1>11, <2>2
<1> QED
  BY <1>1, <1>6, <1>9, <1>10, <1>12 DEF PagesInv

\* A row is inserted: those that come after it move on by one place.
LEMMA CreatePages ==
  ASSUME RecordInv, TypeOK', PagesInv, NEW p \in Processes, NEW t \in 0 .. MaxTime, CommitCreate(p, t), walk'.fixed
  PROVE  PagesInv'
<1> DEFINE x == request[p].id
           before == {j \in Live : rows[j].born > t}
<1>1. /\ x \in Ids /\ rows[x].state = "new" /\ \A i \in Live : rows[i].born # t
      /\ rows'[x].state = "live" /\ rows'[x].born = t
      /\ \A i \in Ids \ {x} : rows'[i] = rows[i]
  <2>1. request[p] \in Request /\ request[p].op = "create" /\ rows \in [Ids -> Row]
    BY DEF RecordInv, TypeOK, CommitCreate
  <2>2. x \in Ids /\ rows[x].state = "new"
    BY <2>1 DEF RecordInv, SoundCreate, Request
  <2>3. \A i \in Live : rows[i].born # t
    BY DEF CommitCreate, RecordInv, TypeOK, Walk
  <2> QED
    BY <2>1, <2>2, <2>3 DEF CommitCreate
<1>2. /\ walk'.pc = walk.pc /\ walk'.first = walk.first /\ walk'.skip = walk.skip /\ walk'.seen = walk.seen
      /\ walk'.twice = walk.twice /\ walk'.shrunk = walk.shrunk
      /\ walk'.grown = IF Cardinality(before) < walk.skip THEN walk.grown + 1 ELSE walk.grown
  BY DEF CommitCreate, RecordInv, TypeOK, Walk
<1>3. x \notin Live /\ Live' = Live \union {x}
  BY <1>1 DEF Live
<1>4. x \notin walk.first \union walk.seen
  BY <1>1 DEF PagesInv
<1>5. ASSUME NEW i \in Live
      PROVE  /\ Rank(i) \in Nat /\ i \in Live'
             /\ Rank(i)' = Rank(i) \/ (Rank(i)' = Rank(i) + 1 /\ Cardinality(before) < Rank(i))
  <2>1. /\ IsFiniteSet(Live) /\ Born \in [Live -> Nat]
        /\ Rank(i) = Position(Live, Born, i) /\ Rank(i) \in Nat
    BY ListTyped DEF RecordInv
  <2>2. Born' \in [Live \union {x} -> Nat] /\ Rank(i)' = Position(Live \union {x}, Born', i)
    BY <1>3, NextListTyped
  <2>3. Born'[x] = t /\ \A j \in Live : Born'[j] = Born[j] /\ Born[j] # t
    BY <1>1, <1>3, <2>1 DEF Born, Live
  <2>4. Before(Live, Born, Born'[x]) = before
    BY <2>3 DEF Before, Born
  <2> HIDE DEF x, before
  <2>5. \/ Position(Live \union {x}, Born', i) = Position(Live, Born, i)
        \/ /\ Position(Live \union {x}, Born', i) = Position(Live, Born, i) + 1
           /\ Cardinality(Before(Live, Born, Born'[x])) < Position(Live, Born, i)
    <3>1. \A j \in Live : Born[j] # Born'[x]
      BY <2>3
    <3> QED
      BY <1>3, <2>1, <2>2, <2>3, <3>1, PositionsOpen
  <2> QED
    BY <1>3, <2>1, <2>2, <2>4, <2>5
<1>6. Cardinality(before) \in Nat
  BY RowsCounted DEF Live
<1> HIDE DEF x, before
<1>7. /\ walk.skip \in Nat /\ walk.twice \in Nat /\ walk.grown \in Nat /\ walk.shrunk \in Nat
      /\ Skipped \in SUBSET Ids /\ SeenAhead \in SUBSET Ids /\ SeenAhead' \in SUBSET Ids
      /\ walk.first \subseteq Ids /\ walk.seen \subseteq Ids
  BY WalkTyped DEF RecordInv, SeenAhead, TypeOK, Walk, Live
<1>8. Cardinality(Skipped') <= walk.shrunk
  <2>1. Skipped' \in SUBSET Skipped
    BY <1>2, <1>3, <1>4, <1>5, <1>7 DEF Skipped
  <2> QED
    BY <1>7, <2>1, RowsCounted DEF PagesInv
<1>9. Cardinality(SeenAhead') + walk.twice <= walk'.grown
  <2>1. \A i \in SeenAhead' : i \in Live /\ i \in walk.seen /\ Rank(i)' > walk.skip
    BY <1>2, <1>3, <1>4 DEF SeenAhead
  <2>2. CASE Cardinality(before) < walk.skip
    <3>1. \A i \in SeenAhead' \ SeenAhead : i \in Live /\ Rank(i) = walk.skip
      BY <1>5, <1>7, <2>1 DEF SeenAhead
    <3>2. \A i, j \in SeenAhead' \ SeenAhead : i = j
      BY <3>1, RanksApart DEF RecordInv, PagesInv
    <3>3. Cardinality(SeenAhead') <= Cardinality(SeenAhead) + 1
      BY <1>7, <3>2, OneRowMore
    <3>4. Cardinality(SeenAhead) + walk.twice <= walk.grown
      BY DEF PagesInv
    <3>5. Cardinality(SeenAhead') \in Nat /\ Cardinality(SeenAhead) \in Nat
      BY <1>7, RowsCounted
    <3> QED
      BY <1>2, <1>7, <2>2, <3>3, <3>4, <3>5
  <2>3. CASE ~(Cardinality(before) < walk.skip)
    <3>1. SeenAhead' \in SUBSET SeenAhead
      BY <1>5, <1>6, <1>7, <2>1, <2>3 DEF SeenAhead
    <3>2. Cardinality(SeenAhead') <= Cardinality(SeenAhead) /\ Cardinality(SeenAhead') \in Nat /\ Cardinality(SeenAhead) \in Nat
      BY <1>7, <3>1, RowsCounted
    <3> QED
      BY <1>2, <1>7, <2>3, <3>2 DEF PagesInv
  <2> QED
    BY <2>2, <2>3
<1>10. BornApart' /\ "list" \in offered'
  BY <1>1, <1>3 DEF PagesInv, BornApart, Live, CommitCreate
<1>11. MissedFew'
  <2>1. (walk'.first \intersect Live') \ walk'.seen = (walk.first \intersect Live) \ walk.seen
    BY <1>2, <1>3, <1>4
  <2> QED
    BY <1>2, <2>1 DEF PagesInv, MissedFew
<1>12. \A i \in walk.first \union walk.seen : rows'[i].state # "new"
  BY <1>1, <1>4, <1>7 DEF PagesInv
<1> QED
  BY <1>2, <1>8, <1>9, <1>10, <1>11, <1>12 DEF PagesInv

\* Rows are removed: one, which those after it close up to, or the last ones.
LEMMA RemovePages ==
  ASSUME RecordInv, TypeOK', PagesInv, NEW p \in Processes, RemovalInv(request[p]), CommitRemoval(p)
  PROVE  PagesInv'
<1> DEFINE r == request[p]
           gone == r.locks
           read == {i \in gone : Rank(i) <= walk.skip}
<1>1. /\ r.op \in {"delete", "cleanup"} /\ gone \subseteq Live
      /\ \A i \in Ids : /\ rows'[i].born = rows[i].born
                        /\ rows'[i].state = IF i \in gone THEN "gone" ELSE rows[i].state
  <2>1. r.op \in {"delete", "cleanup"} /\ Sound(p, r) /\ rows \in [Ids -> Row]
    BY DEF RecordInv, TypeOK, CommitRemoval
  <2>2. \A i \in Ids : rows'[i] = IF i \in gone THEN [rows[i] EXCEPT !.state = "gone"] ELSE rows[i]
    BY DEF CommitRemoval
  <2>3. \A i \in Ids : [rows[i] EXCEPT !.state = "gone"].born = rows[i].born /\ [rows[i] EXCEPT !.state = "gone"].state = "gone"
    BY <2>1 DEF Row
  <2> QED
    BY <2>1, <2>2, <2>3 DEF Sound
<1>2. /\ walk'.pc = walk.pc /\ walk'.first = walk.first /\ walk'.skip = walk.skip /\ walk'.seen = walk.seen
      /\ walk'.twice = walk.twice /\ walk'.grown = walk.grown
      /\ walk'.shrunk = IF r.op = "cleanup" THEN walk.shrunk ELSE walk.shrunk + Cardinality(read)
  BY DEF CommitRemoval, RecordInv, TypeOK, Walk
<1>3. Live' = Live \ gone
  BY <1>1 DEF Live
<1>4. /\ walk.skip \in Nat /\ walk.twice \in Nat /\ walk.grown \in Nat /\ walk.shrunk \in Nat
      /\ Skipped \in SUBSET Ids /\ SeenAhead \in SUBSET Ids
      /\ Skipped' \in SUBSET Ids /\ SeenAhead' \in SUBSET Ids
      /\ walk.first \subseteq Ids /\ walk.seen \subseteq Ids
  BY <1>2, WalkTyped DEF RecordInv, Skipped, SeenAhead, TypeOK, Walk, Live
<1>5. /\ IsFiniteSet(Live) /\ Live \in SUBSET Ids /\ Born \in [Live -> Nat] /\ Distinct(Live, Born)
      /\ Born' \in [Live \ gone -> Nat] /\ \A i \in Live \ gone : Born'[i] = Born[i]
      /\ \A i \in Live : Rank(i) = Position(Live, Born, i) /\ Rank(i) \in Nat
      /\ \A i \in Live \ gone : Rank(i)' = Position(Live \ gone, Born', i) /\ Rank(i)' \in Nat
  <2>1. Live \in SUBSET Ids
    BY DEF Live
  <2> QED
    BY <1>1, <1>3, <2>1, ListTyped, NextListTyped DEF RecordInv, PagesInv, Born
<1>6. Cardinality(read) \in Nat
  BY <1>1, <1>5, RowsCounted
<1> HIDE DEF gone
<1>7. \A i \in Live \ gone : Rank(i)' <= Rank(i)
  BY <1>5, PositionsShrink
<1>8. Cardinality(SeenAhead') <= Cardinality(SeenAhead)
  <2>1. SeenAhead' \in SUBSET SeenAhead
    BY <1>2, <1>3, <1>4, <1>5, <1>7 DEF SeenAhead
  <2> QED
    BY <1>4, <2>1, RowsCounted
<1>9. walk'.shrunk >= walk.shrunk
  BY <1>2, <1>4, <1>6
<1> DEFINE Unskipped == \A i \in Live \ gone : \/ Rank(i)' = Rank(i)
                                               \/ Rank(i)' = Rank(i) - 1 /\ Rank(i) > walk.skip + 1
<1>10. ASSUME Unskipped
       PROVE  Cardinality(Skipped') <= walk'.shrunk
  <2>1. Skipped' \in SUBSET Skipped
    BY <1>2, <1>3, <1>4, <1>5, <1>10 DEF Skipped
  <2>2. /\ Cardinality(Skipped') <= Cardinality(Skipped) /\ Cardinality(Skipped) <= walk.shrunk
        /\ Cardinality(Skipped') \in Nat /\ Cardinality(Skipped) \in Nat
    BY <1>4, <2>1, RowsCounted DEF PagesInv
  <2>3. walk'.shrunk \in Nat
    BY <1>2, <1>4, <1>6
  <2> QED
    BY <1>4, <1>9, <2>2, <2>3
<1>11. ASSUME r.op = "cleanup"
       PROVE  Cardinality(Skipped') <= walk'.shrunk
  <2>1. \A i \in Live \ gone, d \in gone : rows[i].born > rows[d].born
    BY <1>11 DEF RemovalInv, gone
  <2>2. ASSUME NEW i \in Live \ gone
        PROVE  Rank(i)' = Rank(i)
    <3>1. NotAfter(Live \ gone, Born', i) = NotAfter(Live, Born, i)
      <4>1. \A j \in gone : j \in Live /\ Born[j] \in Nat /\ Born[i] \in Nat /\ Born[i] > Born[j]
        BY <1>1, <1>5, <2>1 DEF Born, gone
      <4>2. \A j \in gone : ~(Born[j] >= Born[i])
        BY <4>1
      <4> QED
        BY <1>5, <4>2 DEF NotAfter
    <3> QED
      BY <1>5, <3>1 DEF Position
  <2>3. Unskipped
    BY <2>2
  <2> QED
    BY <1>10, <2>3
<1>12. ASSUME gone = {}
       PROVE  Cardinality(Skipped') <= walk'.shrunk
  <2>1. ASSUME NEW i \in Live \ gone
        PROVE  Rank(i)' = Rank(i)
    <3>1. NotAfter(Live \ gone, Born', i) = NotAfter(Live, Born, i)
      BY <1>5, <1>12 DEF NotAfter
    <3> QED
      BY <1>5, <3>1 DEF Position
  <2>2. Unskipped
    BY <2>1
  <2> QED
    BY <1>10, <2>2
<1>13. ASSUME NEW d \in Live, gone = {d}, r.op = "delete"
       PROVE  Cardinality(Skipped') <= walk'.shrunk
  <2>1. \A i \in Live \ gone : \/ Rank(i)' = Rank(i)
                               \/ Rank(i)' = Rank(i) - 1 /\ Rank(d) < Rank(i)
    BY <1>5, <1>13, PositionsClose
  <2>2. Rank(d) \in Nat
    BY <1>5
  <2>3. CASE Rank(d) > walk.skip
    <3>1. \A i \in Live \ gone : Rank(d) < Rank(i) => Rank(i) > walk.skip + 1
      BY <1>4, <1>5, <2>2, <2>3
    <3>2. Unskipped
      BY <2>1, <3>1
    <3> QED
      BY <1>10, <3>2
  <2>4. CASE Rank(d) <= walk.skip
    <3>1. Cardinality(read) = 1
      <4>1. read = {d}
        BY <1>13, <2>4 DEF gone
      <4> QED
        BY <4>1, FS_Singleton
    <3>2. \A i \in Skipped' \ Skipped : i \in Live /\ Rank(i) = walk.skip + 1
      BY <1>2, <1>3, <1>4, <1>5, <2>1 DEF Skipped
    <3>3. \A i, j \in Skipped' \ Skipped : i = j
      BY <3>2, RanksApart DEF RecordInv, PagesInv
    <3>4. Cardinality(Skipped') <= Cardinality(Skipped) + 1
      BY <1>4, <3>3, OneRowMore
    <3>5. /\ Cardinality(Skipped) <= walk.shrunk
          /\ Cardinality(Skipped') \in Nat /\ Cardinality(Skipped) \in Nat
      BY <1>4, RowsCounted DEF PagesInv
    <3>6. walk'.shrunk = walk.shrunk + 1
      BY <1>2, <1>13, <3>1
    <3> QED
      BY <1>4, <3>4, <3>5, <3>6
  <2> QED
    BY <1>4, <2>2, <2>3, <2>4
<1>14. Cardinality(Skipped') <= walk'.shrunk
  <2>1. CASE r.op = "delete"
    <3>1. gone \subseteq {r.id}
      BY <2>1 DEF RemovalInv, gone
    <3>2. CASE gone # {}
      <4>1. gone = {r.id} /\ r.id \in Live
        BY <1>1, <3>1, <3>2 DEF gone
      <4> QED
        BY <1>13, <2>1, <4>1
    <3> QED
      BY <1>12, <3>2
  <2> QED
    BY <1>1, <1>11, <2>1
<1>15. BornApart' /\ "list" \in offered' /\ \A i \in walk.first \union walk.seen : rows'[i].state # "new"
  BY <1>1, <1>3, <1>4, <1>5 DEF PagesInv, BornApart, CommitRemoval
<1>16. MissedFew'
  <2>1. (walk'.first \intersect Live') \ walk'.seen \in SUBSET ((walk.first \intersect Live) \ walk.seen)
    BY <1>2, <1>3
  <2> DEFINE missed == (walk.first \intersect Live) \ walk.seen
             still == (walk'.first \intersect Live') \ walk'.seen
  <2>2. /\ Cardinality(still) <= Cardinality(missed)
        /\ Cardinality(still) \in Nat /\ Cardinality(missed) \in Nat
    BY <1>4, <2>1, RowsCounted
  <2>3. walk'.pc = "over" => Cardinality(missed) <= walk.shrunk
    BY <1>2 DEF PagesInv, MissedFew
  <2> HIDE DEF missed
  <2>4. walk'.pc = "over" => Cardinality(still) <= walk'.shrunk
    <3>1. walk'.shrunk \in Nat
      BY <1>2, <1>4, <1>6
    <3> HIDE DEF still
    <3> QED
      BY <1>4, <1>9, <2>2, <2>3, <3>1
  <2> QED
    BY <2>4 DEF MissedFew
<1>17. Cardinality(SeenAhead') + walk'.twice <= walk'.grown
  <2>1. Cardinality(SeenAhead') \in Nat /\ Cardinality(SeenAhead) \in Nat
    BY <1>4, RowsCounted
  <2> QED
    BY <1>2, <1>4, <1>8, <2>1 DEF PagesInv
<1> QED
  BY <1>2, <1>14, <1>15, <1>16, <1>17 DEF PagesInv

\* What a request has locked to remove is still what it is to remove, when rows
\* come and go: a new one is not old enough.
LEMMA RemovalsKept ==
  ASSUME RecordInv, NEW q \in Processes, RemovalInv(request[q]), TypeOK',
         LET r == request[q] s == request'[q] IN
           s.op = r.op /\ s.id = r.id /\ s.locks = r.locks,
         cutoff' >= cutoff,
         \A i \in Live : rows'[i].born = rows[i].born,
         \A i \in Live' \ Live : rows'[i].born >= cutoff
  PROVE  RemovalInv(request[q])'
<1> DEFINE r == request[q]
<1>1. r.op = "cleanup" => r.locks \subseteq Live
  BY DEF RecordInv, Sound
<1>2. /\ cutoff \in Nat /\ cutoff' \in Nat
      /\ \A i \in Live : rows[i].born \in Nat
      /\ \A i \in Live' : rows'[i].born \in Nat
  BY DEF RecordInv, TypeOK, Row, Live
<1>3. ASSUME r.op = "cleanup", NEW d \in r.locks
      PROVE  rows'[d].born < cutoff' /\ \A i \in Live' \ r.locks : rows'[i].born > rows'[d].born
  <2>1. d \in Live /\ rows[d].born < cutoff /\ rows'[d].born = rows[d].born /\ rows[d].born \in Nat
    BY <1>1, <1>2, <1>3 DEF RemovalInv
  <2>2. ASSUME NEW i \in Live' \ r.locks
        PROVE  rows'[i].born > rows'[d].born
    <3>1. CASE i \in Live
      BY <1>3, <2>1, <3>1 DEF RemovalInv
    <3>2. CASE i \notin Live
      BY <1>2, <2>1, <3>2
    <3> QED
      BY <3>1, <3>2
  <2> QED
    BY <1>2, <2>1, <2>2
<1> QED
  BY <1>3 DEF RemovalInv

\* A request with no locks has nothing to remove.
LEMMA NoLocksNoRemoval ==
  ASSUME NEW q, request'[q].locks = {}
  PROVE  RemovalInv(request[q])'
BY DEF RemovalInv

\* A commit of a PATCH moves no row in the list.
LEMMA CommitPatchBorn ==
  ASSUME RecordInv, NEW p \in Processes, CommitPatch(p), NEW i \in Ids
  PROVE  rows'[i].state = rows[i].state /\ rows'[i].born = rows[i].born
<1> DEFINE r == request[p]
<1>1. r \in Request /\ r.pc = "commit" /\ r.op = "patch" /\ Sound(p, r) /\ SoundPatch(r)
  BY DEF RecordInv, TypeOK, CommitPatch
<1>2. rows \in [Ids -> Row] /\ r.id \in Ids
  BY <1>1 DEF RecordInv, TypeOK, Request
<1>3. CASE Changes(r) = {}
  BY <1>3 DEF CommitPatch
<1>4. CASE Changes(r) # {}
  <2>1. rows[r.id].state = "live"
    BY <1>1, <1>2, <1>4 DEF SoundPatch, Sound, Live
  <2> DEFINE row == [rows[r.id] EXCEPT !.state = "live", !.val = Written(r)]
  <2>2. row.state = "live" /\ row.born = rows[r.id].born
    BY <1>2 DEF Row
  <2>3. rows' = [rows EXCEPT ![r.id] = row]
    BY <1>2, <1>4 DEF CommitPatch
  <2> HIDE DEF row
  <2> QED
    BY <1>2, <2>1, <2>2, <2>3
<1> QED
  BY <1>3, <1>4

\* A request that begins has no locks; its flush takes those it is to have.
LEMMA FlushRemoves ==
  ASSUME RecordInv, NEW p \in Processes, Flush(p)
  PROVE  RemovalInv(request[p])'
<1> DEFINE r == request[p]
           taken == Claim(r) \intersect (Live \union Keys)
<1>1. /\ request'[p].op = r.op /\ request'[p].id = r.id
      /\ request'[p].locks = {} \/ request'[p].locks = taken
      /\ rows' = rows /\ cutoff' = cutoff /\ Live' = Live
  BY DEF Flush, RecordInv, TypeOK, Request, Live
<1>2. r.op = "delete" => taken \subseteq {r.id}
  BY DEF Claim
<1>3. r.op = "cleanup" => taken = OldRows
  BY DEF Claim, OldRows
<1>4. ASSUME NEW d \in OldRows
      PROVE  rows[d].born < cutoff /\ \A i \in Live \ OldRows : rows[i].born > rows[d].born
  <2>1. cutoff \in Nat /\ \A i \in Live : rows[i].born \in Nat
    BY DEF RecordInv, TypeOK, Row, Live
  <2> QED
    BY <2>1 DEF OldRows
<1> HIDE DEF taken
<1> QED
  BY <1>1, <1>2, <1>3, <1>4 DEF RemovalInv

\* Steps of one request that leave the rows and the cut-off alone.
LEMMA MoveRemoves ==
  ASSUME RecordInv, TypeOK', NEW p \in Processes, \A q \in Processes : RemovalInv(request[q]),
         UNCHANGED <<rows, cutoff>>, \A q \in Processes \ {p} : request'[q] = request[q],
         RemovalInv(request[p])'
  PROVE  \A q \in Processes : RemovalInv(request[q])'
<1>1. cutoff' >= cutoff /\ Live' = Live
  BY DEF RecordInv, TypeOK, Live
<1> QED
  BY <1>1, RemovalsKept

\* The locks of the removals, after a commit.
LEMMA CommitRemoves ==
  ASSUME RecordInv, TypeOK', NEW p \in Processes, \A q \in Processes : RemovalInv(request[q]), Commit(p)
  PROVE  \A q \in Processes : RemovalInv(request[q])'
<1>1. request'[p].locks = {} /\ cutoff' >= cutoff
  <2>1. request \in [Processes -> Request] /\ cutoff \in Nat
    BY DEF RecordInv, TypeOK
  <2>2. request'[p] = Idle /\ cutoff' = cutoff
    BY <2>1 DEF Commit, CommitCreate, CommitPatch, CommitRemoval
  <2> QED
    BY <2>1, <2>2, IdleTyped
<1>2. ASSUME NEW q \in Processes \ {p}
      PROVE  LET r == request[q] s == request'[q] IN s.op = r.op /\ s.id = r.id /\ s.locks = r.locks
  <2>1. request[q] \in Request /\ request \in [Processes -> Request]
    BY DEF RecordInv, TypeOK
  <2>2. CASE request'[q] = request[q]
    BY <2>2
  <2>3. CASE CommitPatch(p)
    <3> DEFINE noted == [request[q] EXCEPT !.overtaken = @ \union Changes(request[p])]
    <3>1. noted.op = request[q].op /\ noted.id = request[q].id /\ noted.locks = request[q].locks
      BY <2>1 DEF Request
    <3>2. request'[q] \in {noted, request[q]}
      BY <2>3 DEF CommitPatch
    <3> HIDE DEF noted
    <3> QED
      BY <3>1, <3>2
  <2> QED
    BY <2>1, <2>2, <2>3 DEF Commit, CommitCreate, CommitRemoval
<1>3. ASSUME NEW t \in 0 .. MaxTime, CommitCreate(p, t)
      PROVE  /\ \A i \in Live : rows'[i].born = rows[i].born
             /\ \A i \in Live' \ Live : rows'[i].born >= cutoff
  <2>1. rows \in [Ids -> Row] /\ request[p] \in Request /\ rows[request[p].id].state = "new"
    BY <1>3 DEF RecordInv, TypeOK, SoundCreate, CommitCreate
  <2>2. request[p].id \in Ids /\ t >= cutoff
    BY <1>3, <2>1 DEF Request, CommitCreate
  <2>3. /\ \A i \in Ids \ {request[p].id} : rows'[i] = rows[i]
        /\ rows'[request[p].id].born = t
    BY <1>3, <2>1, <2>2 DEF CommitCreate
  <2> QED
    BY <2>1, <2>2, <2>3 DEF Live
<1>4. ASSUME CommitPatch(p)
      PROVE  (\A i \in Live : rows'[i].born = rows[i].born) /\ Live' \subseteq Live
  BY <1>4, CommitPatchBorn DEF Live
<1>5. ASSUME CommitRemoval(p)
      PROVE  (\A i \in Live : rows'[i].born = rows[i].born) /\ Live' \subseteq Live
  <2>1. \A i \in Ids : /\ [rows[i] EXCEPT !.state = "gone"].born = rows[i].born
                       /\ [rows[i] EXCEPT !.state = "gone"].state = "gone"
    BY DEF RecordInv, TypeOK, Row
  <2>2. \A i \in Ids : rows'[i] = rows[i] \/ rows'[i] = [rows[i] EXCEPT !.state = "gone"]
    BY <1>5 DEF CommitRemoval
  <2> QED
    BY <2>1, <2>2 DEF Live
<1>6. /\ \A i \in Live : rows'[i].born = rows[i].born
      /\ \A i \in Live' \ Live : rows'[i].born >= cutoff
  BY <1>3, <1>4, <1>5 DEF Commit
<1>7. ASSUME NEW q \in Processes \ {p}
      PROVE  RemovalInv(request[q])'
  BY <1>1, <1>2, <1>6, RemovalsKept
<1> QED
  BY <1>1, <1>7, NoLocksNoRemoval

\* Every step keeps what the pages rest on.
LEMMA WalkStep == RecordInv /\ RecordInv' /\ WalkInv /\ [Next]_vars => WalkInv'
<1> SUFFICES ASSUME RecordInv, RecordInv', WalkInv, [Next]_vars PROVE WalkInv'
  OBVIOUS
<1>0. TypeOK /\ TypeOK' /\ (walk.fixed => PagesInv) /\ \A q \in Processes : RemovalInv(request[q])
  BY DEF RecordInv, WalkInv
<1>1. ASSUME UNCHANGED <<offered, rows, walk>> PROVE (walk.fixed => PagesInv)'
  BY <1>0, <1>1, SamePages
<1>2. ASSUME NEW p \in Processes, UNCHANGED <<offered, rows, cutoff, walk>>, request'[p].locks = {},
             \A q \in Processes \ {p} : request'[q] = request[q]
      PROVE  WalkInv'
  BY <1>0, <1>1, <1>2, MoveRemoves, NoLocksNoRemoval DEF WalkInv
<1>3. ASSUME NEW h \in Handlers, Ask(h) PROVE WalkInv'
  <2>1. UNCHANGED <<offered, rows, cutoff, walk>>
    BY <1>3 DEF Ask, Create, Patch, Delete
  <2>2. request'[h].locks = {}
    <3>1. h \in Processes /\ Idle \in Request /\ Idle.locks = {}
      BY IdleTyped DEF Processes
    <3>2. \E r : request' = [request EXCEPT ![h] = r] /\ r.locks = {}
      <4>1. CASE \E i \in Ids, k \in Keys \union {NoKey} : Create(h, i, k)
        <5>1. PICK i \in Ids, k \in Keys \union {NoKey} : Create(h, i, k)
          BY <4>1
        <5> DEFINE r == [Idle EXCEPT !.op = "create", !.pc = "flush", !.id = i, !.key = k]
        <5>2. request' = [request EXCEPT ![h] = r] /\ r.locks = {}
          BY <3>1, <5>1 DEF Create, Request
        <5> QED
          BY <5>2
      <4>2. CASE \E i \in Ids, want \in Bodies : Patch(h, i, want)
        <5>1. PICK i \in Ids, want \in Bodies : Patch(h, i, want)
          BY <4>2
        <5> DEFINE r == [Idle EXCEPT !.op = "patch", !.pc = "flush", !.id = i, !.asked = want, !.read = rows[i].val]
        <5>2. request' = [request EXCEPT ![h] = r] /\ r.locks = {}
          BY <3>1, <5>1 DEF Patch, Request
        <5> QED
          BY <5>2
      <4>3. CASE \E i \in Ids : Delete(h, i)
        <5>1. PICK i \in Ids : Delete(h, i)
          BY <4>3
        <5> DEFINE r == [Idle EXCEPT !.op = "delete", !.pc = "flush", !.id = i]
        <5>2. request' = [request EXCEPT ![h] = r] /\ r.locks = {}
          BY <3>1, <5>1 DEF Delete, Request
        <5> QED
          BY <5>2
      <4> QED
        BY <1>3, <4>1, <4>2, <4>3 DEF Ask
    <3> QED
      BY <1>0, <3>1, <3>2 DEF TypeOK
  <2>3. h \in Processes /\ \A q \in Processes \ {h} : request'[q] = request[q]
    BY <1>0, <1>3 DEF Ask, Create, Patch, Delete, TypeOK, Processes
  <2> QED
    BY <1>2, <2>1, <2>2, <2>3
<1>4. ASSUME NEW w \in Workers, CleanUp(w) PROVE WalkInv'
  <2>1. UNCHANGED <<offered, rows, cutoff, walk>>
    BY <1>4 DEF CleanUp
  <2>2. request'[w].locks = {}
    BY <1>0, <1>4 DEF CleanUp, TypeOK, Processes, Idle
  <2>3. w \in Processes /\ \A q \in Processes \ {w} : request'[q] = request[q]
    BY <1>0, <1>4 DEF CleanUp, TypeOK, Processes
  <2> QED
    BY <1>2, <2>1, <2>2, <2>3
<1>5. ASSUME NEW p \in Processes, Rollback(p) \/ Fails(p) PROVE WalkInv'
  <2>1. UNCHANGED <<offered, rows, cutoff, walk>> /\ request' = [request EXCEPT ![p] = Idle]
    BY <1>5 DEF Rollback, Fails
  <2>2. request'[p].locks = {} /\ \A q \in Processes \ {p} : request'[q] = request[q]
    BY <1>0, <2>1, IdleTyped DEF TypeOK
  <2> QED
    BY <1>2, <2>1, <2>2
<1>6. ASSUME NEW p \in Processes, Flush(p) PROVE WalkInv'
  <2>1. UNCHANGED <<offered, rows, cutoff, walk>> /\ \A q \in Processes \ {p} : request'[q] = request[q]
    BY <1>0, <1>6 DEF Flush, TypeOK
  <2> QED
    BY <1>0, <1>1, <1>6, <2>1, FlushRemoves, MoveRemoves DEF WalkInv
<1>7. ASSUME NEW p \in Processes, Commit(p) PROVE WalkInv'
  <2>1. (walk.fixed => PagesInv)'
    <3>1. ASSUME NEW t \in 0 .. MaxTime, CommitCreate(p, t)
          PROVE  (walk.fixed => PagesInv)'
      <4>1. walk'.fixed => walk.fixed
        BY <1>0, <3>1 DEF CommitCreate, TypeOK, Walk
      <4> QED
        BY <1>0, <3>1, <4>1, CreatePages
    <3>2. CASE CommitPatch(p)
      <4>1. UNCHANGED <<offered, walk>>
        BY <3>2 DEF CommitPatch
      <4> QED
        BY <1>0, <3>2, <4>1, CommitPatchBorn, SamePages
    <3>3. CASE CommitRemoval(p)
      <4>1. walk'.fixed = walk.fixed
        BY <1>0, <3>3 DEF CommitRemoval, TypeOK, Walk
      <4> QED
        BY <1>0, <3>3, <4>1, RemovePages
    <3> QED
      BY <1>7, <3>1, <3>2, <3>3 DEF Commit
  <2> QED
    BY <1>0, <1>7, <2>1, CommitRemoves DEF WalkInv
<1>8. ASSUME UNCHANGED <<rows, request>>, cutoff' >= cutoff, (walk.fixed => PagesInv)' PROVE WalkInv'
  <2>1. Live' = Live
    BY <1>8 DEF Live
  <2> QED
    BY <1>0, <1>8, <2>1, RemovalsKept DEF WalkInv
<1>9. cutoff \in Nat /\ cutoff <= cutoff + 1 /\ cutoff >= cutoff
  BY <1>0 DEF TypeOK
<1>10. CASE Age \/ Beat \/ UNCHANGED vars
  BY <1>1, <1>8, <1>9, <1>10 DEF Age, Beat, vars
<1>11. CASE BeginWalk
  <2>1. walk'.fixed = walk.fixed
    BY <1>0, <1>11 DEF BeginWalk, TypeOK, Walk
  <2> QED
    BY <1>0, <1>8, <1>9, <1>11, <2>1, BeginPages DEF BeginWalk
<1>12. CASE ReadPage
  <2>1. walk'.fixed = walk.fixed /\ UNCHANGED <<rows, request, cutoff>>
    BY <1>0, <1>12 DEF ReadPage, TypeOK, Walk
  <2> QED
    BY <1>0, <1>8, <1>9, <1>12, <2>1, ReadPages
<1> QED
  BY <1>3, <1>4, <1>5, <1>6, <1>7, <1>10, <1>11, <1>12 DEF Next, Work

\* Before the first page there is nothing to miss.
LEMMA WalkBegins == Init => WalkInv
<1> SUFFICES ASSUME Init PROVE WalkInv
  OBVIOUS
<1>1. walk.fixed => BornApart /\ "list" \in offered
  <2>1. PICK m \in Mixes :
     /\ offered = m.operations
     /\ walk.fixed => /\ "list" \in m.operations
                      /\ \A i, j \in DOMAIN m.stock : m.stock[i] = m.stock[j] => i = j
     /\ rows = [i \in Ids |->
            [state |-> IF i \in DOMAIN m.stock THEN "live" ELSE "new", key |-> NoKey,
             val |-> Blank, born |-> IF i \in DOMAIN m.stock THEN m.stock[i] ELSE 0]]
    BY DEF Init
  <2>2. \A i \in Live : i \in DOMAIN m.stock /\ rows[i].born = m.stock[i]
    BY <2>1 DEF Live
  <2> QED
    BY <2>1, <2>2 DEF BornApart
<1>2. /\ walk.pc = "before" /\ walk.skip = 0 /\ walk.seen = {} /\ walk.first = {}
      /\ walk.twice = 0 /\ walk.grown = 0 /\ walk.shrunk = 0
  BY DEF Init
<1>3. Skipped = {} /\ SeenAhead = {}
  BY <1>2 DEF Skipped, SeenAhead
<1>4. walk.fixed => PagesInv
  BY <1>1, <1>2, <1>3, FS_EmptySet DEF PagesInv, MissedFew
<1>5. \A p \in Processes : RemovalInv(request[p])
  BY IdleTyped DEF Init, RemovalInv
<1> QED
  BY <1>4, <1>5 DEF WalkInv

LEMMA WalkInvariance == Spec => []WalkInv
BY WalkBegins, WalkStep, Invariance, PTL DEF Spec

\* Of the rows that were there all the time, a client that reads to the last page
\* misses no more than were deleted from the part it had read; whatever is
\* inserted, patched or cleaned up meanwhile, and for any size of a page.
THEOREM MissesOnlyForDeletions == Spec => []WalkMisses
<1>1. WalkInv => WalkMisses
  BY DEF WalkInv, PagesInv, MissedFew, WalkMisses
<1> QED
  BY <1>1, WalkInvariance, PTL

\* No row comes up a second time but for a row inserted before the place that the
\* client has reached.
THEOREM RepeatsOnlyForInsertions == Spec => []WalkRepeats
<1>1. RecordInv /\ WalkInv => WalkRepeats
  <2> SUFFICES ASSUME RecordInv, WalkInv, walk.fixed PROVE walk.twice <= walk.grown
    BY DEF WalkRepeats
  <2>1. walk.twice \in Nat /\ walk.grown \in Nat /\ Cardinality(SeenAhead) \in Nat
    BY WalkTyped, RowsCounted DEF RecordInv
  <2>2. Cardinality(SeenAhead) + walk.twice <= walk.grown
    BY DEF WalkInv, PagesInv
  <2> QED
    BY <2>1, <2>2
<1> QED
  BY <1>1, WalkInvariance, Invariance, PTL
=============================================================================
