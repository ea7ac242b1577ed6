-------------------------- MODULE CaseNumbersProofs --------------------------
(***************************************************************************)
(* Proofs about the numbering of cases, for any number of registers,       *)
(* certificate types and handlers.                                         *)
(***************************************************************************)
EXTENDS CaseNumbers, TLAPS

Job == [pc : {"idle", "read", "flush", "commit", "rollback"}, series : Series, year : Years,
        number : Nat, fresh : BOOLEAN, holds : BOOLEAN]

\* The record of a handler that is not filing.
LEMMA DoneTyped == Done \in Job /\ Done.pc = "idle" /\ ~Done.holds
BY SeriesAssumption DEF Done, Job, Series, Years

(* The types, and the number that a handler has computed is not 0. *)
Typed ==
  /\ TypeOK
  /\ \A f \in Filers : filing[f].pc \in {"flush", "commit"} => filing[f].number > 0

\* The first state is well typed.
LEMMA InitTyped == Init => Typed
<1> SUFFICES ASSUME Init PROVE Typed
  OBVIOUS
<1>1. filing \in [Filers -> Job] /\ \A f \in Filers : filing[f].pc = "idle"
  BY DoneTyped DEF Init
<1>2. issued \in [Series -> [Years -> Seq(Nat \ {0})]]
  BY DEF Init
<1>3. counter \in [CertTypes -> [year : Years, last : Nat]] /\ year \in Years
  BY SeriesAssumption DEF Init, NoCounter, Years
<1> QED
  BY <1>1, <1>2, <1>3 DEF Typed, TypeOK, Job

\* A step that only moves one handler.
LEMMA MoveTyped ==
  ASSUME Typed, NEW f \in Filers, NEW j \in Job, filing' = [filing EXCEPT ![f] = j],
         j.pc \in {"flush", "commit"} => j.number > 0, UNCHANGED <<year, issued, counter>>
  PROVE  Typed'
BY DEF Typed, TypeOK, Job

\* Every step keeps the types: one case for each action.
LEMMA NextTyped == Typed /\ [Next]_vars => Typed'
<1> SUFFICES ASSUME Typed, [Next]_vars PROVE Typed'
  OBVIOUS
<1>0. filing \in [Filers -> Job]
  BY DEF Typed, TypeOK, Job
<1>1. ASSUME NEW f \in Filers, NEW s \in Series, File(f, s) PROVE Typed'
  <2> DEFINE j == [Done EXCEPT !.pc = "read", !.series = s, !.year = year]
  <2>1. j \in Job /\ j.pc = "read"
    BY DoneTyped DEF Typed, TypeOK, Job
  <2> QED
    BY <1>1, <2>1, MoveTyped DEF File
<1>2. ASSUME NEW f \in Filers, CountRows(f) PROVE Typed'
  <2> DEFINE n == Len(issued[filing[f].series][filing[f].year]) + 1
             j == [filing[f] EXCEPT !.pc = "flush", !.number = n]
  <2>1. n \in Nat \ {0}
    BY <1>0 DEF Typed, TypeOK, Job
  <2>2. filing' = [filing EXCEPT ![f] = j]
    BY <1>0, <1>2 DEF CountRows
  <2> HIDE DEF n
  <2>3. j \in Job /\ j.number = n
    <3>1. filing[f] \in Job
      BY <1>0
    <3> QED
      BY <2>1, <3>1 DEF Job
  <2> HIDE DEF j
  <2>4. j.number > 0
    BY <2>1, <2>3
  <2> QED
    BY <1>2, <2>2, <2>3, <2>4, MoveTyped DEF CountRows
<1>3. ASSUME NEW f \in Filers, ReadCounter(f) PROVE Typed'
  <2> DEFINE s == filing[f].series
             found == HasCounter(s, filing[f].year)
             n == IF found THEN counter[s].last + 1 ELSE 1
             j == [filing[f] EXCEPT !.pc = "flush", !.fresh = ~found, !.number = n]
  <2>1. counter[s].last \in Nat
    BY <1>3 DEF ReadCounter, Typed, TypeOK
  <2>2. n \in Nat \ {0}
    BY <2>1
  <2>3. (~found) \in BOOLEAN
    BY DEF HasCounter
  <2>4. filing' = [filing EXCEPT ![f] = j]
    BY <1>0, <1>3 DEF ReadCounter
  <2> HIDE DEF n, found
  <2>5. j \in Job /\ j.number = n
    <3>1. filing[f] \in Job
      BY <1>0
    <3> QED
      BY <2>2, <2>3, <3>1 DEF Job
  <2> HIDE DEF j
  <2>6. j.number > 0
    BY <2>2, <2>5
  <2> QED
    BY <1>3, <2>4, <2>5, <2>6, MoveTyped DEF ReadCounter
<1>4. ASSUME NEW f \in Filers, Flush(f) PROVE Typed'
  <2> DEFINE ok == CounterFits(filing[f]) /\ NumberFits(filing[f])
             pc == IF ok THEN "commit" ELSE "rollback"
             held == IF filing[f].series \in Registers THEN NumberFits(filing[f])
                     ELSE CounterFits(filing[f])
             j == [filing[f] EXCEPT !.pc = pc, !.holds = held]
  <2>1. pc \in {"commit", "rollback"} /\ held \in BOOLEAN
    BY DEF CounterFits, NumberFits
  <2>2. filing' = [filing EXCEPT ![f] = j] /\ filing[f].pc = "flush"
    BY <1>0, <1>4 DEF Flush
  <2>3. filing[f].number > 0
    BY <2>2 DEF Typed
  <2> HIDE DEF pc, held
  <2>4. j \in Job /\ j.number > 0
    BY <1>0, <2>1, <2>3 DEF Job
  <2> HIDE DEF j
  <2> QED
    BY <1>4, <2>2, <2>4, MoveTyped DEF Flush
<1>5. ASSUME NEW f \in Filers, Commit(f) PROVE Typed'
  <2> DEFINE j == filing[f]
  <2>1. j.number \in Nat \ {0} /\ j.series \in Series /\ j.year \in Years
    BY <1>0, <1>5 DEF Commit, Typed, Job
  <2>2. issued' \in [Series -> [Years -> Seq(Nat \ {0})]]
    BY <1>5, <2>1 DEF Commit, Typed, TypeOK
  <2>3. counter' \in [CertTypes -> [year : Years, last : Nat]]
    BY <1>5, <2>1 DEF Commit, Typed, TypeOK
  <2>4. filing' = [filing EXCEPT ![f] = Done] /\ year' = year
    BY <1>5 DEF Commit
  <2> QED
    BY <2>2, <2>3, <2>4, DoneTyped DEF Typed, TypeOK, Job
<1>6. ASSUME NEW f \in Filers, Rollback(f) \/ Fails(f) PROVE Typed'
  BY <1>6, DoneTyped, MoveTyped DEF Rollback, Fails
<1>7. CASE NewYear
  BY <1>7, SeriesAssumption DEF NewYear, Years, Typed, TypeOK
<1>8. CASE UNCHANGED vars
  BY <1>8 DEF vars, Typed, TypeOK
<1> QED
  BY <1>1, <1>2, <1>3, <1>4, <1>5, <1>6, <1>7, <1>8 DEF Next, Work

(* Every variable keeps its type, whatever handlers overlap. *)
THEOREM CaseNumbersTyped == Spec => []TypeOK
<1>1. Typed => TypeOK
  BY DEF Typed
<1> QED
  BY <1>1, InitTyped, NextTyped, PTL DEF Spec

-----------------------------------------------------------------------------
(* The inductive invariant. *)

\* The i-th number of a series and year is i.
InOrder == \A s \in Series, y \in Years : \A i \in 1 .. Len(issued[s][y]) : issued[s][y][i] = i

\* What a handler has computed is at most one ahead of what is committed; what
\* it is about to commit is exactly the next number, and it holds its lock.
JobFits(j) ==
  /\ j.pc \in {"flush", "commit"} =>
       /\ j.number > 0 /\ j.number <= Len(issued[j.series][j.year]) + 1
       /\ j.series \in CertTypes => IF j.fresh THEN j.number = 1 ELSE HasCounter(j.series, j.year)
  /\ j.pc = "commit" =>
       j.holds /\ j.number = Len(issued[j.series][j.year]) + 1 /\ CounterFits(j)
  /\ j.holds => j.pc \in {"commit", "rollback"}

Exclusive ==
  \A f, g \in Filers :
    f # g /\ filing[f].holds /\ filing[g].holds => Lock(filing[f]) # Lock(filing[g])

Inv ==
  /\ Typed /\ InOrder /\ CountersMatch /\ Exclusive
  /\ \A f \in Filers : JobFits(filing[f])

\* A handler that is not filing has computed nothing and holds nothing.
LEMMA DoneFits == JobFits(Done)
BY DoneTyped DEF JobFits

\* The empty tables satisfy the invariant.
LEMMA InitInv == Init => Inv
<1> SUFFICES ASSUME Init PROVE Inv
  OBVIOUS
<1>1. InOrder
  BY DEF Init, InOrder
<1>2. CountersMatch
  BY DEF Init, CountersMatch, NoCounter, Series
<1>3. \A f \in Filers : filing[f] = Done
  BY DEF Init
<1>4. Exclusive
  BY <1>3, DoneTyped DEF Exclusive
<1> QED
  BY <1>1, <1>2, <1>3, <1>4, DoneFits, InitTyped DEF Inv

\* A step that only moves one handler.
LEMMA MoveInv ==
  ASSUME Inv, Typed', NEW f \in Filers, NEW j \in Job, filing' = [filing EXCEPT ![f] = j],
         UNCHANGED <<year, issued, counter>>, JobFits(j),
         j.holds => \A g \in Filers \ {f} : filing[g].holds => Lock(filing[g]) # Lock(j)
  PROVE  Inv'
<1>1. filing'[f] = j /\ \A g \in Filers \ {f} : filing'[g] = filing[g]
  BY DEF Inv, Typed, TypeOK
<1>2. InOrder' /\ CountersMatch'
  BY DEF Inv, InOrder, CountersMatch
<1>3. ASSUME NEW g \in Filers PROVE JobFits(filing[g])'
  <2>1. JobFits(filing'[g])
    BY <1>1 DEF Inv
  <2> QED
    BY <2>1 DEF JobFits, CounterFits, HasCounter
<1>4. Exclusive'
  BY <1>1 DEF Inv, Exclusive, Lock
<1> QED
  BY <1>2, <1>3, <1>4 DEF Inv

\* A number that the constraint lets pass is the next one.
LEMMA FlushInv == ASSUME Inv, Typed', NEW f \in Filers, Flush(f) PROVE Inv'
<1> DEFINE old == filing[f]
           ok == CounterFits(old) /\ NumberFits(old)
           pc == IF ok THEN "commit" ELSE "rollback"
           held == IF old.series \in Registers THEN NumberFits(old) ELSE CounterFits(old)
           j == [old EXCEPT !.pc = pc, !.holds = held]
<1>1. old \in Job /\ old.pc = "flush" /\ JobFits(old)
  BY DEF Inv, Typed, TypeOK, Job, Flush
<1>2. filing' = [filing EXCEPT ![f] = j] /\ UNCHANGED <<year, issued, counter>>
  BY <1>1 DEF Flush, Inv, Typed, TypeOK, Job
<1>3. ok => held
  BY <1>1 DEF CounterFits
<1>4. ok => old.number = Len(issued[old.series][old.year]) + 1
  <2> DEFINE rows == issued[old.series][old.year]
  <2> SUFFICES ASSUME ok PROVE old.number = Len(rows) + 1
    OBVIOUS
  <2>1. rows \in Seq(Nat \ {0}) /\ old.number \in Nat /\ Len(rows) \in Nat
    BY <1>1 DEF Inv, Typed, TypeOK, Job
  <2>2. old.number > 0 /\ old.number <= Len(rows) + 1
    BY <1>1 DEF JobFits
  <2>3. \A i \in 1 .. Len(rows) : rows[i] = i
    BY <1>1 DEF Inv, InOrder, Job
  <2>4. old.number \notin 1 .. Len(rows)
    <3>1. old.number \notin {rows[i] : i \in DOMAIN rows}
      BY DEF NumberFits, Range
    <3>2. DOMAIN rows = 1 .. Len(rows)
      BY <2>1
    <3> QED
      BY <3>1, <3>2, <2>3
  <2>5. \A n, m \in Nat : n > 0 /\ n <= m + 1 /\ n \notin 1 .. m => n = m + 1
    OBVIOUS
  <2> HIDE DEF rows
  <2> QED
    BY <2>1, <2>2, <2>4, <2>5
<1>5. held \in BOOLEAN /\ pc \in {"commit", "rollback"} /\ (pc = "commit" <=> ok)
  BY DEF CounterFits, NumberFits
<1>6. CounterFits(j) <=> CounterFits(old)
  BY <1>1 DEF CounterFits, Job
<1>7. Lock(j) = Lock(old)
  BY <1>1 DEF Lock, Job
<1> HIDE DEF pc, held, ok
<1>8. j \in Job /\ j.pc = pc /\ j.holds = held /\ j.number = old.number
      /\ j.series = old.series /\ j.year = old.year /\ j.fresh = old.fresh
  BY <1>1, <1>5 DEF Job
<1>9. JobFits(j)
  <2>1. ok => CounterFits(old)
    BY DEF ok
  <2> HIDE DEF j, old
  <2> QED
    BY <1>1, <1>3, <1>4, <1>5, <1>6, <1>8, <2>1 DEF JobFits
<1>10. \A g \in Filers \ {f} : filing[g].holds => Lock(filing[g]) # Lock(j)
  BY <1>7 DEF Flush, Waits
<1> HIDE DEF j
<1> QED
  BY <1>2, <1>8, <1>9, <1>10, MoveInv

\* What a row more does to the numbers of a series.
LEMMA AppendRow ==
  ASSUME NEW q \in Seq(Nat \ {0}), NEW e \in Nat \ {0}
  PROVE  /\ Len(Append(q, e)) = Len(q) + 1
         /\ \A k \in 1 .. Len(q) + 1 : Append(q, e)[k] = IF k = Len(q) + 1 THEN e ELSE q[k]
OBVIOUS

\* A commit adds the next number, and no other handler is about to commit to
\* the same series: it would hold the same lock.
LEMMA CommitInv == ASSUME Inv, Typed', NEW f \in Filers, Commit(f) PROVE Inv'
<1> DEFINE j == filing[f]
           S == j.series
           Y == j.year
<1>0. issued \in [Series -> [Years -> Seq(Nat \ {0})]]
  BY DEF Inv, Typed, TypeOK
<1>1. j \in Job /\ j.pc = "commit" /\ JobFits(j) /\ S \in Series /\ Y \in Years
  BY DEF Inv, Typed, TypeOK, Job, Commit
<1>2. j.holds /\ j.number = Len(issued[S][Y]) + 1 /\ CounterFits(j) /\ j.number \in Nat \ {0}
  BY <1>1 DEF JobFits, Job
<1>3. issued[S][Y] \in Seq(Nat \ {0}) /\ Len(issued[S][Y]) \in Nat
  BY <1>0, <1>1
<1>4. issued'[S][Y] = Append(issued[S][Y], j.number)
  <2>1. issued' = [issued EXCEPT ![S][Y] = Append(@, j.number)]
    BY DEF Commit
  <2> QED
    BY <1>0, <1>1, <2>1
<1>5. /\ Len(issued'[S][Y]) = Len(issued[S][Y]) + 1
      /\ \A k \in 1 .. Len(issued[S][Y]) + 1 :
           issued'[S][Y][k] = IF k = Len(issued[S][Y]) + 1 THEN j.number ELSE issued[S][Y][k]
  <2> DEFINE q == issued[S][Y]
             e == j.number
             r == issued'[S][Y]
  <2>1. q \in Seq(Nat \ {0}) /\ e \in Nat \ {0} /\ r = Append(q, e)
    BY <1>2, <1>3, <1>4
  <2> HIDE DEF q, e, r
  <2>2. /\ Len(r) = Len(q) + 1
        /\ \A k \in 1 .. Len(q) + 1 : r[k] = IF k = Len(q) + 1 THEN e ELSE q[k]
    BY <2>1, AppendRow
  <2> QED
    BY <2>2 DEF q, e, r
<1>6. \A s \in Series, y \in Years : <<s, y>> # <<S, Y>> => issued'[s][y] = issued[s][y]
  BY <1>1 DEF Commit, Inv, Typed, TypeOK
<1>7. filing'[f] = Done /\ \A g \in Filers \ {f} : filing'[g] = filing[g]
  BY DEF Commit, Inv, Typed, TypeOK
<1>8. \A s \in CertTypes : s # S => counter'[s] = counter[s]
  BY DEF Commit, Inv, Typed, TypeOK
<1>9. S \in CertTypes =>
        /\ counter'[S] = [year |-> IF j.fresh THEN Y ELSE counter[S].year, last |-> j.number]
        /\ S \notin Registers
  BY SeriesAssumption DEF Commit, Inv, Typed, TypeOK
<1>10. InOrder'
  <2> SUFFICES ASSUME NEW s \in Series, NEW y \in Years, NEW i \in 1 .. Len(issued'[s][y])
               PROVE  issued'[s][y][i] = i
    BY DEF InOrder
  <2>1. CASE <<s, y>> # <<S, Y>>
    BY <1>6, <2>1 DEF Inv, InOrder
  <2>2. CASE s = S /\ y = Y
    <3>1. \A k \in 1 .. Len(issued[S][Y]) : issued[S][Y][k] = k
      BY <1>1 DEF Inv, InOrder
    <3>2. i \in 1 .. Len(issued[S][Y]) + 1
      BY <1>5, <2>2
    <3>3. CASE i = Len(issued[S][Y]) + 1
      BY <1>2, <1>5, <2>2, <3>3
    <3>4. CASE i # Len(issued[S][Y]) + 1
      <4>1. i \in 1 .. Len(issued[S][Y])
        <5>1. \A n \in Nat : i \in 1 .. n + 1 /\ i # n + 1 => i \in 1 .. n
          OBVIOUS
        <5> QED
          BY <1>3, <3>2, <3>4, <5>1
      <4> QED
        BY <1>5, <2>2, <3>1, <3>2, <3>4, <4>1
    <3> QED
      BY <3>3, <3>4
  <2> QED
    BY <2>1, <2>2
<1>11. CountersMatch'
  <2> SUFFICES ASSUME NEW s \in CertTypes, NEW y \in Years
               PROVE  Len(issued'[s][y]) = IF y = counter'[s].year THEN counter'[s].last ELSE 0
    BY DEF CountersMatch
  <2>0. s \in Series /\ Len(issued[s][y]) = IF y = counter[s].year THEN counter[s].last ELSE 0
    BY DEF Inv, CountersMatch, Series
  <2>1. CASE s # S
    BY <1>6, <1>8, <2>0, <2>1
  <2>2. CASE s = S /\ j.fresh
    <3>1. counter[s].last = 0
      BY <1>2, <1>9, <2>2 DEF CounterFits
    <3>2. counter'[s].year = Y /\ counter'[s].last = j.number
      BY <1>9, <2>2
    <3>3. CASE y = Y
      BY <1>2, <1>5, <2>2, <3>2, <3>3
    <3>4. CASE y # Y
      BY <1>6, <2>0, <2>2, <3>1, <3>2, <3>4
    <3> QED
      BY <3>3, <3>4
  <2>3. CASE s = S /\ ~j.fresh
    <3>1. counter[s].year = Y
      BY <1>1, <2>3 DEF JobFits, HasCounter
    <3>2. counter'[s].year = Y /\ counter'[s].last = j.number
      BY <1>9, <2>3, <3>1
    <3>3. CASE y = Y
      BY <1>2, <1>5, <2>3, <3>2, <3>3
    <3>4. CASE y # Y
      BY <1>6, <2>0, <2>3, <3>1, <3>2, <3>4
    <3> QED
      BY <3>3, <3>4
  <2> QED
    BY <2>1, <2>2, <2>3
<1>12. Exclusive'
  BY <1>7, DoneTyped DEF Inv, Exclusive, Lock
<1>13. ASSUME NEW g \in Filers \ {f} PROVE JobFits(filing[g])'
  <2> DEFINE k == filing[g]
             rows == issued[k.series][k.year]
  <2>1. k \in Job /\ JobFits(k) /\ filing'[g] = k
    BY <1>7 DEF Inv, Typed, TypeOK, Job
  <2>2. k.series \in Series /\ k.year \in Years /\ k.number \in Nat /\ Len(rows) \in Nat
    BY <2>1 DEF Job, Inv, Typed, TypeOK
  <2>3. Len(issued'[k.series][k.year]) \in {Len(rows), Len(rows) + 1}
    <3>1. CASE k.series = S /\ k.year = Y
      BY <1>5, <3>1
    <3>2. CASE <<k.series, k.year>> # <<S, Y>>
      BY <1>6, <2>2, <3>2
    <3> QED
      BY <3>1, <3>2
  <2>4. ASSUME k.series \in CertTypes, HasCounter(k.series, k.year)
        PROVE  counter'[k.series].last > 0 /\ counter'[k.series].year = k.year
    <3>1. CASE k.series # S
      BY <1>8, <2>4, <3>1 DEF HasCounter
    <3>2. CASE k.series = S
      <4>1. counter[S].last > 0 /\ counter[S].year = k.year
        BY <2>4, <3>2 DEF HasCounter
      <4>2. counter[S].last # 0
        BY <4>1
      <4>3. ~j.fresh
        BY <1>2, <1>9, <2>4, <3>2, <4>2 DEF CounterFits
      <4>4. j.number > 0
        <5>1. \A n \in Nat \ {0} : n > 0
          OBVIOUS
        <5> QED
          BY <1>2, <5>1
      <4>5. counter'[S].last = j.number /\ counter'[S].year = counter[S].year
        BY <1>9, <2>4, <3>2, <4>3
      <4> QED
        BY <3>2, <4>1, <4>4, <4>5
    <3> QED
      BY <3>1, <3>2
  <2>5. ASSUME k.pc = "commit"
        PROVE  /\ issued'[k.series][k.year] = rows
               /\ k.series \in Registers \/ ~k.fresh \/ counter'[k.series].last = 0
    <3>1. k.holds /\ k.number = Len(rows) + 1 /\ CounterFits(k)
      BY <2>1, <2>5 DEF JobFits
    <3>2. Lock(k) # Lock(j)
      BY <1>2, <3>1 DEF Inv, Exclusive
    <3>3. <<k.series, k.year>> # <<S, Y>>
      BY <1>2, <3>1, <3>2 DEF Lock
    <3>4. k.series \in CertTypes => k.series # S
      BY <1>9, <3>2 DEF Lock
    <3>5. issued'[k.series][k.year] = rows
      BY <1>6, <2>2, <3>3
    <3>6. k.series \in Registers \/ ~k.fresh \/ counter'[k.series].last = 0
      BY <1>8, <2>2, <3>1, <3>4 DEF CounterFits, Series
    <3> QED
      BY <3>5, <3>6
  <2>6. ASSUME k.pc \in {"flush", "commit"}
        PROVE  /\ k.number > 0 /\ k.number <= Len(issued'[k.series][k.year]) + 1
               /\ k.series \in CertTypes =>
                    IF k.fresh THEN k.number = 1
                    ELSE counter'[k.series].last > 0 /\ counter'[k.series].year = k.year
    <3>1. k.number > 0 /\ k.number <= Len(rows) + 1
      BY <2>1, <2>6 DEF JobFits
    <3>2. k.number <= Len(issued'[k.series][k.year]) + 1
      <4>1. \A n, m, l \in Nat : n <= m + 1 /\ l \in {m, m + 1} => n <= l + 1
        OBVIOUS
      <4>2. Len(issued'[k.series][k.year]) \in Nat
        <5>1. \A m \in Nat : m + 1 \in Nat
          OBVIOUS
        <5> QED
          BY <2>2, <2>3, <5>1
      <4> QED
        BY <2>2, <2>3, <3>1, <4>1, <4>2
    <3> QED
      BY <2>1, <2>4, <2>6, <3>1, <3>2 DEF JobFits
  <2>7. k.pc = "commit" => k.holds /\ k.number = Len(issued'[k.series][k.year]) + 1
    BY <2>1, <2>5 DEF JobFits
  <2>8. k.holds => k.pc \in {"commit", "rollback"}
    BY <2>1 DEF JobFits
  <2> QED
    BY <2>1, <2>5, <2>6, <2>7, <2>8 DEF JobFits, HasCounter, CounterFits
<1>14. JobFits(filing[f])'
  BY <1>7, DoneTyped DEF JobFits
<1> QED
  BY <1>10, <1>11, <1>12, <1>13, <1>14 DEF Inv

\* Every step keeps the invariant: one case for each action.
LEMMA NextInv == Inv /\ [Next]_vars => Inv'
<1> SUFFICES ASSUME Inv, [Next]_vars PROVE Inv'
  OBVIOUS
<1>0. Typed' /\ filing \in [Filers -> Job]
  BY NextTyped DEF Inv, Typed, TypeOK, Job
<1>1. ASSUME NEW f \in Filers, NEW s \in Series, File(f, s) PROVE Inv'
  <2> DEFINE j == [Done EXCEPT !.pc = "read", !.series = s, !.year = year]
  <2>1. j \in Job /\ j.pc = "read" /\ ~j.holds
    BY DoneTyped DEF Job, Inv, Typed, TypeOK
  <2>2. JobFits(j)
    BY <2>1 DEF JobFits
  <2>3. filing' = [filing EXCEPT ![f] = j] /\ UNCHANGED <<year, issued, counter>>
    BY <1>1 DEF File
  <2> HIDE DEF j
  <2> QED
    BY <1>0, <2>1, <2>2, <2>3, MoveInv
<1>2. ASSUME NEW f \in Filers, CountRows(f) PROVE Inv'
  <2> DEFINE old == filing[f]
             n == Len(issued[old.series][old.year]) + 1
             j == [old EXCEPT !.pc = "flush", !.number = n]
  <2>1. old \in Job /\ old.pc = "read" /\ old.series \in Registers /\ JobFits(old)
    BY <1>0, <1>2 DEF CountRows, Inv
  <2>2. n \in Nat /\ n > 0 /\ n <= n
    BY <2>1 DEF Inv, Typed, TypeOK, Job
  <2>3. filing' = [filing EXCEPT ![f] = j] /\ UNCHANGED <<year, issued, counter>>
    BY <1>0, <1>2 DEF CountRows
  <2>4. /\ j \in Job /\ j.pc = "flush" /\ j.number = Len(issued[j.series][j.year]) + 1
        /\ j.number = n /\ j.series \in Registers /\ ~j.holds
    BY <2>1, <2>2 DEF Job, JobFits
  <2> HIDE DEF j
  <2>5. JobFits(j)
    BY <2>2, <2>4, SeriesAssumption DEF JobFits
  <2> QED
    BY <1>0, <2>3, <2>4, <2>5, MoveInv
<1>3. ASSUME NEW f \in Filers, ReadCounter(f) PROVE Inv'
  <2> DEFINE old == filing[f]
             s == old.series
             found == HasCounter(s, old.year)
             n == IF found THEN counter[s].last + 1 ELSE 1
             j == [old EXCEPT !.pc = "flush", !.fresh = ~found, !.number = n]
  <2>1. /\ old \in Job /\ old.pc = "read" /\ s \in CertTypes /\ s \in Series
        /\ old.year \in Years /\ JobFits(old)
    BY <1>0, <1>3 DEF ReadCounter, Inv, Job
  <2>2. counter[s].last \in Nat /\ Len(issued[s][old.year]) \in Nat
    BY <2>1 DEF Inv, Typed, TypeOK
  <2>3. found => counter[s].last = Len(issued[s][old.year])
    BY <2>1 DEF Inv, CountersMatch, HasCounter
  <2>4. n \in Nat /\ n > 0 /\ n <= Len(issued[s][old.year]) + 1
    <3> DEFINE c == counter[s].last
               l == Len(issued[s][old.year])
    <3>1. c \in Nat /\ l \in Nat /\ (found => c = l)
      BY <2>2, <2>3
    <3>2. n = IF found THEN c + 1 ELSE 1
      OBVIOUS
    <3> HIDE DEF c, l, n, found
    <3>3. n \in Nat /\ n > 0 /\ n <= l + 1
      BY <3>1, <3>2
    <3> QED
      BY <3>3 DEF l
  <2>5. (~found) \in BOOLEAN /\ (~found => n = 1)
    BY DEF HasCounter
  <2>6. filing' = [filing EXCEPT ![f] = j] /\ UNCHANGED <<year, issued, counter>>
    BY <1>0, <1>3 DEF ReadCounter
  <2> HIDE DEF n, found
  <2>7. /\ j \in Job /\ j.pc = "flush" /\ j.number = n /\ j.series = s /\ j.year = old.year
        /\ j.fresh = ~found /\ ~j.holds
    BY <2>1, <2>4, <2>5 DEF Job, JobFits
  <2> HIDE DEF j, s, old
  <2>8. ~j.fresh => HasCounter(j.series, j.year)
    BY <2>7 DEF found
  <2>9. JobFits(j)
    BY <2>4, <2>5, <2>7, <2>8 DEF JobFits
  <2> QED
    BY <1>0, <2>6, <2>7, <2>9, MoveInv
<1>4. ASSUME NEW f \in Filers, Flush(f) PROVE Inv'
  BY <1>0, <1>4, FlushInv
<1>5. ASSUME NEW f \in Filers, Commit(f) PROVE Inv'
  BY <1>0, <1>5, CommitInv
<1>6. ASSUME NEW f \in Filers, Rollback(f) \/ Fails(f) PROVE Inv'
  BY <1>0, <1>6, DoneTyped, DoneFits, MoveInv DEF Rollback, Fails
<1>7. CASE NewYear \/ UNCHANGED vars
  <2>1. UNCHANGED <<issued, counter, filing>>
    BY <1>7 DEF NewYear, vars
  <2>2. InOrder' /\ CountersMatch' /\ Exclusive'
    BY <2>1 DEF Inv, InOrder, CountersMatch, Exclusive, Lock
  <2>3. \A f \in Filers : JobFits(filing[f])'
    BY <2>1 DEF Inv, JobFits, CounterFits, HasCounter
  <2> QED
    BY <1>0, <2>2, <2>3 DEF Inv
<1> QED
  BY <1>1, <1>2, <1>3, <1>4, <1>5, <1>6, <1>7 DEF Next, Work

(* The counter row of a certificate type stands for the certificates issued,  *)
(* none of another year, for any number of overlapping handlers: a stale read *)
(* of the counter never gets past the unique constraint on the number.        *)
THEOREM CountersStayMatched == Spec => []CountersMatch
<1>1. Inv => CountersMatch
  BY DEF Inv
<1> QED
  BY <1>1, InitInv, NextInv, PTL DEF Spec

(* Numbering by count and numbering by counter implement the number book: a   *)
(* commit issues the next number of its series and year, every other step     *)
(* leaves the book alone.                                                     *)
THEOREM NumbersStayInOrder == Spec => NumbersInOrder
<1>1. Init => Book!Init
  BY DEF Init, Book!Init
<1>2. Inv /\ [Next]_vars => [Book!Next]_issued
  <2> SUFFICES ASSUME Inv, [Next]_vars, issued' # issued PROVE Book!Next
    OBVIOUS
  <2>1. PICK f \in Filers : Commit(f)
    BY DEF Next, Work, File, CountRows, ReadCounter, Flush, Rollback, Fails, NewYear, vars
  <2> DEFINE j == filing[f]
  <2>2. /\ j.series \in Series /\ j.year \in Years
        /\ j.number = Len(issued[j.series][j.year]) + 1
    BY <2>1 DEF Commit, Inv, Typed, TypeOK, JobFits
  <2>3. Book!Issue(j.series, j.year)
    BY <2>1, <2>2 DEF Commit, Book!Issue, Inv, Typed, TypeOK
  <2> QED
    BY <2>2, <2>3 DEF Book!Next
<1> QED
  BY <1>1, <1>2, InitInv, NextInv, PTL DEF Spec, NumbersInOrder, Book!Spec
=============================================================================
