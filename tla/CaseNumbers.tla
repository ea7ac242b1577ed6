---------------------------- MODULE CaseNumbers -----------------------------
(***************************************************************************)
(* How blotter reports, complaints and certificate requests get their      *)
(* numbers (app/modules/blotter, complaints and certificates: router.py    *)
(* and model.py).  A register counts its rows of the year; a certificate   *)
(* type keeps a counter row, which is unique by type.  Every handler runs  *)
(* in a READ COMMITTED transaction of its own: it sees what is committed,  *)
(* a write waits for the transaction that holds the row or the key, and a  *)
(* duplicate is refused by the unique constraint.                          *)
(***************************************************************************)
EXTENDS Naturals, Sequences, Functions

CONSTANTS
  Registers,   \* tables numbered by COUNT(*) + 1
  CertTypes,   \* certificate types, numbered by a counter row
  Filers,      \* request handlers
  MaxYear,     \* bound: how often the year turns
  MaxNumber    \* bound: a series that has reached it in a year files no more

ASSUME SeriesAssumption ==
  /\ Registers # {} /\ Registers \intersect CertTypes = {}
  /\ MaxYear \in Nat /\ MaxNumber \in Nat

VARIABLES
  year,      \* datetime.now().year
  issued,    \* the committed numbers of each series and year, in order of commit
  counter,   \* the committed counter row of each certificate type
  filing     \* the handlers

vars == <<year, issued, counter, filing>>

Series == Registers \union CertTypes
Years == 0 .. MaxYear

NoCounter == [year |-> 0, last |-> 0]   \* a committed row has last > 0

Done == [pc |-> "idle", series |-> CHOOSE s \in Series : TRUE, year |-> 0,
         number |-> 0, fresh |-> FALSE, holds |-> FALSE]

-----------------------------------------------------------------------------
\* file_report, file_complaint, create_request: the year is read first.
File(f, s) ==
  /\ filing[f].pc = "idle"
  /\ Len(issued[s][year]) < MaxNumber
  /\ filing' = [filing EXCEPT ![f] = [Done EXCEPT !.pc = "read", !.series = s, !.year = year]]
  /\ UNCHANGED <<year, issued, counter>>

\* Mutant of CountRows: the count without the one more.
CountRowsOnly(f) ==
  LET j == filing[f] IN
  /\ j.pc = "read" /\ j.series \in Registers
  /\ filing' = [filing EXCEPT ![f].pc = "flush", ![f].number = Len(issued[j.series][j.year])]
  /\ UNCHANGED <<year, issued, counter>>

\* _generate_report_number, _generate_reference: the count and one more.
CountRows(f) ==
  LET j == filing[f] IN
  /\ j.pc = "read" /\ j.series \in Registers
  /\ filing' = [filing EXCEPT ![f].pc = "flush", ![f].number = Len(issued[j.series][j.year]) + 1]
  /\ UNCHANGED <<year, issued, counter>>

HasCounter(s, y) == counter[s].last > 0 /\ counter[s].year = y

\* _generate_request_number: the counter of the type and the year, or a new one.
ReadCounter(f) ==
  LET j == filing[f]
      found == HasCounter(j.series, j.year) IN
  /\ j.pc = "read" /\ j.series \in CertTypes
  /\ filing' = [filing EXCEPT
       ![f].pc = "flush", ![f].fresh = ~found,
       ![f].number = IF found THEN counter[j.series].last + 1 ELSE 1]
  /\ UNCHANGED <<year, issued, counter>>

\* What a flush locks: the number it inserts, or the counter row.
Lock(j) == IF j.series \in Registers THEN <<j.series, j.year, j.number>> ELSE <<j.series>>

Waits(f) == \E g \in Filers \ {f} : filing[g].holds /\ Lock(filing[g]) = Lock(filing[f])

CounterFits(j) == j.series \in Registers \/ ~j.fresh \/ counter[j.series].last = 0
\* Mutant of NumberFits: the number's column is not unique.
NumberRepeats(j) == TRUE

NumberFits(j) == j.number \notin Range(issued[j.series][j.year])

\* Mutant of Flush: the counter is committed before the case is inserted.
FlushCommitsCounter(f) ==
  LET j == filing[f] IN
  /\ j.pc = "flush" /\ ~Waits(f)
  /\ filing' = [filing EXCEPT
       ![f].pc = IF CounterFits(j) /\ NumberFits(j) THEN "commit" ELSE "rollback"]
  /\ counter' = IF j.series \in CertTypes /\ CounterFits(j)
                THEN [counter EXCEPT ![j.series] = [year |-> j.year, last |-> j.number]]
                ELSE counter
  /\ UNCHANGED <<year, issued>>

\* create: the flush writes the counter, then inserts the case.
Flush(f) ==
  LET j == filing[f] IN
  /\ j.pc = "flush" /\ ~Waits(f)
  /\ filing' = [filing EXCEPT
       ![f].pc = IF CounterFits(j) /\ NumberFits(j) THEN "commit" ELSE "rollback",
       ![f].holds = IF j.series \in Registers THEN NumberFits(j) ELSE CounterFits(j)]
  /\ UNCHANGED <<year, issued, counter>>

Commit(f) ==
  LET j == filing[f] IN
  /\ j.pc = "commit"
  /\ issued' = [issued EXCEPT ![j.series][j.year] = Append(@, j.number)]
  /\ counter' = IF j.series \in Registers THEN counter
                ELSE [counter EXCEPT ![j.series] =
                        [year |-> IF j.fresh THEN j.year ELSE @.year, last |-> j.number]]
  /\ filing' = [filing EXCEPT ![f] = Done]
  /\ UNCHANGED year

\* Mutant of Rollback: the transaction stays open.
RollbackForgotten(f) ==
  /\ filing[f].pc = "rollback"
  /\ filing' = [filing EXCEPT ![f].pc = "idle"]
  /\ UNCHANGED <<year, issued, counter>>

\* get_db rolls back after the IntegrityError and the handler answers 500.
Rollback(f) ==
  /\ filing[f].pc = "rollback"
  /\ filing' = [filing EXCEPT ![f] = Done]
  /\ UNCHANGED <<year, issued, counter>>

\* The database or the process fails; the server ends the transaction.
Fails(f) ==
  /\ filing[f].pc # "idle"
  /\ filing' = [filing EXCEPT ![f] = Done]
  /\ UNCHANGED <<year, issued, counter>>

NewYear ==
  /\ year < MaxYear
  /\ year' = year + 1
  /\ UNCHANGED <<issued, counter, filing>>

Init ==
  /\ year = 0
  /\ issued = [s \in Series |-> [y \in Years |-> << >>]]
  /\ counter = [s \in CertTypes |-> NoCounter]
  /\ filing = [f \in Filers |-> Done]

Work(f) == CountRows(f) \/ ReadCounter(f) \/ Flush(f) \/ Commit(f) \/ Rollback(f)

Next ==
  \/ \E f \in Filers : (\E s \in Series : File(f, s)) \/ Work(f) \/ Fails(f)
  \/ NewYear

Spec == Init /\ [][Next]_vars

\* A handler that can go on does, and the database grants a lock in the order
\* in which it was asked for it.
Fairness ==
  \A f \in Filers : WF_vars(Work(f)) /\ SF_vars(Flush(f))

FairSpec == Spec /\ Fairness

-----------------------------------------------------------------------------
\* Every variable holds a value of its type.
TypeOK ==
  /\ year \in Years
  /\ issued \in [Series -> [Years -> Seq(Nat \ {0})]]
  /\ counter \in [CertTypes -> [year : Years, last : Nat]]
  /\ filing \in [Filers -> [pc : {"idle", "read", "flush", "commit", "rollback"},
                            series : Series, year : Years, number : Nat,
                            fresh : BOOLEAN, holds : BOOLEAN]]

Book == INSTANCE NumberBook WITH Series <- Series, Years <- Years, issued <- issued

\* However many handlers count, read and write at once, every series is
\* numbered 1, 2, 3, ... in each year, in the order of the commits: a number
\* that two of them computed is recorded once and none is skipped.
NumbersInOrder == Book!Spec

\* A counter row stands for exactly the certificates that were issued, all of
\* its year: a handler that read an old value never sets it back, nor does one
\* that is refused move it; and since the row is unique by type, a type has no
\* certificates of any other year.
CountersMatch ==
  \A s \in CertTypes, y \in Years :
    Len(issued[s][y]) = IF y = counter[s].year THEN counter[s].last ELSE 0

\* Every filing is answered: waiting for another handler's row or key ends.
EveryFilingAnswered == \A f \in Filers : filing[f].pc # "idle" ~> filing[f].pc = "idle"

=============================================================================
