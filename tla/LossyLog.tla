------------------------------ MODULE LossyLog ------------------------------
(***************************************************************************)
(* What the database log of a worker process promises: records are taken   *)
(* in the order in which they are logged, or dropped at once; those that   *)
(* wait are stored, or given up, from the front, a batch at a time; with   *)
(* the closing, at most one more batch is stored and the rest is dropped;  *)
(* and no record is stored twice, but for one batch that is under way when *)
(* the log is closed.                                                      *)
(***************************************************************************)
EXTENDS Naturals, Sequences, SequencesExt

CONSTANT Records

VARIABLES
  waiting,   \* the records that are neither stored nor given up
  table,     \* the stored records
  dropped,   \* the others
  phase

vars == <<waiting, table, dropped, phase>>

Seen == ToSet(waiting) \union ToSet(table) \union dropped

First(n) == SubSeq(waiting, 1, n)
Rest(n) == SubSeq(waiting, n + 1, Len(waiting))

\* Nobody reads what comes after the closing.
Accept(r) ==
  /\ \A x \in Seen : x < r
  /\ \/ phase # "closed" /\ waiting' = Append(waiting, r) /\ UNCHANGED dropped
     \/ dropped' = dropped \union {r} /\ UNCHANGED waiting
  /\ UNCHANGED <<table, phase>>

Store(n) ==
  /\ table' = table \o First(n)
  /\ waiting' = Rest(n)
  /\ UNCHANGED dropped

GiveUp(n) ==
  /\ dropped' = dropped \union ToSet(First(n))
  /\ waiting' = Rest(n)
  /\ UNCHANGED table

Work == phase = "open" /\ (\E n \in 0 .. Len(waiting) : Store(n) \/ GiveUp(n)) /\ UNCHANGED phase

\* The batch that is under way may have been stored without anybody knowing.
Closing ==
  /\ phase = "open" /\ phase' = "closing"
  /\ \/ UNCHANGED table
     \/ \E n \in 0 .. Len(waiting) : table' = table \o First(n)
  /\ UNCHANGED <<waiting, dropped>>

\* What is not in the last batch is not stored any more.
Closed ==
  /\ phase # "closed" /\ phase' = "closed"
  /\ waiting' = << >>
  /\ \/ UNCHANGED table /\ dropped' = dropped \union ToSet(waiting)
     \/ /\ phase = "closing"
        /\ \E n \in 0 .. Len(waiting) :
             table' = table \o First(n) /\ dropped' = dropped \union ToSet(Rest(n))

Init == waiting = << >> /\ table = << >> /\ dropped = {} /\ phase = "open"

Next == (\E r \in Records : Accept(r)) \/ Work \/ Closing \/ Closed

Spec == Init /\ [][Next]_vars
=============================================================================
