------------------------- MODULE DbLogPipelineProofs -------------------------
(***************************************************************************)
(* Proofs about the log pipeline, for any number of records of any level,  *)
(* and any size of the queue and of a batch.                               *)
(***************************************************************************)
EXTENDS DbLogPipeline, SequenceTheorems, TLAPS

\* Where the buffer and the rows of the last flush can be.
Shape ==
  /\ task # "stopped" => lastRows = <<>>
  /\ task = "stopped" => buffer = <<>>
  /\ task \in {"commit", "flush"} => buffer # <<>>

Accepted(n) == {r \in 1 .. n : Taken(r)}

\* RecordsAccounted, whatever becomes of the queue.
Books ==
  LET stored == ToSet(rows) \union ToSet(lastRows)
      read == ToSet(buffer) \union stored \union lost IN
  /\ Accepted(logged) = ToSet(queue) \union read \union unformatted \union overflow
  /\ ToSet(queue) \cap read = {}
  /\ unformatted \cap overflow = {}
  /\ (unformatted \union overflow) \cap (ToSet(queue) \union read) = {}
  /\ task \notin {"flush", "stopped"} =>
       ToSet(buffer) \cap (stored \union lost) = {} /\ stored \cap lost = {}

PipelineInv == TypeOK /\ Shape /\ LoggedOrder /\ Books

-----------------------------------------------------------------------------
(* Sequences. *)

\* Where the elements of two sequences are in their concatenation.
LEMMA ConcatFirst ==
  ASSUME NEW S, NEW a \in Seq(S), NEW b \in Seq(S), NEW i \in 1 .. Len(a)
  PROVE  i \in 1 .. Len(a \o b) /\ (a \o b)[i] = a[i]
<1>1. Len(a) \in Nat /\ Len(b) \in Nat
  BY LenProperties
<1>2. i \in 1 .. Len(a) + Len(b) /\ i <= Len(a)
  BY <1>1
<1> QED
  BY <1>2, ConcatProperties

LEMMA ConcatSecond ==
  ASSUME NEW S, NEW a \in Seq(S), NEW b \in Seq(S), NEW j \in 1 .. Len(b)
  PROVE  Len(a) + j \in 1 .. Len(a \o b) /\ (a \o b)[Len(a) + j] = b[j]
<1>1. Len(a) \in Nat /\ Len(b) \in Nat
  BY LenProperties
<1>2. Len(a) + j \in 1 .. Len(a) + Len(b) /\ ~(Len(a) + j <= Len(a)) /\ Len(a) + j - Len(a) = j
  BY <1>1
<1> QED
  BY <1>2, ConcatProperties

\* The elements of a concatenation.
LEMMA ConcatElements ==
  ASSUME NEW S, NEW a \in Seq(S), NEW b \in Seq(S)
  PROVE  ToSet(a \o b) = ToSet(a) \union ToSet(b)
<1> DEFINE c == a \o b
<1>1. /\ Len(a) \in Nat /\ Len(b) \in Nat /\ c \in Seq(S) /\ Len(c) = Len(a) + Len(b)
      /\ \A i \in 1 .. Len(a) + Len(b) : c[i] = IF i <= Len(a) THEN a[i] ELSE b[i - Len(a)]
  BY ConcatProperties, LenProperties
<1>2. DOMAIN c = 1 .. Len(a) + Len(b) /\ DOMAIN a = 1 .. Len(a) /\ DOMAIN b = 1 .. Len(b)
  BY <1>1, LenProperties
<1> HIDE DEF c
<1>3. ASSUME NEW i \in DOMAIN c PROVE c[i] \in ToSet(a) \union ToSet(b)
  <2>1. CASE i <= Len(a)
    BY <1>1, <1>2, <2>1 DEF ToSet
  <2>2. CASE ~(i <= Len(a))
    <3>1. i - Len(a) \in 1 .. Len(b) /\ c[i] = b[i - Len(a)]
      BY <1>1, <1>2, <2>2
    <3> QED
      BY <1>2, <3>1 DEF ToSet
  <2> QED
    BY <2>1, <2>2
<1>4. ASSUME NEW i \in DOMAIN a PROVE a[i] \in ToSet(c)
  <2>1. i \in DOMAIN c /\ c[i] = a[i]
    BY <1>1, <1>2
  <2> QED
    BY <2>1 DEF ToSet
<1>5. ASSUME NEW i \in DOMAIN b PROVE b[i] \in ToSet(c)
  <2>1. i + Len(a) \in DOMAIN c /\ ~(i + Len(a) <= Len(a)) /\ i + Len(a) - Len(a) = i
    BY <1>1, <1>2
  <2>2. c[i + Len(a)] = b[i]
    BY <1>1, <1>2, <2>1
  <2> QED
    BY <2>1, <2>2 DEF ToSet
<1>6. ToSet(c) = ToSet(a) \union ToSet(b)
  <2>1. ToSet(c) \subseteq ToSet(a) \union ToSet(b)
    BY <1>3 DEF ToSet
  <2>2. ToSet(a) \subseteq ToSet(c) /\ ToSet(b) \subseteq ToSet(c)
    BY <1>4, <1>5 DEF ToSet
  <2> QED
    BY <2>1, <2>2
<1> QED
  BY <1>6 DEF c

LEMMA AppendElements ==
  ASSUME NEW S, NEW a \in Seq(S), NEW e \in S
  PROVE  ToSet(Append(a, e)) = ToSet(a) \union {e}
<1>1. Append(a, e) = a \o <<e>> /\ <<e>> \in Seq(S)
  BY AppendIsConcat
<1>2. ToSet(<<e>>) = {e}
  <2>1. DOMAIN <<e>> = 1 .. 1 /\ <<e>>[1] = e
    OBVIOUS
  <2>2. 1 .. 1 = {1}
    OBVIOUS
  <2> QED
    BY <2>1, <2>2 DEF ToSet
<1> QED
  <2>1. ToSet(a \o <<e>>) = ToSet(a) \union ToSet(<<e>>)
    BY <1>1, ConcatElements
  <2> QED
    BY <1>1, <1>2, <2>1

\* A concatenation is cut where it was joined.
LEMMA CutConcat ==
  ASSUME NEW S, NEW a \in Seq(S), NEW b \in Seq(S)
  PROVE  /\ Len(a) \in 0 .. Len(a \o b)
         /\ SubSeq(a \o b, 1, Len(a)) = a
         /\ SubSeq(a \o b, Len(a) + 1, Len(a \o b)) = b
<1> DEFINE c == a \o b
           f == SubSeq(c, 1, Len(a))
           g == SubSeq(c, Len(a) + 1, Len(c))
<1>1. /\ Len(a) \in Nat /\ Len(b) \in Nat /\ c \in Seq(S) /\ Len(c) = Len(a) + Len(b)
      /\ \A i \in 1 .. Len(a) + Len(b) : c[i] = IF i <= Len(a) THEN a[i] ELSE b[i - Len(a)]
  BY ConcatProperties, LenProperties
<1>2. \A i \in 1 .. Len(c) : c[i] \in S
  BY <1>1, ElementOfSeq
<1> HIDE DEF c
<1>3. f \in Seq(S) /\ Len(f) = Len(a) /\ \A i \in 1 .. Len(a) : f[i] = c[i]
  <2>1. \A i \in 1 .. Len(a) : c[i] \in S /\ 1 + i - 1 = i
    BY <1>1, <1>2
  <2>2. 1 \in Int /\ Len(a) \in Int /\ Len(a) - 1 + 1 = Len(a) /\ (~(1 <= Len(a)) => Len(a) = 0)
    BY <1>1
  <2> QED
    BY <2>1, <2>2, SubSeqProperties
<1>4. f = a
  BY <1>1, <1>3, SeqEqual
<1>5. g \in Seq(S) /\ Len(g) = Len(b) /\ \A i \in 1 .. Len(b) : g[i] = c[Len(a) + i]
  <2>1. \A i \in Len(a) + 1 .. Len(c) : c[i] \in S
    BY <1>1, <1>2
  <2>2. /\ Len(a) + 1 \in Int /\ Len(c) \in Int /\ Len(c) - (Len(a) + 1) + 1 = Len(b)
        /\ (~(Len(a) + 1 <= Len(c)) => Len(b) = 0)
        /\ \A i \in 1 .. Len(b) : Len(a) + 1 + i - 1 = Len(a) + i
    BY <1>1
  <2> QED
    BY <2>1, <2>2, SubSeqProperties
<1>6. \A i \in 1 .. Len(b) : g[i] = b[i]
  <2>1. \A i \in 1 .. Len(b) : c[Len(a) + i] = b[i]
    BY ConcatSecond DEF c
  <2> HIDE DEF g
  <2> QED
    BY <1>5, <2>1
<1>7. g = b
  BY <1>5, <1>6, SeqEqual
<1>8. Len(a) \in 0 .. Len(c)
  BY <1>1
<1> QED
  BY <1>4, <1>7, <1>8 DEF c

\* The first of a queue goes to the end of the buffer.
LEMMA MoveHead ==
  ASSUME NEW S, NEW a \in Seq(S), NEW q \in Seq(S), q # <<>>
  PROVE  Append(a, Head(q)) \o Tail(q) = a \o q
<1>1. Head(q) \in S /\ Tail(q) \in Seq(S) /\ <<Head(q)>> \in Seq(S)
  BY HeadTailProperties
<1>2. <<Head(q)>> \o Tail(q) = q
  BY <1>1
<1>3. Append(a, Head(q)) = a \o <<Head(q)>>
  BY <1>1, AppendIsConcat
<1> QED
  BY <1>1, <1>2, <1>3, ConcatAssociative

-----------------------------------------------------------------------------
(* Increasing sequences of numbers. *)

LEMMA IncreasingAppend ==
  ASSUME NEW a \in Seq(Nat), Increasing(a), NEW e \in Nat, \A x \in ToSet(a) : x < e
  PROVE  Increasing(Append(a, e))
<1> DEFINE c == Append(a, e)
<1>1. /\ Len(a) \in Nat /\ Len(c) = Len(a) + 1 /\ c[Len(a) + 1] = e
      /\ \A i \in 1 .. Len(a) : c[i] = a[i]
  BY AppendProperties, LenProperties
<1>2. \A i \in 1 .. Len(a) : a[i] \in ToSet(a)
  BY LenProperties DEF ToSet
<1> HIDE DEF c
<1>3. ASSUME NEW i \in 1 .. Len(c), NEW j \in 1 .. Len(c), i < j
      PROVE  c[i] < c[j]
  <2>1. i \in 1 .. Len(a) /\ c[i] = a[i] /\ a[i] < e
    BY <1>1, <1>2, <1>3
  <2>2. CASE j = Len(a) + 1
    BY <1>1, <2>1, <2>2
  <2>3. CASE j \in 1 .. Len(a)
    BY <1>1, <1>3, <2>1, <2>3 DEF Increasing
  <2> QED
    BY <1>1, <2>2, <2>3
<1> QED
  BY <1>3 DEF c, Increasing

\* A part in the middle may be left out.
LEMMA IncreasingDrop ==
  ASSUME NEW a \in Seq(Nat), NEW b \in Seq(Nat), NEW c \in Seq(Nat), Increasing(a \o (b \o c))
  PROVE  Increasing(a \o c)
<1> DEFINE s == a \o (b \o c)
           t == a \o c
           k(i) == IF i <= Len(a) THEN i ELSE i + Len(b)
<1>1. Len(a) \in Nat /\ Len(b) \in Nat /\ Len(c) \in Nat /\ b \o c \in Seq(Nat) /\ Len(t) = Len(a) + Len(c)
  BY ConcatProperties, LenProperties
<1>2. ASSUME NEW i \in 1 .. Len(t)
      PROVE  k(i) \in 1 .. Len(s) /\ t[i] = s[k(i)]
  <2>1. CASE i <= Len(a)
    <3>1. i \in 1 .. Len(a) /\ k(i) = i
      BY <1>1, <2>1
    <3>2. i \in 1 .. Len(s) /\ s[i] = a[i] /\ t[i] = a[i]
      BY <1>1, <3>1, ConcatFirst
    <3> QED
      BY <3>1, <3>2
  <2>2. CASE ~(i <= Len(a))
    <3>1. PICK j \in 1 .. Len(c) : i = Len(a) + j
      <4>1. i - Len(a) \in 1 .. Len(c) /\ i = Len(a) + (i - Len(a))
        BY <1>1, <2>2
      <4> QED
        BY <4>1
    <3>2. t[Len(a) + j] = c[j]
      BY ConcatSecond
    <3>3. Len(b) + j \in 1 .. Len(b \o c) /\ (b \o c)[Len(b) + j] = c[j]
      BY ConcatSecond
    <3>4. Len(a) + (Len(b) + j) \in 1 .. Len(s) /\ s[Len(a) + (Len(b) + j)] = (b \o c)[Len(b) + j]
      BY <1>1, <3>3, ConcatSecond
    <3>5. k(i) = Len(a) + (Len(b) + j)
      BY <1>1, <2>2, <3>1
    <3> QED
      BY <3>1, <3>2, <3>3, <3>4, <3>5
  <2> QED
    BY <2>1, <2>2
<1>3. ASSUME NEW i \in 1 .. Len(t), NEW j \in 1 .. Len(t), i < j
      PROVE  t[i] < t[j]
  <2>1. k(i) < k(j)
    BY <1>1, <1>3
  <2>2. k(i) \in 1 .. Len(s) /\ k(j) \in 1 .. Len(s) /\ t[i] = s[k(i)] /\ t[j] = s[k(j)]
    BY <1>2
  <2> HIDE DEF k
  <2> QED
    BY <2>1, <2>2 DEF Increasing
<1> QED
  BY <1>3 DEF Increasing

\* Two parts of an increasing sequence have nothing in common.
LEMMA IncreasingApart ==
  ASSUME NEW a \in Seq(Nat), NEW b \in Seq(Nat), Increasing(a \o b)
  PROVE  ToSet(a) \cap ToSet(b) = {}
<1>1. SUFFICES ASSUME NEW i \in 1 .. Len(a), NEW j \in 1 .. Len(b), a[i] = b[j] PROVE FALSE
  <2>1. DOMAIN a = 1 .. Len(a) /\ DOMAIN b = 1 .. Len(b)
    BY LenProperties
  <2> QED
    BY <2>1 DEF ToSet
<1>2. i \in 1 .. Len(a \o b) /\ (a \o b)[i] = a[i]
  BY ConcatFirst
<1>3. Len(a) + j \in 1 .. Len(a \o b) /\ (a \o b)[Len(a) + j] = b[j]
  BY ConcatSecond
<1>4. i < Len(a) + j
  <2>1. Len(a) \in Nat /\ Len(b) \in Nat
    BY LenProperties
  <2> QED
    BY <2>1
<1>5. a[i] < b[j]
  BY <1>2, <1>3, <1>4 DEF Increasing
<1>6. a[i] \in Nat
  BY ElementOfSeq
<1> QED
  BY <1>1, <1>5, <1>6

LEMMA IncreasingSecond ==
  ASSUME NEW a \in Seq(Nat), NEW b \in Seq(Nat), Increasing(a \o b)
  PROVE  Increasing(b)
<1>1. <<>> \in Seq(Nat) /\ a \o b \in Seq(Nat)
  BY EmptySeq, ConcatProperties
<1>2. <<>> \o (a \o b) = a \o b /\ <<>> \o b = b
  BY <1>1, ConcatEmptySeq
<1>3. Increasing(<<>> \o b)
  BY <1>1, <1>2, IncreasingDrop
<1> QED
  BY <1>2, <1>3

LEMMA AppendLast ==
  ASSUME NEW S, NEW a \in Seq(S), NEW b \in Seq(S), NEW e \in S
  PROVE  a \o Append(b, e) = Append(a \o b, e)
<1>1. a \o b \in Seq(S)
  BY ConcatProperties
<1>2. Append(b, e) = b \o <<e>> /\ <<e>> \in Seq(S) /\ Append(a \o b, e) = (a \o b) \o <<e>>
  BY <1>1, AppendIsConcat
<1> QED
  BY <1>2, ConcatAssociative

\* A new greatest number goes to the end of the second part.
LEMMA IncreasingMore ==
  ASSUME NEW a \in Seq(Nat), NEW b \in Seq(Nat), Increasing(a \o b), NEW e \in Nat,
         \A x \in ToSet(a) \union ToSet(b) : x < e
  PROVE  Increasing(a \o Append(b, e))
<1>1. a \o b \in Seq(Nat) /\ ToSet(a \o b) = ToSet(a) \union ToSet(b)
  BY ConcatProperties, ConcatElements
<1>2. a \o Append(b, e) = Append(a \o b, e)
  BY AppendLast
<1>3. Increasing(Append(a \o b, e))
  BY <1>1, IncreasingAppend
<1> QED
  BY <1>2, <1>3

-----------------------------------------------------------------------------
(* Types. *)

\* What the constants and the types say of numbers and sequences.
LEMMA Numbers ==
  ASSUME TypeOK
  PROVE  /\ logged \in Nat /\ MaxRecords \in Nat /\ Records \subseteq Nat
         /\ queue \in Seq(Nat) /\ buffer \in Seq(Nat) /\ rows \in Seq(Nat) /\ lastRows \in Seq(Nat)
<1>1. MaxRecords \in Nat /\ Records \subseteq Nat
  BY RecordsAssumption DEF Records
<1>2. logged \in Nat
  BY <1>1 DEF TypeOK
<1> QED
  BY <1>1, <1>2, SeqMonotonic DEF TypeOK

LEMMA ElementsTyped ==
  ASSUME TypeOK
  PROVE  /\ ToSet(queue) \subseteq Records /\ ToSet(buffer) \subseteq Records
         /\ ToSet(rows) \subseteq Records /\ ToSet(lastRows) \subseteq Records
BY LenProperties DEF TypeOK, ToSet

LEMMA TypeStep == TypeOK /\ [Next]_vars => TypeOK'
<1> SUFFICES ASSUME TypeOK, [Next]_vars PROVE TypeOK'
  OBVIOUS
<1>1. /\ <<>> \in Seq(Records) /\ Len(<<>>) = 0 /\ Batch \in Nat \ {0} /\ QueueSize \in Nat \ {0}
      /\ rows \o buffer \in Seq(Records) /\ ToSet(buffer) \subseteq Records
      /\ Len(buffer) \in Nat /\ Len(queue) \in Nat
  BY SizesAssumption, EmptySeq, ConcatProperties, ElementsTyped, LenProperties DEF TypeOK
<1>2. CASE Emit
  <2> DEFINE n == logged + 1
  <2>1. logged' = n /\ n \in 0 .. MaxRecords /\ n \in Records
    BY <1>2, Numbers DEF Emit, TypeOK, Records
  <2> HIDE DEF n
  <2>2. queue' \in {queue, Append(queue, n)} /\ (queue' = Append(queue, n) => Len(queue) # QueueSize \/ queue' = queue)
    BY <1>2 DEF Emit, n
  <2>3. queue' \in Seq(Records) /\ Len(queue') <= QueueSize
    <3>1. CASE queue' = queue
      BY <3>1 DEF TypeOK
    <3>2. CASE queue' = Append(queue, n) /\ Len(queue) # QueueSize
      <4>1. Append(queue, n) \in Seq(Records) /\ Len(Append(queue, n)) = Len(queue) + 1
        BY <2>1, AppendProperties DEF TypeOK
      <4> QED
        BY <1>1, <3>2, <4>1 DEF TypeOK
    <3> QED
      BY <2>2, <3>1, <3>2
  <2>4. overflow' \subseteq Records /\ unformatted' \subseteq Records
    BY <1>2, <2>1 DEF Emit, TypeOK, n
  <2> QED
    BY <1>2, <2>1, <2>3, <2>4 DEF Emit, TypeOK
<1>3. CASE Collect
  <2>1. Head(queue) \in Records /\ Tail(queue) \in Seq(Records) /\ Len(Tail(queue)) = Len(queue) - 1
    BY <1>3, HeadTailProperties DEF Collect, TypeOK
  <2>2. Append(buffer, Head(queue)) \in Seq(Records) /\ Len(Append(buffer, Head(queue))) = Len(buffer) + 1
    BY <2>1, AppendProperties DEF TypeOK
  <2>3. buffer' \in Seq(Records) /\ Len(buffer') <= Batch
    BY <1>1, <1>3, <2>2 DEF Collect
  <2>4. queue' \in Seq(Records) /\ Len(queue') <= QueueSize
    BY <1>1, <1>3, <2>1 DEF Collect, TypeOK
  <2> QED
    BY <1>3, <2>3, <2>4 DEF Collect, TypeOK
<1>4. CASE BeginCommit \/ Wake \/ Cancel \/ UNCHANGED vars
  BY <1>4 DEF BeginCommit, Wake, Cancel, TypeOK, vars
<1>5. CASE Committed \/ CommitFails
  <2>1. buffer' = <<>> /\ rows' \in Seq(Records) /\ lost' \subseteq Records /\ task' \in {"collect", "sleep"}
    BY <1>1, <1>5 DEF Committed, CommitFails, TypeOK
  <2>2. UNCHANGED <<logged, queue, lastRows, unformatted, overflow>>
    BY <1>5 DEF Committed, CommitFails
  <2>3. buffer' \in Seq(Records) /\ Len(buffer') <= Batch
    BY <1>1, <2>1
  <2> QED
    BY <2>1, <2>2, <2>3 DEF TypeOK
<1>6. CASE CancelCommit
  BY <1>1, <1>6 DEF CancelCommit, TypeOK
<1>7. CASE Flush \/ FlushFails
  <2>1. buffer' = <<>> /\ lastRows' \in Seq(Records) /\ lost' \subseteq Records /\ task' = "stopped"
    BY <1>1, <1>7 DEF Flush, FlushFails, TypeOK
  <2>2. UNCHANGED <<logged, queue, rows, unformatted, overflow>>
    BY <1>7 DEF Flush, FlushFails
  <2>3. buffer' \in Seq(Records) /\ Len(buffer') <= Batch
    BY <1>1, <2>1
  <2> QED
    BY <2>1, <2>2, <2>3 DEF TypeOK
<1> QED
  BY <1>2, <1>3, <1>4, <1>5, <1>6, <1>7 DEF Next, Loop, Shutdown

\* Every variable keeps its type, and the queue its bound.
THEOREM PipelineTyped == Spec => []TypeOK
<1>1. Init => TypeOK
  <2>1. <<>> \in Seq(Records) /\ Len(<<>>) = 0
    BY EmptySeq
  <2> QED
    BY <2>1, RecordsAssumption, SizesAssumption DEF Init, TypeOK
<1> QED
  BY <1>1, TypeStep, PTL DEF Spec

-----------------------------------------------------------------------------
(* What waits and what is stored. *)

Waiting == buffer \o queue
Stored == rows \o lastRows

LEMMA NumbersAssociative ==
  \A a, b, c \in Seq(Nat) : (a \o b) \o c = a \o (b \o c)
BY ConcatAssociative, SMTT(30)

\* The invariant in these terms.
LEMMA Restated ==
  ASSUME PipelineInv
  PROVE  /\ Waiting \in Seq(Nat) /\ Stored \in Seq(Nat)
         /\ ToSet(Waiting) = ToSet(buffer) \union ToSet(queue)
         /\ ToSet(Stored) = ToSet(rows) \union ToSet(lastRows)
         /\ Accepted(logged) = ToSet(Waiting) \union ToSet(Stored) \union lost \union unformatted \union overflow
         /\ \/ Increasing(Stored \o Waiting)
            \/ /\ task \in {"flush", "stopped"}
               /\ Increasing(rows \o queue)
               /\ \E k \in 1 .. Len(rows) : SubSeq(rows, k, Len(rows)) \in {buffer, lastRows}
<1>1. /\ Waiting \in Seq(Nat) /\ Stored \in Seq(Nat)
      /\ ToSet(Waiting) = ToSet(buffer) \union ToSet(queue)
      /\ ToSet(Stored) = ToSet(rows) \union ToSet(lastRows)
      /\ rows \o lastRows \o buffer \o queue = Stored \o Waiting
  <2>1. queue \in Seq(Nat) /\ buffer \in Seq(Nat) /\ rows \in Seq(Nat) /\ lastRows \in Seq(Nat)
    BY Numbers DEF PipelineInv
  <2>2. Waiting \in Seq(Nat) /\ ToSet(Waiting) = ToSet(buffer) \union ToSet(queue)
    BY <2>1, ConcatProperties, ConcatElements DEF Waiting
  <2>3. Stored \in Seq(Nat) /\ ToSet(Stored) = ToSet(rows) \union ToSet(lastRows)
    BY <2>1, ConcatProperties, ConcatElements DEF Stored
  <2>4. (Stored \o buffer) \o queue = Stored \o Waiting
    BY <2>1, <2>3, NumbersAssociative DEF Waiting
  <2> QED
    BY <2>2, <2>3, <2>4 DEF Stored
<1>2. Accepted(logged) = ToSet(Waiting) \union ToSet(Stored) \union lost \union unformatted \union overflow
  BY <1>1 DEF PipelineInv, Books
<1> QED
  BY <1>1, <1>2 DEF PipelineInv, LoggedOrder

\* What the new state has to show for the order.
LEMMA OrderShown ==
  ASSUME TypeOK', Increasing(Stored' \o Waiting')
  PROVE  LoggedOrder'
<1>1. (queue \in Seq(Records) /\ buffer \in Seq(Records) /\ rows \in Seq(Records) /\ lastRows \in Seq(Records))'
  BY DEF TypeOK
<1>2. (rows \o lastRows \o buffer \o queue = Stored \o Waiting)'
  <2>1. Stored' \in Seq(Records)
    BY <1>1, ConcatProperties DEF Stored
  <2>2. (Stored' \o buffer') \o queue' = Stored' \o (buffer' \o queue')
    BY <1>1, <2>1, ConcatAssociative, SMTT(30)
  <2> QED
    BY <2>2 DEF Waiting, Stored
<1> QED
  BY <1>2 DEF LoggedOrder, Increasing

\* What the order is about has not changed.
LEMMA OrderUnchanged ==
  ASSUME LoggedOrder, UNCHANGED <<rows, lastRows, buffer, queue, task>>
  PROVE  LoggedOrder'
<1>1. CASE Increasing(rows \o lastRows \o buffer \o queue)
  <2>1. (rows \o lastRows \o buffer \o queue)' = rows \o lastRows \o buffer \o queue
    OBVIOUS
  <2> HIDE DEF Increasing
  <2> QED
    BY <1>1, <2>1 DEF LoggedOrder, Increasing
<1>2. CASE /\ task \in {"flush", "stopped"}
           /\ Increasing(rows \o queue)
           /\ \E k \in 1 .. Len(rows) : SubSeq(rows, k, Len(rows)) \in {buffer, lastRows}
  <2>1. UNCHANGED <<task, buffer, lastRows, rows>> /\ (rows \o queue)' = rows \o queue
    OBVIOUS
  <2>2. Increasing(rows' \o queue')
    BY <1>2, <2>1
  <2>3. \E k \in 1 .. Len(rows') : SubSeq(rows', k, Len(rows')) \in {buffer', lastRows'}
    BY <1>2, <2>1
  <2> QED
    BY <1>2, <2>1, <2>2, <2>3 DEF LoggedOrder
<1> QED
  BY <1>1, <1>2 DEF LoggedOrder

\* While the task goes on, no number is in two places.
LEMMA OpenApart ==
  ASSUME PipelineInv, task \notin {"flush", "stopped"}
  PROVE  /\ Increasing(Stored \o Waiting) /\ ToSet(buffer) \cap ToSet(queue) = {}
         /\ lastRows = <<>> /\ Stored = rows
         /\ ToSet(Waiting) \cap (ToSet(Stored) \union lost) = {} /\ ToSet(Stored) \cap lost = {}
<1>1. Increasing(Stored \o Waiting) /\ Waiting \in Seq(Nat) /\ Stored \in Seq(Nat)
  BY Restated
<1>2. Increasing(buffer \o queue)
  BY <1>1, IncreasingSecond DEF Waiting
<1>3. ToSet(buffer) \cap ToSet(queue) = {}
  BY <1>2, Numbers, IncreasingApart DEF PipelineInv
<1>4. lastRows = <<>> /\ Stored = rows
  BY Numbers, ConcatEmptySeq DEF PipelineInv, Shape, TypeOK, Stored
<1>5. ToSet(Waiting) \cap (ToSet(Stored) \union lost) = {} /\ ToSet(Stored) \cap lost = {}
  BY Restated DEF PipelineInv, Books
<1> QED
  BY <1>1, <1>3, <1>4, <1>5

-----------------------------------------------------------------------------
(* The actions. *)

\* The number of a new record is new, and a queued record is the last of all.
LEMMA EmitKeeps ==
  ASSUME PipelineInv, Emit, TypeOK'
  PROVE  PipelineInv'
<1> DEFINE n == logged + 1
           drops == unformatted \union overflow
<1>1. /\ logged' = n /\ UNCHANGED <<buffer, task, rows, lastRows, lost>>
      /\ \/ ~Taken(n) /\ UNCHANGED <<queue, unformatted, overflow>>
         \/ Taken(n) /\ queue' = Append(queue, n) /\ UNCHANGED <<unformatted, overflow>>
         \/ Taken(n) /\ overflow' = overflow \union {n} /\ UNCHANGED <<queue, unformatted>>
         \/ Taken(n) /\ unformatted' = unformatted \union {n} /\ UNCHANGED <<queue, overflow>>
  BY DEF Emit
<1>2. /\ logged \in Nat /\ n \in Nat
      /\ queue \in Seq(Nat) /\ buffer \in Seq(Nat) /\ rows \in Seq(Nat) /\ lastRows \in Seq(Nat)
  BY Numbers DEF PipelineInv
<1>3. \A x \in ToSet(Waiting) \union ToSet(Stored) \union lost \union drops : x \in 1 .. logged /\ x < n
  BY <1>2, Restated DEF Accepted
<1>4. Accepted(n) = Accepted(logged) \union (IF Taken(n) THEN {n} ELSE {})
  <2>1. 1 .. n = (1 .. logged) \union {n}
    BY <1>2
  <2> HIDE DEF n
  <2> QED
    BY <2>1 DEF Accepted
<1> HIDE DEF n
<1>5. Shape'
  BY <1>1 DEF PipelineInv, Shape
<1>6. CASE UNCHANGED queue
  <2>1. LoggedOrder'
    BY <1>1, <1>6, OrderUnchanged DEF PipelineInv
  <2>2. Books'
    <3>1. UNCHANGED <<ToSet(queue), ToSet(buffer), ToSet(rows), ToSet(lastRows), lost, task>>
      BY <1>1, <1>6
    <3>2. n \notin ToSet(queue) \union ToSet(buffer) \union ToSet(rows) \union ToSet(lastRows) \union lost \union drops
      BY <1>2, <1>3, Restated
    <3>3. CASE ~Taken(n) /\ UNCHANGED <<unformatted, overflow>>
      BY <1>1, <1>4, <3>1, <3>3 DEF PipelineInv, Books
    <3>4. CASE Taken(n) /\ overflow' = overflow \union {n} /\ UNCHANGED unformatted
      BY <1>1, <1>4, <3>1, <3>2, <3>4 DEF PipelineInv, Books
    <3>5. CASE Taken(n) /\ unformatted' = unformatted \union {n} /\ UNCHANGED overflow
      BY <1>1, <1>4, <3>1, <3>2, <3>5 DEF PipelineInv, Books
    <3>6. CASE Taken(n) /\ queue' = Append(queue, n)
      <4>1. Append(queue, n) # queue
        <5>1. queue \in Seq(Nat) /\ n \in Nat
          BY <1>2
        <5>2. Len(Append(queue, n)) = Len(queue) + 1 /\ Len(queue) \in Nat
          BY <5>1, AppendProperties, LenProperties
        <5> QED
          BY <5>2
      <4> QED
        BY <1>6, <3>6, <4>1
    <3> QED
      BY <1>1, <3>3, <3>4, <3>5, <3>6
  <2> QED
    BY <1>5, <2>1, <2>2 DEF PipelineInv
<1>7. CASE Taken(n) /\ queue' = Append(queue, n) /\ UNCHANGED <<unformatted, overflow>>
  <2>1. buffer \o Append(queue, n) = Append(Waiting, n)
    <3>1. queue \in Seq(Nat) /\ buffer \in Seq(Nat) /\ n \in Nat
      BY <1>2
    <3> QED
      BY <3>1, AppendLast DEF Waiting
  <2>2. ToSet(queue') = ToSet(queue) \union {n}
    <3>1. queue \in Seq(Nat) /\ n \in Nat
      BY <1>2
    <3>2. ToSet(Append(queue, n)) = ToSet(queue) \union {n}
      BY <3>1, AppendElements
    <3> QED
      BY <1>7, <3>2, Zenon
  <2>3. LoggedOrder'
    <3>1. CASE Increasing(Stored \o Waiting)
      <4>1. Increasing(Stored \o Append(Waiting, n))
        BY <1>2, <1>3, <3>1, Restated, IncreasingMore
      <4>2. Stored' = Stored /\ Waiting' = Append(Waiting, n)
        BY <1>1, <1>7, <2>1 DEF Stored, Waiting
      <4> QED
        BY <4>1, <4>2, OrderShown
    <3>2. CASE /\ task \in {"flush", "stopped"}
               /\ Increasing(rows \o queue)
               /\ \E k \in 1 .. Len(rows) : SubSeq(rows, k, Len(rows)) \in {buffer, lastRows}
      <4>1. \A x \in ToSet(rows) \union ToSet(queue) : x < n
        BY <1>3, Restated
      <4>2. Increasing(rows \o Append(queue, n))
        BY <1>2, <3>2, <4>1, IncreasingMore
      <4>3. (rows \o queue)' = rows \o Append(queue, n)
        BY <1>1, <1>7
      <4> HIDE DEF Increasing
      <4>4. Increasing(rows' \o queue')
        BY <4>2, <4>3
      <4> QED
        BY <1>1, <3>2, <4>4, SMTT(30) DEF LoggedOrder, Increasing
    <3> QED
      BY <3>1, <3>2, Restated
  <2>4. Books'
    <3>1. UNCHANGED <<ToSet(buffer), ToSet(rows), ToSet(lastRows), unformatted, overflow, lost, task>>
      BY <1>1, <1>7
    <3>2. n \notin ToSet(queue) \union ToSet(buffer) \union ToSet(rows) \union ToSet(lastRows) \union lost \union drops
      BY <1>2, <1>3, Restated
    <3> QED
      BY <1>1, <1>4, <1>7, <2>2, <3>1, <3>2 DEF PipelineInv, Books
  <2> QED
    BY <1>5, <2>3, <2>4 DEF PipelineInv
<1> QED
  BY <1>1, <1>6, <1>7

\* What moves from the queue to the buffer goes on waiting, at the same place.
LEMMA CollectKeeps ==
  ASSUME PipelineInv, Collect, TypeOK'
  PROVE  PipelineInv' /\ Waiting' = Waiting /\ Stored' = Stored
<1>1. /\ buffer' = Append(buffer, Head(queue)) /\ queue' = Tail(queue) /\ queue # <<>> /\ task = "collect"
      /\ UNCHANGED <<logged, task, rows, lastRows, unformatted, overflow, lost>>
  BY DEF Collect
<1>2. Waiting' = Waiting /\ Stored' = Stored
  BY <1>1, Numbers, MoveHead DEF PipelineInv, Waiting, Stored
<1>3. LoggedOrder'
  BY <1>1, <1>2, OpenApart, OrderShown
<1>4. Books'
  <2>1. (ToSet(queue) \union ToSet(buffer))' = ToSet(queue) \union ToSet(buffer)
    <3>1. (queue \in Seq(Records) /\ buffer \in Seq(Records))'
      BY DEF TypeOK
    <3>2. ToSet(Waiting)' = ToSet(buffer)' \union ToSet(queue)'
      BY <3>1, ConcatElements DEF Waiting
    <3> QED
      BY <1>2, <3>2, Restated
  <2>2. buffer' \in Seq(Nat) /\ queue' \in Seq(Nat)
    BY Numbers, SeqMonotonic DEF TypeOK, PipelineInv
  <2>3. Increasing(Waiting)
    BY OpenApart, <1>1, Restated, IncreasingSecond
  <2>4. Increasing(buffer' \o queue')
    BY <1>2, <2>3 DEF Waiting
  <2>5. ToSet(buffer') \cap ToSet(queue') = {}
    BY <2>2, <2>4, IncreasingApart
  <2>6. UNCHANGED <<ToSet(rows), ToSet(lastRows), logged, lost, unformatted, overflow, task>>
    BY <1>1
  <2> QED
    BY <1>1, <2>1, <2>5, <2>6 DEF PipelineInv, Books
<1>5. Shape'
  BY <1>1 DEF PipelineInv, Shape
<1> QED
  BY <1>2, <1>3, <1>4, <1>5 DEF PipelineInv

\* Steps of the task alone.
LEMMA TaskKeeps ==
  ASSUME PipelineInv, BeginCommit \/ Wake \/ Cancel, TypeOK'
  PROVE  PipelineInv' /\ Waiting' = Waiting /\ Stored' = Stored
<1>1. /\ UNCHANGED <<logged, queue, buffer, rows, lastRows, unformatted, overflow, lost>>
      /\ task \notin {"flush", "stopped"}
      /\ task' \in {"collect", "commit", "flush", "stopped"}
      /\ task' \in {"commit", "flush"} => buffer # <<>>
      /\ task' = "stopped" => buffer = <<>>
  BY DEF BeginCommit, Wake, Cancel
<1>2. Waiting' = Waiting /\ Stored' = Stored
  BY <1>1 DEF Waiting, Stored
<1>3. LoggedOrder'
  BY <1>1, <1>2, OpenApart, OrderShown
<1>4. Books'
  BY <1>1 DEF PipelineInv, Books
<1>5. Shape'
  BY <1>1 DEF PipelineInv, Shape
<1> QED
  BY <1>2, <1>3, <1>4, <1>5 DEF PipelineInv

\* The empty buffer.
LEMMA Emptied ==
  /\ ToSet(<<>>) = {} /\ <<>> \in Seq(Nat)
  /\ \A a \in Seq(Nat) : a \o <<>> = a /\ <<>> \o a = a
<1>1. DOMAIN <<>> = {}
  OBVIOUS
<1> QED
  BY <1>1, EmptySeq, ConcatEmptySeq DEF ToSet

\* The batch goes from the front of what waits to the end of the table.
LEMMA CommittedKeeps ==
  ASSUME PipelineInv, Committed, TypeOK'
  PROVE  PipelineInv' /\ Waiting' = queue /\ Stored' = Stored \o buffer
<1>1. /\ rows' = rows \o buffer /\ buffer' = <<>> /\ task = "commit" /\ task' = "collect"
      /\ UNCHANGED <<logged, queue, lastRows, unformatted, overflow, lost>>
  BY DEF Committed
<1>2. /\ queue \in Seq(Nat) /\ buffer \in Seq(Nat) /\ rows \in Seq(Nat)
      /\ lastRows = <<>> /\ Stored = rows /\ Increasing(Stored \o Waiting)
  BY <1>1, Numbers, OpenApart DEF PipelineInv
<1>3. rows \o buffer \in Seq(Nat) /\ ToSet(rows \o buffer) = ToSet(rows) \union ToSet(buffer)
  BY <1>2, ConcatProperties, ConcatElements
<1>4. Waiting' = queue /\ Stored' = Stored \o buffer
  BY <1>1, <1>2, <1>3, Emptied DEF Waiting, Stored
<1>5. Stored' \o Waiting' = Stored \o Waiting
  BY <1>2, <1>4, NumbersAssociative DEF Waiting
<1>6. LoggedOrder'
  BY <1>2, <1>5, OrderShown
<1>7. Books'
  <2>1. /\ ToSet(rows') = ToSet(rows) \union ToSet(buffer) /\ ToSet(buffer') = {}
        /\ ToSet(lastRows) = {}
    BY <1>1, <1>2, <1>3, Emptied
  <2>2. UNCHANGED <<ToSet(queue), ToSet(lastRows), logged, lost, unformatted, overflow>>
    BY <1>1
  <2> QED
    BY <1>1, <2>1, <2>2, OpenApart, Restated DEF PipelineInv, Books
<1>8. Shape'
  BY <1>1, <1>2 DEF Shape
<1> QED
  BY <1>4, <1>6, <1>7, <1>8 DEF PipelineInv

\* The batch is dropped from the front of what waits.
LEMMA CommitFailsKeeps ==
  ASSUME PipelineInv, CommitFails, TypeOK'
  PROVE  PipelineInv' /\ Waiting' = queue /\ Stored' = Stored
<1>1. /\ lost' = lost \union ToSet(buffer) /\ buffer' = <<>> /\ task = "commit" /\ task' \in {"collect", "sleep"}
      /\ UNCHANGED <<logged, queue, rows, lastRows, unformatted, overflow>>
  BY DEF CommitFails
<1>2. /\ queue \in Seq(Nat) /\ buffer \in Seq(Nat) /\ Stored \in Seq(Nat)
      /\ lastRows = <<>> /\ Increasing(Stored \o Waiting)
  BY <1>1, Numbers, OpenApart, Restated DEF PipelineInv
<1>3. Waiting' = queue /\ Stored' = Stored
  BY <1>1, <1>2, Emptied DEF Waiting, Stored
<1>4. LoggedOrder'
  <2>1. Increasing(Stored \o queue)
    BY <1>2, IncreasingDrop DEF Waiting
  <2> QED
    BY <1>3, <2>1, OrderShown
<1>5. Books'
  <2>1. ToSet(buffer') = {}
    BY <1>1, Emptied
  <2>2. UNCHANGED <<ToSet(queue), ToSet(rows), ToSet(lastRows), logged, unformatted, overflow>>
    BY <1>1
  <2> QED
    BY <1>1, <2>1, <2>2, OpenApart, Restated DEF PipelineInv, Books
<1>6. Shape'
  BY <1>1, <1>2 DEF Shape
<1> QED
  BY <1>3, <1>4, <1>5, <1>6 DEF PipelineInv

\* A cancelled commit that had gone through leaves its batch twice.
LEMMA CancelCommitKeeps ==
  ASSUME PipelineInv, CancelCommit, TypeOK'
  PROVE  PipelineInv' /\ Waiting' = Waiting /\ Stored' \in {Stored, Stored \o buffer}
<1>1. /\ task = "commit" /\ task' = "flush" /\ rows' \in {rows, rows \o buffer}
      /\ UNCHANGED <<logged, queue, buffer, lastRows, unformatted, overflow, lost>>
  BY DEF CancelCommit
<1>2. /\ queue \in Seq(Nat) /\ buffer \in Seq(Nat) /\ rows \in Seq(Nat) /\ buffer # <<>>
      /\ lastRows = <<>> /\ Stored = rows /\ Increasing(Stored \o Waiting)
  BY <1>1, Numbers, OpenApart DEF PipelineInv, Shape
<1>3. rows \o buffer \in Seq(Nat) /\ ToSet(rows \o buffer) = ToSet(rows) \union ToSet(buffer)
  BY <1>2, ConcatProperties, ConcatElements
<1>4. Waiting' = Waiting /\ Stored' = rows'
  BY <1>1, <1>2, <1>3, Emptied DEF Waiting, Stored
<1>5. LoggedOrder'
  <2>1. CASE rows' = rows
    BY <1>2, <1>4, <2>1, OrderShown
  <2>2. CASE rows' = rows \o buffer
    <3> DEFINE k == Len(rows) + 1
    <3>1. k \in 1 .. Len(rows \o buffer) /\ SubSeq(rows \o buffer, k, Len(rows \o buffer)) = buffer
      <4>1. 1 \in 1 .. Len(buffer)
        BY <1>2, EmptySeq
      <4>2. Len(rows \o buffer) = Len(rows) + Len(buffer)
        BY <1>2
      <4>3. SubSeq(rows \o buffer, Len(rows) + 1, Len(rows \o buffer)) = buffer
        BY <1>2, CutConcat
      <4> QED
        BY <1>2, <4>1, <4>2, <4>3
    <3>2. (rows \o buffer) \o queue = Stored \o Waiting
      BY <1>2, NumbersAssociative DEF Waiting
    <3>3. Increasing(rows' \o queue')
      BY <1>1, <1>2, <2>2, <3>2
    <3>4. k \in 1 .. Len(rows') /\ SubSeq(rows', k, Len(rows')) = buffer'
      BY <1>1, <2>2, <3>1
    <3>5. \E i \in 1 .. Len(rows') : SubSeq(rows', i, Len(rows')) \in {buffer', lastRows'}
      BY <3>4
    <3> QED
      BY <1>1, <3>3, <3>5 DEF LoggedOrder, Increasing
  <2> QED
    BY <1>1, <2>1, <2>2
<1>6. Books'
  <2>1. ToSet(rows') \in {ToSet(rows), ToSet(rows) \union ToSet(buffer)}
    BY <1>1, <1>3
  <2>2. UNCHANGED <<ToSet(queue), ToSet(buffer), ToSet(lastRows), logged, lost, unformatted, overflow>>
    BY <1>1
  <2> QED
    BY <1>1, <2>1, <2>2, Restated DEF PipelineInv, Books
<1>7. Shape'
  BY <1>1, <1>2 DEF Shape
<1> QED
  BY <1>1, <1>2, <1>4, <1>5, <1>6, <1>7 DEF PipelineInv

\* The last flush stores the buffer, or gives it up.
LEMMA FlushKeeps ==
  ASSUME PipelineInv, Flush \/ FlushFails, TypeOK'
  PROVE  /\ PipelineInv' /\ Waiting' = queue
         /\ \/ Stored' = Stored \o buffer /\ lost' = lost
            \/ Stored' = Stored /\ lost' = lost \union ToSet(buffer)
<1>1. /\ task = "flush" /\ task' = "stopped" /\ buffer' = <<>>
      /\ \/ lastRows' = buffer /\ lost' = lost
         \/ lastRows' = lastRows /\ lost' = lost \union ToSet(buffer)
      /\ UNCHANGED <<logged, queue, rows, unformatted, overflow>>
  BY DEF Flush, FlushFails
<1>2. /\ queue \in Seq(Nat) /\ buffer \in Seq(Nat) /\ rows \in Seq(Nat) /\ lastRows = <<>>
      /\ Stored = rows /\ Stored \in Seq(Nat)
  <2>1. lastRows = <<>>
    BY <1>1 DEF PipelineInv, Shape
  <2> QED
    BY <2>1, Numbers, Emptied DEF PipelineInv, Stored
<1>3. /\ Waiting' = queue
      /\ \/ Stored' = Stored \o buffer /\ lastRows' = buffer /\ lost' = lost
         \/ Stored' = Stored /\ lastRows' = <<>> /\ lost' = lost \union ToSet(buffer)
  BY <1>1, <1>2, Emptied DEF Waiting, Stored
<1>4. LoggedOrder'
  <2>1. CASE Increasing(Stored \o Waiting)
    <3>1. (Stored \o buffer) \o queue = Stored \o Waiting
      BY <1>2, NumbersAssociative DEF Waiting
    <3>2. Increasing(Stored \o queue)
      BY <1>2, <2>1, IncreasingDrop DEF Waiting
    <3> QED
      BY <1>3, <2>1, <3>1, <3>2, OrderShown
  <2>2. CASE /\ Increasing(rows \o queue)
             /\ \E k \in 1 .. Len(rows) : SubSeq(rows, k, Len(rows)) \in {buffer, lastRows}
    <3>1. PICK k \in 1 .. Len(rows) : SubSeq(rows, k, Len(rows)) \in {buffer, <<>>}
      BY <1>2, <2>2
    <3>2. SubSeq(rows, k, Len(rows)) = buffer
      <4>1. Len(rows) \in Nat /\ \A i \in k .. Len(rows) : rows[i] \in Nat
        <5>1. Len(rows) \in Nat /\ \A i \in 1 .. Len(rows) : rows[i] \in Nat
          BY <1>2, LenProperties, ElementOfSeq
        <5> QED
          BY <5>1
      <4>2. Len(SubSeq(rows, k, Len(rows))) = Len(rows) - k + 1
        BY <4>1, SubSeqProperties
      <4>3. Len(rows) - k + 1 # 0 /\ Len(<<>>) = 0
        BY <4>1, EmptySeq
      <4> QED
        BY <3>1, <4>2, <4>3
    <3>3. CASE lastRows' = buffer
      <4>1. \E i \in 1 .. Len(rows') : SubSeq(rows', i, Len(rows')) \in {buffer', lastRows'}
        BY <1>1, <3>2, <3>3
      <4> QED
        BY <1>1, <2>2, <4>1 DEF LoggedOrder, Increasing
    <3>4. CASE Stored' = Stored
      BY <1>2, <1>3, <2>2, <3>4, OrderShown
    <3> QED
      BY <1>3, <3>3, <3>4
  <2> QED
    BY <2>1, <2>2, Restated
<1>5. Books'
  <2>1. ToSet(buffer') = {} /\ ToSet(lastRows) = {}
    BY <1>1, <1>2, Emptied
  <2>2. \/ ToSet(lastRows') = ToSet(buffer) /\ lost' = lost
        \/ ToSet(lastRows') = {} /\ lost' = lost \union ToSet(buffer)
    BY <1>3, Emptied
  <2>3. UNCHANGED <<ToSet(queue), ToSet(rows), logged, unformatted, overflow>>
    BY <1>1
  <2> QED
    BY <1>1, <2>1, <2>2, <2>3, Restated DEF PipelineInv, Books
<1>6. Shape'
  BY <1>1 DEF Shape
<1> QED
  BY <1>3, <1>4, <1>5, <1>6 DEF PipelineInv

LEMMA InitInv == Init => PipelineInv
<1> SUFFICES ASSUME Init PROVE PipelineInv
  OBVIOUS
<1>1. /\ logged = 0 /\ queue = <<>> /\ buffer = <<>> /\ rows = <<>> /\ lastRows = <<>>
      /\ unformatted = {} /\ overflow = {} /\ lost = {} /\ task = "collect"
  BY DEF Init
<1>2. TypeOK
  <2>1. <<>> \in Seq(Records) /\ Len(<<>>) = 0
    BY EmptySeq
  <2> QED
    BY <1>1, <2>1, RecordsAssumption, SizesAssumption DEF TypeOK
<1>3. LoggedOrder
  <2>1. rows \o lastRows \o buffer \o queue = <<>>
    BY <1>1, Emptied
  <2>2. \A i, j \in 1 .. Len(<<>>) : i < j => <<>>[i] < <<>>[j]
    BY EmptySeq
  <2> QED
    BY <2>1, <2>2 DEF LoggedOrder, Increasing
<1>4. Books
  <2>1. 1 .. logged = {} /\ ToSet(<<>>) = {}
    BY <1>1, Emptied
  <2> QED
    BY <1>1, <2>1 DEF Books, Accepted
<1> QED
  BY <1>1, <1>2, <1>3, <1>4 DEF PipelineInv, Shape

LEMMA StepKeeps == PipelineInv /\ [Next]_vars => PipelineInv'
<1> SUFFICES ASSUME PipelineInv, [Next]_vars PROVE PipelineInv'
  OBVIOUS
<1>1. TypeOK'
  BY TypeStep DEF PipelineInv
<1>2. CASE Emit
  BY <1>1, <1>2, EmitKeeps
<1>3. CASE Collect
  BY <1>1, <1>3, CollectKeeps
<1>4. CASE BeginCommit \/ Wake \/ Cancel
  BY <1>1, <1>4, TaskKeeps
<1>5. CASE Committed
  BY <1>1, <1>5, CommittedKeeps
<1>6. CASE CommitFails
  BY <1>1, <1>6, CommitFailsKeeps
<1>7. CASE CancelCommit
  BY <1>1, <1>7, CancelCommitKeeps
<1>8. CASE Flush \/ FlushFails
  BY <1>1, <1>8, FlushKeeps
<1>9. CASE UNCHANGED vars
  <2>1. LoggedOrder'
    BY <1>9, OrderUnchanged DEF vars, PipelineInv
  <2>2. Shape' /\ Books'
    BY <1>9 DEF vars, PipelineInv, Shape, Books
  <2> QED
    BY <1>1, <2>1, <2>2 DEF PipelineInv
<1> QED
  BY <1>2, <1>3, <1>4, <1>5, <1>6, <1>7, <1>8, <1>9 DEF Next, Loop, Shutdown

THEOREM PipelineInvariant == Spec => []PipelineInv
BY InitInv, StepKeeps, PTL DEF Spec

\* Records are stored in the order in which they were logged.
THEOREM OrderIsKept == Spec => []LoggedOrder
<1>1. PipelineInv => LoggedOrder
  BY DEF PipelineInv
<1> QED
  BY <1>1, PipelineInvariant, PTL

\* Every record that the handler took on is accounted for: one that is neither
\* stored nor under way to the table was lost in one of the four known ways,
\* the queue that nobody reads after the shutdown being one of them.
THEOREM LossesAreAccounted == Spec => []RecordsAccounted
<1>1. PipelineInv => RecordsAccounted
  BY DEF PipelineInv, Books, RecordsAccounted, Accepted, Stranded
<1> QED
  BY <1>1, PipelineInvariant, PTL

-----------------------------------------------------------------------------
(* The pipeline is a lossy log. *)

\* The task stores, or gives up, the first n of what waits.
LEMMA FrontOfWaiting ==
  ASSUME PipelineInv
  PROVE  /\ Len(buffer) \in 0 .. Len(Waiting)
         /\ SubSeq(Waiting, 1, Len(buffer)) = buffer
         /\ SubSeq(Waiting, Len(buffer) + 1, Len(Waiting)) = queue
BY Numbers, CutConcat DEF PipelineInv, Waiting

\* The variables of the log.
LEMMA LogVars ==
  /\ task # "stopped" => Stranded = {}
  /\ Log!ToSet(<<>>) = {}
BY Emptied DEF Stranded, Log!ToSet, ToSet

LEMMA SettleMaps ==
  ASSUME PipelineInv, Committed \/ CommitFails, TypeOK'
  PROVE  Log!Work
<1>1. /\ task = "commit" /\ task' \in {"collect", "sleep"}
      /\ UNCHANGED <<unformatted, overflow>>
      /\ Waiting' = queue
      /\ \/ Stored' = Stored \o buffer /\ lost' = lost
         \/ Stored' = Stored /\ lost' = lost \union ToSet(buffer)
  BY CommittedKeeps, CommitFailsKeeps DEF Committed, CommitFails
<1>2. Stranded = {} /\ Stranded' = {} /\ Phase = "open" /\ Phase' = "open"
  BY <1>1 DEF Stranded, Phase
<1>3. Log!Store(Len(buffer)) \/ Log!GiveUp(Len(buffer))
  BY <1>1, <1>2, FrontOfWaiting DEF Log!Store, Log!GiveUp, Log!First, Log!Rest, Log!ToSet, ToSet,
     Waiting, Stored
<1> QED
  BY <1>1, <1>2, <1>3, FrontOfWaiting DEF Log!Work, Waiting

LEMMA EmitMaps ==
  ASSUME PipelineInv, Emit
  PROVE  (\E r \in Records : Log!Accept(r)) \/ UNCHANGED Log!vars
<1> DEFINE n == logged + 1
           drops == unformatted \union overflow \union lost
<1>1. /\ logged < MaxRecords /\ logged' = n /\ UNCHANGED <<buffer, task, rows, lastRows, lost>>
      /\ \/ UNCHANGED <<queue, unformatted, overflow>>
         \/ queue' = Append(queue, n) /\ UNCHANGED <<unformatted, overflow>>
         \/ drops' = drops \union {n} /\ UNCHANGED queue
  BY DEF Emit
<1>2. n \in Records /\ n \in Nat /\ logged \in Nat
  BY <1>1, Numbers DEF PipelineInv, Records
<1>3. \A x \in Log!Seen : x < n
  <2>1. Log!Seen \subseteq ToSet(Waiting) \union ToSet(Stored) \union drops
    <3>1. CASE task = "stopped"
      <4>1. \A f : Log!ToSet(f) = ToSet(f)
        BY DEF Log!ToSet, ToSet
      <4>2. Stranded = ToSet(queue) /\ ToSet(queue) \subseteq ToSet(Waiting)
        BY <3>1, Restated DEF Stranded
      <4>3. Log!Seen = Log!ToSet(<<>>) \union Log!ToSet(Stored) \union (drops \union Stranded)
        BY <3>1 DEF Log!Seen, Stored
      <4> HIDE DEF drops
      <4> QED
        BY <4>1, <4>2, <4>3, LogVars
    <3>2. CASE task # "stopped"
      BY <3>2, LogVars DEF Log!Seen, Log!ToSet, ToSet, Waiting, Stored
    <3> QED
      BY <3>1, <3>2
  <2>2. \A x \in Log!Seen : x \in 1 .. logged
    BY <2>1, Restated DEF Accepted
  <2> QED
    BY <1>2, <2>2
<1>4. Stored' = Stored /\ Phase' = Phase /\ (Phase = "closed" <=> task = "stopped")
  BY <1>1 DEF Stored, Phase
<1> HIDE DEF n
<1>5. CASE UNCHANGED <<queue, unformatted, overflow>>
  <2>1. Stranded' = Stranded
    BY <1>1, <1>5 DEF Stranded
  <2> QED
    BY <1>1, <1>4, <1>5, <2>1 DEF Log!vars, Stored
<1>6. CASE queue' = Append(queue, n) /\ UNCHANGED <<unformatted, overflow>>
  <2>1. CASE task # "stopped"
    <3>1. Waiting' = Append(Waiting, n)
      BY <1>1, <1>2, <1>6, Numbers, AppendLast, SMTT(30) DEF PipelineInv, Waiting
    <3>2. Stranded = {} /\ Stranded' = {}
      BY <1>1, <2>1 DEF Stranded
    <3>3. Log!Accept(n)
      BY <1>1, <1>3, <1>4, <1>6, <2>1, <3>1, <3>2 DEF Log!Accept, Waiting, Stored
    <3> QED
      BY <1>2, <3>3
  <2>2. CASE task = "stopped"
    <3>1. Stranded' = Stranded \union {n}
      <4>1. queue \in Seq(Nat)
        BY Numbers DEF PipelineInv
      <4>2. ToSet(Append(queue, n)) = ToSet(queue) \union {n}
        BY <1>2, <4>1, AppendElements
      <4>3. Stranded = ToSet(queue) /\ Stranded' = ToSet(queue')
        BY <1>1, <2>2 DEF Stranded
      <4> QED
        BY <1>6, <4>2, <4>3, Zenon
    <3>2. Log!Accept(n)
      BY <1>1, <1>3, <1>4, <1>6, <2>2, <3>1 DEF Log!Accept, Stored
    <3> QED
      BY <1>2, <3>2
  <2> QED
    BY <2>1, <2>2
<1>7. CASE drops' = drops \union {n} /\ UNCHANGED queue
  <2>1. Waiting' = Waiting /\ Stranded' = Stranded
    BY <1>1, <1>7 DEF Waiting, Stranded
  <2>2. Log!Accept(n)
    BY <1>1, <1>3, <1>4, <1>7, <2>1 DEF Log!Accept, Waiting, Stored
  <2> QED
    BY <1>2, <2>2
<1> QED
  BY <1>1, <1>5, <1>6, <1>7

\* Every step of the pipeline is a step of the log, or leaves it as it is.
LEMMA StepMaps ==
  ASSUME PipelineInv, [Next]_vars
  PROVE  [Log!Next]_(Log!vars)
<1>1. TypeOK'
  BY TypeStep DEF PipelineInv
<1>2. CASE Emit
  BY <1>2, EmitMaps DEF Log!Next
<1>3. CASE Collect \/ BeginCommit \/ Wake
  <2>1. Waiting' = Waiting /\ Stored' = Stored
    BY <1>1, <1>3, CollectKeeps, TaskKeeps
  <2>2. /\ UNCHANGED <<unformatted, overflow, lost>>
        /\ task \notin {"flush", "stopped"} /\ task' \notin {"flush", "stopped"}
    BY <1>3 DEF Collect, BeginCommit, Wake
  <2>3. Phase' = Phase /\ Stranded = {} /\ Stranded' = {}
    BY <2>2 DEF Phase, Stranded
  <2> QED
    BY <2>1, <2>2, <2>3 DEF Log!vars, Waiting, Stored
<1>4. CASE Committed \/ CommitFails
  BY <1>1, <1>4, SettleMaps DEF Log!Next
<1>5. CASE Cancel
  <2>1. /\ Waiting' = Waiting /\ Stored' = Stored /\ UNCHANGED <<queue, unformatted, overflow, lost>>
        /\ task \in {"collect", "sleep"}
        /\ \/ task' = "stopped" /\ buffer = <<>>
           \/ task' = "flush"
    BY <1>1, <1>5, TaskKeeps DEF Cancel
  <2>2. CASE task' = "stopped" /\ buffer = <<>>
    <3>1. Waiting = queue /\ Stranded = {} /\ Stranded' = ToSet(Waiting)
      BY <2>1, <2>2, Numbers, Emptied DEF PipelineInv, Waiting, Stranded
    <3>2. Phase = "open" /\ Phase' = "closed"
      BY <2>1, <2>2 DEF Phase
    <3>3. Log!Closed
      BY <2>1, <2>2, <3>1, <3>2 DEF Log!Closed, Log!ToSet, ToSet, Waiting, Stored
    <3> QED
      BY <3>3 DEF Log!Next
  <2>3. CASE task' = "flush"
    <3>1. Stranded = {} /\ Stranded' = {} /\ Phase = "open" /\ Phase' = "closing"
      BY <2>1, <2>3 DEF Phase, Stranded
    <3>2. Log!Closing
      BY <2>1, <2>3, <3>1 DEF Log!Closing, Waiting, Stored
    <3> QED
      BY <3>2 DEF Log!Next
  <2> QED
    BY <2>1, <2>2, <2>3
<1>6. CASE CancelCommit
  <2>1. Waiting' = Waiting /\ Stored' \in {Stored, Stored \o buffer}
    BY <1>1, <1>6, CancelCommitKeeps
  <2>2. /\ UNCHANGED <<unformatted, overflow, lost>> /\ task = "commit" /\ task' = "flush"
        /\ Phase = "open" /\ Phase' = "closing" /\ Stranded = {} /\ Stranded' = {}
    BY <1>6 DEF CancelCommit, Phase, Stranded
  <2>3. Stored' = Stored \/ \E n \in 0 .. Len(Waiting) : Stored' = Stored \o SubSeq(Waiting, 1, n)
    BY <2>1, FrontOfWaiting
  <2>4. Log!Closing
    BY <2>1, <2>2, <2>3 DEF Log!Closing, Log!First, Waiting, Stored
  <2> QED
    BY <2>4 DEF Log!Next
<1>7. CASE Flush \/ FlushFails
  <2>1. /\ Waiting' = queue
        /\ \/ Stored' = Stored \o buffer /\ lost' = lost
           \/ Stored' = Stored /\ lost' = lost \union ToSet(buffer)
    BY <1>1, <1>7, FlushKeeps
  <2>2. UNCHANGED <<queue, unformatted, overflow>> /\ task = "flush" /\ task' = "stopped"
    BY <1>7 DEF Flush, FlushFails
  <2>3. Phase = "closing" /\ Phase' = "closed" /\ Stranded = {} /\ Stranded' = ToSet(queue)
    BY <2>2 DEF Phase, Stranded
  <2>4. Log!Closed
    <3> DEFINE drops == unformatted \union overflow \union lost
               n == Len(buffer)
    <3>1. CASE Stored' = Stored \o buffer /\ lost' = lost
      <4>1. /\ n \in 0 .. Len(Waiting) /\ Log!First(n) = buffer
            /\ Log!ToSet(Log!Rest(n)) = ToSet(queue)
        BY <2>2, FrontOfWaiting DEF Log!First, Log!Rest, Log!ToSet, ToSet, Waiting
      <4>2. (drops \union Stranded)' = (drops \union Stranded) \union ToSet(queue)
        BY <2>2, <2>3, <3>1
      <4> QED
        BY <2>2, <2>3, <3>1, <4>1, <4>2 DEF Log!Closed, Waiting, Stored
    <3>2. CASE Stored' = Stored /\ lost' = lost \union ToSet(buffer)
      <4>1. Log!ToSet(Waiting) = ToSet(buffer) \union ToSet(queue)
        BY Restated DEF Log!ToSet, ToSet
      <4>2. (drops \union Stranded)' = (drops \union Stranded) \union Log!ToSet(Waiting)
        BY <2>2, <2>3, <3>2, <4>1
      <4> QED
        BY <2>2, <2>3, <3>2, <4>2 DEF Log!Closed, Waiting, Stored
    <3> QED
      BY <2>1, <3>1, <3>2
  <2> QED
    BY <2>4 DEF Log!Next
<1>8. CASE UNCHANGED vars
  BY <1>8 DEF vars, Log!vars, Phase, Stranded
<1> QED
  BY <1>2, <1>3, <1>4, <1>5, <1>6, <1>7, <1>8 DEF Next, Loop, Shutdown

\* The handler, its task and the shutdown implement the lossy log.
THEOREM PromiseIsKept == Spec => KeepsItsPromise
<1>1. Init => Log!Init
  BY Emptied DEF Init, Log!Init, Phase, Stranded
<1> QED
  BY <1>1, StepMaps, PipelineInvariant, PTL DEF Spec, KeepsItsPromise, Log!Spec
=============================================================================
