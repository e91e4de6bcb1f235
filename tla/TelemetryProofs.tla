----------------------------- MODULE TelemetryProofs -----------------------------
(***************************************************************************)
(* Telemetry: for any caps, ages, batch size, faults, restarts and clock,  *)
(* one writer that finishes its line before the file it opened is read     *)
(* loses no event but by an error that is swallowed, and eviction is done  *)
(* in one go and spares the records.                                       *)
(*                                                                         *)
(* The argument for the first: a line is written to a file that is still   *)
(* there and that it makes longer (InHand); a segment is unlinked when its *)
(* events are in the queue (Course), where rowids are given out once       *)
(* (Shape) and, since a file holds a number once (Spooled), ids are too    *)
(* (Unique); and what is acknowledged is stored or refused (Course).       *)
(* For the second: a plan that must evict by count leaves Target rows or   *)
(* fewer, so that there is room for the receipt (Roomy), and it comes to   *)
(* the records when every sample is to go.                                 *)
(***************************************************************************)
EXTENDS Telemetry, SequenceTheorems, FiniteSetTheorems, TLAPS

\* A single writer, which a read never overtakes.
OneWriter == (\A v, w \in Writers : v = w) /\ ~ SlowWriters

Line == [n : Nat, cls : {"sample", "audit"}]
File == [lines : Seq(Line), at : {"live", "segment", "gone"}]
Handle == [file : Nat, end : Nat, line : Line]

IsRow(r) == r.cls \in {"sample", "audit"} /\ r.queued \in Int /\ r.since \in Nat

SpoolShape ==
  /\ files \in Seq(File) /\ opened \in [Writers -> Handle]
  /\ made \in Nat /\ locals \in 0..made
  /\ day \in Nat /\ skew \in Skews

QueueShape ==
  /\ serial \in Nat /\ DOMAIN queue \subseteq 1..serial
  /\ \A i \in DOMAIN queue : IsRow(queue[i])

Tidy(e) == e = [pc |-> e.pc, todo |-> e.todo, batch |-> e.batch, boot |-> e.boot]

TickShape ==
  /\ Tidy(d) /\ d.boot \in Nat
  /\ d.pc \in {"idle", "drain", "ingested", "receipt", "flush", "sent", "answered"}
  /\ d.todo \subseteq Segments
  /\ d.pc = "ingested" => d.todo # {}

Shape == SpoolShape /\ QueueShape /\ TickShape

\* There is room for the receipt.
Roomy == d.pc = "receipt" => Size(queue) < Cap

\* With a clock that is never behind, no row is younger than it says.
Honest == \A i \in DOMAIN queue : queue[i].queued >= queue[i].since

NumbersIn(i) == {files[i].lines[k].n : k \in DOMAIN files[i].lines}

Spooled ==
  /\ \A i, j \in Live : i = j
  /\ \A i \in Live \cup Segments : files[i].lines # <<>>
  /\ \A i \in DOMAIN files :
       /\ NumbersIn(i) \subseteq Events
       /\ \A j, k \in DOMAIN files[i].lines : files[i].lines[j].n = files[i].lines[k].n => j = k

\* An open file is where it was, no longer than it was, and the line is new to it.
InHand ==
  \A w \in Writers :
    LET h == opened[w] IN
    h # Closed =>
      /\ h.line.n \in Events
      /\ \A i \in DOMAIN files : \A n \in NumbersIn(i) : n < h.line.n
      /\ h.file = 0 => Live = {}
      /\ h.file # 0 => h.file \in Live \cup Segments /\ h.end = Len(files[h.file].lines)

Unique == \A i, j \in DOMAIN queue : Id(queue[i]) = Id(queue[j]) => i = j

Course ==
  /\ d.pc \notin {"sent", "answered"} => d.batch = NoRows
  /\ Ids(d.batch) \subseteq Ids(queue)
  /\ d.pc = "answered" => Ids(d.batch) \subseteq stored \cup refused
  /\ d.pc = "ingested" =>
       /\ \A w \in Writers : opened[w].file # Oldest
       /\ NumbersIn(Oldest) \subseteq Numbers(Ids(queue)) \cup dropped

IInv == Shape /\ Spooled /\ InHand /\ Unique /\ Course /\ NothingLost

-----------------------------------------------------------------------------
(* The operators.                                                           *)

LEMMA LeastNatural ==
  ASSUME NEW T \in SUBSET Nat, T # {}
  PROVE  \E m \in T : \A n \in T : m <= n
<1> DEFINE R == {ss \in Nat \X Nat : ss[1] < ss[2]}
<1>1. IsWellFoundedOn(R, Nat)
  BY NatLessThanWellFounded DEF OpToRel
<1> HIDE DEF R
<1>2. PICK m \in T : \A n \in T : ~ (<<n, m>> \in R)
  BY <1>1, WFMin
<1>3. \A n \in T : ~ (n < m)
  BY <1>2 DEF R
<1> QED
  BY <1>2, <1>3

\* The rows at some rowids have their ids, and acknowledging removes just the ids named.
LEMMA WhereFacts ==
  ASSUME NEW q, NEW S
  PROVE  /\ DOMAIN Where(q, S) = S
         /\ \A i \in S : Where(q, S)[i] = q[i]
         /\ Ids(Where(q, S)) = {Id(q[i]) : i \in S}
BY DEF Where, Ids

LEMMA WithoutFacts ==
  ASSUME NEW q, NEW ids
  PROVE  /\ DOMAIN Without(q, ids) = {i \in DOMAIN q : Id(q[i]) \notin ids}
         /\ \A i \in DOMAIN Without(q, ids) : Without(q, ids)[i] = q[i]
BY WhereFacts DEF Without

LEMMA NoRowsFacts == DOMAIN NoRows = {} /\ Ids(NoRows) = {}
<1>1. DOMAIN NoRows = {}
  BY EmptySeq, LenProperties DEF NoRows
<1> QED
  BY <1>1 DEF Ids

\* LIMIT k takes k rows, or all there are.
LEMMA LimitFacts ==
  ASSUME NEW S \in SUBSET Nat, IsFiniteSet(S), NEW k \in Nat
  PROVE  /\ Limit(S, k) \subseteq S
         /\ Limit(S, k) = S \/ Cardinality(Limit(S, k)) >= k
         /\ Cardinality(S) <= k => Limit(S, k) = S
         /\ k = 0 => Limit(S, k) = {}
<1> DEFINE Upto(i) == {j \in S : j <= i}
<1>1. ASSUME NEW i \in S
      PROVE  /\ IsFiniteSet(Upto(i)) /\ Cardinality(Upto(i)) \in Nat
             /\ Cardinality(Upto(i)) <= Cardinality(S) /\ Cardinality(Upto(i)) # 0
  <2>1. Upto(i) \in SUBSET S /\ i \in Upto(i)
    <3>1. i \in Nat /\ i <= i
      OBVIOUS
    <3>2. Upto(i) \subseteq S
      OBVIOUS
    <3>3. i \in Upto(i)
      BY <3>1
    <3> QED
      BY <3>2, <3>3
  <2> HIDE DEF Upto
  <2> QED
    BY <2>1, FS_Subset, FS_CardinalityType, FS_EmptySet
<1>2. Limit(S, k) = {i \in S : Cardinality(Upto(i)) <= k}
  BY DEF Limit
<1>3. Cardinality(S) \in Nat /\ IsFiniteSet(Limit(S, k)) /\ Cardinality(Limit(S, k)) \in Nat
  BY <1>2, FS_Subset, FS_CardinalityType
<1>4. ASSUME Limit(S, k) # S
      PROVE  Cardinality(Limit(S, k)) >= k
  <2> DEFINE R == S \ Limit(S, k)
  <2>1. PICK m \in R : \A n \in R : m <= n
    <3>1. R \in SUBSET Nat /\ R # {}
      BY <1>2, <1>4
    <3> QED
      BY <3>1, LeastNatural
  <2>2. Upto(m) \in SUBSET (Limit(S, k) \cup {m})
    <3>1. ASSUME NEW j \in Upto(m), j \notin Limit(S, k)
          PROVE  j = m
      <4>1. j \in R /\ j \in Nat /\ m \in Nat /\ j <= m
        BY <3>1
      <4>2. m <= j
        BY <4>1, <2>1
      <4> QED
        BY <4>1, <4>2
    <3> QED
      BY <3>1
  <2>3. Cardinality(Upto(m)) > k
    <3>1. m \in S /\ ~ (Cardinality(Upto(m)) <= k)
      BY <1>2, <2>1
    <3> HIDE DEF Upto, R
    <3> QED
      BY <3>1, <1>1
  <2> HIDE DEF Upto
  <2>4. /\ IsFiniteSet(Limit(S, k) \cup {m})
        /\ Cardinality(Limit(S, k) \cup {m}) = Cardinality(Limit(S, k)) + 1
    BY <1>3, <2>1, FS_AddElement
  <2>5. Cardinality(Upto(m)) <= Cardinality(Limit(S, k)) + 1
    BY <2>2, <2>4, FS_Subset
  <2> QED
    BY <2>3, <2>5, <1>3, <1>1, <2>1
<1>5. ASSUME Cardinality(S) <= k
      PROVE  Limit(S, k) = S
  <2> HIDE DEF Upto
  <2>1. \A i \in S : Cardinality(Upto(i)) <= k
    BY <1>1, <1>3, <1>5
  <2> QED
    BY <1>2, <2>1
<1>6. ASSUME k = 0
      PROVE  Limit(S, k) = {}
  <2> HIDE DEF Upto
  <2>1. \A i \in S : ~ (Cardinality(Upto(i)) <= k)
    BY <1>1, <1>6
  <2> QED
    BY <1>2, <2>1
<1>7. Limit(S, k) \subseteq S
  BY <1>2
<1> QED
  BY <1>4, <1>5, <1>6, <1>7

LEMMA OldestFacts ==
  ASSUME d.todo \in SUBSET Nat, d.todo # {}
  PROVE  Oldest \in d.todo
BY LeastNatural DEF Oldest

\* Enqueueing adds the ids of its rows, to what is queued nothing else happens.
LEMMA EnqueueFacts ==
  ASSUME QueueShape, NEW n \in Nat, NEW rows, rows = [k \in 1..n |-> rows[k]], Len(rows) = n,
         \A k \in 1..n : IsRow(rows[k]),
         Enqueue(rows)
  PROVE  /\ QueueShape'
         /\ \A i \in DOMAIN queue : i \in DOMAIN queue' /\ queue'[i] = queue[i]
         /\ \A i \in DOMAIN queue' \ DOMAIN queue :
              \E k \in 1..n : i = serial + k /\ queue'[i] = rows[k] /\ Id(rows[k]) \notin Ids(queue)
         /\ Ids(queue') = Ids(queue) \cup {Id(rows[k]) : k \in 1..n}
<1> DEFINE new == {serial + k : k \in Fresh(rows)}
<1>1. /\ queue' = [i \in DOMAIN queue \cup new |-> IF i \in new THEN rows[i - serial] ELSE queue[i]]
      /\ serial' = serial + n
  BY DEF Enqueue
<1>2. /\ serial \in Nat /\ \A i \in DOMAIN queue : i \in Int /\ i <= serial /\ i >= 1
      /\ \A i \in DOMAIN queue : IsRow(queue[i])
  BY DEF QueueShape
<1>3. DOMAIN rows = 1..n
  OBVIOUS
<1>4. Fresh(rows) = {k \in 1..n : Id(rows[k]) \notin Ids(queue)}
  BY <1>3 DEF Fresh
<1>5. ASSUME NEW i \in new
      PROVE  /\ i \in 1..serial + n /\ i \notin DOMAIN queue
             /\ \E k \in 1..n : /\ i = serial + k /\ queue'[i] = rows[k]
                                /\ Id(rows[k]) \notin Ids(queue)
  <2>1. PICK k \in 1..n : i = serial + k /\ Id(rows[k]) \notin Ids(queue)
    BY <1>4
  <2>2. i - serial = k /\ i \in 1..serial + n /\ ~ (i <= serial)
    BY <2>1, <1>2
  <2>3. queue'[i] = rows[k]
    BY <1>1, <2>2
  <2> QED
    BY <2>1, <2>2, <2>3, <1>2
<1>6. DOMAIN queue' = DOMAIN queue \cup new
  BY <1>1
<1>7. \A i \in DOMAIN queue : i \in DOMAIN queue' /\ queue'[i] = queue[i]
  <2>1. \A i \in DOMAIN queue : i \notin new
    BY <1>5
  <2> HIDE DEF new
  <2> QED
    BY <1>1, <1>6, <2>1
<1>8. \A k \in Fresh(rows) : serial + k \in DOMAIN queue' /\ queue'[serial + k] = rows[k]
  <2> SUFFICES ASSUME NEW k \in Fresh(rows)
               PROVE  serial + k \in DOMAIN queue' /\ queue'[serial + k] = rows[k]
    OBVIOUS
  <2>1. serial + k \in new /\ (serial + k) - serial = k
    BY <1>2, <1>4
  <2> HIDE DEF new
  <2> QED
    BY <1>1, <1>6, <2>1
<1>9. QueueShape'
  <2>1. serial' \in Nat /\ DOMAIN queue' \subseteq 1..serial'
    <3>1. \A i \in DOMAIN queue : i \in 1..serial + n
      BY <1>2
    <3> HIDE DEF new
    <3> QED
      BY <1>1, <1>2, <1>5, <1>6, <3>1
  <2>2. \A i \in DOMAIN queue' : IsRow(queue'[i])
    <3> HIDE DEF new
    <3> QED
      BY <1>2, <1>5, <1>6, <1>7
  <2> QED
    BY <2>1, <2>2 DEF QueueShape
<1>10. Ids(queue') = Ids(queue) \cup {Id(rows[k]) : k \in 1..n}
  <2> HIDE DEF new
  <2>1. ASSUME NEW x \in Ids(queue')
        PROVE  x \in Ids(queue) \cup {Id(rows[k]) : k \in 1..n}
    <3>1. PICK i \in DOMAIN queue' : x = Id(queue'[i])
      BY DEF Ids
    <3>2. CASE i \in DOMAIN queue
      BY <3>1, <3>2, <1>7 DEF Ids
    <3>3. CASE i \in new
      BY <3>1, <3>3, <1>5
    <3> QED
      BY <3>2, <3>3, <1>6
  <2>2. ASSUME NEW x \in Ids(queue)
        PROVE  x \in Ids(queue')
    <3>1. PICK i \in DOMAIN queue : x = Id(queue[i])
      BY DEF Ids
    <3> QED
      BY <3>1, <1>7 DEF Ids
  <2>3. ASSUME NEW k \in 1..n
        PROVE  Id(rows[k]) \in Ids(queue')
    <3>1. CASE k \in Fresh(rows)
      BY <3>1, <1>8 DEF Ids
    <3>2. CASE k \notin Fresh(rows)
      BY <3>2, <2>2, <1>4
    <3> QED
      BY <3>1, <3>2
  <2> QED
    BY <2>1, <2>2, <2>3
<1> QED
  <2> HIDE DEF new
  <2> QED
    BY <1>5, <1>6, <1>7, <1>9, <1>10

\* One row, of the process's own.
LEMMA EnqueueOne ==
  ASSUME QueueShape, NEW r, IsRow(r), Enqueue(<<r>>)
  PROVE  /\ QueueShape'
         /\ \A i \in DOMAIN queue : i \in DOMAIN queue' /\ queue'[i] = queue[i]
         /\ \A i \in DOMAIN queue' \ DOMAIN queue :
              i = serial + 1 /\ queue'[i] = r /\ Id(r) \notin Ids(queue)
         /\ Ids(queue') = Ids(queue) \cup {Id(r)}
<1> DEFINE rows == <<r>>
           n == 1
<1>1. /\ n \in Nat /\ rows = [k \in 1..n |-> rows[k]] /\ Len(rows) = n
      /\ \A k \in 1..n : rows[k] = r
  OBVIOUS
<1>2. \A k \in 1..n : k = 1
  OBVIOUS
<1>3. Enqueue(rows) /\ 1 \in 1..n
  OBVIOUS
<1> HIDE DEF rows, n
<1>4. \A k \in 1..n : IsRow(rows[k])
  BY <1>1
<1>5. /\ QueueShape'
      /\ \A i \in DOMAIN queue : i \in DOMAIN queue' /\ queue'[i] = queue[i]
      /\ \A i \in DOMAIN queue' \ DOMAIN queue :
           \E k \in 1..n : /\ i = serial + k /\ queue'[i] = rows[k]
                           /\ Id(rows[k]) \notin Ids(queue)
      /\ Ids(queue') = Ids(queue) \cup {Id(rows[k]) : k \in 1..n}
  BY <1>1, <1>3, <1>4, EnqueueFacts
<1>6. {Id(rows[k]) : k \in 1..n} = {Id(r)}
  BY <1>1, <1>3
<1>7. ASSUME NEW i \in DOMAIN queue' \ DOMAIN queue
      PROVE  i = serial + 1 /\ queue'[i] = r /\ Id(r) \notin Ids(queue)
  <2>1. PICK k \in 1..n : /\ i = serial + k /\ queue'[i] = rows[k]
                          /\ Id(rows[k]) \notin Ids(queue)
    BY <1>5
  <2> QED
    BY <2>1, <1>1, <1>2
<1> QED
  BY <1>5, <1>6, <1>7

-----------------------------------------------------------------------------
(* Types.                                                                   *)

LEMMA FileFacts ==
  ASSUME SpoolShape
  PROVE  /\ Len(files) \in Nat /\ DOMAIN files = 1..Len(files) /\ DOMAIN files \subseteq Nat \ {0}
         /\ \A i \in DOMAIN files :
              /\ files[i] \in File /\ files[i].lines \in Seq(Line)
              /\ Len(files[i].lines) \in Nat /\ DOMAIN files[i].lines = 1..Len(files[i].lines)
              /\ \A k \in DOMAIN files[i].lines : files[i].lines[k] \in Line
         /\ Live \subseteq DOMAIN files /\ Segments \subseteq DOMAIN files
         /\ Live \cap Segments = {}
<1>1. files \in Seq(File)
  BY DEF SpoolShape
<1>2. /\ Len(files) \in Nat /\ DOMAIN files = 1..Len(files)
      /\ \A i \in DOMAIN files : files[i] \in File
  BY <1>1, LenProperties, ElementOfSeq
<1>3. \A i \in DOMAIN files : files[i].lines \in Seq(Line)
  BY <1>2 DEF File
<1>4. ASSUME NEW i \in DOMAIN files
      PROVE  /\ Len(files[i].lines) \in Nat /\ DOMAIN files[i].lines = 1..Len(files[i].lines)
             /\ \A k \in DOMAIN files[i].lines : files[i].lines[k] \in Line
  BY <1>3, LenProperties, ElementOfSeq
<1>5. /\ Live \subseteq DOMAIN files /\ Segments \subseteq DOMAIN files
      /\ Live \cap Segments = {}
  BY DEF Live, Segments
<1>6. DOMAIN files \subseteq Nat \ {0}
  BY <1>2
<1> QED
  BY <1>2, <1>3, <1>4, <1>5, <1>6

LEMMA LineFacts ==
  ASSUME SpoolShape
  PROVE  NewLine \in Line /\ NewLine.n = made + 1
BY DEF SpoolShape, NewLine, Line

LEMMA ClosedFacts == Closed \in Handle /\ Closed.file = 0 /\ Closed.line.n = 0
BY DEF Closed, Handle, Line

LEMMA OpenFacts ==
  ASSUME SpoolShape
  PROVE  LET h == OpenSpool(NewLine)
         IN  /\ h \in Handle /\ h.line = NewLine
             /\ Live = {} => h.file = 0
             /\ Live # {} => h.file \in Live /\ h.end = Len(files[h.file].lines)
<1>1. CASE Live = {}
  BY <1>1, LineFacts DEF OpenSpool, Handle
<1>2. CASE Live # {}
  <2> DEFINE f == CHOOSE i \in Live : TRUE
  <2>1. f \in Live
    BY <1>2
  <2> HIDE DEF f
  <2>2. f \in Nat /\ Len(files[f].lines) \in Nat
    BY <2>1, FileFacts
  <2>3. OpenSpool(NewLine) = [file |-> f, end |-> Len(files[f].lines), line |-> NewLine]
    BY <1>2 DEF OpenSpool, f
  <2> QED
    BY <1>2, <2>1, <2>2, <2>3, LineFacts DEF Handle
<1> QED
  BY <1>1, <1>2

\* Wherever a line lands, no file goes away or is renamed by it.
LEMMA LandedFacts ==
  ASSUME SpoolShape, NEW h \in Handle
  PROVE  /\ Landed(h) \in Seq(File) /\ DOMAIN files \subseteq DOMAIN Landed(h)
         /\ \A i \in DOMAIN files : Landed(h)[i].at = files[i].at
<1>1. files \in Seq(File) /\ h.file \in Nat /\ h.end \in Nat /\ h.line \in Line
  BY DEF SpoolShape, Handle
<1>2. <<h.line>> \in Seq(Line)
  BY <1>1
<1>3. ASSUME NEW i \in DOMAIN files, NEW s \in Seq(Line)
      PROVE  LET new == [files EXCEPT ![i].lines = s]
             IN  /\ new \in Seq(File) /\ DOMAIN files \subseteq DOMAIN new
                 /\ \A j \in DOMAIN files : new[j].at = files[j].at
  <2> DEFINE f == [files[i] EXCEPT !.lines = s]
  <2>1. f \in File /\ f.at = files[i].at
    BY FileFacts DEF File
  <2>2. [files EXCEPT ![i].lines = s] = [files EXCEPT ![i] = f]
    BY FileFacts
  <2> HIDE DEF f
  <2>3. [files EXCEPT ![i] = f] \in Seq(File)
    BY <1>1, <2>1, FileFacts, ExceptSeq
  <2>4. \A j \in DOMAIN files : [files EXCEPT ![i] = f][j].at = files[j].at
    BY <2>1
  <2> QED
    BY <2>2, <2>3, <2>4
<1>4. CASE h.file # 0 /\ h.file \in DOMAIN files
  <2> DEFINE old == files[h.file].lines
             s == IF h.end < Len(old) THEN [old EXCEPT ![h.end + 1] = h.line]
                  ELSE Append(old, h.line)
  <2>1. old \in Seq(Line) /\ Len(old) \in Nat
    BY <1>4, FileFacts
  <2>2. s \in Seq(Line)
    <3> HIDE DEF old
    <3>1. CASE h.end < Len(old)
      <4>1. h.end + 1 \in 1..Len(old)
        BY <1>1, <2>1, <3>1
      <4>2. [old EXCEPT ![h.end + 1] = h.line] \in Seq(Line)
        BY <1>1, <2>1, <4>1, ExceptSeq
      <4> QED
        BY <3>1, <4>2
    <3>2. CASE ~ (h.end < Len(old))
      <4>1. Append(old, h.line) \in Seq(Line)
        BY <1>1, <2>1, AppendProperties
      <4> QED
        BY <3>2, <4>1
    <3> QED
      BY <3>1, <3>2
  <2>3. Landed(h) = [files EXCEPT ![h.file].lines = s]
    BY <1>4 DEF Landed
  <2> HIDE DEF s, old
  <2> QED
    BY <1>3, <1>4, <2>2, <2>3
<1>5. CASE h.file # 0 /\ h.file \notin DOMAIN files
  <2>1. files = [i \in DOMAIN files |-> files[i]]
    BY <1>1, LenProperties
  <2>2. ASSUME NEW s
        PROVE  [files EXCEPT ![h.file].lines = s] = files
    BY <1>5, <2>1
  <2>3. \E s : Landed(h) = [files EXCEPT ![h.file].lines = s]
    BY <1>5 DEF Landed
  <2>4. Landed(h) = files
    BY <2>2, <2>3
  <2> QED
    BY <1>1, <2>4
<1>6. CASE h.file = 0 /\ Live # {}
  <2> DEFINE f == CHOOSE i \in Live : TRUE
             s == <<h.line>>
  <2>1. f \in Live /\ s \in Seq(Line)
    BY <1>2, <1>6
  <2>2. Landed(h) = [files EXCEPT ![f].lines = s]
    BY <1>6 DEF Landed
  <2> HIDE DEF f, s
  <2>3. f \in DOMAIN files
    BY <2>1, FileFacts
  <2> QED
    BY <1>3, <2>1, <2>2, <2>3
<1>7. CASE h.file = 0 /\ Live = {}
  <2> DEFINE new == [lines |-> <<h.line>>, at |-> "live"]
  <2>1. new \in File
    BY <1>2 DEF File
  <2>2. Landed(h) = Append(files, new)
    BY <1>7 DEF Landed
  <2> HIDE DEF new
  <2>3. /\ Append(files, new) \in Seq(File) /\ Len(Append(files, new)) = Len(files) + 1
        /\ \A i \in 1..Len(files) : Append(files, new)[i] = files[i]
    BY <1>1, <2>1, AppendProperties
  <2>4. DOMAIN Append(files, new) = 1..Len(files) + 1
    BY <2>3, LenProperties
  <2> QED
    BY <2>2, <2>3, <2>4, FileFacts
<1> QED
  BY <1>4, <1>5, <1>6, <1>7

LEMMA RowFacts ==
  ASSUME Shape, NEW line, line.cls \in {"sample", "audit"}
  PROVE  /\ IsRow(Row(line)) /\ Row(line).n = line.n /\ Row(line).cls = line.cls
         /\ Id(Row(line)) = [n |-> line.n, boot |-> d.boot]
         /\ Row(line).queued = Row(line).since + skew
<1>1. day \in Nat /\ skew \in Int
  BY TelemetryAssumption DEF Shape, SpoolShape
<1> QED
  BY <1>1 DEF IsRow, Row, Id

LEMMA TodoFacts ==
  ASSUME Shape, d.todo # {}
  PROVE  Oldest \in d.todo /\ Oldest \in Segments /\ Oldest \in DOMAIN files
<1>1. d.todo \subseteq Segments /\ Segments \subseteq Nat /\ Segments \subseteq DOMAIN files
  BY FileFacts DEF Shape, TickShape
<1>2. Oldest \in d.todo
  BY <1>1, OldestFacts
<1> QED
  BY <1>1, <1>2

Parsed(i) == [k \in DOMAIN files[i].lines |-> Row(files[i].lines[k])]

LEMMA ParsedFacts ==
  ASSUME Shape, NEW i \in DOMAIN files, NEW n, n = Len(files[i].lines)
  PROVE  /\ n \in Nat /\ DOMAIN files[i].lines = 1..n
         /\ Parsed(i) = [k \in 1..n |-> Parsed(i)[k]] /\ Len(Parsed(i)) = n
         /\ \A k \in 1..n : /\ files[i].lines[k].cls \in {"sample", "audit"}
                            /\ Parsed(i)[k] = Row(files[i].lines[k]) /\ IsRow(Parsed(i)[k])
<1>1. /\ n \in Nat /\ DOMAIN files[i].lines = 1..n
      /\ \A k \in 1..n : files[i].lines[k] \in Line
  BY FileFacts DEF Shape
<1>2. Parsed(i) = [k \in 1..n |-> Row(files[i].lines[k])]
  BY <1>1 DEF Parsed
<1>3. \A k \in 1..n : files[i].lines[k].cls \in {"sample", "audit"}
  BY <1>1 DEF Line
<1>4. \A k \in 1..n : Parsed(i)[k] = Row(files[i].lines[k]) /\ IsRow(Parsed(i)[k])
  BY <1>2, <1>3, RowFacts
<1> DEFINE S == {Parsed(i)[k] : k \in 1..n}
<1>5. Parsed(i) \in [1..n -> S] /\ Parsed(i) = [k \in 1..n |-> Parsed(i)[k]]
  BY <1>2
<1>6. Len(Parsed(i)) = n
  <2> HIDE DEF S
  <2>1. Parsed(i) \in Seq(S)
    BY <1>1, <1>5, SeqDef
  <2>2. Len(Parsed(i)) \in Nat /\ 1..Len(Parsed(i)) = 1..n
    BY <1>5, <2>1, LenProperties
  <2> QED
    BY <1>1, <2>2
<1> QED
  BY <1>1, <1>3, <1>4, <1>5, <1>6

\* Reading a segment queues its lines, under this process's ids.
LEMMA IngestFacts ==
  ASSUME Shape, d.todo # {}, Enqueue(Parsed(Oldest))
  PROVE  /\ QueueShape'
         /\ \A i \in DOMAIN queue : i \in DOMAIN queue' /\ queue'[i] = queue[i]
         /\ \A i \in DOMAIN queue' \ DOMAIN queue :
              \E k \in DOMAIN files[Oldest].lines :
                 /\ i = serial + k /\ queue'[i] = Row(files[Oldest].lines[k])
                 /\ files[Oldest].lines[k].cls \in {"sample", "audit"}
                 /\ Id(queue'[i]) \notin Ids(queue)
         /\ Ids(queue') = Ids(queue) \cup {[n |-> files[Oldest].lines[k].n, boot |-> d.boot] :
                                             k \in DOMAIN files[Oldest].lines}
<1> DEFINE n == Len(files[Oldest].lines)
           rows == Parsed(Oldest)
<1>1. /\ n \in Nat /\ DOMAIN files[Oldest].lines = 1..n
      /\ rows = [k \in 1..n |-> rows[k]] /\ Len(rows) = n
      /\ \A k \in 1..n : /\ files[Oldest].lines[k].cls \in {"sample", "audit"}
                         /\ rows[k] = Row(files[Oldest].lines[k]) /\ IsRow(rows[k])
  BY TodoFacts, ParsedFacts
<1>2. QueueShape /\ Enqueue(rows)
  BY DEF Shape
<1>3. ASSUME NEW k \in 1..n
      PROVE  Id(rows[k]) = [n |-> files[Oldest].lines[k].n, boot |-> d.boot]
  <2> HIDE DEF rows, n
  <2> QED
    BY <1>1, RowFacts
<1> HIDE DEF rows, n
<1>4. /\ QueueShape'
      /\ \A i \in DOMAIN queue : i \in DOMAIN queue' /\ queue'[i] = queue[i]
      /\ \A i \in DOMAIN queue' \ DOMAIN queue :
           \E k \in 1..n : i = serial + k /\ queue'[i] = rows[k] /\ Id(rows[k]) \notin Ids(queue)
      /\ Ids(queue') = Ids(queue) \cup {Id(rows[k]) : k \in 1..n}
  BY <1>1, <1>2, EnqueueFacts
<1>5. {Id(rows[k]) : k \in 1..n}
        = {[n |-> files[Oldest].lines[k].n, boot |-> d.boot] : k \in 1..n}
  BY <1>3
<1>6. ASSUME NEW i \in DOMAIN queue' \ DOMAIN queue
      PROVE  \E k \in 1..n :
                 /\ i = serial + k /\ queue'[i] = Row(files[Oldest].lines[k])
                 /\ files[Oldest].lines[k].cls \in {"sample", "audit"}
                 /\ Id(queue'[i]) \notin Ids(queue)
  <2>1. PICK k \in 1..n : i = serial + k /\ queue'[i] = rows[k] /\ Id(rows[k]) \notin Ids(queue)
    BY <1>4
  <2> QED
    BY <2>1, <1>1
<1> QED
  BY <1>1, <1>4, <1>5, <1>6

SetPc(x) == [d EXCEPT !.pc = x]
SetTodo(x, y) == [d EXCEPT !.pc = x, !.todo = y]
SetBatch(x, y) == [d EXCEPT !.pc = x, !.batch = y]
Reborn == [Idle EXCEPT !.boot = @ + 1]

\* What the daemon's steps do to its own record.
LEMMA TickFields ==
  ASSUME Tidy(d), NEW x, NEW y
  PROVE  /\ Tidy(SetPc(x)) /\ SetPc(x).pc = x /\ SetPc(x).todo = d.todo
         /\ SetPc(x).batch = d.batch /\ SetPc(x).boot = d.boot
         /\ Tidy(SetTodo(x, y)) /\ SetTodo(x, y).pc = x /\ SetTodo(x, y).todo = y
         /\ SetTodo(x, y).batch = d.batch /\ SetTodo(x, y).boot = d.boot
         /\ Tidy(SetBatch(x, y)) /\ SetBatch(x, y).pc = x /\ SetBatch(x, y).todo = d.todo
         /\ SetBatch(x, y).batch = y /\ SetBatch(x, y).boot = d.boot
         /\ Tidy(Idle) /\ Idle.pc = "idle" /\ Idle.todo = {} /\ Idle.batch = NoRows
         /\ Idle.boot = d.boot
         /\ Tidy(Reborn) /\ Reborn.pc = "idle" /\ Reborn.todo = {} /\ Reborn.batch = NoRows
         /\ Reborn.boot = d.boot + 1
<1> DEFINE p == d.pc  t == d.todo  b == d.batch  o == d.boot
<1>1. d = [pc |-> p, todo |-> t, batch |-> b, boot |-> o]
  BY DEF Tidy
<1> HIDE DEF p, t, b, o
<1>2. ASSUME NEW q, NEW u, NEW c, NEW v
      PROVE  /\ Tidy([pc |-> q, todo |-> u, batch |-> c, boot |-> v])
             /\ d.pc = p /\ d.todo = t /\ d.batch = b /\ d.boot = o
  BY <1>1 DEF Tidy
<1>3. SetPc(x) = [pc |-> x, todo |-> t, batch |-> b, boot |-> o]
  BY <1>1 DEF SetPc
<1>4. SetTodo(x, y) = [pc |-> x, todo |-> y, batch |-> b, boot |-> o]
  <2> DEFINE e == [d EXCEPT !.pc = x]
  <2>1. e = [pc |-> x, todo |-> t, batch |-> b, boot |-> o]
    BY <1>3 DEF SetPc
  <2>2. SetTodo(x, y) = [e EXCEPT !.todo = y]
    BY DEF SetTodo
  <2> HIDE DEF e
  <2>3. [e EXCEPT !.todo = y] = [pc |-> x, todo |-> y, batch |-> b, boot |-> o]
    BY <2>1
  <2> QED
    BY <2>2, <2>3
<1>5. SetBatch(x, y) = [pc |-> x, todo |-> t, batch |-> y, boot |-> o]
  <2> DEFINE e == [d EXCEPT !.pc = x]
  <2>1. e = [pc |-> x, todo |-> t, batch |-> b, boot |-> o]
    BY <1>3 DEF SetPc
  <2>2. SetBatch(x, y) = [e EXCEPT !.batch = y]
    BY DEF SetBatch
  <2> HIDE DEF e
  <2>3. [e EXCEPT !.batch = y] = [pc |-> x, todo |-> t, batch |-> y, boot |-> o]
    BY <2>1
  <2> QED
    BY <2>2, <2>3
<1>6. Idle = [pc |-> "idle", todo |-> {}, batch |-> NoRows, boot |-> o]
  BY <1>2 DEF Idle
<1>7. Reborn = [pc |-> "idle", todo |-> {}, batch |-> NoRows, boot |-> o + 1]
  BY <1>6 DEF Reborn
<1> QED
  <2>1. \A q, u, c, v : LET e == [pc |-> q, todo |-> u, batch |-> c, boot |-> v]
                        IN  e.pc = q /\ e.todo = u /\ e.batch = c /\ e.boot = v
    OBVIOUS
  <2> QED
    BY <1>2, <1>3, <1>4, <1>5, <1>6, <1>7

\* Whatever the step, a row in the queue was there or is stamped with the Mac's clock.
LEMMA QueueStep ==
  ASSUME Shape, Next
  PROVE  /\ QueueShape'
         /\ \A i \in DOMAIN queue' :
              \/ i \in DOMAIN queue /\ queue'[i] = queue[i]
              \/ queue'[i].queued = queue'[i].since + skew
<1> DEFINE Goal ==
      /\ QueueShape'
      /\ \A i \in DOMAIN queue' :
           \/ i \in DOMAIN queue /\ queue'[i] = queue[i]
           \/ queue'[i].queued = queue'[i].since + skew
<1> SUFFICES Goal
  OBVIOUS
<1>0. QueueShape
  BY DEF Shape
<1>1. ASSUME UNCHANGED table
      PROVE  Goal
  BY <1>0, <1>1 DEF table, QueueShape
<1>2. ASSUME NEW S \in SUBSET DOMAIN queue, queue' = Where(queue, S), serial' = serial
      PROVE  Goal
  <2>1. DOMAIN queue' = S /\ \A i \in S : queue'[i] = queue[i]
    BY <1>2, WhereFacts
  <2> QED
    BY <1>0, <1>2, <2>1 DEF QueueShape
<1>3. ASSUME NEW line, line.cls \in {"sample", "audit"}, Enqueue(<<Row(line)>>)
      PROVE  Goal
  <2> DEFINE r == Row(line)
  <2>1. IsRow(r) /\ r.queued = r.since + skew
    BY <1>3, RowFacts
  <2>2. Enqueue(<<r>>)
    BY <1>3
  <2> HIDE DEF r
  <2>3. /\ QueueShape'
        /\ \A i \in DOMAIN queue : i \in DOMAIN queue' /\ queue'[i] = queue[i]
        /\ \A i \in DOMAIN queue' \ DOMAIN queue : queue'[i] = r
    BY <1>0, <2>1, <2>2, EnqueueOne
  <2> QED
    BY <2>1, <2>3
<1>4. CASE TakeSample
  <2>1. Enqueue(<<Row([n |-> made + 1, cls |-> "sample"])>>) \/ UNCHANGED table
    BY <1>4 DEF TakeSample, EnqueueLocal
  <2> HIDE DEF Goal
  <2> QED
    BY <1>1, <1>3, <2>1
<1>5. CASE WriteReceipt
  <2>1. Enqueue(<<Row([n |-> made + 1, cls |-> "audit"])>>) \/ UNCHANGED table
    BY <1>5 DEF WriteReceipt, EnqueueLocal
  <2> HIDE DEF Goal
  <2> QED
    BY <1>1, <1>3, <2>1
<1>6. CASE Ingest
  <2>1. CASE UNCHANGED table
    BY <1>1, <2>1
  <2>2. CASE Enqueue(Parsed(Oldest))
    <3>1. d.todo # {}
      BY <1>6 DEF Ingest
    <3>2. /\ QueueShape'
          /\ \A i \in DOMAIN queue : i \in DOMAIN queue' /\ queue'[i] = queue[i]
          /\ \A i \in DOMAIN queue' \ DOMAIN queue :
               \E k \in DOMAIN files[Oldest].lines :
                 /\ queue'[i] = Row(files[Oldest].lines[k])
                 /\ files[Oldest].lines[k].cls \in {"sample", "audit"}
      BY <2>2, <3>1, IngestFacts
    <3>3. \A i \in DOMAIN queue' \ DOMAIN queue : queue'[i].queued = queue'[i].since + skew
      BY <3>2, RowFacts
    <3> QED
      BY <3>2, <3>3
  <2> QED
    BY <1>6, <2>1, <2>2 DEF Ingest, Parsed
<1>7. CASE Evict
  <2>1. DOMAIN queue \ Victims \in SUBSET DOMAIN queue /\ serial' = serial
        /\ queue' = Where(queue, DOMAIN queue \ Victims)
    BY <1>7 DEF Evict
  <2> HIDE DEF Goal
  <2> QED
    BY <1>2, <2>1
<1>8. CASE Acknowledge
  <2>1. serial' = serial
        /\ queue' = Where(queue, {i \in DOMAIN queue : Id(queue[i]) \notin Ids(d.batch)})
    BY <1>8 DEF Acknowledge, Without
  <2> HIDE DEF Goal
  <2> QED
    BY <1>2, <2>1
<1> HIDE DEF Goal
<1>9. CASE Writing \/ Drain \/ Unlink \/ EndTick \/ Send \/ Serve \/ Lose \/ Restart \/ NewDay
           \/ SetClock
  BY <1>1, <1>9
     DEF Writing, OpenToWrite, FinishWrite, Drain, Unlink, EndTick, Send, Serve, Lose, Restart,
         NewDay, SetClock, table
<1> QED
  BY <1>4, <1>5, <1>6, <1>7, <1>8, <1>9 DEF Next, Tick

LEMMA SpoolStep ==
  ASSUME Shape, Next
  PROVE  SpoolShape'
<1>1. /\ files \in Seq(File) /\ opened \in [Writers -> Handle]
      /\ made \in Nat /\ locals \in 0..made /\ day \in Nat /\ skew \in Skews
  BY DEF Shape, SpoolShape
<1>2. CASE Writing
  <2> PICK w \in Writers : OpenToWrite(w) \/ FinishWrite(w)
    BY <1>2 DEF Writing
  <2>1. CASE OpenToWrite(w)
    <3>1. OpenSpool(NewLine) \in Handle
      BY OpenFacts DEF Shape
    <3>2. opened' \in [Writers -> Handle]
      BY <1>1, <2>1, <3>1 DEF OpenToWrite
    <3> QED
      BY <1>1, <2>1, <3>2 DEF OpenToWrite, SpoolShape, clock
  <2>2. CASE FinishWrite(w)
    <3>1. opened[w] \in Handle /\ opened' \in [Writers -> Handle]
      BY <1>1, <2>2, ClosedFacts DEF FinishWrite
    <3>2. Landed(opened[w]) \in Seq(File)
      BY <3>1, LandedFacts DEF Shape
    <3>3. files' \in Seq(File)
      BY <1>1, <2>2, <3>2 DEF FinishWrite
    <3> QED
      BY <1>1, <2>2, <3>1, <3>3 DEF FinishWrite, SpoolShape, clock
  <2> QED
    BY <2>1, <2>2
<1>3. CASE TakeSample
  BY <1>1, <1>3 DEF TakeSample, EnqueueLocal, SpoolShape, spool, clock
<1>4. CASE WriteReceipt
  BY <1>1, <1>4 DEF WriteReceipt, EnqueueLocal, SpoolShape, spool, clock
<1>5. CASE Drain
  <2>1. files' \in Seq(File)
    <3>1. CASE UNCHANGED files
      BY <1>1, <3>1
    <3>2. CASE files' = [i \in DOMAIN files |->
                       IF i \in Live THEN [files[i] EXCEPT !.at = "segment"] ELSE files[i]]
      <4>1. \A i \in DOMAIN files : [files[i] EXCEPT !.at = "segment"] \in File /\ files[i] \in File
        BY FileFacts DEF Shape, File
      <4>2. files' \in [1..Len(files) -> File] /\ Len(files) \in Nat
        BY <3>2, <4>1, FileFacts DEF Shape
      <4> QED
        BY <4>2, SeqDef
    <3> QED
      BY <1>5, <3>1, <3>2 DEF Drain
  <2> QED
    BY <1>1, <1>5, <2>1 DEF Drain, SpoolShape, clock
<1>6. CASE Unlink
  <2>1. files' \in Seq(File)
    <3>1. CASE UNCHANGED files
      BY <1>1, <3>1
    <3>2. CASE files' = [files EXCEPT ![Oldest] = [lines |-> <<>>, at |-> "gone"]]
      <4> DEFINE gone == [lines |-> <<>>, at |-> "gone"]
      <4>1. gone \in File
        BY EmptySeq DEF File
      <4>2. Oldest \in 1..Len(files)
        <5>1. d.todo # {}
          BY <1>6 DEF Unlink, Shape, TickShape
        <5> QED
          BY <5>1, TodoFacts, FileFacts DEF Shape
      <4>3. files' = [files EXCEPT ![Oldest] = gone]
        BY <3>2
      <4> HIDE DEF gone
      <4> QED
        BY <1>1, <4>1, <4>2, <4>3, ExceptSeq
    <3> QED
      BY <1>6, <3>1, <3>2 DEF Unlink
  <2> QED
    BY <1>1, <1>6, <2>1 DEF Unlink, SpoolShape, clock
<1>7. CASE NewDay
  BY <1>1, <1>7 DEF NewDay, SpoolShape, spool
<1>8. CASE SetClock
  BY <1>1, <1>8 DEF SetClock, SpoolShape, spool
<1>9. CASE Ingest \/ Evict \/ EndTick \/ Acknowledge \/ Send \/ Serve \/ Lose \/ Restart
  <2>1. UNCHANGED <<spool, made, locals, clock>>
    BY <1>9 DEF Ingest, Evict, EndTick, Acknowledge, Send, Serve, Lose, Restart
  <2> QED
    BY <1>1, <2>1 DEF SpoolShape, spool, clock
<1> QED
  BY <1>2, <1>3, <1>4, <1>5, <1>6, <1>7, <1>8, <1>9 DEF Next, Tick

LEMMA TickStep ==
  ASSUME Shape, Next
  PROVE  TickShape'
<1>1. /\ Tidy(d) /\ d.boot \in Nat
      /\ d.pc \in {"idle", "drain", "ingested", "receipt", "flush", "sent", "answered"}
      /\ d.todo \subseteq Segments
      /\ d.pc = "ingested" => d.todo # {}
  BY DEF Shape, TickShape
<1>2. SpoolShape
  BY DEF Shape
<1>3. ASSUME UNCHANGED d, Segments \subseteq Segments'
      PROVE  TickShape'
  BY <1>1, <1>3 DEF TickShape, Tidy
<1>4. ASSUME UNCHANGED <<d, files>>
      PROVE  TickShape'
  BY <1>3, <1>4 DEF Segments
<1>5. ASSUME NEW x \in {"drain", "ingested", "receipt", "flush", "sent", "answered"},
             d' = [d EXCEPT !.pc = x], UNCHANGED files, x = "ingested" => d.todo # {}
      PROVE  TickShape'
  <2>1. Tidy(d') /\ d'.pc = x /\ d'.todo = d.todo /\ d'.boot = d.boot
    BY <1>1, <1>5, TickFields DEF SetPc
  <2>2. Segments' = Segments
    BY <1>5 DEF Segments
  <2> QED
    BY <1>1, <1>5, <2>1, <2>2 DEF TickShape, Tidy
<1>6. ASSUME NEW x \in {"drain", "ingested", "receipt", "flush", "sent", "answered"}, NEW y,
             d' = [d EXCEPT !.pc = x, !.batch = y], UNCHANGED files, x # "ingested"
      PROVE  TickShape'
  <2>a. d' = SetBatch(x, y)
    BY <1>6 DEF SetBatch
  <2>1. Tidy(d') /\ d'.pc = x /\ d'.todo = d.todo /\ d'.boot = d.boot
    BY <1>1, <2>a, TickFields
  <2>2. Segments' = Segments
    BY <1>6 DEF Segments
  <2> QED
    BY <1>1, <1>6, <2>1, <2>2 DEF TickShape, Tidy
<1>7. ASSUME NEW y, d' = [d EXCEPT !.pc = "drain", !.todo = y], y \subseteq Segments'
      PROVE  TickShape'
  <2>a. d' = SetTodo("drain", y)
    BY <1>7 DEF SetTodo
  <2>1. Tidy(d') /\ d'.pc = "drain" /\ d'.todo = y /\ d'.boot = d.boot
    BY <1>1, <2>a, TickFields
  <2> QED
    BY <1>1, <1>7, <2>1 DEF TickShape, Tidy
<1>8. CASE Writing
  <2> PICK w \in Writers : OpenToWrite(w) \/ FinishWrite(w)
    BY <1>8 DEF Writing
  <2>1. CASE OpenToWrite(w)
    BY <1>4, <2>1 DEF OpenToWrite
  <2>2. CASE FinishWrite(w)
    <3>1. opened[w] \in Handle /\ UNCHANGED d /\ files' \in {files, Landed(opened[w])}
      BY <1>2, <2>2 DEF FinishWrite, SpoolShape
    <3>2. CASE UNCHANGED files
      BY <1>4, <3>1, <3>2
    <3>3. CASE files' = Landed(opened[w])
      <4>1. Segments \subseteq Segments'
        BY <1>2, <3>1, <3>3, LandedFacts DEF Segments
      <4> QED
        BY <1>3, <3>1, <4>1
    <3> QED
      BY <3>1, <3>2, <3>3
  <2> QED
    BY <2>1, <2>2
<1>9. CASE TakeSample \/ NewDay \/ SetClock
  BY <1>4, <1>9 DEF TakeSample, NewDay, SetClock, spool
<1>10. CASE Drain
  <2>1. DOMAIN files' = DOMAIN files
    BY <1>10 DEF Drain
  <2>2. {i \in DOMAIN files : files'[i].at = "segment"} \subseteq Segments'
    BY <2>1 DEF Segments
  <2> QED
    BY <1>7, <1>10, <2>2 DEF Drain
<1>11. CASE Ingest
  <2>1. UNCHANGED files /\ d.todo # {}
    BY <1>11 DEF Ingest, spool
  <2>2. CASE d' = AfterFailure
    <3>1. d' = SetTodo("drain", {})
      BY <2>2 DEF AfterFailure, SetTodo
    <3> QED
      BY <1>1, <3>1, TickFields DEF TickShape
  <2>3. CASE d' = [d EXCEPT !.pc = "ingested"]
    BY <1>5, <2>1, <2>3
  <2> QED
    BY <1>11, <2>2, <2>3 DEF Ingest
<1>12. CASE Unlink
  <2>1. d.todo # {}
    BY <1>1, <1>12 DEF Unlink
  <2>2. Oldest \in DOMAIN files
    BY <2>1, TodoFacts
  <2>3. \A i \in DOMAIN files \ {Oldest} : i \in DOMAIN files' /\ files'[i] = files[i]
    BY <1>12 DEF Unlink
  <2>4. d.todo \ {Oldest} \subseteq Segments'
    BY <1>1, <2>3 DEF Segments
  <2> QED
    BY <1>7, <1>12, <2>4 DEF Unlink
<1>13. CASE Evict
  <2>1. /\ UNCHANGED files
        /\ d' = [d EXCEPT !.pc = "flush"] \/ d' = [d EXCEPT !.pc = "receipt"]
    BY <1>13 DEF Evict, spool
  <2> QED
    BY <1>5, <2>1
<1>14. CASE WriteReceipt
  BY <1>5, <1>14 DEF WriteReceipt, spool
<1>15. CASE Acknowledge
  BY <1>6, <1>15 DEF Acknowledge, spool
<1>16. CASE Send
  BY <1>6, <1>16 DEF Send, spool
<1>17. CASE Serve
  <2>1. UNCHANGED files /\ \E y : d' = [d EXCEPT !.pc = "answered", !.batch = y]
    BY <1>17 DEF Serve, spool
  <2> QED
    BY <1>6, <2>1
<1>18. CASE EndTick \/ Lose
  <2>1. d' = Idle
    BY <1>18 DEF EndTick, Lose
  <2> QED
    BY <1>1, <2>1, TickFields DEF TickShape, Tidy
<1>19. CASE Restart
  <2>1. d' = Reborn
    BY <1>19 DEF Restart, Reborn
  <2> QED
    BY <1>1, <2>1, TickFields DEF TickShape, Tidy
<1> QED
  BY <1>8, <1>9, <1>10, <1>11, <1>12, <1>13, <1>14, <1>15, <1>16, <1>17, <1>18, <1>19
     DEF Next, Tick

LEMMA ShapeInit == Init => Shape
<1> SUFFICES ASSUME Init
             PROVE  Shape
  OBVIOUS
<1>1. SpoolShape
  <2>1. files \in Seq(File)
    BY EmptySeq DEF Init
  <2> QED
    BY <2>1, ClosedFacts, TelemetryAssumption DEF Init, SpoolShape
<1>2. QueueShape
  BY NoRowsFacts DEF Init, QueueShape
<1>3. TickShape
  BY DEF Init, TickShape, Tidy
<1> QED
  BY <1>1, <1>2, <1>3 DEF Shape

LEMMA ShapeNext == Shape /\ [Next]_vars => Shape'
<1> SUFFICES ASSUME Shape, [Next]_vars
             PROVE  Shape'
  OBVIOUS
<1>1. CASE Next
  BY <1>1, QueueStep, SpoolStep, TickStep DEF Shape
<1>2. CASE UNCHANGED vars
  BY <1>2
     DEF vars, spool, clock, table, server, Shape, SpoolShape, QueueShape, TickShape, Tidy, Segments
<1> QED
  BY <1>1, <1>2

-----------------------------------------------------------------------------
(* Eviction.                                                                *)

LEMMA CapFacts == Cap \in Nat /\ Cap > 0 /\ Target \in Nat /\ Target < Cap
<1>1. Cap \in Nat /\ Cap > 0
  BY TelemetryAssumption
<1>2. Target \in Int /\ 100 * Target <= Cap * 95 /\ Target >= 0
  BY <1>1 DEF Target
<1> QED
  BY <1>1, <1>2

\* Of a set of which k may go, Limit leaves at most the others, however many of
\* them have gone already.
LEMMA Left ==
  ASSUME NEW S \in SUBSET Nat, IsFiniteSet(S), NEW T \in SUBSET S, NEW k \in Nat,
         k <= Cardinality(S)
  PROVE  /\ IsFiniteSet(T \ Limit(T, k)) /\ Cardinality(T \ Limit(T, k)) \in Nat
         /\ Cardinality(T \ Limit(T, k)) <= Cardinality(S) - k
<1>1. /\ IsFiniteSet(T) /\ Cardinality(T) <= Cardinality(S)
      /\ Cardinality(S) \in Nat /\ Cardinality(T) \in Nat
  BY FS_Subset, FS_CardinalityType
<1>2. /\ Limit(T, k) \subseteq T
      /\ Limit(T, k) = T \/ Cardinality(Limit(T, k)) >= k
  BY <1>1, LimitFacts
<1>3. /\ IsFiniteSet(Limit(T, k)) /\ Cardinality(Limit(T, k)) \in Nat
      /\ IsFiniteSet(T \ Limit(T, k)) /\ Cardinality(T \ Limit(T, k)) \in Nat
  BY <1>1, <1>2, FS_Subset, FS_CardinalityType
<1>4. CASE Limit(T, k) = T
  <2>1. T \ Limit(T, k) = {}
    BY <1>4
  <2> QED
    BY <1>1, <1>3, <2>1, FS_EmptySet
<1>5. CASE Cardinality(Limit(T, k)) >= k
  <2>1. T \cap Limit(T, k) = Limit(T, k)
    BY <1>2
  <2>2. Cardinality(T \ Limit(T, k)) = Cardinality(T) - Cardinality(T \cap Limit(T, k))
    BY <1>1, FS_Difference
  <2> QED
    BY <1>1, <1>3, <1>5, <2>1, <2>2
<1> QED
  BY <1>2, <1>4, <1>5

OfClass(c) == {i \in DOMAIN queue : queue[i].cls = c}
LeftOf(c) == {i \in DOMAIN queue \ TooOld : queue[i].cls = c}

LEMMA ClassFacts ==
  ASSUME QueueShape
  PROVE  /\ DOMAIN queue \in SUBSET Nat /\ IsFiniteSet(DOMAIN queue) /\ Size(queue) \in Nat
         /\ \A c \in {"sample", "audit"} :
              /\ OfClass(c) \in SUBSET Nat /\ IsFiniteSet(OfClass(c))
              /\ Count(queue, c) = Cardinality(OfClass(c)) /\ Count(queue, c) \in Nat
              /\ LeftOf(c) \in SUBSET OfClass(c)
              /\ \A k : First(c, k) = Limit(LeftOf(c), k)
         /\ Size(queue) = Count(queue, "sample") + Count(queue, "audit")
         /\ DOMAIN queue = OfClass("sample") \cup OfClass("audit")
<1>1. DOMAIN queue \in SUBSET Nat /\ IsFiniteSet(DOMAIN queue) /\ Size(queue) \in Nat
  <2>1. DOMAIN queue \in SUBSET (1..serial) /\ serial \in Nat
    BY DEF QueueShape
  <2>2. IsFiniteSet(1..serial)
    BY <2>1, FS_Interval
  <2>3. IsFiniteSet(DOMAIN queue)
    BY <2>1, <2>2, FS_Subset
  <2> QED
    BY <2>1, <2>3, FS_CardinalityType DEF Size
<1>2. ASSUME NEW c \in {"sample", "audit"}
      PROVE  /\ OfClass(c) \in SUBSET Nat /\ IsFiniteSet(OfClass(c))
             /\ Count(queue, c) = Cardinality(OfClass(c)) /\ Count(queue, c) \in Nat
             /\ LeftOf(c) \in SUBSET OfClass(c)
             /\ \A k : First(c, k) = Limit(LeftOf(c), k)
  <2>1. OfClass(c) \in SUBSET DOMAIN queue /\ LeftOf(c) \in SUBSET OfClass(c)
    BY DEF OfClass, LeftOf
  <2>2. IsFiniteSet(OfClass(c)) /\ Cardinality(OfClass(c)) \in Nat
    BY <1>1, <2>1, FS_Subset, FS_CardinalityType
  <2>3. Count(queue, c) = Cardinality(OfClass(c))
    BY DEF Count, OfClass
  <2>4. \A k : First(c, k) = Limit(LeftOf(c), k)
    BY DEF First, LeftOf
  <2> QED
    BY <1>1, <2>1, <2>2, <2>3, <2>4
<1>3. DOMAIN queue = OfClass("sample") \cup OfClass("audit")
  BY DEF OfClass, QueueShape, IsRow
<1>4. OfClass("sample") \cap OfClass("audit") = {}
  BY DEF OfClass
<1>5. Size(queue) = Count(queue, "sample") + Count(queue, "audit")
  <2>1. Cardinality(OfClass("sample") \cup OfClass("audit"))
          = Cardinality(OfClass("sample")) + Cardinality(OfClass("audit"))
              - Cardinality(OfClass("sample") \cap OfClass("audit"))
    BY <1>2, FS_Union
  <2>2. Cardinality(OfClass("sample") \cap OfClass("audit")) = 0
    BY <1>4, FS_EmptySet
  <2> QED
    BY <1>2, <1>3, <2>1, <2>2 DEF Size
<1> QED
  BY <1>1, <1>2, <1>3, <1>5

\* The plan: no more of a class than there is, and Target rows are left.
LEMMA PlanFacts ==
  ASSUME QueueShape
  PROVE  /\ OverCount \in Nat /\ FromSamples \in Nat /\ FromAudits \in Nat
         /\ FromSamples <= Count(queue, "sample") /\ FromAudits <= Count(queue, "audit")
         /\ FromSamples + FromAudits = OverCount
         /\ OverCount = 0 => Size(queue) <= Cap
         /\ OverCount # 0 => Size(queue) - OverCount = Target
         /\ FromAudits # 0 => FromSamples = Count(queue, "sample")
<1>1. /\ Size(queue) \in Nat /\ Count(queue, "sample") \in Nat /\ Count(queue, "audit") \in Nat
      /\ Size(queue) = Count(queue, "sample") + Count(queue, "audit")
  BY ClassFacts
<1>2. /\ OverCount \in Nat /\ OverCount <= Size(queue)
      /\ OverCount = 0 => Size(queue) <= Cap
      /\ OverCount # 0 => Size(queue) - OverCount = Target
  BY <1>1, CapFacts DEF OverCount
<1>3. /\ FromSamples \in Nat /\ FromSamples <= Count(queue, "sample") /\ FromSamples <= OverCount
      /\ FromSamples = Count(queue, "sample") \/ FromSamples = OverCount
  BY <1>1, <1>2 DEF FromSamples, Least
<1>4. FromAudits = OverCount - FromSamples
  BY <1>1, <1>2, <1>3 DEF FromAudits, Least
<1> QED
  BY <1>1, <1>2, <1>3, <1>4

LEMMA EvictFacts ==
  ASSUME Shape, Evict
  PROVE  /\ DOMAIN queue' = DOMAIN queue \ Victims
         /\ \A i \in DOMAIN queue' : queue'[i] = queue[i]
         /\ Victims \subseteq DOMAIN queue
         /\ Size(queue') \in Nat /\ Size(queue') <= Cap
         /\ Victims # {} => Size(queue') < Cap
<1>1. QueueShape /\ queue' = Where(queue, DOMAIN queue \ Victims)
  BY DEF Shape, Evict
<1>2. DOMAIN queue' = DOMAIN queue \ Victims /\ \A i \in DOMAIN queue' : queue'[i] = queue[i]
  BY <1>1, WhereFacts
<1> DEFINE Sl == LeftOf("sample") \ Limit(LeftOf("sample"), FromSamples)
           Al == LeftOf("audit") \ Limit(LeftOf("audit"), FromAudits)
<1>3. /\ IsFiniteSet(Sl) /\ Cardinality(Sl) \in Nat
      /\ Cardinality(Sl) <= Count(queue, "sample") - FromSamples
  <2>1. /\ OfClass("sample") \in SUBSET Nat /\ IsFiniteSet(OfClass("sample"))
        /\ LeftOf("sample") \in SUBSET OfClass("sample")
        /\ Count(queue, "sample") = Cardinality(OfClass("sample"))
    BY <1>1, ClassFacts
  <2> QED
    BY <1>1, <2>1, PlanFacts, Left
<1>4. /\ IsFiniteSet(Al) /\ Cardinality(Al) \in Nat
      /\ Cardinality(Al) <= Count(queue, "audit") - FromAudits
  <2>1. /\ OfClass("audit") \in SUBSET Nat /\ IsFiniteSet(OfClass("audit"))
        /\ LeftOf("audit") \in SUBSET OfClass("audit")
        /\ Count(queue, "audit") = Cardinality(OfClass("audit"))
    BY <1>1, ClassFacts
  <2> QED
    BY <1>1, <2>1, PlanFacts, Left
<1>5. Victims = TooOld \cup Limit(LeftOf("sample"), FromSamples)
                       \cup Limit(LeftOf("audit"), FromAudits)
  BY <1>1, ClassFacts DEF Victims
<1>6. DOMAIN queue' \in SUBSET (Sl \cup Al)
  BY <1>1, <1>2, <1>5, ClassFacts DEF LeftOf, OfClass
<1>7. Victims \subseteq DOMAIN queue
  <2>1. TooOld \subseteq DOMAIN queue
    BY DEF TooOld
  <2>2. \A c \in {"sample", "audit"} : LeftOf(c) \subseteq DOMAIN queue
    BY DEF LeftOf
  <2>3. \A S, k : Limit(S, k) \subseteq S
    BY DEF Limit
  <2> QED
    BY <1>5, <2>1, <2>2, <2>3
<1> HIDE DEF Sl, Al
<1>8. /\ IsFiniteSet(Sl \cup Al) /\ Cardinality(Sl \cup Al) \in Nat
      /\ Cardinality(Sl \cup Al) <= Cardinality(Sl) + Cardinality(Al)
  <2>1. /\ IsFiniteSet(Sl \cup Al) /\ Cardinality(Sl \cup Al) \in Nat
        /\ Cardinality(Sl \cup Al) = Cardinality(Sl) + Cardinality(Al) - Cardinality(Sl \cap Al)
    BY <1>3, <1>4, FS_Union, FS_CardinalityType
  <2>2. Cardinality(Sl \cap Al) \in Nat
    BY <1>3, <1>4, FS_Intersection, FS_CardinalityType
  <2> QED
    BY <1>3, <1>4, <2>1, <2>2
<1>9. Size(queue') \in Nat /\ Size(queue') <= Cardinality(Sl \cup Al)
  BY <1>6, <1>8, FS_Subset, FS_CardinalityType DEF Size
<1>10. Size(queue') <= Size(queue) - OverCount
  <2>1. /\ OverCount \in Nat /\ FromSamples \in Nat /\ FromAudits \in Nat
        /\ FromSamples + FromAudits = OverCount
    BY <1>1, PlanFacts
  <2>2. /\ Size(queue) \in Nat /\ Count(queue, "sample") \in Nat /\ Count(queue, "audit") \in Nat
        /\ Size(queue) = Count(queue, "sample") + Count(queue, "audit")
    BY <1>1, ClassFacts
  <2> QED
    BY <1>3, <1>4, <1>8, <1>9, <2>1, <2>2
<1>11. CASE OverCount # 0
  <2>1. Size(queue) - OverCount = Target /\ Target \in Nat /\ Target < Cap /\ Cap \in Nat
    BY <1>1, <1>11, PlanFacts, CapFacts
  <2>2. Size(queue') < Cap
    BY <1>9, <1>10, <2>1
  <2> QED
    BY <1>2, <1>7, <1>9, <2>1, <2>2
<1>12. CASE OverCount = 0
  <2>1. Size(queue) <= Cap /\ Size(queue) \in Nat
    BY <1>1, <1>12, PlanFacts, ClassFacts
  <2>2. ASSUME Victims # {}
        PROVE  Size(queue') < Size(queue)
    <3>1. DOMAIN queue' \in SUBSET DOMAIN queue /\ DOMAIN queue # DOMAIN queue'
      BY <1>2, <1>7, <2>2
    <3>2. Size(queue') <= Size(queue) /\ Size(queue) # Size(queue')
      BY <1>1, <3>1, ClassFacts, FS_Subset DEF Size
    <3> QED
      BY <1>9, <2>1, <3>2
  <2> QED
    BY <1>2, <1>7, <1>9, <1>10, <1>12, <2>1, <2>2, CapFacts
<1> QED
  BY <1>11, <1>12

\* The tick holds back no receipt: what is left to write one for leaves room for it.
LEMMA RoomyNext == Shape /\ Roomy /\ [Next]_vars => Roomy'
<1> SUFFICES ASSUME Shape, Roomy, Next, d'.pc = "receipt"
             PROVE  Size(queue') < Cap
  <2>1. CASE UNCHANGED vars
    BY <2>1 DEF vars, table, Roomy, Size
  <2> QED
    BY <2>1 DEF Roomy
<1>1. Tidy(d)
  BY DEF Shape, TickShape
<1>2. ASSUME UNCHANGED <<d, table>>
      PROVE  Size(queue') < Cap
  BY <1>2 DEF Roomy, table, Size
<1>3. CASE Evict
  <2>1. CASE Victims = {}
    <3>1. d' = SetPc("flush")
      BY <1>3, <2>1 DEF Evict, SetPc
    <3> QED
      BY <1>1, <3>1, TickFields
  <2>2. CASE Victims # {}
    BY <1>3, <2>2, EvictFacts
  <2> QED
    BY <2>1, <2>2
<1>4. CASE Writing \/ NewDay \/ SetClock
  BY <1>2, <1>4 DEF Writing, OpenToWrite, FinishWrite, NewDay, SetClock
<1>5. CASE TakeSample
  BY <1>5 DEF TakeSample
<1>6. CASE Drain \/ Unlink
  <2>1. \E y : d' = SetTodo("drain", y)
    BY <1>6 DEF Drain, Unlink, SetTodo
  <2> QED
    BY <1>1, <2>1, TickFields
<1>7. CASE Ingest
  <2>1. d' = SetPc("ingested") \/ d' = SetTodo("drain", {})
    BY <1>7 DEF Ingest, AfterFailure, SetPc, SetTodo
  <2> QED
    BY <1>1, <2>1, TickFields
<1>8. CASE WriteReceipt
  <2>1. d' = SetPc("flush")
    BY <1>8 DEF WriteReceipt, SetPc
  <2> QED
    BY <1>1, <2>1, TickFields
<1>9. CASE Acknowledge \/ Send \/ Serve
  <2>1. \E x \in {"flush", "sent", "answered"} : \E y : d' = SetBatch(x, y)
    BY <1>9 DEF Acknowledge, Send, Serve, SetBatch
  <2> QED
    BY <1>1, <2>1, TickFields
<1>10. CASE EndTick \/ Lose
  BY <1>1, <1>10, TickFields DEF EndTick, Lose
<1>11. CASE Restart
  <2>1. d' = Reborn
    BY <1>11 DEF Restart, Reborn
  <2> QED
    BY <1>1, <2>1, TickFields
<1> QED
  BY <1>3, <1>4, <1>5, <1>6, <1>7, <1>8, <1>9, <1>10, <1>11 DEF Next, Tick

\* Evicting makes room for its own receipt.
LEMMA SettlesStep ==
  ASSUME Shape, Roomy, Evict \/ WriteReceipt
  PROVE  Size(queue') <= Cap
<1>1. CASE Evict
  BY <1>1, EvictFacts
<1>2. CASE WriteReceipt
  <2> DEFINE line == [n |-> made + 1, cls |-> "audit"]
             r == Row(line)
  <2>0. CASE UNCHANGED table
    <3>1. Size(queue') = Size(queue) /\ Size(queue) < Cap /\ Size(queue) \in Nat
      BY <1>2, <2>0, ClassFacts DEF WriteReceipt, Roomy, table, Size, Shape
    <3> QED
      BY <3>1, CapFacts
  <2>z. SUFFICES ASSUME Enqueue(<<r>>) PROVE Size(queue') <= Cap
    BY <1>2, <2>0 DEF WriteReceipt, EnqueueLocal
  <2>1. QueueShape /\ IsRow(r) /\ Enqueue(<<r>>) /\ d.pc = "receipt"
    BY <1>2, <2>z, RowFacts DEF WriteReceipt, Shape
  <2> HIDE DEF r
  <2>2. QueueShape' /\ \A i \in DOMAIN queue' \ DOMAIN queue : i = serial + 1
    BY <2>1, EnqueueOne
  <2>3. DOMAIN queue' \in SUBSET (DOMAIN queue \cup {serial + 1})
    BY <2>2
  <2>4. IsFiniteSet(DOMAIN queue) /\ Size(queue) \in Nat /\ Size(queue) < Cap
    BY <2>1, ClassFacts DEF Roomy
  <2>5. /\ IsFiniteSet(DOMAIN queue \cup {serial + 1})
        /\ Cardinality(DOMAIN queue \cup {serial + 1}) <= Size(queue) + 1
        /\ Cardinality(DOMAIN queue \cup {serial + 1}) \in Nat
    <3> DEFINE Q == DOMAIN queue
               one == serial + 1
    <3>1. IsFiniteSet(Q) /\ Cardinality(Q) = Size(queue)
      BY <2>4 DEF Size
    <3> HIDE DEF Q, one
    <3>2. /\ IsFiniteSet(Q \cup {one}) /\ Cardinality(Q \cup {one}) \in Nat
          /\ Cardinality(Q \cup {one}) = IF one \in Q THEN Cardinality(Q) ELSE Cardinality(Q) + 1
      BY <3>1, FS_AddElement, FS_CardinalityType
    <3>3. Cardinality(Q \cup {one}) <= Size(queue) + 1
      BY <2>4, <3>1, <3>2
    <3> QED
      BY <3>2, <3>3 DEF Q, one
  <2>6. Size(queue') <= Size(queue) + 1 /\ Size(queue') \in Nat
    BY <2>3, <2>4, <2>5, FS_Subset, FS_CardinalityType DEF Size
  <2> QED
    BY <2>4, <2>6, CapFacts
<1> QED
  BY <1>1, <1>2

LEMMA HonestNext ==
  ASSUME \A s \in Skews : s >= 0
  PROVE  Shape /\ Honest /\ [Next]_vars => Honest'
<1> SUFFICES ASSUME Shape, Honest, [Next]_vars
             PROVE  Honest'
  OBVIOUS
<1>1. CASE Next
  <2>1. QueueShape' /\ skew \in Int /\ skew >= 0
    BY <1>1, QueueStep, TelemetryAssumption DEF Shape, SpoolShape
  <2>2. ASSUME NEW i \in DOMAIN queue'
        PROVE  queue'[i].queued >= queue'[i].since
    <3>1. CASE i \in DOMAIN queue /\ queue'[i] = queue[i]
      BY <3>1 DEF Honest
    <3>2. CASE queue'[i].queued = queue'[i].since + skew
      BY <2>1, <3>2 DEF QueueShape, IsRow
    <3> QED
      BY <1>1, <3>1, <3>2, QueueStep
  <2> QED
    BY <2>2 DEF Honest
<1>2. CASE UNCHANGED vars
  BY <1>2 DEF vars, table, Honest
<1> QED
  BY <1>1, <1>2

\* A record is evicted for its age, or when the plan takes every sample.
LEMMA AuditsStep ==
  ASSUME Shape, Honest, Evict,
         NEW i \in DOMAIN queue, queue[i].cls = "audit", Id(queue[i]) \notin Ids(queue')
  PROVE  day - queue[i].since > AuditAge \/ Count(queue', "sample") = 0
<1>1. /\ DOMAIN queue' = DOMAIN queue \ Victims
      /\ \A j \in DOMAIN queue' : queue'[j] = queue[j]
  BY EvictFacts
<1>2. i \in Victims
  BY <1>1 DEF Ids
<1>3. CASE i \in TooOld
  <2>1. queue[i].queued < day - AuditAge
    BY <1>3 DEF TooOld, Age
  <2>2. queue[i].queued >= queue[i].since /\ queue[i].queued \in Int /\ queue[i].since \in Nat
    BY DEF Honest, Shape, QueueShape, IsRow
  <2>3. day \in Nat /\ AuditAge \in Nat
    BY TelemetryAssumption DEF Shape, SpoolShape
  <2> QED
    BY <2>1, <2>2, <2>3
<1>4. CASE i \notin TooOld
  <2> QueueShape
    BY DEF Shape
  <2>1. i \in First("audit", FromAudits)
    <3>1. \A k : First("sample", k) \subseteq OfClass("sample")
      BY DEF First, Limit, OfClass
    <3>2. i \notin OfClass("sample")
      BY DEF OfClass
    <3> QED
      BY <1>2, <1>4, <3>1, <3>2 DEF Victims
  <2>2. FromAudits # 0
    <3>1. /\ LeftOf("audit") \in SUBSET Nat /\ IsFiniteSet(LeftOf("audit"))
          /\ First("audit", FromAudits) = Limit(LeftOf("audit"), FromAudits)
          /\ FromAudits \in Nat
      <4>1. /\ OfClass("audit") \in SUBSET Nat /\ IsFiniteSet(OfClass("audit"))
            /\ LeftOf("audit") \in SUBSET OfClass("audit")
        BY ClassFacts
      <4> QED
        BY <4>1, ClassFacts, PlanFacts, FS_Subset
    <3> QED
      BY <2>1, <3>1, LimitFacts
  <2>3. First("sample", FromSamples) = LeftOf("sample")
    <3>1. FromSamples = Count(queue, "sample") /\ FromSamples \in Nat
      BY <2>2, PlanFacts
    <3>2. /\ OfClass("sample") \in SUBSET Nat /\ IsFiniteSet(OfClass("sample"))
          /\ LeftOf("sample") \in SUBSET OfClass("sample")
          /\ Cardinality(OfClass("sample")) = FromSamples
          /\ First("sample", FromSamples) = Limit(LeftOf("sample"), FromSamples)
      BY <3>1, ClassFacts
    <3>3. /\ LeftOf("sample") \in SUBSET Nat /\ IsFiniteSet(LeftOf("sample"))
          /\ Cardinality(LeftOf("sample")) <= FromSamples
      BY <3>2, FS_Subset
    <3> QED
      BY <3>1, <3>2, <3>3, LimitFacts
  <2>4. {j \in DOMAIN queue' : queue'[j].cls = "sample"} = {}
    <3> SUFFICES ASSUME NEW j \in DOMAIN queue', queue'[j].cls = "sample"
                 PROVE  FALSE
      OBVIOUS
    <3>1. j \in DOMAIN queue /\ j \notin Victims /\ queue[j].cls = "sample"
      BY <1>1
    <3>2. j \in LeftOf("sample")
      BY <3>1 DEF LeftOf, Victims
    <3> QED
      BY <2>3, <3>1, <3>2 DEF Victims
  <2> QED
    BY <2>4, FS_EmptySet DEF Count
<1> QED
  BY <1>3, <1>4

\* Types.  There is no assumption on writers or clocks: a slow writer, and a second
\* one, may lose a line but not make the tables ill formed.
THEOREM TypesHold == Spec => []Shape
<1>1. Init => Shape
  BY ShapeInit
<1>2. Shape /\ [Next]_vars => Shape'
  BY ShapeNext
<1> QED
  BY <1>1, <1>2, PTL DEF Spec

\* QueuePolicy.swift:33-40: the queue is within its cap after the eviction and its
\* receipt, for every cap, so that the next tick evicts nothing by count.
THEOREM Settled == Spec => EvictionSettles
<1>1. Init => Shape /\ Roomy
  BY ShapeInit DEF Init, Roomy
<1>2. Shape /\ Roomy /\ [Next]_vars => (Shape /\ Roomy)'
  BY ShapeNext, RoomyNext
<1>3. Shape /\ Roomy /\ [Next]_vars
        => [(Evict \/ WriteReceipt) /\ d'.pc = "flush" => Size(queue') <= Cap]_vars
  BY SettlesStep
<1> QED
  BY <1>1, <1>2, <1>3, PTL DEF Spec, EvictionSettles

\* Eviction takes no more than it must and is then done, and an enforcement record
\* goes only when it has waited its retention out or no sample is left
\* (QueuePolicy.swift:13-20, 33-40); on a Mac whose clock is never behind.
THEOREM RightlyEvicted ==
  ASSUME \A s \in Skews : s >= 0
  PROVE  Spec => EvictsRightly
<1> DEFINE I == Shape /\ Honest
<1>1. Init => I
  BY ShapeInit, NoRowsFacts DEF Init, Honest
<1>2. I /\ [Next]_vars => I'
  BY ShapeNext, HonestNext
<1>3. I /\ [Next]_vars =>
        [Evict => \A i \in DOMAIN queue :
           queue[i].cls = "audit" /\ Id(queue[i]) \notin Ids(queue') =>
             day - queue[i].since > AuditAge \/ Count(queue', "sample") = 0]_vars
  BY AuditsStep
<1>4. Spec => AuditsLast
  BY <1>1, <1>2, <1>3, PTL DEF Spec, AuditsLast
<1> QED
  BY <1>4, Settled DEF EvictsRightly

-----------------------------------------------------------------------------
(* One writer: what a line's landing does.                                  *)

\* f is where the line numbered n has landed.
Written(f, n) ==
  /\ f \in DOMAIN files' /\ files'[f].at \in {"live", "segment"} /\ files'[f].lines # <<>>
  /\ DOMAIN files \subseteq DOMAIN files'
  /\ \A i \in DOMAIN files' \ {f} : i \in DOMAIN files /\ files'[i] = files[i]
  /\ f \in DOMAIN files =>
       /\ files'[f].at = files[f].at
       /\ {files'[f].lines[k].n : k \in DOMAIN files'[f].lines} = NumbersIn(f) \cup {n}
  /\ f \notin DOMAIN files =>
       /\ Live = {} /\ files'[f].at = "live"
       /\ {files'[f].lines[k].n : k \in DOMAIN files'[f].lines} = {n}
  /\ \A j, k \in DOMAIN files'[f].lines : files'[f].lines[j].n = files'[f].lines[k].n => j = k

LEMMA WriteFacts ==
  ASSUME OneWriter, Shape, Spooled, InHand, NEW w \in Writers, FinishWrite(w),
         files' = Landed(opened[w])
  PROVE  /\ \A v \in Writers : opened'[v] = Closed
         /\ \E f : /\ Written(f, opened[w].line.n)
                   /\ f = opened[w].file \/ f \notin DOMAIN files
<1> DEFINE h == opened[w]
<1>1. /\ h \in Handle /\ h # Closed /\ files' = Landed(h)
      /\ opened' = [opened EXCEPT ![w] = Closed] /\ opened \in [Writers -> Handle]
  BY DEF FinishWrite, Shape, SpoolShape
<1>2. \A v \in Writers : opened'[v] = Closed
  BY <1>1 DEF OneWriter
<1>3. /\ h.line.n \in Events
      /\ \A i \in DOMAIN files : \A n \in NumbersIn(i) : n < h.line.n
      /\ h.file = 0 => Live = {}
      /\ h.file # 0 => h.file \in Live \cup Segments /\ h.end = Len(files[h.file].lines)
  BY <1>1 DEF InHand
<1>4. h.line \in Line /\ h.line.n \in Nat /\ files \in Seq(File)
  BY <1>1 DEF Handle, Line, Shape, SpoolShape
<1> HIDE DEF h
<1>5. CASE h.file = 0
  <2> DEFINE s == <<h.line>>
             new == [lines |-> s, at |-> "live"]
             f == Len(files) + 1
  <2>1. s \in Seq(Line) /\ Len(s) = 1 /\ s[1] = h.line /\ s # <<>>
    BY <1>4
  <2>2. DOMAIN s = 1..1
    BY <2>1, LenProperties
  <2>3. files' = Append(files, new)
    BY <1>1, <1>3, <1>5 DEF Landed
  <2> HIDE DEF s
  <2>4. new \in File /\ new.lines = s /\ new.at = "live"
    BY <2>1 DEF File
  <2> HIDE DEF new
  <2>5. /\ DOMAIN files' = 1..f /\ DOMAIN files = 1..Len(files) /\ Len(files) \in Nat
        /\ files'[f] = new /\ \A i \in 1..Len(files) : files'[i] = files[i]
    BY <1>4, <2>3, <2>4, AppendProperties, LenProperties
  <2>6. {files'[f].lines[k].n : k \in DOMAIN files'[f].lines} = {h.line.n}
    <3>1. files'[f].lines = s
      BY <2>4, <2>5
    <3> QED
      BY <2>1, <2>2, <3>1
  <2>7. /\ f \in DOMAIN files' /\ f \notin DOMAIN files /\ DOMAIN files \subseteq DOMAIN files'
        /\ \A i \in DOMAIN files' \ {f} : i \in DOMAIN files /\ files'[i] = files[i]
    BY <2>5
  <2>8. \A j, k \in DOMAIN files'[f].lines : j = k
    BY <2>2, <2>4, <2>5
  <2>9. files'[f].at = "live" /\ files'[f].lines # <<>>
    BY <2>1, <2>4, <2>5
  <2> HIDE DEF f
  <2>10. Written(f, h.line.n)
    BY <1>3, <1>5, <2>6, <2>7, <2>8, <2>9 DEF Written
  <2> QED
    BY <1>2, <2>7, <2>10 DEF h
<1>6. CASE h.file # 0
  <2> DEFINE f == h.file
             s == files[f].lines
             t == Append(s, h.line)
             new == [files[f] EXCEPT !.lines = t]
  <2>1. f \in Live \cup Segments /\ f \in DOMAIN files /\ h.end = Len(s)
    BY <1>3, <1>6, FileFacts DEF Shape
  <2>2. /\ s \in Seq(Line) /\ Len(s) \in Nat /\ DOMAIN s = 1..Len(s)
        /\ files[f] \in File
    BY <2>1, FileFacts DEF Shape
  <2>3. files' = [files EXCEPT ![f].lines = t]
    <3>1. Landed(h) = [files EXCEPT ![f].lines =
                         IF h.end < Len(s) THEN [s EXCEPT ![h.end + 1] = h.line] ELSE t]
      BY <1>6 DEF Landed
    <3>2. ~ (h.end < Len(s))
      BY <2>1, <2>2
    <3> HIDE DEF t, s, f
    <3> QED
      BY <1>1, <3>1, <3>2
  <2>4. /\ DOMAIN files' = DOMAIN files /\ files'[f] = new
        /\ \A i \in DOMAIN files \ {f} : files'[i] = files[i]
    BY <2>1, <2>3
  <2>5. new.lines = t /\ new.at = files[f].at
    BY <2>2 DEF File
  <2> HIDE DEF new
  <2>6. /\ t # <<>> /\ DOMAIN t = 1..Len(s) + 1 /\ t[Len(s) + 1] = h.line
        /\ \A k \in 1..Len(s) : t[k] = s[k]
    <3> HIDE DEF s
    <3>1. /\ t \in Seq(Line) /\ t # <<>> /\ Len(t) = Len(s) + 1 /\ t[Len(s) + 1] = h.line
          /\ \A k \in 1..Len(s) : t[k] = s[k]
      BY <1>4, <2>2, AppendProperties
    <3> QED
      BY <3>1, LenProperties
  <2>7. /\ NumbersIn(f) = {s[k].n : k \in 1..Len(s)}
        /\ \A n \in NumbersIn(f) : n < h.line.n /\ n \in Nat
        /\ \A j, k \in 1..Len(s) : s[j].n = s[k].n => j = k
    <3>1. NumbersIn(f) = {s[k].n : k \in 1..Len(s)}
      BY <2>2 DEF NumbersIn
    <3>2. NumbersIn(f) \subseteq Events /\ \A j, k \in DOMAIN s : s[j].n = s[k].n => j = k
      BY <2>1 DEF Spooled
    <3>3. \A n \in NumbersIn(f) : n \in Nat
      BY <3>2 DEF Events
    <3> QED
      BY <1>3, <2>1, <2>2, <3>1, <3>2, <3>3
  <2> HIDE DEF t, s, f
  <2>8. {t[k].n : k \in DOMAIN t} = NumbersIn(f) \cup {h.line.n}
    <3>1. ASSUME NEW k \in DOMAIN t
          PROVE  t[k].n \in NumbersIn(f) \cup {h.line.n}
      <4>1. CASE k = Len(s) + 1
        BY <2>6, <4>1
      <4>2. CASE k \in 1..Len(s)
        BY <2>6, <2>7, <4>2
      <4> QED
        BY <2>2, <2>6, <4>1, <4>2
    <3>2. \A k \in 1..Len(s) : k \in DOMAIN t /\ t[k].n = s[k].n
      BY <2>2, <2>6
    <3>3. Len(s) + 1 \in DOMAIN t /\ t[Len(s) + 1].n = h.line.n
      BY <2>2, <2>6
    <3> QED
      BY <2>7, <3>1, <3>2, <3>3
  <2>9. ASSUME NEW j \in DOMAIN t, NEW k \in DOMAIN t, t[j].n = t[k].n
        PROVE  j = k
    <3>1. \A i \in 1..Len(s) : t[i].n # h.line.n
      <4> SUFFICES ASSUME NEW i \in 1..Len(s)
                   PROVE  t[i].n # h.line.n
        OBVIOUS
      <4>1. t[i].n \in NumbersIn(f)
        BY <2>6, <2>7
      <4> QED
        BY <1>4, <2>7, <4>1
    <3>2. CASE j \in 1..Len(s) /\ k \in 1..Len(s)
      BY <2>6, <2>7, <2>9, <3>2
    <3>3. CASE j = Len(s) + 1
      BY <2>2, <2>6, <2>9, <3>1, <3>3
    <3>4. CASE k = Len(s) + 1
      BY <2>2, <2>6, <2>9, <3>1, <3>4
    <3> QED
      BY <2>2, <2>6, <3>2, <3>3, <3>4
  <2>10. files'[f].at \in {"live", "segment"} /\ files'[f].at = files[f].at /\ files'[f].lines = t
    BY <2>1, <2>4, <2>5 DEF Live, Segments
  <2>11. Written(f, h.line.n)
    BY <2>1, <2>4, <2>6, <2>8, <2>9, <2>10 DEF Written
  <2> QED
    BY <1>2, <2>11 DEF f, h
<1> QED
  BY <1>5, <1>6

Spools == Spooled /\ InHand

LEMMA MadeStep ==
  ASSUME Shape, [Next]_vars
  PROVE  made' \in Nat /\ made \in Nat /\ made <= made' /\ Events \subseteq Events'
<1>1. made \in Nat
  BY DEF Shape, SpoolShape
<1>2. made' = made \/ made' = made + 1
  BY DEF Next, Writing, OpenToWrite, FinishWrite, TakeSample, EnqueueLocal, Tick, Drain, Ingest, Unlink, Evict,
         WriteReceipt, EndTick, Acknowledge, Send, Serve, Lose, Restart, NewDay, SetClock, vars
<1>3. made' \in Nat /\ made <= made'
  BY <1>1, <1>2
<1>4. Events \subseteq Events'
  BY <1>1, <1>3 DEF Events
<1> QED
  BY <1>1, <1>3, <1>4

LEMMA SpoolsStay ==
  ASSUME Shape, Spools, [Next]_vars, UNCHANGED spool
  PROVE  Spools'
<1>1. Events \subseteq Events' /\ UNCHANGED <<files, opened>>
  BY MadeStep DEF spool
<1>2. Live' = Live /\ Segments' = Segments /\ \A i : NumbersIn(i)' = NumbersIn(i)
  BY <1>1 DEF Live, Segments, NumbersIn
<1>3. Spooled'
  BY <1>1, <1>2 DEF Spools, Spooled
<1>4. InHand'
  BY <1>1, <1>2 DEF Spools, InHand
<1> QED
  BY <1>3, <1>4 DEF Spools

LEMMA SpoolsOpened ==
  ASSUME OneWriter, Shape, Spools, NEW w \in Writers, OpenToWrite(w)
  PROVE  Spools'
<1> DEFINE h == OpenSpool(NewLine)
<1>1. /\ made' = made + 1 /\ made \in Nat /\ files' = files
      /\ opened' = [opened EXCEPT ![w] = h] /\ opened \in [Writers -> Handle]
  BY DEF OpenToWrite, Shape, SpoolShape
<1>2. Events \subseteq Events' /\ made + 1 \in Events' /\ \A n \in Events : n < made + 1
  BY <1>1 DEF Events
<1>3. Live' = Live /\ Segments' = Segments /\ \A i : NumbersIn(i)' = NumbersIn(i)
  BY <1>1 DEF Live, Segments, NumbersIn
<1>4. Spooled'
  BY <1>1, <1>2, <1>3 DEF Spools, Spooled
<1>5. /\ h.line.n = made + 1
      /\ Live = {} => h.file = 0
      /\ Live # {} => h.file \in Live /\ h.end = Len(files[h.file].lines)
      /\ h.file \in Live => h.file # 0
  <2>1. /\ h.line = NewLine
        /\ Live = {} => h.file = 0
        /\ Live # {} => h.file \in Live /\ h.end = Len(files[h.file].lines)
    BY OpenFacts DEF Shape
  <2>2. 0 \notin Live
    BY FileFacts DEF Shape
  <2> QED
    BY <2>1, <2>2, LineFacts DEF Shape
<1>6. \A i \in DOMAIN files : \A n \in NumbersIn(i) : n < made + 1
  BY <1>2 DEF Spools, Spooled
<1> HIDE DEF h
<1>7. \A v \in Writers : opened'[v] = h
  BY <1>1 DEF OneWriter
<1>8. InHand'
  BY <1>1, <1>2, <1>3, <1>5, <1>6, <1>7 DEF InHand
<1> QED
  BY <1>4, <1>8 DEF Spools

LEMMA SpoolsWritten ==
  ASSUME OneWriter, Shape, Spools, NEW w \in Writers, FinishWrite(w),
         files' = Landed(opened[w])
  PROVE  Spools'
<1> DEFINE n == opened[w].line.n
<1>1. PICK f : Written(f, n) /\ \A v \in Writers : opened'[v] = Closed
  BY WriteFacts DEF Spools
<1>2. Events' = Events /\ n \in Events
  BY DEF FinishWrite, Events, Spools, InHand
<1>3. InHand'
  BY <1>1 DEF InHand
<1> HIDE DEF n
<1>4. \A i \in DOMAIN files \ {f} : i \in DOMAIN files' /\ files'[i] = files[i]
  BY <1>1 DEF Written
<1>5. \A i, j \in Live' : i = j
  <2>1. CASE f \in DOMAIN files
    <3>1. Live' \subseteq Live
      BY <1>1, <2>1 DEF Written, Live
    <3> QED
      BY <3>1 DEF Spools, Spooled
  <2>2. CASE f \notin DOMAIN files
    <3>1. \A i \in Live' : i = f
      BY <1>1, <2>2 DEF Written, Live
    <3> QED
      BY <3>1
  <2> QED
    BY <2>1, <2>2
<1>6. \A i \in DOMAIN files' \ {f} : i \in DOMAIN files /\ files'[i] = files[i]
  BY <1>1 DEF Written
<1>7. ASSUME NEW i \in Live' \cup Segments'
      PROVE  files'[i].lines # <<>>
  <2>1. CASE i = f
    BY <1>1, <2>1 DEF Written
  <2>2. CASE i # f
    <3>1. i \in Live \cup Segments /\ files'[i] = files[i]
      BY <1>6, <2>2 DEF Live, Segments
    <3> QED
      BY <3>1 DEF Spools, Spooled
  <2> QED
    BY <2>1, <2>2
<1>8. ASSUME NEW i \in DOMAIN files'
      PROVE  /\ {files'[i].lines[k].n : k \in DOMAIN files'[i].lines} \subseteq Events'
             /\ \A j, k \in DOMAIN files'[i].lines :
                  files'[i].lines[j].n = files'[i].lines[k].n => j = k
  <2>1. CASE i = f
    <3>1. f \in DOMAIN files => NumbersIn(f) \subseteq Events
      BY DEF Spools, Spooled
    <3>2. {files'[f].lines[k].n : k \in DOMAIN files'[f].lines} \subseteq NumbersIn(f) \cup {n}
          /\ (f \notin DOMAIN files =>
                {files'[f].lines[k].n : k \in DOMAIN files'[f].lines} = {n})
      BY <1>1 DEF Written
    <3>3. \A j, k \in DOMAIN files'[f].lines : files'[f].lines[j].n = files'[f].lines[k].n => j = k
      BY <1>1 DEF Written
    <3> QED
      BY <1>2, <2>1, <3>1, <3>2, <3>3
  <2>2. CASE i # f
    <3>1. i \in DOMAIN files /\ files'[i] = files[i]
      BY <1>6, <2>2
    <3>2. /\ NumbersIn(i) \subseteq Events
          /\ \A j, k \in DOMAIN files[i].lines : files[i].lines[j].n = files[i].lines[k].n => j = k
      BY <3>1 DEF Spools, Spooled
    <3> QED
      BY <1>2, <3>1, <3>2 DEF NumbersIn
  <2> QED
    BY <2>1, <2>2
<1>9. Spooled'
  BY <1>5, <1>7, <1>8 DEF Spooled, NumbersIn
<1> QED
  BY <1>3, <1>9 DEF Spools

\* A line that cannot be written leaves the files alone.
LEMMA SpoolsUnwritten ==
  ASSUME OneWriter, Shape, Spools, NEW w \in Writers, FinishWrite(w), UNCHANGED files
  PROVE  Spools'
<1>1. \A v \in Writers : opened'[v] = Closed
  BY DEF OneWriter, FinishWrite, Shape, SpoolShape
<1>2. Events' = Events /\ Live' = Live /\ Segments' = Segments /\ \A i : NumbersIn(i)' = NumbersIn(i)
  BY DEF FinishWrite, Events, Live, Segments, NumbersIn
<1>3. Spooled'
  BY <1>2 DEF Spools, Spooled
<1>4. InHand'
  BY <1>1 DEF InHand
<1> QED
  BY <1>3, <1>4 DEF Spools

LEMMA SpoolsDrained ==
  ASSUME Shape, Spools, Drain
  PROVE  Spools'
<1>1. CASE UNCHANGED files
  <2>1. UNCHANGED spool /\ Next
    BY <1>1 DEF Drain, spool, Next, Tick
  <2> QED
    BY <2>1, SpoolsStay
<1>2. CASE files' = [i \in DOMAIN files |->
                       IF i \in Live THEN [files[i] EXCEPT !.at = "segment"] ELSE files[i]]
  <2>1. DOMAIN files' = DOMAIN files
    BY <1>2
  <2>2. ASSUME NEW i \in DOMAIN files
        PROVE  /\ files'[i].lines = files[i].lines
               /\ files'[i].at = IF i \in Live THEN "segment" ELSE files[i].at
    <3>1. files[i] \in File
      BY FileFacts DEF Shape
    <3> QED
      BY <1>2, <3>1 DEF File
  <2>3. Live' = {} /\ Segments' = Live \cup Segments
    BY <2>1, <2>2, FileFacts DEF Live, Segments, Shape
  <2>4. \A i \in DOMAIN files : NumbersIn(i)' = NumbersIn(i)
    BY <2>2 DEF NumbersIn
  <2>5. Events' = Events /\ opened' = opened
    BY DEF Drain, Events
  <2>6. Live \cup Segments \subseteq DOMAIN files
    BY FileFacts DEF Shape
  <2>7. Spooled'
    BY <2>1, <2>2, <2>3, <2>4, <2>5, <2>6 DEF Spools, Spooled
  <2>8. InHand'
    BY <2>1, <2>2, <2>3, <2>4, <2>5, <2>6 DEF Spools, InHand
  <2> QED
    BY <2>7, <2>8 DEF Spools
<1> QED
  BY <1>1, <1>2 DEF Drain

LEMMA SpoolsUnlinked ==
  ASSUME Shape, Spools, Course, Unlink
  PROVE  Spools'
<1>1. CASE UNCHANGED files
  <2>1. UNCHANGED spool /\ Next
    BY <1>1 DEF Unlink, spool, Next, Tick
  <2> QED
    BY <2>1, SpoolsStay
<1>2. CASE files' = [files EXCEPT ![Oldest] = [lines |-> <<>>, at |-> "gone"]]
  <2>0. PICK o : o = Oldest
    OBVIOUS
  <2>1. o \in DOMAIN files /\ \A w \in Writers : opened[w].file # o
    BY <2>0, TodoFacts DEF Unlink, Shape, TickShape, Course
  <2>2. /\ DOMAIN files' = DOMAIN files /\ files'[o] = [lines |-> <<>>, at |-> "gone"]
        /\ \A i \in DOMAIN files \ {o} : files'[i] = files[i]
    BY <1>2, <2>0, <2>1
  <2>3. Events' = Events /\ opened' = opened
    BY DEF Unlink, Events
  <2>4. Live' = Live \ {o} /\ Segments' = Segments \ {o}
    BY <2>1, <2>2 DEF Live, Segments
  <2>5. \A i \in DOMAIN files \ {o} : NumbersIn(i)' = NumbersIn(i)
    BY <2>2 DEF NumbersIn
  <2>6. NumbersIn(o)' = {} /\ DOMAIN files'[o].lines = {}
    <3>1. files'[o].lines = NoRows
      BY <2>2 DEF NoRows
    <3>2. DOMAIN files'[o].lines = {}
      BY <3>1, NoRowsFacts
    <3> QED
      BY <3>2 DEF NumbersIn
  <2>7. Live \cup Segments \subseteq DOMAIN files
    BY FileFacts DEF Shape
  <2>8. Spooled'
    BY <2>2, <2>3, <2>4, <2>5, <2>6, <2>7 DEF Spools, Spooled
  <2>9. InHand'
    <3> SUFFICES ASSUME NEW w \in Writers, opened[w] # Closed
                 PROVE  /\ opened[w].line.n \in Events
                        /\ \A i \in DOMAIN files : \A n \in NumbersIn(i)' : n < opened[w].line.n
                        /\ opened[w].file = 0 => Live' = {}
                        /\ opened[w].file # 0 =>
                             /\ opened[w].file \in Live' \cup Segments'
                             /\ opened[w].end = Len(files'[opened[w].file].lines)
      BY <2>2, <2>3 DEF InHand
    <3>1. /\ opened[w].line.n \in Events
          /\ \A i \in DOMAIN files : \A n \in NumbersIn(i) : n < opened[w].line.n
          /\ opened[w].file = 0 => Live = {}
          /\ opened[w].file # 0 =>
               /\ opened[w].file \in Live \cup Segments
               /\ opened[w].end = Len(files[opened[w].file].lines)
      BY DEF Spools, InHand
    <3>2. \A i \in DOMAIN files : \A n \in NumbersIn(i)' : n < opened[w].line.n
      BY <2>5, <2>6, <3>1
    <3> QED
      BY <2>1, <2>2, <2>4, <2>7, <3>1, <3>2
  <2> QED
    BY <2>8, <2>9 DEF Spools
<1> QED
  BY <1>1, <1>2 DEF Unlink

\* The files are well formed, and a line in hand will land where it is read.
LEMMA SpoolsNext == OneWriter /\ Shape /\ Spools /\ Course /\ [Next]_vars => Spools'
<1> SUFFICES ASSUME OneWriter, Shape, Spools, Course, [Next]_vars
             PROVE  Spools'
  OBVIOUS
<1>1. CASE Writing
  <2> PICK w \in Writers : OpenToWrite(w) \/ FinishWrite(w)
    BY <1>1 DEF Writing
  <2>1. CASE OpenToWrite(w)
    BY <2>1, SpoolsOpened
  <2>2. CASE FinishWrite(w)
    <3>1. files' = Landed(opened[w]) \/ UNCHANGED files
      BY <2>2 DEF FinishWrite
    <3> QED
      BY <2>2, <3>1, SpoolsWritten, SpoolsUnwritten
  <2> QED
    BY <2>1, <2>2
<1>2. CASE Drain
  BY <1>2, SpoolsDrained
<1>3. CASE Unlink
  BY <1>3, SpoolsUnlinked
<1>4. CASE TakeSample \/ Ingest \/ Evict \/ WriteReceipt \/ EndTick \/ Acknowledge \/ Send \/ Serve
           \/ Lose \/ Restart \/ NewDay \/ SetClock \/ UNCHANGED vars
  <2>1. UNCHANGED spool
    BY <1>4 DEF TakeSample, Ingest, Evict, WriteReceipt, EndTick, Acknowledge, Send, Serve, Lose,
                Restart, NewDay, SetClock, vars
  <2> QED
    BY <2>1, SpoolsStay
<1> QED
  BY <1>1, <1>2, <1>3, <1>4 DEF Next, Tick

-----------------------------------------------------------------------------
(* The queue and the tick.                                                  *)

\* A file that holds each number once gives each id once.
LEMMA UniqueNext == Shape /\ Spooled /\ Unique /\ [Next]_vars => Unique'
<1> SUFFICES ASSUME Shape, Spooled, Unique, [Next]_vars
             PROVE  Unique'
  OBVIOUS
<1>1. ASSUME DOMAIN queue' \subseteq DOMAIN queue, \A i \in DOMAIN queue' : queue'[i] = queue[i]
      PROVE  Unique'
  BY <1>1 DEF Unique
<1>2. ASSUME UNCHANGED queue
      PROVE  Unique'
  BY <1>2 DEF Unique
<1>3. ASSUME \A i \in DOMAIN queue : i \in DOMAIN queue' /\ queue'[i] = queue[i],
             \A i \in DOMAIN queue' \ DOMAIN queue : Id(queue'[i]) \notin Ids(queue),
             \A i, j \in DOMAIN queue' \ DOMAIN queue : Id(queue'[i]) = Id(queue'[j]) => i = j
      PROVE  Unique'
  BY <1>3 DEF Unique, Ids
<1>4. ASSUME NEW line, line.cls \in {"sample", "audit"}, Enqueue(<<Row(line)>>)
      PROVE  Unique'
  <2> DEFINE r == Row(line)
  <2>1. IsRow(r) /\ Enqueue(<<r>>) /\ QueueShape
    BY <1>4, RowFacts DEF Shape
  <2> HIDE DEF r
  <2>2. /\ \A i \in DOMAIN queue : i \in DOMAIN queue' /\ queue'[i] = queue[i]
        /\ \A i \in DOMAIN queue' \ DOMAIN queue :
             i = serial + 1 /\ queue'[i] = r /\ Id(r) \notin Ids(queue)
    BY <2>1, EnqueueOne
  <2> QED
    BY <1>3, <2>2
<1>5. CASE TakeSample
  <2>1. Enqueue(<<Row([n |-> made + 1, cls |-> "sample"])>>) \/ UNCHANGED queue
    BY <1>5 DEF TakeSample, EnqueueLocal, table
  <2> QED
    BY <1>2, <1>4, <2>1
<1>6. CASE WriteReceipt
  <2>1. Enqueue(<<Row([n |-> made + 1, cls |-> "audit"])>>) \/ UNCHANGED queue
    BY <1>6 DEF WriteReceipt, EnqueueLocal, table
  <2> QED
    BY <1>2, <1>4, <2>1
<1>7. CASE Ingest
  <2>1. CASE UNCHANGED table
    BY <1>2, <2>1 DEF table
  <2>2. CASE Enqueue(Parsed(Oldest))
    <3>1. d.todo # {}
      BY <1>7 DEF Ingest
    <3> DEFINE lines == files[Oldest].lines
    <3>2. /\ \A i \in DOMAIN queue : i \in DOMAIN queue' /\ queue'[i] = queue[i]
          /\ \A i \in DOMAIN queue' \ DOMAIN queue :
               \E k \in DOMAIN lines :
                 /\ i = serial + k /\ queue'[i] = Row(lines[k])
                 /\ lines[k].cls \in {"sample", "audit"}
                 /\ Id(queue'[i]) \notin Ids(queue)
      BY <2>2, <3>1, IngestFacts
    <3>3. \A j, k \in DOMAIN lines : lines[j].n = lines[k].n => j = k
      BY <3>1, TodoFacts DEF Spooled
    <3> HIDE DEF lines
    <3>4. ASSUME NEW i \in DOMAIN queue' \ DOMAIN queue, NEW j \in DOMAIN queue' \ DOMAIN queue,
                 Id(queue'[i]) = Id(queue'[j])
          PROVE  i = j
      <4>1. PICK k \in DOMAIN lines : i = serial + k /\ queue'[i] = Row(lines[k])
                                      /\ lines[k].cls \in {"sample", "audit"}
        BY <3>2
      <4>2. PICK l \in DOMAIN lines : j = serial + l /\ queue'[j] = Row(lines[l])
                                      /\ lines[l].cls \in {"sample", "audit"}
        BY <3>2
      <4>a. Row(lines[k]).n = lines[k].n /\ Row(lines[l]).n = lines[l].n
        BY <4>1, <4>2, RowFacts
      <4>b. queue'[i].n = queue'[j].n
        BY <3>4 DEF Id
      <4>3. lines[k].n = lines[l].n
        BY <4>1, <4>2, <4>a, <4>b
      <4> QED
        BY <3>3, <4>1, <4>2, <4>3
    <3> QED
      BY <1>3, <3>2, <3>4
  <2> QED
    BY <1>7, <2>1, <2>2 DEF Ingest, Parsed
<1>8. CASE Evict
  <2>1. DOMAIN queue' = DOMAIN queue \ Victims /\ \A i \in DOMAIN queue' : queue'[i] = queue[i]
    BY <1>8, EvictFacts
  <2> QED
    BY <1>1, <2>1
<1>9. CASE Acknowledge
  <2> DEFINE ids == Ids(d.batch)
  <2>1. queue' = Without(queue, ids)
    BY <1>9 DEF Acknowledge
  <2> HIDE DEF ids
  <2>a. DOMAIN Without(queue, ids) = {i \in DOMAIN queue : Id(queue[i]) \notin ids}
        /\ \A i \in DOMAIN Without(queue, ids) : Without(queue, ids)[i] = queue[i]
    BY WithoutFacts
  <2>2. DOMAIN queue' \subseteq DOMAIN queue /\ \A i \in DOMAIN queue' : queue'[i] = queue[i]
    BY <2>1, <2>a
  <2> QED
    BY <1>1, <2>2
<1>10. CASE Writing \/ Drain \/ Unlink \/ EndTick \/ Send \/ Serve \/ Lose \/ Restart \/ NewDay
            \/ SetClock \/ UNCHANGED vars
  BY <1>2, <1>10
     DEF Writing, OpenToWrite, FinishWrite, Drain, Unlink, EndTick, Send, Serve, Lose, Restart,
         NewDay, SetClock, table, vars
<1> QED
  BY <1>5, <1>6, <1>7, <1>8, <1>9, <1>10 DEF Next, Tick

\* Where an event may be that has left the spool.
Known == Ids(queue) \cup stored \cup refused \cup evicted
Accounted == Numbers(Known) \cup dropped

LEMMA QueueGrows ==
  ASSUME Shape, TakeSample \/ WriteReceipt \/ Ingest
  PROVE  Ids(queue) \subseteq Ids(queue')
<1>0. QueueShape
  BY DEF Shape
<1>1. ASSUME NEW line, line.cls \in {"sample", "audit"}, Enqueue(<<Row(line)>>)
      PROVE  Ids(queue) \subseteq Ids(queue')
  <2>1. IsRow(Row(line))
    BY <1>1, RowFacts
  <2> QED
    BY <1>0, <1>1, <2>1, EnqueueOne
<1>2. CASE TakeSample
  <2>1. Enqueue(<<Row([n |-> made + 1, cls |-> "sample"])>>) \/ UNCHANGED queue
    BY <1>2 DEF TakeSample, EnqueueLocal, table
  <2> QED
    BY <1>1, <2>1
<1>3. CASE WriteReceipt
  <2>1. Enqueue(<<Row([n |-> made + 1, cls |-> "audit"])>>) \/ UNCHANGED queue
    BY <1>3 DEF WriteReceipt, EnqueueLocal, table
  <2> QED
    BY <1>1, <2>1
<1>4. CASE Ingest
  <2>1. CASE UNCHANGED table
    BY <2>1 DEF table
  <2>2. CASE Enqueue(Parsed(Oldest))
    <3>1. d.todo # {}
      BY <1>4 DEF Ingest
    <3> QED
      BY <2>2, <3>1, IngestFacts
  <2> QED
    BY <1>4, <2>1, <2>2 DEF Ingest, Parsed
<1> QED
  BY <1>2, <1>3, <1>4

\* Outside a flush nothing is in hand.
Quiet ==
  /\ d'.pc \notin {"ingested", "sent", "answered"} /\ d'.batch = NoRows

LEMMA CourseQuiet ==
  ASSUME Quiet
  PROVE  Course'
BY NoRowsFacts DEF Quiet, Course

LEMMA CourseWriting ==
  ASSUME OneWriter, Shape, Spools, Course, NEW w \in Writers, OpenToWrite(w) \/ FinishWrite(w)
  PROVE  Course'
<1>1. UNCHANGED <<d, queue, stored, refused>>
  BY DEF OpenToWrite, FinishWrite, table, server
<1>2. PICK o : o = Oldest
  OBVIOUS
<1>3. Oldest' = o
  BY <1>1, <1>2 DEF Oldest
<1>4. ASSUME d.pc = "ingested"
      PROVE  /\ \A v \in Writers : opened'[v].file # o
             /\ NumbersIn(o)' \subseteq Numbers(Ids(queue)) \cup dropped
  <2>1. /\ o \in DOMAIN files /\ o \in Segments
        /\ \A v \in Writers : opened[v].file # o
        /\ NumbersIn(o) \subseteq Numbers(Ids(queue)) \cup dropped
    BY <1>2, <1>4, TodoFacts DEF Course, Shape, TickShape
  <2>2. CASE OpenToWrite(w)
    <3>1. OpenSpool(NewLine).file # o
      BY <2>1, OpenFacts, FileFacts DEF Shape
    <3>2. \A v \in Writers : opened'[v].file # o
      BY <2>1, <2>2, <3>1 DEF OpenToWrite, Shape, SpoolShape
    <3> QED
      BY <2>1, <2>2, <3>2 DEF OpenToWrite, NumbersIn
  <2>4. CASE FinishWrite(w) /\ UNCHANGED files
    <3>1. \A v \in Writers : opened'[v] = Closed
      BY <2>4 DEF OneWriter, FinishWrite, Shape, SpoolShape
    <3>2. o # 0
      BY <2>1, FileFacts DEF Shape
    <3> QED
      BY <2>1, <2>4, <3>1, <3>2, ClosedFacts DEF NumbersIn
  <2>3. CASE FinishWrite(w) /\ files' = Landed(opened[w])
    <3>1. PICK f : /\ Written(f, opened[w].line.n)
                   /\ f = opened[w].file \/ f \notin DOMAIN files
                   /\ \A v \in Writers : opened'[v] = Closed
      BY <2>3, WriteFacts DEF Spools
    <3>2. f # o
      BY <2>1, <3>1
    <3>3. files'[o] = files[o]
      BY <2>1, <3>1, <3>2 DEF Written
    <3>4. o # 0
      BY <2>1, FileFacts DEF Shape
    <3> QED
      BY <2>1, <3>1, <3>3, <3>4, ClosedFacts DEF NumbersIn
  <2> QED
    BY <2>2, <2>3, <2>4 DEF FinishWrite
<1>5. dropped \subseteq dropped'
  BY DEF OpenToWrite, FinishWrite, Drop
<1> QED
  BY <1>1, <1>3, <1>4, <1>5 DEF Course

\* What the server names is stored or refused.
LEMMA ServeFacts ==
  ASSUME Shape, Course, Serve
  PROVE  /\ d'.pc = "answered" /\ Ids(d'.batch) \subseteq Ids(d.batch)
         /\ Ids(d'.batch) \subseteq stored' \cup refused'
         /\ stored \subseteq stored' /\ refused \subseteq refused'
<1> DEFINE b == d.batch
           named == Accepted(b) \cup Rejected(b)
           kept == {i \in DOMAIN b : Id(b[i]) \in named}
<1>1. d' = SetBatch("answered", Where(b, kept))
  BY DEF Serve, SetBatch
<1>2. stored' = stored \cup Accepted(b) /\ refused' = refused \cup Rejected(b)
  BY DEF Serve, Accepted
<1> HIDE DEF named
<1>3. Tidy(d)
  BY DEF Shape, TickShape
<1> HIDE DEF b
<1>4. Ids(Where(b, kept)) \subseteq Ids(b) /\ Ids(Where(b, kept)) \subseteq named
  <2>1. Ids(Where(b, kept)) = {Id(b[i]) : i \in kept}
    BY WhereFacts
  <2> QED
    BY <2>1 DEF Ids
<1> HIDE DEF kept
<1>5. d'.pc = "answered" /\ d'.batch = Where(b, kept)
  BY <1>1, <1>3, TickFields
<1>6. Ids(d'.batch) \subseteq Ids(b) /\ Ids(d'.batch) \subseteq named
  BY <1>4, <1>5
<1> QED
  BY <1>2, <1>5, <1>6 DEF named, b

LEMMA SendFacts ==
  ASSUME Shape, Send
  PROVE  d'.pc = "sent" /\ Ids(d'.batch) \subseteq Ids(queue) /\ queue' = queue
<1> DEFINE S == Limit(DOMAIN queue, Batch)
           b == Where(queue, S)
<1>1. S \subseteq DOMAIN queue
  BY DEF Limit
<1>2. d' = SetBatch("sent", b) /\ Tidy(d)
  BY DEF Send, SetBatch, Shape, TickShape
<1> HIDE DEF S
<1>3. Ids(b) \subseteq Ids(queue)
  <2>1. Ids(b) = {Id(queue[i]) : i \in S}
    BY WhereFacts
  <2> QED
    BY <1>1, <2>1 DEF Ids
<1> HIDE DEF b
<1>4. d'.pc = "sent" /\ d'.batch = b
  BY <1>2, TickFields
<1> QED
  BY <1>3, <1>4 DEF Send, table

\* The tick holds only what is in the queue, and forgets only what the server named.
LEMMA CourseNext == OneWriter /\ Shape /\ Spools /\ Course /\ [Next]_vars => Course'
<1> SUFFICES ASSUME OneWriter, Shape, Spools, Course, [Next]_vars
             PROVE  Course'
  OBVIOUS
<1>1. Tidy(d) /\ d.todo \subseteq Segments /\ (d.pc = "ingested" => d.todo # {})
  BY DEF Shape, TickShape
<1>2. ASSUME UNCHANGED <<d, queue, stored, refused, dropped, spool>>
      PROVE  Course'
  <2>1. Oldest' = Oldest
    BY <1>2 DEF Oldest
  <2>2. NumbersIn(Oldest)' = NumbersIn(Oldest)
    BY <1>2, <2>1 DEF NumbersIn, spool
  <2> QED
    BY <1>2, <2>1, <2>2 DEF Course, spool
<1>3. CASE Writing
  BY <1>3, CourseWriting DEF Writing
<1>4. CASE TakeSample
  <2>1. d.pc = "idle" /\ d' = d
    BY <1>4 DEF TakeSample
  <2> QED
    BY <2>1, CourseQuiet DEF Course, Quiet
<1>5. CASE Drain
  <2>1. d.pc = "idle" /\ \E y : d' = SetTodo("drain", y)
    BY <1>5 DEF Drain, SetTodo
  <2> QED
    BY <1>1, <2>1, TickFields, CourseQuiet DEF Course, Quiet
<1>6. CASE Ingest
  <2>1. /\ d.pc = "drain" /\ d.todo # {} /\ \A w \in Writers : opened[w].file # Oldest
        /\ UNCHANGED <<files, opened>>
    BY <1>6 DEF Ingest, OneWriter, spool
  <2>2. d.batch = NoRows
    BY <2>1 DEF Course
  <2>3. CASE d' = AfterFailure
    <3>1. d' = SetTodo("drain", {})
      BY <2>3 DEF AfterFailure, SetTodo
    <3> QED
      BY <1>1, <2>2, <3>1, TickFields, CourseQuiet DEF Quiet
  <2>4. CASE /\ d' = [d EXCEPT !.pc = "ingested"]
             /\ \/ Enqueue(Parsed(Oldest)) /\ UNCHANGED dropped
                \/ Drop(NumbersIn(Oldest)) /\ UNCHANGED table
    <3>1. d' = SetPc("ingested")
      BY <2>4 DEF SetPc
    <3>2. d'.pc = "ingested" /\ d'.todo = d.todo /\ d'.batch = NoRows
      BY <1>1, <2>2, <3>1, TickFields
    <3>3. PICK o : o = Oldest
      OBVIOUS
    <3>4. Oldest' = o
      BY <3>2, <3>3 DEF Oldest
    <3>5. NumbersIn(o)' = NumbersIn(o) /\ \A w \in Writers : opened'[w].file # o
      BY <2>1, <3>3 DEF NumbersIn
    <3>8. CASE Drop(NumbersIn(Oldest)) /\ UNCHANGED table
      <4>1. NumbersIn(o) \subseteq dropped'
        BY <3>3, <3>8 DEF Drop
      <4> QED
        BY <3>2, <3>4, <3>5, <4>1, NoRowsFacts DEF Course
    <3>9. SUFFICES ASSUME Enqueue(Parsed(Oldest)) PROVE Course'
      BY <2>4, <3>8
    <3>6. NumbersIn(o) \subseteq Numbers(Ids(queue'))
      <4>1. {[n |-> files[o].lines[k].n, boot |-> d.boot] : k \in DOMAIN files[o].lines}
              \subseteq Ids(queue')
        BY <2>1, <3>3, <3>9, IngestFacts
      <4> SUFFICES ASSUME NEW k \in DOMAIN files[o].lines
                   PROVE  files[o].lines[k].n \in Numbers(Ids(queue'))
        BY DEF NumbersIn
      <4> DEFINE x == [n |-> files[o].lines[k].n, boot |-> d.boot]
      <4>2. x \in Ids(queue') /\ x.n = files[o].lines[k].n
        BY <4>1
      <4> QED
        BY <4>2 DEF Numbers
    <3>7. d'.batch = NoRows /\ Ids(d'.batch) \subseteq Ids(queue')
      BY <3>2, NoRowsFacts
    <3> QED
      BY <3>2, <3>4, <3>5, <3>6, <3>7 DEF Course
  <2> QED
    BY <1>6, <2>3, <2>4 DEF Ingest, Parsed, NumbersIn
<1>7. CASE Unlink
  <2>1. d.pc = "ingested" /\ \E y : d' = SetTodo("drain", y)
    BY <1>7 DEF Unlink, SetTodo
  <2> QED
    BY <1>1, <2>1, TickFields, CourseQuiet DEF Course, Quiet
<1>8. CASE Evict \/ WriteReceipt
  <2>1. d.pc \in {"drain", "receipt"} /\ \E x \in {"flush", "receipt"} : d' = SetPc(x)
    <3>1. CASE Evict
      <4>1. d.pc = "drain" /\ (d' = SetPc("flush") \/ d' = SetPc("receipt"))
        BY <3>1 DEF Evict, SetPc
      <4> QED
        BY <4>1
    <3>2. CASE WriteReceipt
      BY <3>2 DEF WriteReceipt, SetPc
    <3> QED
      BY <1>8, <3>1, <3>2
  <2>2. d'.pc \in {"flush", "receipt"} /\ d'.batch = d.batch
    BY <1>1, <2>1, TickFields
  <2>3. d.batch = NoRows
    BY <2>1 DEF Course
  <2> QED
    BY <2>2, <2>3, CourseQuiet DEF Quiet
<1>9. CASE EndTick \/ Lose
  BY <1>1, <1>9, TickFields, CourseQuiet DEF EndTick, Lose, Quiet
<1>10. CASE Restart
  <2>1. d' = Reborn
    BY <1>10 DEF Restart, Reborn
  <2> QED
    BY <1>1, <2>1, TickFields, CourseQuiet DEF Quiet
<1>11. CASE Send
  BY <1>11, SendFacts DEF Course
<1>12. CASE Serve
  <2>1. queue' = queue /\ dropped' = dropped
    BY <1>12 DEF Serve, table
  <2> QED
    BY <1>12, <2>1, ServeFacts DEF Course
<1>13. CASE Acknowledge
  <2>1. d' = SetBatch("flush", NoRows)
    BY <1>13 DEF Acknowledge, SetBatch
  <2> QED
    BY <1>1, <2>1, TickFields, CourseQuiet DEF Quiet
<1>14. CASE NewDay \/ SetClock \/ UNCHANGED vars
  BY <1>2, <1>14 DEF NewDay, SetClock, vars, table, server
<1> QED
  BY <1>3, <1>4, <1>5, <1>6, <1>7, <1>8, <1>9, <1>10, <1>11, <1>12, <1>13, <1>14 DEF Next, Tick

-----------------------------------------------------------------------------
(* No event is lost.                                                        *)

LEMMA DroppedGrows ==
  ASSUME [Next]_vars
  PROVE  dropped \subseteq dropped'
BY DEF Drop, Next, Writing, OpenToWrite, FinishWrite, TakeSample, EnqueueLocal, Tick, Drain, Ingest,
       Unlink, Evict, WriteReceipt, EndTick, Acknowledge, Send, Serve, Lose, Restart, NewDay,
       SetClock, vars

LEMMA KnownGrows ==
  ASSUME Shape, Course, [Next]_vars
  PROVE  Known \subseteq Known'
<1>1. CASE Evict
  <2>1. /\ DOMAIN queue' = DOMAIN queue \ Victims
        /\ \A i \in DOMAIN queue' : queue'[i] = queue[i]
    BY <1>1, EvictFacts
  <2>2. evicted' = evicted \cup {Id(queue[i]) : i \in Victims} /\ UNCHANGED server
    <3>1. Ids(Where(queue, Victims)) = {Id(queue[i]) : i \in Victims}
      BY WhereFacts
    <3> QED
      BY <1>1, <3>1 DEF Evict
  <2>3. \A i \in DOMAIN queue : Id(queue[i]) \in Ids(queue') \/ Id(queue[i]) \in evicted'
    BY <2>1, <2>2 DEF Ids
  <2> QED
    BY <2>2, <2>3 DEF Known, Ids, server
<1>2. CASE Acknowledge
  <2> DEFINE ids == Ids(d.batch)
  <2>1. ids \subseteq stored \cup refused
    BY <1>2 DEF Acknowledge, Course
  <2>2. queue' = Without(queue, ids) /\ UNCHANGED <<server, evicted>>
    BY <1>2 DEF Acknowledge
  <2> HIDE DEF ids
  <2>3. /\ DOMAIN Without(queue, ids) = {i \in DOMAIN queue : Id(queue[i]) \notin ids}
        /\ \A i \in DOMAIN Without(queue, ids) : Without(queue, ids)[i] = queue[i]
    BY WithoutFacts
  <2>4. \A i \in DOMAIN queue : Id(queue[i]) \in Ids(queue') \/ Id(queue[i]) \in ids
    BY <2>2, <2>3 DEF Ids
  <2> QED
    BY <2>1, <2>2, <2>4 DEF Known, Ids, server
<1>3. CASE TakeSample \/ WriteReceipt \/ Ingest
  <2>1. Ids(queue) \subseteq Ids(queue')
    BY <1>3, QueueGrows
  <2> QED
    BY <1>3, <2>1 DEF TakeSample, WriteReceipt, EnqueueLocal, Ingest, server, Known
<1>4. CASE Serve
  BY <1>4, ServeFacts DEF Serve, table, Known
<1>5. CASE Writing \/ Drain \/ Unlink \/ EndTick \/ Send \/ Lose \/ Restart \/ NewDay \/ SetClock
           \/ UNCHANGED vars
  <2>1. UNCHANGED <<table, server, evicted>>
    BY <1>5
       DEF Writing, OpenToWrite, FinishWrite, Drain, Unlink, EndTick, Send, Lose, Restart,
           NewDay, SetClock, vars
  <2> QED
    BY <2>1 DEF table, server, Known
<1> QED
  BY <1>1, <1>2, <1>3, <1>4, <1>5 DEF Next, Tick

\* A new event is in a writer's hands, in the queue or dropped.
LEMMA NewEvents ==
  ASSUME Shape, [Next]_vars, NEW n \in Events' \ Events
  PROVE  n \in BeingWritten' \/ n \in Accounted'
<1>1. made \in Nat /\ (made' = made + 1 => n = made + 1) /\ made' # made /\ QueueShape
  BY DEF Events, Shape, SpoolShape
<1>2. CASE \E w \in Writers : OpenToWrite(w)
  <2>1. PICK w \in Writers : OpenToWrite(w)
    BY <1>2
  <2>2. made' = made + 1 /\ opened'[w] = OpenSpool(NewLine)
    BY <2>1 DEF OpenToWrite, Shape, SpoolShape
  <2>3. opened'[w].line.n = made + 1
    BY <2>2, OpenFacts, LineFacts DEF Shape
  <2> QED
    BY <1>1, <2>2, <2>3 DEF BeingWritten
<1>3. ASSUME NEW line, line.cls \in {"sample", "audit"}, line.n = made + 1, made' = made + 1,
             Enqueue(<<Row(line)>>) \/ Drop({made + 1})
      PROVE  n \in Accounted'
  <2> DEFINE r == Row(line)
  <2>a. CASE Drop({made + 1})
    BY <1>1, <1>3, <2>a DEF Drop, Accounted
  <2>b. SUFFICES ASSUME Enqueue(<<r>>) PROVE n \in Accounted'
    BY <1>3, <2>a
  <2>1. IsRow(r) /\ r.n = made + 1 /\ Enqueue(<<r>>)
    BY <1>3, <2>b, RowFacts
  <2>2. Id(r).n = made + 1
    BY <2>1 DEF Id
  <2> HIDE DEF r
  <2>3. Id(r) \in Ids(queue')
    BY <1>1, <2>1, EnqueueOne
  <2> QED
    BY <1>1, <1>3, <2>2, <2>3 DEF Known, Numbers, Accounted
<1>4. CASE TakeSample
  <2> DEFINE line == [n |-> made + 1, cls |-> "sample"]
  <2>1. line.cls \in {"sample", "audit"} /\ line.n = made + 1
    OBVIOUS
  <2>2. made' = made + 1 /\ (Enqueue(<<Row(line)>>) \/ Drop({made + 1}))
    BY <1>4 DEF TakeSample, EnqueueLocal
  <2> HIDE DEF line
  <2> QED
    BY <1>3, <2>1, <2>2
<1>5. CASE WriteReceipt
  <2> DEFINE line == [n |-> made + 1, cls |-> "audit"]
  <2>1. line.cls \in {"sample", "audit"} /\ line.n = made + 1
    OBVIOUS
  <2>2. made' = made + 1 /\ (Enqueue(<<Row(line)>>) \/ Drop({made + 1}))
    BY <1>5 DEF WriteReceipt, EnqueueLocal
  <2> HIDE DEF line
  <2> QED
    BY <1>3, <2>1, <2>2
<1> QED
  BY <1>1, <1>2, <1>4, <1>5
     DEF Next, Writing, FinishWrite, Tick, Drain, Ingest, Unlink, Evict, EndTick, Acknowledge,
         Send, Serve, Lose, Restart, NewDay, SetClock, vars

\* What is in a file stays there until it is in the queue.
LEMMA FiledStays ==
  ASSUME OneWriter, Shape, Spools, Course, [Next]_vars, NEW i \in Live \cup Segments,
         NEW n \in NumbersIn(i)
  PROVE  n \in Accounted \/ \E j \in Live' \cup Segments' : n \in NumbersIn(j)'
<1>1. ASSUME UNCHANGED files
      PROVE  i \in Live' \cup Segments' /\ n \in NumbersIn(i)'
  BY <1>1 DEF Live, Segments, NumbersIn
<1>2. i \in DOMAIN files /\ files[i].at \in {"live", "segment"}
  BY DEF Live, Segments
<1>3. CASE Writing
  <2> PICK w \in Writers : OpenToWrite(w) \/ FinishWrite(w)
    BY <1>3 DEF Writing
  <2>1. CASE OpenToWrite(w)
    BY <1>1, <2>1 DEF OpenToWrite
  <2>3. CASE FinishWrite(w) /\ UNCHANGED files
    BY <1>1, <2>3
  <2>2. CASE FinishWrite(w) /\ files' = Landed(opened[w])
    <3> DEFINE m == opened[w].line.n
    <3>1. PICK f : Written(f, m)
      BY <2>2, WriteFacts DEF Spools
    <3> HIDE DEF m
    <3>2. i \in DOMAIN files' /\ files'[i].at = files[i].at
      BY <1>2, <3>1 DEF Written
    <3>3. n \in NumbersIn(i)'
      <4>1. CASE i = f
        <5>1. {files'[i].lines[k].n : k \in DOMAIN files'[i].lines} = NumbersIn(i) \cup {m}
          BY <1>2, <3>1, <4>1 DEF Written
        <5>2. NumbersIn(i)' = {files'[i].lines[k].n : k \in DOMAIN files'[i].lines}
          BY DEF NumbersIn
        <5> QED
          BY <5>1, <5>2
      <4>2. CASE i # f
        <5>1. files'[i] = files[i]
          BY <3>1, <3>2, <4>2 DEF Written
        <5> QED
          BY <5>1 DEF NumbersIn
      <4> QED
        BY <4>1, <4>2
    <3>4. i \in Live' \cup Segments'
      BY <1>2, <3>2 DEF Live, Segments
    <3> QED
      BY <3>3, <3>4
  <2> QED
    BY <2>1, <2>2, <2>3 DEF FinishWrite
<1>4. CASE Drain
  <2>1. CASE UNCHANGED files
    BY <1>1, <2>1
  <2>2. CASE files' = [j \in DOMAIN files |->
                       IF j \in Live THEN [files[j] EXCEPT !.at = "segment"] ELSE files[j]]
    <3>1. files[i] \in File
      BY <1>2, FileFacts DEF Shape
    <3>2. /\ i \in DOMAIN files' /\ files'[i].lines = files[i].lines
          /\ files'[i].at \in {"live", "segment"}
      BY <1>2, <2>2, <3>1 DEF File
    <3> QED
      BY <3>2 DEF Live, Segments, NumbersIn
  <2> QED
    BY <1>4, <2>1, <2>2 DEF Drain
<1>5. CASE Unlink
  <2>1. CASE i = Oldest
    BY <1>5, <2>1 DEF Unlink, Course, Known, Numbers, Accounted
  <2>2. CASE i # Oldest
    <3>1. i \in DOMAIN files' /\ files'[i] = files[i]
      BY <1>2, <1>5, <2>2 DEF Unlink
    <3> QED
      BY <1>2, <3>1 DEF Live, Segments, NumbersIn
  <2> QED
    BY <2>1, <2>2
<1>6. CASE TakeSample \/ Ingest \/ Evict \/ WriteReceipt \/ EndTick \/ Acknowledge \/ Send \/ Serve
           \/ Lose \/ Restart \/ NewDay \/ SetClock \/ UNCHANGED vars
  <2>1. UNCHANGED files
    BY <1>6 DEF TakeSample, Ingest, Evict, WriteReceipt, EndTick, Acknowledge, Send, Serve, Lose,
                Restart, NewDay, SetClock, vars, spool
  <2> QED
    BY <1>1, <2>1
<1> QED
  BY <1>3, <1>4, <1>5, <1>6 DEF Next, Tick

\* What is in a writer's hands stays there until it is in a file.
LEMMA InHandStays ==
  ASSUME OneWriter, Shape, Spools, [Next]_vars, NEW w \in Writers, opened[w] # Closed
  PROVE  \/ opened[w].line.n \in BeingWritten' \cup dropped'
         \/ \E j \in Live' \cup Segments' : opened[w].line.n \in NumbersIn(j)'
<1>1. CASE UNCHANGED opened
  BY <1>1 DEF BeingWritten
<1>2. CASE \E v \in Writers : OpenToWrite(v)
  BY <1>2 DEF OneWriter, OpenToWrite
<1>3. CASE \E v \in Writers : FinishWrite(v)
  <2>1. FinishWrite(w)
    BY <1>3 DEF OneWriter
  <2>5. CASE UNCHANGED files /\ Drop({opened[w].line.n})
    BY <2>5 DEF Drop
  <2>6. CASE files' # Landed(opened[w])
    BY <2>1, <2>5, <2>6 DEF FinishWrite
  <2>7. SUFFICES ASSUME files' = Landed(opened[w])
                 PROVE  \E j \in Live' \cup Segments' : opened[w].line.n \in NumbersIn(j)'
    BY <2>6
  <2> DEFINE m == opened[w].line.n
  <2>2. PICK f : Written(f, m)
    BY <2>1, <2>7, WriteFacts DEF Spools
  <2> HIDE DEF m
  <2>3. f \in Live' \cup Segments'
    BY <2>2 DEF Written, Live, Segments
  <2>4. m \in NumbersIn(f)'
    BY <2>2 DEF Written, NumbersIn
  <2> QED
    BY <2>3, <2>4 DEF m
<1> QED
  BY <1>1, <1>2, <1>3
     DEF Next, Writing, Tick, TakeSample, Drain, Ingest, Unlink, Evict, WriteReceipt, EndTick,
         Acknowledge, Send, Serve, Lose, Restart, NewDay, SetClock, vars, spool

LEMMA NothingLostNext ==
  OneWriter /\ Shape /\ Spools /\ Course /\ NothingLost /\ [Next]_vars => NothingLost'
<1> SUFFICES ASSUME OneWriter, Shape, Spools, Course, NothingLost, [Next]_vars,
                    NEW n \in Events'
             PROVE  n \in InFiles' \/ n \in BeingWritten' \/ n \in Accounted'
  BY DEF NothingLost, Known, Accounted
<1>1. ASSUME NEW j \in Live' \cup Segments', n \in NumbersIn(j)'
      PROVE  n \in InFiles'
  BY <1>1 DEF InFiles, NumbersIn
<1>2. Accounted \subseteq Accounted' /\ dropped' \subseteq Accounted'
  BY KnownGrows, DroppedGrows DEF Numbers, Accounted
<1>3. CASE n \notin Events
  BY <1>3, NewEvents
<1>4. CASE n \in Events /\ n \in InFiles
  <2>1. PICK i \in Live \cup Segments : n \in NumbersIn(i)
    BY <1>4 DEF InFiles, NumbersIn
  <2>2. n \in Accounted \/ \E j \in Live' \cup Segments' : n \in NumbersIn(j)'
    BY <2>1, FiledStays
  <2> QED
    BY <1>1, <1>2, <2>2
<1>5. CASE n \in Events /\ n \in BeingWritten
  <2>1. PICK w \in Writers : n = opened[w].line.n
    BY <1>5 DEF BeingWritten
  <2>2. n # 0
    BY <1>5 DEF Events, Shape, SpoolShape
  <2>3. opened[w] # Closed
    BY <2>1, <2>2, ClosedFacts
  <2>4. n \in BeingWritten' \cup dropped' \/ \E j \in Live' \cup Segments' : n \in NumbersIn(j)'
    BY <2>1, <2>3, InHandStays
  <2> QED
    BY <1>1, <1>2, <2>4
<1>6. CASE n \in Accounted
  BY <1>2, <1>6
<1> QED
  BY <1>3, <1>4, <1>5, <1>6 DEF NothingLost, Known, Accounted

LEMMA WellFormed == IInv => Kept
<1> SUFFICES ASSUME IInv
             PROVE  Kept
  OBVIOUS
<1>1. Cardinality(Live) <= 1
  <2>1. CASE Live = {}
    BY <2>1, FS_EmptySet
  <2>2. CASE Live # {}
    <3>1. PICK i : Live = {i}
      BY <2>2 DEF IInv, Spooled
    <3> QED
      BY <3>1, FS_Singleton
  <2> QED
    BY <2>1, <2>2
<1> QED
  BY <1>1 DEF IInv, Kept, TypeOK, Shape, SpoolShape, TickShape, Spooled, Unique, Course

\* SpoolReader.swift:25-26 and Queue.swift:186-187: with one writer that finishes its
\* line before the file it opened is read, every event is on its way, stored, rejected
\* for good, evicted, or gone with a write, a read or a row of the daemon's own that
\* failed and was swallowed; no id is queued twice and no batch holds what has left the
\* queue, for any number of crashes, failed steps, lost answers and set clocks.
THEOREM NothingElseIsLost ==
  ASSUME OneWriter
  PROVE  Spec => []Kept
<1>1. Init => IInv
  <2> SUFFICES ASSUME Init
               PROVE  IInv
    OBVIOUS
  <2>1. DOMAIN files = {} /\ Live = {} /\ Segments = {}
    BY NoRowsFacts DEF Init, NoRows, Live, Segments
  <2>2. Events = {}
    BY DEF Init, Events
  <2>3. Spooled /\ InHand /\ Unique /\ NothingLost
    BY <2>1, <2>2, NoRowsFacts DEF Init, Spooled, InHand, Unique, NothingLost
  <2>4. Course
    BY NoRowsFacts DEF Init, Course
  <2> QED
    BY <2>3, <2>4, ShapeInit DEF IInv
<1>2. IInv /\ [Next]_vars => IInv'
  BY ShapeNext, SpoolsNext, UniqueNext, CourseNext, NothingLostNext DEF IInv, Spools
<1> QED
  BY <1>1, <1>2, WellFormed, PTL DEF Spec

=============================================================================
