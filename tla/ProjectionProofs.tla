---------------------------- MODULE ProjectionProofs ----------------------------
(***************************************************************************)
(* Projection: for any recording of a device, batch sizes, retentions,     *)
(* restarts, length of time and age of what arrives, an event the          *)
(* watermark has passed is in what the reports read, unless its hour was   *)
(* read again when the event was gone.                                     *)
(*                                                                         *)
(* The argument: what is new to a pass is still in the events table, and   *)
(* a pass re-reads an hour with all its events that did not come so much   *)
(* earlier than the newest that they are pruned (Complete); a scan         *)
(* leaves out nothing up to the stamp it advances the watermark to, since  *)
(* a batch fits in it (Grouped).  So what lies between the watermark and   *)
(* that stamp is counted, or its hour is still to come (Covered), and an   *)
(* hour that a dead pass left empty is (Mended).                           *)
(*                                                                         *)
(* And the session is what the Mac lived (SessionKept): a span misses only *)
(* what the forward pass has still to come to (Waits), and what a pass     *)
(* takes for the transition before one is it (BeforeIs), since the hour    *)
(* was read while it was stored.                                           *)
(***************************************************************************)
EXTENDS Projection, FiniteSetTheorems, TLAPS

HourOf(e) == Hour(rec[e].ts)

Working == {"buckets", "clear", "write", "spans", "respan", "unlocks", "advance"}

Passes ==
  [who : {"none", "forward", "nightly"},
   step : {"idle", "rollup"} \cup Working,
   dirty : SUBSET Hours, upto : Nat, hour : Hours, rows : SUBSET Event, after : Nat \cup {Never}]

\* The device, the ingest and what it has stored; the tables; the pass.
IngestShape ==
  /\ now \in Nat /\ stamp \in Nat /\ watermark \in Nat /\ crashes \in Nat
  /\ rec \in Recordings /\ recv \in [Event -> Nat] /\ at \in [Event -> Nat]
  /\ open \in SUBSET SUBSET Event /\ events \in SUBSET Committed /\ late \in SUBSET Event
  /\ ordered \in BOOLEAN

TableShape ==
  /\ usage \in [Hours -> SUBSET Sample] /\ daily \in [{Day(h) : h \in Hours} -> SUBSET Sample]
  /\ spans \in SUBSET [from : Nat, kind : {"locked", "active"}, to : Nat \cup {Never}]
  /\ logged \in SUBSET Audit /\ unlocks \in SUBSET Session
  /\ torn \in SUBSET ({"forward", "nightly"} \X Hours \X {"usage", "spans"})

PassShape == pass \in Passes /\ pass.rows \in SUBSET Committed

Shape == IngestShape /\ TableShape /\ PassShape

\* A pass holds the mutex; it is at one hour of those to come; and the forward
\* pass goes forward.
Course ==
  /\ pass.step = "idle" <=> pass.who = "none"
  /\ pass.step \in {"clear", "write", "spans", "respan", "unlocks"} => pass.hour \in pass.dirty
  /\ pass.step \in {"idle", "advance", "rollup"} => pass.dirty = {}
  /\ pass.step \in Working /\ pass.who = "forward" => pass.upto > watermark

\* A stamp is one batch's, and what is not yet counted arrived within the projector's
\* delay.
Grouped ==
  /\ \A e \in Begun : recv[e] <= stamp
  /\ \A S \in open : S \subseteq Begun /\ \A T \in open : S # T => S \cap T = {}
  /\ \A e \in Begun : Cardinality({f \in Begun : recv[f] = recv[e]}) <= MaxBatch
Caught ==
  \A e \in Begun :
    /\ at[e] <= now
    /\ e \in UNION open \/ recv[e] > watermark => now - at[e] <= Lag

\* What was pruned is old enough to be.
Stored == \A e \in Committed \ events : Expired(e)

\* The hours to come are all there, with what else is not outlived, and one that the
\* forward pass will read has an event that it has not counted yet.
Complete ==
  \A h \in pass.dirty :
    /\ \A e \in Committed : ~Outlived(e, h) => e \in events
    /\ pass.who = "forward" => \E e \in events : HourOf(e) = h /\ recv[e] > watermark

\* An event is in what the reports read: its record, or its hour's sum, unless that
\* is being rewritten or a pass died over it.
Accounted(e) ==
  \/ e \in usage[HourOf(e)]
  \/ pass.step = "write" /\ pass.hour = HourOf(e)
  \/ \E t \in torn : t[2] = HourOf(e) /\ t[3] = "usage"

Counted(e) ==
  /\ e \in Audit => e \in logged
  /\ e \in Sample /\ HourOf(e) >= now - HourlyKept /\ ~Outlived(e, HourOf(e)) => Accounted(e)

\* The watermark's promise; what the forward pass adds to it; what its hour's steps
\* hold in hand.
Promised(e) == recv[e] <= watermark => Counted(e)

ToPromise(e) ==
  pass.who = "forward" /\ pass.step \in Working /\ recv[e] <= pass.upto
    => Counted(e) \/ HourOf(e) \in pass.dirty

InHand(e) ==
  recv[e] <= Scanned /\ HourOf(e) = pass.hour =>
    /\ pass.step \in {"clear", "write"} =>
         e \in pass.rows \/ (recv[e] <= watermark /\ Outlived(e, HourOf(e)))
    /\ pass.step \in {"spans", "respan", "unlocks"} => Counted(e)

Covered == \A e \in Committed \ late : Promised(e) /\ ToPromise(e) /\ InHand(e)

\* An hour the forward pass left empty has an event it will come back for.
Mended ==
  \A t \in torn :
    /\ t[1] = "forward" =>
         /\ \E e \in events : HourOf(e) = t[2] /\ recv[e] > watermark
         /\ pass.who = "forward" /\ pass.step \in Working =>
              t[2] \in pass.dirty \/ \E e \in events : HourOf(e) = t[2] /\ recv[e] > pass.upto
    /\ pass.step \in {"spans", "respan"} => t[2] # pass.hour \/ t[3] = "spans"
    /\ pass.step = "unlocks" => t[2] # pass.hour

IInv ==
  Shape /\ Course /\ Grouped /\ Caught /\ Stored /\ Complete /\ Covered /\ Mended

-----------------------------------------------------------------------------
(* The constants, the names, the largest of a set. *)

LEMMA ConstantTypes ==
  /\ MaxBatch \in Nat \ {0} /\ Limit \in Nat \ {0} /\ DayLen \in Nat \ {0} /\ MaxBatch <= Limit
  /\ Trailing \in Nat /\ SampleKept \in Nat /\ AuditKept \in Nat
  /\ HourlyKept \in Nat /\ RollSpan \in Nat /\ Lag \in Nat /\ Ahead \in Nat /\ Horizon \in Nat
  /\ Crashes \in Nat /\ Lag < SampleKept /\ Lag < AuditKept
BY ProjectionAssumption

LEMMA RecordingFacts ==
  ASSUME rec \in Recordings
  PROVE  /\ IsFiniteSet(Event)
         /\ \A e \in Event : /\ rec[e].ts \in Nat /\ HourOf(e) \in Hours
                             /\ rec[e].type \in {"sample", "session", "audit"}
                             /\ rec[e].st \in {"locked", "active"}
         /\ Hours \subseteq Nat
<1>1. /\ IsFiniteSet(DOMAIN rec)
      /\ rec \in [DOMAIN rec -> [type : {"sample", "session", "audit"}, ts : 0 .. 2 * Horizon + 1,
                                 st : {"locked", "active"}]]
  BY ProjectionAssumption
<1>2. \A t \in 0 .. 2 * Horizon + 1 : t \in Nat /\ t \div 2 \in 0 .. Horizon
  BY ConstantTypes
<1> QED
  BY <1>1, <1>2, ConstantTypes DEF Event, HourOf, Hour, Hours

\* What was recorded does not change.
LEMMA Names ==
  ASSUME rec' = rec
  PROVE  /\ Event' = Event /\ Sample' = Sample /\ Session' = Session /\ Audit' = Audit
         /\ Passes' = Passes /\ \A e : HourOf(e)' = HourOf(e)
BY DEF Event, Sample, Session, Audit, OfType, Passes, HourOf

LEMMA LeastNatural ==
  ASSUME NEW T \in SUBSET Nat, T # {}
  PROVE  \E m \in T : \A n \in T : m <= n
<1> DEFINE R == {ss \in Nat \X Nat : ss[1] < ss[2]}
<1>1. IsWellFoundedOn(R, Nat)
  BY NatLessThanWellFounded DEF OpToRel
<1> HIDE DEF R
<1>2. PICK m \in T : \A n \in T : ~ (<<n, m>> \in R)
  BY <1>1, WFMin
<1>3. \A n \in T : ~ (n < m)
  BY <1>2 DEF R
<1> QED
  BY <1>2, <1>3

LEMMA LastFacts ==
  ASSUME NEW b \in Nat, NEW T \in SUBSET (0 .. b), T # {}
  PROVE  Last(T) \in T /\ \A u \in T : Last(T) >= u
<1> DEFINE D == {b - t : t \in T}
<1>1. D \in SUBSET Nat /\ D # {}
  <2>1. \A t \in T : b - t \in Nat /\ b - t \in D
    OBVIOUS
  <2>2. PICK t \in T : TRUE
    OBVIOUS
  <2> QED
    BY <2>1, <2>2
<1> HIDE DEF D
<1>2. PICK m \in D : \A n \in D : m <= n
  BY <1>1, LeastNatural
<1>3. PICK t \in T : m = b - t
  BY <1>2 DEF D
<1>4. \A u \in T : b - u \in D
  BY DEF D
<1>5. \A u \in T : t >= u
  BY <1>2, <1>3, <1>4
<1> QED
  BY <1>5 DEF Last

\* What a step does to the stored events, if it is not a commit: nothing.
LEMMA IngestFacts ==
  ASSUME Shape, Next
  PROVE  /\ rec' = rec
         /\ \A e \in Committed : recv'[e] = recv[e] /\ at'[e] = at[e] /\ e \in Committed'
         /\ \/ Committed' = Committed
            \/ \E S \in open : Commit(S) /\ Committed' \ Committed \subseteq S
<1>1. recv \in [Event -> Nat] /\ at \in [Event -> Nat] /\ open \in SUBSET SUBSET Event
      /\ Committed = Begun \ UNION open /\ Begun = {e \in Event : recv[e] > 0}
  BY DEF Shape, IngestShape, Committed, Begun
<1>2. ASSUME NEW S \in SUBSET Event, Begin(S)
      PROVE  /\ rec' = rec /\ Committed' = Committed
             /\ \A e \in Committed : recv'[e] = recv[e] /\ at'[e] = at[e]
  <2>1. /\ rec' = rec /\ open' = open \cup {S} /\ stamp' = stamp + 1 /\ stamp \in Nat
        /\ recv' = [e \in Event |-> IF e \in S THEN stamp + 1 ELSE recv[e]]
        /\ at' = [e \in Event |-> IF e \in S THEN now ELSE at[e]]
        /\ \A e \in S : recv[e] = 0
    BY <1>2 DEF Begin, Shape, IngestShape
  <2>2. \A e \in Committed : e \in Event /\ e \notin S
    BY <1>1, <2>1
  <2>3. Committed' = Committed
    <3>1. ASSUME NEW e
          PROVE  e \in Committed' <=> e \in Committed
      <4>1. e \in Committed' <=> e \in Event /\ recv'[e] > 0 /\ e \notin UNION open /\ e \notin S
        BY <2>1 DEF Committed, Begun, Event
      <4> QED
        BY <1>1, <2>1, <2>2, <4>1
    <3> QED
      BY <3>1
  <2> QED
    BY <2>1, <2>2, <2>3
<1>3. ASSUME NEW S \in open, Commit(S)
      PROVE  /\ rec' = rec /\ recv' = recv /\ at' = at
             /\ Committed \subseteq Committed' /\ Committed' \ Committed \subseteq S
  BY <1>3 DEF Commit, Committed, Begun, Event
<1>4. ASSUME Crash
      PROVE  /\ rec' = rec /\ Committed' = Committed
             /\ \A e \in Committed : recv'[e] = recv[e] /\ at'[e] = at[e]
  <2>1. /\ rec' = rec /\ open' = {}
        /\ recv' = [e \in Event |-> IF e \in UNION open THEN 0 ELSE recv[e]]
        /\ at' = [e \in Event |-> IF e \in UNION open THEN 0 ELSE at[e]]
    BY <1>4 DEF Crash
  <2>2. ASSUME NEW e
        PROVE  e \in Committed' <=> e \in Committed
    <3>1. e \in Committed' <=> e \in Event /\ recv'[e] > 0
      BY <2>1 DEF Committed, Begun, Event
    <3> QED
      BY <1>1, <2>1, <3>1
  <2> QED
    BY <1>1, <2>1, <2>2
<1>5. ASSUME UNCHANGED <<rec, recv, at, open>>
      PROVE  Committed' = Committed
  BY <1>5 DEF Committed, Begun, Event
<1>6. ASSUME \/ \E who \in {"forward", "nightly"} : Scan(who)
             \/ Steps \/ Prune \/ Tick
      PROVE  UNCHANGED <<rec, recv, at, open>>
  BY <1>6 DEF Scan, Steps, ReadBucket, ClearUsage, WriteUsage, ClearSpans, WriteSpans, WriteUnlocks, Advance,
     RollUp, Prune, Tick, ingest
<1> QED
  BY <1>2, <1>3, <1>4, <1>5, <1>6 DEF Next, Reproject

\* How long a row is kept does not change, nor what has been outlived: it only grows.
LEMMA KeptFacts ==
  /\ \A e : Kept(e) \in Nat /\ Lag < Kept(e)
  /\ Most(Lag, Trailing) \in Nat /\ Lag <= Most(Lag, Trailing) /\ Trailing <= Most(Lag, Trailing)
BY ConstantTypes DEF Kept, Most

LEMMA OutlivedStays ==
  ASSUME rec' = rec, Committed \subseteq Committed', \A e \in Committed : at'[e] = at[e],
         NEW e \in Committed, NEW h, Outlived(e, h)
  PROVE  Outlived(e, h)'
<1>1. PICK f \in Committed : Hour(rec[f].ts) = h /\ at[e] + Kept(e) < at[f] + Most(Lag, Trailing)
  BY DEF Outlived
<1>2. Kept(e)' = Kept(e)
  BY Names DEF Kept
<1>3. f \in Committed' /\ at'[f] = at[f] /\ at'[e] = at[e]
  OBVIOUS
<1> QED
  BY <1>1, <1>2, <1>3 DEF Outlived

LEMMA OutlivedSame ==
  ASSUME rec' = rec, Committed' = Committed, \A e \in Committed : at'[e] = at[e],
         NEW e \in Committed, NEW h
  PROVE  Outlived(e, h)' <=> Outlived(e, h)
<1>1. Kept(e)' = Kept(e)
  BY Names DEF Kept
<1> QED
  BY <1>1 DEF Outlived

LEMMA OutlivedGrows ==
  ASSUME Shape, Next, NEW e \in Committed, NEW h, Outlived(e, h)
  PROVE  Outlived(e, h)'
<1>1. rec' = rec /\ Committed \subseteq Committed' /\ \A f \in Committed : at'[f] = at[f]
  BY IngestFacts
<1> QED
  BY <1>1, OutlivedStays

-----------------------------------------------------------------------------
(* Types. *)

LEMMA PassStays ==
  ASSUME pass \in Passes, rec' = rec, Committed \subseteq Committed',
         pass.rows \in SUBSET Committed, UNCHANGED pass
  PROVE  pass' \in Passes' /\ pass'.rows \in SUBSET Committed'
BY DEF Passes, Event

LEMMA IngestKeepsShape ==
  ASSUME Shape, Grouped, (\E S \in SUBSET Event : Begin(S)) \/ (\E S \in open : Commit(S)) \/ Tick \/ Prune
  PROVE  Shape'
<1>1. IngestShape /\ TableShape /\ PassShape /\ rec' = rec /\ UNCHANGED pass /\ UNCHANGED torn
      /\ UNCHANGED <<daily, spans, logged, unlocks>>
  BY DEF Shape, Begin, Commit, Tick, Prune, ingest, tables
<1>2. Committed \subseteq Committed'
  <2>1. CASE \E S \in SUBSET Event : Begin(S)
    <3>1. PICK S \in SUBSET Event : Begin(S)
      BY <2>1
    <3>2. \A e \in Committed : recv[e] > 0 /\ e \in Event
      BY DEF Committed, Begun
    <3> QED
      BY <1>1, <3>1, <3>2 DEF Begin, Committed, Begun, IngestShape, Event
  <2>2. CASE \E S \in open : Commit(S)
    BY <2>2 DEF Commit, Committed, Begun, Event
  <2>3. CASE Tick \/ Prune
    BY <2>3 DEF Tick, Prune, Committed, Begun, ingest, Event
  <2> QED
    BY <2>1, <2>2, <2>3
<1>3. PassShape'
  BY <1>1, <1>2, PassStays DEF PassShape
<1>4. Event' = Event /\ Sample' = Sample /\ Session' = Session /\ Audit' = Audit
  BY <1>1, Names
<1>5. IngestShape'
  <2>1. CASE \E S \in SUBSET Event : Begin(S)
    BY <1>1, <1>2, <1>4, <2>1 DEF Begin, IngestShape
  <2>2. CASE \E S \in open : Commit(S)
    <3>1. PICK S \in open : Commit(S)
      BY <2>2
    <3>2. late' \in SUBSET Event /\ open' \in SUBSET SUBSET Event /\ ordered' \in BOOLEAN
      BY <1>1, <3>1 DEF Commit, IngestShape
    <3>3. S \subseteq Committed'
      <4>1. S \subseteq Begun /\ \A T \in open \ {S} : S \cap T = {}
        BY DEF Grouped
      <4>2. Committed' = Begun \ UNION (open \ {S})
        BY <1>1, <3>1 DEF Commit, Committed, Begun, Event
      <4> QED
        BY <4>1, <4>2
    <3>4. events' \in SUBSET Committed'
      BY <1>1, <1>2, <3>1, <3>3 DEF Commit, IngestShape
    <3> QED
      BY <1>1, <1>4, <3>1, <3>2, <3>4 DEF Commit, IngestShape
  <2>3. CASE Tick \/ Prune
    BY <1>1, <1>2, <1>4, <2>3 DEF Tick, Prune, IngestShape, ingest
  <2> QED
    BY <2>1, <2>2, <2>3
<1>6. TableShape'
  <2>1. usage' = usage \/ usage' = [h \in Hours |-> IF h < now - HourlyKept THEN {} ELSE usage[h]]
    BY DEF Begin, Commit, Tick, Prune, tables
  <2>2. usage' \in [Hours -> SUBSET Sample]
    BY <1>1, <2>1 DEF TableShape
  <2>3. daily' \in [{Day(h) : h \in Hours} -> SUBSET Sample'] /\ logged' \in SUBSET Audit'
        /\ unlocks' \in SUBSET Session'
    BY <1>1, <1>4 DEF TableShape
  <2> QED
    BY <1>1, <1>4, <2>2, <2>3 DEF TableShape
<1> QED
  BY <1>3, <1>5, <1>6 DEF Shape

LEMMA FirstFacts ==
  ASSUME NEW T \in SUBSET Nat, T # {}
  PROVE  First(T) \in T /\ \A u \in T : First(T) <= u
<1>1. \E t \in T : \A u \in T : t <= u
  BY LeastNatural
<1> QED
  BY <1>1 DEF First

LEMMA TsFacts ==
  ASSUME rec \in Recordings, NEW E \in SUBSET Event
  PROVE  Ts(E) \in SUBSET Nat
BY RecordingFacts DEF Ts

\* A span ends at a transition, or not at all.
LEMMA SpanEnds ==
  ASSUME Shape
  PROVE  /\ \A e \in pass.rows \cap Session : EndOf(e) \in Nat \cup {Never}
         /\ After \in Nat \cup {Never}
         /\ CloseEarlier \in SUBSET [from : Nat, kind : {"locked", "active"}, to : Nat \cup {Never}]
<1>1. /\ rec \in Recordings /\ pass.rows \cap Session \in SUBSET Event /\ Transitions \in SUBSET Event
      /\ spans \in SUBSET [from : Nat, kind : {"locked", "active"}, to : Nat \cup {Never}]
  BY DEF Shape, IngestShape, TableShape, PassShape, Transitions, Session, OfType, Committed, Begun
<1>2. Ts(pass.rows \cap Session) \in SUBSET Nat /\ Ts(Transitions) \in SUBSET Nat
  BY <1>1, TsFacts
<1>3. ASSUME NEW e \in pass.rows \cap Session
      PROVE  EndOf(e) \in Nat \cup {Never}
  <2> DEFINE I == {t \in Ts(pass.rows \cap Session) : t > rec[e].ts}
  <2>1. I \in SUBSET Nat
    BY <1>2
  <2>2. I # {} => First(I) \in Nat
    BY <2>1, FirstFacts
  <2>3. pass.after \in Nat \cup {Never}
    BY DEF Shape, PassShape, Passes
  <2>4. EndOf(e) = IF I # {} THEN First(I) ELSE pass.after
    BY DEF EndOf
  <2> HIDE DEF I
  <2> QED
    BY <2>2, <2>3, <2>4
<1>4. ASSUME NEW s \in spans
      PROVE  (IF s.to = Never /\ Hour(s.from) < pass.hour /\ \E t \in Ts(Transitions) : t > s.from
              THEN [s EXCEPT !.to = First({t \in Ts(Transitions) : t > s.from})] ELSE s)
               \in [from : Nat, kind : {"locked", "active"}, to : Nat \cup {Never}]
  <2> DEFINE T == {t \in Ts(Transitions) : t > s.from}
  <2>1. T # {} => First(T) \in Nat
    BY <1>2, FirstFacts
  <2>2. (\E t \in Ts(Transitions) : t > s.from) => T # {}
    OBVIOUS
  <2>3. s \in [from : Nat, kind : {"locked", "active"}, to : Nat \cup {Never}]
    BY <1>1, <1>4
  <2> HIDE DEF T
  <2>4. T # {} => [s EXCEPT !.to = First(T)] \in [from : Nat, kind : {"locked", "active"}, to : Nat \cup {Never}]
    BY <2>1, <2>3
  <2> QED
    BY <2>2, <2>3, <2>4 DEF T
<1>5. After \in Nat \cup {Never}
  <2> DEFINE A == {t \in Ts(Transitions) : Hour(t) > pass.hour}
  <2>1. A \in SUBSET Nat
    BY <1>2
  <2>2. A # {} => First(A) \in Nat
    BY <2>1, FirstFacts
  <2>3. After = IF A # {} THEN First(A) ELSE Never
    BY DEF After
  <2> HIDE DEF A
  <2> QED
    BY <2>2, <2>3
<1> QED
  BY <1>3, <1>4, <1>5 DEF CloseEarlier

LEMMA ScanKeepsShape ==
  ASSUME Shape, NEW who \in {"forward", "nightly"}, NEW used \in SUBSET Begun,
         pass' = [Idle EXCEPT !.who = who,
                     !.step = IF used = {} THEN "rollup" ELSE "buckets",
                     !.dirty = {Hour(rec[e].ts) : e \in used},
                     !.upto = IF used = {} THEN 0 ELSE Last({recv[e] : e \in used})],
         \A e \in Begun : recv[e] <= stamp,
         UNCHANGED rec
  PROVE  /\ pass' \in Passes /\ pass'.rows = {} /\ pass'.who = who
         /\ pass'.step = IF used = {} THEN "rollup" ELSE "buckets"
         /\ pass'.dirty = {HourOf(e) : e \in used}
         /\ pass'.upto \in Nat
         /\ used # {} => \E e \in used : recv[e] = pass'.upto /\ \A f \in used : recv[f] <= recv[e]
<1>1. /\ rec \in Recordings /\ recv \in [Event -> Nat] /\ stamp \in Nat /\ used \in SUBSET Event
  BY DEF Shape, IngestShape, Begun
<1>2. {Hour(rec[e].ts) : e \in used} \in SUBSET Hours
  BY <1>1, RecordingFacts DEF HourOf
<1>3. used # {} =>
        /\ Last({recv[e] : e \in used}) \in {recv[e] : e \in used}
        /\ \A f \in used : Last({recv[e] : e \in used}) >= recv[f]
  <2> DEFINE T == {recv[e] : e \in used}
  <2>1. T \in SUBSET (0 .. stamp)
    BY <1>1 DEF Begun
  <2>2. used # {} => T # {}
    OBVIOUS
  <2>3. T # {} => Last(T) \in T /\ \A u \in T : Last(T) >= u
    BY <1>1, <2>1, LastFacts
  <2>4. \A f \in used : recv[f] \in T
    OBVIOUS
  <2> HIDE DEF T
  <2>5. used # {} => Last(T) \in T /\ \A f \in used : Last(T) >= recv[f]
    BY <2>2, <2>3, <2>4
  <2> QED
    BY <2>5 DEF T
<1>4. (IF used = {} THEN 0 ELSE Last({recv[e] : e \in used})) \in Nat
  BY <1>1, <1>3
<1>5. 0 \in Hours
  BY ConstantTypes DEF Hours
<1>6. Idle \in Passes
  BY <1>5 DEF Idle, Passes
<1>7. /\ pass'.who = who /\ pass'.step = IF used = {} THEN "rollup" ELSE "buckets"
      /\ pass'.dirty = {Hour(rec[e].ts) : e \in used}
      /\ pass'.upto = IF used = {} THEN 0 ELSE Last({recv[e] : e \in used})
      /\ pass'.rows = {} /\ pass'.hour = 0
  BY DEF Idle
<1>8. pass' \in Passes
  BY <1>2, <1>4, <1>6, <1>7 DEF Passes, Working
<1>9. ASSUME used # {}
      PROVE  \E e \in used : recv[e] = pass'.upto /\ \A f \in used : recv[f] <= recv[e]
  <2>1. pass'.upto \in {recv[e] : e \in used} /\ \A f \in used : pass'.upto >= recv[f]
    BY <1>3, <1>7, <1>9
  <2>2. PICK e \in used : recv[e] = pass'.upto
    BY <2>1
  <2>3. \A f \in used : recv[f] <= recv[e]
    BY <1>1, <2>1, <2>2
  <2> QED
    BY <2>2, <2>3
<1> QED
  BY <1>4, <1>7, <1>8, <1>9 DEF HourOf

\* A full batch that loses its last group keeps all that is stamped before it.
LEMMA UsableFacts ==
  ASSUME Shape, \A e \in Begun : recv[e] <= stamp, NEW S \in SUBSET Begun, S # {}
  PROVE  /\ Usable(S) \in SUBSET S /\ Usable(S) # {}
         /\ \E l \in S :
              /\ \A e \in S : recv[e] <= recv[l]
              /\ \/ Usable(S) = S
                      /\ (Cardinality(S) < Limit \/ \A e \in S : recv[e] = recv[l])
                 \/ Usable(S) = {e \in S : recv[e] # recv[l]}
<1> DEFINE T == {recv[e] : e \in S}
           whole == {e \in S : recv[e] # Last(T)}
<1>1. recv \in [Event -> Nat] /\ stamp \in Nat /\ S \in SUBSET Event
  BY DEF Shape, IngestShape, Begun
<1>2. T \in SUBSET (0 .. stamp) /\ T # {}
  BY <1>1 DEF Begun
<1>3. Last(T) \in T /\ \A u \in T : Last(T) >= u
  BY <1>1, <1>2, LastFacts
<1>4. PICK l \in S : recv[l] = Last(T)
  BY <1>3
<1>5. \A e \in S : recv[e] \in T
  OBVIOUS
<1>6. \A e \in S : recv[e] <= recv[l]
  BY <1>1, <1>3, <1>4, <1>5
<1>7. Usable(S) = IF Cardinality(S) < Limit \/ whole = {} THEN S ELSE whole
  BY DEF Usable
<1>8. whole = {e \in S : recv[e] # recv[l]}
  BY <1>4
<1> HIDE DEF T, whole
<1>9. CASE Cardinality(S) < Limit
  BY <1>6, <1>7, <1>9
<1>10. CASE whole = {}
  <2>1. \A e \in S : recv[e] = recv[l]
    BY <1>8, <1>10
  <2> QED
    BY <1>6, <1>7, <1>10, <2>1
<1>11. CASE ~(Cardinality(S) < Limit) /\ whole # {}
  <2>1. Usable(S) = whole
    BY <1>7, <1>11
  <2> QED
    BY <1>6, <1>8, <1>11, <2>1
<1> QED
  BY <1>9, <1>10, <1>11

\* What a scan takes, and that whatever else is stored was stamped later.
Takes(who, used) ==
  /\ \A e \in used : Since(e, who)
  /\ pass' \in Passes /\ pass'.rows = {} /\ pass'.who = who
  /\ pass'.step = IF used = {} THEN "rollup" ELSE "buckets"
  /\ pass'.dirty = {HourOf(e) : e \in used}
  /\ used # {} => \E e \in used : recv[e] = pass'.upto
  /\ used # {} => \A e \in events : Since(e, who) /\ recv[e] <= pass'.upto => e \in used

LEMMA ScanFacts ==
  ASSUME Shape, Grouped, NEW who \in {"forward", "nightly"}, Scan(who)
  PROVE  \E used \in SUBSET events : Takes(who, used)
<1>1. /\ rec' = rec /\ events \in SUBSET Begun /\ recv \in [Event -> Nat] /\ Begun \in SUBSET Event
      /\ rec \in Recordings
  BY DEF Shape, IngestShape, Scan, Committed, Begun, ingest
<1>2. \A e \in Begun : recv[e] <= stamp
  BY DEF Grouped
<1> DEFINE rows == {e \in events : Since(e, who)}
<1>3. PICK S \in Batches(who) :
        pass' = LET used == IF S = {} THEN {} ELSE Usable(S)
                IN  [Idle EXCEPT !.who = who,
                     !.step = IF used = {} THEN "rollup" ELSE "buckets",
                     !.dirty = {Hour(rec[e].ts) : e \in used},
                     !.upto = IF used = {} THEN 0 ELSE Last({recv[e] : e \in used})]
  BY DEF Scan
<1>4. /\ S \in SUBSET rows
      /\ S = rows \/ Cardinality(S) = Limit
      /\ \A e \in S, f \in rows \ S : recv[e] <= recv[f]
  BY <1>3 DEF Batches
<1> DEFINE used == IF S = {} THEN {} ELSE Usable(S)
<1>5. S \in SUBSET Begun /\ rows \in SUBSET Begun
  BY <1>1, <1>4
<1>6. used \in SUBSET S
  <2>1. S # {} => Usable(S) \in SUBSET S
    BY <1>2, <1>5, UsableFacts
  <2> QED
    BY <2>1
<1>7. /\ pass' \in Passes /\ pass'.rows = {} /\ pass'.who = who
      /\ pass'.step = IF used = {} THEN "rollup" ELSE "buckets"
      /\ pass'.dirty = {HourOf(e) : e \in used}
      /\ used # {} => \E e \in used : recv[e] = pass'.upto /\ \A f \in used : recv[f] <= recv[e]
  <2>1. used \in SUBSET Begun
    BY <1>5, <1>6
  <2>2. pass' = [Idle EXCEPT !.who = who,
                     !.step = IF used = {} THEN "rollup" ELSE "buckets",
                     !.dirty = {Hour(rec[e].ts) : e \in used},
                     !.upto = IF used = {} THEN 0 ELSE Last({recv[e] : e \in used})]
    BY <1>3
  <2> HIDE DEF used
  <2> QED
    BY <1>1, <1>2, <2>1, <2>2, ScanKeepsShape
<1>8. ASSUME used # {}, NEW e \in rows, recv[e] <= pass'.upto, e \notin used
      PROVE  FALSE
  <2>1. S # {} /\ used = Usable(S)
    BY <1>8
  <2>2. PICK l \in S :
          /\ \A f \in S : recv[f] <= recv[l]
          /\ \/ used = S /\ (Cardinality(S) < Limit \/ \A f \in S : recv[f] = recv[l])
             \/ used = {f \in S : recv[f] # recv[l]}
    BY <1>2, <1>5, <2>1, UsableFacts
  <2>3. PICK m \in used : recv[m] = pass'.upto
    BY <1>7, <1>8
  <2>4. /\ m \in S /\ recv[m] \in Nat /\ recv[e] \in Nat /\ recv[l] \in Nat
        /\ recv[e] <= recv[m] /\ recv[m] <= recv[l]
    BY <1>1, <1>5, <1>6, <1>8, <2>2, <2>3
  <2>5. CASE e \in S
    <3>1. used = {f \in S : recv[f] # recv[l]} /\ recv[e] = recv[l]
      BY <1>8, <2>2, <2>5
    <3>2. recv[m] # recv[l]
      BY <2>3, <3>1
    <3> QED
      BY <2>4, <3>1, <3>2
  <2>6. CASE e \notin S
    <3>1. Cardinality(S) = Limit /\ \A f \in S : recv[f] <= recv[e]
      BY <1>4, <1>8, <2>6
    <3>2. recv[l] <= recv[e]
      BY <2>2, <3>1
    <3>3. recv[e] = recv[l] /\ recv[m] = recv[l]
      BY <2>4, <3>2
    <3>4. used = S /\ \A f \in S : recv[f] = recv[l]
      <4>1. used = S /\ (Cardinality(S) < Limit \/ \A f \in S : recv[f] = recv[l])
        BY <2>2, <2>3, <3>3
      <4> QED
        BY <3>1, <4>1, ConstantTypes
    <3> DEFINE G == {f \in Begun : recv[f] = recv[e]}
    <3>5. S \cup {e} \in SUBSET G /\ e \in Begun
      BY <1>5, <1>8, <3>3, <3>4
    <3>6. IsFiniteSet(Event)
      BY <1>1, RecordingFacts
    <3>7. IsFiniteSet(S) /\ IsFiniteSet(G)
      <4>1. S \in SUBSET Event /\ G \in SUBSET Event
        BY <1>1, <1>5
      <4> HIDE DEF G
      <4> QED
        BY <3>6, <4>1, FS_Subset
    <3>8. Cardinality(S \cup {e}) = Limit + 1
      BY <2>6, <3>1, <3>7, FS_AddElement
    <3>9. Cardinality(S \cup {e}) <= Cardinality(G)
      <4> HIDE DEF G
      <4> QED
        BY <3>5, <3>7, FS_Subset
    <3>10. Cardinality(G) <= MaxBatch
      BY <3>5 DEF Grouped
    <3>11. Cardinality(G) \in Nat
      <4> HIDE DEF G
      <4> QED
        BY <3>7, FS_CardinalityType
    <3> HIDE DEF G
    <3> QED
      BY <3>8, <3>9, <3>10, <3>11, ConstantTypes
  <2> QED
    BY <2>5, <2>6
<1>9. used \in SUBSET events /\ \A e \in used : Since(e, who)
  BY <1>4, <1>6
<1>10. used # {} => \A e \in events : Since(e, who) /\ recv[e] <= pass'.upto => e \in used
  BY <1>8
<1>11. used # {} => \E e \in used : recv[e] = pass'.upto
  BY <1>7
<1> HIDE DEF used
<1>12. Takes(who, used)
  BY <1>7, <1>9, <1>10, <1>11 DEF Takes
<1> QED
  BY <1>9, <1>12

\* The steps of a pass change the tables, and where it stands.
LEMMA StepFacts ==
  ASSUME Shape, Course, Steps
  PROVE  /\ UNCHANGED <<now, rec, stamp, recv, at, open, events, late, ordered, crashes>>
         /\ Committed' = Committed /\ Begun' = Begun
         /\ pass.step \in Working \cup {"rollup"}
BY DEF Steps, ReadBucket, ClearUsage, WriteUsage, ClearSpans, WriteSpans, WriteUnlocks, Advance, RollUp,
   ingest, Committed, Begun, Event, Working

LEMMA StepsKeepShape ==
  ASSUME Shape, Course, Steps
  PROVE  Shape'
<1>1. /\ IngestShape /\ TableShape /\ PassShape /\ pass \in Passes /\ pass.rows \in SUBSET Committed
      /\ watermark \in Nat /\ events \in SUBSET Committed /\ rec \in Recordings
  BY DEF Shape, IngestShape, PassShape
<1>2. /\ UNCHANGED <<now, rec, stamp, recv, at, open, events, late, ordered, crashes>>
      /\ Committed' = Committed
  BY StepFacts
<1>3. Event' = Event /\ Sample' = Sample /\ Session' = Session /\ Audit' = Audit /\ Passes' = Passes
  BY <1>2, Names
<1>4. Committed \in SUBSET Event
  BY DEF Committed, Begun
<1>5. /\ pass' \in Passes /\ pass'.rows \in SUBSET Committed
      /\ watermark' \in Nat
  <2>1. ASSUME NEW h \in pass.dirty, ReadBucket(h)
        PROVE  pass' \in Passes /\ pass'.rows \in SUBSET Committed
    <3>1. /\ pass' = [pass EXCEPT !.step = "clear", !.hour = h, !.rows = {e \in events : Hour(rec[e].ts) = h}]
          /\ h \in Hours
      BY <1>1, <2>1 DEF ReadBucket, Passes
    <3>2. {e \in events : Hour(rec[e].ts) = h} \in SUBSET Committed
      BY <1>1
    <3> QED
      BY <1>1, <1>4, <3>1, <3>2 DEF Passes, Working
  <2>2. ASSUME ClearUsage \/ WriteUsage \/ ClearSpans \/ WriteSpans
        PROVE  pass' \in Passes /\ pass'.rows \in SUBSET Committed
    <3>1. After \in Nat \cup {Never}
      BY SpanEnds
    <3>2. \E st \in Working : \/ pass' = [pass EXCEPT !.step = st]
                             \/ pass' = [pass EXCEPT !.step = st, !.after = After]
                             \/ pass' = [pass EXCEPT !.step = st, !.after = Never]
      BY <2>2 DEF ClearUsage, WriteUsage, ClearSpans, WriteSpans, Working
    <3> QED
      BY <1>1, <3>1, <3>2 DEF Passes
  <2>3. ASSUME WriteUnlocks
        PROVE  pass' \in Passes /\ pass'.rows \in SUBSET Committed
    <3>1. /\ pass' = [pass EXCEPT !.dirty = @ \ {pass.hour}, !.rows = {}, !.hour = 0,
               !.step = IF pass.dirty = {pass.hour} THEN "advance" ELSE "buckets"]
          /\ 0 \in Hours
      BY <2>3, ConstantTypes DEF WriteUnlocks, Hours
    <3> QED
      BY <1>1, <3>1 DEF Passes, Working
  <2>4. ASSUME Advance
        PROVE  pass' \in Passes /\ pass'.rows \in SUBSET Committed /\ watermark' \in Nat
    BY <1>1, <2>4 DEF Advance, Passes
  <2>5. ASSUME RollUp
        PROVE  pass' \in Passes /\ pass'.rows \in SUBSET Committed
    <3>1. 0 \in Hours
      BY ConstantTypes DEF Hours
    <3> QED
      BY <2>5, <3>1 DEF RollUp, Idle, Passes
  <2>6. Advance \/ watermark' = watermark
    BY DEF Steps, ReadBucket, ClearUsage, WriteUsage, ClearSpans, WriteSpans, WriteUnlocks, RollUp, tables
  <2> QED
    BY <1>1, <2>1, <2>2, <2>3, <2>4, <2>5, <2>6 DEF Steps
<1>6. /\ usage' \in [Hours -> SUBSET Sample] /\ logged' \in SUBSET Audit /\ unlocks' \in SUBSET Session
      /\ torn' \in SUBSET ({"forward", "nightly"} \X Hours \X {"usage", "spans"})
  <2>1. /\ usage \in [Hours -> SUBSET Sample] /\ logged \in SUBSET Audit /\ unlocks \in SUBSET Session
        /\ torn \in SUBSET ({"forward", "nightly"} \X Hours \X {"usage", "spans"})
    BY <1>1 DEF TableShape
  <2>2. CASE ClearUsage \/ WriteUsage
    <3>1. /\ \E E \in SUBSET Sample : usage' = [usage EXCEPT ![pass.hour] = E]
          /\ logged' \in SUBSET Audit
      BY <2>1, <2>2 DEF ClearUsage, WriteUsage
    <3>2. torn' \in SUBSET torn /\ unlocks' = unlocks
      BY <2>2 DEF ClearUsage, WriteUsage
    <3> QED
      BY <2>1, <3>1, <3>2
  <2>3. CASE ~(ClearUsage \/ WriteUsage)
    <3>1. usage' = usage /\ logged' = logged
      BY <2>3 DEF Steps, ReadBucket, ClearSpans, WriteSpans, WriteUnlocks, Advance, RollUp, tables
    <3>2. unlocks' = unlocks \/ WriteUnlocks
      BY <2>3 DEF Steps, ReadBucket, ClearSpans, WriteSpans, Advance, RollUp, tables
    <3>3. WriteUnlocks => unlocks' \in SUBSET Session
      BY <2>1 DEF WriteUnlocks
    <3>4. torn' \in SUBSET torn
      BY <2>3 DEF Steps, ReadBucket, ClearSpans, WriteSpans, WriteUnlocks, Advance, RollUp, tables
    <3> QED
      BY <2>1, <3>1, <3>2, <3>3, <3>4
  <2> QED
    BY <2>2, <2>3
<1>7. daily' \in [{Day(h) : h \in Hours} -> SUBSET Sample]
  <2>1. CASE RollUp
    <3>1. /\ DOMAIN daily = {Day(h) : h \in Hours} /\ daily \in [{Day(h) : h \in Hours} -> SUBSET Sample]
          /\ usage \in [Hours -> SUBSET Sample]
      BY <1>1 DEF TableShape
    <3>2. ASSUME NEW x \in DOMAIN daily
          PROVE  UNION {usage[h] : h \in {h \in Hours : Day(h) = x /\ h >= now - RollSpan}} \in SUBSET Sample
      BY <3>1
    <3> QED
      BY <2>1, <3>1, <3>2 DEF RollUp
  <2>2. CASE ~RollUp
    <3>1. daily' = daily
      BY <2>2 DEF Steps, ReadBucket, ClearUsage, WriteUsage, ClearSpans, WriteSpans, WriteUnlocks, Advance, tables
    <3> QED
      BY <1>1, <3>1 DEF TableShape
  <2> QED
    BY <2>1, <2>2
<1>8. spans' \in SUBSET [from : Nat, kind : {"locked", "active"}, to : Nat \cup {Never}]
  <2>1. spans \in SUBSET [from : Nat, kind : {"locked", "active"}, to : Nat \cup {Never}]
    BY <1>1 DEF TableShape
  <2>2. CASE WriteSpans
    <3>1. \A e \in pass.rows \cap Session :
            /\ rec[e].ts \in Nat /\ rec[e].st \in {"locked", "active"}
            /\ EndOf(e) \in Nat \cup {Never}
      BY <1>1, <1>4, RecordingFacts, SpanEnds
    <3> QED
      BY <2>1, <2>2, <3>1 DEF WriteSpans
  <2>3. CASE WriteUnlocks
    BY <2>3, SpanEnds DEF WriteUnlocks
  <2>5. CASE ClearSpans
    BY <2>1, <2>5 DEF ClearSpans
  <2>4. CASE ~WriteSpans /\ ~WriteUnlocks /\ ~ClearSpans
    <3>1. spans' = spans
      BY <2>4 DEF Steps, ReadBucket, ClearUsage, WriteUsage, Advance, RollUp, tables
    <3> QED
      BY <2>1, <3>1
  <2> QED
    BY <2>2, <2>3, <2>4, <2>5
<1>9. IngestShape'
  BY <1>1, <1>2, <1>3, <1>5 DEF IngestShape
<1>10. TableShape'
  BY <1>3, <1>6, <1>7, <1>8 DEF TableShape
<1>11. PassShape'
  BY <1>2, <1>3, <1>5 DEF PassShape
<1> QED
  BY <1>9, <1>10, <1>11 DEF Shape

LEMMA TablesStay ==
  ASSUME TableShape, rec' = rec, UNCHANGED tables,
         torn' \in SUBSET ({"forward", "nightly"} \X Hours \X {"usage", "spans"})
  PROVE  TableShape'
<1>1. Sample' = Sample /\ Session' = Session /\ Audit' = Audit
  BY Names
<1>2. UNCHANGED <<usage, daily, spans, logged, unlocks>>
  BY DEF tables
<1> QED
  BY <1>1, <1>2 DEF TableShape

LEMMA ScanKeepsAllShape ==
  ASSUME Shape, Grouped, NEW who \in {"forward", "nightly"}, Scan(who)
  PROVE  Shape'
<1>1. /\ IngestShape /\ TableShape
      /\ UNCHANGED <<now, rec, stamp, recv, at, open, events, late, ordered, crashes, watermark, torn>>
      /\ UNCHANGED tables
  BY DEF Shape, Scan, ingest
<1>2. Event' = Event /\ Passes' = Passes /\ Committed' = Committed
  BY <1>1, Names DEF Committed, Begun
<1>3. PassShape'
  BY <1>2, ScanFacts DEF Takes, PassShape
<1>4. TableShape'
  BY <1>1, TablesStay DEF TableShape
<1>5. IngestShape'
  BY <1>1, <1>2 DEF IngestShape
<1> QED
  BY <1>3, <1>4, <1>5 DEF Shape

LEMMA CrashKeepsShape ==
  ASSUME Shape, Course, Crash
  PROVE  Shape'
<1>1. /\ IngestShape /\ TableShape /\ pass \in Passes
      /\ UNCHANGED <<rec, now, stamp, events, late, ordered, watermark>> /\ UNCHANGED tables
      /\ pass' = Idle /\ crashes' = crashes + 1 /\ open' = {}
      /\ recv' = [e \in Event |-> IF e \in UNION open THEN 0 ELSE recv[e]]
      /\ at' = [e \in Event |-> IF e \in UNION open THEN 0 ELSE at[e]]
      /\ torn' = torn \cup (IF pass.step = "write" THEN {<<pass.who, pass.hour, "usage">>} ELSE {})
                  \cup (IF pass.step = "respan" THEN {<<pass.who, pass.hour, "spans">>} ELSE {})
  BY DEF Shape, PassShape, Crash
<1>2. Event' = Event /\ Passes' = Passes
  BY <1>1, Names
<1>3. Committed' = Committed
  <2>1. ASSUME NEW e
        PROVE  e \in Committed' <=> e \in Committed
    <3>1. e \in Committed' <=> e \in Event /\ recv'[e] > 0
      BY <1>1, <1>2 DEF Committed, Begun
    <3> QED
      BY <1>1, <3>1 DEF Committed, Begun, IngestShape
  <2> QED
    BY <2>1
<1>4. torn' \in SUBSET ({"forward", "nightly"} \X Hours \X {"usage", "spans"})
  <2>1. pass.step \in {"write", "respan"} => pass.who \in {"forward", "nightly"} /\ pass.hour \in Hours
    BY <1>1 DEF Passes, Course
  <2> QED
    BY <1>1, <2>1 DEF TableShape
<1>5. TableShape'
  BY <1>1, <1>4, TablesStay
<1>6. PassShape'
  <2>1. 0 \in Hours
    BY ConstantTypes DEF Hours
  <2> QED
    BY <1>1, <1>2, <2>1 DEF PassShape, Passes, Idle
<1>7. IngestShape'
  BY <1>1, <1>2, <1>3 DEF IngestShape
<1> QED
  BY <1>5, <1>6, <1>7 DEF Shape

LEMMA NextKeepsShape ==
  ASSUME Shape, Course, Grouped, Next
  PROVE  Shape'
BY IngestKeepsShape, ScanKeepsAllShape, StepsKeepShape, CrashKeepsShape DEF Next, Reproject

-----------------------------------------------------------------------------
(* The course of a pass, the stamps, what is stored. *)

\* Neither ingest nor prune nor time touch the pass.
LEMMA PassLeftAlone ==
  ASSUME (\E S \in SUBSET Event : Begin(S)) \/ (\E S \in open : Commit(S)) \/ Prune \/ Tick
  PROVE  UNCHANGED <<pass, watermark, torn, logged>>
BY DEF Begin, Commit, Prune, Tick, tables

LEMMA NextKeepsCourse ==
  ASSUME Shape, Grouped, Course, Next
  PROVE  Course'
<1>1. pass \in Passes /\ watermark \in Nat /\ recv \in [Event -> Nat] /\ events \in SUBSET Event
  BY DEF Shape, PassShape, IngestShape, Committed, Begun
<1>2. CASE (\E S \in SUBSET Event : Begin(S)) \/ (\E S \in open : Commit(S)) \/ Prune \/ Tick
  BY <1>2, PassLeftAlone DEF Course
<1>3. ASSUME NEW who \in {"forward", "nightly"}, Scan(who)
      PROVE  Course'
  <2>1. PICK used \in SUBSET events : Takes(who, used)
    BY <1>3, ScanFacts
  <2>2. watermark' = watermark
    BY <1>3 DEF Scan
  <2>3. used # {} /\ who = "forward" => pass'.upto > watermark'
    BY <1>1, <2>1, <2>2 DEF Takes, Since
  <2>4. used = {} => pass'.step = "rollup" /\ pass'.dirty = {}
    BY <2>1 DEF Takes
  <2>5. used # {} => pass'.step = "buckets"
    BY <2>1 DEF Takes
  <2>6. pass'.who = who
    BY <2>1 DEF Takes
  <2> QED
    BY <2>3, <2>4, <2>5, <2>6 DEF Course, Working
<1>4. CASE Crash
  BY <1>4 DEF Crash, Idle, Course, Working
<1>5. CASE \E h \in pass.dirty : ReadBucket(h)
  <2>1. PICK h \in pass.dirty : ReadBucket(h)
    BY <1>5
  <2>2. /\ pass' = [pass EXCEPT !.step = "clear", !.hour = h, !.rows = {e \in events : Hour(rec[e].ts) = h}]
        /\ watermark' = watermark /\ pass.step = "buckets"
    BY <2>1 DEF ReadBucket
  <2> QED
    BY <1>1, <2>1, <2>2 DEF Course, Passes, Working
<1>6. CASE ClearUsage \/ WriteUsage \/ ClearSpans \/ WriteSpans
  <2>1. /\ \/ pass.step = "clear" /\ pass' = [pass EXCEPT !.step = "write"]
           \/ pass.step = "write" /\ pass' = [pass EXCEPT !.step = "spans"]
           \/ pass.step = "spans" /\ pass' = [pass EXCEPT !.step = "respan", !.after = After]
           \/ pass.step = "respan" /\ pass' = [pass EXCEPT !.step = "unlocks", !.after = Never]
        /\ watermark' = watermark
    BY <1>6 DEF ClearUsage, WriteUsage, ClearSpans, WriteSpans
  <2> QED
    BY <1>1, <2>1 DEF Course, Passes, Working
<1>7. CASE WriteUnlocks
  <2>1. /\ pass' = [pass EXCEPT !.dirty = @ \ {pass.hour}, !.rows = {}, !.hour = 0,
               !.step = IF pass.dirty = {pass.hour} THEN "advance" ELSE "buckets"]
        /\ watermark' = watermark /\ pass.step = "unlocks"
    BY <1>7 DEF WriteUnlocks
  <2> QED
    BY <1>1, <2>1 DEF Course, Passes, Working
<1>8. CASE Advance
  <2>1. pass.step = "advance" /\ pass' = [pass EXCEPT !.step = "rollup"]
    BY <1>8 DEF Advance
  <2> QED
    BY <1>1, <2>1 DEF Course, Passes, Working
<1>9. CASE RollUp
  BY <1>9 DEF RollUp, Idle, Course, Working
<1> QED
  BY <1>2, <1>3, <1>4, <1>5, <1>6, <1>7, <1>8, <1>9 DEF Next, Steps, Reproject

LEMMA GroupedStays ==
  ASSUME Grouped, UNCHANGED <<rec, recv, open, stamp>>
  PROVE  Grouped'
BY DEF Grouped, Begun, Event

LEMMA BeginKeepsGrouped ==
  ASSUME Shape, Grouped, NEW S \in SUBSET Event, Cardinality(S) <= MaxBatch, Begin(S)
  PROVE  Grouped'
<1>1. /\ rec' = rec /\ open' = open \cup {S} /\ stamp' = stamp + 1 /\ stamp \in Nat
      /\ recv \in [Event -> Nat]
      /\ recv' = [e \in Event |-> IF e \in S THEN stamp + 1 ELSE recv[e]]
      /\ \A e \in S : recv[e] = 0
  BY DEF Begin, Shape, IngestShape
<1>2. Event' = Event /\ Begun' = Begun \cup S /\ Begun \cap S = {}
  <2>1. Event' = Event
    BY <1>1, Names
  <2> QED
    BY <1>1, <2>1 DEF Begun
<1>3. \A e \in Begun : recv[e] <= stamp /\ recv'[e] = recv[e] /\ recv[e] \in Nat
  BY <1>1, <1>2 DEF Grouped, Begun
<1>4. \A e \in S : recv'[e] = stamp + 1
  BY <1>1
<1>5. ASSUME NEW e \in Begun'
      PROVE  recv'[e] <= stamp'
  <2>1. CASE e \in S
    BY <1>1, <1>4, <2>1
  <2>2. CASE e \in Begun
    <3>1. recv[e] <= stamp /\ recv'[e] = recv[e] /\ recv[e] \in Nat
      BY <1>3, <2>2
    <3>2. stamp' = stamp + 1 /\ stamp \in Nat
      BY <1>1
    <3> QED
      BY <3>1, <3>2
  <2> QED
    BY <1>2, <2>1, <2>2
<1>6. ASSUME NEW T \in open'
      PROVE  T \subseteq Begun' /\ \A U \in open' : T # U => T \cap U = {}
  <2>1. \A U \in open : U \subseteq Begun /\ \A V \in open : U # V => U \cap V = {}
    BY DEF Grouped
  <2>2. T = S \/ T \in open
    BY <1>1
  <2>3. T \subseteq Begun'
    BY <1>2, <2>1, <2>2
  <2>4. ASSUME NEW U \in open', T # U
        PROVE  T \cap U = {}
    <3>1. U = S \/ U \in open
      BY <1>1
    <3>2. CASE T \in open /\ U \in open
      BY <2>1, <2>4, <3>2
    <3>3. CASE T = S /\ U \in open
      BY <1>2, <2>1, <3>3
    <3>4. CASE T \in open /\ U = S
      BY <1>2, <2>1, <3>4
    <3> QED
      BY <2>2, <2>4, <3>1, <3>2, <3>3, <3>4
  <2> QED
    BY <2>3, <2>4
<1>7. ASSUME NEW e \in Begun'
      PROVE  Cardinality({f \in Begun' : recv'[f] = recv'[e]}) <= MaxBatch
  <2>1. CASE e \in S
    <3>0. ASSUME NEW f \in Begun'
          PROVE  recv'[f] = recv'[e] <=> f \in S
      BY <1>1, <1>2, <1>3, <1>4, <2>1
    <3>1. {f \in Begun' : recv'[f] = recv'[e]} = S
      BY <1>2, <3>0
    <3> QED
      BY <3>1
  <2>2. CASE e \in Begun
    <3>0. ASSUME NEW f \in Begun'
          PROVE  recv'[f] = recv'[e] <=> f \in Begun /\ recv[f] = recv[e]
      BY <1>1, <1>2, <1>3, <1>4, <2>2
    <3>1. {f \in Begun' : recv'[f] = recv'[e]} = {f \in Begun : recv[f] = recv[e]}
      BY <1>2, <3>0
    <3> QED
      BY <2>2, <3>1 DEF Grouped
  <2> QED
    BY <1>2, <2>1, <2>2
<1> QED
  BY <1>5, <1>6, <1>7 DEF Grouped

LEMMA CrashKeepsGrouped ==
  ASSUME Shape, Grouped, Crash
  PROVE  Grouped'
<1>1. /\ rec' = rec /\ open' = {} /\ stamp' = stamp /\ recv \in [Event -> Nat]
      /\ recv' = [e \in Event |-> IF e \in UNION open THEN 0 ELSE recv[e]]
      /\ rec \in Recordings /\ Event' = Event
  BY Names DEF Crash, Shape, IngestShape
<1>2. Begun' \subseteq Begun /\ \A e \in Begun' : recv'[e] = recv[e]
  BY <1>1 DEF Begun
<1>3. ASSUME NEW e \in Begun'
      PROVE  Cardinality({f \in Begun' : recv'[f] = recv'[e]}) <= MaxBatch
  <2> DEFINE G == {f \in Begun : recv[f] = recv[e]}
             H == {f \in Begun' : recv'[f] = recv'[e]}
  <2>1. G \in SUBSET Event /\ H \in SUBSET G
    BY <1>2 DEF Begun
  <2>2. Cardinality(G) <= MaxBatch
    BY <1>2 DEF Grouped
  <2>3. IsFiniteSet(Event)
    BY <1>1, RecordingFacts
  <2> HIDE DEF G, H
  <2>4. IsFiniteSet(G)
    BY <2>1, <2>3, FS_Subset
  <2>5. IsFiniteSet(H) /\ Cardinality(H) <= Cardinality(G)
    BY <2>1, <2>4, FS_Subset
  <2>6. Cardinality(G) \in Nat /\ Cardinality(H) \in Nat
    BY <2>4, <2>5, FS_CardinalityType
  <2>7. Cardinality(H) <= MaxBatch
    BY <2>2, <2>5, <2>6, ConstantTypes
  <2> QED
    BY <2>7 DEF H
<1>4. \A e \in Begun' : recv'[e] <= stamp'
  BY <1>1, <1>2 DEF Grouped
<1> QED
  BY <1>1, <1>3, <1>4 DEF Grouped

LEMMA NextKeepsGrouped ==
  ASSUME Shape, Course, Grouped, Next
  PROVE  Grouped'
<1>1. CASE \E S \in open : Commit(S)
  <2>1. UNCHANGED <<rec, recv, stamp>> /\ \A S \in open' : S \in open
    BY <1>1 DEF Commit
  <2>2. Begun' = Begun
    BY <2>1 DEF Begun, Event
  <2> QED
    BY <2>1, <2>2 DEF Grouped
<1>2. CASE (\E who \in {"forward", "nightly"} : Scan(who)) \/ Prune \/ Tick
  <2>1. UNCHANGED <<rec, recv, open, stamp>>
    BY <1>2 DEF Scan, Prune, Tick, ingest
  <2> QED
    BY <2>1, GroupedStays
<1>3. CASE Steps
  BY <1>3, StepFacts, GroupedStays
<1> QED
  BY <1>1, <1>2, <1>3, BeginKeepsGrouped, CrashKeepsGrouped DEF Next, Reproject

\* Neither a scan, nor a step of a pass, nor the prune touches what arrived.
LEMMA ArrivedStays ==
  ASSUME (\E who \in {"forward", "nightly"} : Scan(who)) \/ Steps \/ Prune
  PROVE  /\ UNCHANGED <<now, rec, recv, at, open, late, stamp>>
         /\ Committed' = Committed /\ Begun' = Begun /\ Event' = Event
         /\ \A e : HourOf(e)' = HourOf(e)
<1>1. UNCHANGED <<now, rec, recv, at, open, late, stamp>>
  BY DEF Scan, Steps, ReadBucket, ClearUsage, WriteUsage, ClearSpans, WriteSpans, WriteUnlocks, Advance, RollUp,
     Prune, ingest
<1> QED
  BY <1>1, Names DEF Committed, Begun, Event

\* The types of what arrived.
LEMMA ArrivalTypes ==
  ASSUME Shape
  PROVE  /\ now \in Nat /\ stamp \in Nat /\ watermark \in Nat /\ recv \in [Event -> Nat] /\ at \in [Event -> Nat]
         /\ Begun \in SUBSET Event /\ Committed \in SUBSET Begun /\ events \in SUBSET Committed
         /\ late \in SUBSET Event
         /\ \A e \in Event : HourOf(e) \in Nat /\ HourOf(e) \in Hours /\ recv[e] \in Nat /\ at[e] \in Nat
<1>1. rec \in Recordings /\ recv \in [Event -> Nat] /\ at \in [Event -> Nat]
  BY DEF Shape, IngestShape
<1>2. \A e \in Event : HourOf(e) \in Nat /\ HourOf(e) \in Hours
  BY <1>1, RecordingFacts
<1> QED
  BY <1>1, <1>2 DEF Shape, IngestShape, Committed, Begun

LEMMA NextKeepsCaught ==
  ASSUME Shape, Course, Caught, Next
  PROVE  Caught'
<1>0. /\ now \in Nat /\ watermark \in Nat /\ Begun \in SUBSET Event
      /\ recv \in [Event -> Nat] /\ at \in [Event -> Nat]
      /\ \A e \in Event : HourOf(e) \in Nat /\ at[e] \in Nat /\ recv[e] \in Nat
  BY ArrivalTypes
<1>1. \A e \in Begun :
        /\ at[e] <= now
        /\ e \in UNION open \/ recv[e] > watermark => now - at[e] <= Lag
  BY DEF Caught
<1>2. ASSUME NEW S \in SUBSET Event, Begin(S)
      PROVE  Caught'
  <2>1. /\ rec' = rec /\ now' = now /\ watermark' = watermark /\ open' = open \cup {S} /\ stamp \in Nat
        /\ recv' = [e \in Event |-> IF e \in S THEN stamp + 1 ELSE recv[e]]
        /\ at' = [e \in Event |-> IF e \in S THEN now ELSE at[e]]
        /\ \A e \in S : recv[e] = 0
    BY <1>2 DEF Begin, Shape, IngestShape, HourOf
  <2>2. Begun' = Begun \cup S /\ \A e : HourOf(e)' = HourOf(e)
    BY <1>0, <2>1, Names DEF Begun
  <2>3. ASSUME NEW e \in Begun'
        PROVE  /\ at'[e] <= now
               /\ e \in UNION open' \/ recv'[e] > watermark => now - at'[e] <= Lag
    <3>1. CASE e \in S
      <4>1. at'[e] = now
        BY <2>1, <3>1
      <4> QED
        BY <1>0, <2>1, <3>1, <4>1, ConstantTypes
    <3>2. CASE e \notin S
      <4>1. e \in Begun /\ e \in Event /\ at'[e] = at[e] /\ recv'[e] = recv[e]
        BY <1>0, <2>1, <2>2, <3>2
      <4>2. e \in UNION open' => e \in UNION open
        BY <2>1, <3>2
      <4> QED
        BY <1>1, <4>1, <4>2
    <3> QED
      BY <3>1, <3>2
  <2> QED
    BY <2>1, <2>2, <2>3 DEF Caught
<1>3. ASSUME NEW S \in open, Commit(S)
      PROVE  Caught'
  <2>1. /\ UNCHANGED <<rec, now, watermark, recv, at>> /\ open' = open \ {S}
    BY <1>3 DEF Commit
  <2>2. Begun' = Begun /\ \A e : HourOf(e)' = HourOf(e)
    BY <2>1, Names DEF Begun
  <2> QED
    BY <1>1, <2>1, <2>2 DEF Caught
<1>4. CASE Tick
  <2>1. /\ UNCHANGED <<rec, watermark, recv, at, open>> /\ now' = now + 1
        /\ \A e \in Begun : e \in UNION open \/ recv[e] > watermark => now - at[e] < Lag
    BY <1>4 DEF Tick, ingest
  <2>2. Begun' = Begun /\ \A e : HourOf(e)' = HourOf(e)
    BY <2>1, Names DEF Begun
  <2>3. ASSUME NEW e \in Begun
        PROVE  /\ at[e] <= now + 1
               /\ e \in UNION open \/ recv[e] > watermark => (now + 1) - at[e] <= Lag
    <3>1. e \in Event /\ at[e] \in Nat /\ at[e] <= now
      BY <1>0, <1>1
    <3>2. e \in UNION open \/ recv[e] > watermark => now - at[e] < Lag
      BY <2>1
    <3>3. e \in UNION open \/ recv[e] > watermark => (now + 1) - at[e] <= Lag
      BY <1>0, <3>1, <3>2, ConstantTypes
    <3> QED
      BY <1>0, <3>1, <3>3
  <2> QED
    BY <1>1, <2>1, <2>2, <2>3 DEF Caught
<1>5. CASE Crash
  <2>1. /\ rec' = rec /\ now' = now /\ watermark' = watermark /\ open' = {}
        /\ recv' = [e \in Event |-> IF e \in UNION open THEN 0 ELSE recv[e]]
        /\ at' = [e \in Event |-> IF e \in UNION open THEN 0 ELSE at[e]]
    BY <1>5 DEF Crash
  <2>2. Event' = Event /\ \A e : HourOf(e)' = HourOf(e)
    BY <2>1, Names
  <2>3. ASSUME NEW e \in Begun'
        PROVE  e \in Begun /\ e \notin UNION open /\ recv'[e] = recv[e] /\ at'[e] = at[e]
    <3>1. e \in Event /\ recv'[e] > 0
      BY <2>2 DEF Begun
    <3>2. e \notin UNION open
      BY <2>1, <3>1
    <3> QED
      BY <2>1, <3>1, <3>2 DEF Begun
  <2>4. ASSUME NEW e \in Begun'
        PROVE  /\ at'[e] <= now
               /\ e \in UNION open' \/ recv'[e] > watermark => now - at'[e] <= Lag
    <3>1. e \in Begun /\ recv'[e] = recv[e] /\ at'[e] = at[e] /\ e \notin UNION open'
      BY <2>1, <2>3
    <3> QED
      BY <1>1, <3>1
  <2> QED
    BY <2>1, <2>2, <2>4 DEF Caught
<1>6. CASE (\E who \in {"forward", "nightly"} : Scan(who)) \/ Steps \/ Prune
  <2>1. /\ UNCHANGED <<now, recv, at, open>> /\ Begun' = Begun /\ \A e : HourOf(e)' = HourOf(e)
    BY <1>6, ArrivedStays
  <2>2. watermark' \in Nat /\ watermark' >= watermark
    <3>1. CASE Advance
      <4>1. watermark' = watermark \/ (pass.who = "forward" /\ watermark' = pass.upto /\ pass.step = "advance")
        BY <3>1 DEF Advance
      <4>2. pass.upto \in Nat
        BY DEF Shape, PassShape, Passes
      <4> QED
        BY <1>0, <4>1, <4>2 DEF Course, Working
    <3>2. CASE ~Advance
      <4>1. watermark' = watermark
        BY <1>6, <3>2 DEF Scan, Steps, ReadBucket, ClearUsage, WriteUsage, ClearSpans, WriteSpans, WriteUnlocks, RollUp,
           Prune
      <4> QED
        BY <1>0, <4>1
    <3> QED
      BY <3>1, <3>2
  <2>3. \A e \in Begun : recv[e] > watermark' => recv[e] > watermark
    BY <1>0, <2>2
  <2> QED
    BY <1>1, <2>1, <2>3 DEF Caught
<1> QED
  BY <1>2, <1>3, <1>4, <1>5, <1>6 DEF Next, Reproject

LEMMA NextKeepsStored ==
  ASSUME Shape, Stored, Next
  PROVE  Stored'
<1>0. /\ now \in Nat /\ Begun \in SUBSET Event /\ Committed \in SUBSET Begun
      /\ \A e \in Event : at[e] \in Nat
      /\ \A e \in Committed \ events : Expired(e)
  BY ArrivalTypes DEF Stored
<1>1. CASE Prune
  <2>1. Committed' = Committed /\ at' = at /\ now' = now
    BY <1>1, ArrivedStays
  <2>2. \A e \in Committed : Expired(e)' <=> Expired(e)
    <3>1. rec' = rec
      BY <1>1, ArrivedStays
    <3> QED
      BY <2>1, <3>1, Names DEF Expired, Kept
  <2>3. events' = {e \in events : ~Expired(e)}
    BY <1>1 DEF Prune
  <2> QED
    BY <1>0, <2>1, <2>2, <2>3 DEF Stored
<1>2. ASSUME ~Prune
      PROVE  Stored'
  <2>1. Committed' \ events' \subseteq Committed \ events
    <3>1. \/ Committed' = Committed /\ events' = events
          \/ \E S \in open : Commit(S) /\ Committed' \ Committed \subseteq S
      <4>1. Committed' = Committed \/ \E S \in open : Commit(S) /\ Committed' \ Committed \subseteq S
        BY IngestFacts
      <4>2. ASSUME ~\E S \in open : Commit(S)
            PROVE  events' = events
        BY <1>2, <4>2 DEF Next, Reproject, Begin, Scan, Tick, Crash, Steps, ReadBucket, ClearUsage, WriteUsage,
           ClearSpans, WriteSpans, WriteUnlocks, Advance, RollUp, ingest
      <4>3. ASSUME NEW S \in open, Commit(S)
            PROVE  Committed' \ Committed \subseteq S
        <5>1. \A T \in open : T # S => T \in open'
          BY <4>3 DEF Commit
        <5>2. Begun' = Begun
          BY <4>3 DEF Commit, Begun, Event
        <5> QED
          BY <5>1, <5>2 DEF Committed
      <4> QED
        BY <4>1, <4>2, <4>3
    <3>2. \A S \in open : Commit(S) => events' = events \cup S
      BY DEF Commit
    <3> QED
      BY <3>1, <3>2
  <2>2. \A e \in Committed : at'[e] = at[e]
    BY IngestFacts
  <2>3. now' \in Nat /\ now' >= now
    <3>1. now' = now \/ now' = now + 1
      BY DEF Next, Reproject, Begin, Commit, Scan, Tick, Crash, Steps, ReadBucket, ClearUsage, WriteUsage,
         ClearSpans, WriteSpans, WriteUnlocks, Advance, RollUp, Prune
    <3> QED
      BY <1>0, <3>1
  <2>4. ASSUME NEW e \in Committed' \ events'
        PROVE  Expired(e)'
    <3>1. e \in Committed \ events /\ at'[e] = at[e] /\ at[e] \in Nat
      BY <1>0, <2>1, <2>2
    <3>2. at[e] < now - Kept(e) /\ Kept(e) \in Nat
      BY <1>0, <3>1, KeptFacts DEF Expired
    <3>3. at[e] < now' - Kept(e)
      BY <1>0, <2>3, <3>1, <3>2
    <3>4. Kept(e)' = Kept(e)
      BY IngestFacts, Names DEF Kept
    <3> QED
      BY <3>1, <3>3, <3>4 DEF Expired
  <2> QED
    BY <2>4 DEF Stored
<1> QED
  BY <1>1, <1>2

-----------------------------------------------------------------------------
(* A pass re-reads an hour while all of it that is not outlived is still stored. *)

\* What the watermark has not passed is not old enough to be pruned.
LEMMA NewKept ==
  ASSUME Shape, Caught, NEW e \in Begun, recv[e] > watermark
  PROVE  ~Expired(e)
<1>1. now \in Nat /\ at[e] \in Nat
  BY ArrivalTypes
<1>2. now - at[e] <= Lag /\ Lag \in Nat
  BY ConstantTypes DEF Caught
<1>3. Kept(e) \in Nat /\ Lag < Kept(e)
  BY KeptFacts
<1> QED
  BY <1>1, <1>2, <1>3 DEF Expired

LEMMA NewStored ==
  ASSUME Shape, Caught, Stored, NEW e \in Committed, recv[e] > watermark
  PROVE  e \in events
<1>1. e \in Begun
  BY ArrivalTypes
<1> QED
  BY <1>1, NewKept DEF Stored

\* When an event new to a pass is of an hour, none that is not outlived there is old
\* enough to be pruned.
LEMMA HourStored ==
  ASSUME Shape, NEW f \in Committed, now - at[f] <= Lag \/ now - at[f] <= Trailing,
         NEW e \in Committed, ~Outlived(e, HourOf(f))
  PROVE  ~Expired(e)
<1>1. now \in Nat /\ at[f] \in Nat /\ at[e] \in Nat /\ Lag \in Nat /\ Trailing \in Nat
  BY ArrivalTypes, ConstantTypes
<1>2. ~(at[e] + Kept(e) < at[f] + Most(Lag, Trailing))
  BY DEF Outlived, HourOf
<1> QED
  BY <1>1, <1>2, KeptFacts DEF Expired

\* An hour the forward pass has still to read.
LEMMA HourToCome ==
  ASSUME Shape, Caught, Complete, NEW h \in pass.dirty, pass.who = "forward"
  PROVE  /\ \E f \in events : HourOf(f) = h /\ recv[f] > watermark /\ ~Expired(f)
         /\ \A e \in Committed : ~Outlived(e, h) => e \in events /\ ~Expired(e)
<1>1. PICK f \in events : HourOf(f) = h /\ recv[f] > watermark
  BY DEF Complete
<1>2. f \in Committed /\ f \in Begun
  BY <1>1, ArrivalTypes
<1>3. now - at[f] <= Lag
  BY <1>1, <1>2 DEF Caught
<1>4. \A e \in Committed : ~Outlived(e, h) => ~Expired(e)
  BY <1>1, <1>2, <1>3, HourStored
<1>5. ~Expired(f)
  BY <1>1, <1>2, NewKept
<1> QED
  BY <1>1, <1>2, <1>4, <1>5 DEF Complete

LEMMA ScanKeepsComplete ==
  ASSUME Shape, Grouped, Caught, Stored, NEW who \in {"forward", "nightly"}, Scan(who)
  PROVE  Complete'
<1>1. PICK used \in SUBSET events : Takes(who, used)
  BY ScanFacts
<1>2. /\ UNCHANGED <<now, rec, recv, at>> /\ Committed' = Committed
      /\ \A e : HourOf(e)' = HourOf(e)
  BY ArrivedStays
<1>3. events' = events /\ watermark' = watermark
  BY DEF Scan, ingest
<1>4. /\ now \in Nat /\ Begun \in SUBSET Event /\ Committed \in SUBSET Begun /\ events \in SUBSET Committed
      /\ \A e \in Event : HourOf(e) \in Nat /\ at[e] \in Nat
  BY ArrivalTypes
<1>5. pass'.dirty = {HourOf(e) : e \in used} /\ pass'.who = who /\ \A e \in used : Since(e, who)
  BY <1>1 DEF Takes
<1>6. ASSUME NEW h \in pass'.dirty
      PROVE  /\ \A e \in Committed : ~Outlived(e, h) => e \in events
             /\ who = "forward" => \E e \in events : HourOf(e) = h /\ recv[e] > watermark
  <2>1. PICK f \in used : HourOf(f) = h
    BY <1>5
  <2>2. f \in Committed /\ f \in Begun /\ f \in Event /\ f \in events /\ Since(f, who)
    BY <1>4, <1>5
  <2>3. now - at[f] <= Lag \/ now - at[f] <= Trailing
    <3>1. CASE who = "forward"
      BY <2>2, <3>1 DEF Caught, Since
    <3>2. CASE who = "nightly"
      <4>1. at[f] >= now - Trailing /\ at[f] \in Nat
        BY <1>4, <2>2, <3>2 DEF Since
      <4> QED
        BY <1>4, <4>1, ConstantTypes
    <3> QED
      BY <3>1, <3>2
  <2>4. \A e \in Committed : ~Outlived(e, h) => ~Expired(e)
    BY <2>1, <2>2, <2>3, HourStored
  <2>5. \A e \in Committed : ~Outlived(e, h) => e \in events
    BY <2>4 DEF Stored
  <2>6. who = "forward" => recv[f] > watermark
    BY <2>2 DEF Since
  <2> QED
    BY <2>1, <2>2, <2>5, <2>6
<1>7. \A e \in Committed : \A h : Outlived(e, h)' <=> Outlived(e, h)
  BY <1>2, OutlivedSame
<1> QED
  BY <1>2, <1>3, <1>5, <1>6, <1>7 DEF Complete

LEMMA StepsKeepComplete ==
  ASSUME Shape, Course, Complete, Steps
  PROVE  Complete'
<1>1. /\ UNCHANGED <<now, rec, recv, at>> /\ Committed' = Committed
      /\ \A e : HourOf(e)' = HourOf(e)
  BY ArrivedStays
<1>2. events' = events /\ pass \in Passes
  BY StepFacts DEF Shape, PassShape
<1>3. /\ pass'.dirty \subseteq pass.dirty
      /\ pass'.dirty # {} => pass'.who = pass.who /\ watermark' = watermark
  <2>1. CASE \E h \in pass.dirty : ReadBucket(h)
    BY <1>2, <2>1 DEF ReadBucket, Passes
  <2>2. CASE ClearUsage \/ WriteUsage \/ ClearSpans \/ WriteSpans
    BY <1>2, <2>2 DEF ClearUsage, WriteUsage, ClearSpans, WriteSpans, Passes
  <2>3. CASE WriteUnlocks
    BY <1>2, <2>3 DEF WriteUnlocks, Passes
  <2>4. CASE Advance
    BY <1>2, <2>4 DEF Advance, Passes, Course
  <2>5. CASE RollUp
    BY <2>5 DEF RollUp, Idle
  <2> QED
    BY <2>1, <2>2, <2>3, <2>4, <2>5 DEF Steps
<1>4. \A e \in Committed : \A h : Outlived(e, h)' <=> Outlived(e, h)
  BY <1>1, OutlivedSame
<1> QED
  BY <1>1, <1>2, <1>3, <1>4 DEF Complete

LEMMA NextKeepsComplete ==
  ASSUME Shape, Course, Grouped, Caught, Stored, Complete, Next
  PROVE  Complete'
<1>1. /\ Begun \in SUBSET Event /\ Committed \in SUBSET Begun /\ events \in SUBSET Committed
  BY ArrivalTypes
<1>6. \A e \in Committed : \A h : Outlived(e, h) => Outlived(e, h)'
  <2>1. rec' = rec /\ Committed \subseteq Committed' /\ \A e \in Committed : at'[e] = at[e]
    BY IngestFacts
  <2> QED
    BY <2>1, OutlivedStays
<1>2. CASE (\E S \in SUBSET Event : Begin(S)) \/ Tick
  <2>1. rec' = rec /\ \A e \in Committed : recv'[e] = recv[e]
    BY IngestFacts
  <2>2. Committed' = Committed
    <3>1. ~\E S \in open : Commit(S) /\ Committed' \ Committed \subseteq S /\ Committed' # Committed
      <4>1. CASE Tick
        BY <4>1 DEF Tick, ingest, Committed, Begun, Event
      <4>2. ASSUME NEW S \in open, Commit(S), \E T \in SUBSET Event : Begin(T)
            PROVE  FALSE
        BY <4>2 DEF Commit, Begin, Shape, IngestShape
      <4> QED
        BY <1>2, <4>1, <4>2
    <3> QED
      BY <3>1, IngestFacts
  <2>3. UNCHANGED <<events, watermark, pass>>
    BY <1>2 DEF Begin, Tick, ingest
  <2>4. \A e : HourOf(e)' = HourOf(e)
    BY <2>1, Names
  <2> QED
    BY <1>1, <1>6, <2>1, <2>2, <2>3, <2>4 DEF Complete
<1>3. ASSUME NEW S \in open, Commit(S)
      PROVE  Complete'
  <2>1. /\ UNCHANGED <<rec, recv, watermark, pass>> /\ open' = open \ {S} /\ events' = events \cup S
    BY <1>3 DEF Commit
  <2>2. Committed' \subseteq Committed \cup S /\ \A e : HourOf(e)' = HourOf(e)
    BY <2>1, Names DEF Committed, Begun, Event
  <2> QED
    BY <1>6, <2>1, <2>2 DEF Complete
<1>4. CASE Prune
  <2>1. /\ UNCHANGED <<rec, recv>> /\ Committed' = Committed
        /\ \A e : HourOf(e)' = HourOf(e)
    BY <1>4, ArrivedStays
  <2>2. /\ UNCHANGED <<watermark, pass>> /\ events' = {e \in events : ~Expired(e)} /\ pass.who # "nightly"
    BY <1>4 DEF Prune
  <2>3. ASSUME NEW h \in pass.dirty
        PROVE  pass.who = "forward"
    BY <2>2 DEF Course, Shape, PassShape, Passes
  <2> QED
    BY <1>6, <2>1, <2>2, <2>3, HourToCome DEF Complete
<1>5. CASE Crash
  BY <1>5 DEF Crash, Idle, Complete
<1> QED
  BY <1>2, <1>3, <1>4, <1>5, ScanKeepsComplete, StepsKeepComplete DEF Next, Reproject

-----------------------------------------------------------------------------
(* What the watermark has passed is counted. *)

LEMMA CountedKept ==
  ASSUME Shape, Next, NEW e \in Committed, Counted(e), rec' = rec, logged \in SUBSET logged',
         now \in Nat, HourOf(e) \in Nat, now' \in Nat, now' >= now,
         HourOf(e) >= now' - HourlyKept /\ Accounted(e) => Accounted(e)'
  PROVE  Counted(e)'
<1>1. Sample' = Sample /\ Audit' = Audit /\ HourOf(e)' = HourOf(e)
  BY Names
<1>2. HourOf(e) >= now' - HourlyKept => HourOf(e) >= now - HourlyKept
  BY ConstantTypes
<1>3. PICK h : h = HourOf(e)
  OBVIOUS
<1>4. Outlived(e, h) => Outlived(e, h)'
  BY OutlivedGrows
<1>5. Accounted(e) /\ h >= now' - HourlyKept => Accounted(e)'
  BY <1>3
<1>6. e \in Sample /\ h >= now - HourlyKept /\ ~Outlived(e, h) => Accounted(e)
  BY <1>3 DEF Counted
<1>7. e \in Audit => e \in logged
  BY DEF Counted
<1> QED
  BY <1>1, <1>2, <1>3, <1>4, <1>5, <1>6, <1>7 DEF Counted

LEMMA AccountedKept ==
  ASSUME NEW e, Accounted(e), UNCHANGED <<rec, usage>>, pass.step # "write" \/ UNCHANGED pass,
         \A t \in torn : t[3] = "usage" => t \in torn'
  PROVE  Accounted(e)'
BY Names DEF Accounted

\* The three parts speak of the pass, the watermark, and what is counted.
LEMMA CoveredStays ==
  ASSUME Shape, Next, NEW e \in Committed, Promised(e), ToPromise(e), InHand(e), Counted(e) => Counted(e)',
         rec' = rec, recv'[e] = recv[e], UNCHANGED <<pass, watermark>>
  PROVE  Promised(e)' /\ ToPromise(e)' /\ InHand(e)'
<1>1. HourOf(e)' = HourOf(e) /\ Scanned' = Scanned
  BY Names DEF Scanned
<1>2. PICK h : h = HourOf(e)
  OBVIOUS
<1>3. Outlived(e, h) => Outlived(e, h)'
  BY OutlivedGrows
<1> QED
  BY <1>1, <1>2, <1>3 DEF Promised, ToPromise, InHand

\* Scanned is the stamp the forward pass goes to, and never behind the watermark.
LEMMA ScannedFacts ==
  ASSUME Shape, Course
  PROVE  /\ Scanned \in Nat /\ watermark <= Scanned
         /\ pass.who = "forward" /\ pass.step \in Working => Scanned = pass.upto
BY DEF Shape, IngestShape, PassShape, Passes, Course, Scanned

LEMMA IngestKeepsCovered ==
  ASSUME Shape, Course, Covered, Next,
         (\E S \in SUBSET Event : Begin(S)) \/ (\E S \in open : Commit(S)) \/ Tick \/ Prune
  PROVE  Covered'
<1>1. /\ Begun \in SUBSET Event /\ Committed \in SUBSET Begun /\ now \in Nat
      /\ watermark \in Nat /\ Scanned \in Nat /\ watermark <= Scanned
      /\ \A e \in Event : HourOf(e) \in Nat /\ HourOf(e) \in Hours /\ recv[e] \in Nat
      /\ usage \in [Hours -> SUBSET Sample]
  BY ArrivalTypes, ScannedFacts DEF Shape, TableShape
<1>2. /\ rec' = rec /\ \A e \in Committed : recv'[e] = recv[e]
      /\ \/ Committed' = Committed
         \/ \E S \in open : Commit(S) /\ Committed' \ Committed \subseteq S
  BY IngestFacts
<1>3. UNCHANGED <<pass, watermark, torn, logged>>
  BY PassLeftAlone
<1>4. now' \in Nat /\ now' >= now /\ late \subseteq late'
  BY <1>1 DEF Begin, Commit, Tick, Prune, ingest
<1>5. usage' = usage \/ (Prune /\ now' = now)
  BY DEF Begin, Commit, Tick, Prune, tables
<1>6. ASSUME NEW e \in Committed, Counted(e)
      PROVE  Counted(e)'
  <2>1. e \in Event /\ HourOf(e) \in Nat /\ HourOf(e) \in Hours
    BY <1>1
  <2>2. ASSUME HourOf(e) >= now' - HourlyKept, Accounted(e)
        PROVE  Accounted(e)'
    <3>1. CASE usage' = usage
      BY <1>2, <1>3, <2>2, <3>1, AccountedKept
    <3>2. CASE Prune /\ now' = now
      <4>1. usage'[HourOf(e)] = usage[HourOf(e)]
        <5>1. usage' = [h \in Hours |-> IF h < now - HourlyKept THEN {} ELSE usage[h]]
          BY <3>2 DEF Prune
        <5>2. ~(HourOf(e) < now - HourlyKept)
          BY <1>1, <2>1, <2>2, <3>2, ConstantTypes
        <5> QED
          BY <2>1, <5>1, <5>2
      <4>2. HourOf(e)' = HourOf(e)
        BY <1>2, Names
      <4> QED
        BY <1>3, <2>2, <4>1, <4>2 DEF Accounted
    <3> QED
      BY <1>5, <3>1, <3>2
  <2>3. logged \in SUBSET logged'
    BY <1>3
  <2> QED
    BY <1>1, <1>2, <1>4, <1>6, <2>1, <2>2, <2>3, CountedKept
<1>7. ASSUME NEW e \in Committed \ late
      PROVE  Promised(e)' /\ ToPromise(e)' /\ InHand(e)'
  <2>1. Promised(e) /\ ToPromise(e) /\ InHand(e) /\ recv'[e] = recv[e]
    BY <1>2 DEF Covered
  <2>2. Counted(e) => Counted(e)'
    BY <1>6
  <2> QED
    BY <1>2, <1>3, <2>1, <2>2, CoveredStays
<1>8. ASSUME NEW S \in open, Commit(S), NEW e \in S, e \notin late', e \in Committed'
      PROVE  Promised(e)' /\ ToPromise(e)' /\ InHand(e)'
  <2>1. late' = late \cup {f \in S : recv[f] <= Scanned} /\ recv' = recv
    BY <1>8 DEF Commit
  <2>2. e \in Event /\ recv[e] \in Nat /\ ~(recv[e] <= Scanned)
    BY <1>1, <1>8, <2>1 DEF Shape, IngestShape
  <2>3. ~(recv[e] <= watermark)
    BY <1>1, <2>2
  <2>4. pass.who = "forward" /\ pass.step \in Working => ~(recv[e] <= pass.upto)
    BY <2>2, ScannedFacts
  <2>5. Scanned' = Scanned
    BY <1>3 DEF Scanned
  <2> QED
    BY <1>3, <2>1, <2>2, <2>3, <2>4, <2>5 DEF Promised, ToPromise, InHand
<1>9. ASSUME NEW e \in Committed' \ late'
      PROVE  Promised(e)' /\ ToPromise(e)' /\ InHand(e)'
  BY <1>2, <1>4, <1>7, <1>8
<1> QED
  BY <1>9 DEF Covered

LEMMA ScanKeepsCovered ==
  ASSUME Shape, Course, Grouped, Caught, Stored, Covered, NEW who \in {"forward", "nightly"}, Scan(who)
  PROVE  Covered'
<1>1. PICK used \in SUBSET events : Takes(who, used)
  BY ScanFacts
<1>2. /\ UNCHANGED <<now, rec, recv, at, late>> /\ Committed' = Committed
      /\ \A e : HourOf(e)' = HourOf(e)
  BY ArrivedStays
<1>3. UNCHANGED <<watermark, usage, logged, torn>> /\ pass.who = "none"
  BY DEF Scan, tables, Free
<1>4. /\ now \in Nat /\ watermark \in Nat /\ Begun \in SUBSET Event /\ Committed \in SUBSET Begun
      /\ \A e \in Event : HourOf(e) \in Nat /\ at[e] \in Nat /\ recv[e] \in Nat
  BY ArrivalTypes
<1>5. pass.step = "idle"
  BY <1>3 DEF Course
<1>9. Next
  BY DEF Next, Reproject
<1>6. ASSUME NEW e \in Committed, Counted(e)
      PROVE  Counted(e)'
  <2>1. e \in Event /\ HourOf(e) \in Nat
    BY <1>4
  <2>2. Accounted(e) => Accounted(e)'
    BY <1>2, <1>3, <1>5, AccountedKept
  <2> QED
    BY <1>2, <1>3, <1>4, <1>6, <1>9, <2>1, <2>2, CountedKept
<1>7. ASSUME NEW e \in Committed, recv[e] > watermark
      PROVE  e \in events
  BY <1>7, NewStored
<1>8. ASSUME NEW e \in Committed \ late
      PROVE  Promised(e)' /\ ToPromise(e)' /\ InHand(e)'
  <2>1. Promised(e)'
    BY <1>2, <1>3, <1>6, <1>8 DEF Covered, Promised
  <2>2. ToPromise(e)'
    <3>1. ASSUME pass'.who = "forward", pass'.step \in Working, recv[e] <= pass'.upto, ~(recv[e] <= watermark)
          PROVE  HourOf(e) \in pass'.dirty
      <4>1. who = "forward" /\ used # {}
        BY <1>1, <3>1 DEF Takes, Working
      <4>2. recv[e] > watermark
        BY <1>4, <3>1
      <4>3. e \in events /\ Since(e, who)
        BY <1>7, <4>1, <4>2 DEF Since
      <4>4. e \in used
        BY <1>1, <3>1, <4>1, <4>3 DEF Takes
      <4> QED
        BY <1>1, <4>4 DEF Takes
    <3>2. recv[e] <= watermark => Counted(e)'
      BY <1>6, <1>8 DEF Covered, Promised
    <3> QED
      BY <1>2, <3>1, <3>2 DEF ToPromise
  <2>3. pass'.step \in {"rollup", "buckets"}
    BY <1>1 DEF Takes
  <2> QED
    BY <2>1, <2>2, <2>3 DEF InHand
<1> QED
  BY <1>2, <1>8 DEF Covered

LEMMA CrashKeepsCovered ==
  ASSUME Shape, Course, Covered, Crash, Next
  PROVE  Covered'
<1>1. /\ rec' = rec /\ \A e \in Committed : recv'[e] = recv[e]
      /\ \A e : HourOf(e)' = HourOf(e)
  BY IngestFacts, Names
<1>2. /\ UNCHANGED <<now, late, watermark, usage, logged>> /\ pass' = Idle
      /\ torn' = torn \cup (IF pass.step = "write" THEN {<<pass.who, pass.hour, "usage">>} ELSE {})
                  \cup (IF pass.step = "respan" THEN {<<pass.who, pass.hour, "spans">>} ELSE {})
  BY DEF Crash, tables
<1>3. Committed' = Committed
  <2>1. ~\E S \in open : Commit(S)
    <3>1. crashes' = crashes + 1 /\ crashes \in Nat
      BY DEF Crash, Shape, IngestShape
    <3> QED
      BY <3>1 DEF Commit
  <2> QED
    BY <2>1, IngestFacts
<1>4. /\ now \in Nat /\ Begun \in SUBSET Event /\ Committed \in SUBSET Begun
      /\ \A e \in Event : HourOf(e) \in Nat
  BY ArrivalTypes
<1>5. ASSUME NEW e \in Committed, Counted(e)
      PROVE  Counted(e)'
  <2>1. e \in Event /\ HourOf(e) \in Nat
    BY <1>4
  <2>2. ASSUME Accounted(e)
        PROVE  Accounted(e)'
    <3>1. CASE pass.step = "write" /\ pass.hour = HourOf(e)
      <4>1. PICK t \in torn' : t = <<pass.who, pass.hour, "usage">>
        BY <1>2, <3>1
      <4>2. t[2] = HourOf(e)' /\ t[3] = "usage"
        BY <1>1, <3>1, <4>1
      <4> QED
        BY <4>1, <4>2 DEF Accounted
    <3>2. CASE ~(pass.step = "write" /\ pass.hour = HourOf(e))
      BY <1>1, <1>2, <2>2, <3>2 DEF Accounted
    <3> QED
      BY <3>1, <3>2
  <2> QED
    BY <1>1, <1>2, <1>4, <1>5, <2>1, <2>2, CountedKept
<1>6. ASSUME NEW e \in Committed \ late
      PROVE  Promised(e)' /\ ToPromise(e)' /\ InHand(e)'
  <2>1. Promised(e)'
    BY <1>1, <1>2, <1>5, <1>6 DEF Covered, Promised
  <2>2. pass'.step = "idle" /\ pass'.who = "none"
    BY <1>2 DEF Idle
  <2> QED
    BY <2>1, <2>2 DEF ToPromise, InHand
<1> QED
  BY <1>2, <1>3, <1>6 DEF Covered

\* A step that is not a write of the hour's sum, nor its deletion, takes nothing
\* out of what is counted.
LEMMA StepKeepsCounted ==
  ASSUME Shape, Steps, pass.step # "write", usage' = usage, NEW e \in Committed, Counted(e)
  PROVE  Counted(e)'
<1>1. /\ UNCHANGED <<now, rec>> /\ now \in Nat /\ e \in Event /\ HourOf(e) \in Nat
  BY ArrivedStays, ArrivalTypes
<1>2. logged \in SUBSET logged' /\ \A t \in torn : t[3] = "usage" => t \in torn'
  BY DEF Steps, ReadBucket, ClearUsage, WriteUsage, ClearSpans, WriteSpans, WriteUnlocks, Advance, RollUp, tables
<1>3. Accounted(e) => Accounted(e)'
  BY <1>1, <1>2, AccountedKept
<1>4. Next
  BY DEF Next
<1> QED
  BY <1>1, <1>2, <1>3, <1>4, CountedKept

LEMMA ReadKeepsCovered ==
  ASSUME Shape, Course, Caught, Stored, Complete, Covered, NEW h \in pass.dirty, ReadBucket(h)
  PROVE  Covered'
<1>1. /\ UNCHANGED <<now, rec, recv, at, late>> /\ Committed' = Committed
      /\ \A e : HourOf(e)' = HourOf(e)
  BY ArrivedStays DEF Steps
<1>2. /\ pass.step = "buckets" /\ watermark' = watermark /\ usage' = usage /\ pass \in Passes
      /\ pass' = [pass EXCEPT !.step = "clear", !.hour = h, !.rows = {e \in events : Hour(rec[e].ts) = h}]
  BY DEF ReadBucket, tables, Shape, PassShape
<1>3. /\ pass'.step = "clear" /\ pass'.who = pass.who /\ pass'.hour = h /\ pass'.upto = pass.upto
      /\ pass'.dirty = pass.dirty /\ pass'.rows = {e \in events : HourOf(e) = h}
  BY <1>2 DEF Passes, HourOf
<1>4. ASSUME NEW e \in Committed \ late
      PROVE  Promised(e)' /\ ToPromise(e)' /\ InHand(e)'
  <2>1. Promised(e) /\ ToPromise(e)
    BY DEF Covered
  <2>2. Counted(e) => Counted(e)'
    BY <1>2, StepKeepsCounted DEF Steps
  <2>3. Promised(e)'
    BY <1>1, <1>2, <2>1, <2>2 DEF Promised
  <2>4. ToPromise(e)'
    BY <1>1, <1>2, <1>3, <2>1, <2>2 DEF ToPromise, Working
  <2>5. HourOf(e) = h => e \in pass'.rows \/ (recv[e] <= watermark /\ Outlived(e, h))
    <3>1. ~Outlived(e, h) => e \in events
      BY DEF Complete
    <3>2. recv[e] \in Nat /\ watermark \in Nat
      BY ArrivalTypes
    <3>3. recv[e] > watermark => e \in events
      BY NewStored
    <3> QED
      BY <1>3, <3>1, <3>2, <3>3
  <2>6. Outlived(e, h) => Outlived(e, h)'
    BY OutlivedGrows DEF Next, Steps
  <2> QED
    BY <1>1, <1>2, <1>3, <2>3, <2>4, <2>5, <2>6 DEF InHand
<1> QED
  BY <1>1, <1>4 DEF Covered

LEMMA ClearKeepsCovered ==
  ASSUME Shape, Course, Covered, ClearUsage
  PROVE  Covered'
<1>1. /\ UNCHANGED <<now, rec, recv, at, late>> /\ Committed' = Committed
      /\ \A e : HourOf(e)' = HourOf(e)
  BY ArrivedStays DEF Steps
<1>2. /\ pass.step = "clear" /\ UNCHANGED <<watermark, torn, logged>> /\ pass \in Passes
      /\ usage' = [usage EXCEPT ![pass.hour] = {}] /\ usage \in [Hours -> SUBSET Sample]
      /\ pass' = [pass EXCEPT !.step = "write"]
  BY DEF ClearUsage, Shape, PassShape, TableShape
<1>3. /\ pass'.step = "write" /\ pass'.who = pass.who /\ pass'.hour = pass.hour /\ pass'.upto = pass.upto
      /\ pass'.dirty = pass.dirty /\ pass'.rows = pass.rows
  BY <1>2 DEF Passes
<1>4. /\ now \in Nat /\ Begun \in SUBSET Event /\ Committed \in SUBSET Begun
      /\ \A e \in Event : HourOf(e) \in Nat /\ HourOf(e) \in Hours
  BY ArrivalTypes
<1>8. Next
  BY DEF Next, Steps
<1>5. ASSUME NEW e \in Committed, Counted(e)
      PROVE  Counted(e)'
  <2>1. e \in Event /\ HourOf(e) \in Nat /\ HourOf(e) \in Hours
    BY <1>4
  <2>2. ASSUME Accounted(e)
        PROVE  Accounted(e)'
    <3>1. CASE HourOf(e) = pass.hour
      BY <1>1, <1>3, <3>1 DEF Accounted
    <3>2. CASE HourOf(e) # pass.hour
      <4>1. usage'[HourOf(e)] = usage[HourOf(e)]
        BY <1>2, <2>1, <3>2
      <4> QED
        BY <1>1, <1>2, <2>2, <4>1 DEF Accounted
    <3> QED
      BY <3>1, <3>2
  <2>3. logged \in SUBSET logged'
    BY <1>2
  <2> QED
    BY <1>1, <1>4, <1>5, <2>1, <2>2, <2>3, <1>8, CountedKept
<1>6. Scanned' = Scanned
  BY <1>2, <1>3 DEF Scanned
<1>7. ASSUME NEW e \in Committed \ late
      PROVE  Promised(e)' /\ ToPromise(e)' /\ InHand(e)'
  <2>1. Promised(e) /\ ToPromise(e) /\ InHand(e)
    BY DEF Covered
  <2>2. Counted(e) => Counted(e)'
    BY <1>5
  <2>3. Promised(e)'
    BY <1>1, <1>2, <2>1, <2>2 DEF Promised
  <2>4. ToPromise(e)'
    BY <1>1, <1>2, <1>3, <2>1, <2>2 DEF ToPromise, Working
  <2>5. InHand(e)'
    <3>1. PICK h : h = HourOf(e)
      OBVIOUS
    <3>2. Outlived(e, h) => Outlived(e, h)'
      BY <1>8, OutlivedGrows
    <3> QED
      BY <1>1, <1>2, <1>3, <1>6, <2>1, <3>1, <3>2 DEF InHand
  <2> QED
    BY <2>3, <2>4, <2>5
<1> QED
  BY <1>1, <1>7 DEF Covered

LEMMA WriteKeepsCovered ==
  ASSUME Shape, Course, Covered, WriteUsage
  PROVE  Covered'
<1>1. /\ UNCHANGED <<now, rec, recv, at, late>> /\ Committed' = Committed
      /\ \A e : HourOf(e)' = HourOf(e)
  BY ArrivedStays DEF Steps
<1>2. /\ pass.step = "write" /\ UNCHANGED watermark /\ pass \in Passes
      /\ usage' = [usage EXCEPT ![pass.hour] = pass.rows \cap Sample] /\ usage \in [Hours -> SUBSET Sample]
      /\ logged' = logged \cup (pass.rows \cap Audit)
      /\ torn' = {t \in torn : <<t[2], t[3]>> # <<pass.hour, "usage">>}
      /\ pass' = [pass EXCEPT !.step = "spans"]
  BY DEF WriteUsage, Shape, PassShape, TableShape
<1>3. /\ pass'.step = "spans" /\ pass'.who = pass.who /\ pass'.hour = pass.hour /\ pass'.upto = pass.upto
      /\ pass'.dirty = pass.dirty /\ pass.hour \in pass.dirty /\ pass.hour \in Hours
  BY <1>2 DEF Passes, Course
<1>4. /\ now \in Nat /\ Begun \in SUBSET Event /\ Committed \in SUBSET Begun
      /\ \A e \in Event : HourOf(e) \in Nat /\ HourOf(e) \in Hours /\ recv[e] \in Nat
      /\ watermark \in Nat /\ Scanned \in Nat /\ watermark <= Scanned /\ Scanned' = Scanned
  BY <1>2, <1>3, ArrivalTypes, ScannedFacts DEF Scanned
<1>8. Next
  BY DEF Next, Steps
<1>5. ASSUME NEW e \in Committed, Counted(e), HourOf(e) # pass.hour
      PROVE  Counted(e)'
  <2>1. e \in Event /\ HourOf(e) \in Nat /\ HourOf(e) \in Hours
    BY <1>4
  <2>2. ASSUME Accounted(e)
        PROVE  Accounted(e)'
    <3>1. usage'[HourOf(e)] = usage[HourOf(e)]
      BY <1>2, <1>5, <2>1
    <3>2. \A t \in torn : t[2] = HourOf(e) => t \in torn'
      BY <1>2, <1>5
    <3> QED
      BY <1>1, <1>5, <2>2, <3>1, <3>2 DEF Accounted
  <2>3. logged \in SUBSET logged'
    BY <1>2
  <2> QED
    BY <1>1, <1>4, <1>5, <2>1, <2>2, <2>3, <1>8, CountedKept
<1>6. ASSUME NEW e \in Committed \ late, recv[e] <= Scanned, HourOf(e) = pass.hour
      PROVE  Counted(e)'
  <2>1. PICK h : h = HourOf(e)
    OBVIOUS
  <2>2. e \in pass.rows \/ (recv[e] <= watermark /\ Outlived(e, h))
    BY <1>2, <1>6, <2>1 DEF Covered, InHand
  <2>3. Outlived(e, h) => Outlived(e, h)'
    BY <1>8, OutlivedGrows
  <2>4. e \in Audit => e \in logged'
    <3>1. recv[e] <= watermark => (e \in Audit => e \in logged)
      BY <1>6 DEF Covered, Promised, Counted
    <3> QED
      BY <1>2, <2>2, <3>1
  <2>5. e \in Sample /\ e \in pass.rows => e \in usage'[HourOf(e)]
    BY <1>2, <1>3, <1>6
  <2>6. Sample' = Sample /\ Audit' = Audit /\ HourOf(e)' = h
    BY <1>1, <2>1, Names
  <2>7. e \in Sample /\ ~Outlived(e, h)' => Accounted(e)'
    BY <2>1, <2>2, <2>3, <2>5, <2>6 DEF Accounted
  <2> QED
    BY <2>4, <2>6, <2>7 DEF Counted
<1>7. ASSUME NEW e \in Committed \ late
      PROVE  Promised(e)' /\ ToPromise(e)' /\ InHand(e)'
  <2>1. Promised(e) /\ ToPromise(e) /\ InHand(e) /\ recv[e] \in Nat
    BY <1>4 DEF Covered
  <2>2. Promised(e)'
    <3>1. recv[e] <= watermark => recv[e] <= Scanned
      BY <1>4, <2>1
    <3> QED
      BY <1>1, <1>2, <1>5, <1>6, <2>1, <3>1 DEF Promised
  <2>3. ToPromise(e)'
    <3>1. HourOf(e) # pass.hour /\ Counted(e) => Counted(e)'
      BY <1>5
    <3>2. HourOf(e) = pass.hour => HourOf(e) \in pass.dirty
      BY <1>3
    <3> QED
      BY <1>1, <1>2, <1>3, <2>1, <3>1, <3>2 DEF ToPromise, Working
  <2>4. InHand(e)'
    BY <1>1, <1>3, <1>4, <1>6 DEF InHand
  <2> QED
    BY <2>2, <2>3, <2>4
<1> QED
  BY <1>1, <1>7 DEF Covered

LEMMA UnlocksKeepCovered ==
  ASSUME Shape, Course, Covered, ClearSpans \/ WriteSpans \/ WriteUnlocks
  PROVE  Covered'
<1>1. /\ UNCHANGED <<now, rec, recv, at, late>> /\ Committed' = Committed
      /\ \A e : HourOf(e)' = HourOf(e)
  BY ArrivedStays DEF Steps
<1>2. /\ pass.step \in {"spans", "respan", "unlocks"} /\ watermark' = watermark /\ usage' = usage /\ pass \in Passes
      /\ \/ pass' = [pass EXCEPT !.step = "respan", !.after = After]
         \/ pass' = [pass EXCEPT !.step = "unlocks", !.after = Never]
         \/ pass' = [pass EXCEPT !.dirty = @ \ {pass.hour}, !.rows = {}, !.hour = 0,
               !.step = IF pass.dirty = {pass.hour} THEN "advance" ELSE "buckets"]
  BY DEF ClearSpans, WriteSpans, WriteUnlocks, Shape, PassShape
<1>3. /\ pass'.who = pass.who /\ pass'.upto = pass.upto
      /\ \/ pass'.step \in {"respan", "unlocks"} /\ pass'.hour = pass.hour /\ pass'.dirty = pass.dirty
         \/ pass'.step \in {"advance", "buckets"} /\ pass'.dirty = pass.dirty \ {pass.hour}
  BY <1>2 DEF Passes
<1>4. Scanned' = Scanned
  BY <1>2, <1>3 DEF Scanned
<1>5. ASSUME NEW e \in Committed \ late
      PROVE  Promised(e)' /\ ToPromise(e)' /\ InHand(e)'
  <2>1. Promised(e) /\ ToPromise(e) /\ InHand(e)
    BY DEF Covered
  <2>2. Counted(e) => Counted(e)'
    BY <1>2, StepKeepsCounted DEF Steps
  <2>3. Promised(e)'
    BY <1>1, <1>2, <2>1, <2>2 DEF Promised
  <2>4. ToPromise(e)'
    <3>1. ASSUME pass.who = "forward", recv[e] <= pass.upto
          PROVE  Counted(e)' \/ HourOf(e) \in pass'.dirty
      <4>1. recv[e] <= Scanned
        BY <1>2, <3>1, ScannedFacts DEF Working
      <4>2. HourOf(e) = pass.hour => Counted(e)
        BY <1>2, <2>1, <4>1 DEF InHand
      <4>3. Counted(e) \/ HourOf(e) \in pass.dirty
        BY <1>2, <2>1, <3>1 DEF ToPromise, Working
      <4> QED
        BY <1>3, <2>2, <4>2, <4>3
    <3> QED
      BY <1>1, <1>3, <3>1 DEF ToPromise
  <2>5. InHand(e)'
    BY <1>1, <1>2, <1>3, <1>4, <2>1, <2>2 DEF InHand
  <2> QED
    BY <2>3, <2>4, <2>5
<1> QED
  BY <1>1, <1>5 DEF Covered

LEMMA AdvanceKeepsCovered ==
  ASSUME Shape, Course, Covered, Advance \/ RollUp
  PROVE  Covered'
<1>1. /\ UNCHANGED <<now, rec, recv, at, late>> /\ Committed' = Committed
      /\ \A e : HourOf(e)' = HourOf(e)
  BY ArrivedStays DEF Steps
<1>2. /\ pass.step \in {"advance", "rollup"} /\ usage' = usage /\ pass \in Passes
      /\ \/ watermark' = watermark
         \/ pass.step = "advance" /\ pass.who = "forward" /\ watermark' = pass.upto
      /\ pass'.step \in {"rollup", "idle"}
  <2>1. pass \in Passes
    BY DEF Shape, PassShape
  <2>2. CASE Advance
    BY <2>1, <2>2 DEF Advance, tables, Passes
  <2>3. CASE RollUp
    BY <2>1, <2>3 DEF RollUp, Idle
  <2> QED
    BY <2>2, <2>3
<1>3. ASSUME NEW e \in Committed \ late
      PROVE  Promised(e)' /\ ToPromise(e)' /\ InHand(e)'
  <2>1. Promised(e) /\ ToPromise(e)
    BY DEF Covered
  <2>2. Counted(e) => Counted(e)'
    BY <1>2, StepKeepsCounted DEF Steps
  <2>3. recv[e] <= watermark' => Counted(e)
    <3>1. CASE watermark' = watermark
      BY <2>1, <3>1 DEF Promised
    <3>2. CASE pass.step = "advance" /\ pass.who = "forward" /\ watermark' = pass.upto
      BY <2>1, <3>2 DEF ToPromise, Working, Course
    <3> QED
      BY <1>2, <3>1, <3>2
  <2>4. Promised(e)'
    BY <1>1, <2>2, <2>3 DEF Promised
  <2> QED
    BY <1>2, <2>4 DEF ToPromise, InHand, Working
<1> QED
  BY <1>1, <1>3 DEF Covered

LEMMA NextKeepsCovered ==
  ASSUME Shape, Course, Grouped, Caught, Stored, Complete, Covered, Next
  PROVE  Covered'
BY IngestKeepsCovered, ScanKeepsCovered, CrashKeepsCovered, ReadKeepsCovered, ClearKeepsCovered, WriteKeepsCovered,
   UnlocksKeepCovered, AdvanceKeepsCovered DEF Next, Steps, Reproject

-----------------------------------------------------------------------------
(* An hour the forward pass left empty. *)

LEMMA IngestKeepsMended ==
  ASSUME Shape, Course, Caught, Mended, Next,
         (\E S \in SUBSET Event : Begin(S)) \/ (\E S \in open : Commit(S)) \/ Tick \/ Prune
  PROVE  Mended'
<1>1. /\ now \in Nat /\ watermark \in Nat /\ Begun \in SUBSET Event /\ Committed \in SUBSET Begun
      /\ events \in SUBSET Committed /\ \A e \in Event : recv[e] \in Nat
      /\ pass \in Passes
  BY ArrivalTypes DEF Shape, PassShape
<1>2. UNCHANGED <<pass, watermark, torn, logged>>
  BY PassLeftAlone
<1>3. rec' = rec /\ \A e \in events : recv'[e] = recv[e] /\ HourOf(e)' = HourOf(e)
  BY <1>1, IngestFacts, Names
<1>4. ASSUME NEW e \in events, recv[e] > watermark
      PROVE  e \in events'
  <2>1. e \in Committed /\ e \in Begun
    BY <1>1
  <2>2. ~Expired(e)
    BY <1>4, <2>1, NewKept
  <2> QED
    BY <2>2 DEF Begin, Commit, Tick, Prune, ingest
<1>5. ASSUME NEW e \in events, pass.who = "forward", pass.step \in Working, recv[e] > pass.upto
      PROVE  e \in events'
  <2>1. recv[e] \in Nat /\ pass.upto \in Nat /\ pass.upto > watermark
    BY <1>1, <1>5 DEF Course, Passes
  <2> QED
    BY <1>1, <1>4, <1>5, <2>1
<1> QED
  BY <1>2, <1>3, <1>4, <1>5 DEF Mended

LEMMA ScanKeepsMended ==
  ASSUME Shape, Grouped, Mended, NEW who \in {"forward", "nightly"}, Scan(who)
  PROVE  Mended'
<1>1. PICK used \in SUBSET events : Takes(who, used)
  BY ScanFacts
<1>2. /\ UNCHANGED <<rec, recv, events, watermark, torn>> /\ \A e : HourOf(e)' = HourOf(e)
  BY ArrivedStays DEF Scan, ingest
<1>3. /\ watermark \in Nat /\ \A e \in events : recv[e] \in Nat /\ pass'.upto \in Nat
  BY <1>1, ArrivalTypes DEF Takes, Passes
<1>4. pass'.step \in {"rollup", "buckets"} /\ pass'.who = who
  BY <1>1 DEF Takes
<1>5. ASSUME NEW t \in torn, t[1] = "forward", who = "forward", pass'.step \in Working
      PROVE  t[2] \in pass'.dirty \/ \E e \in events : HourOf(e) = t[2] /\ recv[e] > pass'.upto
  <2>1. used # {}
    BY <1>1, <1>5 DEF Takes, Working
  <2>2. PICK e \in events : HourOf(e) = t[2] /\ recv[e] > watermark
    BY <1>5 DEF Mended
  <2>3. CASE recv[e] <= pass'.upto
    <3>1. Since(e, who)
      BY <1>5, <2>2 DEF Since
    <3>2. e \in used
      BY <1>1, <2>1, <2>3, <3>1 DEF Takes
    <3> QED
      BY <1>1, <2>2, <3>2 DEF Takes
  <2>4. CASE ~(recv[e] <= pass'.upto)
    BY <1>3, <2>2, <2>4
  <2> QED
    BY <2>3, <2>4
<1>6. \A t \in torn : t[1] = "forward" => \E e \in events : HourOf(e) = t[2] /\ recv[e] > watermark
  BY DEF Mended
<1> QED
  BY <1>2, <1>4, <1>5, <1>6 DEF Mended

LEMMA StepsKeepMended ==
  ASSUME Shape, Course, Mended, Steps
  PROVE  Mended'
<1>1. UNCHANGED <<rec, recv, events>> /\ \A e : HourOf(e)' = HourOf(e)
  BY ArrivedStays, StepFacts
<1>2. pass \in Passes
  BY DEF Shape, PassShape
<1>3. CASE \E h \in pass.dirty : ReadBucket(h)
  <2>1. PICK h \in pass.dirty : ReadBucket(h)
    BY <1>3
  <2>2. /\ UNCHANGED <<watermark, torn>> /\ pass.step = "buckets" /\ pass'.step = "clear"
        /\ pass'.who = pass.who /\ pass'.dirty = pass.dirty /\ pass'.upto = pass.upto
    BY <1>2, <2>1 DEF ReadBucket, Passes
  <2> QED
    BY <1>1, <2>2 DEF Mended, Working
<1>4. CASE ClearUsage
  <2>1. /\ UNCHANGED <<watermark, torn>> /\ pass.step = "clear" /\ pass'.step = "write"
        /\ pass'.who = pass.who /\ pass'.dirty = pass.dirty /\ pass'.upto = pass.upto
    BY <1>2, <1>4 DEF ClearUsage, Passes
  <2> QED
    BY <1>1, <2>1 DEF Mended, Working
<1>5. CASE WriteUsage
  <2>1. /\ UNCHANGED watermark /\ torn' = {t \in torn : <<t[2], t[3]>> # <<pass.hour, "usage">>}
        /\ pass.step = "write" /\ pass'.step = "spans" /\ pass'.hour = pass.hour
        /\ pass'.who = pass.who /\ pass'.dirty = pass.dirty /\ pass'.upto = pass.upto
    BY <1>2, <1>5 DEF WriteUsage, Passes
  <2>2. \A t \in torn' : t \in torn /\ (t[2] # pass.hour \/ t[3] = "spans")
    BY <2>1 DEF Shape, TableShape
  <2> QED
    BY <1>1, <2>1, <2>2 DEF Mended, Working
<1>6. CASE WriteSpans
  <2>1. /\ UNCHANGED watermark /\ pass.step = "respan" /\ pass'.step = "unlocks"
        /\ torn' = {t \in torn : <<t[2], t[3]>> # <<pass.hour, "spans">>}
        /\ pass'.hour = pass.hour
        /\ pass'.who = pass.who /\ pass'.dirty = pass.dirty /\ pass'.upto = pass.upto
    BY <1>2, <1>6 DEF WriteSpans, Passes
  <2> QED
    BY <1>1, <2>1 DEF Mended, Working
<1>10. CASE ClearSpans
  <2>1. /\ UNCHANGED <<watermark, torn>> /\ pass.step = "spans" /\ pass'.step = "respan"
        /\ pass'.hour = pass.hour
        /\ pass'.who = pass.who /\ pass'.dirty = pass.dirty /\ pass'.upto = pass.upto
    BY <1>2, <1>10 DEF ClearSpans, Passes
  <2> QED
    BY <1>1, <2>1 DEF Mended, Working
<1>7. CASE WriteUnlocks
  <2>1. /\ UNCHANGED <<watermark, torn>> /\ pass.step = "unlocks" /\ pass'.step \in {"advance", "buckets"}
        /\ pass'.who = pass.who /\ pass'.dirty = pass.dirty \ {pass.hour} /\ pass'.upto = pass.upto
    BY <1>2, <1>7 DEF WriteUnlocks, Passes
  <2> QED
    BY <1>1, <2>1 DEF Mended, Working
<1>8. CASE Advance
  <2>1. /\ UNCHANGED torn /\ pass.step = "advance" /\ pass'.step = "rollup"
        /\ watermark' = IF pass.who = "forward" THEN pass.upto ELSE watermark
    BY <1>2, <1>8 DEF Advance, Passes
  <2>2. pass.dirty = {}
    BY <2>1 DEF Course
  <2>3. ASSUME NEW t \in torn, t[1] = "forward"
        PROVE  \E e \in events : HourOf(e) = t[2] /\ recv[e] > watermark'
    BY <2>1, <2>2, <2>3 DEF Mended, Working
  <2> QED
    BY <1>1, <2>1, <2>3 DEF Mended, Working
<1>9. CASE RollUp
  <2>1. /\ UNCHANGED <<watermark, torn>> /\ pass'.step = "idle"
    BY <1>9 DEF RollUp, Idle
  <2> QED
    BY <1>1, <2>1 DEF Mended, Working
<1> QED
  BY <1>3, <1>4, <1>5, <1>6, <1>7, <1>8, <1>9, <1>10 DEF Steps

LEMMA CrashKeepsMended ==
  ASSUME Shape, Course, Complete, Mended, Crash, Next
  PROVE  Mended'
<1>1. /\ events \in SUBSET Committed /\ events' = events /\ watermark' = watermark /\ pass' = Idle
      /\ torn' = torn \cup (IF pass.step = "write" THEN {<<pass.who, pass.hour, "usage">>} ELSE {})
                  \cup (IF pass.step = "respan" THEN {<<pass.who, pass.hour, "spans">>} ELSE {})
  BY ArrivalTypes DEF Crash
<1>2. \A e \in events : recv'[e] = recv[e] /\ HourOf(e)' = HourOf(e)
  BY <1>1, IngestFacts, Names
<1>3. ASSUME NEW t \in torn', t[1] = "forward"
      PROVE  \E e \in events : HourOf(e) = t[2] /\ recv[e] > watermark
  <2>1. CASE t \in torn
    BY <1>3, <2>1 DEF Mended
  <2>2. CASE t \notin torn
    <3>1. /\ pass.step \in {"write", "respan"}
          /\ t = <<pass.who, pass.hour, "usage">> \/ t = <<pass.who, pass.hour, "spans">>
      BY <1>1, <2>2
    <3>2. pass.who = "forward" /\ t[2] = pass.hour /\ pass.hour \in pass.dirty
      BY <1>3, <3>1 DEF Course
    <3> QED
      BY <3>2 DEF Complete
  <2> QED
    BY <2>1, <2>2
<1>4. pass'.step = "idle" /\ pass'.who = "none"
  BY <1>1 DEF Idle
<1> QED
  BY <1>1, <1>2, <1>3, <1>4 DEF Mended

LEMMA NextKeepsMended ==
  ASSUME Shape, Course, Grouped, Caught, Complete, Mended, Next
  PROVE  Mended'
BY IngestKeepsMended, ScanKeepsMended, StepsKeepMended, CrashKeepsMended DEF Next, Reproject

-----------------------------------------------------------------------------
(* The theorems. *)

LEMMA InitEstablishes == Init => IInv
<1> SUFFICES ASSUME Init
             PROVE  IInv
  OBVIOUS
<1>1. /\ now = 0 /\ stamp = 0 /\ watermark = 0 /\ crashes = 0 /\ rec \in Recordings
      /\ recv = [e \in Event |-> 0] /\ at = [e \in Event |-> 0]
      /\ open = {} /\ events = {} /\ late = {} /\ torn = {} /\ ordered = TRUE
      /\ usage = [h \in Hours |-> {}] /\ daily = [x \in {Day(h) : h \in Hours} |-> {}]
      /\ spans = {} /\ logged = {} /\ unlocks = {} /\ pass = Idle
  BY DEF Init
<1>2. Begun = {} /\ Committed = {}
  BY <1>1 DEF Begun, Committed
<1>3. 0 \in Hours
  BY ConstantTypes DEF Hours
<1>4. /\ pass.who = "none" /\ pass.step = "idle" /\ pass.dirty = {} /\ pass.rows = {}
  BY <1>1 DEF Idle
<1>5. Shape
  <2>1. IngestShape
    BY <1>1, <1>2 DEF IngestShape
  <2>2. TableShape
    BY <1>1 DEF TableShape
  <2>3. PassShape
    BY <1>1, <1>3 DEF PassShape, Passes, Idle
  <2> QED
    BY <2>1, <2>2, <2>3 DEF Shape
<1>6. Course
  BY <1>4 DEF Course, Working
<1>7. Grouped /\ Caught /\ Stored /\ Complete /\ Covered /\ Mended
  BY <1>1, <1>2, <1>4 DEF Grouped, Caught, Stored, Complete, Covered, Mended
<1> QED
  BY <1>5, <1>6, <1>7 DEF IInv

LEMMA NextPreserves == IInv /\ [Next]_vars => IInv'
<1> SUFFICES ASSUME IInv, [Next]_vars
             PROVE  IInv'
  OBVIOUS
<1>1. CASE Next
  BY <1>1, NextKeepsShape, NextKeepsCourse, NextKeepsGrouped, NextKeepsCaught, NextKeepsStored,
     NextKeepsComplete, NextKeepsCovered, NextKeepsMended DEF IInv
<1>2. CASE UNCHANGED vars
  <2>1. UNCHANGED <<now, rec, stamp, recv, at, open, events, late, ordered, watermark, usage, daily, spans, logged,
                    unlocks, pass, crashes, torn>>
    BY <1>2 DEF vars, ingest, tables
  <2>2. /\ Event' = Event /\ Begun' = Begun /\ Committed' = Committed /\ Passes' = Passes
        /\ Sample' = Sample /\ Session' = Session /\ Audit' = Audit /\ \A e : HourOf(e)' = HourOf(e)
    BY <2>1, Names DEF Begun, Committed
  <2>3. Shape'
    BY <2>1, <2>2 DEF IInv, Shape, IngestShape, TableShape, PassShape
  <2>6. \A e \in Committed : \A h : Outlived(e, h)' <=> Outlived(e, h)
    BY <2>1, <2>2, OutlivedSame
  <2>4. Course' /\ Grouped' /\ Caught' /\ Stored' /\ Complete' /\ Mended'
    <3>1. Course' /\ Grouped' /\ Caught' /\ Mended'
      BY <2>1, <2>2 DEF IInv, Course, Grouped, Caught, Mended
    <3>2. \A e : Expired(e)' <=> Expired(e)
      BY <2>1, <2>2 DEF Expired, Kept
    <3>3. Stored'
      BY <2>1, <2>2, <3>2 DEF IInv, Stored
    <3>4. Complete'
      BY <2>1, <2>2, <2>6 DEF IInv, Complete
    <3> QED
      BY <3>1, <3>3, <3>4
  <2>5. Covered'
    <3>1. ASSUME NEW e
          PROVE  Accounted(e)' <=> Accounted(e)
      BY <2>1, <2>2 DEF Accounted
    <3>2. Scanned' = Scanned
      BY <2>1 DEF Scanned
    <3>3. ASSUME NEW e \in Committed, Counted(e)
          PROVE  Counted(e)'
      BY <2>1, <2>2, <2>6, <3>1, <3>3 DEF Counted
    <3>4. ASSUME NEW e \in Committed \ late
          PROVE  Promised(e)' /\ ToPromise(e)' /\ InHand(e)'
      BY <2>1, <2>2, <2>6, <3>2, <3>3 DEF IInv, Covered, Promised, ToPromise, InHand
    <3> QED
      BY <2>1, <2>2, <3>4 DEF Covered
  <2> QED
    BY <2>3, <2>4, <2>5 DEF IInv
<1> QED
  BY <1>1, <1>2

LEMMA Inductive == Spec => []IInv
BY InitEstablishes, NextPreserves, PTL DEF Spec

LEMMA ShapeIsTyped ==
  ASSUME Shape
  PROVE  TypeOK
<1>1. IngestShape /\ TableShape /\ PassShape
  BY DEF Shape
<1>2. \A E \in {usage[h] : h \in Hours} \cup {daily[x] : x \in {Day(h) : h \in Hours}} : E \subseteq OfType("sample")
  BY <1>1 DEF TableShape, Sample
<1>3. pass \in [who : {"none", "forward", "nightly"},
             step : {"idle", "buckets", "clear", "write", "spans", "respan", "unlocks", "advance", "rollup"},
             dirty : SUBSET Hours, upto : Nat, hour : Hours, rows : SUBSET Event, after : Nat \cup {Never}]
  BY <1>1 DEF PassShape, Passes, Working, Committed, Begun
<1> QED
  BY <1>1, <1>2, <1>3 DEF TypeOK, IngestShape, TableShape

\* Every table, batch and pass is of its type: a sum holds recorded samples, the log
\* recorded decisions, and what is stored has committed (jobs/project.ts).
THEOREM TypesHold == Spec => []TypeOK
<1>1. IInv => TypeOK
  BY ShapeIsTyped DEF IInv
<1> QED
  BY <1>1, Inductive, PTL

\* "Silent evaporation", for every recording, age of what arrives, batch size, number
\* of restarts, and retention longer than the projector is behind: what the watermark
\* has passed is in what the reports read, but for a sum whose hour was read again when
\* the sample was gone (jobs/project.ts, jobs/prune.ts).
THEOREM SeenCounted == Spec => []SeenIsCounted
<1>1. ASSUME IInv
      PROVE  SeenIsCounted
  <2>1. ASSUME NEW e \in Committed \ late, recv[e] <= watermark
        PROVE  Counted(e)
    BY <1>1, <2>1 DEF IInv, Covered, Promised
  <2>2. \A t \in torn : t[1] = "forward" => \E e \in events : HourOf(e) = t[2] /\ recv[e] > watermark
    BY <1>1 DEF IInv, Mended
  <2> QED
    BY <2>1, <2>2 DEF SeenIsCounted, Counted, Accounted, HourOf
<1> QED
  BY <1>1, Inductive, PTL

-----------------------------------------------------------------------------
(* The session: its spans and its unlocks. *)

AtHour == pass.step \in {"clear", "write", "spans", "respan", "unlocks"}

\* A span is a transition's, one each, and ends at a later transition.
Spanning ==
  /\ \A s \in spans : \E e \in Every : s.from = rec[e].ts
  /\ \A s, r \in spans : s.from = r.from => s = r
  /\ \A s \in spans : s.to # Never => s.from < s.to /\ \E f \in Every : s.to = rec[f].ts

\* What a pass holds of its hour, and what it has written of it.
Holding ==
  /\ AtHour => \A e \in pass.rows : HourOf(e) = pass.hour
  /\ pass.step = "respan" =>
       /\ \A s \in spans : Hour(s.from) # pass.hour
       /\ pass.after # Never => Hour(pass.after) > pass.hour /\ \E f \in Every : pass.after = rec[f].ts
  /\ pass.step = "unlocks" => \A e \in pass.rows \cap Session : \E s \in spans : s.from = rec[e].ts
  /\ unlocks \in SUBSET Every

\* No transition committed behind a scan.
OnTime == Every \cap late = {}

\* The pass has the transitions of its hour that were stamped before its scan ended, and
\* are new or not outlived.
InRows ==
  OnTime /\ AtHour =>
    \A e \in Every :
      HourOf(e) = pass.hour /\ recv[e] <= Scanned /\ (recv[e] > watermark \/ ~Outlived(e, pass.hour)) =>
        e \in pass.rows

\* A transition has its span, unless that is being rewritten or a pass died over it.
Drawn(e) ==
  \/ \E s \in spans : s.from = rec[e].ts
  \/ pass.step = "respan" /\ pass.hour = HourOf(e)
  \/ \E t \in torn : t[2] = HourOf(e) /\ t[3] = "spans"

Forward == pass.who = "forward" /\ pass.step \in Working

DrawnUp ==
  OnTime => \A e \in Every : ~Outlived(e, HourOf(e)) =>
    /\ recv[e] <= watermark => Drawn(e)
    /\ Forward /\ recv[e] <= pass.upto => Drawn(e) \/ HourOf(e) \in pass.dirty

\* The forward pass has still to come to this transition.
Pending(g) ==
  recv[g] > watermark /\ (Forward /\ recv[g] <= pass.upto => HourOf(g) \in pass.dirty)

\* A span that is open, or that ends too late, misses a transition.
Misses(s, g) ==
  s.from < rec[g].ts /\ (s.to = Never \/ (ordered /\ rec[g].ts < s.to))

Waits ==
  OnTime => \A s \in spans, g \in Every : Misses(s, g) /\ ~Outlived(g, Hour(s.from)) =>
    /\ Pending(g) /\ (s.to # Never => HourOf(g) = Hour(s.from))
    /\ pass.step = "unlocks" /\ HourOf(g) = pass.hour /\ Hour(s.from) = pass.hour => recv[g] > Scanned

\* The transition read before an hour's spans were deleted is still the next one.
ReadAhead ==
  OnTime /\ pass.step = "respan" =>
    \A g \in Every : HourOf(g) > pass.hour /\ ~Outlived(g, pass.hour) =>
      /\ pass.after = Never => recv[g] > Scanned
      /\ ordered /\ pass.after # Never => pass.after <= rec[g].ts

IsUnlock(e) == rec[e].st = "active" /\ \E f \in Every : rec[f].st = "locked" /\ Precedes(f, e)

\* While transitions arrive in order, the pass has all that came before one it has;
\* what is listed is an unlock; and what is one is listed, or the pass has still to
\* come to its hour.
InOrder ==
  ordered /\ AtHour =>
    \A e \in pass.rows \cap Session, f \in Every :
      HourOf(f) = pass.hour /\ ~Outlived(f, pass.hour) /\ rec[f].ts < rec[e].ts => f \in pass.rows
Rightly == ordered => \A e \in unlocks : Remembered(e) => IsUnlock(e)
Found ==
  ordered /\ OnTime => \A e \in Every : Remembered(e) /\ IsUnlock(e) =>
    /\ recv[e] <= watermark => e \in unlocks
    /\ Forward /\ recv[e] <= pass.upto => e \in unlocks \/ HourOf(e) \in pass.dirty

Drawing == Spanning /\ Holding /\ InRows /\ DrawnUp /\ Waits /\ ReadAhead /\ InOrder /\ Rightly /\ Found

LEMMA HourMonotone ==
  ASSUME NEW a \in Nat, NEW b \in Nat
  PROVE  /\ Hour(a) \in Nat
         /\ a <= b => Hour(a) <= Hour(b)
         /\ Hour(a) < Hour(b) => a < b
BY DEF Hour

\* A transition is known by its time.
LEMMA SessionTypes ==
  ASSUME Shape
  PROVE  /\ Every \in SUBSET Committed /\ Every \in SUBSET Event /\ Every \in SUBSET Session
         /\ \A e \in Every : /\ rec[e].ts \in Nat /\ HourOf(e) \in Nat /\ HourOf(e) = Hour(rec[e].ts)
                             /\ recv[e] \in Nat /\ at[e] \in Nat
                             /\ rec[e].st \in {"locked", "active"}
         /\ \A e, f \in Every : rec[e].ts = rec[f].ts => e = f
         /\ pass.rows \cap Session \in SUBSET Every /\ Transitions \in SUBSET Every
         /\ \A e \in Every : e \in events => e \in Transitions
<1>1. rec \in Recordings /\ Committed \in SUBSET Event /\ pass.rows \in SUBSET Committed /\ events \in SUBSET Committed
      /\ \A e \in Event : recv[e] \in Nat /\ at[e] \in Nat
  BY ArrivalTypes DEF Shape, IngestShape, PassShape
<1>2. \A e \in Session : e \in Event /\ rec[e].type = "session"
  BY DEF Session, OfType
<1>3. \A e, f \in Event : rec[e].type = "session" /\ rec[f].type = "session" /\ rec[e].ts = rec[f].ts => e = f
  BY <1>1, ProjectionAssumption DEF Event
<1>4. \A e \in Event : rec[e].ts \in Nat /\ HourOf(e) \in Nat /\ rec[e].st \in {"locked", "active"}
  BY <1>1, RecordingFacts
<1> QED
  BY <1>1, <1>2, <1>3, <1>4 DEF Every, Transitions, HourOf

\* What is said of transitions does not change while none commits.
LEMMA EveryStays ==
  ASSUME rec' = rec, Committed' = Committed, \A e \in Committed : at'[e] = at[e]
  PROVE  /\ Every' = Every /\ Session' = Session
         /\ \A e \in Every : \A h : Outlived(e, h)' <=> Outlived(e, h)
         /\ \A f, e : Precedes(f, e)' <=> Precedes(f, e)
         /\ \A e : /\ HourOf(e)' = HourOf(e)
                   /\ Remembered(e)' <=> Remembered(e)
                   /\ IsUnlock(e)' <=> IsUnlock(e)
<1>1. Every' = Every /\ Session' = Session /\ \A e : HourOf(e)' = HourOf(e)
  BY Names DEF Every
<1>2. \A f, e : Precedes(f, e)' <=> Precedes(f, e)
  BY <1>1 DEF Precedes
<1>3. \A e \in Every : \A h : Outlived(e, h)' <=> Outlived(e, h)
  BY OutlivedSame DEF Every
<1>4. \A e : Remembered(e)' <=> Remembered(e)
  <2>1. \A e : Hour(rec[e].ts)' = Hour(rec[e].ts)
    OBVIOUS
  <2> QED
    BY <1>1, <1>2, <1>3, <2>1 DEF Remembered
<1> QED
  BY <1>1, <1>2, <1>3, <1>4 DEF IsUnlock

LEMMA DrawingStays ==
  ASSUME Drawing, rec' = rec, Committed' = Committed, \A e \in Every : recv'[e] = recv[e],
         \A e \in Committed : at'[e] = at[e],
         UNCHANGED <<pass, watermark, torn, spans, unlocks, late, ordered>>
  PROVE  Drawing'
<1>1. /\ Every' = Every /\ Session' = Session /\ Scanned' = Scanned
      /\ pass' = pass /\ watermark' = watermark /\ torn' = torn /\ spans' = spans /\ unlocks' = unlocks
      /\ late' = late /\ ordered' = ordered
      /\ \A e \in Every : recv'[e] = recv[e]
  BY EveryStays DEF Scanned
<1>2. (OnTime' <=> OnTime) /\ (AtHour' <=> AtHour) /\ (Forward' <=> Forward)
  BY <1>1 DEF OnTime, AtHour, Forward
<1>3. \A e : /\ HourOf(e)' = HourOf(e)
             /\ Remembered(e)' <=> Remembered(e)
             /\ IsUnlock(e)' <=> IsUnlock(e)
  BY EveryStays
<1>13. \A e \in Every : \A h : Outlived(e, h)' <=> Outlived(e, h)
  BY EveryStays
<1>4. Spanning'
  BY <1>1 DEF Drawing, Spanning
<1>5. Holding'
  BY <1>1, <1>2, <1>3 DEF Drawing, Holding
<1>6. InRows'
  BY <1>1, <1>2, <1>3, <1>13 DEF Drawing, InRows
<1>7. DrawnUp'
  <2>1. \A e : Drawn(e)' <=> Drawn(e)
    BY <1>1, <1>3 DEF Drawn
  <2> QED
    BY <1>1, <1>2, <1>3, <1>13, <2>1 DEF Drawing, DrawnUp
<1>8. Waits'
  <2>1. \A s, g : Misses(s, g)' <=> Misses(s, g)
    BY <1>1 DEF Misses
  <2>2. \A g \in Every : Pending(g)' <=> Pending(g)
    BY <1>1, <1>2, <1>3 DEF Pending
  <2> QED
    BY <1>1, <1>2, <1>3, <1>13, <2>1, <2>2 DEF Drawing, Waits
<1>9. ReadAhead'
  BY <1>1, <1>2, <1>3, <1>13 DEF Drawing, ReadAhead
<1>10. InOrder'
  BY <1>1, <1>2, <1>3, <1>13 DEF Drawing, InOrder
<1>11. Rightly'
  BY <1>1, <1>3 DEF Drawing, Rightly
<1>12. Found'
  BY <1>1, <1>2, <1>3 DEF Drawing, Found
<1> QED
  BY <1>4, <1>5, <1>6, <1>7, <1>8, <1>9, <1>10, <1>11, <1>12 DEF Drawing

\* A pass, and the scan that begins one, leave the transitions as they are.
LEMMA SessionStays ==
  ASSUME Steps \/ \E who \in {"forward", "nightly"} : Scan(who)
  PROVE  /\ rec' = rec /\ recv' = recv /\ late' = late /\ ordered' = ordered /\ events' = events
         /\ Committed' = Committed /\ Every' = Every /\ Session' = Session
         /\ OnTime' <=> OnTime
         /\ \A e \in Every : \A h : Outlived(e, h)' <=> Outlived(e, h)
         /\ \A e : /\ HourOf(e)' = HourOf(e)
                   /\ Remembered(e)' <=> Remembered(e)
                   /\ IsUnlock(e)' <=> IsUnlock(e)
<1>1. rec' = rec /\ recv' = recv /\ at' = at /\ late' = late /\ Committed' = Committed
  BY ArrivedStays
<1>2. ordered' = ordered /\ events' = events
  BY DEF Steps, ReadBucket, ClearUsage, WriteUsage, ClearSpans, WriteSpans, WriteUnlocks, Advance, RollUp, Scan, ingest
<1>3. OnTime' <=> OnTime
  BY <1>1, EveryStays DEF OnTime
<1> QED
  BY <1>1, <1>2, <1>3, EveryStays

LEMMA ReadKeepsDrawing ==
  ASSUME Shape, Course, Caught, Stored, Complete, Drawing, NEW h \in pass.dirty, ReadBucket(h)
  PROVE  Drawing'
<1>0. /\ rec' = rec /\ recv' = recv /\ late' = late /\ ordered' = ordered
      /\ Every' = Every /\ Session' = Session
      /\ OnTime' <=> OnTime
      /\ \A e \in Every : \A i : Outlived(e, i)' <=> Outlived(e, i)
      /\ \A e : /\ HourOf(e)' = HourOf(e)
                /\ Remembered(e)' <=> Remembered(e)
                /\ IsUnlock(e)' <=> IsUnlock(e)
  BY SessionStays DEF Steps
<1>1. /\ spans' = spans /\ unlocks' = unlocks /\ watermark' = watermark /\ torn' = torn
      /\ pass.step = "buckets" /\ pass'.step = "clear"
      /\ pass'.who = pass.who /\ pass'.dirty = pass.dirty /\ pass'.upto = pass.upto
      /\ pass'.hour = h /\ pass'.rows = {e \in events : HourOf(e) = h}
  BY DEF ReadBucket, Shape, PassShape, Passes, tables, HourOf
<1>2. /\ Forward' <=> Forward
      /\ ~AtHour /\ AtHour'
  BY <1>1 DEF Forward, AtHour, Working
<1>3. ASSUME NEW e \in Every, HourOf(e) = h, recv[e] > watermark \/ ~Outlived(e, h)
      PROVE  e \in pass'.rows
  <2>1. e \in Committed
    BY SessionTypes
  <2>2. e \in events
    BY <1>3, <2>1, NewStored DEF Complete
  <2> QED
    BY <1>1, <1>3, <2>2
<1>4. Spanning'
  BY <1>0, <1>1 DEF Drawing, Spanning
<1>5. Holding'
  BY <1>0, <1>1 DEF Drawing, Holding
<1>6. InRows'
  BY <1>0, <1>1, <1>3 DEF InRows
<1>7. DrawnUp'
  <2>1. \A e : Drawn(e) => Drawn(e)'
    BY <1>0, <1>1 DEF Drawn
  <2> QED
    BY <1>0, <1>1, <1>2, <2>1 DEF Drawing, DrawnUp
<1>8. Waits'
  <2>1. \A s, g : Misses(s, g)' <=> Misses(s, g)
    BY <1>0 DEF Misses
  <2>2. \A g : Pending(g)' <=> Pending(g)
    BY <1>0, <1>1, <1>2 DEF Pending
  <2> QED
    BY <1>0, <1>1, <2>1, <2>2 DEF Drawing, Waits
<1>9. ReadAhead'
  BY <1>1 DEF ReadAhead
<1>10. InOrder'
  BY <1>0, <1>1, <1>3 DEF InOrder
<1>11. Rightly'
  BY <1>0, <1>1 DEF Drawing, Rightly
<1>12. Found'
  BY <1>0, <1>1, <1>2 DEF Drawing, Found
<1> QED
  BY <1>4, <1>5, <1>6, <1>7, <1>8, <1>9, <1>10, <1>11, <1>12 DEF Drawing

\* The usage statements come before those of the session.
LEMMA UsageKeepsDrawing ==
  ASSUME Shape, Course, Drawing, ClearUsage \/ WriteUsage
  PROVE  Drawing'
<1>0. /\ rec' = rec /\ recv' = recv /\ late' = late /\ ordered' = ordered
      /\ Every' = Every /\ Session' = Session
      /\ OnTime' <=> OnTime
      /\ \A e \in Every : \A h : Outlived(e, h)' <=> Outlived(e, h)
      /\ \A e : /\ HourOf(e)' = HourOf(e)
                /\ Remembered(e)' <=> Remembered(e)
                /\ IsUnlock(e)' <=> IsUnlock(e)
  BY SessionStays DEF Steps
<1>1. /\ spans' = spans /\ unlocks' = unlocks /\ watermark' = watermark
      /\ \A t \in torn : t[3] = "spans" => t \in torn'
      /\ pass.step \in {"clear", "write"} /\ pass'.step \in {"write", "spans"}
      /\ pass'.who = pass.who /\ pass'.dirty = pass.dirty /\ pass'.upto = pass.upto
      /\ pass'.hour = pass.hour /\ pass'.rows = pass.rows
  BY DEF ClearUsage, WriteUsage, Shape, PassShape, Passes
<1>2. /\ Forward' <=> Forward
      /\ AtHour /\ AtHour' /\ Scanned' = Scanned
  BY <1>1 DEF Forward, AtHour, Working, Scanned
<1>4. Spanning'
  BY <1>0, <1>1 DEF Drawing, Spanning
<1>5. Holding'
  BY <1>0, <1>1, <1>2 DEF Drawing, Holding
<1>6. InRows'
  BY <1>0, <1>1, <1>2 DEF Drawing, InRows
<1>7. DrawnUp'
  <2>1. \A e : Drawn(e) => Drawn(e)'
    BY <1>0, <1>1 DEF Drawn
  <2> QED
    BY <1>0, <1>1, <1>2, <2>1 DEF Drawing, DrawnUp
<1>8. Waits'
  <2>1. \A s, g : Misses(s, g)' <=> Misses(s, g)
    BY <1>0 DEF Misses
  <2>2. \A g : Pending(g)' <=> Pending(g)
    BY <1>0, <1>1, <1>2 DEF Pending
  <2> QED
    BY <1>0, <1>1, <2>1, <2>2 DEF Drawing, Waits
<1>9. ReadAhead'
  BY <1>1 DEF ReadAhead
<1>10. InOrder'
  BY <1>0, <1>1, <1>2 DEF Drawing, InOrder
<1>11. Rightly'
  BY <1>0, <1>1 DEF Drawing, Rightly
<1>12. Found'
  BY <1>0, <1>1, <1>2 DEF Drawing, Found
<1> QED
  BY <1>4, <1>5, <1>6, <1>7, <1>8, <1>9, <1>10, <1>11, <1>12 DEF Drawing

\* The transition after the hour, read while all that is later is stored.
LEMMA AfterIsNext ==
  ASSUME Shape, Course, Complete, AtHour
  PROVE  /\ After # Never => Hour(After) > pass.hour /\ \E f \in Every : After = rec[f].ts
         /\ \A g \in Every : HourOf(g) > pass.hour /\ ~Outlived(g, pass.hour) =>
              After # Never /\ After <= rec[g].ts
<1> DEFINE later == {t \in Ts(Transitions) : Hour(t) > pass.hour}
<1>1. /\ Every \in SUBSET Committed /\ Transitions \in SUBSET Every
      /\ \A e \in Every : rec[e].ts \in Nat /\ HourOf(e) \in Nat /\ HourOf(e) = Hour(rec[e].ts)
      /\ \A e \in Every : e \in events => e \in Transitions
  BY SessionTypes
<1>2. Ts(Transitions) \in SUBSET Nat /\ \A t \in Ts(Transitions) : \E f \in Every : t = rec[f].ts
  BY <1>1 DEF Ts
<1>3. pass.hour \in pass.dirty /\ pass.hour \in Nat
  <2>1. pass.hour \in Hours /\ Hours \subseteq Nat
    BY ConstantTypes DEF Shape, PassShape, Passes, Hours
  <2> QED
    BY <2>1 DEF Course, AtHour
<1>4. later # {} => First(later) \in later /\ \A u \in later : First(later) <= u
  <2>1. later \in SUBSET Nat
    BY <1>2
  <2> HIDE DEF later
  <2> QED
    BY <2>1, FirstFacts
<1>5. After = IF later # {} THEN First(later) ELSE Never
  BY DEF After
<1>6. ASSUME NEW g \in Every, HourOf(g) > pass.hour, ~Outlived(g, pass.hour)
      PROVE  rec[g].ts \in later
  <2>1. g \in Transitions
    BY <1>1, <1>3, <1>6 DEF Complete
  <2> QED
    BY <1>1, <1>6, <2>1 DEF Ts
<1>7. \A u \in later : u \in Nat /\ u # Never /\ Hour(u) > pass.hour /\ \E f \in Every : u = rec[f].ts
  BY <1>2 DEF Never
<1> HIDE DEF later
<1>8. ASSUME After # Never
      PROVE  Hour(After) > pass.hour /\ \E f \in Every : After = rec[f].ts
  BY <1>4, <1>5, <1>7, <1>8
<1>9. ASSUME NEW g \in Every, HourOf(g) > pass.hour, ~Outlived(g, pass.hour)
      PROVE  After # Never /\ After <= rec[g].ts
  BY <1>4, <1>5, <1>6, <1>7, <1>9
<1> QED
  BY <1>8, <1>9

LEMMA ClearKeepsDrawing ==
  ASSUME Shape, Course, Complete, Drawing, ClearSpans
  PROVE  Drawing'
<1>0. /\ rec' = rec /\ recv' = recv /\ late' = late /\ ordered' = ordered
      /\ Every' = Every /\ Session' = Session
      /\ OnTime' <=> OnTime
      /\ \A e \in Every : \A h : Outlived(e, h)' <=> Outlived(e, h)
      /\ \A e : /\ HourOf(e)' = HourOf(e)
                /\ Remembered(e)' <=> Remembered(e)
                /\ IsUnlock(e)' <=> IsUnlock(e)
  BY SessionStays DEF Steps
<1>1. /\ spans' = {s \in spans : Hour(s.from) # pass.hour} /\ unlocks' = unlocks /\ watermark' = watermark
      /\ torn' = torn /\ pass.step = "spans" /\ pass'.step = "respan"
      /\ pass'.who = pass.who /\ pass'.dirty = pass.dirty /\ pass'.upto = pass.upto
      /\ pass'.hour = pass.hour /\ pass'.rows = pass.rows /\ pass'.after = After
  BY DEF ClearSpans, Shape, PassShape, Passes
<1>2. /\ Forward' <=> Forward
      /\ AtHour /\ AtHour' /\ Scanned' = Scanned
  BY <1>1 DEF Forward, AtHour, Working, Scanned
<1>3. /\ After # Never => Hour(After) > pass.hour /\ \E f \in Every : After = rec[f].ts
      /\ \A g \in Every : HourOf(g) > pass.hour /\ ~Outlived(g, pass.hour) =>
           After # Never /\ After <= rec[g].ts
  BY <1>2, AfterIsNext
<1>4. Spanning'
  BY <1>0, <1>1 DEF Drawing, Spanning
<1>5. Holding'
  BY <1>0, <1>1, <1>2, <1>3 DEF Drawing, Holding
<1>6. InRows'
  BY <1>0, <1>1, <1>2 DEF Drawing, InRows
<1>7. DrawnUp'
  <2>1. ASSUME NEW e \in Every, Drawn(e)
        PROVE  Drawn(e)'
    <3>1. HourOf(e) = Hour(rec[e].ts)
      BY DEF HourOf
    <3> QED
      BY <1>0, <1>1, <2>1, <3>1 DEF Drawn
  <2> QED
    BY <1>0, <1>1, <1>2, <2>1 DEF Drawing, DrawnUp
<1>8. Waits'
  <2>1. \A s, g : Misses(s, g)' <=> Misses(s, g)
    BY <1>0 DEF Misses
  <2>2. \A g : Pending(g)' <=> Pending(g)
    BY <1>0, <1>1, <1>2 DEF Pending
  <2>3. \A s \in spans' : s \in spans
    BY <1>1
  <2> QED
    BY <1>0, <1>1, <2>1, <2>2, <2>3 DEF Drawing, Waits
<1>9. ReadAhead'
  BY <1>0, <1>1, <1>3 DEF ReadAhead
<1>10. InOrder'
  BY <1>0, <1>1, <1>2 DEF Drawing, InOrder
<1>11. Rightly'
  BY <1>0, <1>1 DEF Drawing, Rightly
<1>12. Found'
  BY <1>0, <1>1, <1>2 DEF Drawing, Found
<1> QED
  BY <1>4, <1>5, <1>6, <1>7, <1>8, <1>9, <1>10, <1>11, <1>12 DEF Drawing

\* Where a span that is being written ends, and what that can miss: a transition that
\* was stamped after the pass had looked.
LEMMA EndIsNext ==
  ASSUME Shape, Course, Drawing, pass.step = "respan", NEW e \in pass.rows \cap Session
  PROVE  /\ EndOf(e) # Never => rec[e].ts < EndOf(e) /\ \E f \in Every : EndOf(e) = rec[f].ts
         /\ OnTime => \A g \in Every : ~Outlived(g, pass.hour) =>
              (rec[e].ts < rec[g].ts /\ (EndOf(e) = Never \/ (ordered /\ rec[g].ts < EndOf(e))) =>
                 recv[g] > Scanned /\ (EndOf(e) # Never => HourOf(g) = pass.hour))
<1> DEFINE inHour == {t \in Ts(pass.rows \cap Session) : t > rec[e].ts}
<1>1. /\ pass.rows \cap Session \in SUBSET Every /\ e \in Every
      /\ \A f \in Every : rec[f].ts \in Nat /\ HourOf(f) \in Nat /\ HourOf(f) = Hour(rec[f].ts) /\ recv[f] \in Nat
  BY SessionTypes
<1>2. AtHour /\ Scanned \in Nat
  BY ScannedFacts DEF AtHour
<1>3. /\ \A f \in pass.rows : HourOf(f) = pass.hour
      /\ pass.after # Never => Hour(pass.after) > pass.hour /\ \E f \in Every : pass.after = rec[f].ts
  BY <1>2 DEF Drawing, Holding
<1>4. \A t \in inHour : /\ t \in Nat /\ t # Never /\ t > rec[e].ts /\ Hour(t) = pass.hour
                        /\ \E f \in Every : t = rec[f].ts
  <2>1. ASSUME NEW t \in inHour
        PROVE  \E f \in pass.rows \cap Session : t = rec[f].ts
    BY DEF Ts
  <2>2. \A f \in pass.rows \cap Session : /\ f \in Every /\ rec[f].ts \in Nat /\ Hour(rec[f].ts) = pass.hour
    BY <1>1, <1>3
  <2>3. \A t \in inHour : t > rec[e].ts
    OBVIOUS
  <2> QED
    BY <2>1, <2>2, <2>3 DEF Never
<1>5. inHour # {} => First(inHour) \in inHour /\ \A u \in inHour : First(inHour) <= u
  <2>1. inHour \in SUBSET Nat
    BY <1>4
  <2> HIDE DEF inHour
  <2> QED
    BY <2>1, FirstFacts
<1>6. EndOf(e) = IF inHour # {} THEN First(inHour) ELSE pass.after
  BY DEF EndOf
<1>7. ASSUME NEW g \in Every, g \in pass.rows, rec[e].ts < rec[g].ts
      PROVE  rec[g].ts \in inHour
  <2>1. g \in pass.rows \cap Session
    BY <1>7, SessionTypes
  <2> QED
    BY <1>7, <2>1, <1>1 DEF Ts
<1>8. ASSUME EndOf(e) # Never
      PROVE  rec[e].ts < EndOf(e) /\ \E f \in Every : EndOf(e) = rec[f].ts
  <2>1. CASE inHour # {}
    <3> HIDE DEF inHour
    <3>1. First(inHour) \in inHour /\ EndOf(e) = First(inHour)
      BY <1>5, <1>6, <2>1
    <3>2. rec[e].ts \in Nat /\ EndOf(e) \in Nat /\ EndOf(e) > rec[e].ts /\ \E f \in Every : EndOf(e) = rec[f].ts
      BY <1>1, <1>4, <3>1
    <3> QED
      BY <3>2
  <2>2. CASE inHour = {}
    <3>1. EndOf(e) = pass.after
      BY <1>6, <2>2
    <3>2. PICK f \in Every : EndOf(e) = rec[f].ts
      BY <1>3, <1>8, <3>1
    <3>3. Hour(rec[e].ts) < Hour(rec[f].ts)
      <4>1. Hour(rec[f].ts) > pass.hour
        BY <1>3, <1>8, <3>1, <3>2
      <4>2. Hour(rec[e].ts) = pass.hour /\ HourOf(e) \in Nat /\ HourOf(f) \in Nat
        BY <1>1, <1>3
      <4> QED
        BY <1>1, <4>1, <4>2
    <3> QED
      BY <1>1, <3>2, <3>3, HourMonotone
  <2> QED
    BY <2>1, <2>2
<1>9. ASSUME OnTime, NEW g \in Every, ~Outlived(g, pass.hour), rec[e].ts < rec[g].ts,
             EndOf(e) = Never \/ (ordered /\ rec[g].ts < EndOf(e))
      PROVE  recv[g] > Scanned /\ (EndOf(e) # Never => HourOf(g) = pass.hour)
  <2>1. HourOf(g) >= pass.hour /\ pass.hour \in Nat
    <3>1. HourOf(e) <= HourOf(g)
      BY <1>1, <1>9, HourMonotone
    <3> QED
      BY <1>1, <1>3, <3>1
  <2>2. CASE HourOf(g) = pass.hour
    <3>1. g \notin pass.rows
      <4>1. ASSUME g \in pass.rows
            PROVE  FALSE
        <5>1. rec[g].ts \in inHour
          BY <1>7, <1>9, <4>1
        <5> HIDE DEF inHour
        <5>2. First(inHour) <= rec[g].ts /\ First(inHour) \in inHour /\ EndOf(e) = First(inHour)
          BY <1>5, <1>6, <5>1
        <5>3. EndOf(e) \in Nat /\ EndOf(e) # Never
          BY <1>4, <5>2
        <5> QED
          BY <1>1, <1>9, <5>2, <5>3
      <4> QED
        BY <4>1
    <3>2. ~(recv[g] <= Scanned)
      BY <1>2, <1>9, <2>2, <3>1 DEF Drawing, InRows
    <3> QED
      BY <1>1, <1>2, <2>2, <3>2
  <2>3. CASE HourOf(g) > pass.hour
    <3>1. /\ pass.after = Never => recv[g] > Scanned
          /\ ordered /\ pass.after # Never => pass.after <= rec[g].ts
      BY <1>9, <2>3 DEF Drawing, ReadAhead
    <3>2. CASE inHour # {}
      <4> HIDE DEF inHour
      <4>1. First(inHour) \in inHour /\ EndOf(e) = First(inHour)
        BY <1>5, <1>6, <3>2
      <4>2. EndOf(e) \in Nat /\ EndOf(e) # Never /\ Hour(EndOf(e)) = pass.hour
        BY <1>4, <4>1
      <4>3. EndOf(e) < rec[g].ts
        BY <1>1, <2>3, <4>2, HourMonotone
      <4> QED
        BY <1>1, <1>9, <4>2, <4>3
    <3>3. CASE inHour = {}
      <4>1. EndOf(e) = pass.after
        BY <1>6, <3>3
      <4>2. CASE pass.after = Never
        BY <3>1, <4>1, <4>2
      <4>3. CASE pass.after # Never
        <5>1. pass.after \in Nat
          BY <1>1, <1>3, <4>3
        <5>2. ordered /\ rec[g].ts < pass.after /\ pass.after <= rec[g].ts
          BY <1>9, <3>1, <4>1, <4>3
        <5> QED
          BY <1>1, <5>1, <5>2
      <4> QED
        BY <4>2, <4>3
    <3> QED
      BY <3>2, <3>3
  <2> QED
    BY <1>1, <2>1, <2>2, <2>3
<1> QED
  BY <1>8, <1>9

SpanOf(e) == [from |-> rec[e].ts, kind |-> rec[e].st, to |-> EndOf(e)]

LEMMA SpansKeepDrawing ==
  ASSUME Shape, Course, Drawing, WriteSpans
  PROVE  Drawing'
<1>0. /\ rec' = rec /\ recv' = recv /\ late' = late /\ ordered' = ordered
      /\ Every' = Every /\ Session' = Session
      /\ OnTime' <=> OnTime
      /\ \A e \in Every : \A h : Outlived(e, h)' <=> Outlived(e, h)
      /\ \A e : /\ HourOf(e)' = HourOf(e)
                /\ Remembered(e)' <=> Remembered(e)
                /\ IsUnlock(e)' <=> IsUnlock(e)
  BY SessionStays DEF Steps
<1>1. /\ spans' = spans \cup {SpanOf(e) : e \in pass.rows \cap Session}
      /\ unlocks' = unlocks /\ watermark' = watermark
      /\ \A t \in torn : <<t[2], t[3]>> # <<pass.hour, "spans">> => t \in torn'
      /\ pass.step = "respan" /\ pass'.step = "unlocks"
      /\ pass'.who = pass.who /\ pass'.dirty = pass.dirty /\ pass'.upto = pass.upto
      /\ pass'.hour = pass.hour /\ pass'.rows = pass.rows
  BY DEF WriteSpans, SpanOf, Shape, PassShape, Passes
<1>2. /\ Forward' <=> Forward
      /\ AtHour /\ AtHour' /\ Scanned' = Scanned
      /\ Scanned \in Nat /\ watermark \in Nat /\ watermark <= Scanned
      /\ Forward => Scanned = pass.upto
  BY <1>1, ScannedFacts DEF Forward, AtHour, Working, Scanned, Shape, IngestShape
<1>3. /\ pass.rows \cap Session \in SUBSET Every
      /\ \A e \in Every : rec[e].ts \in Nat /\ HourOf(e) \in Nat /\ HourOf(e) = Hour(rec[e].ts) /\ recv[e] \in Nat
      /\ \A e, f \in Every : rec[e].ts = rec[f].ts => e = f
  BY SessionTypes
<1>4. /\ \A e \in pass.rows : HourOf(e) = pass.hour
      /\ \A s \in spans : Hour(s.from) # pass.hour
  BY <1>1, <1>2 DEF Drawing, Holding
<1>5. \A e \in pass.rows \cap Session :
        /\ EndOf(e) # Never => rec[e].ts < EndOf(e) /\ \E f \in Every : EndOf(e) = rec[f].ts
        /\ OnTime => \A g \in Every : ~Outlived(g, pass.hour) =>
             (rec[e].ts < rec[g].ts /\ (EndOf(e) = Never \/ (ordered /\ rec[g].ts < EndOf(e))) =>
                recv[g] > Scanned /\ (EndOf(e) # Never => HourOf(g) = pass.hour))
  BY <1>1, EndIsNext
<1>6. \A e \in pass.rows \cap Session :
        /\ SpanOf(e) \in spans' /\ SpanOf(e).from = rec[e].ts /\ SpanOf(e).to = EndOf(e)
        /\ e \in Every /\ Hour(rec[e].ts) = pass.hour
  BY <1>1, <1>3, <1>4 DEF SpanOf
<1>7. ASSUME NEW s \in spans'
      PROVE  s \in spans \/ \E e \in pass.rows \cap Session : s = SpanOf(e)
  BY <1>1
<1>8. Spanning'
  <2>1. \A s \in spans : \E e \in Every : s.from = rec[e].ts
    BY DEF Drawing, Spanning
  <2>2. \A s \in spans' : \E e \in Every : s.from = rec[e].ts
    BY <1>6, <1>7, <2>1
  <2>3. ASSUME NEW s \in spans', NEW r \in spans', s.from = r.from
        PROVE  s = r
    <3>1. CASE s \in spans /\ r \in spans
      BY <2>3, <3>1 DEF Drawing, Spanning
    <3>2. CASE s \in spans /\ r \notin spans
      BY <1>4, <1>6, <1>7, <2>3, <3>2
    <3>3. CASE s \notin spans /\ r \in spans
      BY <1>4, <1>6, <1>7, <2>3, <3>3
    <3>4. CASE s \notin spans /\ r \notin spans
      <4>1. PICK e \in pass.rows \cap Session : s = SpanOf(e)
        BY <1>7, <3>4
      <4>2. PICK f \in pass.rows \cap Session : r = SpanOf(f)
        BY <1>7, <3>4
      <4>3. e = f
        BY <1>3, <1>6, <2>3, <4>1, <4>2
      <4> QED
        BY <4>1, <4>2, <4>3
    <3> QED
      BY <3>1, <3>2, <3>3, <3>4
  <2>4. ASSUME NEW s \in spans', s.to # Never
        PROVE  s.from < s.to /\ \E f \in Every : s.to = rec[f].ts
    <3>1. CASE s \in spans
      BY <2>4, <3>1 DEF Drawing, Spanning
    <3>2. CASE s \notin spans
      <4>1. PICK e \in pass.rows \cap Session : s = SpanOf(e)
        BY <1>7, <3>2
      <4>2. s.from = rec[e].ts /\ s.to = EndOf(e)
        BY <1>6, <4>1
      <4> QED
        BY <1>5, <2>4, <4>2
    <3> QED
      BY <3>1, <3>2
  <2> QED
    BY <1>0, <2>2, <2>3, <2>4 DEF Spanning
<1>9. Holding'
  <2>1. \A e \in pass'.rows \cap Session' : \E s \in spans' : s.from = rec[e].ts
    BY <1>0, <1>1, <1>6
  <2> QED
    BY <1>0, <1>1, <1>4, <2>1 DEF Drawing, Holding
<1>10. InRows'
  BY <1>0, <1>1, <1>2 DEF Drawing, InRows
<1>11. DrawnUp'
  <2>1. ASSUME OnTime, NEW e \in Every, ~Outlived(e, HourOf(e)), Drawn(e), recv[e] <= Scanned
        PROVE  Drawn(e)'
    <3>1. CASE HourOf(e) = pass.hour
      <4>1. e \in pass.rows \cap Session
        BY <1>2, <2>1, <3>1, SessionTypes DEF Drawing, InRows
      <4>2. \E s \in spans' : s.from = rec[e].ts
        BY <1>6, <4>1
      <4> QED
        BY <1>0, <4>2 DEF Drawn
    <3>2. CASE HourOf(e) # pass.hour
      <4>1. (\E s \in spans : s.from = rec[e].ts) => \E s \in spans' : s.from = rec[e].ts
        BY <1>1
      <4>2. (\E t \in torn : t[2] = HourOf(e) /\ t[3] = "spans") =>
              \E t \in torn' : t[2] = HourOf(e) /\ t[3] = "spans"
        BY <1>1, <3>2
      <4> QED
        BY <1>0, <2>1, <3>2, <4>1, <4>2 DEF Drawn
    <3> QED
      BY <3>1, <3>2
  <2>2. \A e \in Every : recv[e] <= watermark => recv[e] <= Scanned
    BY <1>2, <1>3
  <2> QED
    BY <1>0, <1>1, <1>2, <2>1, <2>2 DEF Drawing, DrawnUp
<1>12. Waits'
  <2>1. \A s, g : Misses(s, g)' <=> Misses(s, g)
    BY <1>0 DEF Misses
  <2>2. \A g : Pending(g)' <=> Pending(g)
    BY <1>0, <1>1, <1>2 DEF Pending
  <2>3. ASSUME OnTime, NEW s \in spans', NEW g \in Every, Misses(s, g), ~Outlived(g, Hour(s.from))
        PROVE  /\ Pending(g) /\ (s.to # Never => HourOf(g) = Hour(s.from))
               /\ Hour(s.from) = pass.hour => recv[g] > Scanned
    <3>1. CASE s \in spans
      BY <1>4, <2>3, <3>1 DEF Drawing, Waits
    <3>2. CASE s \notin spans
      <4>1. PICK e \in pass.rows \cap Session : s = SpanOf(e)
        BY <1>7, <3>2
      <4>2. s.from = rec[e].ts /\ s.to = EndOf(e) /\ Hour(s.from) = pass.hour
        BY <1>6, <4>1
      <4>3. rec[e].ts < rec[g].ts /\ (EndOf(e) = Never \/ (ordered /\ rec[g].ts < EndOf(e)))
        BY <2>3, <4>2 DEF Misses
      <4>4. recv[g] > Scanned /\ (EndOf(e) # Never => HourOf(g) = pass.hour)
        BY <1>5, <2>3, <4>2, <4>3
      <4>5. Pending(g)
        BY <1>2, <1>3, <4>4 DEF Pending
      <4> QED
        BY <4>2, <4>4, <4>5
    <3> QED
      BY <3>1, <3>2
  <2> QED
    BY <1>0, <1>1, <1>2, <2>1, <2>2, <2>3 DEF Waits
<1>13. ReadAhead'
  BY <1>1 DEF ReadAhead
<1>14. InOrder'
  BY <1>0, <1>1, <1>2 DEF Drawing, InOrder
<1>15. Rightly'
  BY <1>0, <1>1 DEF Drawing, Rightly
<1>16. Found'
  BY <1>0, <1>1, <1>2 DEF Drawing, Found
<1> QED
  BY <1>8, <1>9, <1>10, <1>11, <1>12, <1>13, <1>14, <1>15, <1>16 DEF Drawing

\* What the watermark has not passed is still stored.
LEMMA StillStored ==
  ASSUME Shape, Caught, Stored, NEW g \in Every, recv[g] > watermark
  PROVE  g \in Transitions
BY NewStored, SessionTypes

\* Of the transitions before one, one is the last.
LEMMA LastBefore ==
  ASSUME Shape, NEW e \in Every, NEW g \in Every, rec[g].ts < rec[e].ts
  PROVE  \E f \in Every : Precedes(f, e) /\ rec[g].ts <= rec[f].ts
<1> DEFINE T == {t \in Ts(Every) : t < rec[e].ts}
<1>1. /\ \A f \in Every : rec[f].ts \in Nat
      /\ \A t \in Ts(Every) : \E f \in Every : t = rec[f].ts
  BY SessionTypes DEF Ts
<1>2. T \in SUBSET (0 .. rec[e].ts) /\ rec[g].ts \in T
  BY <1>1 DEF Ts
<1>3. Last(T) \in T /\ \A u \in T : Last(T) >= u
  <2> HIDE DEF T
  <2>1. rec[e].ts \in Nat /\ T # {}
    BY <1>1, <1>2
  <2> QED
    BY <1>2, <2>1, LastFacts
<1>4. PICK f \in Every : rec[f].ts = Last(T)
  BY <1>1, <1>3
<1>5. rec[f].ts < rec[e].ts /\ rec[g].ts <= rec[f].ts
  BY <1>1, <1>2, <1>3, <1>4
<1>6. ASSUME NEW h \in Every, rec[h].ts < rec[e].ts
      PROVE  rec[h].ts <= rec[f].ts
  <2>1. rec[h].ts \in T
    BY <1>6 DEF Ts
  <2> QED
    BY <1>1, <1>3, <1>4, <2>1
<1>7. \A h \in Every : rec[h].ts <= rec[f].ts \/ rec[h].ts >= rec[e].ts
  BY <1>1, <1>6
<1> QED
  BY <1>5, <1>7 DEF Precedes

\* What the pass takes for the transition before one is the transition before it.
LEMMA BeforeIs ==
  ASSUME Shape, Course, Complete, Drawing, AtHour, ordered,
         NEW e \in pass.rows \cap Session, Remembered(e), NEW f
  PROVE  f \in Before(e) <=> f \in Every /\ Precedes(f, e)
<1> DEFINE inHour == {g \in pass.rows \cap Session : rec[g].ts < rec[e].ts}
           earlier == {g \in Transitions : rec[g].ts < rec[e].ts}
<1>1. /\ pass.rows \cap Session \in SUBSET Every /\ e \in Every /\ Every \in SUBSET Committed
      /\ \A g \in Every : rec[g].ts \in Nat /\ HourOf(g) \in Nat /\ HourOf(g) = Hour(rec[g].ts) /\ g \in Session
      /\ Transitions \in SUBSET Every /\ \A g \in Every : g \in events => g \in Transitions
  BY SessionTypes
<1>2. HourOf(e) = pass.hour /\ pass.hour \in pass.dirty /\ \A g \in pass.rows : HourOf(g) = pass.hour
  BY DEF Drawing, Holding, Course, AtHour
<1>3. ASSUME NEW g \in Every, HourOf(g) = pass.hour, Precedes(g, e)
      PROVE  g \in inHour
  <2>1. ~Outlived(g, pass.hour) /\ rec[g].ts < rec[e].ts
    BY <1>2, <1>3 DEF Remembered, HourOf, Precedes
  <2>2. g \in pass.rows
    BY <1>3, <2>1 DEF Drawing, InOrder
  <2> QED
    BY <1>1, <2>1, <2>2
<1>4. ASSUME NEW g \in Every, Precedes(g, e)
      PROVE  g \in Transitions
  <2>1. ~Outlived(g, pass.hour)
    BY <1>2, <1>4 DEF Remembered, HourOf
  <2> QED
    BY <1>1, <1>2, <2>1 DEF Complete
<1>5. CASE inHour # {}
  <2>1. Before(e) = {g \in inHour : \A k \in inHour : rec[k].ts <= rec[g].ts}
    BY <1>5 DEF Before
  <2>2. \A g \in inHour : g \in Every /\ rec[g].ts < rec[e].ts /\ HourOf(g) = pass.hour
    BY <1>1, <1>2
  <2>3. ASSUME f \in Every, Precedes(f, e)
        PROVE  f \in Before(e)
    <3>1. PICK h \in inHour : TRUE
      BY <1>5
    <3>2. rec[h].ts <= rec[f].ts /\ rec[f].ts < rec[e].ts
      <4>1. h \in Every /\ rec[h].ts < rec[e].ts /\ rec[h].ts \in Nat /\ rec[e].ts \in Nat
        BY <1>1, <2>2
      <4>2. rec[h].ts <= rec[f].ts \/ rec[h].ts >= rec[e].ts
        BY <2>3, <4>1 DEF Precedes
      <4> QED
        BY <2>3, <4>1, <4>2 DEF Precedes
    <3>3. HourOf(h) <= HourOf(f) /\ HourOf(f) <= HourOf(e)
      BY <1>1, <2>2, <2>3, <3>2, HourMonotone
    <3>4. HourOf(f) = pass.hour
      BY <1>1, <1>2, <2>2, <2>3, <3>3
    <3>5. f \in inHour
      BY <1>3, <2>3, <3>4
    <3>6. \A k \in inHour : rec[k].ts <= rec[f].ts
      <4>1. ASSUME NEW k \in inHour
            PROVE  rec[k].ts <= rec[f].ts
        <5>1. k \in Every /\ rec[k].ts < rec[e].ts /\ rec[k].ts \in Nat /\ rec[e].ts \in Nat
          BY <1>1, <2>2
        <5>2. rec[k].ts <= rec[f].ts \/ rec[k].ts >= rec[e].ts
          BY <2>3, <5>1 DEF Precedes
        <5> QED
          BY <5>1, <5>2
      <4> QED
        BY <4>1
    <3> QED
      BY <2>1, <3>5, <3>6
  <2>4. ASSUME f \in Before(e)
        PROVE  f \in Every /\ Precedes(f, e)
    <3>1. f \in inHour /\ \A k \in inHour : rec[k].ts <= rec[f].ts
      BY <2>1, <2>4
    <3>2. f \in Every /\ rec[f].ts < rec[e].ts /\ HourOf(f) = pass.hour
      BY <2>2, <3>1
    <3>3. ASSUME NEW g \in Every, ~(rec[g].ts >= rec[e].ts), ~(rec[g].ts <= rec[f].ts)
          PROVE  FALSE
      <4>1. rec[g].ts < rec[e].ts /\ rec[f].ts < rec[g].ts
        BY <1>1, <3>2, <3>3
      <4>2. PICK k \in Every : Precedes(k, e) /\ rec[g].ts <= rec[k].ts
        BY <1>1, <4>1, LastBefore
      <4>3. rec[k].ts < rec[e].ts /\ rec[f].ts < rec[k].ts
        BY <1>1, <3>2, <4>1, <4>2 DEF Precedes
      <4>4. HourOf(f) <= HourOf(k) /\ HourOf(k) <= HourOf(e)
        BY <1>1, <3>2, <4>3, HourMonotone
      <4>5. HourOf(k) = pass.hour
        BY <1>1, <1>2, <3>2, <4>4
      <4>6. k \in inHour
        BY <1>3, <4>2, <4>5
      <4> QED
        BY <1>1, <3>1, <3>2, <4>3, <4>6
    <3> QED
      BY <3>2, <3>3 DEF Precedes
  <2> QED
    BY <2>3, <2>4
<1>6. CASE inHour = {}
  <2>1. Before(e) = {g \in earlier : \A k \in earlier : rec[k].ts <= rec[g].ts}
    BY <1>6 DEF Before
  <2>2. ASSUME f \in Every, Precedes(f, e)
        PROVE  f \in Before(e)
    <3>1. f \in earlier
      BY <1>4, <2>2 DEF Precedes
    <3>2. ASSUME NEW k \in earlier
          PROVE  rec[k].ts <= rec[f].ts
      <4>1. k \in Every /\ rec[k].ts < rec[e].ts /\ rec[k].ts \in Nat /\ rec[e].ts \in Nat
        BY <1>1
      <4>2. rec[k].ts <= rec[f].ts \/ rec[k].ts >= rec[e].ts
        BY <2>2, <4>1 DEF Precedes
      <4> QED
        BY <4>1, <4>2
    <3> QED
      BY <2>1, <3>1, <3>2
  <2>3. ASSUME f \in Before(e)
        PROVE  f \in Every /\ Precedes(f, e)
    <3>1. f \in earlier /\ \A k \in earlier : rec[k].ts <= rec[f].ts
      BY <2>1, <2>3
    <3>2. f \in Every /\ rec[f].ts < rec[e].ts
      BY <1>1, <3>1
    <3>3. ASSUME NEW g \in Every, ~(rec[g].ts >= rec[e].ts), ~(rec[g].ts <= rec[f].ts)
          PROVE  FALSE
      <4>1. rec[g].ts < rec[e].ts /\ rec[f].ts < rec[g].ts
        BY <1>1, <3>2, <3>3
      <4>2. PICK k \in Every : Precedes(k, e) /\ rec[g].ts <= rec[k].ts
        BY <1>1, <4>1, LastBefore
      <4>3. k \in earlier
        BY <1>4, <4>2 DEF Precedes
      <4>4. rec[k].ts <= rec[f].ts /\ rec[k].ts \in Nat /\ rec[f].ts \in Nat /\ rec[g].ts \in Nat
        BY <1>1, <3>1, <3>2, <4>3
      <4> QED
        BY <4>1, <4>2, <4>4
    <3> QED
      BY <3>2, <3>3 DEF Precedes
  <2> QED
    BY <2>2, <2>3
<1> QED
  BY <1>5, <1>6

\* What becomes of a span when an hour is done.
Closes(s) == s.to = Never /\ Hour(s.from) < pass.hour /\ \E t \in Ts(Transitions) : t > s.from
Closed(s) == IF Closes(s) THEN [s EXCEPT !.to = First({t \in Ts(Transitions) : t > s.from})] ELSE s

\* One that it closes ends at the first later transition stored.
LEMMA ClosedFacts ==
  ASSUME Shape, NEW s \in spans
  PROVE  /\ Closed(s).from = s.from
         /\ ~Closes(s) => Closed(s) = s
         /\ Closes(s) =>
              /\ s.to = Never /\ Closed(s).to # Never /\ s.from < Closed(s).to
              /\ \E f \in Every : Closed(s).to = rec[f].ts
              /\ \A g \in Transitions : rec[g].ts > s.from => Closed(s).to <= rec[g].ts
<1> DEFINE T == {t \in Ts(Transitions) : t > s.from}
<1>1. /\ s \in [from : Nat, kind : {"locked", "active"}, to : Nat \cup {Never}]
      /\ Transitions \in SUBSET Every /\ \A f \in Every : rec[f].ts \in Nat
  BY SessionTypes DEF Shape, TableShape
<1>2. /\ \A t \in T : t \in Nat /\ t # Never /\ s.from < t /\ \E f \in Every : t = rec[f].ts
      /\ \A g \in Transitions : rec[g].ts > s.from => rec[g].ts \in T
  BY <1>1 DEF Ts, Never
<1>3. T # {} => First(T) \in T /\ \A u \in T : First(T) <= u
  <2>1. T \in SUBSET Nat
    BY <1>2
  <2> HIDE DEF T
  <2> QED
    BY <2>1, FirstFacts
<1>4. Closes(s) => T # {} /\ s.to = Never
  BY DEF Closes
<1>5. Closed(s) = IF Closes(s) THEN [s EXCEPT !.to = First(T)] ELSE s
  BY DEF Closed
<1> HIDE DEF T
<1>6. Closed(s).from = s.from /\ (Closes(s) => Closed(s).to = First(T))
  BY <1>1, <1>5
<1> QED
  BY <1>2, <1>3, <1>4, <1>5, <1>6

LEMMA UnlocksKeepDrawing ==
  ASSUME Shape, Course, Caught, Stored, Complete, Drawing, WriteUnlocks
  PROVE  Drawing'
<1>0. /\ rec' = rec /\ recv' = recv /\ late' = late /\ ordered' = ordered
      /\ Every' = Every /\ Session' = Session
      /\ OnTime' <=> OnTime
      /\ \A e \in Every : \A h : Outlived(e, h)' <=> Outlived(e, h)
      /\ \A e : /\ HourOf(e)' = HourOf(e)
                /\ Remembered(e)' <=> Remembered(e)
                /\ IsUnlock(e)' <=> IsUnlock(e)
  BY SessionStays DEF Steps
<1>1. /\ spans' = {Closed(s) : s \in spans} /\ watermark' = watermark /\ torn' = torn
      /\ unlocks' = unlocks \cup {e \in pass.rows \cap Session : Unlocked(e)}
      /\ pass.step = "unlocks" /\ pass'.step \in {"advance", "buckets"}
      /\ pass'.who = pass.who /\ pass'.dirty = pass.dirty \ {pass.hour} /\ pass'.upto = pass.upto
  BY DEF WriteUnlocks, CloseEarlier, Closed, Closes, Shape, PassShape, Passes
<1>2. /\ Forward' <=> Forward
      /\ AtHour /\ ~AtHour'
      /\ Scanned \in Nat /\ watermark \in Nat /\ watermark <= Scanned
      /\ Forward => Scanned = pass.upto
  BY <1>1, ScannedFacts DEF Forward, AtHour, Working, Scanned, Shape, IngestShape
<1>3. /\ pass.rows \cap Session \in SUBSET Every /\ Every \in SUBSET Committed /\ Every \in SUBSET Session
      /\ \A e \in Every : rec[e].ts \in Nat /\ HourOf(e) \in Nat /\ HourOf(e) = Hour(rec[e].ts) /\ recv[e] \in Nat
  BY SessionTypes
<1>4. /\ pass.hour \in pass.dirty
      /\ \A e \in pass.rows \cap Session : \E s \in spans : s.from = rec[e].ts
      /\ unlocks \in SUBSET Every
  BY <1>1, <1>2 DEF Drawing, Holding, Course, AtHour
<1>5. \A s \in spans :
        /\ Closed(s) \in spans' /\ Closed(s).from = s.from
        /\ ~Closes(s) => Closed(s) = s
        /\ Closes(s) =>
             /\ s.to = Never /\ Closed(s).to # Never /\ s.from < Closed(s).to
             /\ \E f \in Every : Closed(s).to = rec[f].ts
             /\ \A g \in Transitions : rec[g].ts > s.from => Closed(s).to <= rec[g].ts
  BY <1>1, ClosedFacts
<1>6. \A s \in spans' : \E r \in spans : s = Closed(r)
  BY <1>1
<1>7. OnTime => \A e \in Every :
        HourOf(e) = pass.hour /\ recv[e] <= Scanned /\ (recv[e] > watermark \/ ~Outlived(e, pass.hour)) =>
          e \in pass.rows \cap Session
  BY <1>2, <1>3 DEF Drawing, InRows
<1>8. Spanning'
  <2>1. \A s \in spans' : \E e \in Every : s.from = rec[e].ts
    BY <1>5, <1>6 DEF Drawing, Spanning
  <2>2. \A s, r \in spans' : s.from = r.from => s = r
    <3>1. \A s, r \in spans : s.from = r.from => s = r
      BY DEF Drawing, Spanning
    <3> QED
      BY <1>5, <1>6, <3>1
  <2>3. ASSUME NEW s \in spans', s.to # Never
        PROVE  s.from < s.to /\ \E f \in Every : s.to = rec[f].ts
    <3>1. PICK r \in spans : s = Closed(r)
      BY <1>6
    <3>2. CASE Closes(r)
      BY <1>5, <3>1, <3>2
    <3>3. CASE ~Closes(r)
      BY <1>5, <2>3, <3>1, <3>3 DEF Drawing, Spanning
    <3> QED
      BY <3>2, <3>3
  <2> QED
    BY <1>0, <2>1, <2>2, <2>3 DEF Spanning
<1>9. Holding'
  BY <1>0, <1>1, <1>2, <1>3, <1>4 DEF Holding
<1>10. InRows'
  BY <1>2 DEF InRows
<1>11. DrawnUp'
  <2>1. ASSUME NEW e \in Every, Drawn(e)
        PROVE  Drawn(e)'
    <3>1. (\E s \in spans : s.from = rec[e].ts) => \E s \in spans' : s.from = rec[e].ts
      BY <1>5
    <3> QED
      BY <1>0, <1>1, <2>1, <3>1 DEF Drawn
  <2>2. ASSUME OnTime, NEW e \in Every, ~Outlived(e, HourOf(e)), Forward, recv[e] <= pass.upto
        PROVE  Drawn(e)' \/ HourOf(e) \in pass.dirty \ {pass.hour}
    <3>1. CASE HourOf(e) = pass.hour
      <4>1. e \in pass.rows \cap Session
        BY <1>2, <1>7, <2>2, <3>1
      <4>2. Drawn(e)
        BY <1>4, <4>1 DEF Drawn
      <4> QED
        BY <2>1, <4>2
    <3>2. CASE HourOf(e) # pass.hour
      BY <2>1, <2>2, <3>2 DEF Drawing, DrawnUp
    <3> QED
      BY <3>1, <3>2
  <2>3. OnTime => \A e \in Every : ~Outlived(e, HourOf(e)) => (recv[e] <= watermark => Drawn(e))
    BY DEF Drawing, DrawnUp
  <2> QED
    BY <1>0, <1>1, <1>2, <2>1, <2>2, <2>3 DEF DrawnUp
<1>12. Waits'
  <2>1. \A s, g : Misses(s, g)' <=> Misses(s, g)
    BY <1>0 DEF Misses
  <2>2. ASSUME OnTime, NEW s \in spans', NEW g \in Every, Misses(s, g), ~Outlived(g, Hour(s.from))
        PROVE  Pending(g)' /\ (s.to # Never => HourOf(g) = Hour(s.from))
    <3>1. PICK r \in spans : s = Closed(r)
      BY <1>6
    <3>2. s.from = r.from /\ r.from \in Nat
      BY <1>5, <3>1 DEF Shape, TableShape
    <3>3. Misses(r, g)
      BY <1>5, <2>2, <3>1, <3>2 DEF Misses
    <3>4. /\ Pending(g) /\ (r.to # Never => HourOf(g) = Hour(r.from))
          /\ HourOf(g) = pass.hour /\ Hour(r.from) = pass.hour => recv[g] > Scanned
      BY <1>1, <2>2, <3>2, <3>3 DEF Drawing, Waits
    <3>5. g \in Transitions
      BY <3>4, StillStored DEF Pending
    <3>6. ~Closes(r)
      <4>1. ASSUME Closes(r)
            PROVE  FALSE
        <5>1. rec[g].ts > r.from /\ rec[g].ts \in Nat
          BY <1>3, <3>2, <3>3 DEF Misses
        <5>2. s.to <= rec[g].ts /\ s.to # Never /\ s.to \in Nat
          BY <1>3, <1>5, <3>1, <3>5, <4>1, <5>1
        <5>3. rec[g].ts < s.to
          BY <2>2, <5>2 DEF Misses
        <5> QED
          BY <5>1, <5>2, <5>3
      <4> QED
        BY <4>1
    <3>7. s = r
      BY <1>5, <3>1, <3>6
    <3>8. ASSUME Forward, recv[g] <= pass.upto, HourOf(g) = pass.hour
          PROVE  FALSE
      <4>1. recv[g] <= Scanned
        BY <1>2, <3>8
      <4>2. Hour(r.from) # pass.hour
        BY <1>2, <1>3, <3>4, <3>8, <4>1
      <4>3. r.to = Never
        BY <3>4, <3>8, <4>2
      <4>4. r.from < rec[g].ts /\ rec[g].ts \in Nat
        BY <1>3, <3>3 DEF Misses
      <4>5. Hour(r.from) < pass.hour
        <5>1. Hour(r.from) <= Hour(rec[g].ts) /\ Hour(r.from) \in Nat /\ HourOf(g) \in Nat
          BY <1>3, <3>2, <4>4, HourMonotone
        <5> QED
          BY <1>3, <3>8, <4>2, <5>1
      <4>6. rec[g].ts \in Ts(Transitions) /\ rec[g].ts > r.from
        BY <3>2, <3>5, <4>4 DEF Ts
      <4> QED
        BY <3>6, <4>3, <4>5, <4>6 DEF Closes
    <3>9. Pending(g)'
      BY <1>0, <1>1, <1>2, <3>4, <3>8 DEF Pending
    <3> QED
      BY <3>4, <3>7, <3>9
  <2> QED
    BY <1>0, <1>1, <2>1, <2>2 DEF Waits
<1>13. ReadAhead'
  BY <1>1 DEF ReadAhead
<1>14. InOrder'
  BY <1>2 DEF InOrder
<1>15. ASSUME ordered, NEW e \in pass.rows \cap Session, Remembered(e)
       PROVE  Unlocked(e) <=> IsUnlock(e)
  <2>1. \A f : f \in Before(e) <=> f \in Every /\ Precedes(f, e)
    BY <1>2, <1>15, BeforeIs
  <2> QED
    BY <2>1 DEF Unlocked, IsUnlock
<1>16. Rightly'
  <2>1. ASSUME ordered, NEW e \in unlocks', Remembered(e)
        PROVE  IsUnlock(e)
    <3>1. CASE e \in unlocks
      BY <2>1, <3>1 DEF Drawing, Rightly
    <3>2. CASE e \notin unlocks
      BY <1>1, <1>15, <2>1, <3>2
    <3> QED
      BY <3>1, <3>2
  <2> QED
    BY <1>0, <2>1 DEF Rightly
<1>17. Found'
  <2>1. ASSUME ordered, OnTime, NEW e \in Every, Remembered(e), IsUnlock(e)
        PROVE  /\ recv[e] <= watermark => e \in unlocks
               /\ Forward /\ recv[e] <= pass.upto => e \in unlocks \/ HourOf(e) \in pass.dirty
    BY <2>1 DEF Drawing, Found
  <2>2. ASSUME ordered, OnTime, NEW e \in Every, Remembered(e), IsUnlock(e),
               Forward, recv[e] <= pass.upto, HourOf(e) = pass.hour
        PROVE  e \in unlocks'
    <3>1. CASE recv[e] <= watermark
      BY <1>1, <2>1, <2>2, <3>1
    <3>2. CASE recv[e] > watermark
      <4>1. e \in pass.rows \cap Session
        BY <1>2, <1>7, <2>2, <3>2
      <4> QED
        BY <1>1, <1>15, <2>2, <4>1
    <3> QED
      BY <1>2, <1>3, <3>1, <3>2
  <2> QED
    BY <1>0, <1>1, <1>2, <2>1, <2>2 DEF Found
<1> QED
  BY <1>8, <1>9, <1>10, <1>11, <1>12, <1>13, <1>14, <1>16, <1>17 DEF Drawing

LEMMA AdvanceKeepsDrawing ==
  ASSUME Shape, Course, Drawing, Advance
  PROVE  Drawing'
<1>0. /\ rec' = rec /\ recv' = recv /\ late' = late /\ ordered' = ordered
      /\ Every' = Every /\ Session' = Session
      /\ OnTime' <=> OnTime
      /\ \A e \in Every : \A h : Outlived(e, h)' <=> Outlived(e, h)
      /\ \A e : /\ HourOf(e)' = HourOf(e)
                /\ Remembered(e)' <=> Remembered(e)
                /\ IsUnlock(e)' <=> IsUnlock(e)
  BY SessionStays DEF Steps
<1>1. /\ spans' = spans /\ unlocks' = unlocks /\ torn' = torn
      /\ pass.step = "advance" /\ pass'.step = "rollup" /\ pass.dirty = {}
      /\ watermark' = IF pass.who = "forward" THEN pass.upto ELSE watermark
  BY DEF Advance, Shape, PassShape, Passes, tables, Course
<1>2. /\ ~Forward' /\ ~AtHour' /\ (Forward <=> pass.who = "forward")
      /\ \A e \in Every : recv[e] \in Nat
      /\ watermark \in Nat /\ pass.upto \in Nat
  BY <1>1, SessionTypes DEF Forward, AtHour, Working, Shape, IngestShape, PassShape, Passes
<1>3. Spanning'
  BY <1>0, <1>1 DEF Drawing, Spanning
<1>4. Holding'
  BY <1>0, <1>1, <1>2 DEF Drawing, Holding
<1>5. InRows' /\ InOrder' /\ ReadAhead'
  BY <1>1, <1>2 DEF InRows, InOrder, ReadAhead
<1>6. DrawnUp'
  <2>1. \A e : Drawn(e) => Drawn(e)'
    BY <1>0, <1>1 DEF Drawn
  <2>2. ASSUME OnTime, NEW e \in Every, ~Outlived(e, HourOf(e)), recv[e] <= watermark'
        PROVE  Drawn(e)
    BY <1>1, <1>2, <2>2 DEF Drawing, DrawnUp
  <2> QED
    BY <1>0, <1>2, <2>1, <2>2 DEF DrawnUp
<1>7. Waits'
  <2>1. \A s, g : Misses(s, g)' <=> Misses(s, g)
    BY <1>0 DEF Misses
  <2>2. ASSUME NEW g \in Every, Pending(g)
        PROVE  Pending(g)'
    BY <1>0, <1>1, <1>2, <2>2 DEF Pending
  <2> QED
    BY <1>0, <1>1, <2>1, <2>2 DEF Drawing, Waits
<1>8. Rightly'
  BY <1>0, <1>1 DEF Drawing, Rightly
<1>9. Found'
  <2>1. ASSUME ordered, OnTime, NEW e \in Every, Remembered(e), IsUnlock(e), recv[e] <= watermark'
        PROVE  e \in unlocks
    BY <1>1, <1>2, <2>1 DEF Drawing, Found
  <2> QED
    BY <1>0, <1>1, <1>2, <2>1 DEF Found
<1> QED
  BY <1>3, <1>4, <1>5, <1>6, <1>7, <1>8, <1>9 DEF Drawing

\* A pass that ends, or that a crash ends.
LEMMA EndKeepsDrawing ==
  ASSUME Shape, Course, Drawing, rec' = rec, Committed' = Committed, \A e \in Every : recv'[e] = recv[e],
         \A e \in Committed : at'[e] = at[e],
         UNCHANGED <<watermark, spans, unlocks, late, ordered>>, pass' = Idle,
         \A t \in torn : t \in torn',
         pass.step = "respan" => \E t \in torn' : t[2] = pass.hour /\ t[3] = "spans"
  PROVE  Drawing'
<1>0. /\ watermark' = watermark /\ spans' = spans /\ unlocks' = unlocks /\ late' = late /\ ordered' = ordered
      /\ Every' = Every /\ Session' = Session
      /\ \A e \in Every : \A h : Outlived(e, h)' <=> Outlived(e, h)
      /\ \A e : /\ HourOf(e)' = HourOf(e)
                /\ Remembered(e)' <=> Remembered(e)
                /\ IsUnlock(e)' <=> IsUnlock(e)
  BY EveryStays
<1>1. /\ ~Forward' /\ ~AtHour' /\ (OnTime' <=> OnTime)
      /\ pass'.step = "idle"
  BY <1>0 DEF Forward, AtHour, Working, Idle, OnTime
<1>2. \A e \in Every : recv[e] \in Nat /\ recv'[e] = recv[e]
  BY SessionTypes
<1>3. Spanning'
  BY <1>0 DEF Drawing, Spanning
<1>4. Holding'
  BY <1>0, <1>1 DEF Drawing, Holding
<1>5. InRows' /\ InOrder' /\ ReadAhead'
  BY <1>1 DEF InRows, InOrder, ReadAhead
<1>6. DrawnUp'
  <2>1. \A e : Drawn(e) => Drawn(e)'
    BY <1>0 DEF Drawn
  <2> QED
    BY <1>0, <1>1, <1>2, <2>1 DEF Drawing, DrawnUp
<1>7. Waits'
  <2>1. \A s, g : Misses(s, g)' <=> Misses(s, g)
    BY <1>0 DEF Misses
  <2>2. \A g \in Every : Pending(g) => Pending(g)'
    BY <1>0, <1>1, <1>2 DEF Pending
  <2> QED
    BY <1>0, <1>1, <2>1, <2>2 DEF Drawing, Waits
<1>8. Rightly'
  BY <1>0 DEF Drawing, Rightly
<1>9. Found'
  BY <1>0, <1>1, <1>2 DEF Drawing, Found
<1> QED
  BY <1>3, <1>4, <1>5, <1>6, <1>7, <1>8, <1>9 DEF Drawing

LEMMA RollUpKeepsDrawing ==
  ASSUME Shape, Course, Drawing, RollUp
  PROVE  Drawing'
<1>1. /\ rec' = rec /\ Committed' = Committed /\ recv' = recv /\ at' = at
  BY ArrivedStays DEF Steps
<1>2. /\ UNCHANGED <<watermark, spans, unlocks, late, ordered>> /\ pass' = Idle /\ torn' = torn
      /\ pass.step = "rollup"
  BY DEF RollUp, ingest
<1> QED
  BY <1>1, <1>2, EndKeepsDrawing

LEMMA CrashKeepsDrawing ==
  ASSUME Shape, Course, Drawing, Crash, Next
  PROVE  Drawing'
<1>1. /\ UNCHANGED <<watermark, spans, unlocks, late, ordered>> /\ pass' = Idle
      /\ torn' = torn \cup (IF pass.step = "write" THEN {<<pass.who, pass.hour, "usage">>} ELSE {})
                  \cup (IF pass.step = "respan" THEN {<<pass.who, pass.hour, "spans">>} ELSE {})
      /\ rec' = rec
  BY DEF Crash, tables
<1>2. Committed' = Committed
  <2>1. ~\E S \in open : Commit(S) /\ Committed' \ Committed \subseteq S /\ Committed' # Committed
    <3>1. ASSUME NEW S \in open, Commit(S)
          PROVE  FALSE
      BY <3>1 DEF Commit, Crash, Shape, IngestShape
    <3> QED
      BY <3>1
  <2> QED
    BY <2>1, IngestFacts
<1>3. /\ \A e \in Every : recv'[e] = recv[e]
      /\ \A e \in Committed : at'[e] = at[e]
  <2>1. \A e \in Committed : recv'[e] = recv[e] /\ at'[e] = at[e]
    BY IngestFacts
  <2> QED
    BY <2>1 DEF Every
<1>4. pass.step = "respan" => \E t \in torn' : t[2] = pass.hour /\ t[3] = "spans"
  <2>1. pass.step = "respan" => <<pass.who, pass.hour, "spans">> \in torn'
    BY <1>1
  <2> QED
    BY <2>1
<1>5. \A t \in torn : t \in torn'
  BY <1>1
<1> QED
  BY <1>1, <1>2, <1>3, <1>4, <1>5, EndKeepsDrawing

LEMMA ScanKeepsDrawing ==
  ASSUME Shape, Course, Grouped, Caught, Stored, Drawing, NEW who \in {"forward", "nightly"}, Scan(who)
  PROVE  Drawing'
<1>0. /\ rec' = rec /\ recv' = recv /\ late' = late /\ ordered' = ordered
      /\ Every' = Every /\ Session' = Session
      /\ OnTime' <=> OnTime
      /\ \A e \in Every : \A h : Outlived(e, h)' <=> Outlived(e, h)
      /\ \A e : /\ HourOf(e)' = HourOf(e)
                /\ Remembered(e)' <=> Remembered(e)
                /\ IsUnlock(e)' <=> IsUnlock(e)
  BY SessionStays
<1>1. /\ spans' = spans /\ unlocks' = unlocks /\ torn' = torn /\ watermark' = watermark
      /\ pass.who = "none" /\ pass.step = "idle"
  BY DEF Scan, tables, Free, Course
<1>2. PICK used \in SUBSET events : Takes(who, used)
  BY ScanFacts
<1>3. /\ pass'.who = who /\ pass'.step \in {"rollup", "buckets"}
      /\ ~Forward /\ ~AtHour'
      /\ \A e \in Every : recv[e] \in Nat
      /\ watermark \in Nat
  BY <1>1, <1>2, SessionTypes DEF Takes, AtHour, Forward, Shape, IngestShape
<1>4. ASSUME NEW g \in Every, recv[g] > watermark, Forward', recv[g] <= pass'.upto
      PROVE  HourOf(g) \in pass'.dirty
  <2>1. used # {} /\ who = "forward"
    BY <1>2, <1>3, <1>4 DEF Takes, Forward, Working
  <2>2. g \in events
    BY <1>4, StillStored DEF Transitions
  <2>3. g \in used
    BY <1>2, <1>4, <2>1, <2>2 DEF Takes, Since
  <2> QED
    BY <1>2, <2>3 DEF Takes
<1>5. Spanning'
  BY <1>0, <1>1 DEF Drawing, Spanning
<1>6. Holding'
  BY <1>0, <1>1, <1>3 DEF Drawing, Holding
<1>7. InRows' /\ InOrder' /\ ReadAhead'
  BY <1>3 DEF InRows, InOrder, ReadAhead
<1>8. DrawnUp'
  <2>1. \A e : Drawn(e) => Drawn(e)'
    BY <1>0, <1>1 DEF Drawn
  <2>2. OnTime => \A e \in Every : ~Outlived(e, HourOf(e)) => (recv[e] <= watermark => Drawn(e))
    BY DEF Drawing, DrawnUp
  <2> QED
    BY <1>0, <1>1, <1>3, <1>4, <2>1, <2>2 DEF DrawnUp
<1>9. Waits'
  <2>1. \A s, g : Misses(s, g)' <=> Misses(s, g)
    BY <1>0 DEF Misses
  <2>2. \A g \in Every : Pending(g) => Pending(g)'
    BY <1>0, <1>1, <1>4 DEF Pending
  <2> QED
    BY <1>0, <1>1, <1>3, <2>1, <2>2 DEF Drawing, Waits
<1>10. Rightly'
  BY <1>0, <1>1 DEF Drawing, Rightly
<1>11. Found'
  <2>1. ordered /\ OnTime => \A e \in Every : Remembered(e) /\ IsUnlock(e) /\ recv[e] <= watermark => e \in unlocks
    BY DEF Drawing, Found
  <2> QED
    BY <1>0, <1>1, <1>3, <1>4, <2>1 DEF Found
<1> QED
  BY <1>5, <1>6, <1>7, <1>8, <1>9, <1>10, <1>11 DEF Drawing

\* While transitions arrive in order, one that commits is later than all that did.
LEMMA CommitsLast ==
  ASSUME NEW S \in open, Commit(S), ordered'
  PROVE  ordered /\ \A g \in S \cap Session, f \in Every : rec[f].ts < rec[g].ts
BY DEF Commit

LEMMA CommitKeepsDrawing ==
  ASSUME Shape, Course, Grouped, Caught, Stored, Drawing, NEW S \in open, Commit(S)
  PROVE  Drawing'
<1>0. /\ rec' = rec /\ recv' = recv /\ spans' = spans /\ unlocks' = unlocks /\ torn' = torn
      /\ watermark' = watermark /\ pass' = pass
      /\ open' = open \ {S} /\ late' = late \cup {e \in S : recv[e] <= Scanned}
      /\ Session' = Session /\ \A e : HourOf(e)' = HourOf(e)
  BY Names DEF Commit, tables
<1>1. /\ Scanned' = Scanned /\ (AtHour' <=> AtHour) /\ (Forward' <=> Forward)
      /\ Scanned \in Nat /\ watermark \in Nat /\ watermark <= Scanned /\ (Forward => Scanned = pass.upto)
  BY <1>0, ScannedFacts DEF Scanned, AtHour, Forward, Shape, IngestShape
<1>2. /\ S \in SUBSET Begun /\ Committed' = Committed \cup S /\ Begun \in SUBSET Event
  <2>1. Begun' = Begun
    BY <1>0 DEF Begun, Event
  <2>2. S \subseteq Begun /\ \A T \in open \ {S} : S \cap T = {}
    BY DEF Grouped
  <2> QED
    BY <1>0, <2>1, <2>2 DEF Committed, Begun
<1> DEFINE New == S \cap Session
<1>3. Every' = Every \cup New
  BY <1>0, <1>2 DEF Every
<1>4. /\ Every \in SUBSET Event /\ New \in SUBSET Event
      /\ \A e \in Event : recv[e] \in Nat /\ rec[e].ts \in Nat /\ HourOf(e) \in Nat
      /\ pass.rows \cap Session \in SUBSET Every
  BY <1>2, ArrivalTypes, RecordingFacts, SessionTypes DEF Shape, IngestShape
<1>5. OnTime' => OnTime /\ \A g \in New : recv[g] > Scanned
  <2>1. ASSUME OnTime', NEW g \in New
        PROVE  recv[g] > Scanned
    <3>1. g \in Every' /\ g \in S /\ recv[g] \in Nat
      BY <1>3, <1>4
    <3>2. ~(recv[g] <= Scanned)
      BY <1>0, <2>1, <3>1 DEF OnTime
    <3> QED
      BY <1>1, <3>1, <3>2
  <2>2. OnTime' => OnTime
    BY <1>0, <1>3 DEF OnTime
  <2> QED
    BY <2>1, <2>2
<1>6. ordered' => ordered /\ \A g \in New, f \in Every : rec[f].ts < rec[g].ts
  BY CommitsLast
<1> HIDE DEF New
<1>18. \A e \in Every : \A h : Outlived(e, h) => Outlived(e, h)'
  BY OutlivedGrows, SessionTypes DEF Next
<1>7. ASSUME ordered', NEW e \in Every
      PROVE  /\ \A f \in Every' : Precedes(f, e)' => f \in Every
             /\ \A f \in Every : Precedes(f, e)' <=> Precedes(f, e)
             /\ Remembered(e)' => Remembered(e)
             /\ IsUnlock(e)' <=> IsUnlock(e)
  <2>1. \A g \in New : rec[g].ts > rec[e].ts /\ ~(rec[g].ts < rec[e].ts) /\ rec[g].ts >= rec[e].ts
    BY <1>4, <1>6, <1>7
  <2>2. \A f \in Every' : Precedes(f, e)' => f \in Every
    BY <1>0, <1>3, <2>1 DEF Precedes
  <2>3. \A f : Precedes(f, e)' <=> Precedes(f, e)
    BY <1>0, <1>3, <2>1 DEF Precedes
  <2>4. Remembered(e)' => Remembered(e)
    <3>1. Hour(rec[e].ts)' = Hour(rec[e].ts)
      BY <1>0
    <3> QED
      BY <1>0, <1>3, <1>18, <2>3, <3>1 DEF Remembered
  <2>5. IsUnlock(e)' <=> IsUnlock(e)
    BY <1>0, <1>3, <2>2, <2>3 DEF IsUnlock
  <2> QED
    BY <2>2, <2>3, <2>4, <2>5
<1>8. Spanning'
  BY <1>0, <1>3 DEF Drawing, Spanning
<1>9. Holding'
  BY <1>0, <1>1, <1>3 DEF Drawing, Holding
<1>10. InRows'
  <2>1. ASSUME OnTime', AtHour, NEW e \in Every', HourOf(e) = pass.hour, recv[e] <= Scanned,
               e \in Every => recv[e] > watermark \/ ~Outlived(e, pass.hour)
        PROVE  e \in pass.rows
    <3>1. e \in Event /\ ~(recv[e] > Scanned)
      BY <1>1, <1>3, <1>4, <2>1
    <3> QED
      BY <1>3, <1>5, <2>1, <3>1 DEF Drawing, InRows
  <2> QED
    BY <1>0, <1>1, <1>18, <2>1 DEF InRows
<1>11. ASSUME OnTime', NEW g \in New
       PROVE  ~(recv[g] <= watermark) /\ ~(Forward /\ recv[g] <= pass.upto) /\ Pending(g)
  <2>1. recv[g] > Scanned /\ recv[g] \in Nat
    BY <1>4, <1>5, <1>11
  <2>2. ~(recv[g] <= watermark) /\ ~(Forward /\ recv[g] <= pass.upto) /\ recv[g] > watermark
    BY <1>1, <2>1
  <2> QED
    BY <2>2 DEF Pending
<1>12. DrawnUp'
  <2>1. \A e : Drawn(e)' <=> Drawn(e)
    BY <1>0 DEF Drawn
  <2> QED
    BY <1>0, <1>1, <1>3, <1>5, <1>11, <1>18, <2>1 DEF Drawing, DrawnUp
<1>13. Waits'
  <2>1. \A s, g : Misses(s, g)' => Misses(s, g)
    BY <1>0, <1>6 DEF Misses
  <2>2. \A g : Pending(g)' <=> Pending(g)
    BY <1>0, <1>1 DEF Pending
  <2>3. ASSUME OnTime', NEW s \in spans, NEW g \in New, Misses(s, g)'
        PROVE  Pending(g) /\ s.to = Never /\ recv[g] > Scanned
    <3>1. CASE s.to = Never
      BY <1>5, <1>11, <2>3, <3>1
    <3>2. CASE s.to # Never
      <4>1. PICK f \in Every : s.to = rec[f].ts
        BY <3>2 DEF Drawing, Spanning
      <4>2. ordered' /\ rec[g].ts < s.to
        BY <1>0, <2>3, <3>2 DEF Misses
      <4>3. rec[f].ts < rec[g].ts /\ rec[f].ts \in Nat /\ rec[g].ts \in Nat
        BY <1>4, <1>6, <2>3, <4>2
      <4> QED
        BY <4>1, <4>2, <4>3
    <3> QED
      BY <3>1, <3>2
  <2> QED
    BY <1>0, <1>1, <1>3, <1>5, <1>18, <2>1, <2>2, <2>3 DEF Drawing, Waits
<1>14. ReadAhead'
  <2>1. ASSUME OnTime', pass.step = "respan", NEW g \in New, HourOf(g) > pass.hour
        PROVE  /\ recv[g] > Scanned
               /\ ordered' /\ pass.after # Never => pass.after <= rec[g].ts
    <3>1. ASSUME ordered', pass.after # Never
          PROVE  pass.after <= rec[g].ts
      <4>1. PICK f \in Every : pass.after = rec[f].ts
        BY <2>1, <3>1 DEF Drawing, Holding
      <4>2. rec[f].ts < rec[g].ts /\ rec[f].ts \in Nat /\ rec[g].ts \in Nat
        BY <1>4, <1>6, <2>1, <3>1
      <4> QED
        BY <4>1, <4>2
    <3> QED
      BY <1>5, <2>1, <3>1
  <2> QED
    BY <1>0, <1>1, <1>3, <1>5, <1>6, <1>18, <2>1 DEF Drawing, ReadAhead
<1>15. InOrder'
  <2>1. ASSUME ordered', AtHour, NEW e \in pass.rows \cap Session, NEW f \in Every',
               HourOf(f) = pass.hour, rec[f].ts < rec[e].ts, f \in Every => ~Outlived(f, pass.hour)
        PROVE  f \in pass.rows
    <3>1. CASE f \in Every
      BY <1>6, <2>1, <3>1 DEF Drawing, InOrder
    <3>2. CASE f \notin Every
      <4>1. f \in New /\ e \in Every
        BY <1>3, <1>4, <2>1, <3>2
      <4>2. rec[e].ts < rec[f].ts /\ rec[e].ts \in Nat /\ rec[f].ts \in Nat
        BY <1>4, <1>6, <2>1, <4>1
      <4> QED
        BY <2>1, <4>2
    <3> QED
      BY <3>1, <3>2
  <2> QED
    BY <1>0, <1>1, <1>18, <2>1 DEF InOrder
<1>16. Rightly'
  <2>1. ASSUME ordered', NEW e \in unlocks, Remembered(e)'
        PROVE  IsUnlock(e)'
    <3>1. e \in Every
      BY DEF Drawing, Holding
    <3> QED
      BY <1>6, <1>7, <2>1, <3>1 DEF Drawing, Rightly
  <2> QED
    BY <1>0, <2>1 DEF Rightly
<1>17. Found'
  <2>1. ASSUME ordered', OnTime', NEW e \in Every, Remembered(e)', IsUnlock(e)'
        PROVE  /\ recv[e] <= watermark => e \in unlocks
               /\ Forward /\ recv[e] <= pass.upto => e \in unlocks \/ HourOf(e) \in pass.dirty
    <3>1. ordered /\ OnTime /\ Remembered(e) /\ IsUnlock(e)
      BY <1>5, <1>6, <1>7, <2>1
    <3> QED
      BY <3>1 DEF Drawing, Found
  <2> QED
    BY <1>0, <1>1, <1>3, <1>11, <2>1 DEF Found
<1> QED
  BY <1>8, <1>9, <1>10, <1>12, <1>13, <1>14, <1>15, <1>16, <1>17 DEF Drawing

LEMMA BeginKeepsDrawing ==
  ASSUME Shape, Drawing, Next, (\E S \in SUBSET Event : Begin(S)) \/ Tick \/ Prune
  PROVE  Drawing'
<1>1. UNCHANGED <<pass, watermark, torn, spans, unlocks, late, ordered>> /\ rec' = rec
  BY DEF Begin, Tick, Prune, tables, ingest
<1>2. Committed' = Committed
  <2>1. CASE \E S \in open : Commit(S)
    <3>1. open' # open
      BY <2>1 DEF Commit
    <3>2. ~Tick /\ ~Prune
      BY <3>1 DEF Tick, Prune, ingest
    <3>3. \A S \in SUBSET Event : ~Begin(S)
      BY <2>1 DEF Begin, Commit, Shape, IngestShape
    <3> QED
      BY <3>2, <3>3
  <2>2. CASE ~\E S \in open : Commit(S)
    BY <2>2, IngestFacts
  <2> QED
    BY <2>1, <2>2
<1>3. /\ \A e \in Every : recv'[e] = recv[e]
      /\ \A e \in Committed : at'[e] = at[e]
  <2>1. \A e \in Committed : recv'[e] = recv[e] /\ at'[e] = at[e]
    BY IngestFacts
  <2> QED
    BY <2>1 DEF Every
<1> QED
  BY <1>1, <1>2, <1>3, DrawingStays

LEMMA NextKeepsDrawing ==
  ASSUME Shape, Course, Grouped, Caught, Stored, Complete, Drawing, Next
  PROVE  Drawing'
<1>1. CASE \E S \in SUBSET Event : Begin(S)
  BY <1>1, BeginKeepsDrawing
<1>2. CASE \E S \in open : Commit(S)
  BY <1>2, CommitKeepsDrawing
<1>3. CASE \E who \in {"forward", "nightly"} : Scan(who)
  BY <1>3, ScanKeepsDrawing
<1>4. CASE Steps
  BY <1>4, ReadKeepsDrawing, UsageKeepsDrawing, ClearKeepsDrawing, SpansKeepDrawing, UnlocksKeepDrawing,
     AdvanceKeepsDrawing, RollUpKeepsDrawing DEF Steps
<1>5. CASE Prune \/ Tick
  BY <1>5, BeginKeepsDrawing
<1>6. CASE Crash
  BY <1>6, CrashKeepsDrawing
<1> QED
  BY <1>1, <1>2, <1>3, <1>4, <1>5, <1>6 DEF Next, Reproject

LEMMA InitDraws == Init => Drawing
<1> SUFFICES ASSUME Init
             PROVE  Drawing
  OBVIOUS
<1>1. spans = {} /\ unlocks = {} /\ pass.step = "idle"
  BY DEF Init, Idle
<1>2. Every = {}
  BY DEF Init, Every, Committed, Begun
<1>3. ~AtHour
  BY <1>1 DEF AtHour
<1>4. Spanning /\ Holding /\ InRows /\ DrawnUp
  BY <1>1, <1>2, <1>3 DEF Spanning, Holding, InRows, DrawnUp
<1>5. Waits /\ ReadAhead /\ InOrder /\ Rightly /\ Found
  BY <1>1, <1>2, <1>3 DEF Waits, ReadAhead, InOrder, Rightly, Found
<1> QED
  BY <1>4, <1>5 DEF Drawing

LEMMA DrawingInductive == Spec => [](IInv /\ Drawing)
<1>1. Init => IInv /\ Drawing
  BY InitEstablishes, InitDraws
<1>2. IInv /\ Drawing /\ [Next]_vars => (IInv /\ Drawing)'
  <2> SUFFICES ASSUME IInv, Drawing, [Next]_vars
               PROVE  IInv' /\ Drawing'
    OBVIOUS
  <2>1. IInv'
    BY NextPreserves
  <2>2. CASE Next
    BY <2>1, <2>2, NextKeepsDrawing DEF IInv
  <2>3. CASE UNCHANGED vars
    <3>1. /\ UNCHANGED <<rec, recv, at, open>>
          /\ UNCHANGED <<pass, watermark, torn, spans, unlocks, late, ordered>>
      BY <2>3 DEF vars, ingest, tables
    <3>2. Committed' = Committed
      BY <3>1 DEF Committed, Begun, Event
    <3> QED
      BY <2>1, <3>1, <3>2, DrawingStays
  <2> QED
    BY <2>2, <2>3
<1> QED
  BY <1>1, <1>2, PTL DEF Spec

\* At rest, what has been drawn is what the Mac did.
LEMMA DrawnCloses ==
  ASSUME Shape, Drawing
  PROVE  SpansClose
<1> SUFFICES ASSUME AtRest, OnTime
             PROVE  \A e \in Every : Undisturbed(e) =>
                      LET next == {t \in Ts(Every) : t > rec[e].ts}
                          own == {s \in spans : s.from = rec[e].ts}
                      IN  /\ Cardinality(own) = 1 \/ \E t \in torn : t[2] = Hour(rec[e].ts) /\ t[3] = "spans"
                          /\ \A s \in own : /\ s.to = Never <=> next = {}
                                            /\ s.to # Never => s.to \in next
                                            /\ ordered /\ next # {} => s.to = First(next)
  BY DEF SpansClose, OnTime
<1>1. pass.step = "idle" /\ \A e \in Every : recv[e] <= watermark /\ recv[e] \in Nat /\ watermark \in Nat
  BY SessionTypes DEF AtRest, Idle, Every, Shape, IngestShape
<1>2. \A s \in spans, g \in Every : ~Outlived(g, Hour(s.from)) => ~Misses(s, g)
  <2>1. \A g \in Every : ~Pending(g)
    BY <1>1 DEF Pending
  <2> QED
    BY <2>1 DEF Drawing, Waits
<1>3. /\ \A s, r \in spans : s.from = r.from => s = r
      /\ \A s \in spans : s.to # Never => s.from < s.to /\ \E f \in Every : s.to = rec[f].ts
  BY DEF Drawing, Spanning
<1>4. \A f \in Every : rec[f].ts \in Nat /\ rec[f].ts # Never /\ HourOf(f) = Hour(rec[f].ts)
  BY SessionTypes DEF Never
<1> TAKE e \in Every
<1> HAVE Undisturbed(e)
<1>8. \A g \in Every : rec[g].ts >= rec[e].ts => ~Outlived(g, Hour(rec[e].ts))
  BY DEF Undisturbed
<1> DEFINE next == {t \in Ts(Every) : t > rec[e].ts}
           own == {s \in spans : s.from = rec[e].ts}
<1>5. /\ \A f \in Every : rec[f].ts > rec[e].ts => rec[f].ts \in next
      /\ \A t \in next : t \in Nat /\ t > rec[e].ts /\ \E f \in Every : t = rec[f].ts
  BY <1>4 DEF Ts
<1>6. Cardinality(own) = 1 \/ \E t \in torn : t[2] = Hour(rec[e].ts) /\ t[3] = "spans"
  <2>1. Drawn(e)
    <3>1. ~Outlived(e, HourOf(e))
      BY <1>4, <1>8
    <3> QED
      BY <1>1, <3>1 DEF Drawing, DrawnUp
  <2>2. CASE \E s \in spans : s.from = rec[e].ts
    <3>1. PICK s \in spans : s.from = rec[e].ts
      BY <2>2
    <3>2. own = {s}
      BY <1>3, <3>1
    <3> HIDE DEF own
    <3> QED
      BY <3>2, FS_Singleton
  <2>3. CASE ~\E s \in spans : s.from = rec[e].ts
    BY <1>1, <1>4, <2>1, <2>3 DEF Drawn
  <2> QED
    BY <2>2, <2>3
<1>7. ASSUME NEW s \in own
      PROVE  /\ s.to = Never <=> next = {}
             /\ s.to # Never => s.to \in next
             /\ ordered /\ next # {} => s.to = First(next)
  <2>1. s \in spans /\ s.from = rec[e].ts
    OBVIOUS
  <2> HIDE DEF next, own
  <2>2. s.to # Never => s.to \in next
    <3>1. ASSUME s.to # Never
          PROVE  s.to \in next
      <4>1. PICK f \in Every : s.to = rec[f].ts
        BY <1>3, <2>1, <3>1
      <4>2. rec[f].ts > rec[e].ts
        BY <1>3, <1>4, <2>1, <3>1, <4>1
      <4> QED
        BY <1>5, <4>1, <4>2
    <3> QED
      BY <3>1
  <2>3. next # {} => s.to # Never
    <3>1. ASSUME next # {}, s.to = Never
          PROVE  FALSE
      <4>1. PICK g \in Every : rec[g].ts \in next
        BY <1>5, <3>1
      <4>2. Misses(s, g) /\ rec[g].ts >= rec[e].ts
        BY <1>4, <1>5, <2>1, <3>1, <4>1 DEF Misses
      <4> QED
        BY <1>2, <1>8, <2>1, <4>2
    <3> QED
      BY <3>1
  <2>4. ASSUME ordered, next # {}
        PROVE  s.to = First(next)
    <3>1. next \in SUBSET Nat
      BY <1>5
    <3>2. First(next) \in next /\ \A u \in next : First(next) <= u
      BY <2>4, <3>1, FirstFacts
    <3>3. s.to \in next /\ First(next) <= s.to
      BY <2>2, <2>3, <2>4, <3>2
    <3>4. PICK g \in Every : First(next) = rec[g].ts
      BY <1>5, <3>2
    <3>5. ~(rec[g].ts < s.to)
      <4>1. rec[e].ts < rec[g].ts /\ rec[g].ts >= rec[e].ts
        BY <1>4, <1>5, <3>2, <3>4
      <4> QED
        BY <1>2, <1>8, <2>1, <2>4, <4>1 DEF Misses
    <3> QED
      BY <1>5, <3>2, <3>3, <3>4, <3>5
  <2> QED
    BY <2>2, <2>3, <2>4
<1> QED
  BY <1>6, <1>7

LEMMA DrawnLists ==
  ASSUME Shape, Drawing
  PROVE  UnlocksListed
<1> SUFFICES ASSUME AtRest, OnTime, ordered, NEW e \in Every, Remembered(e)
             PROVE  e \in unlocks <=> IsUnlock(e)
  BY DEF UnlocksListed, OnTime, IsUnlock
<1>1. recv[e] <= watermark
  BY DEF AtRest, Every
<1> QED
  BY <1>1 DEF Drawing, Rightly, Found

\* The session as the Mac lived it, for every recording, age and order of arrival, prune
\* and restart, and retention longer than the projector is behind: once the projector has
\* caught up, every transition whose hour was read while it and all after it were stored
\* has its one span and only the last is open; while they arrive in order the spans meet
\* end to start, and an unlock is listed for each change from locked to in use, and for
\* nothing else (jobs/project.ts, recomputeBucket).
THEOREM SessionKept == Spec => []SessionAsItWas
<1>1. IInv /\ Drawing => SessionAsItWas
  <2> SUFFICES ASSUME IInv, Drawing
               PROVE  SessionAsItWas
    OBVIOUS
  <2>1. Shape
    BY DEF IInv
  <2> QED
    BY <2>1, ShapeIsTyped, DrawnCloses, DrawnLists DEF SessionAsItWas
<1> QED
  BY <1>1, DrawingInductive, PTL

=============================================================================
