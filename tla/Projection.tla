------------------------------ MODULE Projection ------------------------------
(***************************************************************************)
(* From raw events to what the reports read (apps/api/src): POST /events   *)
(* stores a batch in one INSERT; the projector (jobs/project.ts) scans what*)
(* arrived since its watermark and recomputes every device-hour touched; a *)
(* nightly side pass repeats that for two days; the prune (jobs/prune.ts)  *)
(* deletes old rows.  Both passes are timers in one event loop             *)
(* (lib/scheduler.ts) that interleave at every await and share one mutex   *)
(* (jobs/index.ts).                                                        *)
(*                                                                         *)
(* One device.  An hour is the unit of the server's clock, half an hour of *)
(* the device's.  received_at is the instant a transaction began: a stamp, *)
(* drawn in order of beginning, while transactions commit in any order.    *)
(* Sums per app are the set of samples they sum; one app.                  *)
(* Operators called Mut... are mistakes the properties must catch.         *)
(***************************************************************************)
EXTENDS Integers, FiniteSets

CONSTANTS
  Recordings, \* what the device may have recorded: per event, its type, its time
              \* and, for a transition, the state it leads to
  MaxBatch,   \* events in one POST
  Limit,      \* BATCH_LIMIT
  Trailing,   \* hours the nightly pass goes back (48 h)
  SampleKept, \* RAW_SAMPLE_RETENTION_DAYS, in hours
  AuditKept,  \* RAW_AUDIT_RETENTION_DAYS
  HourlyKept, \* USAGE_HOURLY_RETENTION_DAYS
  DayLen,     \* hours in a day
  RollSpan,   \* hours rollUpDaily goes back
  Lag,        \* bound: hours an event may wait for the projector
  Ahead,      \* bound: hours the device's clock may be ahead
  Horizon,    \* bound: hours modelled
  Crashes     \* bound: restarts of the API

ASSUME ProjectionAssumption ==
  /\ \A r \in Recordings :
       /\ IsFiniteSet(DOMAIN r)
       /\ r \in [DOMAIN r -> [type : {"sample", "session", "audit"}, ts : 0 .. 2 * Horizon + 1,
                              st : {"locked", "active"}]]
       \* unique (device, kind, started_at), and one state at a time
       /\ \A e, f \in DOMAIN r : r[e].type = "session" /\ r[f].type = "session"
                                  /\ r[e].ts = r[f].ts => e = f
  /\ {MaxBatch, Limit, DayLen} \subseteq Nat \ {0}
  /\ {Trailing, SampleKept, AuditKept, HourlyKept, RollSpan, Lag, Ahead, Horizon, Crashes} \subseteq Nat
  \* POST refuses 2000, a scan reads 50000
  /\ MaxBatch <= Limit
  \* the projector is not behind for as long as raw rows are kept
  /\ Lag < SampleKept /\ Lag < AuditKept

VARIABLES
  now,        \* the server's hour
  stamp,      \* the last received_at given
  rec,        \* what the device recorded
  recv,       \* per event: received_at, 0 until a batch has it
  at,         \* per event: the hour of that
  open,       \* batches whose INSERT has not committed
  events,     \* the events table
  watermark,  \* projection_state.watermark_received_at
  usage,      \* usage_hourly: per hour, the samples counted
  daily,      \* usage_daily: per day, the samples counted
  spans,      \* session_spans: [from, kind, to]
  logged,     \* enforcement_log, from audit events
  unlocks,    \* enforcement_log, session_unlocked: [ev, from]
  pass,       \* the pass that holds the mutex
  crashes,
  late,       \* history: events that committed after a scan had passed their stamp
  ordered,    \* history: every transition so far arrived after all earlier ones
  torn        \* history: <<who, hour, table>> that a pass died in after its delete

tables == <<usage, daily, spans, logged, unlocks>>
ingest == <<rec, stamp, recv, at, open, events, late, ordered>>
vars == <<now, ingest, watermark, tables, pass, crashes, torn>>

Event == DOMAIN rec
OfType(t) == {e \in Event : rec[e].type = t}
MutSample == Event \ OfType("audit")   \* a transition is summed too
Sample == OfType("sample")   \* app.usage_sample
Session == OfType("session") \* session.state
Audit == OfType("audit")     \* kept 400 days, of a kind enforcement_log has
Hours == 0 .. Horizon
Hour(t) == t \div 2
Day(h) == h \div DayLen
Never == -1   \* ended_at IS NULL
Idle ==
  [who |-> "none", step |-> "idle", dirty |-> {}, upto |-> 0, hour |-> 0, rows |-> {}, after |-> Never]

Begun == {e \in Event : recv[e] > 0}
Committed == Begun \ UNION open
First(T) == CHOOSE t \in T : \A u \in T : t <= u
Last(T) == CHOOSE t \in T : \A u \in T : t >= u
Ts(E) == {rec[e].ts : e \in E}
Transitions == {e \in events : e \in Session}
Every == Committed \cap Session

-----------------------------------------------------------------------------
(* Ingestion.                                                               *)

\* A batch reaches POST /events: its transaction begins.  Its events may be of any age,
\* and of a clock that is ahead: ts is stored as sent, a line may wait in the spool for
\* ever, and the queue keeps an audit row longer than the server keeps a sample.
Begin(S) ==
  /\ \A e \in S : recv[e] = 0 /\ Hour(rec[e].ts) <= now + Ahead
  /\ stamp' = stamp + 1
  /\ recv' = [e \in Event |-> IF e \in S THEN stamp + 1 ELSE recv[e]]
  /\ at' = [e \in Event |-> IF e \in S THEN now ELSE at[e]]
  /\ open' = open \cup {S}
  /\ UNCHANGED <<rec, now, events, watermark, tables, pass, crashes, late, ordered, torn>>

\* How far the forward pass has looked.
Scanned == IF pass.who = "forward" /\ pass.upto > watermark THEN pass.upto ELSE watermark

\* The INSERT commits: its rows become visible, whatever began after it.
Commit(S) ==
  /\ S \in open
  /\ open' = open \ {S}
  /\ events' = events \cup S
  /\ late' = late \cup {e \in S : recv[e] <= Scanned}
  /\ ordered' = (ordered /\ \A e \in S \cap Session, f \in Every : rec[f].ts < rec[e].ts)
  /\ UNCHANGED <<rec, now, stamp, recv, at, watermark, tables, pass, crashes, torn>>

-----------------------------------------------------------------------------
(* A pass.                                                                  *)

Since(e, who) ==
  IF who = "forward" THEN recv[e] > watermark ELSE at[e] >= now - Trailing

\* exclusive(): a pass that finds the mutex taken is skipped.
MutFree(who) == pass.who # who                      \* without the mutex
Free(who) == pass.who = "none"

MutUsable(S) == S                                    \* without the F7 rule

MutUsableEmpty(S) ==                                 \* without the oversized-group rule
  LET last == Last({recv[e] : e \in S})
  IN  IF Cardinality(S) < Limit THEN S ELSE {e \in S : recv[e] # last}

\* A full batch loses its last received_at group, unless it is all one group.
Usable(S) ==
  LET last == Last({recv[e] : e \in S})
      whole == {e \in S : recv[e] # last}
  IN  IF Cardinality(S) < Limit \/ whole = {} THEN S ELSE whole

\* ORDER BY received_at LIMIT n
Batches(who) ==
  LET rows == {e \in events : Since(e, who)}
  IN  {S \in SUBSET rows :
         /\ IF Cardinality(rows) <= Limit THEN S = rows ELSE Cardinality(S) = Limit
         /\ \A e \in S, f \in rows \ S : recv[e] <= recv[f]}

\* Every hour that has a row, and the newest received_at among them.
Scan(who) ==
  /\ Free(who)
  /\ \E S \in Batches(who) :
       LET used == IF S = {} THEN {} ELSE Usable(S)
       IN  pass' = [Idle EXCEPT !.who = who,
                     !.step = IF used = {} THEN "rollup" ELSE "buckets",
                     !.dirty = {Hour(rec[e].ts) : e \in used},
                     !.upto = IF used = {} THEN 0 ELSE Last({recv[e] : e \in used})]
  /\ UNCHANGED <<now, ingest, watermark, tables, crashes, torn>>

\* reprojectTrailing48h, every night.
Reproject == Scan("nightly")

\* recomputeBucket, one statement after another.
ReadBucket(h) ==
  /\ pass.step = "buckets" /\ h \in pass.dirty
  /\ pass' = [pass EXCEPT !.step = "clear", !.hour = h,
                          !.rows = {e \in events : Hour(rec[e].ts) = h}]
  /\ UNCHANGED <<now, ingest, watermark, tables, crashes, torn>>

ClearUsage ==
  /\ pass.step = "clear"
  /\ usage' = [usage EXCEPT ![pass.hour] = {}]
  /\ pass' = [pass EXCEPT !.step = "write"]
  /\ UNCHANGED <<now, ingest, watermark, daily, spans, logged, unlocks, crashes, torn>>

WriteUsage ==
  /\ pass.step = "write"
  /\ usage' = [usage EXCEPT ![pass.hour] = pass.rows \cap Sample]
  /\ logged' = logged \cup (pass.rows \cap Audit)
  /\ torn' = {t \in torn : <<t[2], t[3]>> # <<pass.hour, "usage">>}
  /\ pass' = [pass EXCEPT !.step = "spans"]
  /\ UNCHANGED <<now, ingest, watermark, daily, spans, unlocks, crashes>>

\* The first transition after the hour.
After ==
  LET later == {t \in Ts(Transitions) : Hour(t) > pass.hour}
  IN  IF later # {} THEN First(later) ELSE Never

\* It is read, then the hour's spans are deleted.
ClearSpans ==
  /\ pass.step = "spans"
  /\ pass' = [pass EXCEPT !.step = "respan", !.after = After]
  /\ spans' = {s \in spans : Hour(s.from) # pass.hour}
  /\ UNCHANGED <<now, ingest, watermark, usage, daily, logged, unlocks, crashes, torn>>

MutEndOf(e) ==                                       \* the hour's last span stays open
  LET inHour == {t \in Ts(pass.rows \cap Session) : t > rec[e].ts}
  IN  IF inHour # {} THEN First(inHour) ELSE Never

\* The next transition in the hour's rows, or the first after the hour.
EndOf(e) ==
  LET inHour == {t \in Ts(pass.rows \cap Session) : t > rec[e].ts}
  IN  IF inHour # {} THEN First(inHour) ELSE pass.after

WriteSpans ==
  /\ pass.step = "respan"
  /\ spans' = spans \cup {[from |-> rec[e].ts, kind |-> rec[e].st, to |-> EndOf(e)] :
                            e \in pass.rows \cap Session}
  /\ torn' = {t \in torn : <<t[2], t[3]>> # <<pass.hour, "spans">>}
  /\ pass' = [pass EXCEPT !.step = "unlocks", !.after = Never]
  /\ UNCHANGED <<now, ingest, watermark, usage, daily, logged, unlocks, crashes>>

MutBefore(e) ==                                      \* the state before the hour is unknown
  LET inHour == {f \in pass.rows \cap Session : rec[f].ts < rec[e].ts}
  IN  {f \in inHour : \A g \in inHour : rec[g].ts <= rec[f].ts}

\* The transition before e: in the hour's rows, or the latest one stored.
Before(e) ==
  LET inHour == {f \in pass.rows \cap Session : rec[f].ts < rec[e].ts}
      earlier == {f \in Transitions : rec[f].ts < rec[e].ts}
      from == IF inHour # {} THEN inHour ELSE earlier
  IN  {f \in from : \A g \in from : rec[g].ts <= rec[f].ts}

Unlocked(e) == rec[e].st = "active" /\ \E f \in Before(e) : rec[f].st = "locked"

MutCloseEarlier == spans                             \* an earlier hour's open span stays open

\* UPDATE session_spans ... WHERE ended_at IS NULL AND started_at < hour
CloseEarlier ==
  {IF s.to = Never /\ Hour(s.from) < pass.hour /\ \E t \in Ts(Transitions) : t > s.from
   THEN [s EXCEPT !.to = First({t \in Ts(Transitions) : t > s.from})] ELSE s : s \in spans}

WriteUnlocks ==
  /\ pass.step = "unlocks"
  /\ unlocks' = unlocks \cup {e \in pass.rows \cap Session : Unlocked(e)}
  /\ spans' = CloseEarlier
  /\ pass' = [pass EXCEPT !.dirty = @ \ {pass.hour}, !.rows = {}, !.hour = 0,
               !.step = IF pass.dirty = {pass.hour} THEN "advance" ELSE "buckets"]
  /\ UNCHANGED <<now, ingest, watermark, usage, daily, logged, crashes, torn>>

\* touchWatermark; the nightly pass leaves it alone.
Advance ==
  /\ pass.step = "advance"
  /\ watermark' = IF pass.who = "forward" THEN pass.upto ELSE watermark
  /\ pass' = [pass EXCEPT !.step = "rollup"]
  /\ UNCHANGED <<now, ingest, tables, crashes, torn>>

\* rollUpDaily: the hours that began in the last RollSpan, summed by day; a day
\* with none keeps its row.  Then the mutex is released.
RollUp ==
  /\ pass.step = "rollup"
  /\ daily' = [x \in DOMAIN daily |->
       LET seen == UNION {usage[h] : h \in {h \in Hours : Day(h) = x /\ h >= now - RollSpan}}
       IN  IF seen = {} THEN daily[x] ELSE seen]
  /\ pass' = Idle
  /\ UNCHANGED <<now, ingest, watermark, usage, spans, logged, unlocks, crashes, torn>>

-----------------------------------------------------------------------------
(* The prune, outside the mutex; time; restarts.                            *)

Kept(e) == IF e \in Audit THEN AuditKept ELSE SampleKept
Expired(e) == at[e] < now - Kept(e)

Prune ==
  /\ pass.who # "nightly"
  /\ events' = {e \in events : ~Expired(e)}
  /\ usage' = [h \in Hours |-> IF h < now - HourlyKept THEN {} ELSE usage[h]]
  /\ <<events, usage>>' # <<events, usage>>
  /\ UNCHANGED <<rec, now, stamp, recv, at, open, late, ordered, watermark, daily, spans, logged, unlocks,
                 pass, crashes, torn>>

\* The bound Lag: the projector is not behind for longer.
Tick ==
  /\ now < Horizon
  /\ \A e \in Begun : e \in UNION open \/ recv[e] > watermark => now - at[e] < Lag
  /\ now' = now + 1
  /\ UNCHANGED <<ingest, watermark, tables, pass, crashes, torn>>

\* The process dies: open transactions roll back (the Mac sends them again), a
\* pass is gone.
Crash ==
  /\ crashes < Crashes
  /\ pass.who # "none" \/ open # {}
  /\ crashes' = crashes + 1
  /\ open' = {}
  /\ recv' = [e \in Event |-> IF e \in UNION open THEN 0 ELSE recv[e]]
  /\ at' = [e \in Event |-> IF e \in UNION open THEN 0 ELSE at[e]]
  /\ torn' = torn \cup (IF pass.step = "write" THEN {<<pass.who, pass.hour, "usage">>} ELSE {})
                  \cup (IF pass.step = "respan" THEN {<<pass.who, pass.hour, "spans">>} ELSE {})
  /\ pass' = Idle
  /\ UNCHANGED <<rec, now, stamp, events, late, ordered, watermark, tables>>

Init ==
  /\ now = 0 /\ stamp = 0 /\ watermark = 0 /\ crashes = 0
  /\ rec \in Recordings
  /\ recv = [e \in Event |-> 0] /\ at = [e \in Event |-> 0]
  /\ open = {} /\ events = {} /\ late = {} /\ torn = {}
  /\ ordered = TRUE
  /\ usage = [h \in Hours |-> {}]
  /\ daily = [x \in {Day(h) : h \in Hours} |-> {}]
  /\ spans = {} /\ logged = {} /\ unlocks = {}
  /\ pass = Idle

Steps ==
  \/ \E h \in pass.dirty : ReadBucket(h)
  \/ ClearUsage \/ WriteUsage \/ ClearSpans \/ WriteSpans \/ WriteUnlocks \/ Advance \/ RollUp

Next ==
  \/ \E S \in SUBSET Event : S # {} /\ Cardinality(S) <= MaxBatch /\ Begin(S)
  \/ \E S \in open : Commit(S)
  \/ Scan("forward") \/ Reproject
  \/ Steps \/ Prune \/ Tick \/ Crash

Spec == Init /\ [][Next]_vars

\* A pass runs on; the five-minute timer finds the mutex free again and again.
FairSpec == Spec /\ WF_vars(Steps) /\ SF_vars(Scan("forward"))
-----------------------------------------------------------------------------
(* Properties.                                                              *)

TypeOK ==
  /\ now \in Nat /\ stamp \in Nat /\ watermark \in Nat /\ crashes \in Nat
  /\ rec \in Recordings /\ recv \in [Event -> Nat] /\ at \in [Event -> Nat]
  /\ open \subseteq SUBSET Event /\ events \subseteq Committed /\ late \subseteq Event
  /\ ordered \in BOOLEAN
  /\ \A E \in {usage[h] : h \in Hours} \cup {daily[x] : x \in {Day(h) : h \in Hours}} : E \subseteq OfType("sample")
  /\ spans \subseteq [from : Nat, kind : {"locked", "active"}, to : Nat \cup {Never}]
  /\ logged \subseteq Audit /\ unlocks \subseteq Session
  /\ pass \in [who : {"none", "forward", "nightly"},
               step : {"idle", "buckets", "clear", "write", "spans", "respan", "unlocks", "advance", "rollup"},
               dirty : SUBSET Hours, upto : Nat, hour : Hours, rows : SUBSET Event, after : Nat \cup {Never}]
  /\ torn \subseteq {"forward", "nightly"} \X Hours \X {"usage", "spans"}

Most(m, n) == IF m > n THEN m ELSE n

\* Hour h may be read when e is no longer among the raw rows: an event of that hour came
\* nearly as long after e as e is kept, and the hour is read again on its account.
Outlived(e, h) ==
  \E f \in Committed : Hour(rec[f].ts) = h /\ at[e] + Kept(e) < at[f] + Most(Lag, Trailing)

\* "Silent evaporation": an event the watermark has passed is in what the
\* reports read, whatever ran beside the pass, unless its transaction committed
\* behind a scan, a pass died between its delete and its insert, or, for a sum,
\* the hour was read again without it; an hour the forward pass left torn still
\* has an event it will come back for (jobs/project.ts, jobs/index.ts, jobs/prune.ts).
SeenIsCounted ==
  /\ \A e \in Committed \ late : recv[e] <= watermark =>
       LET h == Hour(rec[e].ts)
       IN  /\ e \in Audit => e \in logged
           /\ e \in Sample /\ h >= now - HourlyKept /\ ~Outlived(e, h) =>
                \/ e \in usage[h]
                \/ pass.step = "write" /\ pass.hour = h
                \/ \E t \in torn : t[2] = h /\ t[3] = "usage"
  /\ \A t \in torn : t[1] = "forward" =>
       \E e \in events : Hour(rec[e].ts) = t[2] /\ recv[e] > watermark

AtRest == pass = Idle /\ \A e \in Committed : recv[e] <= watermark

\* Its hour is read while it and all that came after it are stored.
Undisturbed(e) ==
  \A f \in Every : rec[f].ts >= rec[e].ts => ~Outlived(f, Hour(rec[e].ts))

\* Once the projector has caught up, every transition so read has one span, unless
\* the nightly pass died between the delete and the inserts of its hour; only the
\* last one is open, and when transitions arrived in the order they happened the
\* spans meet end to start (recomputeBucket).
SpansClose ==
  AtRest /\ Every \cap late = {} =>
    \A e \in Every : Undisturbed(e) =>
      LET next == {t \in Ts(Every) : t > rec[e].ts}
          own == {s \in spans : s.from = rec[e].ts}
      IN  /\ Cardinality(own) = 1 \/ \E t \in torn : t[2] = Hour(rec[e].ts) /\ t[3] = "spans"
          /\ \A s \in own : /\ s.to = Never <=> next = {}
                            /\ s.to # Never => s.to \in next
                            /\ ordered /\ next # {} => s.to = First(next)

Precedes(f, e) ==
  /\ rec[f].ts < rec[e].ts
  /\ \A g \in Every : rec[g].ts <= rec[f].ts \/ rec[g].ts >= rec[e].ts

\* What was before e is still stored whenever e's hour is read: the Mac was not in one
\* state for nearly as long as raw rows are kept, nor did an event of that hour come so late.
Remembered(e) == \A f \in Every : Precedes(f, e) => ~Outlived(f, Hour(rec[e].ts))

\* Transitions that arrived in order: an unlock is listed for each change from
\* locked to in use, across the hours, and for nothing else (ADR 0014).
UnlocksListed ==
  AtRest /\ Every \cap late = {} /\ ordered =>
    \A e \in Every : Remembered(e) =>
      (e \in unlocks <=> rec[e].st = "active" /\ \E f \in Every : rec[f].st = "locked" /\ Precedes(f, e))

\* Everything well formed, and the session as the Mac lived it: its spans and unlocks.
SessionAsItWas == TypeOK /\ SpansClose /\ UnlocksListed

\* The watermark passes every stored event again and again: a full batch never
\* holds it where it is (F7, touchWatermark).
CatchesUp == []<>(\A e \in events : recv[e] <= watermark)

\* SeenIsCounted for sums, without the exception of an hour read again.
NothingEvaporates ==
  \A e \in Committed \ late : recv[e] <= watermark =>
    LET h == Hour(rec[e].ts)
    IN  e \in Sample /\ h >= now - HourlyKept =>
          e \in usage[h] \/ (pass.step = "write" /\ pass.hour = h)

\* A day of usage_daily, "deliberately never pruned", loses nothing it summed
\* (rollUpDaily).
DailyKeepsDay == [][\A x \in DOMAIN daily : daily[x] \subseteq daily'[x]]_vars
=============================================================================
