------------------------------- MODULE Telemetry -------------------------------
(***************************************************************************)
(* What the Mac did, on its way to the server: enforcerd, the deadfall and *)
(* the supervisor append lines to a spool file (HPCAgentIO/Spool.swift);   *)
(* the sync daemon renames the file, moves its lines into a SQLite queue,  *)
(* trims the queue, and sends it batch by batch (HPCSyncKit/{SpoolReader,  *)
(* Queue,SyncDaemon}.swift, HPCCore/QueuePolicy.swift); POST /events stores*)
(* what it accepts (apps/api/src/routes/events.ts).                        *)
(*                                                                         *)
(* The daemon is one thread: its tick drains, evicts, then flushes.  The   *)
(* writers are other processes.  The daemon may die between any two steps, *)
(* writing, reading, enqueue and unlink may fail, and a batch or its answer*)
(* may be lost.                                                            *)
(*                                                                         *)
(* A line is a number and a class.  A day is the unit of time; the Mac's   *)
(* own clock may be off by some days from trusted time.  The byte cap works*)
(* like the count cap and is left out, as are lines that do not parse.     *)
(* Operators called Mut... are mistakes the properties must catch.         *)
(***************************************************************************)
EXTENDS Integers, Sequences, FiniteSets

CONSTANTS
  Writers,    \* processes that append to the spool
  Cap,        \* telemetry.max_queue_events
  SampleAge,  \* telemetry.max_queue_age_days
  AuditAge,   \* telemetry.audit_retention_days
  Batch,      \* batchSize
  Poison,     \* events the server's schema refuses
  Skews,      \* days by which the Mac's clock may be off
  SlowWriters,\* BOOLEAN: may a writer still be between open and write when the file it
              \* opened is read?
  Lines,      \* bound: lines written
  Audits,     \* which events are audit, when they are lines
  Locals,     \* bound: samples the sync daemon takes itself
  Horizon,    \* bound: days modelled
  Faults,     \* bound: failed writes, reads, enqueues and unlinks, lost batches and answers
  Crashes     \* bound: restarts of the sync daemon

ASSUME TelemetryAssumption ==
  /\ {Cap, Batch} \subseteq Nat \ {0}
  /\ {SampleAge, AuditAge, Lines, Locals, Horizon, Faults, Crashes} \subseteq Nat
  /\ SampleAge <= AuditAge
  /\ Poison \cup Audits \subseteq Nat /\ 0 \in Skews /\ Skews \subseteq Int
  /\ SlowWriters \in BOOLEAN

VARIABLES
  files,   \* every spool file there ever was: [lines, at], in order of creation
  opened,  \* per writer: [file, end, line], a file opened to append a line
  made,    \* events numbered so far
  locals,  \* samples taken so far
  day,     \* trusted time
  skew,    \* the Mac's clock less trusted time
  queue,   \* the events table of queue.sqlite: rowid -> row
  serial,  \* the last rowid given out (AUTOINCREMENT)
  d,       \* the daemon: [pc, todo, batch, boot]
  stored,  \* the server's events table: [n, boot]
  refused, \* history: events rejected for good
  evicted, \* history: events trimmed from the queue
  dropped, \* history: numbers of the events an error made the Mac give up in silence
  faults

spool == <<files, opened>>
table == <<queue, serial>>
server == <<stored, refused>>
clock == <<day, skew>>
vars == <<spool, made, locals, clock, table, d, server, evicted, dropped, faults>>

NoRows == <<>>
Closed == [file |-> 0, end |-> 0, line |-> [n |-> 0, cls |-> "audit"]]
Idle == [pc |-> "idle", todo |-> {}, batch |-> NoRows, boot |-> d.boot]

-----------------------------------------------------------------------------
(* The spool.                                                               *)

Live == {i \in DOMAIN files : files[i].at = "live"}
Segments == {i \in DOMAIN files : files[i].at = "segment"}

\* FileHandle(forWritingAtPath:), seekToEnd; file 0 when there is none.
OpenSpool(line) ==
  [file |-> IF Live = {} THEN 0 ELSE CHOOSE i \in Live : TRUE,
   end |-> IF Live = {} THEN 0 ELSE Len(files[CHOOSE i \in Live : TRUE].lines),
   line |-> line]

\* write(contentsOf:) at the position sought, whatever the file is called by
\* then; with no file, write(to:), which creates it or empties the one there.
Landed(h) ==
  IF h.file # 0
  THEN [files EXCEPT ![h.file].lines =
          IF h.end < Len(@) THEN [@ EXCEPT ![h.end + 1] = h.line] ELSE Append(@, h.line)]
  ELSE IF Live # {}
  THEN [files EXCEPT ![CHOOSE i \in Live : TRUE].lines = <<h.line>>]
  ELSE Append(files, [lines |-> <<h.line>>, at |-> "live"])

NewLine == [n |-> made + 1, cls |-> IF made + 1 \in Audits THEN "audit" ELSE "sample"]
\* An error nobody hears of, and what is gone with it.
Drop(numbers) ==
  /\ faults < Faults /\ faults' = faults + 1
  /\ dropped' = dropped \cup numbers

MayWrite == made - locals < Lines

\* Spool.append, in two steps.
OpenToWrite(w) ==
  /\ MayWrite
  /\ opened[w] = Closed
  /\ opened' = [opened EXCEPT ![w] = OpenSpool(NewLine)]
  /\ made' = made + 1
  /\ UNCHANGED <<files, locals, clock, table, d, server, evicted, dropped, faults>>

\* An error is swallowed: "a failed write drops telemetry".
FinishWrite(w) ==
  /\ opened[w] # Closed
  /\ opened' = [opened EXCEPT ![w] = Closed]
  /\ \/ /\ files' = Landed(opened[w])
        /\ UNCHANGED <<dropped, faults>>
     \/ /\ Drop({opened[w].line.n})
        /\ UNCHANGED files
  /\ UNCHANGED <<made, locals, clock, table, d, server, evicted>>

-----------------------------------------------------------------------------
(* The queue.  A row's event_id is derived from the process's boot id, the  *)
(* segment, the line's place in it and its text: the same for one line read *)
(* twice by one process.  queued_at is Date(), the Mac's own clock; `since' *)
(* is the day it really was.                                                *)

Row(line) == [n |-> line.n, boot |-> d.boot, cls |-> line.cls,
              queued |-> day + skew, since |-> day]
Id(r) == [n |-> r.n, boot |-> r.boot]
Ids(q) == {Id(q[i]) : i \in DOMAIN q}

\* Mutant: plain INSERT.
MutFresh(rows) == DOMAIN rows

\* INSERT OR IGNORE.
Fresh(rows) == {k \in DOMAIN rows : Id(rows[k]) \notin Ids(queue)}

\* In one transaction.  Of the rowids only the order counts, so an ignored row may
\* use one up.
Enqueue(rows) ==
  /\ LET new == {serial + k : k \in Fresh(rows)}
     IN  queue' = [i \in DOMAIN queue \cup new |->
                     IF i \in new THEN rows[i - serial] ELSE queue[i]]
  /\ serial' = serial + Len(rows)

Where(q, rowids) == [i \in rowids |-> q[i]]
Without(q, ids) == Where(q, {i \in DOMAIN q : Id(q[i]) \notin ids})

\* A row of sync's own, by try? queue.enqueue: it is in the queue or nowhere.
EnqueueLocal(cls) ==
  /\ made' = made + 1
  /\ locals' = locals + 1
  /\ \/ /\ Enqueue(<<Row([n |-> made + 1, cls |-> cls])>>)
        /\ UNCHANGED <<dropped, faults>>
     \/ /\ Drop({made + 1})
        /\ UNCHANGED table

\* Samples, between ticks on the same queue: enqueueSamples.
TakeSample ==
  /\ d.pc = "idle" /\ locals < Locals
  /\ EnqueueLocal("sample")
  /\ UNCHANGED <<spool, clock, d, server, evicted>>

-----------------------------------------------------------------------------
(* A tick, first part: SpoolReader.drain.                                   *)

\* Rename the live file, unless there is none or the second's segment exists.
Drain ==
  /\ d.pc = "idle"
  /\ \/ /\ Live # {}
        /\ files' = [i \in DOMAIN files |->
                       IF i \in Live THEN [files[i] EXCEPT !.at = "segment"] ELSE files[i]]
     \/ /\ Live = {} \/ Segments # {}
        /\ UNCHANGED files
  /\ d' = [d EXCEPT !.pc = "drain", !.todo = {i \in DOMAIN files : files'[i].at = "segment"}]
  /\ UNCHANGED <<opened, made, locals, clock, table, server, evicted, dropped, faults>>

Oldest == CHOOSE i \in d.todo : \A j \in d.todo : i <= j

\* Mutant: the segment is unlinked although its rows were not stored.
MutAfterFailure == [d EXCEPT !.pc = "ingested"]

\* drain throws and tick goes on.
AfterFailure == [d EXCEPT !.pc = "drain", !.todo = {}]

\* parse, then one transaction.  A segment that cannot be read as text parses to no
\* rows at all, and is unlinked like any other.
Ingest ==
  /\ d.pc = "drain" /\ d.todo # {}
  /\ SlowWriters \/ \A w \in Writers : opened[w].file # Oldest
  /\ \/ /\ Enqueue([i \in DOMAIN files[Oldest].lines |-> Row(files[Oldest].lines[i])])
        /\ d' = [d EXCEPT !.pc = "ingested"]
        /\ UNCHANGED <<dropped, faults>>
     \/ /\ faults < Faults
        /\ faults' = faults + 1
        /\ d' = AfterFailure
        /\ UNCHANGED <<table, dropped>>
     \/ /\ Drop({files[Oldest].lines[i].n : i \in DOMAIN files[Oldest].lines})
        /\ d' = [d EXCEPT !.pc = "ingested"]
        /\ UNCHANGED table
  /\ UNCHANGED <<spool, made, locals, clock, server, evicted>>

Unlink ==
  /\ d.pc = "ingested"
  /\ d' = [d EXCEPT !.pc = "drain", !.todo = @ \ {Oldest}]
  /\ \/ /\ files' = [files EXCEPT ![Oldest] = [lines |-> <<>>, at |-> "gone"]]
        /\ UNCHANGED faults
     \/ /\ faults < Faults
        /\ faults' = faults + 1
        /\ UNCHANGED files
  /\ UNCHANGED <<opened, made, locals, clock, table, server, evicted, dropped>>

-----------------------------------------------------------------------------
(* Second part: QueuePolicy.plan on one census, Queue.evict.                *)

Least(a, b) == IF a <= b THEN a ELSE b
Count(q, cls) == Cardinality({i \in DOMAIN q : q[i].cls = cls})

\* Mutant: one age for both.
MutAge(cls) == SampleAge
Age(cls) == IF cls = "sample" THEN SampleAge ELSE AuditAge

TooOld == {i \in DOMAIN queue : queue[i].queued < day - Age(queue[i].cls)}

\* The k first of some rowids: ORDER BY rowid LIMIT k.
Limit(rowids, k) == {i \in rowids : Cardinality({j \in rowids : j <= i}) <= k}

\* The k oldest rows of a class that are left then.
First(cls, k) == Limit({i \in DOMAIN queue \ TooOld : queue[i].cls = cls}, k)

\* Mutant: evict down to the cap itself.
MutTarget == Cap
Target == (Cap * 95) \div 100          \* evictionHeadroom

Size(q) == Cardinality(DOMAIN q)
OverCount == IF Size(queue) > Cap THEN Size(queue) - Target ELSE 0
FromSamples == Least(Count(queue, "sample"), OverCount)
FromAudits == Least(Count(queue, "audit"), OverCount - FromSamples)

Victims == TooOld \cup First("sample", FromSamples) \cup First("audit", FromAudits)

Evict ==
  /\ d.pc = "drain" /\ d.todo = {}
  /\ LET victims == Victims
     IN  /\ queue' = Where(queue, DOMAIN queue \ victims)
         /\ evicted' = evicted \cup Ids(Where(queue, victims))
         /\ d' = [d EXCEPT !.pc = IF victims = {} THEN "flush" ELSE "receipt"]
  /\ UNCHANGED <<serial, spool, made, locals, clock, server, dropped, faults>>

\* queue.evicted, an audit event like any other.
WriteReceipt ==
  /\ d.pc = "receipt"
  /\ EnqueueLocal("audit")
  /\ d' = [d EXCEPT !.pc = "flush"]
  /\ UNCHANGED <<spool, clock, server, evicted>>

-----------------------------------------------------------------------------
(* Third part: flushEventsIfDue, POST /events.                              *)

\* The heartbeat failed, the daemon is halted, or nothing is due; or, later in
\* the loop, maxBatchesPerTick is reached.
EndTick ==
  /\ d.pc = "flush"
  /\ d' = Idle
  /\ UNCHANGED <<spool, made, locals, clock, table, server, evicted, dropped, faults>>

\* Queue.batch: the oldest rows.
Send ==
  /\ d.pc = "flush" /\ DOMAIN queue # {}
  /\ d' = [d EXCEPT !.pc = "sent", !.batch = Where(queue, Limit(DOMAIN queue, Batch))]
  /\ UNCHANGED <<spool, made, locals, clock, table, server, evicted, dropped, faults>>

Valid(batch) == Where(batch, {i \in DOMAIN batch : batch[i].n \notin Poison})
Rejected(batch) == Ids(Where(batch, {i \in DOMAIN batch : batch[i].n \in Poison}))

\* Mutant: what RETURNING gives back, the rows newly inserted.
MutAccepted(batch) == Ids(Valid(batch)) \ stored

\* accepted_event_ids: every valid id submitted.
Accepted(batch) == Ids(Valid(batch))

\* handleEvents: one INSERT ... ON CONFLICT DO NOTHING; the answer names what
\* was accepted and what was rejected for good.
Serve ==
  /\ d.pc = "sent"
  /\ stored' = stored \cup Ids(Valid(d.batch))
  /\ refused' = refused \cup Rejected(d.batch)
  /\ LET named == Accepted(d.batch) \cup Rejected(d.batch)
     IN  d' = [d EXCEPT !.pc = "answered",
                        !.batch = Where(@, {i \in DOMAIN @ : Id(@[i]) \in named})]
  /\ UNCHANGED <<spool, made, locals, clock, table, evicted, dropped, faults>>

\* Queue.acknowledge, exactly the ids the server named; then the next batch.
Acknowledge ==
  /\ d.pc = "answered"
  /\ queue' = Without(queue, Ids(d.batch)) /\ UNCHANGED serial
  /\ d' = [d EXCEPT !.pc = "flush", !.batch = NoRows]
  /\ UNCHANGED <<spool, made, locals, clock, server, evicted, dropped, faults>>

\* The batch or its answer is lost; the loop breaks.
Lose ==
  /\ d.pc \in {"sent", "answered"} /\ faults < Faults
  /\ faults' = faults + 1
  /\ d' = Idle
  /\ UNCHANGED <<spool, made, locals, clock, table, server, evicted, dropped>>

-----------------------------------------------------------------------------
(* Around the daemon.                                                       *)

\* A new process has a new bootId.
Restart ==
  /\ d.boot < Crashes
  /\ d' = [Idle EXCEPT !.boot = @ + 1]
  /\ UNCHANGED <<spool, made, locals, clock, table, server, evicted, dropped, faults>>

NewDay ==
  /\ day < Horizon
  /\ day' = day + 1
  /\ UNCHANGED <<spool, made, locals, skew, table, d, server, evicted, dropped, faults>>

\* The Mac's clock is set; trusted time is not.
SetClock ==
  /\ skew' \in Skews \ {skew}
  /\ UNCHANGED <<spool, made, locals, day, table, d, server, evicted, dropped, faults>>

-----------------------------------------------------------------------------
Init ==
  /\ files = <<>>
  /\ opened = [w \in Writers |-> Closed]
  /\ made = 0 /\ locals = 0
  /\ day = 0 /\ skew = 0
  /\ queue = NoRows /\ serial = 0
  /\ d = [pc |-> "idle", todo |-> {}, batch |-> NoRows, boot |-> 0]
  /\ stored = {} /\ refused = {} /\ evicted = {} /\ dropped = {}
  /\ faults = 0

Writing == \E w \in Writers : OpenToWrite(w) \/ FinishWrite(w)

Tick == Drain \/ Ingest \/ Unlink \/ Evict \/ WriteReceipt \/ EndTick \/ Acknowledge

Next ==
  \/ Writing \/ TakeSample
  \/ Tick \/ Send \/ Serve \/ Lose
  \/ Restart \/ NewDay \/ SetClock

Spec == Init /\ [][Next]_vars

\* Writers finish, the daemon keeps ticking, the server answers; a tick may skip the flush,
\* but not for ever when there is something to send.
Fairness ==
  /\ \A w \in Writers : WF_vars(FinishWrite(w))
  /\ WF_vars(Tick \/ Serve) /\ SF_vars(Send)
FairSpec == Spec /\ Fairness

-----------------------------------------------------------------------------
(* Properties.                                                              *)

Events == 1..made
InFiles == {n \in Events : \E i \in Live \cup Segments : \E k \in DOMAIN files[i].lines :
                              files[i].lines[k].n = n}
BeingWritten == {opened[w].line.n : w \in Writers}
Numbers(ids) == {x.n : x \in ids}

TypeOK ==
  /\ Cardinality(Live) <= 1
  /\ \A i \in Live \cup Segments : files[i].lines # <<>>
  /\ \A i, j \in DOMAIN queue : Id(queue[i]) = Id(queue[j]) => i = j
  /\ d.pc \in {"idle", "drain", "ingested", "receipt", "flush", "sent", "answered"}
  /\ d.todo \subseteq Segments /\ Ids(d.batch) \subseteq Ids(queue)
  /\ made \in Nat /\ locals \in 0..made /\ skew \in Skews

\* SpoolReader.swift:25-26: "There is no interleaving that drops a line", and
\* Queue.swift:186-187: "Nothing else is ever removed by a successful sync."
\* Every event is still on its way, stored, rejected for good or evicted, or went with
\* an error that is swallowed: a line that could not be written, a segment that could
\* not be read, a row of the daemon's own that could not be queued. No order of the
\* steps, no restart, no failure to queue or to unlink a segment and no lost batch or
\* answer loses one.
NothingLost ==
  Events \subseteq InFiles \cup BeingWritten \cup dropped
                   \cup Numbers(Ids(queue) \cup stored \cup refused \cup evicted)

\* The queue and the files are well formed - no id is queued twice, no batch holds
\* what has left the queue - and no event is lost but by an error nobody hears of.
Kept == TypeOK /\ NothingLost

\* EventID.swift:37-49, "drains its queue without duplicating or losing events
\* true across a crash": the server never stores one event under two ids.
StoredOnce == \A x, y \in stored : x.n = y.n => x = y

\* QueuePolicy.swift:33-40: evicting makes room for its own receipt, so a trimmed
\* queue needs no second trimming.
EvictionSettles ==
  [][(Evict \/ WriteReceipt) /\ d'.pc = "flush" => Size(queue') <= Cap]_vars

\* QueuePolicy.swift:13-20, ADR 0015:48-51: an enforcement record is evicted only
\* when it has waited longer than its retention in real days, or no sample is left.
AuditsLast ==
  [][Evict => \A i \in DOMAIN queue :
       queue[i].cls = "audit" /\ Id(queue[i]) \notin Ids(queue') =>
         day - queue[i].since > AuditAge \/ Count(queue', "sample") = 0]_vars

\* Eviction takes no more than it must, the least valuable first, and is then done.
EvictsRightly == EvictionSettles /\ AuditsLast

\* events.ts:205-211: "the agent re-sends, the server accepts, nothing errors, and
\* the queue never drains" must not happen: again and again there is nothing left
\* on the Mac, so that what is written before the bounds are reached all leaves it.
Waiting == InFiles \cup {n \in BeingWritten : n # 0} \cup Numbers(Ids(queue))
Drains == []<>(Waiting = {})
=============================================================================
