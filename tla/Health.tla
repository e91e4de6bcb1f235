-------------------------------- MODULE Health --------------------------------
(***************************************************************************)
(* What the server concludes from a Mac's check-ins (apps/api/src): each   *)
(* POST /sync records observations and explains a silence that has ended   *)
(* (routes/sync.ts); once a minute the liveness job judges the device,     *)
(* keeps its state as intervals, notifies, and afterwards rewrites a       *)
(* silence that a boot explains (jobs/liveness.ts).  A check-in is handled *)
(* in statements that another may interleave with, a judgement too, and a  *)
(* restart of the API may cut either short.                                *)
(*                                                                         *)
(* One device; one unit of time is three minutes.  The Mac's power, network*)
(* and agent are here too, so that the verdicts can be held against what   *)
(* happened.  Uptime counts awake time only, and the boot time a Mac       *)
(* reports is now - uptime.                                                *)
(* Operators called Mut... are mistakes the properties must catch.         *)
(***************************************************************************)
EXTENDS Integers, Sequences, FiniteSets, FiniteSetsExt, Bags

CONSTANTS
  HealthyFor,   \* HEALTHY_WITHIN_MS
  Unexpected,   \* UNEXPECTED_SILENCE_MS
  TooLong,      \* SILENT_TOO_LONG_MS
  NotifyAfter,  \* SILENCE_NOTIFY_AFTER_MS
  DegradedFor,  \* DEGRADED_EVALUATIONS_BEFORE_NOTIFY
  StopSlack,    \* stoppedCleanly's five minutes
  GapMin,       \* GAP_MIN_S
  AsleepMin,    \* ASLEEP_MIN_S
  Online,       \* the times inside an expected_online window
  AwayFor,      \* how long a parent may mark the Mac away
  InFlight,     \* bound: check-ins handled at once
  Events,       \* bound: changes of the Mac, with a parent's mark or a restart of the API for two
  Horizon       \* bound: time modelled

ASSUME HealthAssumption ==
  /\ {HealthyFor, NotifyAfter, GapMin, AsleepMin, InFlight} \subseteq Nat \ {0}
  /\ {DegradedFor, StopSlack, Events, Horizon} \subseteq Nat
  /\ Unexpected \in Nat /\ TooLong \in Nat /\ HealthyFor < Unexpected /\ Unexpected < TooLong
  /\ Online \subseteq 0 .. Horizon /\ AwayFor \subseteq Nat \ {0}

VARIABLES
  now,
  power, reach, \* the Mac: on, asleep or off; whether the server can be reached
  up,           \* its uptime
  bad,          \* whether its agent reports itself impaired
  run,          \* whether enforcerd runs
  evs,          \* agent.stopping and agent.started in the order they happened: [kind, at],
                \* at the time the server got it
  row,          \* devices: last_sync_at, last_uptime_s, system_boot_time, self_reported_reason,
                \* away_until, health_state, health_since
  intervals,    \* agent_status_intervals
  logged,       \* enforcement_log: a bag of power_on, asleep and unreported rows
  handlers,     \* check-ins being handled
  sweep,        \* the liveness job
  api,          \* whether the API runs
  swept,        \* whether the job has run in this unit
  left,         \* events left
  past,         \* history: the Mac's power in each unit gone by
  boots,        \* history: when it was started
  synced,       \* history: when a check-in was written
  overlapped,   \* history: two check-ins were handled at once, or one was cut short
  cut,          \* history: a transition was cut short and none has completed since
  outages,      \* history: when the API was down
  marked        \* history: when a parent last marked the Mac away

job == <<sweep, swept>>
mac == <<power, reach, up, bad, run>>
hist == <<past, boots, synced, overlapped, cut, outages, marked>>
vars == <<now, mac, evs, row, intervals, logged, handlers, job, api, left, hist>>

Never == -1
NoCall == [up |-> Never]
Idle == [step |-> "idle"]
Silence == {"UNEXPECTED_SILENCE", "SILENT_TOO_LONG"}
Spend(n) == left >= n /\ left' = left - n
\* What happens on the Mac within a unit happens at its start.
Early == ~swept /\ row.seen < now /\ \A h \in DOMAIN handlers : handlers[h] = NoCall

-----------------------------------------------------------------------------
(* The Mac.                                                                 *)

Spool(kinds) == evs' = evs \o [i \in 1 .. Len(kinds) |-> [kind |-> kinds[i], at |-> Never]]

\* Started after a unit or more.
Boot ==
  /\ Early /\ power = "off" /\ now > 0 /\ past[now] = "off" /\ Spend(1)
  /\ power' = "on" /\ up' = 0 /\ run' = TRUE /\ Spool(<<"start">>)
  /\ boots' = boots \cup {now}
  /\ UNCHANGED <<now, reach, bad, row, intervals, logged, handlers, job, api,
                 past, synced, overlapped, cut, outages, marked>>

\* Off, after SIGTERM stopped the agent (StopAgent) or without it.
PowerOff ==
  /\ Early /\ power = "on" /\ Spend(1)
  /\ power' = "off" /\ run' = FALSE
  /\ UNCHANGED <<now, reach, up, bad, evs, row, intervals, logged, handlers, job, api, hist>>

SleepOrWake ==
  /\ Early /\ power # "off" /\ Spend(1)
  /\ power' = IF power = "on" THEN "asleep" ELSE "on"
  /\ UNCHANGED <<now, reach, up, bad, run, evs, row, intervals, logged, handlers, job, api, hist>>

Network ==
  /\ Early /\ power = "on" /\ Spend(1) /\ reach' = ~reach
  /\ UNCHANGED <<now, power, up, bad, run, evs, row, intervals, logged, handlers, job, api, hist>>

Trouble ==
  /\ Early /\ power = "on" /\ Spend(1) /\ bad' = ~bad
  /\ UNCHANGED <<now, power, reach, up, run, evs, row, intervals, logged, handlers, job, api, hist>>

StopAgent ==
  /\ Early /\ power = "on" /\ run /\ Spend(1)
  /\ run' = FALSE /\ Spool(<<"stop">>)
  /\ UNCHANGED <<now, power, reach, up, bad, row, intervals, logged, handlers, job, api, hist>>

\* launchd's KeepAlive.
StartAgent ==
  /\ Early /\ power = "on" /\ ~run
  /\ run' = TRUE /\ Spool(<<"start">>)
  /\ UNCHANGED <<now, power, reach, up, bad, row, intervals, logged, handlers, job, api, left, hist>>

\* POST /events: the spool's prefix in one batch, after a heartbeat that was answered.
Deliver ==
  /\ power = "on" /\ reach /\ api /\ row.seen = now
  /\ \E i \in DOMAIN evs : evs[i].at = Never
  /\ evs' = [i \in DOMAIN evs |-> IF evs[i].at = Never THEN [evs[i] EXCEPT !.at = now] ELSE evs[i]]
  /\ UNCHANGED <<now, mac, row, intervals, logged, handlers, job, api, left, hist>>

-----------------------------------------------------------------------------
(* POST /sync.                                                              *)

Rebooted(c) == c.wasUp # Never /\ c.up < c.wasUp

MutPowerOn(c) ==                                       \* any new boot time is a boot
  IF c.wasUp # Never /\ c.boot # row.boot
  THEN {[kind |-> "power_on", at |-> c.boot, to |-> c.boot, gap |-> 0]} ELSE {}

\* recordPowerOn: uptime fell.
PowerOn(c) ==
  IF Rebooted(c) THEN {[kind |-> "power_on", at |-> c.boot, to |-> c.boot, gap |-> 0]} ELSE {}

MutGap(c) ==                                           \* a reboot is not looked for
  LET wall == now - c.wasSeen
  IN  IF c.wasUp = Never \/ c.wasSeen = Never \/ wall < GapMin THEN {}
      ELSE {[kind |-> "asleep", at |-> c.wasSeen, to |-> now + c.wasUp - c.up, gap |-> wall]}

\* recordGap: wall time not matched by uptime was spent asleep.
Gap(c) ==
  LET wall == now - c.wasSeen
      slept == Max({0, wall - Max({0, c.up - c.wasUp})})
  IN  IF c.wasUp = Never \/ c.wasSeen = Never \/ Rebooted(c) \/ wall < GapMin THEN {}
      ELSE {[kind |-> IF slept >= AsleepMin THEN "asleep" ELSE "unreported", at |-> c.wasSeen,
             to |-> c.wasSeen + (IF slept >= AsleepMin THEN slept ELSE wall), gap |-> wall]}

Call == [up |-> up, boot |-> now - up, bad |-> bad, wasUp |-> row.up, wasSeen |-> row.seen]

\* The device is read, and rows are inserted by that reading; another check-in
\* may do the same before this one is written.  Handlers are alike: the first free one.
SyncRecord(h) ==
  /\ api /\ power = "on" /\ reach /\ row.seen < now
  /\ handlers[h] = NoCall /\ \A g \in 1 .. h - 1 : handlers[g] # NoCall
  /\ logged' = logged (+) SetToBag(PowerOn(Call) \cup Gap(Call))
  /\ handlers' = [handlers EXCEPT ![h] = Call]
  /\ overlapped' = (overlapped \/ \E g \in DOMAIN handlers : handlers[g] # NoCall)
  /\ UNCHANGED <<now, mac, evs, row, intervals, job, api, left,
                 past, boots, synced, cut, outages, marked>>

SyncUpdate(h) ==
  /\ handlers[h] # NoCall
  /\ row' = [row EXCEPT !.seen = now, !.up = handlers[h].up, !.boot = handlers[h].boot,
                        !.bad = handlers[h].bad]
  /\ synced' = synced \cup {now}
  /\ handlers' = [handlers EXCEPT ![h] = NoCall]
  /\ UNCHANGED <<now, mac, evs, intervals, logged, job, api, left,
                 past, boots, overlapped, cut, outages, marked>>

\* POST /devices/:id/away
Away(d) ==
  /\ api /\ Spend(2)
  /\ row' = [row EXCEPT !.away = now + d]
  /\ marked' = now
  /\ UNCHANGED <<now, mac, evs, intervals, logged, handlers, job, api,
                 past, boots, synced, overlapped, cut, outages>>

-----------------------------------------------------------------------------
(* The liveness job.                                                        *)

MutStoppedCleanly(seen) ==                             \* a restart does not end the excuse
  \E i \in DOMAIN evs : evs[i].kind = "stop" /\ evs[i].at # Never /\ evs[i].at >= seen - StopSlack

\* The last stop received since just before the last check-in, unless a start
\* that followed it was received as well.
StoppedCleanly(seen) ==
  LET got(k) == {i \in DOMAIN evs : evs[i].kind = k /\ evs[i].at # Never}
      stops == {i \in got("stop") : evs[i].at >= seen - StopSlack}
  IN  stops # {} /\ \A i \in got("start") : i < Max(stops)

\* isInsideExpectedOnline: a policy set without such windows is always inside one.
ExpectedOnline == now \in Online

\* decide: in this order of precedence.
Verdict(r) ==
  LET silent == now - r.seen
  IN  IF r.seen = Never THEN "UNENROLLED"
      ELSE IF r.away > now THEN "EXPECTED_OFFLINE"
      ELSE IF silent <= HealthyFor THEN (IF r.bad THEN "DEGRADED" ELSE "HEALTHY")
      ELSE IF silent >= TooLong THEN "SILENT_TOO_LONG"
      ELSE IF StoppedCleanly(r.seen) \/ ~ExpectedOnline THEN "EXPECTED_OFFLINE"
      ELSE IF silent >= Unexpected THEN "UNEXPECTED_SILENCE"
      ELSE r.health

MutOpen == {i \in intervals : i.out = Never /\ i.told = Never}   \* a told one is left open

Open == {i \in intervals : i.out = Never}
Latest(S) == {i \in S : \A j \in S : j.in <= i.in}

MutDue(state, i) == state \in Silence                   \* amber at once

\* Whether a state has lasted long enough for somebody to be told.
Due(state, i) ==
  \/ state = "DEGRADED" /\ now - i.in >= DegradedFor
  \/ state = "UNEXPECTED_SILENCE" /\ ExpectedOnline /\ now - i.in >= NotifyAfter
  \/ state = "SILENT_TOO_LONG"

MutExplained(b) ==                                     \* any silence the boot time is not after
  {i \in intervals : i.was = "NULL" /\ i.state \in Silence /\ i.out # Never /\ b <= i.out}

\* A closed silence that the reported boot time lies in.
Explained(b) ==
  {i \in intervals : /\ i.was = "NULL" /\ i.state \in Silence /\ i.out # Never
                     /\ b # Never /\ i.in < b /\ b <= i.out}

\* maybeNotify, then reclassifyIfMachineWasOff, to one interval and to all.
Review(i, state, boot) ==
  IF i \in Latest(Open) /\ i.told = Never /\ Due(state, i) THEN [i EXCEPT !.told = now]
  ELSE IF i \in Latest(Explained(boot)) THEN [i EXCEPT !.state = "EXPECTED_OFFLINE", !.was = i.state]
  ELSE i

Reviewed(state, boot) == {Review(i, state, boot) : i \in intervals}

\* The device is read and judged, and the open interval closed if its state
\* changes (transition's first statement); the device may change while the rest
\* is written.
Judge ==
  /\ api /\ sweep = Idle /\ ~swept /\ swept' = TRUE
  /\ LET state == Verdict(row)
     IN  IF state = row.health
         THEN intervals' = Reviewed(state, row.boot) /\ sweep' = Idle
         ELSE /\ intervals' = {IF i \in Open THEN [i EXCEPT !.out = now] ELSE i : i \in intervals}
              /\ sweep' = [step |-> "open", state |-> state, boot |-> row.boot]
  /\ UNCHANGED <<now, mac, evs, row, logged, handlers, api, left, hist>>

OpenInterval ==
  /\ sweep.step = "open"
  /\ intervals' = intervals \cup
       {[state |-> sweep.state, in |-> now, out |-> Never, told |-> Never, was |-> "NULL"]}
  /\ sweep' = [sweep EXCEPT !.step = "device"]
  /\ UNCHANGED <<now, mac, evs, row, logged, handlers, swept, api, left, hist>>

WriteDevice ==
  /\ sweep.step = "device"
  /\ row' = [row EXCEPT !.health = sweep.state, !.since = now]
  /\ cut' = FALSE
  /\ sweep' = [sweep EXCEPT !.step = "finish"]
  /\ UNCHANGED <<now, mac, evs, intervals, logged, handlers, swept, api, left,
                 past, boots, synced, overlapped, outages, marked>>

Finish ==
  /\ sweep.step = "finish"
  /\ intervals' = Reviewed(sweep.state, sweep.boot)
  /\ sweep' = Idle
  /\ UNCHANGED <<now, mac, evs, row, logged, handlers, swept, api, left, hist>>

Sweep == Judge \/ OpenInterval \/ WriteDevice \/ Finish

-----------------------------------------------------------------------------
(* Time and restarts of the API.                                            *)

Crash ==
  /\ api /\ Spend(2)
  /\ api' = FALSE
  /\ cut' = (cut \/ sweep.step \in {"open", "device"})
  /\ overlapped' = (overlapped \/ \E h \in DOMAIN handlers : handlers[h] # NoCall)
  /\ sweep' = Idle /\ handlers' = [h \in DOMAIN handlers |-> NoCall]
  /\ outages' = outages \cup {now}
  /\ UNCHANGED <<now, mac, evs, row, intervals, logged, swept, past, boots, synced, marked>>

\* The liveness job runs on start.
Recover ==
  /\ ~api /\ api' = TRUE
  /\ swept' = FALSE
  /\ UNCHANGED <<now, mac, evs, row, intervals, logged, handlers, sweep, left, hist>>

\* Three minutes: the job and the check-ins that were due have been.
Tick ==
  /\ now < Horizon
  /\ sweep = Idle /\ \A h \in DOMAIN handlers : handlers[h] = NoCall
  /\ api => swept
  /\ api /\ power = "on" /\ reach => row.seen = now /\ \A i \in DOMAIN evs : evs[i].at # Never
  /\ now' = now + 1
  /\ up' = IF power = "on" THEN up + 1 ELSE up
  /\ past' = Append(past, power)
  /\ outages' = IF api THEN outages ELSE outages \cup {now, now + 1}
  /\ swept' = FALSE
  /\ UNCHANGED <<power, reach, bad, run, evs, row, intervals, logged, handlers, sweep, api, left,
                 boots, synced, overlapped, cut, marked>>

Init ==
  /\ now = 0 /\ power = "on" /\ reach = TRUE /\ up = 0 /\ bad = FALSE /\ run = TRUE
  /\ evs = <<>>
  /\ row = [seen |-> Never, up |-> Never, boot |-> Never, bad |-> FALSE, away |-> Never,
            health |-> "UNENROLLED", since |-> Never]
  /\ intervals = {} /\ logged = EmptyBag /\ sweep = Idle /\ api = TRUE
  /\ handlers = [h \in 1 .. InFlight |-> NoCall]
  /\ left = Events /\ swept = FALSE
  /\ past = <<>> /\ boots = {0} /\ synced = {} /\ overlapped = FALSE /\ cut = FALSE /\ outages = {}
  /\ marked = Never

Next ==
  \/ Boot \/ PowerOff \/ SleepOrWake \/ Network \/ Trouble \/ StopAgent \/ StartAgent \/ Deliver
  \/ \E h \in DOMAIN handlers : SyncRecord(h) \/ SyncUpdate(h)
  \/ \E d \in AwayFor : Away(d)
  \/ Sweep \/ Crash \/ Recover \/ Tick

Spec == Init /\ [][Next]_vars

-----------------------------------------------------------------------------
(* Properties.                                                              *)

States == Silence \cup {"UNENROLLED", "HEALTHY", "DEGRADED", "EXPECTED_OFFLINE"}
Time == 0 .. Horizon
Asleep(a, b) == Cardinality({t \in a .. b - 1 : past[t + 1] = "asleep"})
BootsIn(a, b) == {t \in boots : a < t /\ t <= b}

TypeOK ==
  /\ now \in Time /\ power \in {"on", "asleep", "off"} /\ up \in Time
  /\ {reach, bad, run, api, overlapped, cut} \subseteq BOOLEAN
  /\ \A i \in DOMAIN evs : evs[i] \in [kind : {"start", "stop"}, at : Time \cup {Never}]
  /\ row.seen \in synced \cup {Never} /\ row.health \in States
  /\ intervals \subseteq [state : States, in : Time, out : Time \cup {Never}, told : Time \cup {Never},
                          was : {"NULL"} \cup Silence]
  /\ sweep.step \in {"idle", "open", "device", "finish"}
  /\ \A r \in BagToSet(logged) : r.kind \in {"power_on", "asleep", "unreported"} /\ r.to \in r.at .. r.at + r.gap
  /\ \A h \in DOMAIN handlers : handlers[h].up \in Time \cup {Never}

\* "One row per state change": the intervals of a device never overlap, at most
\* one is open, and between two sweeps it is the state the device row shows,
\* since the same moment, unless a restart fell inside the last transition
\* (jobs/liveness.ts, transition).
OneStory ==
  /\ Cardinality(Open) <= 1
  /\ \A i, j \in intervals : i # j => \/ i.out # Never /\ i.out <= j.in
                                      \/ j.out # Never /\ j.out <= i.in
  /\ sweep.step = "idle" /\ ~cut =>
       {<<i.state, i.in>> : i \in Open} =
         IF row.health = "UNENROLLED" THEN {} ELSE {<<row.health, row.since>>}

\* A silence is told only when no check-in was written from ten minutes before it
\* began until it was told, an hour later or 36 hours into the silence, nobody
\* had marked the Mac away, and for an unexpected silence the Mac was expected
\* to be on: a restart of macOS, or of the API, buzzes no phone (maybeNotify).
ToldIsSilent ==
  \A i \in intervals : i.told # Never /\ (i.state \in Silence \/ i.was \in Silence) =>
    /\ i.told \notin marked + 1 .. row.away - 1
    /\ \/ \E t \in outages : i.in <= t /\ t <= i.told
       \/ i.told \in synced     \* written while that sweep ran
       \/ /\ \A t \in synced : t \notin i.in - Unexpected + 1 .. i.told
          /\ "UNEXPECTED_SILENCE" \in {i.state, i.was} => i.told - i.in >= NotifyAfter /\ i.told \in Online
          /\ "SILENT_TOO_LONG" \in {i.state, i.was} =>
               \A t \in synced : t \notin i.told - TooLong + 1 .. i.told

\* Awake since the last boot.
Uptime(t) ==
  LET b == Max({x \in boots : x <= t}) IN Cardinality({u \in b .. t - 1 : past[u + 1] = "on"})

Rows(kind) == {r \in BagToSet(logged) : r.kind = kind}
Following(a, b) == a < b /\ ~\E c \in synced : a < c /\ c < b

\* What the server wrote between two check-ins is what the Mac did (ADR 0014).
\* A power-on is a boot, later by no more than the Mac has slept since; between
\* two check-ins with no boot, a gap is told as sleep, of that length, or as
\* silence while it slept too little to tell, and no long one is left out; a boot
\* is found if the Mac has been awake for less than before; and unless two
\* check-ins were handled at once, or one cut short, nothing is told twice
\* (recordPowerOn, recordGap).
ToldAsItWas ==
  /\ \A r \in Rows("power_on") : \E b \in boots \ {0} : r.at - Asleep(b, now) <= b /\ b <= r.at
  /\ \A r \in Rows("asleep") \cup Rows("unreported") :
       BootsIn(r.at, r.at + r.gap) = {} =>
         IF r.kind = "asleep" THEN Asleep(r.at, r.at + r.gap) = r.to - r.at
         ELSE Asleep(r.at, r.at + r.gap) < AsleepMin
  /\ \A a, b \in synced : Following(a, b) =>
       IF BootsIn(a, b) = {}
       THEN b - a >= GapMin => \E r \in Rows("asleep") \cup Rows("unreported") : r.at = a /\ a + r.gap = b
       ELSE Uptime(b) < Uptime(a) => \E r \in Rows("power_on") : r.at = b - Uptime(b)
  /\ overlapped \/ \A r \in DOMAIN logged : logged[r] = 1

Settled == sweep.step = "idle" /\ swept

\* "Off vs broken, with no probe": a Mac that never slept has a silence rewritten
\* as "the machine was off" when it was started in it, and only then
\* (reclassifyIfMachineWasOff).
OffIsOff ==
  "asleep" \notin {past[t] : t \in DOMAIN past} =>
    /\ \A i \in intervals : i.was # "NULL" => BootsIn(i.in, i.out) # {}
    /\ Settled /\ outages = {} =>
         ~\E i \in intervals : /\ i.state \in Silence /\ i.out # Never
                               /\ Max(boots) \in BootsIn(i.in, i.out)
                               /\ \E t \in synced : Max(boots) <= t /\ t < now

\* Everything well formed, and everything told a parent true: what buzzed the phone,
\* what the log says of a gap, what a silence was rewritten as.
ToldTruly == TypeOK /\ ToldIsSilent /\ ToldAsItWas /\ OffIsOff

BackUp(i, t) ==
  \E j \in DOMAIN evs : i < j /\ evs[j].kind = "start" /\ evs[j].at # Never /\ evs[j].at <= t

\* A Mac that is silent while it should be on is told of in time: an hour after
\* the ten minutes, or at 36 hours wherever it should be, unless a parent marked
\* it away, and a stop the agent came back from excuses nothing (decide,
\* maybeNotify).
NoticedInTime ==
  LET quiet == now - row.seen
      armed == row.seen + Unexpected
      excused == \E i \in DOMAIN evs : evs[i].kind = "stop" /\ evs[i].at # Never /\ ~BackUp(i, armed)
  IN  /\ Settled /\ api /\ outages = {} /\ row.seen # Never /\ row.away <= armed
      /\ \/ quiet >= TooLong
         \/ quiet >= Unexpected + NotifyAfter /\ armed .. now \subseteq Online /\ ~excused
      => \E i \in Open : i.state \in Silence /\ i.told # Never

(* What the comments say and the code does not do (MCHealthClaims.cfg).      *)

\* "A reboot inside the gap is recordPowerOn's, not this" (sync.ts): it is told
\* as sleep if the Mac was awake for longer since than before.
RebootIsNotSleep ==
  \A r \in Rows("asleep") \cup Rows("unreported") : BootsIn(r.at, r.at + r.gap) = {}

\* "The Mac was simply off" (liveness.ts): a Mac that only slept reports a boot
\* time that has moved into the silence.
MachineWasOff == \A i \in intervals : i.was # "NULL" => BootsIn(i.in, i.out) # {}

\* "Do not arm at the start of a window: require one HEALTHY observation inside
\* the CURRENT window first" (liveness.ts, decide): nothing requires it.
NotArmedAtStart ==
  row.health = "UNEXPECTED_SILENCE" /\ ~cut /\ sweep = Idle /\ swept => row.seen .. now \subseteq Online
=============================================================================
