-------------------------------- MODULE History --------------------------------
(***************************************************************************)
(* What the parent reads of a Mac (apps/api/src/lib/history.ts).  The Mac's*)
(* life leaves rows in enforcement_log: the agent's own, which arrive when *)
(* a check-in delivers them, and the server's power_on and unreported      *)
(* rows.  Presented turns rows into lines, page by page.                   *)
(*                                                                         *)
(* One Mac; one action per unit of trusted time, so rows of one instant are*)
(* the parts of one stop.  One night: enforced, then watched.  Rows carry  *)
(* trusted time, and two readings of when a boot was: the kernel's, which  *)
(* moves with the clock a child sets, and the server's, which a sleep      *)
(* moves.  The rows the code only words (network_time_off,                 *)
(* timezone_changed, asleep, other kinds) are left out, and launches of    *)
(* agents older than 0.2.0, which say no boot time.  Operators called      *)
(* Mut... are mistakes the properties catch.                               *)
(***************************************************************************)
EXTENDS Integers, Sequences, FiniteSets

CONSTANTS
  BedFrom, BedUntil, \* the enforced phase of the night
  WatchUntil,        \* and the watch phase after it
  Due,               \* enforcedFrom, the grace and BEDTIME_USE_SLACK_MS
  StopEpisode,       \* STOP_EPISODE_MS
  BootLaunch,        \* BOOT_LAUNCH_MS
  SameBoot,          \* SAME_BOOT_MS
  BootRows,          \* the rows a page looks back for the last boot
  ClockIncident,     \* CLOCK_INCIDENT_MS
  GapProbe,          \* GAP_PROBE_MS
  GapMin,            \* GAP_MIN_S: the silence sync.ts records
  AsleepMin,         \* ASLEEP_MIN_S: the sleep that explains one
  Offsets,           \* errors a child gives the clock
  Versions,          \* policy versions
  Hidden,            \* those the nightly recompilation made
  Often,             \* bound: how often each thing may happen, by name
  Horizon            \* bound: the last instant

ASSUME HistoryAssumption ==
  /\ {BedFrom, BedUntil, WatchUntil, Due, StopEpisode, BootLaunch, ClockIncident, Horizon}
       \subseteq Nat
  /\ BedFrom <= Due /\ Due <= BedUntil /\ BedUntil <= WatchUntil
  /\ {GapProbe, GapMin, AsleepMin, SameBoot, BootRows} \subseteq Nat \ {0}
  /\ Offsets \subseteq Int \ {0}
  /\ Versions \subseteq Nat \ {0} /\ 1 \in Versions /\ Hidden \subseteq Versions \ {1}

VARIABLES
  now,   \* trusted time
  mac,   \* [on, boot, slept, up, unlocked, installed, error, measured, version]
  queue, \* rows the Mac has not delivered
  log,   \* enforcement_log: [kind, at, val]
  spans, \* session_spans of kind awake or active: [from, to]
  known, \* the server's devices row: [uptime, at] of the last check-in
  life   \* history: what really happened, [what, at]

vars == <<now, mac, queue, log, spans, known, life>>

None == -1
Time == 0 .. Horizon
Row(kind, at, val) == [kind |-> kind, at |-> at, val |-> val]
Stops(at) == {Row("agent_stopping", at, d) : d \in {0, 1}} \* the enforcer's and sync's
Did(what) == {e.at : e \in {f \in life : f.what = what}}
Happens(what) == /\ now < Horizon
                 /\ Cardinality(Did(what)) < Often[what]
                 /\ now' = now + 1
                 /\ life' = life \cup {[what |-> what, at |-> now + 1]}

-----------------------------------------------------------------------------
(* The Mac.                                                                 *)

\* Registered at 2, in the boot at 0, before it ever checked in.
Init ==
  /\ now = 2
  /\ mac = [on |-> TRUE, boot |-> 0, slept |-> 0, up |-> TRUE, unlocked |-> FALSE, installed |-> TRUE,
            error |-> 0, measured |-> 0, version |-> 0]
  /\ queue = {Row("agent_started", 1, 0), Row("registered", 2, 0)}
  /\ log = {} /\ spans = {}
  /\ known = [uptime |-> None, at |-> None]
  /\ life = {[what |-> "launch", at |-> 1]}

MutClosed(at) == {[s EXCEPT !.to = at] : s \in spans}  \* every span, not the open one

\* A transition of the session ends the span before it.
Closed(at) == {IF s.to = None THEN [s EXCEPT !.to = at] ELSE s : s \in spans}

Boot ==
  /\ ~mac.on /\ Happens("boot")
  /\ mac' = [mac EXCEPT !.on = TRUE, !.boot = now', !.slept = 0, !.up = FALSE]
  /\ UNCHANGED <<queue, log, spans, known>>

\* The enforcer's first row, with kern.boottime, which moves with the clock; and
\* the sampler's first look: nobody is logged in.
Launch ==
  /\ mac.on /\ mac.installed /\ ~mac.up /\ Happens("launch")
  /\ mac' = [mac EXCEPT !.up = TRUE]
  /\ queue' = queue \cup {Row("agent_started", now', mac.boot + mac.error)}
  /\ spans' = IF mac.unlocked THEN spans ELSE Closed(now')
  /\ UNCHANGED <<log, known>>

\* The Mac goes off: shut down, by a hand or by the enforcer, or cut off.
GoOff(rows, seen) ==
  /\ mac' = [mac EXCEPT !.on = FALSE, !.up = FALSE, !.unlocked = FALSE]
  /\ queue' = queue \cup rows
  /\ spans' = IF seen THEN Closed(now') ELSE spans
  /\ UNCHANGED <<log, known>>

\* Sync may be gone before it saw the session end.
ShutDown ==
  /\ mac.on /\ Happens("off")
  /\ \E seen \in IF mac.up THEN BOOLEAN ELSE {FALSE} :
       GoOff(IF mac.up THEN Stops(now') ELSE {}, seen)

Bedtime ==
  /\ mac.up /\ now + 1 \in BedFrom .. BedUntil - 1 /\ Happens("bedtime")
  /\ \E seen \in BOOLEAN : GoOff(Stops(now') \cup {Row("action_taken", now', 0)}, seen)

PowerCut == mac.on /\ Happens("cut") /\ GoOff({}, FALSE)

\* launchd restarts the daemons, an upgrade or an uninstall stops them.
StopAgents(what) ==
  /\ mac.on /\ mac.up /\ Happens(what)
  /\ mac' = [mac EXCEPT !.up = FALSE, !.installed = (what # "remove")]
  /\ queue' = IF what = "remove" THEN {} ELSE queue \cup Stops(now')
  \* an uninstall's last rows may or may not be delivered
  /\ log' \in IF what = "remove" THEN {log, log \cup queue \cup Stops(now')} ELSE {log}
  /\ UNCHANGED <<spans, known>>

\* Sync alone: it says that it stops and not that it starts.
RestartSync ==
  /\ mac.on /\ mac.up /\ Happens("sync")
  /\ queue' = queue \cup {Row("agent_stopping", now', 1)}
  /\ UNCHANGED <<mac, log, spans, known>>

Unlock ==
  /\ mac.on /\ mac.up /\ ~mac.unlocked /\ Happens("unlock")
  /\ mac' = [mac EXCEPT !.unlocked = TRUE]
  /\ spans' = spans \cup {[from |-> now', to |-> None]}
  /\ queue' = queue \cup {Row("session_unlocked", now', 0)}
  /\ UNCHANGED <<log, known>>

Lock ==
  /\ mac.on /\ mac.up /\ mac.unlocked /\ Happens("lock")
  /\ mac' = [mac EXCEPT !.unlocked = FALSE]
  /\ spans' = Closed(now')
  /\ UNCHANGED <<queue, log, known>>

SetClock(o) ==
  /\ mac.on /\ mac.error # o /\ Happens(IF o = 0 THEN "undo" ELSE "trick")
  /\ mac' = [mac EXCEPT !.error = o]
  /\ UNCHANGED <<queue, log, spans, known>>

\* The enforcer's tick: one row per change of the clock's error.
Measure ==
  /\ mac.up /\ mac.error # mac.measured /\ Happens("measure")
  /\ mac' = [mac EXCEPT !.measured = mac.error]
  /\ queue' = queue \cup {Row("clock_stepped", now', mac.error)}
  /\ UNCHANGED <<log, spans, known>>

\* Sync puts the clock right, before or after the enforcer measured it.
Correct ==
  /\ mac.up /\ mac.error # 0 /\ Happens("correct")
  /\ mac' = [mac EXCEPT !.error = 0]
  /\ queue' = queue \cup {Row("clock_corrected", now', mac.error)}
  /\ UNCHANGED <<log, spans, known>>

\* A version arrives, or the one in force is applied again.
Apply(v) ==
  /\ mac.up /\ v \in {mac.version, mac.version + 1} /\ Happens("apply")
  /\ mac' = [mac EXCEPT !.version = v]
  /\ queue' = queue \cup {Row("policy_applied", now', v)}
  /\ UNCHANGED <<log, spans, known>>

\* A Mac in use locks before it sleeps; its uptime stands still meanwhile.
Sleep ==
  /\ mac.on /\ ~mac.unlocked /\ Happens("sleep")
  /\ mac' = [mac EXCEPT !.slept = @ + 1]
  /\ UNCHANGED <<queue, log, spans, known>>

\* recordPowerOn and recordGap, which know a boot by the uptime having dropped and
\* its moment as the trusted time less the uptime; and the queue after them.
CheckIn ==
  /\ mac.up /\ Happens("checkin")
  /\ LET uptime == now' - mac.boot - mac.slept
         dropped == uptime < known.uptime
         gap == now' - known.at
         silent == /\ known.at # None /\ ~dropped /\ gap >= GapMin
                   /\ gap - (uptime - known.uptime) < AsleepMin
     IN  /\ log' = log \cup queue
                \cup (IF dropped THEN {Row("power_on", now' - uptime, 0)} ELSE {})
                \cup (IF silent THEN {Row("unreported", known.at, now')} ELSE {})
         /\ known' = [uptime |-> uptime, at |-> now']
  /\ queue' = {}
  /\ UNCHANGED <<mac, spans>>

Idle == Happens("idle") /\ UNCHANGED <<mac, queue, log, spans, known>>

Next ==
  \/ Boot \/ Launch \/ ShutDown \/ Bedtime \/ PowerCut \/ RestartSync
  \/ \E what \in {"stop", "remove"} : StopAgents(what)
  \/ Unlock \/ Lock \/ Measure \/ Correct \/ Sleep \/ CheckIn \/ Idle
  \/ \E o \in Offsets \cup {0} : SetClock(o)
  \/ \E v \in Versions : Apply(v)

Spec == Init /\ [][Next]_vars

-----------------------------------------------------------------------------
(* presentHistory.  A line is [at, kind, red].                              *)

Watching(t) == t \in BedUntil .. WatchUntil - 1

\* Before the window: hasHistoryBefore, versionBefore, removed, lastBootMs.
MutContext(rows) ==                                   \* boots before the window forgotten
  [seenAny |-> rows # {}, version |-> None, boot |-> {}]

Newest(T) == IF T = {} THEN None ELSE CHOOSE t \in T : \A u \in T : u <= t
BootOf(r) == IF r.kind = "power_on" THEN r.at ELSE r.val
BootSayers(rows) == {r \in rows : r.kind \in {"power_on", "agent_started"}}

\* The latest boot its last rows say, which need not be the last one said.
Context(rows) ==
  LET applied == {r \in rows : r.kind = "policy_applied"}
      last == {r \in applied : \A q \in applied : q.at <= r.at}
      sayers == BootSayers(rows)
      recent == {r \in sayers : Cardinality({q \in sayers : q.at > r.at}) < BootRows}
  IN  [seenAny |-> rows # {},
       version |-> Newest({r.val : r \in last}),
       boot |-> {BootOf(r) : r \in {q \in recent : \A p \in recent : BootOf(p) <= BootOf(q)}}]

Story(context) ==
  [out |-> <<>>, seenAny |-> context.seenAny, version |-> context.version,
   boot |-> context.boot, stop |-> {}, alarm |-> None]

IsKnownBoot(s, at) == \E b \in s.boot : at - b \in 1 - SameBoot .. SameBoot - 1

Say(s, at, kind, red) ==
  [s EXCEPT !.out = Append(@, [at |-> at, kind |-> kind, red |-> red])]
NoStop(s) == [s EXCEPT !.stop = {}]
Seen(s) == [s EXCEPT !.seenAny = TRUE]

MutTurnedOn(s, at) == Say([s EXCEPT !.boot = {at}], at, "power_on", at >= BedFrom) \* any hour of the night

TurnedOn(s, at) == Say([s EXCEPT !.boot = {at}], at, "power_on", Watching(at))

\* The pending stop was the Mac going off.
ShutDownLine(s) ==
  IF s.stop = {} THEN s
  ELSE LET p == CHOOSE p \in s.stop : TRUE
       IN  Say(NoStop(s), p.at, IF p.bedtime THEN "power_off_bedtime" ELSE "power_off", FALSE)

\* Nothing has explained it; a bedtime shutdown explains itself.
UnexplainedStop(s) ==
  IF \E p \in s.stop : ~p.bedtime
  THEN Say(NoStop(s), (CHOOSE p \in s.stop : TRUE).at, "agent_stopped", FALSE)
  ELSE ShutDownLine(s)

\* The parts of one instant join the stop before them, or begin one.
StopPart(s, rows, t) ==
  LET late == \E p \in s.stop : t - p.lastAt > StopEpisode
      base == IF late THEN UnexplainedStop(s) ELSE s
      shut == \E r \in rows : r.kind = "action_taken"
      old == base.stop
  IN  [Seen(base) EXCEPT !.stop =
         {[at |-> IF old = {} THEN t ELSE (CHOOSE p \in old : TRUE).at,
           lastAt |-> t, bedtime |-> shut \/ \E p \in old : p.bedtime]}]

PowerOnLine(s, r) ==
  LET off == ShutDownLine(s)
  IN  Seen(IF IsKnownBoot(off, r.at) THEN off ELSE TurnedOn(off, r.at))

MutStartedLine(s, r) ==                               \* every launch ends the stop
  Seen(IF IsKnownBoot(s, r.val)
       THEN IF r.at - r.val > BootLaunch THEN Say(NoStop(s), r.at, "agent_restarted", FALSE)
            ELSE NoStop(s)
       ELSE IF ~s.seenAny /\ s.boot = {} THEN Say([s EXCEPT !.boot = {r.val}], r.at, "agent_started", FALSE)
       ELSE TurnedOn(NoStop(s), r.val))

StartedLine(s, r) ==
  LET launched ==
        IF IsKnownBoot(s, r.val)
        THEN IF r.at - r.val > BootLaunch THEN Say(NoStop(s), r.at, "agent_restarted", FALSE)
             ELSE NoStop(s)
        ELSE IF ~s.seenAny /\ s.boot = {}
        THEN Say([s EXCEPT !.boot = {r.val}], r.at, "agent_started", FALSE)
        ELSE TurnedOn(ShutDownLine(s), r.val)
  IN  Seen(launched)

UnlockedLine(s, r) ==
  Seen(IF Watching(r.at) THEN Say(s, r.at, "session_unlocked", TRUE) ELSE s)

SteppedLine(s, r) ==
  IF r.val = 0 THEN Say(s, r.at, "clock_right", FALSE)
  ELSE Say([s EXCEPT !.alarm = r.at], r.at, "clock_changed", TRUE)

MutCorrectedLine(s, r) == Say(s, r.at, "clock_corrected", FALSE) \* never the only record

CorrectedLine(s, r) ==
  LET incident == s.alarm # None /\ r.at - s.alarm <= ClockIncident
  IN  Say(s, r.at, "clock_corrected", ~incident)

\* Probed every GapProbe, and at its end.
UnreportedLine(s, r) ==
  IF \E t \in r.at .. r.val : ((t - r.at) % GapProbe = 0 \/ t = r.val) /\ Watching(t)
  THEN Say(s, r.at, "unreported", TRUE)
  ELSE s

AppliedLine(s, r) ==
  LET heard == [Seen(s) EXCEPT !.version = r.val]
  IN  IF r.val = s.version THEN Seen(s)
      ELSE IF r.val \in Hidden THEN heard
      ELSE Say(heard, r.at, "policy_applied", FALSE)

Present(s, r) ==
  CASE r.kind = "power_on" -> PowerOnLine(s, r)
    [] r.kind = "agent_started" -> StartedLine(s, r)
    [] r.kind = "session_unlocked" -> UnlockedLine(s, r)
    [] r.kind = "clock_stepped" -> SteppedLine(s, r)
    [] r.kind = "clock_corrected" -> CorrectedLine(s, r)
    [] r.kind = "unreported" -> UnreportedLine(s, r)
    [] r.kind = "policy_applied" -> AppliedLine(s, r)
    [] r.kind = "registered" -> Seen(Say(s, r.at, "registered", FALSE))

IsStopPart(r) == r.kind \in {"agent_stopping", "action_taken"}

\* A stop with nothing after it: a removed device's uninstall, or not explained.
Ended(s) ==
  IF s.stop # {} /\ ~mac.installed
  THEN Say(s, (CHOOSE p \in s.stop : TRUE).at, "agent_removed", FALSE)
  ELSE UnexplainedStop(s)

\* Of the rows of one instant the server's power_on comes first; besides it and
\* the parts of a stop there is at most one.
Presented(rows, context) ==
  LET story[t \in -1 .. Horizon] ==
        IF t = -1 THEN Story(context)
        ELSE LET before == story[t - 1]
                 here == {r \in rows : r.at = t}
                 stops == {r \in here : IsStopPart(r)}
                 boots == {r \in here : r.kind = "power_on"}
                 Told(s, some) == IF some = {} THEN s ELSE Present(s, CHOOSE r \in some : TRUE)
                 on == Told(before, boots)
                 parted == IF stops = {} THEN on ELSE StopPart(on, stops, t)
             IN  Told(parted, here \ (stops \cup boots))
  IN  Ended(story[Horizon]).out

\* loadHistory: the window from..to-1, judged with what came before it.
Page(from, to) ==
  Presented({r \in log : r.at \in from .. to - 1}, Context({r \in log : r.at < from}))
Whole == Page(0, Horizon + 1)

Lines(page, kinds) == SelectSeq(page, LAMBDA l : l.kind \in kinds)
At(page, kinds) == {page[i].at : i \in {j \in DOMAIN page : page[j].kind \in kinds}}

MutUse(all) == {s \in all : s.from \in Due .. BedUntil - 1} \* only spans that begin in it

\* bedtimeUse: the unlocked spans that offend; the night's one line names one of them.
Use(all) ==
  {s \in all : \E t \in Due .. BedUntil - 1 : t \in s.from .. (IF s.to = None THEN now ELSE s.to)}

-----------------------------------------------------------------------------
(* Properties.                                                              *)

Earliest(T, else) == IF T = {} THEN else ELSE CHOOSE t \in T : \A u \in T : t <= u
Offs == Did("off") \cup Did("bedtime") \cup Did("cut")
Delivered == queue = {} /\ mac.installed

\* What the rows of a boot can say of its moment: exactly when it was, unless the
\* agent launched in it with the clock wrong, or it slept before the server counted.
EndOf(b) == Earliest({o \in Offs : o > b}, Horizon + 1)
BootAt(t) == Newest({b \in Did("boot") \cup {0} : b <= t})
ClockWrong(t) == \E c \in Did("trick") : /\ c <= t
                                        /\ ~\E u \in Did("undo") \cup Did("correct") : c < u /\ u <= t
Exact(b) == \A t \in b .. EndOf(b) : t \notin Did("sleep") /\ ~(t \in Did("launch") /\ ClockWrong(t))

\* Every row and span is of the Mac's life, every line but a boot's at a moment
\* something happened, and spans, which the session's transitions close, never overlap.
TypeOK ==
  /\ now \in Time
  /\ \A r \in log \cup queue : r.at \in 0 .. now /\ r.val \in Int
  /\ known.uptime \in None .. now /\ known.at \in Did("checkin") \cup {None}
  /\ LET whole == Whole
     IN  \A i \in DOMAIN whole :
           whole[i].kind = "power_on" \/ whole[i].at \in {2} \cup {e.at : e \in life}
  /\ \A s \in spans : s.from \in Did("unlock")
  /\ \A s, u \in spans : s.from < u.from => s.to \in s.from .. u.from

\* The Mac's boots are told as they were (history.ts "The two are merged: boots
\* within two minutes of each other are one boot"): a line for every boot the
\* agent launched in, whether the server saw it or not, one line only, and red
\* exactly in watch hours; the boot it was installed in is not news.  A boot whose
\* rows misjudge its moment may be told more than once, off by what they misjudge.
BootsTold ==
  LET on == Lines(Whole, {"power_on"})
      started == {b \in Did("boot") : \E l \in Did("launch") : BootAt(l) = b}
      loose == {b \in {0} \cup started : ~Exact(b)}
      off == {0} \cup Offsets \cup 1 .. Cardinality(Did("sleep"))
  IN  /\ \A i \in DOMAIN on : \/ on[i].at \in started
                              \/ \E b \in loose : on[i].at - b \in off
      /\ \A i \in DOMAIN on : on[i].red = Watching(on[i].at)
      /\ loose = {} => \A i, j \in DOMAIN on : on[i].at = on[j].at => i = j
      /\ Delivered => \A b \in started \ loose : \E i \in DOMAIN on : on[i].at = b

\* "Turned off" is told only when the Mac went off: after the stop it is told at
\* and before the enforcer ran again, by the enforcer when the line says bedtime;
\* and every shutdown the enforcer saw, of a Mac that came back, is told.  Only the
\* rows of a boot that misjudge its moment may take a restart for a shutdown.
OffsTold ==
  LET whole == Whole
      back == Did("launch")
      next(t) == Earliest({l \in back : l > t}, Horizon + 1)
      clean == Did("off") \cup Did("bedtime")
      written == {r.at : r \in {q \in log : q.kind = "agent_stopping" /\ q.val = 0}}
  IN  /\ \A t \in At(whole, {"power_off"}) :
           (\E o \in Offs : t <= o /\ o < next(t)) \/ ~Exact(BootAt(t))
      /\ \A t \in At(whole, {"power_off_bedtime"}) : \E b \in Did("bedtime") : t <= b /\ b < next(t)
      /\ Delivered => \A o \in clean \cap written :
                   next(o) <= now => \E t \in At(whole, {"power_off", "power_off_bedtime"}) :
                                       t <= o /\ next(t) = next(o)

\* The day's frame: everything well formed, and the Mac's boots and ends as they were.
DayAsItWas == TypeOK /\ BootsTold /\ OffsTold

\* Two windows that meet say what one over both says.
Agree(kinds) ==
  LET whole == Lines(Whole, kinds)
  IN  \A m \in 1 .. Horizon :
        Lines(Page(0, m), kinds) \o Lines(Page(m, Horizon + 1), kinds) = whole
BootLines == {"power_on", "agent_started", "agent_restarted"}

\* Reading by pages changes nothing (loadHistory's context): the lines of two
\* windows that meet are those of both, except what the Mac's stops were and
\* whether a correction was already red, which a window cannot see beyond; and
\* the boots, when a later row puts a boot before an earlier one (a clock put back
\* between two launches, a sleep before the server counted), for then the latest
\* boot before a window is not the last one told.
PagesAgree ==
  LET others == {"registered", "session_unlocked", "clock_changed", "clock_right", "unreported",
                 "policy_applied"}
      inOrder == \A r, q \in BootSayers(log) : r.at < q.at => BootOf(r) <= BootOf(q)
  IN  Agree(IF inOrder THEN BootLines \cup others ELSE others)

\* Every clock set wrong that the agent noticed is red (history.ts "Often the only
\* record"), by the time it is put right or measured, unless within
\* CLOCK_INCIDENT_MS of one that was.
TricksTold ==
  LET whole == Whole
  IN  Delivered => \A t \in Did("trick") :
    LET noticed == Did("measure") \cup Did("correct")
        moved == Did("trick") \cup Did("undo")
        c == Earliest({n \in noticed : n > t}, None)
        clock == {"clock_changed", "clock_corrected"}
    IN  c # None /\ ~(\E u \in moved : t < u /\ u < c) =>
          \E i \in DOMAIN whole : /\ whole[i].kind \in clock /\ whole[i].red
                                  /\ whole[i].at \in c - ClockIncident .. c

\* Use after the shutdown was due is told, and what is told was use, unless the Mac
\* went off and nobody saw its session end.
UseTold ==
  LET ends == Did("lock") \cup Offs
      ended(a) == Earliest({e \in ends : e > a}, now)
      late == {a \in Did("unlock") : a .. ended(a) \cap Due .. BedUntil - 1 # {}}
  IN  /\ \A a \in late : \E s \in Use(spans) : s.from = a
      /\ \A s \in Use(spans) : s.from \in late \/ ended(s.from) \in Offs

\* What a parent looks for: a clock set wrong, and use after the shutdown was due.
MisuseTold == TricksTold /\ UseTold

-----------------------------------------------------------------------------
(* What a comment says and the code does not do.                            *)

\* history.ts "The two are merged: boots within two minutes of each other are one
\* boot": a boot is told once, whatever the clock says when the agent launches again
\* and however long the Mac slept before the server saw its uptime drop.
BootToldOnce == Len(Lines(Whole, {"power_on"})) <= Cardinality(Did("boot"))

\* history.ts "The latest boot on record before the window": the boots too are the
\* same page by page, a clock put back between two launches or not.
PagesAgreeOnBoots == Agree(BootLines)

\* history.ts "A stop with nothing after it: a removed device's uninstall": of a
\* removed Mac every window that ends with the Mac off says so.
RemovedOnce == \A m \in Time : At(Page(0, m), {"agent_removed"}) \subseteq Did("remove")

\* history.ts "the Mac being unlocked when it should already have been off".
OffIsNotUse ==
  \A s \in Use(spans) : s.from .. Earliest({e \in Did("lock") \cup Offs : e > s.from}, now)
                           \cap Due .. BedUntil - 1 # {}

\* history.ts "The Mac went off: at the stop's start": a restart of sync alone, then
\* a power cut, and the Mac is told off while it was in use.
OffWhenItWas ==
  \A t \in At(Whole, {"power_off"}) :
    \E e \in Offs \cup Did("stop") \cup Did("remove") : t \in e - StopEpisode .. e

=============================================================================
