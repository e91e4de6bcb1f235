----------------------------- MODULE Supervisor -----------------------------
(* hpc-supervisor: the watchdog that judges enforcerd and hpc-sync by their   *)
(* health files, rolls a failing version back and installs staged ones.        *)
(* A unit of time is the supervisor's tick of 60 s. Its tick is a sequence of  *)
(* steps, since it may die between any two of them and the daemons it watches  *)
(* go on meanwhile. Ages are in units of trusted time, which goes on while the *)
(* Mac sleeps; the daemons' timers do not.                                     *)
EXTENDS Integers, FiniteSets

CONSTANTS
  Versions, First,      \* released versions, ordered; the one install.sh put on the Mac
  Flaws,                \* the sets of versions whose daemons may hang or crash ...
  StillBorn,            \* ... and those that may hang before their first tick
  None,
  StaleAfter, Confirmations, CrashWindow, CrashesForRollback,
  Cooldown, Day, MaxRollbacks, SoakLength, KeepNewest,
  SyncGap,              \* the longest hpc-sync waits for its next tick, and a tick of the usual length
  Sleeps,               \* how long the Mac may sleep at a time
  Back,                 \* how far trusted time may be corrected back
  MaxFaults             \* bound on sleeps, restarts, corrections and failed installs

Jobs == {"enforcer", "sync"}
\* Longer waits than these are not told apart.
Longest == [enforcer |-> 1, sync |-> SyncGap + 1]

ASSUME SupervisorAssumption ==
  /\ Versions \subseteq Nat /\ First \in Versions /\ None \notin Versions
  /\ StillBorn \subseteq Versions /\ Flaws \subseteq SUBSET Versions
  /\ {StaleAfter, Confirmations, CrashesForRollback, Cooldown, Day, SoakLength,
      KeepNewest, SyncGap} \subseteq Nat \ {0}
  /\ {CrashWindow, MaxRollbacks, Back, MaxFaults} \subseteq Nat
  /\ Sleeps \subseteq Nat

VARIABLES
  disk,        \* the installed version, which the running daemons execute
  hung,        \* the daemons that no longer tick
  wait,        \* per daemon, the waking time since its last tick
  health,      \* enforcer.health and sync.health
  cache,       \* the versions in pkgs/
  lastGood, quarantine, soak, soaked,      \* the supervisor's files
  mem,         \* what the supervisor's process remembers
  step,        \* where its tick stands
  due,         \* this unit's tick is still to come
  faults,      \* how many of those there have been
  flawed,      \* those of Flaws
  calm, woke            \* history: time since it last chose to act, and since the last wake

vars == <<disk, hung, wait, health, cache, lastGood, quarantine, soak, soaked,
          mem, step, due, faults, flawed, calm, woke>>
daemons == <<disk, hung, wait, health>>
files   == <<cache, lastGood, quarantine, soak, soaked>>
history == <<flawed, calm, woke>>

AtMost(n, cap) == IF n < cap THEN n ELSE cap

\* Ages beyond these are told apart by nothing, even after a correction.
HealthCap == StaleAfter + 1 + Back
KickCap   == Cooldown + Back
NoSoak    == [version |-> None, age |-> 0]
Idle      == [at |-> "idle", target |-> None, running |-> None, good |-> None,
              back |-> FALSE]

NewProcess(version) ==
  [stale |-> [j \in Jobs |-> 0], kick |-> KickCap, rollbacks |-> {}, crashes |-> {},
   boot |-> 0, pid |-> "unknown", own |-> version]

RunningVersion ==
  IF health["enforcer"].version = None THEN mem.own ELSE health["enforcer"].version

Init ==
  /\ disk = First /\ hung = {}
  /\ wait = [j \in Jobs |-> 1]
  /\ health = [j \in Jobs |-> [age |-> HealthCap, version |-> None, locking |-> FALSE]]
  /\ cache = {} /\ lastGood = None /\ quarantine = {} /\ soak = NoSoak /\ soaked = {}
  /\ mem = NewProcess(First) /\ step = Idle /\ due = TRUE
  /\ faults = 0
  /\ flawed \in Flaws /\ calm = 0 /\ woke = SyncGap + 1

-----------------------------------------------------------------------------
(* SupervisorPolicy.step: what one look at the files decides.                  *)

Stale(j) == health[j].age > StaleAfter
\* A mistake: the count starts again at every look.
MutStaleCount(j) == IF Stale(j) THEN 1 ELSE 0
StaleCount(j) == IF Stale(j) THEN AtMost(mem.stale[j] + 1, Confirmations) ELSE 0
\* A mistake: one stale look is believed.
MutStaleJobs == {j \in Jobs : StaleCount(j) >= 1}
StaleJobs == {j \in Jobs : StaleCount(j) >= Confirmations}

Crashes ==
  {a \in mem.crashes \cup (IF mem.pid = "other" THEN {0} ELSE {}) : a <= CrashWindow}
Rollbacks == {a \in mem.rollbacks : a < Day}

Unhealthy  == StaleJobs # {} \/ Cardinality(Crashes) >= CrashesForRollback
\* A mistake: a process that has just started knows of no cooldown.
MutInCooldown == mem.kick < Cooldown
InCooldown == mem.kick < Cooldown \/ mem.boot < Cooldown
Budgeted   == Cardinality(Rollbacks) < MaxRollbacks
\* A mistake: nobody asks whether there is a last good version, or its package.
MutHasTarget == lastGood # RunningVersion
HasTarget  == lastGood \notin {None, RunningVersion} /\ lastGood \in cache
MayRollBack == Unhealthy /\ ~InCooldown /\ Budgeted /\ HasTarget

Candidates ==
  {v \in cache : v # lastGood /\ v \notin quarantine /\ v > RunningVersion}
Clean == (\A j \in Jobs : ~Stale(j)) /\ Crashes = {}
MayUpgrade ==
  /\ ~Unhealthy /\ Candidates # {} /\ Clean /\ ~InCooldown
  /\ ~health["enforcer"].locking

Seen ==
  [mem EXCEPT !.stale = [j \in Jobs |-> StaleCount(j)],
              !.rollbacks = Rollbacks, !.crashes = Crashes, !.pid = "same"]

Begin(at, target, back) ==
  [at |-> at, target |-> target, running |-> RunningVersion, good |-> lastGood,
   back |-> back]

RollBack ==
  /\ MayRollBack
  /\ mem' = [Seen EXCEPT !.rollbacks = Rollbacks \cup {0}, !.kick = 0,
                         !.stale = [j \in Jobs |-> 0]]
  /\ step' = Begin("quarantine", lastGood, TRUE)

Upgrade ==
  /\ MayUpgrade
  /\ mem' = [Seen EXCEPT !.kick = 0]
  /\ \E v \in Candidates :
       /\ \A w \in Candidates : w <= v
       /\ step' = Begin("install", v, FALSE)

\* How every tick ends: a soak past its deadline is over, and old packages go.
PromoteIfDue ==
  IF soak # NoSoak /\ soak.age >= SoakLength
    THEN soaked' = soaked \cup {soak.version} /\ soak' = NoSoak
    ELSE UNCHANGED <<soaked, soak>>

Newest == {v \in cache : Cardinality({w \in cache : w > v}) < KeepNewest}
PrunePkgCache(good) == cache' = cache \cap (Newest \cup {good, RunningVersion})

\* A tick that decides to do nothing, or only to report, ends at once.
LeaveAlone ==
  /\ ~MayRollBack /\ ~MayUpgrade
  /\ mem' = Seen /\ step' = Idle
  /\ PromoteIfDue /\ PrunePkgCache(lastGood)

Decide ==
  /\ step.at = "idle" /\ due
  /\ due' = FALSE
  /\ \/ (RollBack \/ Upgrade) /\ calm' = 0 /\ UNCHANGED <<cache, soak, soaked>>
     \/ LeaveAlone /\ UNCHANGED calm
  /\ UNCHANGED <<daemons, lastGood, quarantine, faults, flawed, woke>>

-----------------------------------------------------------------------------
(* The rest of Supervisor.tick, in the order it happens.                       *)

Goes(at) == step' = [step EXCEPT !.at = at]

\* A mistake: the version given up is not recorded.
MutGiveUp ==
  /\ step.at = "quarantine" /\ Goes("install")
  /\ soak' = NoSoak
  /\ UNCHANGED <<daemons, cache, lastGood, quarantine, soaked, mem, due, faults, history>>

\* A rollback first records the version it gives up, and ends its soak.
GiveUp ==
  /\ step.at = "quarantine" /\ Goes("install")
  /\ quarantine' = quarantine \cup {step.running} /\ soak' = NoSoak
  /\ UNCHANGED <<daemons, cache, lastGood, soaked, mem, due, faults, history>>

MovedPid == [mem EXCEPT !.pid = IF @ = "same" THEN "other" ELSE @]

\* The pkg's postinstall starts both daemons afresh.
Reload(version) ==
  /\ disk' = version /\ hung' = {} /\ wait' = [j \in Jobs |-> 1]
  /\ mem' = MovedPid
  /\ UNCHANGED health

Untouched == UNCHANGED <<daemons, mem>>
Fault == faults < MaxFaults /\ faults' = faults + 1

Installed ==
  /\ step.target \in cache
  /\ Reload(step.target) /\ Goes(IF step.back THEN "kickstart" ELSE "record")
  /\ UNCHANGED <<cache, quarantine, faults>>

\* The package is gone, or installer(8) fails before it changed anything.
NotInstalled ==
  /\ \/ step.target \notin cache /\ UNCHANGED faults
     \/ step.target \in cache /\ Fault
  /\ Untouched /\ Goes("end")
  /\ UNCHANGED <<cache, quarantine>>

\* installer(8) reports a failure although the payload is in place and running.
InstalledWithError ==
  /\ step.target \in cache /\ Fault
  /\ Reload(step.target) /\ Goes("end")
  /\ UNCHANGED <<cache, quarantine>>

DigestMismatch ==
  /\ step.target \in cache /\ Fault
  /\ quarantine' = quarantine \cup {step.target}
  /\ cache' = cache \ {step.target}
  /\ Untouched /\ Goes("end")

Install ==
  /\ step.at = "install"
  /\ (Installed \/ NotInstalled \/ InstalledWithError \/ DigestMismatch)
  /\ UNCHANGED <<lastGood, soak, soaked, due, history>>

RecordLastGood ==
  /\ step.at = "record" /\ Goes("shadow")
  /\ lastGood' = step.running
  /\ UNCHANGED <<daemons, cache, quarantine, soak, soaked, mem, due, faults, history>>

EnterShadow ==
  /\ step.at = "shadow" /\ Goes("kickstart")
  /\ soak' = IF step.target \in soaked THEN soak ELSE [version |-> step.target, age |-> 0]
  /\ UNCHANGED <<daemons, cache, lastGood, quarantine, soaked, mem, due, faults, history>>

\* Of the two labels only com.hpc.sync is a job: enforcerd's is com.hpc.enforcerd.
Kickstart ==
  /\ step.at = "kickstart" /\ Goes("end")
  /\ hung' = hung \ {"sync"} /\ wait' = [wait EXCEPT !["sync"] = 1]
  /\ mem' = MovedPid
  /\ UNCHANGED <<disk, health, files, due, faults, history>>

EndTick ==
  /\ step.at = "end" /\ step' = Idle
  /\ PromoteIfDue /\ PrunePkgCache(step.good)
  /\ UNCHANGED <<daemons, lastGood, quarantine, mem, due, faults, history>>

\* The supervisor dies anywhere in its tick; launchd starts it again at once.
Restart ==
  /\ Fault
  /\ mem' = NewProcess(disk) /\ step' = Idle /\ due' = TRUE
  /\ UNCHANGED <<daemons, files, history>>

-----------------------------------------------------------------------------
(* The daemons it watches, and time.                                           *)

Ticks(j, locking) ==
  /\ j \notin hung /\ wait[j] >= 1
  /\ wait' = [wait EXCEPT ![j] = 0]
  /\ health' = [health EXCEPT ![j] = [age |-> 0, version |-> disk, locking |-> locking]]

EnforcerTick ==
  /\ \E locking \in BOOLEAN : Ticks("enforcer", locking)
  /\ UNCHANGED <<disk, hung, files, mem, step, due, faults, history>>

\* In a tick of hpc-sync: it may be asked for another version, and stages it.
Stage ==
  /\ "sync" \notin hung /\ wait["sync"] >= 1
  /\ \E v \in Versions \ ({disk} \cup quarantine \cup cache) : cache' = cache \cup {v}
  /\ UNCHANGED <<daemons, lastGood, quarantine, soak, soaked, mem, step, due, faults, history>>

\* The tick ends, and only then writes its health file: the requests of a tick, and
\* the download of a package above all, may take longer than any wait.
SyncTick ==
  /\ Ticks("sync", FALSE)
  /\ UNCHANGED <<disk, hung, files, mem, step, due, faults, history>>

\* hpc-sync is held up in a tick.
HeldUp == wait["sync"] > SyncGap

Hang(j) ==
  /\ disk \in flawed /\ j \notin hung
  /\ disk \in StillBorn \/ health["enforcer"].version = disk
  /\ hung' = hung \cup {j}
  /\ UNCHANGED <<disk, wait, health, files, mem, step, due, faults, history>>

\* hpc-sync crashes and launchd starts it again under another pid.
SyncCrash ==
  /\ disk \in flawed /\ "sync" \notin hung /\ mem.pid = "same"
  /\ mem' = MovedPid /\ wait' = [wait EXCEPT !["sync"] = 1]
  /\ UNCHANGED <<disk, hung, health, files, step, due, faults, history>>

\* k units of trusted time pass, or are taken back.
Age(k) ==
  /\ health' = [j \in Jobs |-> [health[j] EXCEPT
        !.age = IF health[j].version = None THEN @ ELSE AtMost(@ + k, HealthCap)]]
  /\ mem' = [mem EXCEPT
        !.kick = AtMost(@ + k, KickCap), !.boot = AtMost(@ + k, KickCap),
        !.rollbacks = {AtMost(a + k, Day + Back) : a \in @},
        !.crashes = {AtMost(a + k, CrashWindow + 1 + Back) : a \in @}]
  /\ soak' = IF soak = NoSoak THEN soak
             ELSE [soak EXCEPT !.age = AtMost(@ + k, SoakLength + Back)]

\* A unit passes: the supervisor has ticked, and so has enforcerd if it still does.
Pass ==
  /\ step.at = "idle" /\ ~due
  /\ "enforcer" \in hung \/ wait["enforcer"] = 0
  /\ Age(1)
  /\ wait' = [j \in Jobs |-> AtMost(wait[j] + 1, Longest[j])]
  /\ due' = TRUE
  /\ calm' = AtMost(calm + 1, Cooldown) /\ woke' = AtMost(woke + 1, SyncGap + 1)
  /\ UNCHANGED <<disk, hung, cache, lastGood, quarantine, soaked, step, faults, flawed>>

Sleep(k) ==
  /\ Fault
  /\ Age(k)
  /\ calm' = AtMost(calm + k, Cooldown) /\ woke' = 0
  /\ UNCHANGED <<disk, hung, wait, cache, lastGood, quarantine, soaked, step, due, flawed>>

CorrectClock ==
  /\ Back > 0 /\ Fault
  /\ Age(-Back)
  /\ UNCHANGED <<disk, hung, wait, cache, lastGood, quarantine, soaked, step, due, history>>

Supervise ==
  \/ Decide \/ GiveUp \/ Install \/ RecordLastGood \/ EnterShadow \/ Kickstart \/ EndTick

Next ==
  \/ Supervise \/ Restart \/ EnforcerTick \/ Stage \/ SyncTick \/ (\E j \in Jobs : Hang(j))
  \/ SyncCrash \/ Pass \/ (\E k \in Sleeps : Sleep(k)) \/ CorrectClock

Fairness ==
  /\ WF_vars(Supervise) /\ WF_vars(EnforcerTick) /\ WF_vars(SyncTick) /\ WF_vars(Pass)

Spec == Init /\ [][Next]_vars /\ Fairness

-----------------------------------------------------------------------------
Ages(cap) == -(Back * MaxFaults) .. cap

\* Types of every variable; a step that installs has a version to install.
TypeOK ==
  /\ disk \in Versions /\ hung \subseteq Jobs
  /\ wait \in [Jobs -> 0 .. SyncGap + 1]
  /\ \A j \in Jobs : /\ health[j].age \in Ages(HealthCap)
                     /\ health[j].version \in Versions \cup {None}
                     /\ health[j].locking \in BOOLEAN
  /\ cache \subseteq Versions /\ quarantine \subseteq Versions /\ soaked \subseteq Versions
  /\ lastGood \in Versions \cup {None}
  /\ soak = NoSoak \/ (soak.version \in Versions /\ soak.age \in Ages(SoakLength + Back))
  /\ mem.stale \in [Jobs -> 0 .. Confirmations]
  /\ mem.kick \in Ages(KickCap) /\ mem.boot \in Ages(KickCap)
  /\ mem.rollbacks \subseteq Ages(Day + Back)
  /\ mem.crashes \subseteq Ages(CrashWindow + 1 + Back)
  /\ mem.pid \in {"unknown", "same", "other"} /\ mem.own \in Versions
  /\ step.at \in {"quarantine", "install", "record", "shadow", "kickstart"}
       => step.target \in Versions /\ step.running \in Versions
  /\ due \in BOOLEAN

\* A version whose daemons keep ticking is never given up: a rollback finds a version
\* that really failed, even if it looks while hpc-sync waits out its longest interval,
\* across restarts of the supervisor and corrections of the clock; or else a Mac that
\* has just woken, or hpc-sync held up in a tick, and then hpc-sync alone looks dead.
HealthyNeverRolledBack ==
  [][Decide /\ RollBack =>
       \/ RunningVersion \in flawed
       \/ woke <= SyncGap
       \/ HeldUp /\ StaleJobs = {"sync"}]_vars

\* The same without the first exception. It is what SupervisorPolicy's tests ask, and
\* what counting two looks in a row is for.
SleepIsNotDeath ==
  [][Decide /\ RollBack => RunningVersion \in flawed \/ HeldUp]_vars

\* And without the second: a tick of hpc-sync may last longer than two looks.
SlowIsNotDeath ==
  [][Decide /\ RollBack => RunningVersion \in flawed \/ woke <= SyncGap]_vars

\* The supervisor never chooses twice within a cooldown to restart the daemons, however
\* it, they and the installer fail in between, and its own restarts included, which make
\* it forget the last choice: else it is what keeps the Mac from locking.
KicksApart ==
  [][step'.at \in {"quarantine", "install"} /\ step.at = "idle" => calm >= Cooldown]_vars

\* Upgrading and rolling back come to an end: the versions staged are tried once each.
Settles == <>[][disk' = disk]_disk

\* A version that hangs is replaced by the last good one as long as that is in the cache.
Sick(v) == disk = v /\ hung # {} /\ lastGood \in cache \ {v}
FlawedReplaced == \A v \in Versions : Sick(v) ~> ~Sick(v)

-----------------------------------------------------------------------------
(* What further comments promise. *)

\* "The target is a version that has already soaked" (a rollback ends the soak).
TargetHasSoaked == [][GiveUp => step.target \in soaked \cup {First}]_vars

\* "prune pkgs/ to the newest 3 plus last-good"
LastGoodKept == [][EndTick => lastGood \notin cache \ cache']_vars

\* "never reinstall a known-bad"
KnownBadStaysOff == [][Installed /\ step.at = "install" => step.target \notin quarantine]_vars

=============================================================================
