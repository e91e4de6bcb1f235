---------------------------- MODULE SupervisorProofs ----------------------------
(***************************************************************************)
(* Supervisor: for any versions, thresholds, sleeps, clock corrections and *)
(* number of failures, types hold and two choices to restart the daemons   *)
(* lie a cooldown apart; and a version that works is never given up, where *)
(* the thresholds stand to each other as they do in the code.              *)
(*                                                                         *)
(* The argument: who looks stale, or seems to crash, on a version that     *)
(* works does so since a restart of the daemons that the supervisor itself *)
(* began, since its own start or since a wake (Recent).  A daemon's file is*)
(* else no older than its pause (Fresh), so that it is stale for fewer     *)
(* looks than are asked for (Counted), but for an hpc-sync held up in its  *)
(* tick; and of the crashes remembered one at most is younger than a       *)
(* cooldown allows (Lone).                                                 *)
(***************************************************************************)
EXTENDS Supervisor, FiniteSetTheorems, TLAPS

Versioned == Versions \cup {None}
Points == {"idle", "quarantine", "install", "record", "shadow", "kickstart", "end"}

File == [age : Int, version : Versioned, locking : BOOLEAN]
Memory == [stale : [Jobs -> 0 .. Confirmations], kick : Int, rollbacks : SUBSET Int, crashes : SUBSET Int,
           boot : Int, pid : {"unknown", "same", "other"}, own : Versions]
Step == [at : Points, target : Versioned, running : Versioned, good : Versioned, back : BOOLEAN]

\* Every variable has its type.
Shape ==
  /\ disk \in Versions /\ hung \in SUBSET Jobs
  /\ wait \in [Jobs -> Nat] /\ \A j \in Jobs : wait[j] <= Longest[j]
  /\ health \in [Jobs -> File]
  /\ cache \in SUBSET Versions /\ quarantine \in SUBSET Versions /\ soaked \in SUBSET Versions
  /\ lastGood \in Versioned
  /\ soak \in {NoSoak} \cup [version : Versions, age : Int]
  /\ mem \in Memory /\ step \in Step
  /\ step.at \in {"quarantine", "install", "record", "shadow", "kickstart"}
       => step.target \in Versions /\ step.running \in Versions
  /\ due \in BOOLEAN /\ faults \in 0 .. MaxFaults
  /\ calm \in Nat /\ woke \in Nat

\* How young corrections so far can have made anything.
Floor == -(Back * faults)

Aged(n, cap) == Floor <= n /\ n <= cap

\* What ages does so between that and its cap.
Bounded ==
  /\ \A j \in Jobs : Aged(health[j].age, HealthCap)
  /\ Aged(mem.kick, KickCap) /\ Aged(mem.boot, KickCap)
  /\ \A a \in mem.rollbacks : Aged(a, Day + Back)
  /\ \A a \in mem.crashes : Aged(a, CrashWindow + 1 + Back)
  /\ soak # NoSoak => Aged(soak.age, SoakLength + Back)

\* The supervisor remembers no choice longer ago than it is, unless it started since.
Calm == calm >= Cooldown \/ mem.kick <= calm \/ mem.boot <= calm

TypeInv == Shape /\ Bounded /\ Calm

\* A choice to restart, a start of the supervisor or a wake, n units ago at most.
Recent(n) == mem.kick <= n \/ mem.boot <= n \/ woke <= n

\* Only a flawed version hangs; the enforcer's file names the version on disk,
\* unless that has been there for no time at all.
Running ==
  /\ hung # {} => disk \in flawed
  /\ step.at # "idle" => Recent(0)
  /\ RunningVersion = disk \/ (wait["enforcer"] = 1 /\ "enforcer" \notin hung /\ Recent(0))

\* Longer than hpc-sync ever waits for a tick, and beyond what is counted.
Late(j) == wait[j] > SyncGap

\* A file is as old as its daemon's pause.
Fresh(j) == disk \in flawed \/ health[j].age <= wait[j] \/ Recent(wait[j]) \/ Late(j)

\* The unit's look is still to come.
Ahead == IF due THEN 1 ELSE 0

\* Stale looks are counted while the pause lasts.
Counted(j) ==
  \/ disk \in flawed \/ mem.stale[j] = 0 \/ wait[j] <= Ahead
  \/ mem.stale[j] + StaleAfter + Ahead <= wait[j]
  \/ Recent(wait[j])
  \/ Late(j)

\* A crash that has left the window by the time the cooldown is over.
Over(a) == mem.kick <= a + Cooldown - CrashWindow - 1

\* A version that works seems to crash once, when it is installed.
Lone ==
  /\ step.at # "idle" => \A a \in mem.crashes : Over(a)
  /\ disk \notin flawed =>
       /\ \A a, b \in mem.crashes : Over(a) \/ Over(b) \/ a = b
       /\ mem.pid = "other" => \A a \in mem.crashes : Over(a)

Judged == Running /\ (\A j \in Jobs : Fresh(j) /\ Counted(j)) /\ Lone

IInv == TypeInv /\ Judged

\* How the code's thresholds stand to each other (SupervisorPolicy.swift: stale
\* after 300 s, confirmed twice; a crash window of 300 s, a cooldown of 600 s,
\* three crashes; hpc-sync waits 300 s at most for a tick), for versions that
\* work until their first tick and clocks that go back by less than 300 s in all.
CodesThresholds ==
  /\ StillBorn = {}
  /\ CrashesForRollback >= 2
  /\ SyncGap < Cooldown /\ SyncGap < StaleAfter + Confirmations
  /\ CrashWindow + Back * MaxFaults < Cooldown

-----------------------------------------------------------------------------
(* Numbers. *)

LEMMA ConstantTypes ==
  /\ Versions \subseteq Nat /\ First \in Versions /\ None \notin Versions
  /\ StaleAfter \in Nat \ {0} /\ Confirmations \in Nat \ {0} /\ CrashesForRollback \in Nat \ {0}
  /\ Cooldown \in Nat \ {0} /\ Day \in Nat \ {0} /\ SoakLength \in Nat \ {0}
  /\ SyncGap \in Nat \ {0}
  /\ CrashWindow \in Nat /\ MaxRollbacks \in Nat /\ Back \in Nat /\ MaxFaults \in Nat
  /\ Sleeps \subseteq Nat /\ Flaws \subseteq SUBSET Versions
BY SupervisorAssumption

LEMMA CapTypes ==
  /\ HealthCap \in Nat /\ KickCap \in Nat /\ Day + Back \in Nat
  /\ CrashWindow + 1 + Back \in Nat /\ SoakLength + Back \in Nat
  /\ \A j \in Jobs : Longest[j] \in Nat \ {0}
  /\ Longest["enforcer"] = 1 /\ Longest["sync"] = SyncGap + 1
BY ConstantTypes DEF HealthCap, KickCap, Longest, Jobs

LEMMA AtMostFacts ==
  ASSUME NEW n \in Int, NEW cap \in Int
  PROVE  AtMost(n, cap) \in Int /\ AtMost(n, cap) <= n /\ AtMost(n, cap) <= cap
         /\ (AtMost(n, cap) = n \/ AtMost(n, cap) = cap)
BY DEF AtMost

LEMMA ProductFacts ==
  ASSUME NEW b \in Nat, NEW m \in Nat, NEW n \in 0 .. m
  PROVE  b * n \in Nat /\ b * n <= b * m /\ b * (n + 1) = b * n + b
<1>1. b * n \in Nat /\ b * (m - n) \in Nat
  OBVIOUS
<1>2. b * m = b * n + b * (m - n) /\ b * (n + 1) = b * n + b
  OBVIOUS
<1> QED
  BY <1>1, <1>2

LEMMA FloorFacts ==
  ASSUME faults \in 0 .. MaxFaults
  PROVE  /\ Floor \in Int /\ Floor <= 0 /\ -(Back * MaxFaults) <= Floor
         /\ faults' = faults => Floor' = Floor
         /\ faults' = faults + 1 => Floor' = Floor - Back
<1>1. Back * faults \in Nat /\ Back * faults <= Back * MaxFaults /\ Back * (faults + 1) = Back * faults + Back
  BY ConstantTypes, ProductFacts
<1>2. Back * MaxFaults \in Nat
  BY ConstantTypes, ProductFacts
<1> QED
  BY <1>1, <1>2, ConstantTypes DEF Floor

\* What was not aged is in its bounds also after a fault.
LEMMA AgedStays ==
  ASSUME faults \in 0 .. MaxFaults, faults' \in {faults, faults + 1}, NEW n \in Int, NEW cap
  PROVE  Aged(n, cap) => Floor' <= n /\ n <= cap
BY FloorFacts, ConstantTypes DEF Aged

\* What was is: by as much as trusted time has moved, up to its cap.
LEMMA AgedMoves ==
  ASSUME faults \in 0 .. MaxFaults, faults' \in {faults, faults + 1},
         NEW k \in Int, Floor' <= Floor + k, NEW n \in Int, NEW cap \in Nat, Aged(n, cap)
  PROVE  AtMost(n + k, cap) \in Int /\ Floor' <= AtMost(n + k, cap) /\ AtMost(n + k, cap) <= cap
<1>1. Floor \in Int /\ Floor <= 0 /\ Floor' \in Int /\ Floor' <= 0
  BY FloorFacts, ConstantTypes
<1>2. n + k \in Int /\ Floor' <= n + k
  BY <1>1 DEF Aged
<1> QED
  BY <1>1, <1>2 DEF AtMost, Aged

-----------------------------------------------------------------------------
(* What each kind of step keeps. *)

\* Time, forwards or back, keeps the types and the bounds of what ages.
LEMMA AgeKeeps ==
  ASSUME Shape, Bounded, faults' \in {faults, faults + 1},
         NEW k \in Int, Floor' <= Floor + k, Age(k)
  PROVE  /\ health' \in [Jobs -> File] /\ mem' \in Memory
         /\ soak' \in {NoSoak} \cup [version : Versions, age : Int]
         /\ Bounded'
<1>1. faults \in 0 .. MaxFaults /\ health \in [Jobs -> File] /\ mem \in Memory
  BY DEF Shape
<1>2. \A n \in Int, cap \in Nat : Aged(n, cap) =>
        /\ AtMost(n + k, cap) \in Int
        /\ Floor' <= AtMost(n + k, cap) /\ AtMost(n + k, cap) <= cap
  BY <1>1, AgedMoves
<1>3. \A n \in Int : \A cap : Aged(n, cap) => Floor' <= n /\ n <= cap
  BY <1>1, AgedStays
<1>4. ASSUME NEW j \in Jobs
      PROVE  health'[j] \in File /\ Floor' <= health'[j].age /\ health'[j].age <= HealthCap
  <2>1. health[j] \in File /\ health[j].age \in Int /\ Aged(health[j].age, HealthCap)
    BY <1>1, <1>4 DEF File, Bounded
  <2>2. health'[j] = [health[j] EXCEPT
          !.age = IF health[j].version = None THEN @ ELSE AtMost(@ + k, HealthCap)]
    BY <1>4 DEF Age
  <2> QED
    BY <1>2, <1>3, <2>1, <2>2, CapTypes DEF File
<1>5. health' \in [Jobs -> File]
  BY <1>4 DEF Age
<1>6. /\ mem.kick \in Int /\ mem.boot \in Int /\ mem.rollbacks \in SUBSET Int /\ mem.crashes \in SUBSET Int
      /\ Aged(mem.kick, KickCap) /\ Aged(mem.boot, KickCap)
      /\ \A a \in mem.rollbacks : Aged(a, Day + Back)
      /\ \A a \in mem.crashes : Aged(a, CrashWindow + 1 + Back)
  BY <1>1 DEF Memory, Bounded
<1>7. /\ mem'.kick = AtMost(mem.kick + k, KickCap) /\ mem'.boot = AtMost(mem.boot + k, KickCap)
      /\ mem'.rollbacks = {AtMost(a + k, Day + Back) : a \in mem.rollbacks}
      /\ mem'.crashes = {AtMost(a + k, CrashWindow + 1 + Back) : a \in mem.crashes}
  BY <1>1 DEF Age, Memory
<1>8. /\ mem'.kick \in Int /\ mem'.boot \in Int
      /\ Floor' <= mem'.kick /\ mem'.kick <= KickCap /\ Floor' <= mem'.boot /\ mem'.boot <= KickCap
  BY <1>2, <1>6, <1>7, CapTypes
<1>9. \A a \in mem'.rollbacks : a \in Int /\ Floor' <= a /\ a <= Day + Back
  BY <1>2, <1>6, <1>7, CapTypes
<1>10. \A a \in mem'.crashes : a \in Int /\ Floor' <= a /\ a <= CrashWindow + 1 + Back
  BY <1>2, <1>6, <1>7, CapTypes
<1>11. mem' \in Memory
  BY <1>1, <1>7, <1>8, <1>9, <1>10 DEF Age, Memory
<1>12. /\ soak' \in {NoSoak} \cup [version : Versions, age : Int]
       /\ soak' # NoSoak => Floor' <= soak'.age /\ soak'.age <= SoakLength + Back
  <2>1. CASE soak = NoSoak
    BY <2>1 DEF Age
  <2>2. CASE soak # NoSoak
    <3>1. soak \in [version : Versions, age : Int] /\ Aged(soak.age, SoakLength + Back)
      BY <2>2 DEF Shape, Bounded
    <3>2. soak' = [soak EXCEPT !.age = AtMost(@ + k, SoakLength + Back)]
      BY <2>2 DEF Age
    <3> QED
      BY <1>2, <3>1, <3>2, CapTypes
  <2> QED
    BY <2>1, <2>2
<1>13. Bounded'
  BY <1>4, <1>8, <1>9, <1>10, <1>12 DEF Bounded, Aged
<1> QED
  BY <1>5, <1>11, <1>12, <1>13

\* What is left alone keeps its bounds, also after a fault.
LEMMA BoundedStays ==
  ASSUME Shape, Bounded, faults' \in {faults, faults + 1}
  PROVE  /\ health' = health => \A j \in Jobs : Aged(health[j].age, HealthCap)'
         /\ /\ mem'.kick = mem.kick /\ mem'.boot = mem.boot
            /\ mem'.rollbacks = mem.rollbacks /\ mem'.crashes = mem.crashes
            => /\ Aged(mem.kick, KickCap)' /\ Aged(mem.boot, KickCap)'
               /\ \A a \in mem'.rollbacks : Floor' <= a /\ a <= Day + Back
               /\ \A a \in mem'.crashes : Floor' <= a /\ a <= CrashWindow + 1 + Back
         /\ soak' \in {soak, NoSoak} /\ soak' # NoSoak => Aged(soak.age, SoakLength + Back)'
<1>1. faults \in 0 .. MaxFaults /\ health \in [Jobs -> File] /\ mem \in Memory
      /\ soak \in {NoSoak} \cup [version : Versions, age : Int]
  BY DEF Shape
<1>2. \A n \in Int : \A cap : Aged(n, cap) => Floor' <= n /\ n <= cap
  BY <1>1, AgedStays
<1>3. ASSUME health' = health, NEW j \in Jobs
      PROVE  Aged(health[j].age, HealthCap)'
  BY <1>1, <1>2, <1>3 DEF Bounded, Aged, File
<1>4. /\ mem.kick \in Int /\ mem.boot \in Int /\ mem.rollbacks \in SUBSET Int /\ mem.crashes \in SUBSET Int
  BY <1>1 DEF Memory
<1>5. soak # NoSoak => soak.age \in Int
  BY <1>1
<1> QED
  BY <1>2, <1>3, <1>4, <1>5 DEF Bounded, Aged

LEMMA MovedPidFacts ==
  ASSUME mem \in Memory
  PROVE  /\ MovedPid \in Memory /\ MovedPid.kick = mem.kick /\ MovedPid.boot = mem.boot
         /\ MovedPid.rollbacks = mem.rollbacks /\ MovedPid.crashes = mem.crashes
         /\ MovedPid.stale = mem.stale /\ MovedPid.own = mem.own
         /\ MovedPid.pid \in {"unknown", "other"}
BY DEF MovedPid, Memory

LEMMA RunningFacts ==
  ASSUME Shape
  PROVE  RunningVersion \in Versions
<1>1. "enforcer" \in Jobs
  BY DEF Jobs
<1> QED
  BY <1>1 DEF Shape, RunningVersion, File, Memory, Versioned

LEMMA SeenFacts ==
  ASSUME Shape
  PROVE  /\ Seen \in Memory /\ Seen.kick = mem.kick /\ Seen.boot = mem.boot
         /\ Seen.rollbacks = Rollbacks /\ Seen.crashes = Crashes
         /\ Seen.own = mem.own /\ Seen.pid = "same"
         /\ Seen.stale = [j \in Jobs |-> StaleCount(j)]
         /\ Rollbacks \in SUBSET mem.rollbacks
         /\ Crashes \in SUBSET (mem.crashes \cup {0})
<1>1. mem \in Memory
  BY DEF Shape
<1>2. ASSUME NEW j \in Jobs
      PROVE  StaleCount(j) \in 0 .. Confirmations
  <2>1. mem.stale[j] \in 0 .. Confirmations
    BY <1>1, <1>2 DEF Memory
  <2> QED
    BY <2>1, ConstantTypes DEF StaleCount, AtMost
<1>3. Rollbacks \in SUBSET mem.rollbacks /\ Crashes \in SUBSET (mem.crashes \cup {0})
  BY DEF Rollbacks, Crashes
<1>4. Rollbacks \in SUBSET Int /\ Crashes \in SUBSET Int
  BY <1>1, <1>3 DEF Memory
<1>5. [j \in Jobs |-> StaleCount(j)] \in [Jobs -> 0 .. Confirmations]
  BY <1>2
<1>6. Seen \in Memory
  BY <1>1, <1>4, <1>5 DEF Seen, Memory
<1> QED
  BY <1>1, <1>3, <1>6 DEF Seen, Memory

LEMMA BeginFacts ==
  ASSUME Shape, NEW at \in Points, NEW target \in Versions, NEW back \in BOOLEAN
  PROVE  /\ Begin(at, target, back) \in Step
         /\ Begin(at, target, back).at = at
         /\ Begin(at, target, back).target = target
         /\ Begin(at, target, back).running = RunningVersion
BY RunningFacts DEF Shape, Begin, Step, Versioned

\* A choice leaves the daemons alone, and starts the cooldown.
LEMMA ChoiceFacts ==
  ASSUME Shape, RollBack \/ Upgrade
  PROVE  /\ mem' \in Memory /\ mem'.kick = 0 /\ mem'.boot = mem.boot
         /\ mem'.rollbacks \in SUBSET (mem.rollbacks \cup {0})
         /\ mem'.crashes = Crashes /\ mem'.own = mem.own /\ mem'.pid = "same"
         /\ \A j \in Jobs : mem'.stale[j] \in {0, StaleCount(j)}
         /\ step' \in Step /\ step'.at \in {"quarantine", "install"}
         /\ step'.target \in Versions /\ step'.running = RunningVersion
<1>0. {"quarantine", "install"} \subseteq Points /\ mem \in Memory
  BY DEF Points, Shape
<1>1. CASE RollBack
  <2>1. lastGood \in Versions
    BY <1>1 DEF RollBack, MayRollBack, HasTarget, Shape, Versioned
  <2>2. mem' = [Seen EXCEPT !.rollbacks = Rollbacks \cup {0}, !.kick = 0, !.stale = [j \in Jobs |-> 0]]
    BY <1>1 DEF RollBack
  <2>3. Rollbacks \in SUBSET Int
    BY SeenFacts DEF Memory
  <2>4. [j \in Jobs |-> 0] \in [Jobs -> 0 .. Confirmations] /\ Rollbacks \cup {0} \in SUBSET Int
    BY <2>3, ConstantTypes
  <2>5. mem' \in Memory
    BY <2>2, <2>4, SeenFacts DEF Memory
  <2>6. /\ mem'.kick = 0 /\ mem'.boot = mem.boot /\ mem'.rollbacks = Rollbacks \cup {0}
        /\ mem'.crashes = Crashes /\ mem'.own = mem.own /\ mem'.pid = "same"
        /\ mem'.stale = [j \in Jobs |-> 0]
    BY <2>2, SeenFacts DEF Memory
  <2>7. step' = Begin("quarantine", lastGood, TRUE)
    BY <1>1 DEF RollBack
  <2>8. /\ step' \in Step /\ step'.at = "quarantine"
        /\ step'.target \in Versions /\ step'.running = RunningVersion
    BY <1>0, <2>1, <2>7, BeginFacts
  <2>9. mem'.rollbacks \in SUBSET (mem.rollbacks \cup {0})
    BY <2>6, SeenFacts
  <2>10. \A j \in Jobs : mem'.stale[j] = 0
    BY <2>6
  <2> QED
    BY <2>5, <2>6, <2>8, <2>9, <2>10
<1>2. CASE Upgrade
  <2>1. PICK v \in Candidates : step' = Begin("install", v, FALSE)
    BY <1>2 DEF Upgrade
  <2>2. v \in Versions
    BY <2>1 DEF Candidates, Shape
  <2>3. mem' = [Seen EXCEPT !.kick = 0]
    BY <1>2 DEF Upgrade
  <2>4. mem' \in Memory
    BY <2>3, SeenFacts DEF Memory
  <2>5. /\ mem'.kick = 0 /\ mem'.boot = mem.boot /\ mem'.rollbacks = Rollbacks
        /\ mem'.crashes = Crashes /\ mem'.own = mem.own /\ mem'.pid = "same"
        /\ mem'.stale = [j \in Jobs |-> StaleCount(j)]
    BY <2>3, SeenFacts DEF Memory
  <2> QED
    BY <1>0, <2>1, <2>2, <2>4, <2>5, BeginFacts, SeenFacts
<1> QED
  BY <1>1, <1>2

\* The end of a tick changes no package but to drop it, and no soak but to end it.
LEMMA EndFacts ==
  ASSUME Shape, NEW good, PromoteIfDue, PrunePkgCache(good)
  PROVE  /\ cache' \in SUBSET Versions /\ soaked' \in SUBSET Versions
         /\ soak' \in {NoSoak, soak}
<1>1. cache' \in SUBSET Versions
  BY DEF PrunePkgCache, Shape
<1>2. soak # NoSoak => soak.version \in Versions
  BY DEF Shape
<1> QED
  BY <1>1, <1>2 DEF PromoteIfDue, Shape

-----------------------------------------------------------------------------
(* Types and bounds, action by action. *)

LEMMA DecideKeepsTypes ==
  ASSUME TypeInv, Decide
  PROVE  TypeInv'
<1>1. /\ UNCHANGED <<disk, hung, wait, health, lastGood, quarantine, faults, flawed, woke>>
      /\ due' = FALSE
  BY DEF Decide, daemons
<1>2. Shape /\ Bounded /\ Calm /\ faults \in 0 .. MaxFaults /\ mem \in Memory
      /\ soak \in {NoSoak} \cup [version : Versions, age : Int]
  BY DEF TypeInv, Shape
<1>3. Floor \in Int /\ Floor <= 0 /\ Floor' = Floor
  BY <1>1, <1>2, FloorFacts
<1>4. CASE (RollBack \/ Upgrade) /\ calm' = 0 /\ UNCHANGED <<cache, soak, soaked>>
  <2>1. /\ mem' \in Memory /\ mem'.kick = 0 /\ mem'.boot = mem.boot
        /\ mem'.rollbacks \in SUBSET (mem.rollbacks \cup {0})
        /\ mem'.crashes \in SUBSET (mem.crashes \cup {0})
        /\ step' \in Step /\ step'.target \in Versions /\ step'.running \in Versions
    BY <1>2, <1>4, ChoiceFacts, SeenFacts, RunningFacts
  <2>2. Shape'
    BY <1>1, <1>2, <1>4, <2>1 DEF Shape
  <2>3. /\ \A a \in mem'.rollbacks : Aged(a, Day + Back)'
        /\ \A a \in mem'.crashes : Aged(a, CrashWindow + 1 + Back)'
    BY <1>2, <1>3, <2>1, CapTypes DEF Bounded, Aged
  <2>4. Bounded'
    BY <1>1, <1>2, <1>3, <1>4, <2>1, <2>3, CapTypes DEF Bounded, Aged
  <2>5. Calm'
    BY <1>4, <2>1 DEF Calm
  <2> QED
    BY <2>2, <2>4, <2>5 DEF TypeInv
<1>5. CASE LeaveAlone /\ UNCHANGED calm
  <2>1. mem' = Seen /\ step' = Idle /\ Idle \in Step /\ Idle.at = "idle"
    BY <1>5 DEF LeaveAlone, Idle, Step, Points, Versioned
  <2>2. cache' \in SUBSET Versions /\ soaked' \in SUBSET Versions /\ soak' \in {NoSoak, soak}
    BY <1>2, <1>5, EndFacts DEF LeaveAlone
  <2>3. Shape'
    BY <1>1, <1>2, <1>5, <2>1, <2>2, SeenFacts DEF Shape
  <2>4. /\ \A a \in mem'.rollbacks : Aged(a, Day + Back)'
        /\ \A a \in mem'.crashes : Aged(a, CrashWindow + 1 + Back)'
    BY <1>2, <1>3, <2>1, SeenFacts, CapTypes DEF Bounded, Aged
  <2>5. Bounded'
    BY <1>1, <1>2, <1>3, <2>1, <2>2, <2>4, SeenFacts DEF Bounded, Aged
  <2>6. Calm'
    BY <1>2, <1>5, <2>1, SeenFacts DEF Calm
  <2> QED
    BY <2>3, <2>5, <2>6 DEF TypeInv
<1> QED
  BY <1>4, <1>5 DEF Decide

\* A step of the tick after its decision: what it may do to what has a type.
LEMMA WorkKeepsTypes ==
  ASSUME TypeInv, faults' \in {faults, faults + 1}, faults' <= MaxFaults,
         UNCHANGED <<health, due, calm, woke>>,
         mem' \in {mem, MovedPid},
         disk' \in Versions, hung' \in SUBSET Jobs,
         wait' \in [Jobs -> Nat], \A j \in Jobs : wait'[j] <= Longest[j],
         cache' \in SUBSET Versions, quarantine' \in SUBSET Versions,
         soaked' \in SUBSET Versions, lastGood' \in Versioned,
         \/ soak' \in {NoSoak, soak}
         \/ soak' \in [version : Versions, age : Int] /\ soak'.age = 0,
         \/ step' = Idle
         \/ step.at # "idle" /\ (\E at \in Points \ {"idle"} : Goes(at))
              /\ (step.at = "end" => step'.at = "end")
         \/ step' = step
  PROVE  TypeInv'
<1>1. Shape /\ Bounded /\ Calm /\ faults \in 0 .. MaxFaults /\ mem \in Memory /\ step \in Step
      /\ soak \in {NoSoak} \cup [version : Versions, age : Int]
  BY DEF TypeInv, Shape
<1>2. /\ mem' \in Memory /\ mem'.kick = mem.kick /\ mem'.boot = mem.boot
      /\ mem'.rollbacks = mem.rollbacks /\ mem'.crashes = mem.crashes
  BY <1>1, MovedPidFacts
<1>3. Floor' \in Int /\ Floor' <= 0
  BY <1>1, FloorFacts, ConstantTypes
<1>4. /\ step' \in Step
      /\ step'.at \in {"quarantine", "install", "record", "shadow", "kickstart"}
           => step'.target \in Versions /\ step'.running \in Versions
  <2>1. CASE step' = Idle
    BY <2>1 DEF Idle, Step, Points, Versioned
  <2>2. CASE step.at # "idle" /\ (\E at \in Points \ {"idle"} : Goes(at))
               /\ (step.at = "end" => step'.at = "end")
    <3>1. PICK at \in Points \ {"idle"} : step' = [step EXCEPT !.at = at]
      BY <2>2 DEF Goes
    <3>2. step' \in Step /\ step'.at = at /\ step'.target = step.target /\ step'.running = step.running
      BY <1>1, <3>1 DEF Step
    <3> QED
      BY <1>1, <2>2, <3>2 DEF Shape, Step, Points
  <2>3. CASE step' = step
    BY <1>1, <2>3 DEF Shape
  <2> QED
    BY <2>1, <2>2, <2>3
<1>5. soak' \in {NoSoak} \cup [version : Versions, age : Int]
  BY <1>1
<1>6. Shape'
  <2>1. faults' \in 0 .. MaxFaults
    BY <1>1, ConstantTypes
  <2> QED
    BY <1>1, <1>2, <1>4, <1>5, <2>1 DEF Shape
<1>7. soak' # NoSoak => Aged(soak.age, SoakLength + Back)'
  BY <1>1, <1>3, BoundedStays, CapTypes DEF Aged
<1>8. Bounded'
  BY <1>1, <1>2, <1>7, BoundedStays DEF Bounded, Aged
<1>9. Calm'
  BY <1>1, <1>2 DEF Calm
<1> QED
  BY <1>6, <1>8, <1>9 DEF TypeInv

LEMMA FaultFacts ==
  ASSUME Shape
  PROVE  /\ Fault => faults' = faults + 1 /\ faults' <= MaxFaults
         /\ UNCHANGED faults => faults' \in {faults, faults + 1} /\ faults' <= MaxFaults
<1>1. faults \in 0 .. MaxFaults
  BY DEF Shape
<1> QED
  BY <1>1, ConstantTypes DEF Fault

LEMMA InstallKeepsTypes ==
  ASSUME TypeInv, Install
  PROVE  TypeInv'
<1>1. Shape
  BY DEF TypeInv
<1>2. /\ step.at = "install" /\ step \in Step /\ step.target \in Versions
      /\ UNCHANGED <<lastGood, soak, soaked, due, calm, woke>>
  BY <1>1 DEF Install, history, Shape
<1>3. {"kickstart", "record", "end"} \subseteq Points \ {"idle"}
  BY DEF Points
<1>4. \A version : Reload(version) /\ version \in Versions =>
        /\ disk' \in Versions /\ hung' \in SUBSET Jobs /\ wait' \in [Jobs -> Nat]
        /\ \A j \in Jobs : wait'[j] <= Longest[j]
        /\ mem' = MovedPid /\ UNCHANGED health
  BY CapTypes DEF Reload
<1>5. Untouched =>
        /\ disk' \in Versions /\ hung' \in SUBSET Jobs /\ wait' \in [Jobs -> Nat]
        /\ \A j \in Jobs : wait'[j] <= Longest[j]
        /\ mem' = mem /\ UNCHANGED health
  BY <1>1 DEF Untouched, daemons, Shape
<1>6. /\ cache \in SUBSET Versions /\ quarantine \in SUBSET Versions /\ soaked \in SUBSET Versions
      /\ lastGood \in Versioned
  BY <1>1 DEF Shape
<1>7. CASE Installed
  <2>1. Goes("kickstart") \/ Goes("record")
    BY <1>7 DEF Installed
  <2>2. Reload(step.target) /\ UNCHANGED <<cache, quarantine, faults>>
    BY <1>7 DEF Installed
  <2> QED
    BY <1>1, <1>2, <1>3, <1>4, <1>6, <2>1, <2>2, FaultFacts, WorkKeepsTypes
<1>8. CASE NotInstalled
  BY <1>1, <1>2, <1>3, <1>5, <1>6, <1>8, FaultFacts, WorkKeepsTypes DEF NotInstalled
<1>9. CASE InstalledWithError
  BY <1>1, <1>2, <1>3, <1>4, <1>6, <1>9, FaultFacts, WorkKeepsTypes DEF InstalledWithError
<1>10. CASE DigestMismatch
  <2>1. quarantine' \in SUBSET Versions /\ cache' \in SUBSET Versions
    BY <1>2, <1>6, <1>10 DEF DigestMismatch
  <2> QED
    BY <1>1, <1>2, <1>3, <1>5, <1>6, <1>10, <2>1, FaultFacts, WorkKeepsTypes DEF DigestMismatch
<1> QED
  BY <1>7, <1>8, <1>9, <1>10 DEF Install

LEMMA TickKeepsTypes ==
  ASSUME TypeInv, GiveUp \/ RecordLastGood \/ EnterShadow \/ Kickstart \/ EndTick
  PROVE  TypeInv'
<1>1. Shape
  BY DEF TypeInv
<1>2. /\ disk \in Versions /\ hung \in SUBSET Jobs
      /\ wait \in [Jobs -> Nat] /\ \A j \in Jobs : wait[j] <= Longest[j]
      /\ cache \in SUBSET Versions /\ quarantine \in SUBSET Versions /\ soaked \in SUBSET Versions
      /\ lastGood \in Versioned /\ step \in Step
      /\ step.at \in {"quarantine", "install", "record", "shadow", "kickstart"}
           => step.target \in Versions /\ step.running \in Versions
  BY <1>1 DEF Shape
<1>3. {"install", "shadow", "kickstart", "end"} \subseteq Points \ {"idle"}
  BY DEF Points
<1>4. UNCHANGED faults => faults' \in {faults, faults + 1} /\ faults' <= MaxFaults
  BY <1>1, FaultFacts
<1>5. CASE GiveUp
  <2>1. /\ step.at = "quarantine" /\ Goes("install") /\ soak' = NoSoak
        /\ quarantine' = quarantine \cup {step.running}
        /\ UNCHANGED <<disk, hung, wait, health, cache, lastGood, soaked, mem, due, faults, calm, woke>>
    BY <1>5 DEF GiveUp, daemons, history
  <2> QED
    BY <1>2, <1>3, <1>4, <2>1, WorkKeepsTypes
<1>6. CASE RecordLastGood
  <2>1. /\ step.at = "record" /\ Goes("shadow") /\ lastGood' = step.running
        /\ UNCHANGED <<disk, hung, wait, health, cache, quarantine, soak, soaked, mem, due, faults,
                       calm, woke>>
    BY <1>6 DEF RecordLastGood, daemons, history
  <2>2. lastGood' \in Versioned
    BY <1>2, <2>1 DEF Versioned
  <2> QED
    BY <1>2, <1>3, <1>4, <2>1, <2>2, WorkKeepsTypes
<1>7. CASE EnterShadow
  <2>1. /\ step.at = "shadow" /\ Goes("kickstart")
        /\ soak' = IF step.target \in soaked THEN soak ELSE [version |-> step.target, age |-> 0]
        /\ UNCHANGED <<disk, hung, wait, health, cache, lastGood, quarantine, soaked, mem, due, faults,
                       calm, woke>>
    BY <1>7 DEF EnterShadow, daemons, history
  <2>2. soak' = soak \/ (soak' \in [version : Versions, age : Int] /\ soak'.age = 0)
    BY <1>2, <2>1
  <2> QED
    BY <1>2, <1>3, <1>4, <2>1, <2>2, WorkKeepsTypes
<1>8. CASE Kickstart
  <2>1. /\ step.at = "kickstart" /\ Goes("end")
        /\ hung' = hung \ {"sync"} /\ wait' = [wait EXCEPT !["sync"] = 1] /\ mem' = MovedPid
        /\ UNCHANGED <<disk, health, cache, lastGood, quarantine, soak, soaked, due, faults,
                       calm, woke>>
    BY <1>8 DEF Kickstart, files, history
  <2>2. wait' \in [Jobs -> Nat] /\ \A j \in Jobs : wait'[j] <= Longest[j]
    BY <1>2, <2>1, CapTypes DEF Jobs
  <2> QED
    BY <1>2, <1>3, <1>4, <2>1, <2>2, WorkKeepsTypes
<1>9. CASE EndTick
  <2>1. /\ step' = Idle /\ PromoteIfDue /\ PrunePkgCache(step.good)
        /\ UNCHANGED <<disk, hung, wait, health, lastGood, quarantine, mem, due, faults, calm, woke>>
    BY <1>9 DEF EndTick, daemons, history
  <2>2. cache' \in SUBSET Versions /\ soaked' \in SUBSET Versions /\ soak' \in {NoSoak, soak}
    BY <1>1, <2>1, EndFacts
  <2> QED
    BY <1>2, <1>4, <2>1, <2>2, WorkKeepsTypes
<1> QED
  BY <1>5, <1>6, <1>7, <1>8, <1>9

LEMMA RestartKeepsTypes ==
  ASSUME TypeInv, Restart
  PROVE  TypeInv'
<1>1. /\ Shape /\ Bounded /\ faults \in 0 .. MaxFaults /\ disk \in Versions
      /\ UNCHANGED <<disk, hung, wait, health, cache, lastGood, quarantine, soak, soaked,
                     flawed, calm, woke>>
      /\ mem' = NewProcess(disk) /\ step' = Idle /\ due' = TRUE
  BY DEF TypeInv, Restart, daemons, files, history, Shape
<1>2. faults' = faults + 1 /\ faults' \in 0 .. MaxFaults
  BY <1>1, FaultFacts DEF Restart
<1>3. Floor' \in Int /\ Floor' <= 0
  BY <1>1, <1>2, FloorFacts, ConstantTypes
<1>4. /\ mem' \in Memory /\ mem'.kick = KickCap /\ mem'.boot = 0
      /\ mem'.rollbacks = {} /\ mem'.crashes = {}
  BY <1>1, CapTypes, ConstantTypes DEF NewProcess, Memory
<1>5. Idle \in Step /\ Idle.at = "idle"
  BY DEF Idle, Step, Points, Versioned
<1>6. Shape'
  BY <1>1, <1>2, <1>4, <1>5 DEF Shape
<1>7. Aged(mem.kick, KickCap)' /\ Aged(mem.boot, KickCap)'
  BY <1>3, <1>4, CapTypes DEF Aged
<1>8. Bounded'
  BY <1>1, <1>2, <1>4, <1>7, BoundedStays DEF Bounded
<1>9. Calm'
  <2>1. calm' \in Nat
    BY <1>6 DEF Shape
  <2> QED
    BY <1>4, <2>1 DEF Calm
<1> QED
  BY <1>6, <1>8, <1>9 DEF TypeInv

LEMMA TicksFacts ==
  ASSUME Shape, Bounded, NEW j \in Jobs, NEW locking \in BOOLEAN, Ticks(j, locking),
         UNCHANGED faults
  PROVE  /\ wait' \in [Jobs -> Nat] /\ \A i \in Jobs : wait'[i] <= Longest[i]
         /\ health' \in [Jobs -> File]
         /\ \A i \in Jobs : Aged(health[i].age, HealthCap)'
<1>1. /\ wait \in [Jobs -> Nat] /\ \A i \in Jobs : wait[i] <= Longest[i]
      /\ health \in [Jobs -> File] /\ disk \in Versions /\ faults \in 0 .. MaxFaults
  BY DEF Shape
<1>2. [age |-> 0, version |-> disk, locking |-> locking] \in File
  BY <1>1 DEF File, Versioned
<1>3. Floor \in Int /\ Floor <= 0 /\ Floor' = Floor
  BY <1>1, FloorFacts
<1> QED
  BY <1>1, <1>2, <1>3, CapTypes DEF Ticks, Bounded, Aged

LEMMA TicksKeepTypes ==
  ASSUME TypeInv, EnforcerTick \/ SyncTick
  PROVE  TypeInv'
<1>1. Shape /\ Bounded /\ Calm
  BY DEF TypeInv
<1>2. /\ UNCHANGED <<disk, hung, cache, lastGood, quarantine, soak, soaked, mem, step, due, faults,
                    flawed, calm, woke>>
      /\ \E j \in Jobs, locking \in BOOLEAN : Ticks(j, locking)
  BY DEF EnforcerTick, SyncTick, files, history, Jobs
<1>3. /\ wait' \in [Jobs -> Nat] /\ \A i \in Jobs : wait'[i] <= Longest[i]
      /\ health' \in [Jobs -> File]
      /\ \A i \in Jobs : Aged(health[i].age, HealthCap)'
  BY <1>1, <1>2, TicksFacts
<1>4. Shape'
  BY <1>1, <1>2, <1>3 DEF Shape
<1>5. Bounded'
  BY <1>1, <1>2, <1>3, BoundedStays DEF Bounded, Aged
<1> QED
  BY <1>1, <1>2, <1>4, <1>5 DEF TypeInv, Calm

LEMMA FailuresKeepTypes ==
  ASSUME TypeInv, (\E j \in Jobs : Hang(j)) \/ SyncCrash \/ Stage
  PROVE  TypeInv'
<1>1. Shape
  BY DEF TypeInv
<1>2. /\ disk \in Versions /\ hung \in SUBSET Jobs
      /\ wait \in [Jobs -> Nat] /\ \A j \in Jobs : wait[j] <= Longest[j]
      /\ cache \in SUBSET Versions /\ quarantine \in SUBSET Versions /\ soaked \in SUBSET Versions
      /\ lastGood \in Versioned
  BY <1>1 DEF Shape
<1>3. UNCHANGED faults => faults' \in {faults, faults + 1} /\ faults' <= MaxFaults
  BY <1>1, FaultFacts
<1>4. CASE \E j \in Jobs : Hang(j)
  <2>1. /\ hung' \in SUBSET Jobs
        /\ UNCHANGED <<disk, wait, health, cache, lastGood, quarantine, soak, soaked,
                      mem, step, due, faults, flawed, calm, woke>>
    BY <1>2, <1>4 DEF Hang, files, history
  <2> QED
    BY <1>2, <1>3, <2>1, WorkKeepsTypes
<1>5. CASE SyncCrash
  <2>1. /\ mem' = MovedPid /\ wait' = [wait EXCEPT !["sync"] = 1]
        /\ UNCHANGED <<disk, hung, health, cache, lastGood, quarantine, soak, soaked,
                      step, due, faults, flawed, calm, woke>>
    BY <1>5 DEF SyncCrash, files, history
  <2>2. wait' \in [Jobs -> Nat] /\ \A j \in Jobs : wait'[j] <= Longest[j]
    BY <1>2, <2>1, CapTypes DEF Jobs
  <2> QED
    BY <1>2, <1>3, <2>1, <2>2, WorkKeepsTypes
<1>6. CASE Stage
  <2>1. /\ cache' \in SUBSET Versions
        /\ UNCHANGED <<disk, hung, wait, health, lastGood, quarantine, soak, soaked,
                      mem, step, due, faults, flawed, calm, woke>>
    BY <1>2, <1>6 DEF Stage, daemons, history
  <2> QED
    BY <1>2, <1>3, <2>1, WorkKeepsTypes
<1> QED
  BY <1>4, <1>5, <1>6

\* Time passes, or the Mac sleeps, or the clock is corrected.
LEMMA TimeKeepsTypes ==
  ASSUME TypeInv, Pass \/ (\E k \in Sleeps : Sleep(k)) \/ CorrectClock
  PROVE  TypeInv'
<1>1. /\ Shape /\ Bounded /\ Calm /\ faults \in 0 .. MaxFaults /\ calm \in Nat /\ woke \in Nat
      /\ wait \in [Jobs -> Nat] /\ \A j \in Jobs : wait[j] <= Longest[j]
      /\ mem \in Memory /\ mem.kick \in Int /\ mem.boot \in Int /\ due \in BOOLEAN
  BY DEF TypeInv, Shape, Memory
<1>2. /\ Floor \in Int
      /\ faults' = faults + 1 => Floor' = Floor - Back
  BY <1>1, FloorFacts
<1>3. UNCHANGED <<disk, hung, cache, lastGood, quarantine, soaked, step, flawed>>
  BY DEF Pass, Sleep, CorrectClock, history
\* How far trusted time has moved.
<1>4. PICK k \in Int :
        /\ Age(k) /\ Floor' <= Floor + k
        /\ faults' \in {faults, faults + 1} /\ faults' \in 0 .. MaxFaults
        /\ wait' \in [Jobs -> Nat] /\ \A j \in Jobs : wait'[j] <= Longest[j]
        /\ due' \in BOOLEAN /\ calm' \in Nat /\ woke' \in Nat
        /\ (calm' = AtMost(calm + k, Cooldown) /\ k >= 0) \/ (calm' = calm /\ k <= 0)
  <2>1. CASE Pass
    <3>1. Floor' = Floor /\ faults' = faults
      BY <1>1, <2>1, FloorFacts DEF Pass
    <3>2. \A j \in Jobs : AtMost(wait[j] + 1, Longest[j]) \in Nat /\ AtMost(wait[j] + 1, Longest[j]) <= Longest[j]
      BY <1>1, CapTypes DEF AtMost
    <3>3. wait' \in [Jobs -> Nat] /\ \A j \in Jobs : wait'[j] <= Longest[j]
      BY <2>1, <3>2 DEF Pass
    <3>4. calm' \in Nat /\ woke' \in Nat
      BY <1>1, <2>1, ConstantTypes DEF Pass, AtMost
    <3> QED
      BY <1>1, <1>2, <2>1, <3>1, <3>3, <3>4 DEF Pass
  <2>2. CASE \E k \in Sleeps : Sleep(k)
    <3>1. PICK k \in Sleeps : Sleep(k)
      BY <2>2
    <3>2. k \in Nat /\ faults' = faults + 1 /\ faults' \in 0 .. MaxFaults
      BY <1>1, <3>1, FaultFacts, ConstantTypes DEF Sleep
    <3>3. Floor' <= Floor + k
      BY <1>2, <3>2, ConstantTypes
    <3>4. calm' \in Nat /\ woke' \in Nat /\ due' \in BOOLEAN
      BY <1>1, <3>1, <3>2, ConstantTypes DEF Sleep, AtMost
    <3> QED
      BY <1>1, <3>1, <3>2, <3>3, <3>4 DEF Sleep
  <2>3. CASE CorrectClock
    <3>1. faults' = faults + 1 /\ faults' \in 0 .. MaxFaults
      BY <1>1, <2>3, FaultFacts DEF CorrectClock
    <3>2. -Back \in Int /\ -Back <= 0 /\ Floor' <= Floor + (-Back)
      BY <1>2, <3>1, ConstantTypes
    <3>3. due' \in BOOLEAN /\ calm' = calm /\ woke' = woke /\ wait' = wait
      BY <1>1, <2>3 DEF CorrectClock, history
    <3> QED
      BY <1>1, <2>3, <3>1, <3>2, <3>3 DEF CorrectClock
  <2> QED
    BY <2>1, <2>2, <2>3
<1>5. /\ health' \in [Jobs -> File] /\ mem' \in Memory
      /\ soak' \in {NoSoak} \cup [version : Versions, age : Int]
      /\ Bounded'
  BY <1>1, <1>4, AgeKeeps
<1>6. Shape'
  BY <1>1, <1>3, <1>4, <1>5 DEF Shape
<1>7. mem'.kick = AtMost(mem.kick + k, KickCap) /\ mem'.boot = AtMost(mem.boot + k, KickCap)
  BY <1>1, <1>4 DEF Age, Memory
<1>8. Calm'
  <2>1. /\ mem'.kick <= mem.kick + k /\ mem'.boot <= mem.boot + k
        /\ mem'.kick \in Int /\ mem'.boot \in Int
    BY <1>1, <1>7, CapTypes DEF AtMost
  <2>2. CASE calm' = AtMost(calm + k, Cooldown) /\ k >= 0
    BY <1>1, <2>1, <2>2, ConstantTypes DEF Calm, AtMost
  <2>3. CASE calm' = calm /\ k <= 0
    BY <1>1, <2>1, <2>3, ConstantTypes DEF Calm
  <2> QED
    BY <1>4, <2>2, <2>3
<1> QED
  BY <1>5, <1>6, <1>8 DEF TypeInv

LEMMA NextKeepsTypes ==
  ASSUME TypeInv, [Next]_vars
  PROVE  TypeInv'
<1>1. CASE Supervise
  BY <1>1, DecideKeepsTypes, InstallKeepsTypes, TickKeepsTypes DEF Supervise
<1>2. CASE Restart
  BY <1>2, RestartKeepsTypes
<1>3. CASE EnforcerTick \/ SyncTick
  BY <1>3, TicksKeepTypes
<1>4. CASE (\E j \in Jobs : Hang(j)) \/ SyncCrash \/ Stage
  BY <1>4, FailuresKeepTypes
<1>5. CASE Pass \/ (\E k \in Sleeps : Sleep(k)) \/ CorrectClock
  BY <1>5, TimeKeepsTypes
<1>6. CASE UNCHANGED vars
  <2>1. Floor' = Floor
    BY <1>6 DEF vars, Floor
  <2> QED
    BY <1>6, <2>1 DEF vars, TypeInv, Shape, Bounded, Aged, Calm
<1> QED
  BY <1>1, <1>2, <1>3, <1>4, <1>5, <1>6 DEF Next

LEMMA InitTypes == Init => TypeInv
<1> SUFFICES ASSUME Init PROVE TypeInv
  OBVIOUS
<1>1. /\ KickCap \in Nat /\ HealthCap \in Nat /\ First \in Versions
      /\ mem \in Memory /\ mem.kick = KickCap /\ mem.boot = 0
      /\ mem.rollbacks = {} /\ mem.crashes = {}
  BY CapTypes, ConstantTypes DEF Init, NewProcess, Memory
<1>2. faults = 0 /\ faults \in 0 .. MaxFaults /\ Floor \in Int /\ Floor <= 0
  BY FloorFacts, ConstantTypes DEF Init
<1>3. health \in [Jobs -> File] /\ \A j \in Jobs : health[j].age = HealthCap
  BY <1>1 DEF Init, File, Versioned
<1>4. step \in Step /\ step.at = "idle"
  BY DEF Init, Idle, Step, Points, Versioned
<1>5. wait \in [Jobs -> Nat] /\ \A j \in Jobs : wait[j] <= Longest[j]
  BY CapTypes DEF Init
<1>6. Shape
  <2>1. /\ disk \in Versions /\ hung \in SUBSET Jobs /\ lastGood \in Versioned
        /\ cache \in SUBSET Versions /\ quarantine \in SUBSET Versions /\ soaked \in SUBSET Versions
        /\ soak \in {NoSoak} \cup [version : Versions, age : Int]
        /\ due \in BOOLEAN
    BY <1>1 DEF Init, Versioned
  <2>2. calm \in Nat /\ woke \in Nat
    BY ConstantTypes DEF Init
  <2> QED
    BY <1>1, <1>2, <1>3, <1>4, <1>5, <2>1, <2>2 DEF Shape
<1>7. Bounded
  BY <1>1, <1>2, <1>3 DEF Init, Bounded, Aged
<1>8. Calm
  BY <1>1 DEF Init, Calm
<1> QED
  BY <1>6, <1>7, <1>8 DEF TypeInv

LEMMA TypesInvariant == Spec => []TypeInv
<1>1. Init => TypeInv
  BY InitTypes
<1>2. TypeInv /\ [Next]_vars => TypeInv'
  BY NextKeepsTypes
<1> QED
  BY <1>1, <1>2, PTL DEF Spec

LEMMA TypeInvGivesTypeOK == TypeInv => TypeOK
<1> SUFFICES ASSUME TypeInv PROVE TypeOK
  OBVIOUS
<1>1. /\ Floor \in Int /\ -(Back * MaxFaults) <= Floor /\ -(Back * MaxFaults) \in Int
  <2>1. faults \in 0 .. MaxFaults
    BY DEF TypeInv, Shape
  <2>2. Back * MaxFaults \in Nat
    BY ConstantTypes
  <2> QED
    BY <2>1, <2>2, FloorFacts
<1>2. \A n \in Int, cap \in Nat : Aged(n, cap) => n \in Ages(cap)
  BY <1>1 DEF Aged, Ages
<1>3. ASSUME NEW j \in Jobs
      PROVE  /\ wait[j] \in 0 .. SyncGap + 1
             /\ health[j].age \in Ages(HealthCap)
             /\ health[j].version \in Versions \cup {None} /\ health[j].locking \in BOOLEAN
  <2>1. wait[j] \in Nat /\ wait[j] <= Longest[j] /\ health[j] \in File /\ Aged(health[j].age, HealthCap)
    BY <1>3 DEF TypeInv, Shape, Bounded
  <2>2. Longest[j] \in Nat /\ Longest[j] <= SyncGap + 1
    BY <1>3, ConstantTypes DEF Longest, Jobs
  <2> QED
    BY <1>2, <2>1, <2>2, CapTypes, ConstantTypes DEF File, Versioned
<1>4. /\ wait \in [Jobs -> 0 .. SyncGap + 1]
  BY <1>3 DEF TypeInv, Shape
<1>5. /\ mem.stale \in [Jobs -> 0 .. Confirmations]
      /\ mem.kick \in Ages(KickCap) /\ mem.boot \in Ages(KickCap)
      /\ mem.rollbacks \subseteq Ages(Day + Back)
      /\ mem.crashes \subseteq Ages(CrashWindow + 1 + Back)
      /\ mem.pid \in {"unknown", "same", "other"} /\ mem.own \in Versions
  <2>1. /\ mem \in Memory /\ Aged(mem.kick, KickCap) /\ Aged(mem.boot, KickCap)
        /\ \A a \in mem.rollbacks : Aged(a, Day + Back)
        /\ \A a \in mem.crashes : Aged(a, CrashWindow + 1 + Back)
    BY DEF TypeInv, Shape, Bounded
  <2> QED
    BY <1>2, <2>1, CapTypes DEF Memory
<1>6. soak = NoSoak \/ (soak.version \in Versions /\ soak.age \in Ages(SoakLength + Back))
  BY <1>2, CapTypes DEF TypeInv, Shape, Bounded
<1> QED
  BY <1>3, <1>4, <1>5, <1>6 DEF TypeOK, TypeInv, Shape, Versioned

\* Every variable keeps its type, and nothing is younger than the corrections of
\* the clock together can make it.
THEOREM TypesHold == Spec => []TypeOK
BY TypesInvariant, TypeInvGivesTypeOK, PTL

-----------------------------------------------------------------------------
(* The cooldown. *)

LEMMA CooldownIsOver ==
  ASSUME TypeInv, ~InCooldown
  PROVE  calm >= Cooldown
<1>1. /\ mem.kick \in Int /\ mem.boot \in Int /\ calm \in Nat /\ Calm
  BY DEF TypeInv, Shape, Memory
<1>2. mem.kick >= Cooldown /\ mem.boot >= Cooldown
  BY <1>1, ConstantTypes DEF InCooldown
<1> QED
  BY <1>1, <1>2, ConstantTypes DEF Calm

LEMMA ChoiceIsAsked ==
  ASSUME Next, step'.at \in {"quarantine", "install"}, step.at = "idle"
  PROVE  ~InCooldown
<1>1. Idle.at = "idle"
  BY DEF Idle
<1>2. step' # step /\ step' # Idle
  BY <1>1
<1>3. Decide
  BY <1>2 DEF Next, Supervise, GiveUp, Install, RecordLastGood, EnterShadow, Kickstart, EndTick,
     Restart, EnforcerTick, Stage, SyncTick, Hang, SyncCrash, Pass, Sleep, CorrectClock
<1>4. RollBack \/ Upgrade
  BY <1>2, <1>3 DEF Decide, LeaveAlone
<1> QED
  BY <1>4 DEF RollBack, MayRollBack, Upgrade, MayUpgrade

\* Whatever dies, fails or is corrected in between, the supervisor does not choose
\* twice within a cooldown to restart the daemons.
THEOREM KicksApartAlways == Spec => KicksApart
<1>1. TypeInv /\ [Next]_vars =>
        [step'.at \in {"quarantine", "install"} /\ step.at = "idle" => calm >= Cooldown]_vars
  BY ChoiceIsAsked, CooldownIsOver
<1> QED
  BY <1>1, TypesInvariant, PTL DEF Spec, KicksApart

-----------------------------------------------------------------------------
(* A version that works is not given up: what each action keeps. *)

\* What the arithmetic below needs to know of the state.
LEMMA Numbers ==
  ASSUME TypeInv
  PROVE  /\ mem.kick \in Int /\ mem.boot \in Int /\ woke \in Nat /\ calm \in Nat
         /\ mem.crashes \in SUBSET Int /\ mem \in Memory
         /\ \A a \in mem.crashes : a \in Int /\ -(Back * MaxFaults) <= a
         /\ Back * MaxFaults \in Nat
         /\ \A j \in Jobs :
              /\ wait[j] \in Nat /\ wait[j] <= Longest[j]
              /\ mem.stale[j] \in Nat
              /\ health[j] \in File /\ health[j].age \in Int
<1>1. /\ mem \in Memory /\ woke \in Nat /\ calm \in Nat /\ wait \in [Jobs -> Nat]
      /\ \A j \in Jobs : wait[j] <= Longest[j]
      /\ health \in [Jobs -> File] /\ faults \in 0 .. MaxFaults
      /\ \A a \in mem.crashes : Aged(a, CrashWindow + 1 + Back)
  BY DEF TypeInv, Shape, Bounded
<1>2. Floor \in Int /\ -(Back * MaxFaults) <= Floor
  BY <1>1, FloorFacts
<1>3. Back * MaxFaults \in Nat
  BY ConstantTypes
<1>4. mem.crashes \in SUBSET Int /\ \A j \in Jobs : mem.stale[j] \in Nat /\ health[j].age \in Int
  BY <1>1, ConstantTypes DEF Memory, File
<1>5. \A a \in mem.crashes : a \in Int /\ -(Back * MaxFaults) <= a
  BY <1>1, <1>2, <1>3, <1>4 DEF Aged
<1> QED
  BY <1>1, <1>3, <1>4, <1>5 DEF Memory

LEMMA RecentGrows ==
  ASSUME TypeInv, NEW m \in Int, NEW n \in Int, m <= n, Recent(m)
  PROVE  Recent(n)
BY Numbers DEF Recent

\* After a choice has been made, whatever the supervisor does to the daemons is its
\* own doing: it comes no later than the choice, the start or the wake.
LEMMA WorkKeepsJudged ==
  ASSUME TypeInv, TypeInv', Judged, step.at # "idle", step'.at # "quarantine",
         mem' \in {mem, MovedPid}, UNCHANGED <<health, flawed, woke>>,
         \/ disk' = disk /\ hung' \in SUBSET hung /\ wait'["enforcer"] = wait["enforcer"]
         \/ hung' = {} /\ wait'["enforcer"] = 1
  PROVE  Judged'
<1>1. /\ Running /\ Lone /\ Recent(0)
  BY DEF Judged, Running
<1>2. /\ mem'.kick = mem.kick /\ mem'.boot = mem.boot /\ mem'.own = mem.own
      /\ mem'.crashes = mem.crashes
  BY Numbers, MovedPidFacts
<1>3. Recent(0)'
  BY <1>1, <1>2 DEF Recent
<1>4. \A j \in Jobs : wait'[j] \in Nat
  BY DEF TypeInv, Shape
<1>5. \A j \in Jobs : Recent(wait[j])'
  <2>1. mem'.kick \in Int /\ mem'.boot \in Int /\ woke' \in Int
    BY <1>2, Numbers
  <2> QED
    BY <1>3, <1>4, <2>1 DEF Recent
<1>6. Running'
  BY <1>1, <1>2, <1>3 DEF Running, RunningVersion
<1>7. Lone'
  BY <1>1, <1>2 DEF Lone, Over
<1> QED
  BY <1>5, <1>6, <1>7 DEF Judged, Fresh, Counted

LEMMA TickKeepsJudged ==
  ASSUME TypeInv, TypeInv', Judged,
         GiveUp \/ Install \/ RecordLastGood \/ EnterShadow \/ Kickstart \/ EndTick
  PROVE  Judged'
<1>1. step \in Step /\ wait \in [Jobs -> Nat]
  BY DEF TypeInv, Shape
<1>2. step.at # "idle" /\ step'.at # "quarantine"
  <2>1. step.at \in {"quarantine", "install", "record", "shadow", "kickstart", "end"}
    BY DEF GiveUp, Install, RecordLastGood, EnterShadow, Kickstart, EndTick
  <2>2. \/ step' = Idle
        \/ \E at \in {"install", "record", "shadow", "kickstart", "end"} : Goes(at)
    BY DEF GiveUp, Install, Installed, NotInstalled, InstalledWithError, DigestMismatch,
       RecordLastGood, EnterShadow, Kickstart, EndTick
  <2>3. Idle.at = "idle" /\ \A at : Goes(at) => step'.at = at
    BY <1>1 DEF Idle, Goes, Step
  <2> QED
    BY <2>1, <2>2, <2>3
<1>3. mem' \in {mem, MovedPid} /\ UNCHANGED <<health, flawed, woke>>
  BY DEF GiveUp, Install, Installed, NotInstalled, InstalledWithError, DigestMismatch, Reload,
     Untouched, RecordLastGood, EnterShadow, Kickstart, EndTick, daemons, history
<1>4. \/ disk' = disk /\ hung' \in SUBSET hung /\ wait'["enforcer"] = wait["enforcer"]
      \/ hung' = {} /\ wait'["enforcer"] = 1
  <2>1. CASE Install
    BY <2>1 DEF Install, Installed, NotInstalled, InstalledWithError, DigestMismatch, Reload,
       Untouched, daemons, Jobs
  <2>2. CASE Kickstart
    BY <1>1, <2>2 DEF Kickstart, Jobs
  <2>3. CASE GiveUp \/ RecordLastGood \/ EnterShadow \/ EndTick
    BY <2>3 DEF GiveUp, RecordLastGood, EnterShadow, EndTick, daemons
  <2> QED
    BY <2>1, <2>2, <2>3
<1> QED
  BY <1>2, <1>3, <1>4, WorkKeepsJudged

LEMMA RestartKeepsJudged ==
  ASSUME TypeInv, TypeInv', Judged, Restart
  PROVE  Judged'
<1>1. /\ UNCHANGED <<disk, hung, wait, health, flawed, woke>>
      /\ mem' = NewProcess(disk) /\ step' = Idle
  BY DEF Restart, daemons, history
<1>2. mem'.boot = 0 /\ mem'.own = disk /\ mem'.crashes = {}
  BY <1>1 DEF NewProcess
<1>3. \A j \in Jobs : wait'[j] \in Nat
  BY DEF TypeInv, Shape
<1>4. Recent(0)' /\ \A j \in Jobs : Recent(wait[j])'
  BY <1>2, <1>3 DEF Recent
<1>5. Running'
  BY <1>1, <1>2, <1>4 DEF Judged, Running, RunningVersion
<1>6. Lone'
  BY <1>1, <1>2 DEF Lone, Idle
<1> QED
  BY <1>4, <1>5, <1>6 DEF Judged, Fresh, Counted

\* A choice comes before the daemons feel it, and later than any crash it forgets.
LEMMA ChoiceKeepsJudged ==
  ASSUME CodesThresholds, TypeInv, TypeInv', Judged,
         UNCHANGED <<disk, hung, wait, health, flawed, woke>>,
         mem'.kick = 0, mem'.own = mem.own
  PROVE  Judged'
<1>1. \A j \in Jobs : wait'[j] \in Nat
  BY DEF TypeInv, Shape
<1>2. Recent(0)' /\ \A j \in Jobs : Recent(wait[j])'
  BY <1>1 DEF Recent
<1>3. Running'
  BY <1>2 DEF Judged, Running, RunningVersion
<1>4. \A a \in mem'.crashes : Over(a)'
  <2>1. \A a \in mem'.crashes : a \in Int /\ -(Back * MaxFaults) <= a
    <3>1. faults' \in 0 .. MaxFaults /\ mem' \in Memory /\ \A a \in mem'.crashes : Floor' <= a
      BY DEF TypeInv, Shape, Bounded, Aged
    <3>2. Floor' \in Int /\ -(Back * MaxFaults) <= Floor'
      <4>1. Back * faults' \in Nat /\ Back * faults' <= Back * MaxFaults
        BY <3>1, ConstantTypes, ProductFacts
      <4> QED
        BY <4>1, ConstantTypes DEF Floor
    <3>3. Back * MaxFaults \in Nat
      BY ConstantTypes
    <3> QED
      BY <3>1, <3>2, <3>3 DEF Memory
  <2>2. Back * MaxFaults \in Nat /\ CrashWindow + Back * MaxFaults < Cooldown
    BY Numbers DEF CodesThresholds
  <2> QED
    BY <2>1, <2>2, ConstantTypes DEF Over
<1>5. Lone'
  BY <1>4 DEF Lone
<1> QED
  BY <1>2, <1>3, <1>5 DEF Judged, Fresh, Counted

\* Who looks stale on a version that works, with nothing recent to explain it, has
\* paused for longer than the count of its stale looks.
LEMMA StaleWaits ==
  ASSUME TypeInv, Judged, due = TRUE, NEW j \in Jobs,
         disk \notin flawed, ~Recent(wait[j]), ~Late(j)
  PROVE  StaleCount(j) = 0 \/ StaleCount(j) + StaleAfter <= wait[j]
<1>1. /\ wait[j] \in Nat /\ mem.stale[j] \in Nat /\ health[j].age \in Int
      /\ StaleAfter \in Nat /\ StaleAfter >= 1 /\ Confirmations \in Nat
  BY Numbers, ConstantTypes
<1>2. CASE ~Stale(j)
  BY <1>2 DEF StaleCount
<1>3. CASE Stale(j)
  <2>1. StaleCount(j) <= mem.stale[j] + 1 /\ StaleCount(j) \in Nat
    BY <1>1, <1>3 DEF StaleCount, AtMost
  <2>2. health[j].age > StaleAfter /\ health[j].age <= wait[j]
    BY <1>1, <1>3 DEF Stale, Judged, Fresh
  <2>3. mem.stale[j] = 0 \/ mem.stale[j] + StaleAfter + 1 <= wait[j]
    BY <1>1, <2>2 DEF Judged, Counted, Ahead
  <2> QED
    BY <1>1, <2>1, <2>2, <2>3
<1> QED
  BY <1>2, <1>3

\* Where the supervisor rolls back, long after anything it did, the version failed, or
\* hpc-sync is held up and nobody else looks dead.
LEMMA RollBackIsRight ==
  ASSUME CodesThresholds, TypeInv, Judged, due = TRUE, MayRollBack, woke > SyncGap
  PROVE  RunningVersion \in flawed \/ (HeldUp /\ StaleJobs = {"sync"})
<1>1. mem.kick >= Cooldown /\ mem.boot >= Cooldown /\ Cooldown > SyncGap
  BY Numbers, ConstantTypes DEF MayRollBack, InCooldown, CodesThresholds
<1>2. \A n \in Int : n <= SyncGap => ~Recent(n)
  BY <1>1, Numbers, ConstantTypes DEF Recent
<1>3. RunningVersion = disk
  BY <1>2, ConstantTypes DEF Judged, Running
<1>4. SUFFICES ASSUME disk \notin flawed PROVE HeldUp /\ StaleJobs = {"sync"}
  BY <1>3
<1>5. ASSUME NEW j \in StaleJobs
      PROVE  j = "sync" /\ HeldUp
  <2>1. j \in Jobs /\ StaleCount(j) >= Confirmations
    BY <1>5 DEF StaleJobs
  <2>2. wait[j] \in Nat /\ wait[j] <= Longest[j] /\ SyncGap \in Nat \ {0}
    BY <2>1, Numbers, ConstantTypes
  <2>3. StaleCount(j) \in Nat /\ StaleCount(j) # 0
    BY <2>1, Numbers, ConstantTypes DEF StaleCount, AtMost
  <2>4. Late(j)
    <3>1. SUFFICES ASSUME ~Late(j) PROVE FALSE
      OBVIOUS
    <3>2. wait[j] <= SyncGap
      BY <2>2, <3>1 DEF Late
    <3>3. ~Recent(wait[j])
      BY <1>2, <2>2, <3>2
    <3>4. StaleCount(j) + StaleAfter <= wait[j]
      BY <1>4, <2>1, <2>3, <3>1, <3>3, StaleWaits
    <3> QED
      BY <2>1, <2>2, <2>3, <3>2, <3>4, ConstantTypes DEF CodesThresholds
  <2>5. wait[j] > SyncGap
    BY <2>4 DEF Late
  <2>6. j # "enforcer"
    BY <2>2, <2>5, CapTypes
  <2> QED
    BY <2>1, <2>5, <2>6 DEF Jobs, HeldUp
<1>6. \A a \in mem.crashes : a <= CrashWindow => ~Over(a)
  BY <1>1, Numbers, ConstantTypes DEF Over
<1>7. /\ \A a, b \in mem.crashes : Over(a) \/ Over(b) \/ a = b
      /\ mem.pid = "other" => \A a \in mem.crashes : Over(a)
  BY <1>4 DEF Judged, Lone
<1>8. \A a, b \in Crashes : a = b
  BY <1>6, <1>7 DEF Crashes
<1>9. Cardinality(Crashes) \in {0, 1}
  <2>1. CASE Crashes = {}
    <3>1. Cardinality(Crashes) = 0
      BY <2>1, FS_EmptySet
    <3> QED
      BY <3>1
  <2>2. CASE Crashes # {}
    <3>1. PICK a \in Crashes : TRUE
      BY <2>2
    <3>2. Crashes = {a}
      BY <1>8, <3>1
    <3>3. Cardinality(Crashes) = 1
      BY <3>2, FS_Singleton
    <3> QED
      BY <3>3
  <2> QED
    BY <2>1, <2>2
<1>10. ~(Cardinality(Crashes) >= CrashesForRollback)
  BY <1>9, ConstantTypes DEF CodesThresholds
<1>11. StaleJobs # {}
  BY <1>10 DEF MayRollBack, Unhealthy
<1> QED
  BY <1>5, <1>11

LEMMA DecideKeepsJudged ==
  ASSUME CodesThresholds, TypeInv, TypeInv', Judged, Decide
  PROVE  Judged'
<1>1. /\ UNCHANGED <<disk, hung, wait, health, flawed, woke>>
      /\ due = TRUE /\ due' = FALSE /\ Shape /\ due \in BOOLEAN
  BY DEF Decide, daemons, TypeInv, Shape
<1>2. CASE RollBack
  <2>1. mem'.kick = 0 /\ mem'.own = mem.own /\ step'.running = RunningVersion
    BY <1>1, <1>2, ChoiceFacts
  <2> QED
    BY <1>1, <2>1, ChoiceKeepsJudged
<1>3. CASE Upgrade
  <2>1. mem'.kick = 0 /\ mem'.own = mem.own
    BY <1>1, <1>3, ChoiceFacts
  <2> QED
    BY <1>1, <2>1, ChoiceKeepsJudged
<1>4. CASE LeaveAlone
  <2>1. /\ mem'.kick = mem.kick /\ mem'.boot = mem.boot /\ mem'.own = mem.own
        /\ mem'.pid = "same" /\ mem'.crashes = Crashes
        /\ mem'.stale = [j \in Jobs |-> StaleCount(j)]
        /\ step'.at = "idle"
    BY <1>1, <1>4, SeenFacts DEF LeaveAlone, Idle
  <2>2. Running'
    BY <1>1, <2>1 DEF Judged, Running, RunningVersion, Recent
  <2>4. Lone'
    <3>1. \A a \in mem'.crashes : a \in mem.crashes \/ (a = 0 /\ mem.pid = "other")
      BY <2>1 DEF Crashes
    <3>2. \A a : Over(a)' <=> Over(a)
      BY <2>1 DEF Over
    <3> QED
      BY <1>1, <2>1, <3>1, <3>2 DEF Judged, Lone
  <2>5. ASSUME NEW j \in Jobs
        PROVE  Fresh(j)' /\ Counted(j)'
    <3>1. Recent(wait[j])' <=> Recent(wait[j])
      BY <1>1, <2>1 DEF Recent
    <3>2. Fresh(j)'
      BY <1>1, <3>1 DEF Judged, Fresh, Late
    <3>3. CASE disk \in flawed \/ Recent(wait[j]) \/ Late(j)
      BY <1>1, <3>1, <3>2, <3>3 DEF Counted, Late
    <3>4. CASE disk \notin flawed /\ ~Recent(wait[j]) /\ ~Late(j)
      <4>1. StaleCount(j) = 0 \/ StaleCount(j) + StaleAfter <= wait[j]
        BY <1>1, <3>4, StaleWaits
      <4>2. mem'.stale[j] = StaleCount(j) /\ mem'.stale[j] \in Nat /\ wait[j] \in Nat
        <5>1. mem' \in Memory
          BY DEF TypeInv, Shape
        <5> QED
          BY <2>1, <5>1, Numbers, ConstantTypes DEF Memory
      <4>3. Ahead' = 0 /\ wait'[j] = wait[j]
        BY <1>1 DEF Ahead
      <4>4. mem'.stale[j] = 0 \/ mem'.stale[j] + StaleAfter + Ahead' <= wait'[j]
        BY <4>1, <4>2, <4>3, ConstantTypes
      <4> QED
        BY <3>2, <4>4 DEF Counted
    <3> QED
      BY <3>3, <3>4
  <2> QED
    BY <2>2, <2>4, <2>5 DEF Judged
<1> QED
  BY <1>2, <1>3, <1>4 DEF Decide

LEMMA TicksKeepJudged ==
  ASSUME TypeInv, TypeInv', Judged, EnforcerTick \/ SyncTick
  PROVE  Judged'
<1>1. UNCHANGED <<disk, hung, mem, step, due, flawed, woke>>
  BY DEF EnforcerTick, SyncTick, files, history
<1>2. wait \in [Jobs -> Nat] /\ health \in [Jobs -> File] /\ disk \in Versions
  BY DEF TypeInv, Shape
<1>3. PICK i \in Jobs, locking \in BOOLEAN :
        /\ wait' = [wait EXCEPT ![i] = 0]
        /\ health' = [health EXCEPT ![i] = [age |-> 0, version |-> disk, locking |-> locking]]
  BY DEF EnforcerTick, SyncTick, Ticks, Jobs
<1>4. ASSUME NEW j \in Jobs
      PROVE  Fresh(j)' /\ Counted(j)'
  <2>1. CASE j = i
    <3>1. wait'[j] = 0 /\ health'[j].age = 0
      BY <1>2, <1>3, <2>1
    <3>2. Ahead' \in {0, 1}
      BY DEF Ahead
    <3> QED
      BY <3>1, <3>2 DEF Fresh, Counted
  <2>2. CASE j # i
    <3>1. wait'[j] = wait[j] /\ health'[j] = health[j]
      BY <1>2, <1>3, <2>2
    <3> QED
      BY <1>1, <3>1 DEF Judged, Fresh, Counted, Late, Recent, Ahead
  <2> QED
    BY <2>1, <2>2
<1>5. Running'
  <2>1. CASE i = "enforcer"
    <3>1. health'["enforcer"].version = disk /\ disk # None
      BY <1>2, <1>3, <2>1, ConstantTypes
    <3> QED
      BY <1>1, <3>1 DEF Judged, Running, RunningVersion, Recent
  <2>2. CASE i # "enforcer"
    <3>1. health'["enforcer"] = health["enforcer"] /\ wait'["enforcer"] = wait["enforcer"]
      BY <1>2, <1>3, <2>2 DEF Jobs
    <3> QED
      BY <1>1, <3>1 DEF Judged, Running, RunningVersion, Recent
  <2> QED
    BY <2>1, <2>2
<1>6. Lone'
  BY <1>1 DEF Judged, Lone, Over
<1> QED
  BY <1>4, <1>5, <1>6 DEF Judged

LEMMA HangKeepsJudged ==
  ASSUME CodesThresholds, TypeInv, Judged, NEW j \in Jobs, Hang(j)
  PROVE  Judged'
<1>1. /\ UNCHANGED <<disk, wait, health, mem, step, due, flawed, woke>>
      /\ disk \in flawed /\ hung' = hung \cup {j} /\ health["enforcer"].version = disk
      /\ disk # None
  BY ConstantTypes DEF Hang, files, history, CodesThresholds, TypeInv, Shape
<1>2. Running'
  BY <1>1 DEF Judged, Running, RunningVersion, Recent
<1> QED
  BY <1>1, <1>2 DEF Judged, Fresh, Counted, Late, Lone, Over, Recent, Ahead

LEMMA StageKeepsJudged ==
  ASSUME Judged, Stage
  PROVE  Judged'
<1>1. UNCHANGED <<disk, hung, wait, health, mem, step, due, flawed, woke>>
  BY DEF Stage, daemons, history
<1> QED
  BY <1>1 DEF Judged, Running, RunningVersion, Fresh, Counted, Late, Lone, Over, Recent, Ahead

LEMMA SyncCrashKeepsJudged ==
  ASSUME TypeInv, Judged, SyncCrash
  PROVE  Judged'
<1>1. /\ UNCHANGED <<disk, hung, health, step, due, flawed, woke>>
      /\ disk \in flawed /\ mem' = MovedPid /\ wait' = [wait EXCEPT !["sync"] = 1]
      /\ wait \in [Jobs -> Nat]
  BY DEF SyncCrash, files, history, TypeInv, Shape
<1>2. /\ mem'.kick = mem.kick /\ mem'.boot = mem.boot /\ mem'.own = mem.own
      /\ mem'.crashes = mem.crashes /\ wait'["enforcer"] = wait["enforcer"]
  BY <1>1, Numbers, MovedPidFacts DEF Jobs
<1>3. Running'
  BY <1>1, <1>2 DEF Judged, Running, RunningVersion, Recent
<1>4. Lone'
  BY <1>1, <1>2 DEF Judged, Lone, Over
<1> QED
  BY <1>1, <1>3, <1>4 DEF Judged, Fresh, Counted

\* Time moves the crashes remembered and the last choice alike, up to caps which lie
\* as far apart as the comparison asks.
LEMMA AgeFacts ==
  ASSUME TypeInv, NEW k \in Int, Age(k)
  PROVE  /\ mem'.kick \in Int /\ mem'.boot \in Int
         /\ mem'.kick <= mem.kick + k /\ mem'.boot <= mem.boot + k
         /\ mem'.own = mem.own /\ mem'.pid = mem.pid /\ mem'.stale = mem.stale
         /\ \A j \in Jobs : /\ health'[j].version = health[j].version
                            /\ health'[j].age \in Int
                            /\ k >= 0 => health'[j].age <= health[j].age + k
                            /\ k <= 0 => health'[j].age <= health[j].age
         /\ \A b \in mem'.crashes : \E a \in mem.crashes :
              /\ b = AtMost(a + k, CrashWindow + 1 + Back)
              /\ Over(a) => Over(b)'
<1>1. mem \in Memory /\ health \in [Jobs -> File]
  BY DEF TypeInv, Shape
<1>2. /\ mem'.kick = AtMost(mem.kick + k, KickCap) /\ mem'.boot = AtMost(mem.boot + k, KickCap)
      /\ mem'.own = mem.own /\ mem'.pid = mem.pid /\ mem'.stale = mem.stale
      /\ mem'.crashes = {AtMost(a + k, CrashWindow + 1 + Back) : a \in mem.crashes}
  BY <1>1 DEF Age, Memory
<1>3. /\ mem'.kick \in Int /\ mem'.boot \in Int
      /\ mem'.kick <= mem.kick + k /\ mem'.boot <= mem.boot + k
      /\ mem'.kick <= Cooldown + Back
  BY <1>2, Numbers, ConstantTypes DEF AtMost, KickCap
<1>4. ASSUME NEW j \in Jobs
      PROVE  /\ health'[j].version = health[j].version
             /\ health'[j].age \in Int
             /\ k >= 0 => health'[j].age <= health[j].age + k
             /\ k <= 0 => health'[j].age <= health[j].age
  <2>1. /\ health[j] \in File /\ health[j].age \in Int
        /\ health'[j] = [health[j] EXCEPT
             !.age = IF health[j].version = None THEN @ ELSE AtMost(@ + k, HealthCap)]
    BY <1>1, <1>4 DEF Age, File
  <2>2. /\ health'[j].version = health[j].version
        /\ health'[j].age = health[j].age \/ health'[j].age = AtMost(health[j].age + k, HealthCap)
    BY <2>1 DEF File
  <2> QED
    BY <2>1, <2>2, CapTypes DEF AtMost
<1>5. ASSUME NEW b \in mem'.crashes
      PROVE  \E a \in mem.crashes : /\ b = AtMost(a + k, CrashWindow + 1 + Back)
                                    /\ Over(a) => Over(b)'
  <2>1. PICK a \in mem.crashes : b = AtMost(a + k, CrashWindow + 1 + Back)
    BY <1>2
  <2>2. a \in Int
    BY Numbers
  <2>3. Over(a) => mem'.kick <= b + Cooldown - CrashWindow - 1
    BY <1>3, <2>1, <2>2, Numbers, ConstantTypes DEF Over, AtMost
  <2> QED
    BY <2>1, <2>3 DEF Over
<1> QED
  BY <1>2, <1>3, <1>4, <1>5

LEMMA AgeKeepsLone ==
  ASSUME TypeInv, Lone, NEW k \in Int, Age(k), UNCHANGED <<disk, flawed, step>>
  PROVE  Lone'
<1>1. \A b \in mem'.crashes : \E a \in mem.crashes :
        b = AtMost(a + k, CrashWindow + 1 + Back) /\ (Over(a) => Over(b)')
  BY AgeFacts
<1>2. mem'.pid = mem.pid
  BY AgeFacts
<1>3. (\A a \in mem.crashes : Over(a)) => \A b \in mem'.crashes : Over(b)'
  BY <1>1
<1>4. (\A a, b \in mem.crashes : Over(a) \/ Over(b) \/ a = b)
        => \A c, d \in mem'.crashes : Over(c)' \/ Over(d)' \/ c = d
  BY <1>1
<1> QED
  BY <1>2, <1>3, <1>4 DEF Lone

LEMMA PassKeepsJudged ==
  ASSUME TypeInv, TypeInv', Judged, Pass
  PROVE  Judged'
<1>1. /\ UNCHANGED <<disk, hung, step, flawed>>
      /\ step.at = "idle" /\ due = FALSE /\ due' = TRUE /\ Age(1)
      /\ "enforcer" \in hung \/ wait["enforcer"] = 0
      /\ wait' = [j \in Jobs |-> AtMost(wait[j] + 1, Longest[j])]
      /\ woke' = AtMost(woke + 1, SyncGap + 1)
      /\ due \in BOOLEAN
  BY DEF Pass, TypeInv, Shape
<1>2. /\ mem'.kick <= mem.kick + 1 /\ mem'.boot <= mem.boot + 1
      /\ mem'.kick \in Int /\ mem'.boot \in Int
      /\ mem'.own = mem.own /\ mem'.stale = mem.stale
      /\ \A j \in Jobs : /\ health'[j].version = health[j].version
                         /\ health'[j].age \in Int
                         /\ health'[j].age <= health[j].age + 1
  BY <1>1, AgeFacts
<1>3. woke' \in Int /\ woke' <= woke + 1
  BY <1>1, Numbers, ConstantTypes DEF AtMost
<1>4. Lone'
  BY <1>1, AgeKeepsLone DEF Judged
<1>6. disk \notin flawed => hung = {}
  BY DEF Judged, Running
<1>7. ASSUME NEW j \in Jobs
      PROVE  Fresh(j)' /\ Counted(j)'
  <2>1. CASE disk \in flawed
    BY <1>1, <2>1 DEF Fresh, Counted
  <2>2. CASE disk \notin flawed /\ wait[j] >= Longest[j]
    <3>1. j = "sync"
      BY <1>1, <1>6, <2>2, CapTypes DEF Jobs
    <3>2. wait'[j] = SyncGap + 1
      BY <1>1, <2>2, <3>1, Numbers, CapTypes, ConstantTypes DEF AtMost
    <3> QED
      BY <3>2, ConstantTypes DEF Fresh, Counted, Late
  <2>3. CASE disk \notin flawed /\ wait[j] < Longest[j]
    <3>1. /\ wait[j] \in Nat /\ mem.stale[j] \in Nat /\ health[j].age \in Int
          /\ Longest[j] \in Nat /\ wait[j] < Longest[j] /\ SyncGap \in Nat
      BY <2>3, Numbers, CapTypes, ConstantTypes
    <3>2. wait'[j] = wait[j] + 1
      BY <1>1, <3>1 DEF AtMost
    <3>3. Recent(wait[j]) => Recent(wait[j])'
      BY <1>2, <1>3, <3>1, <3>2, Numbers DEF Recent
    <3>4. Ahead = 0 /\ Ahead' = 1
      BY <1>1 DEF Ahead
    <3>5. Late(j) => Late(j)'
      BY <3>1, <3>2 DEF Late
    <3>6. Fresh(j)'
      <4>1. health[j].age <= wait[j] => health'[j].age <= wait'[j]
        BY <1>2, <3>1, <3>2
      <4> QED
        BY <2>3, <3>3, <3>5, <4>1 DEF Judged, Fresh
    <3>7. Counted(j)'
      <4>1. wait[j] <= Ahead => wait'[j] <= Ahead'
        BY <3>1, <3>2, <3>4
      <4>2. mem.stale[j] + StaleAfter + Ahead <= wait[j]
              => mem'.stale[j] + StaleAfter + Ahead' <= wait'[j]
        BY <1>2, <3>1, <3>2, <3>4, ConstantTypes
      <4>3. mem.stale[j] = 0 => mem'.stale[j] = 0
        BY <1>2
      <4> QED
        BY <2>3, <3>3, <3>5, <4>1, <4>2, <4>3 DEF Judged, Counted
    <3> QED
      BY <3>6, <3>7
  <2> QED
    BY <2>1, <2>2, <2>3, Numbers, CapTypes
<1>8. Running'
  <2>1. RunningVersion' = RunningVersion
    BY <1>2 DEF RunningVersion, Jobs
  <2>2. RunningVersion = disk
    <3>1. wait["enforcer"] = 1 => "enforcer" \in hung
      BY <1>1, Numbers, CapTypes DEF Jobs
    <3> QED
      BY <3>1 DEF Judged, Running
  <2> QED
    BY <1>1, <2>1, <2>2 DEF Judged, Running
<1> QED
  BY <1>4, <1>7, <1>8 DEF Judged

LEMMA SleepKeepsJudged ==
  ASSUME TypeInv, TypeInv', Judged, NEW k \in Sleeps, Sleep(k)
  PROVE  Judged'
<1>1. /\ UNCHANGED <<disk, hung, wait, step, flawed>> /\ woke' = 0 /\ Age(k) /\ k \in Int
  BY ConstantTypes DEF Sleep
<1>2. \A j \in Jobs : wait'[j] \in Nat
  BY DEF TypeInv, Shape
<1>3. Recent(0)' /\ \A j \in Jobs : Recent(wait[j])'
  BY <1>1, <1>2 DEF Recent
<1>4. Lone'
  BY <1>1, AgeKeepsLone DEF Judged
<1>5. RunningVersion' = RunningVersion
  BY <1>1, AgeFacts DEF RunningVersion, Jobs
<1>6. Running'
  BY <1>1, <1>3, <1>5 DEF Judged, Running
<1> QED
  BY <1>3, <1>4, <1>6 DEF Judged, Fresh, Counted

LEMMA CorrectionKeepsJudged ==
  ASSUME TypeInv, Judged, CorrectClock
  PROVE  Judged'
<1>1. /\ UNCHANGED <<disk, hung, wait, step, due, flawed, woke>>
      /\ Age(-Back) /\ -Back \in Int /\ -Back <= 0
  BY ConstantTypes DEF CorrectClock, history
<1>2. /\ mem'.kick <= mem.kick + (-Back) /\ mem'.boot <= mem.boot + (-Back)
      /\ mem'.kick \in Int /\ mem'.boot \in Int
      /\ mem'.own = mem.own /\ mem'.stale = mem.stale
      /\ \A j \in Jobs : /\ health'[j].version = health[j].version
                         /\ health'[j].age \in Int
                         /\ health'[j].age <= health[j].age
  BY <1>1, AgeFacts
<1>3. \A n \in Int : Recent(n) => mem'.kick <= n \/ mem'.boot <= n \/ woke' <= n
  <2>1. mem'.kick <= mem.kick /\ mem'.boot <= mem.boot
    BY <1>1, <1>2, Numbers
  <2> QED
    BY <1>1, <1>2, <2>1, Numbers DEF Recent
<1>4. Lone'
  BY <1>1, AgeKeepsLone DEF Judged
<1>5. RunningVersion' = RunningVersion
  BY <1>2 DEF RunningVersion, Jobs
<1>6. Running'
  BY <1>1, <1>3, <1>5 DEF Judged, Running, Recent
<1>7. ASSUME NEW j \in Jobs
      PROVE  Fresh(j)' /\ Counted(j)'
  <2>1. wait[j] \in Int /\ health[j].age \in Int
    BY Numbers
  <2>2. Recent(wait[j]) => Recent(wait[j])'
    BY <1>1, <1>3, <2>1 DEF Recent
  <2>3. health[j].age <= wait[j] => health'[j].age <= wait'[j]
    BY <1>1, <1>2, <2>1
  <2> QED
    BY <1>1, <1>2, <2>2, <2>3 DEF Judged, Fresh, Counted, Late, Ahead
<1> QED
  BY <1>1, <1>4, <1>6, <1>7 DEF Judged

LEMMA NextKeepsJudged ==
  ASSUME CodesThresholds, TypeInv, Judged, [Next]_vars
  PROVE  Judged'
<1>1. TypeInv'
  BY NextKeepsTypes
<1>2. CASE Supervise
  BY <1>1, <1>2, DecideKeepsJudged, TickKeepsJudged DEF Supervise
<1>3. CASE Restart
  BY <1>1, <1>3, RestartKeepsJudged
<1>4. CASE EnforcerTick \/ SyncTick
  BY <1>1, <1>4, TicksKeepJudged
<1>5. CASE (\E j \in Jobs : Hang(j)) \/ SyncCrash \/ Stage
  BY <1>5, HangKeepsJudged, SyncCrashKeepsJudged, StageKeepsJudged
<1>6. CASE Pass \/ (\E k \in Sleeps : Sleep(k)) \/ CorrectClock
  BY <1>1, <1>6, PassKeepsJudged, SleepKeepsJudged, CorrectionKeepsJudged
<1>7. CASE UNCHANGED vars
  BY <1>7 DEF vars, Judged, Running, Fresh, Counted, Late, Lone, Recent, Over, Ahead,
     RunningVersion
<1> QED
  BY <1>2, <1>3, <1>4, <1>5, <1>6, <1>7 DEF Next

LEMMA InitJudged == Init => Judged
<1> SUFFICES ASSUME Init PROVE Judged
  OBVIOUS
<1>1. /\ hung = {} /\ step.at = "idle" /\ wait = [j \in Jobs |-> 1]
      /\ mem.boot = 0 /\ mem.own = disk /\ mem.crashes = {}
      /\ health["enforcer"].version = None
  BY DEF Init, Idle, NewProcess, Jobs
<1>2. Recent(0) /\ \A j \in Jobs : Recent(wait[j])
  BY <1>1 DEF Recent
<1>3. Running
  BY <1>1 DEF Running, RunningVersion
<1>4. Lone
  BY <1>1 DEF Lone
<1> QED
  BY <1>2, <1>3, <1>4 DEF Judged, Fresh, Counted

\* Where the thresholds stand to each other as in the code, a version is given up
\* because it is flawed, or within the longest pause of hpc-sync after a wake, or
\* because of hpc-sync alone while that is held up in a tick.
THEOREM HealthyKept ==
  ASSUME CodesThresholds
  PROVE  Spec => HealthyNeverRolledBack
<1>1. Init => IInv
  BY InitTypes, InitJudged DEF IInv
<1>2. IInv /\ [Next]_vars => IInv'
  BY NextKeepsTypes, NextKeepsJudged DEF IInv
<1>3. IInv /\ [Next]_vars =>
        [Decide /\ RollBack =>
           \/ RunningVersion \in flawed
           \/ woke <= SyncGap
           \/ HeldUp /\ StaleJobs = {"sync"}]_vars
  <2>1. ASSUME IInv, Decide, RollBack, ~(woke <= SyncGap)
        PROVE  RunningVersion \in flawed \/ (HeldUp /\ StaleJobs = {"sync"})
    <3>1. due = TRUE /\ MayRollBack /\ TypeInv /\ Judged
      BY <2>1 DEF Decide, RollBack, IInv, TypeInv, Shape
    <3>2. woke > SyncGap
      BY <2>1, <3>1, Numbers, ConstantTypes
    <3> QED
      BY <3>1, <3>2, RollBackIsRight
  <2> QED
    BY <2>1
<1> QED
  BY <1>1, <1>2, <1>3, PTL DEF Spec, HealthyNeverRolledBack

=============================================================================
