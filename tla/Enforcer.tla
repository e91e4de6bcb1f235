------------------------------ MODULE Enforcer ------------------------------
(***************************************************************************)
(* enforcerd: the minute-by-minute loop that locks, and finally shuts      *)
(* down, the child's Mac (agent/Sources/HPCEnforcer/main.swift) and the    *)
(* pure ladder it runs (agent/Sources/HPCCore/Ladder.swift).               *)
(*                                                                         *)
(* The answer of the bedtime predicate is the constant operator Evaluation *)
(* (bound to BedtimePredicate!Evaluate in the model-checked instances), so *)
(* what is said here of the ladder holds whatever the rules are.           *)
(*                                                                         *)
(* Around the loop, anything that can happen between two ticks: the Mac    *)
(* sleeps, the process restarts, the sync daemon replaces the policy, a    *)
(* policy file is damaged, a kill switch appears or goes, a version is     *)
(* installed in shadow mode, promoted or rolled back, the trusted clock is *)
(* corrected backwards.  Each of these is switched by a constant.  Audit   *)
(* lines and the warning-failure counter, which nothing reads back, are    *)
(* left out; the soak marker always names the running version.             *)
(*                                                                         *)
(* Operators called Mut... are the plausible mistakes each property is     *)
(* there to catch; the specification does not use them.                    *)
(***************************************************************************)
EXTENDS Integers, FiniteSets

CONSTANTS
  Docs,            \* policy documents
  Evaluation(_,_), \* Evaluation(doc, now) = [active, due]: the predicate
  Leads,           \* warning leads a document may use
  Gaps,            \* time between two consecutive ticks of a Mac that is awake
  SleepGaps,       \* how long the Mac may sleep
  Corrections,     \* how far trusted time may run ahead, until it is corrected
  Unsigned,        \* {} or {"unsigned"}: does the server send policies it did not sign?
  Damage,          \* BOOLEAN: can policy files be lost or unreadable?
  KillUntils,      \* instants a kill switch may name (one past Horizon is the indefinite one)
  SoakLength,      \* ShadowMode.maxDurationS (0: no version is ever installed)
  SoakSlack,       \* the 60 s of slack in ShadowMode.verdict
  Reassert,        \* Ladder.reassertInterval
  Tolerance,       \* Ladder.reassertTolerance
  Day,             \* 24 h, the breaker's window
  MaxEpisodes,     \* Ladder.maxEpisodesPer24h
  Horizon,         \* bound: no instant past this one is modelled
  None

Actions == {"warn_only", "lock", "shutdown"}
Outcomes == {"delivered", "failed", "noConsoleUser"}

ActiveWindow == [action : Actions, grace : Nat]
Due == [lead : Leads, boundary : Int]

ASSUME ConstantsAssumption ==
  /\ Leads \subseteq Nat
  /\ Gaps \subseteq Nat \ {0} /\ SleepGaps \subseteq Nat
  /\ Corrections \subseteq Nat \ {0}
  /\ KillUntils \subseteq Int /\ Unsigned \subseteq {"unsigned"} /\ Damage \in BOOLEAN
  /\ {SoakLength, SoakSlack, Reassert, Tolerance, Day, MaxEpisodes, Horizon} \subseteq Nat
  /\ None \notin Int /\ None \notin Docs
  /\ None \notin ActiveWindow /\ None \notin Due
  /\ None \notin [lead : Leads, outcome : Outcomes]
  /\ {"missing", "corrupt", "unsigned"} \cap Docs = {}

\* The timer: a tick never comes earlier than the re-lock throttle allows
\* (a 60 s timer with 1 s of leeway against 60 - 5 s).
ASSUME TimerAssumption == \A g \in Gaps : g >= Reassert - Tolerance

\* What the predicate may answer.
ASSUME EvaluationAssumption ==
  \A d \in Docs : \A t \in 0..Horizon :
    /\ Evaluation(d, t).active \in ActiveWindow \cup {None}
    /\ Evaluation(d, t).due \subseteq Due

VARIABLES
  now,      \* trusted time of the latest event (TimeBasis.resolve)
  ahead,    \* how far it runs ahead of real time
  files,    \* policy.jws and policy.lkg.jws on disk
  kill,     \* the kill-switch file: None or the instant it lapses
  soak,     \* the shadow-mode marker: None or [startedAt, deadline]
  ladder,   \* Ladder.State
  pending,  \* pendingWarning: outcome of the previous tick's warning
  last,     \* what the latest tick did
  hist      \* history, for the properties only

vars == <<now, ahead, files, kill, soak, ladder, pending, last, hist>>

Content == Docs \cup {"missing", "corrupt", "unsigned"}

InitLadder ==
  [episodeStartedAt |-> None, warningsDelivered |-> {}, warningsAttempted |-> {},
   warningsAttemptedFor |-> None, lastLockAt |-> None, shutdownIssued |-> FALSE,
   recentEpisodes |-> {}, breakerTripped |-> FALSE]

NoEffects == [warn |-> None, lock |-> FALSE, shutdown |-> FALSE]

-----------------------------------------------------------------------------
\* Mutant: the last-known-good file is tried first.
MutLoadStale(f) == IF f.lkg \in Docs THEN f.lkg
                   ELSE IF f.current \in Docs THEN f.current
                   ELSE None

(* PolicyStore.load: current, then last-known-good; what does not verify is *)
(* never used.                                                              *)
Load(f) == IF f.current \in Docs THEN f.current
           ELSE IF f.lkg \in Docs THEN f.lkg
           ELSE None

\* Mutant: a file that names no instant counts as absent.
MutKillSwitchPresent(t) == kill # None /\ kill > t /\ kill <= Horizon

(* KillSwitch.check: present until the instant it names; a file that names  *)
(* none, or cannot be read or parsed, is present for good.                  *)
KillSwitchPresent(t) == kill # None /\ kill > t

(* ShadowMode.verdict, for a marker naming the running version.             *)
Shadowing(t) ==
  /\ soak # None
  /\ t < soak.deadline
  /\ soak.deadline - soak.startedAt <= SoakLength + SoakSlack
  /\ soak.startedAt <= t + SoakSlack

-----------------------------------------------------------------------------
(* Ladder.step, in its three parts.  A recent-episode list is modelled as   *)
(* the set of its instants.                                                 *)

\* Mutant: the lead is recorded in seconds.
MutFoldSeconds(s) ==
  IF pending # None /\ pending.outcome = "delivered"
  THEN [s EXCEPT !.warningsDelivered = @ \cup {60 * pending.lead}]
  ELSE s

\* Mutant: a warning that failed counts as delivered.
MutFoldFailed(s) ==
  IF pending # None
  THEN [s EXCEPT !.warningsDelivered = @ \cup {pending.lead}]
  ELSE s

\* What happened to the warning asked for last tick.
FoldWarning(s) ==
  IF pending # None /\ pending.outcome = "delivered"
  THEN [s EXCEPT !.warningsDelivered = @ \cup {pending.lead}]
  ELSE s

\* Mutants of EndEpisode: the start, the deliveries or the shutdown flag are
\* not cleared; the attempts are cleared on every unrestricted tick.
MutEndKeepsStart(s) ==
  IF s.episodeStartedAt = None THEN s
  ELSE [s EXCEPT !.warningsDelivered = {}, !.warningsAttempted = {},
                 !.shutdownIssued = FALSE, !.lastLockAt = None]

MutEndKeepsDelivered(s) ==
  IF s.episodeStartedAt = None THEN s
  ELSE [s EXCEPT !.episodeStartedAt = None, !.warningsAttempted = {},
                 !.shutdownIssued = FALSE, !.lastLockAt = None]

MutEndKeepsIssued(s) ==
  IF s.episodeStartedAt = None THEN s
  ELSE [s EXCEPT !.episodeStartedAt = None, !.warningsDelivered = {},
                 !.warningsAttempted = {}, !.lastLockAt = None]

MutEndAlways(s) ==
  [s EXCEPT !.episodeStartedAt = None, !.warningsDelivered = {},
            !.warningsAttempted = {}, !.shutdownIssued = FALSE,
            !.lastLockAt = None]

\* Leaving a restricted window closes the episode.
EndEpisode(s) ==
  IF s.episodeStartedAt = None THEN s
  ELSE [s EXCEPT !.episodeStartedAt = None, !.warningsDelivered = {},
                 !.warningsAttempted = {}, !.shutdownIssued = FALSE,
                 !.lastLockAt = None]

\* The most urgent due warning, if any: earliest boundary, then shortest lead.
Urgent(due) ==
  {u \in due : \A w \in due :
     \/ u.boundary < w.boundary
     \/ u.boundary = w.boundary /\ u.lead <= w.lead}

\* A different boundary is a different night: its attempts start clean.
Attempted(s, u) ==
  IF s.warningsAttemptedFor = u.boundary THEN s.warningsAttempted ELSE {}

Unrestricted(s0, due) ==
  LET s == EndEpisode(s0)
      u == CHOOSE x \in Urgent(due) : TRUE
  IN  IF Urgent(due) = {} THEN [state |-> s, effects |-> NoEffects]
      ELSE [state |-> [s EXCEPT
                         !.warningsAttemptedFor = u.boundary,
                         !.warningsAttempted = Attempted(s, u) \cup
                            {w.lead : w \in {x \in due : x.boundary = u.boundary}}],
            effects |-> [NoEffects EXCEPT
                           !.warn = IF u.lead \in Attempted(s, u) THEN None ELSE u]]

\* Mutant: the episode that begins is not counted.
MutStartUncounted(s, t) ==
  IF s.episodeStartedAt # None THEN s
  ELSE LET before == {e \in s.recentEpisodes : t - e < Day}
       IN  [s EXCEPT !.episodeStartedAt = t, !.recentEpisodes = before \cup {t},
                     !.breakerTripped = Cardinality(before) > MaxEpisodes]

StartEpisode(s, t) ==
  IF s.episodeStartedAt # None THEN s
  ELSE LET recent == {e \in s.recentEpisodes \cup {t} : t - e < Day}
       IN  [s EXCEPT !.episodeStartedAt = t, !.recentEpisodes = recent,
                     !.breakerTripped = Cardinality(recent) > MaxEpisodes]

\* Mutant: no tolerance for a tick that comes early.
MutReassertBare(s, t) ==
  s.lastLockAt = None \/ t - s.lastLockAt >= Reassert

ShouldReassert(s, t) ==
  s.lastLockAt = None \/ t - s.lastLockAt >= Reassert - Tolerance

\* Mutant: one shutdown per episode is not enforced.
MutEscalateAgain(s, w, t) ==
  /\ w.action = "shutdown"
  /\ s.warningsDelivered # {}
  /\ ~s.breakerTripped
  /\ t - s.episodeStartedAt >= w.grace

CanEscalate(s, w, t) ==
  /\ w.action = "shutdown"
  /\ ~s.shutdownIssued
  /\ s.warningsDelivered # {}
  /\ ~s.breakerTripped
  /\ t - s.episodeStartedAt >= w.grace

InsideWindow(s0, w, t) ==
  LET s == StartEpisode(s0, t)
      relock == ShouldReassert(s, t)
      escalate == CanEscalate(s, w, t)
  IN  IF w.action = "warn_only" THEN [state |-> s, effects |-> NoEffects]
      ELSE [state |-> [s EXCEPT
                         !.lastLockAt = IF relock THEN t ELSE @,
                         !.shutdownIssued = @ \/ escalate],
            effects |-> [warn |-> None, lock |-> relock, shutdown |-> escalate]]

LadderStep(ev, t) ==
  LET s == FoldWarning(ladder)
  IN  IF ev.active = None THEN Unrestricted(s, ev.due)
      ELSE InsideWindow(s, ev.active, t)

-----------------------------------------------------------------------------
(* History.  `open' is the first instant of the current run of restricted   *)
(* ticks, `starts' every such instant of this process, `tries' the          *)
(* shutdowns of the run, `shown' the warnings a human saw since the last    *)
(* run ended, `warned' the warnings put up since the policy last changed.   *)
InitHist == [open |-> None, starts |-> {}, tries |-> 0, shown |-> {}, warned |-> {}]

SeeRestricted(h, t, effects) ==
  [h EXCEPT !.open = IF @ = None THEN t ELSE @,
            !.starts = IF h.open = None THEN @ \cup {t} ELSE @,
            !.tries = @ + (IF effects.shutdown THEN 1 ELSE 0)]

SeeUnrestricted(h) ==
  IF h.open = None THEN h ELSE [h EXCEPT !.open = None, !.tries = 0, !.shown = {}]

SeeWarning(h, warn, outcome) ==
  IF warn = None THEN h
  ELSE [h EXCEPT !.warned = @ \cup {warn},
                 !.shown = IF outcome = "delivered" THEN @ \cup {warn} ELSE @]

Idle(t, why) ==
  [at |-> t, outcome |-> why, active |-> None, effects |-> NoEffects]

-----------------------------------------------------------------------------
(* One tick, whole (Enforcer.tick).  The kill switch is read first, then    *)
(* the policy; a tick that stops at either leaves the ladder as it was.  In *)
(* shadow mode the ladder advances and nothing is applied.                  *)

TickKillSwitch(t) ==
  /\ KillSwitchPresent(t)
  /\ last' = Idle(t, "kill_switch")
  /\ UNCHANGED <<ladder, pending, hist>>

TickFailOpen(t) ==
  /\ ~KillSwitchPresent(t)
  /\ Load(files) = None
  /\ last' = Idle(t, "degraded")
  /\ UNCHANGED <<ladder, pending, hist>>

TickShadow(t) ==
  /\ ~KillSwitchPresent(t)
  /\ Load(files) # None
  /\ Shadowing(t)
  /\ LET ev == Evaluation(Load(files), t)
         step == LadderStep(ev, t)
     IN  /\ ladder' = step.state
         /\ last' = [Idle(t, "shadow") EXCEPT !.active = ev.active]
         /\ hist' = IF ev.active = None THEN SeeUnrestricted(hist)
                    ELSE SeeRestricted(hist, t, step.effects)
  /\ pending' = None

TickAct(t) ==
  /\ ~KillSwitchPresent(t)
  /\ Load(files) # None
  /\ ~Shadowing(t)
  /\ LET ev == Evaluation(Load(files), t)
         step == LadderStep(ev, t)
         warn == step.effects.warn
     IN  /\ ladder' = step.state
         /\ last' = [at |-> t, outcome |-> "acted", active |-> ev.active,
                     effects |-> step.effects]
         /\ \E outcome \in Outcomes :
              /\ pending' = IF warn = None THEN None
                            ELSE [lead |-> warn.lead, outcome |-> outcome]
              /\ hist' = IF ev.active = None
                         THEN SeeWarning(SeeUnrestricted(hist), warn, outcome)
                         ELSE SeeRestricted(hist, t, step.effects)

Tick ==
  \E g \in Gaps :
    /\ now + g <= Horizon
    /\ now' = now + g
    /\ \/ TickKillSwitch(now + g)
       \/ TickFailOpen(now + g)
       \/ TickShadow(now + g)
       \/ TickAct(now + g)
    /\ UNCHANGED <<ahead, files, kill, soak>>

-----------------------------------------------------------------------------
(* The world between two ticks.                                             *)

\* The timer does not fire while the Mac sleeps; the first tick after waking
\* comes one gap later.
Sleep ==
  /\ \E g \in SleepGaps : now + g <= Horizon /\ now' = now + g
  /\ UNCHANGED <<ahead, files, kill, soak, ladder, pending, last, hist>>

\* A crash, a kickstart, or the reboot a shutdown ends in: the ladder is in
\* memory only.
NewProcess ==
  /\ ladder' = InitLadder
  /\ pending' = None
  /\ last' = Idle(now, "starting")
  /\ hist' = InitHist

Restart ==
  /\ NewProcess
  /\ UNCHANGED <<now, ahead, files, kill, soak>>

\* SyncDaemon.applyPolicy: what is on disk becomes the last-known-good file,
\* whatever it is.  A signed policy that does not verify is discarded (a
\* stuttering step); one the server sent unsigned is written as it came.
ApplyPolicy ==
  /\ \E d \in (Docs \ {files.current}) \cup Unsigned :
       files' = [current |-> d,
                 lkg |-> IF files.current = "missing" THEN files.lkg ELSE files.current]
  /\ hist' = [hist EXCEPT !.warned = {}]
  /\ UNCHANGED <<now, ahead, kill, soak, ladder, pending, last>>

\* A policy file is unreadable, or no longer verifies.
DamagePolicy ==
  /\ Damage
  /\ \E file \in {"current", "lkg"} :
       /\ files[file] # "corrupt"
       /\ files' = [files EXCEPT ![file] = "corrupt"]
  /\ hist' = [hist EXCEPT !.warned = {}]
  /\ UNCHANGED <<now, ahead, kill, soak, ladder, pending, last>>

SetKillSwitch ==
  /\ kill = None
  /\ kill' \in KillUntils
  /\ UNCHANGED <<now, ahead, files, soak, ladder, pending, last, hist>>

ClearKillSwitch ==
  /\ kill # None
  /\ kill' = None
  /\ UNCHANGED <<now, ahead, files, soak, ladder, pending, last, hist>>

\* The supervisor installs a version it has not soaked: the marker, then the
\* new process.
InstallShadow ==
  /\ SoakLength > 0
  /\ soak' = [startedAt |-> now, deadline |-> now + SoakLength]
  /\ NewProcess
  /\ UNCHANGED <<now, ahead, files, kill>>

\* The supervisor tidies the marker away once its deadline has passed.
PromoteIfDue ==
  /\ soak # None /\ now >= soak.deadline
  /\ soak' = None
  /\ UNCHANGED <<now, ahead, files, kill, ladder, pending, last, hist>>

\* A rollback removes the marker and restarts into the older version.
Rollback ==
  /\ soak # None
  /\ soak' = None
  /\ NewProcess
  /\ UNCHANGED <<now, ahead, files, kill>>

\* A server anchor replaces a wall clock that ran ahead: trusted time goes
\* back.  (Bound: once in a behaviour.)
CorrectClock ==
  /\ ahead # 0 /\ now >= ahead
  /\ now' = now - ahead
  /\ ahead' = 0
  /\ hist' = [hist EXCEPT !.warned = {}]
  /\ UNCHANGED <<files, kill, soak, ladder, pending, last>>

-----------------------------------------------------------------------------
Init ==
  /\ now = 0
  /\ ahead \in Corrections \cup {0}
  /\ files \in [current : Docs \cup {"missing"}, lkg : {"missing"}]
  /\ kill = None
  /\ soak = None
  /\ ladder = InitLadder
  /\ pending = None
  /\ last = Idle(0, "starting")
  /\ hist = InitHist

Next ==
  \/ Tick \/ Sleep \/ Restart \/ ApplyPolicy \/ DamagePolicy
  \/ SetKillSwitch \/ ClearKillSwitch \/ InstallShadow \/ PromoteIfDue
  \/ Rollback \/ CorrectClock

Spec == Init /\ [][Next]_vars

-----------------------------------------------------------------------------
(* Properties.                                                              *)

(* The state has its shape: instants are instants or absent, leads are      *)
(* leads, a pending outcome is one of WarningOutcome's three.               *)
LadderType ==
  [episodeStartedAt : Int \cup {None}, warningsDelivered : SUBSET Leads,
   warningsAttempted : SUBSET Leads, warningsAttemptedFor : Int \cup {None},
   lastLockAt : Int \cup {None}, shutdownIssued : BOOLEAN,
   recentEpisodes : SUBSET Int, breakerTripped : BOOLEAN]

EffectsType == [warn : Due \cup {None}, lock : BOOLEAN, shutdown : BOOLEAN]

TypeOK ==
  /\ now \in 0..Horizon
  /\ ahead \in Corrections \cup {0}
  /\ files \in [current : Content, lkg : Content]
  /\ kill \in KillUntils \cup {None}
  /\ soak \in [startedAt : Int, deadline : Int] \cup {None}
  /\ ladder \in LadderType
  /\ pending \in [lead : Leads, outcome : Outcomes] \cup {None}
  /\ last \in [at : Int, outcome : {"starting", "kill_switch", "degraded", "shadow", "acted"},
               active : ActiveWindow \cup {None}, effects : EffectsType]
  /\ hist \in [open : Int \cup {None}, starts : SUBSET Int, tries : Nat,
               shown : SUBSET Due, warned : SUBSET Due]

Shutdown == last.effects.shutdown

(* X10 (Ladder.swift:246-252): "Shutdown without notice destroys work": no  *)
(* shutdown unless a human saw a warning since the last restricted run      *)
(* ended, through failed and undeliverable warnings, restarts, sleep and    *)
(* policy changes.                                                          *)
ShutdownWarned == Shutdown => hist.shown # {}

(* Ladder.swift:12: the lock comes first, and the shutdown no sooner than   *)
(* the grace after the run of restricted ticks began.                       *)
ShutdownAfterGrace == Shutdown => last.at - hist.open >= last.active.grace

(* X9: one episode, at most one shutdown, whatever interrupts it.           *)
OneShutdownPerEpisode == hist.tries <= 1

(* What has to be true of a shutdown before it may destroy anybody's work:  *)
(* noticed, after the lock and its grace, and the only one (Ladder.swift).  *)
ShutdownLawful == ShutdownWarned /\ ShutdownAfterGrace /\ OneShutdownPerEpisode

(* X9 (Ladder.swift:92-94): once more than MaxEpisodes restricted runs have *)
(* begun inside a day, in this process, the ladder does not pass the lock.  *)
BreakerHolds ==
  Shutdown => ~(Cardinality({s \in hist.starts : hist.open - s < Day}) > MaxEpisodes)

(* What ties the ladder's memory to the history: the invariant that the     *)
(* four properties above are proved from (EnforcerProofs).                  *)
Agreement ==
  /\ ladder.episodeStartedAt = hist.open
  /\ hist.tries = IF ladder.shutdownIssued THEN 1 ELSE 0
  /\ ladder.warningsDelivered # {} => hist.shown # {}
  /\ (pending # None /\ pending.outcome = "delivered") => hist.shown # {}
  /\ Shutdown => hist.open # None /\ last.active # None

\* ... for the breaker, whose list forgets what is a day old, ...
BreakerMemory ==
  /\ ladder.recentEpisodes \subseteq hist.starts
  /\ \A s \in hist.starts \ ladder.recentEpisodes : now - s >= Day
  /\ hist.open # None =>
       ladder.breakerTripped =
         (Cardinality({s \in hist.starts : hist.open - s < Day}) > MaxEpisodes)

\* ... and for the throttle, while time only moves forward.
LockNotAhead == ladder.lastLockAt # None => ladder.lastLockAt <= now

(* The terminal rung is reached: a warned run that has lasted its grace and *)
(* has not tripped the breaker has been shut down (Ladder.swift:241-270).   *)
EscalatesInTime ==
  (/\ last.outcome = "acted" /\ hist.open # None
   /\ last.active # None /\ last.active.action = "shutdown"
   /\ last.at - hist.open >= last.active.grace
   /\ hist.shown # {} /\ ~ladder.breakerTripped)
  => hist.tries = 1

(* The policy the Mac holds: the newest file that verifies.                 *)
Verified == {f \in {"current", "lkg"} : files[f] \in Docs}
Held == IF "current" \in Verified THEN files["current"] ELSE files["lkg"]

Demand(t) == Evaluation(Held, t).active
Demands(t, actions) ==
  Verified # {} /\ Demand(t) # None /\ Demand(t).action \in actions

Ticked == last' # last /\ last'.outcome # "starting"

Switched(t) == kill # None /\ t < kill
InSoak(t) == soak # None /\ soak.startedAt <= t + SoakSlack /\ t < soak.deadline

(* The standing test (design-decisions.md:2524) and Ladder.swift:10-11: on  *)
(* EVERY tick at which the policy on disk demands it the screen is locked,  *)
(* unless the kill switch or a soak is in force; a lost file, a late or an  *)
(* early tick, a failed warning or a tripped breaker never excuses it.      *)
BedtimeHolds ==
  [][(Ticked /\ Demands(now', {"lock", "shutdown"})
        /\ ~Switched(now') /\ ~InSoak(now'))
     => last'.effects.lock]_vars

(* The mirror image: nothing is done to the Mac that the policy on disk     *)
(* does not demand at that very instant, or under a kill switch or a soak.  *)
ActsOnlyWhenLawful ==
  [][Ticked =>
       /\ last'.effects.lock => Demands(now', {"lock", "shutdown"})
       /\ last'.effects.shutdown => Demands(now', {"shutdown"})
       /\ (last'.effects # NoEffects) => ~Switched(now') /\ ~InSoak(now')]_vars

(* Ladder.swift:143-147 (thirty dialogs instead of four): while the policy  *)
(* stays, no (boundary, lead) is put up twice.                              *)
NoWarningTwice ==
  [][(Ticked /\ last'.effects.warn # None)
       => last'.effects.warn \notin hist.warned]_vars

(* Ladder.swift:10-11, as the drawing has it: "the enforcer RE-LOCKS every  *)
(* tick while the predicate holds", stated of every tick that applies its   *)
(* decision.                                                                *)
RelocksEveryTick ==
  (last.outcome = "acted" /\ last.active # None /\ last.active.action # "warn_only")
    => last.effects.lock

(* SyncDaemon.swift:421-424: the old policy is promoted to last-known-good  *)
(* "only after the new one has verified.  That ordering is what makes V8's  *)
(* fallback real": a Mac that holds a verifiable policy goes on holding one *)
(* whatever it is sent.                                                     *)
KnownGoodSurvives == [][Verified # {} => Verified' # {}]_vars

(* ShadowMode.swift:3-4: a version in shadow "computes every decision it    *)
(* *would* make": a shadow tick at which the warned, unbroken run has       *)
(* lasted its grace has decided the shutdown.                               *)
ShadowComputesShutdown ==
  (/\ last.outcome = "shadow"
   /\ last.active # None /\ last.active.action = "shutdown"
   /\ hist.open # None /\ last.at - hist.open >= last.active.grace
   /\ ladder.warningsAttempted # {} /\ ~ladder.breakerTripped)
  => ladder.shutdownIssued
=============================================================================
