--------------------------- MODULE EnforcerProofs ---------------------------
(***************************************************************************)
(* Theorems about Enforcer, for every policy, every predicate that answers *)
(* in the right shape, and every value of the constants.                   *)
(*                                                                         *)
(* The induction follows one idea: the ladder's memory agrees with the     *)
(* history of the run it is in (Agreement).  Each part of Ladder.step gets *)
(* a lemma that says what it does to that memory; the step lemma then only *)
(* has to put the parts together, action by action.                        *)
(***************************************************************************)
EXTENDS Enforcer, TLAPS

\* What the store hands out is a policy.
LEMMA LoadIsDoc == ASSUME Load(files) # None PROVE Load(files) \in Docs
BY DEF Load

\* What a policy says at an instant has the shape the ladder expects.
LEMMA EvaluationTyped ==
  ASSUME NEW d \in Docs, NEW t \in 0..Horizon
  PROVE  /\ Evaluation(d, t).active \in ActiveWindow \cup {None}
         /\ Evaluation(d, t).due \subseteq Due
BY EvaluationAssumption

-----------------------------------------------------------------------------
(* The parts of Ladder.step.                                                *)

\* Folding in an outcome touches the deliveries only.
LEMMA FoldFacts ==
  ASSUME NEW s \in LadderType,
         pending \in [lead : Leads, outcome : Outcomes] \cup {None}
  PROVE  /\ FoldWarning(s) \in LadderType
         /\ FoldWarning(s).episodeStartedAt = s.episodeStartedAt
         /\ FoldWarning(s).shutdownIssued = s.shutdownIssued
         /\ FoldWarning(s).recentEpisodes = s.recentEpisodes
         /\ FoldWarning(s).breakerTripped = s.breakerTripped
         /\ FoldWarning(s).lastLockAt = s.lastLockAt
         /\ FoldWarning(s).warningsDelivered # {}
              => \/ s.warningsDelivered # {}
                 \/ pending # None /\ pending.outcome = "delivered"
BY DEF FoldWarning, LadderType

\* Ending an episode clears it, and keeps the breaker's memory.
LEMMA EndFacts ==
  ASSUME NEW s \in LadderType
  PROVE  /\ EndEpisode(s) \in LadderType
         /\ EndEpisode(s).episodeStartedAt = None
         /\ s.episodeStartedAt = None => EndEpisode(s) = s
         /\ s.episodeStartedAt # None =>
              /\ EndEpisode(s).warningsDelivered = {}
              /\ EndEpisode(s).shutdownIssued = FALSE
              /\ EndEpisode(s).lastLockAt = None
         /\ EndEpisode(s).recentEpisodes = s.recentEpisodes
         /\ EndEpisode(s).breakerTripped = s.breakerTripped
BY DEF EndEpisode, LadderType

\* Outside a window the ladder may warn, and does nothing else.
LEMMA UnrestrictedFacts ==
  ASSUME NEW s \in LadderType, NEW due \in SUBSET Due
  PROVE  LET r == Unrestricted(s, due) IN
         /\ r.state \in LadderType
         /\ r.effects \in EffectsType
         /\ r.effects.lock = FALSE /\ r.effects.shutdown = FALSE
         /\ r.state.episodeStartedAt = None
         /\ r.state.shutdownIssued = EndEpisode(s).shutdownIssued
         /\ r.state.warningsDelivered = EndEpisode(s).warningsDelivered
         /\ r.state.recentEpisodes = s.recentEpisodes
         /\ r.state.lastLockAt = EndEpisode(s).lastLockAt
<1> DEFINE e == EndEpisode(s)
           u == CHOOSE x \in Urgent(due) : TRUE
           leads == {w.lead : w \in {x \in due : x.boundary = u.boundary}}
<1>1. e \in LadderType /\ e.episodeStartedAt = None /\ e.recentEpisodes = s.recentEpisodes
  BY EndFacts
<1>2. CASE Urgent(due) = {}
  <2>1. Unrestricted(s, due) = [state |-> e, effects |-> NoEffects]
    BY <1>2 DEF Unrestricted
  <2>2. NoEffects \in EffectsType /\ NoEffects.lock = FALSE /\ NoEffects.shutdown = FALSE
    BY DEF NoEffects, EffectsType
  <2> QED BY <1>1, <2>1, <2>2
<1>3. CASE Urgent(due) # {}
  <2>1. u \in due /\ u \in Due
    BY <1>3 DEF Urgent
  <2>2. u.lead \in Leads /\ u.boundary \in Int
    BY <2>1 DEF Due
  <2>3. leads \in SUBSET Leads
    BY DEF Due
  <2>4. Attempted(e, u) \in SUBSET Leads
    BY <1>1 DEF Attempted, LadderType
  <2> DEFINE st == [e EXCEPT !.warningsAttemptedFor = u.boundary,
                             !.warningsAttempted = Attempted(e, u) \cup leads]
             ef == [NoEffects EXCEPT
                      !.warn = IF u.lead \in Attempted(e, u) THEN None ELSE u]
  <2>5. Unrestricted(s, due) = [state |-> st, effects |-> ef]
    BY <1>3 DEF Unrestricted
  <2>6. /\ st \in LadderType
        /\ st.episodeStartedAt = None
        /\ st.shutdownIssued = e.shutdownIssued
        /\ st.warningsDelivered = e.warningsDelivered
        /\ st.recentEpisodes = e.recentEpisodes
        /\ st.lastLockAt = e.lastLockAt
    <3> HIDE DEF leads, u, e
    <3> QED BY <1>1, <2>2, <2>3, <2>4 DEF LadderType
  <2>7. ef \in EffectsType /\ ef.lock = FALSE /\ ef.shutdown = FALSE
    BY <2>1 DEF NoEffects, EffectsType
  <2> HIDE DEF st, ef
  <2> QED BY <1>1, <2>5, <2>6, <2>7
<1> QED BY <1>2, <1>3

\* An episode that is open stays; one that begins is counted.
LEMMA StartFacts ==
  ASSUME NEW s \in LadderType, NEW t \in Int
  PROVE  /\ StartEpisode(s, t) \in LadderType
         /\ s.episodeStartedAt # None => StartEpisode(s, t) = s
         /\ s.episodeStartedAt = None =>
              /\ StartEpisode(s, t).episodeStartedAt = t
              /\ StartEpisode(s, t).recentEpisodes =
                   {e \in s.recentEpisodes \cup {t} : t - e < Day}
              /\ StartEpisode(s, t).breakerTripped =
                   (Cardinality({e \in s.recentEpisodes \cup {t} : t - e < Day})
                      > MaxEpisodes)
         /\ StartEpisode(s, t).warningsDelivered = s.warningsDelivered
         /\ StartEpisode(s, t).shutdownIssued = s.shutdownIssued
         /\ StartEpisode(s, t).lastLockAt = s.lastLockAt
<1> DEFINE recent == {e \in s.recentEpisodes \cup {t} : t - e < Day}
           tripped == Cardinality(recent) > MaxEpisodes
<1>1. recent \in SUBSET Int
  BY DEF LadderType
<1>2. tripped \in BOOLEAN
  OBVIOUS
<1>3. StartEpisode(s, t) = IF s.episodeStartedAt # None THEN s
        ELSE [s EXCEPT !.episodeStartedAt = t, !.recentEpisodes = recent,
                       !.breakerTripped = tripped]
  BY DEF StartEpisode
<1> HIDE DEF tripped
<1>4. /\ StartEpisode(s, t) \in LadderType
      /\ s.episodeStartedAt # None => StartEpisode(s, t) = s
      /\ s.episodeStartedAt = None =>
           /\ StartEpisode(s, t).episodeStartedAt = t
           /\ StartEpisode(s, t).recentEpisodes = recent
           /\ StartEpisode(s, t).breakerTripped = tripped
      /\ StartEpisode(s, t).warningsDelivered = s.warningsDelivered
      /\ StartEpisode(s, t).shutdownIssued = s.shutdownIssued
      /\ StartEpisode(s, t).lastLockAt = s.lastLockAt
  <2> HIDE DEF recent
  <2> QED BY <1>1, <1>2, <1>3 DEF LadderType
<1> QED BY <1>4 DEF tripped

\* Inside a window: the lock, and under four guards the shutdown.
LEMMA InsideFacts ==
  ASSUME NEW s \in LadderType, NEW w \in ActiveWindow, NEW t \in Int
  PROVE  LET r == InsideWindow(s, w, t)
             b == StartEpisode(s, t)
         IN  /\ r.state \in LadderType
             /\ r.effects \in EffectsType
             /\ r.state.episodeStartedAt = b.episodeStartedAt
             /\ r.state.warningsDelivered = b.warningsDelivered
             /\ r.state.recentEpisodes = b.recentEpisodes
             /\ r.state.breakerTripped = b.breakerTripped
             /\ r.state.shutdownIssued = (b.shutdownIssued \/ r.effects.shutdown)
             /\ r.effects.warn = None
             /\ r.effects.shutdown => CanEscalate(b, w, t)
             /\ r.effects.lock => w.action # "warn_only"
             /\ r.state.lastLockAt = IF r.effects.lock THEN t ELSE b.lastLockAt
             /\ w.action # "warn_only" =>
                  /\ r.effects.lock <=> ShouldReassert(b, t)
                  /\ r.effects.shutdown <=> CanEscalate(b, w, t)
<1> DEFINE b == StartEpisode(s, t)
           relock == ShouldReassert(b, t)
           escalate == CanEscalate(b, w, t)
<1>1. b \in LadderType
  BY StartFacts
<1>2. relock \in BOOLEAN /\ escalate \in BOOLEAN
  BY DEF ShouldReassert, CanEscalate
<1>3. CASE w.action = "warn_only"
  <2>1. InsideWindow(s, w, t) = [state |-> b, effects |-> NoEffects]
    BY <1>3 DEF InsideWindow
  <2>2. b.shutdownIssued \in BOOLEAN
    BY <1>1 DEF LadderType
  <2> QED BY <1>1, <1>3, <2>1, <2>2 DEF NoEffects, EffectsType
<1>4. CASE w.action # "warn_only"
  <2> DEFINE st == [b EXCEPT !.lastLockAt = IF relock THEN t ELSE @,
                             !.shutdownIssued = @ \/ escalate]
             ef == [warn |-> None, lock |-> relock, shutdown |-> escalate]
  <2>1. InsideWindow(s, w, t) = [state |-> st, effects |-> ef]
    BY <1>4 DEF InsideWindow
  <2>2. /\ st \in LadderType
        /\ st.episodeStartedAt = b.episodeStartedAt
        /\ st.warningsDelivered = b.warningsDelivered
        /\ st.recentEpisodes = b.recentEpisodes
        /\ st.breakerTripped = b.breakerTripped
        /\ st.shutdownIssued = (b.shutdownIssued \/ escalate)
        /\ st.lastLockAt = IF relock THEN t ELSE b.lastLockAt
    <3> HIDE DEF b, relock, escalate
    <3> QED BY <1>1, <1>2 DEF LadderType
  <2>3. ef \in EffectsType
    BY <1>2 DEF EffectsType
  <2>4. ef.shutdown = escalate /\ ef.lock = relock /\ ef.warn = None
    OBVIOUS
  <2> HIDE DEF st, ef
  <2> QED BY <1>4, <2>1, <2>2, <2>3, <2>4
<1> QED BY <1>3, <1>4

\* The runs of the last day, one that begins at t included.
RecentAt(t) == {e \in ladder.recentEpisodes \cup {t} : t - e < Day}

\* What a step r comes to outside a window: it may warn, and ends the run.
Outside(r) ==
  /\ r.effects.lock = FALSE /\ r.effects.shutdown = FALSE
  /\ r.state.episodeStartedAt = None
  /\ r.state.shutdownIssued = (hist.open = None /\ ladder.shutdownIssued)
  /\ r.state.warningsDelivered # {} => hist.open = None /\ hist.shown # {}
  /\ r.state.recentEpisodes = ladder.recentEpisodes
  /\ r.state.lastLockAt \in {ladder.lastLockAt, None}

\* What a step r comes to inside window w at t: it locks, and may shut down.
Inside(w, t, r) ==
  /\ r.effects.warn = None
  /\ r.effects.lock => w.action # "warn_only"
  /\ r.state.episodeStartedAt = IF hist.open = None THEN t ELSE hist.open
  /\ r.state.shutdownIssued = (ladder.shutdownIssued \/ r.effects.shutdown)
  /\ r.state.warningsDelivered # {} => hist.shown # {}
  /\ hist.open # None =>
       /\ r.state.recentEpisodes = ladder.recentEpisodes
       /\ r.state.breakerTripped = ladder.breakerTripped
  /\ hist.open = None =>
       /\ r.state.recentEpisodes = RecentAt(t)
       /\ r.state.breakerTripped = (Cardinality(RecentAt(t)) > MaxEpisodes)
  /\ r.effects.shutdown =>
       /\ w.action = "shutdown"
       /\ ~ladder.shutdownIssued /\ hist.shown # {}
       /\ ~r.state.breakerTripped
       /\ t - r.state.episodeStartedAt >= w.grace
  /\ r.state.lastLockAt \in {t, ladder.lastLockAt}
  /\ (/\ w.action # "warn_only"
      /\ ladder.lastLockAt = None \/ t - ladder.lastLockAt >= Reassert - Tolerance)
       => r.effects.lock

\* One whole step, related to the history of the run it is taken in.
LEMMA StepFacts ==
  ASSUME TypeOK, Agreement, NEW t \in Int,
         NEW ev, ev.active \in ActiveWindow \cup {None}, ev.due \in SUBSET Due
  PROVE  /\ LadderStep(ev, t).state \in LadderType
         /\ LadderStep(ev, t).effects \in EffectsType
         /\ ev.active = None => Outside(LadderStep(ev, t))
         /\ ev.active # None => Inside(ev.active, t, LadderStep(ev, t))
<1> DEFINE f == FoldWarning(ladder)
           b == StartEpisode(f, t)
<1>1. /\ f \in LadderType
      /\ f.episodeStartedAt = hist.open
      /\ f.shutdownIssued = ladder.shutdownIssued
      /\ f.recentEpisodes = ladder.recentEpisodes
      /\ f.breakerTripped = ladder.breakerTripped
      /\ f.lastLockAt = ladder.lastLockAt
      /\ f.warningsDelivered # {} => hist.shown # {}
  BY FoldFacts DEF TypeOK, Agreement
<1>2. CASE ev.active = None
  <2>1. LadderStep(ev, t) = Unrestricted(f, ev.due)
    BY <1>2 DEF LadderStep
  <2> HIDE DEF f
  <2>2. /\ EndEpisode(f).shutdownIssued = (hist.open = None /\ ladder.shutdownIssued)
        /\ EndEpisode(f).warningsDelivered # {} => hist.open = None /\ hist.shown # {}
        /\ EndEpisode(f).lastLockAt \in {ladder.lastLockAt, None}
    <3>1. f.shutdownIssued \in BOOLEAN
      BY <1>1 DEF LadderType
    <3>2. /\ f.episodeStartedAt = None => EndEpisode(f) = f
          /\ f.episodeStartedAt # None =>
               /\ EndEpisode(f).warningsDelivered = {}
               /\ EndEpisode(f).shutdownIssued = FALSE
               /\ EndEpisode(f).lastLockAt = None
      BY <1>1, EndFacts
    <3> QED BY <1>1, <3>1, <3>2
  <2>3. LET r == LadderStep(ev, t) IN
        /\ r.state \in LadderType /\ r.effects \in EffectsType
        /\ r.effects.lock = FALSE /\ r.effects.shutdown = FALSE
        /\ r.state.episodeStartedAt = None
        /\ r.state.shutdownIssued = EndEpisode(f).shutdownIssued
        /\ r.state.warningsDelivered = EndEpisode(f).warningsDelivered
        /\ r.state.recentEpisodes = f.recentEpisodes
        /\ r.state.lastLockAt = EndEpisode(f).lastLockAt
    <3>1. ev.due \in SUBSET Due
      OBVIOUS
    <3>2. f \in LadderType
      BY <1>1
    <3>3. LET r == Unrestricted(f, ev.due) IN
          /\ r.state \in LadderType /\ r.effects \in EffectsType
          /\ r.effects.lock = FALSE /\ r.effects.shutdown = FALSE
          /\ r.state.episodeStartedAt = None
          /\ r.state.shutdownIssued = EndEpisode(f).shutdownIssued
          /\ r.state.warningsDelivered = EndEpisode(f).warningsDelivered
          /\ r.state.recentEpisodes = f.recentEpisodes
          /\ r.state.lastLockAt = EndEpisode(f).lastLockAt
      BY <3>1, <3>2, UnrestrictedFacts
    <3> QED BY <2>1, <3>3
  <2> QED BY <1>1, <1>2, <2>2, <2>3 DEF Outside
<1>3. CASE ev.active # None
  <2>1. LadderStep(ev, t) = InsideWindow(f, ev.active, t) /\ ev.active \in ActiveWindow
    BY <1>3 DEF LadderStep
  <2> HIDE DEF f
  <2>2. /\ b.episodeStartedAt = IF hist.open = None THEN t ELSE hist.open
        /\ b.shutdownIssued = ladder.shutdownIssued
        /\ b.lastLockAt = ladder.lastLockAt
        /\ b.warningsDelivered # {} => hist.shown # {}
        /\ hist.open # None => /\ b.recentEpisodes = ladder.recentEpisodes
                               /\ b.breakerTripped = ladder.breakerTripped
        /\ hist.open = None =>
             /\ b.recentEpisodes = RecentAt(t)
             /\ b.breakerTripped = (Cardinality(RecentAt(t)) > MaxEpisodes)
    <3> DEFINE Recent(list) == {e \in list \cup {t} : t - e < Day}
    <3>1. Recent(f.recentEpisodes) = RecentAt(t)
      BY <1>1 DEF RecentAt
    <3>2. /\ f.episodeStartedAt # None => b = f
          /\ f.episodeStartedAt = None =>
               /\ b.episodeStartedAt = t
               /\ b.recentEpisodes = Recent(f.recentEpisodes)
               /\ b.breakerTripped = (Cardinality(Recent(f.recentEpisodes)) > MaxEpisodes)
          /\ b.warningsDelivered = f.warningsDelivered
          /\ b.shutdownIssued = f.shutdownIssued
          /\ b.lastLockAt = f.lastLockAt
      BY <1>1, StartFacts
    <3>3. /\ hist.open # None => b = f
          /\ hist.open = None =>
               /\ b.episodeStartedAt = t
               /\ b.recentEpisodes = RecentAt(t)
               /\ b.breakerTripped = (Cardinality(RecentAt(t)) > MaxEpisodes)
      BY <1>1, <3>1, <3>2
    <3>4. hist.open # None => b.episodeStartedAt = hist.open
      BY <1>1, <3>3
    <3> HIDE DEF b
    <3> QED BY <1>1, <3>2, <3>3, <3>4
  <2> HIDE DEF b
  <2>3. LET r == LadderStep(ev, t) IN
        /\ r.state \in LadderType /\ r.effects \in EffectsType
        /\ r.state.episodeStartedAt = b.episodeStartedAt
        /\ r.state.warningsDelivered = b.warningsDelivered
        /\ r.state.recentEpisodes = b.recentEpisodes
        /\ r.state.breakerTripped = b.breakerTripped
        /\ r.state.shutdownIssued = (b.shutdownIssued \/ r.effects.shutdown)
        /\ r.effects.warn = None
        /\ r.effects.shutdown => CanEscalate(b, ev.active, t)
        /\ r.effects.lock => ev.active.action # "warn_only"
        /\ r.state.lastLockAt = IF r.effects.lock THEN t ELSE b.lastLockAt
        /\ ev.active.action # "warn_only" => (r.effects.lock <=> ShouldReassert(b, t))
    BY <1>1, <2>1, InsideFacts DEF b
  <2> QED BY <1>3, <2>2, <2>3 DEF CanEscalate, ShouldReassert, Inside
<1> QED BY <1>2, <1>3

-----------------------------------------------------------------------------
(* The inductive invariant.                                                 *)

IInv == TypeOK /\ Agreement /\ ShutdownWarned /\ ShutdownAfterGrace

\* The initial states satisfy the invariant.
LEMMA InitIInv == Init => IInv
<1> SUFFICES ASSUME Init PROVE IInv
  OBVIOUS
<1>1. /\ InitLadder \in LadderType
      /\ NoEffects \in EffectsType
      /\ Idle(0, "starting").effects = NoEffects
      /\ Idle(0, "starting").active = None
      /\ Idle(0, "starting").at = 0
      /\ Idle(0, "starting").outcome = "starting"
      /\ DOMAIN Idle(0, "starting") = {"at", "outcome", "active", "effects"}
  BY DEF InitLadder, LadderType, NoEffects, EffectsType, Idle
<1>2. TypeOK
  BY <1>1, ConstantsAssumption DEF Init, TypeOK, Content, InitHist, Idle
<1>3. last.effects.shutdown = FALSE
  BY DEF Init, Idle, NoEffects
<1> QED
  BY <1>2, <1>3 DEF Init, IInv, Agreement, ShutdownWarned, ShutdownAfterGrace,
     Shutdown, InitLadder, InitHist

\* A new process forgets everything, history included.
LEMMA NewProcessFacts ==
  NewProcess =>
         /\ ladder' = InitLadder /\ InitLadder \in LadderType
         /\ pending' = None
         /\ hist' = [open |-> None, starts |-> {}, tries |-> 0, shown |-> {}, warned |-> {}]
         /\ last' = [at |-> now, outcome |-> "starting", active |-> None, effects |-> NoEffects]
         /\ NoEffects \in EffectsType /\ NoEffects.shutdown = FALSE /\ NoEffects.lock = FALSE
BY DEF NewProcess, InitLadder, LadderType, InitHist, Idle, NoEffects, EffectsType

\* So a restart keeps the invariant.
LEMMA NewProcessIInv ==
  ASSUME TypeOK, NewProcess,
         now' = now, ahead' = ahead, files' = files, kill' = kill,
         soak' \in [startedAt : Int, deadline : Int] \cup {None}
  PROVE  IInv'
<1>1. TypeOK'
  BY NewProcessFacts DEF TypeOK
<1>2. ~last'.effects.shutdown
  BY NewProcessFacts
<1> QED
  BY <1>1, <1>2, NewProcessFacts DEF IInv, Agreement, ShutdownWarned,
     ShutdownAfterGrace, Shutdown, InitLadder

\* A tick that stops early shows nothing and remembers nothing.
LEMMA IdleIInv ==
  ASSUME IInv, NEW t \in 0..Horizon,
         NEW why \in {"kill_switch", "degraded"},
         now' = t, last' = Idle(t, why),
         UNCHANGED <<ladder, pending, hist>>, UNCHANGED <<ahead, files, kill, soak>>
  PROVE  IInv'
<1>1. /\ last' = [at |-> t, outcome |-> why, active |-> None, effects |-> NoEffects]
      /\ NoEffects \in EffectsType /\ NoEffects.shutdown = FALSE
  BY DEF Idle, NoEffects, EffectsType
<1>2. TypeOK'
  BY <1>1 DEF IInv, TypeOK
<1>3. ~last'.effects.shutdown
  BY <1>1
<1> QED
  BY <1>2, <1>3 DEF IInv, Agreement, ShutdownWarned, ShutdownAfterGrace, Shutdown

\* What history makes of a tick outside a window, and inside one.
HistType == [open : Int \cup {None}, starts : SUBSET Int, tries : Nat,
             shown : SUBSET Due, warned : SUBSET Due]

\* The history keeps its shape: after an unrestricted tick,
LEMMA UnrestrictedHistory ==
  ASSUME hist \in HistType
  PROVE  LET h == SeeUnrestricted(hist) IN
         /\ h \in HistType
         /\ h.open = None /\ h.starts = hist.starts
         /\ h.tries = IF hist.open = None THEN hist.tries ELSE 0
         /\ hist.open = None => h.shown = hist.shown
BY DEF SeeUnrestricted, HistType

\* after a warning,
LEMMA WarningHistory ==
  ASSUME NEW u \in HistType, NEW warn \in Due \cup {None}, NEW outcome
  PROVE  LET h == SeeWarning(u, warn, outcome) IN
         /\ h \in HistType
         /\ h.open = u.open /\ h.starts = u.starts /\ h.tries = u.tries
         /\ u.shown # {} => h.shown # {}
         /\ (warn # None /\ outcome = "delivered") => h.shown # {}
BY DEF SeeWarning, HistType

\* and after a restricted tick.
LEMMA RestrictedHistory ==
  ASSUME hist \in HistType, NEW t \in Int, NEW effects
  PROVE  LET h == SeeRestricted(hist, t, effects) IN
         /\ h \in HistType
         /\ h.open = (IF hist.open = None THEN t ELSE hist.open)
         /\ h.starts = (IF hist.open = None THEN hist.starts \cup {t} ELSE hist.starts)
         /\ h.tries = hist.tries + (IF effects.shutdown THEN 1 ELSE 0)
         /\ h.shown = hist.shown
<1> DEFINE open == IF hist.open = None THEN t ELSE hist.open
           starts == IF hist.open = None THEN hist.starts \cup {t} ELSE hist.starts
           tries == hist.tries + (IF effects.shutdown THEN 1 ELSE 0)
<1>1. open \in Int \cup {None} /\ starts \in SUBSET Int /\ tries \in Nat
  BY DEF HistType
<1>2. SeeRestricted(hist, t, effects) =
        [hist EXCEPT !.open = open, !.starts = starts, !.tries = tries]
  BY DEF SeeRestricted, HistType
<1>3. LET h == [hist EXCEPT !.open = open, !.starts = starts, !.tries = tries] IN
      /\ h \in HistType /\ h.open = open /\ h.starts = starts /\ h.tries = tries
      /\ h.shown = hist.shown
  <2> HIDE DEF open, starts, tries
  <2> QED BY <1>1 DEF HistType
<1> QED BY <1>2, <1>3

\* The two ticks that run the ladder share this much.
LEMMA LadderIInv ==
  ASSUME IInv, NEW t \in 0..Horizon, NEW ev, NEW step, NEW h \in HistType,
         ev.active \in ActiveWindow \cup {None}, ev.due \in SUBSET Due,
         step = LadderStep(ev, t),
         ladder' = step.state, hist' = h,
         h.open = step.state.episodeStartedAt,
         h.tries = IF ev.active = None
                   THEN (IF hist.open = None THEN hist.tries ELSE 0)
                   ELSE hist.tries + (IF step.effects.shutdown THEN 1 ELSE 0),
         (hist.shown # {} /\ (ev.active = None => hist.open = None)) => h.shown # {}
  PROVE  /\ ladder' \in LadderType
         /\ ladder'.episodeStartedAt = hist'.open
         /\ hist'.tries = IF ladder'.shutdownIssued THEN 1 ELSE 0
         /\ ladder'.warningsDelivered # {} => hist'.shown # {}
         /\ step.effects \in EffectsType
         /\ step.effects.shutdown =>
              /\ ev.active # None /\ hist'.open # None /\ hist'.shown # {}
              /\ t - hist'.open >= ev.active.grace
<1>1. TypeOK /\ Agreement /\ t \in Int /\ None \notin Int
  BY ConstantsAssumption DEF IInv
<1>2. /\ ladder.shutdownIssued \in BOOLEAN /\ hist.open \in Int \cup {None}
      /\ hist.tries = IF ladder.shutdownIssued THEN 1 ELSE 0
  BY <1>1 DEF TypeOK, LadderType, Agreement
<1>3. step.state \in LadderType /\ step.effects \in EffectsType
  BY <1>1, StepFacts DEF Outside, Inside
<1>4. CASE ev.active = None
  <2>1. /\ step.effects.shutdown = FALSE
        /\ step.state.shutdownIssued = (hist.open = None /\ ladder.shutdownIssued)
        /\ step.state.warningsDelivered # {} => hist.open = None /\ hist.shown # {}
    <3>1. Outside(step)
      BY <1>1, <1>4, StepFacts
    <3> QED BY <3>1 DEF Outside
  <2> QED BY <1>2, <1>3, <1>4, <2>1
<1>5. CASE ev.active # None
  <2>1. /\ step.state.episodeStartedAt = IF hist.open = None THEN t ELSE hist.open
        /\ step.state.shutdownIssued = (ladder.shutdownIssued \/ step.effects.shutdown)
        /\ step.state.warningsDelivered # {} => hist.shown # {}
        /\ step.effects.shutdown =>
             /\ ~ladder.shutdownIssued /\ hist.shown # {}
             /\ t - step.state.episodeStartedAt >= ev.active.grace
    <3>1. Inside(ev.active, t, step)
      BY <1>1, <1>5, StepFacts
    <3> QED BY <3>1 DEF Inside
  <2>2. step.effects.shutdown \in BOOLEAN
    BY <1>3 DEF EffectsType
  <2> QED BY <1>1, <1>2, <1>3, <1>5, <2>1, <2>2
<1> QED BY <1>4, <1>5

\* A tick in shadow, whose warnings nobody sees, keeps the invariant.
LEMMA TickShadowIInv ==
  ASSUME IInv, NEW t \in 0..Horizon, now' = t, TickShadow(t),
         UNCHANGED <<ahead, files, kill, soak>>
  PROVE  IInv'
<1> DEFINE ev == Evaluation(Load(files), t)
           step == LadderStep(ev, t)
<1>1. TypeOK /\ Agreement /\ t \in Int
  BY DEF IInv
<1>2. ev.active \in ActiveWindow \cup {None} /\ ev.due \in SUBSET Due
  BY LoadIsDoc, EvaluationTyped DEF TickShadow
<1>3. /\ ladder' = step.state
      /\ last' = [Idle(t, "shadow") EXCEPT !.active = ev.active]
      /\ hist' = IF ev.active = None THEN SeeUnrestricted(hist)
                 ELSE SeeRestricted(hist, t, step.effects)
      /\ pending' = None
  BY DEF TickShadow
<1> HIDE DEF ev
<1>4. step.effects \in EffectsType
      /\ step.state.episodeStartedAt =
           IF ev.active = None THEN None ELSE IF hist.open = None THEN t ELSE hist.open
  BY <1>1, <1>2, StepFacts DEF Outside, Inside
<1> HIDE DEF step
<1>5. /\ hist' \in HistType
      /\ hist'.open = step.state.episodeStartedAt
      /\ hist'.tries = IF ev.active = None
                       THEN (IF hist.open = None THEN hist.tries ELSE 0)
                       ELSE hist.tries + (IF step.effects.shutdown THEN 1 ELSE 0)
      /\ (hist.shown # {} /\ (ev.active = None => hist.open = None)) => hist'.shown # {}
  <2>1. CASE ev.active = None
    <3>1. hist' = SeeUnrestricted(hist) /\ hist \in HistType
      BY <1>1, <1>3, <2>1 DEF TypeOK, HistType
    <3> QED BY <1>4, <2>1, <3>1, UnrestrictedHistory
  <2>2. CASE ev.active # None
    <3>1. hist' = SeeRestricted(hist, t, step.effects) /\ hist \in HistType
      BY <1>1, <1>3, <2>2 DEF TypeOK, HistType
    <3> QED BY <1>1, <1>4, <2>2, <3>1, RestrictedHistory
  <2> QED BY <2>1, <2>2
<1>6. /\ ladder' \in LadderType
      /\ ladder'.episodeStartedAt = hist'.open
      /\ hist'.tries = IF ladder'.shutdownIssued THEN 1 ELSE 0
      /\ ladder'.warningsDelivered # {} => hist'.shown # {}
  BY <1>2, <1>3, <1>5, LadderIInv DEF step
<1>7. /\ last' = [at |-> t, outcome |-> "shadow", active |-> ev.active, effects |-> NoEffects]
      /\ NoEffects \in EffectsType /\ NoEffects.shutdown = FALSE
  BY <1>3 DEF Idle, NoEffects, EffectsType
<1>8. TypeOK'
  BY <1>1, <1>2, <1>3, <1>5, <1>6, <1>7 DEF TypeOK, HistType
<1>9. ~last'.effects.shutdown
  BY <1>7
<1> QED
  BY <1>3, <1>6, <1>8, <1>9 DEF IInv, Agreement, ShutdownWarned, ShutdownAfterGrace, Shutdown

\* A tick that acts keeps the invariant: the heart of the proof.
LEMMA TickActIInv ==
  ASSUME IInv, NEW t \in 0..Horizon, now' = t, TickAct(t),
         UNCHANGED <<ahead, files, kill, soak>>
  PROVE  IInv'
<1> DEFINE ev == Evaluation(Load(files), t)
           step == LadderStep(ev, t)
           warn == step.effects.warn
<1>1. TypeOK /\ Agreement /\ t \in Int
  BY DEF IInv
<1>2. ev.active \in ActiveWindow \cup {None} /\ ev.due \in SUBSET Due
  BY LoadIsDoc, EvaluationTyped DEF TickAct
<1>3. /\ ladder' = step.state
      /\ last' = [at |-> t, outcome |-> "acted", active |-> ev.active,
                  effects |-> step.effects]
  BY DEF TickAct
<1>4. PICK outcome \in Outcomes :
        /\ pending' = IF warn = None THEN None
                      ELSE [lead |-> warn.lead, outcome |-> outcome]
        /\ hist' = IF ev.active = None
                   THEN SeeWarning(SeeUnrestricted(hist), warn, outcome)
                   ELSE SeeRestricted(hist, t, step.effects)
  BY DEF TickAct
<1> HIDE DEF ev
<1>5. /\ step.effects \in EffectsType
      /\ step.state.episodeStartedAt =
           IF ev.active = None THEN None ELSE IF hist.open = None THEN t ELSE hist.open
      /\ ev.active # None => warn = None
  BY <1>1, <1>2, StepFacts DEF Outside, Inside
<1>6. warn \in Due \cup {None}
  BY <1>5 DEF EffectsType
<1> HIDE DEF step, warn
<1>7. /\ hist' \in HistType
      /\ hist'.open = step.state.episodeStartedAt
      /\ hist'.tries = IF ev.active = None
                       THEN (IF hist.open = None THEN hist.tries ELSE 0)
                       ELSE hist.tries + (IF step.effects.shutdown THEN 1 ELSE 0)
      /\ (hist.shown # {} /\ (ev.active = None => hist.open = None)) => hist'.shown # {}
      /\ (warn # None /\ outcome = "delivered") => hist'.shown # {}
  <2>1. CASE ev.active = None
    <3> DEFINE u == SeeUnrestricted(hist)
    <3>1. hist' = SeeWarning(u, warn, outcome) /\ hist \in HistType
      BY <1>1, <1>4, <2>1 DEF TypeOK, HistType
    <3>2. /\ u \in HistType /\ u.open = None
          /\ u.tries = IF hist.open = None THEN hist.tries ELSE 0
          /\ hist.open = None => u.shown = hist.shown
      BY <3>1, UnrestrictedHistory
    <3> HIDE DEF u
    <3>3. /\ hist' \in HistType /\ hist'.open = u.open /\ hist'.tries = u.tries
          /\ u.shown # {} => hist'.shown # {}
          /\ (warn # None /\ outcome = "delivered") => hist'.shown # {}
      BY <1>6, <3>1, <3>2, WarningHistory
    <3> QED BY <1>5, <2>1, <3>2, <3>3
  <2>2. CASE ev.active # None
    <3>1. hist' = SeeRestricted(hist, t, step.effects) /\ hist \in HistType
      BY <1>1, <1>4, <2>2 DEF TypeOK, HistType
    <3> QED BY <1>1, <1>5, <2>2, <3>1, RestrictedHistory
  <2> QED BY <2>1, <2>2
<1>8. /\ ladder' \in LadderType
      /\ ladder'.episodeStartedAt = hist'.open
      /\ hist'.tries = IF ladder'.shutdownIssued THEN 1 ELSE 0
      /\ ladder'.warningsDelivered # {} => hist'.shown # {}
      /\ step.effects.shutdown =>
           /\ ev.active # None /\ hist'.open # None /\ hist'.shown # {}
           /\ t - hist'.open >= ev.active.grace
  BY <1>2, <1>3, <1>7, LadderIInv DEF step
<1>9. /\ pending' \in [lead : Leads, outcome : Outcomes] \cup {None}
      /\ (pending' # None /\ pending'.outcome = "delivered") => hist'.shown # {}
  BY <1>4, <1>6, <1>7 DEF Due
<1>10. TypeOK'
  BY <1>1, <1>2, <1>3, <1>5, <1>7, <1>8, <1>9 DEF TypeOK, HistType
<1>11. /\ last'.at = t /\ last'.active = ev.active /\ last'.effects = step.effects
  BY <1>3
<1> QED
  BY <1>8, <1>9, <1>10, <1>11
  DEF IInv, Agreement, ShutdownWarned, ShutdownAfterGrace, Shutdown

\* The world between two ticks touches neither the ladder nor its history,
\* except that a change of policy or clock starts the warnings afresh.
LEMMA WorldIInv ==
  ASSUME IInv, now' \in 0..Horizon, ahead' \in Corrections \cup {0},
         files' \in [current : Content, lkg : Content],
         kill' \in KillUntils \cup {None},
         soak' \in [startedAt : Int, deadline : Int] \cup {None},
         UNCHANGED <<ladder, pending, last>>,
         hist' = hist \/ hist' = [hist EXCEPT !.warned = {}]
  PROVE  IInv'
<1>1. /\ hist' \in HistType
      /\ hist'.open = hist.open /\ hist'.tries = hist.tries /\ hist'.shown = hist.shown
  BY DEF IInv, TypeOK, HistType
<1>2. TypeOK'
  BY <1>1 DEF IInv, TypeOK, HistType
<1> QED
  BY <1>1, <1>2 DEF IInv, Agreement, ShutdownWarned, ShutdownAfterGrace, Shutdown

\* Every step keeps the invariant.
LEMMA NextIInv == IInv /\ [Next]_vars => IInv'
<1> SUFFICES ASSUME IInv, [Next]_vars PROVE IInv'
  OBVIOUS
<1>t. TypeOK
  BY DEF IInv
<1>1. CASE Tick
  <2>1. PICK g \in Gaps :
          /\ now + g <= Horizon /\ now' = now + g
          /\ \/ TickKillSwitch(now + g) \/ TickFailOpen(now + g)
             \/ TickShadow(now + g) \/ TickAct(now + g)
    BY <1>1 DEF Tick
  <2>2. UNCHANGED <<ahead, files, kill, soak>>
    BY <1>1 DEF Tick
  <2>3. now + g \in 0..Horizon
    BY <1>t, <2>1, ConstantsAssumption DEF TypeOK
  <2>4. CASE TickKillSwitch(now + g)
    BY <2>1, <2>2, <2>3, <2>4, IdleIInv DEF TickKillSwitch
  <2>5. CASE TickFailOpen(now + g)
    BY <2>1, <2>2, <2>3, <2>5, IdleIInv DEF TickFailOpen
  <2>6. CASE TickShadow(now + g)
    BY <2>1, <2>2, <2>3, <2>6, TickShadowIInv
  <2>7. CASE TickAct(now + g)
    BY <2>1, <2>2, <2>3, <2>7, TickActIInv
  <2> QED BY <2>1, <2>4, <2>5, <2>6, <2>7
<1>2. CASE Sleep
  <2>1. now' \in 0..Horizon
    BY <1>2, <1>t, ConstantsAssumption DEF Sleep, TypeOK
  <2> QED BY <1>2, <1>t, <2>1, WorldIInv DEF Sleep, TypeOK
<1>3. CASE Restart
  <2>1. NewProcess /\ soak' \in [startedAt : Int, deadline : Int] \cup {None}
        /\ UNCHANGED <<now, ahead, files, kill>>
    BY <1>3, <1>t DEF Restart, TypeOK
  <2> QED BY <1>t, <2>1, NewProcessIInv
<1>4. CASE ApplyPolicy
  <2>1. files' \in [current : Content, lkg : Content]
    BY <1>4, <1>t, ConstantsAssumption DEF ApplyPolicy, TypeOK, Content
  <2> QED BY <1>4, <1>t, <2>1, WorldIInv DEF ApplyPolicy, TypeOK
<1>5. CASE DamagePolicy
  <2>1. files' \in [current : Content, lkg : Content]
    BY <1>5, <1>t DEF DamagePolicy, TypeOK, Content
  <2> QED BY <1>5, <1>t, <2>1, WorldIInv DEF DamagePolicy, TypeOK
<1>6. CASE SetKillSwitch
  BY <1>6, <1>t, WorldIInv DEF SetKillSwitch, TypeOK
<1>7. CASE ClearKillSwitch
  BY <1>7, <1>t, WorldIInv DEF ClearKillSwitch, TypeOK
<1>8. CASE InstallShadow
  <2>1. NewProcess /\ soak' \in [startedAt : Int, deadline : Int] \cup {None}
        /\ UNCHANGED <<now, ahead, files, kill>>
    BY <1>8, <1>t, ConstantsAssumption DEF InstallShadow, TypeOK
  <2> QED BY <1>t, <2>1, NewProcessIInv
<1>9. CASE PromoteIfDue
  BY <1>9, <1>t, WorldIInv DEF PromoteIfDue, TypeOK
<1>10. CASE Rollback
  <2>1. NewProcess /\ soak' \in [startedAt : Int, deadline : Int] \cup {None}
        /\ UNCHANGED <<now, ahead, files, kill>>
    BY <1>10 DEF Rollback
  <2> QED BY <1>t, <2>1, NewProcessIInv
<1>11. CASE CorrectClock
  <2>1. now' \in 0..Horizon /\ ahead' \in Corrections \cup {0}
    BY <1>11, <1>t, ConstantsAssumption DEF CorrectClock, TypeOK
  <2> QED BY <1>11, <1>t, <2>1, WorldIInv DEF CorrectClock, TypeOK
<1>12. CASE UNCHANGED vars
  BY <1>12, <1>t, WorldIInv DEF vars, TypeOK
<1> QED
  BY <1>1, <1>2, <1>3, <1>4, <1>5, <1>6, <1>7, <1>8, <1>9, <1>10, <1>11, <1>12 DEF Next

(* The invariant holds for ever: the ladder's memory agrees with the history *)
(* of the ticks that made it.                                               *)
THEOREM Inductive == Spec => []IInv
BY InitIInv, NextIInv, PTL DEF Spec

(* The state keeps its shape (the enforcer's TypeOK).                       *)
THEOREM Typed == Spec => []TypeOK
<1>1. IInv => TypeOK
  BY DEF IInv
<1> QED BY Inductive, <1>1, PTL

(* X10, for every policy and every schedule: no shutdown without a warning  *)
(* a human saw since the last restricted run ended.                         *)
THEOREM NoUnwarnedShutdown == Spec => []ShutdownWarned
<1>1. IInv => ShutdownWarned
  BY DEF IInv
<1> QED BY Inductive, <1>1, PTL

(* No shutdown before the run of restricted ticks has lasted its grace.     *)
THEOREM GraceRespected == Spec => []ShutdownAfterGrace
<1>1. IInv => ShutdownAfterGrace
  BY DEF IInv
<1> QED BY Inductive, <1>1, PTL

(* At most one shutdown is issued per episode.                              *)
THEOREM OneShutdown == Spec => []OneShutdownPerEpisode
<1>1. IInv => OneShutdownPerEpisode
  BY DEF IInv, Agreement, OneShutdownPerEpisode
<1> QED BY Inductive, <1>1, PTL

(* All three: what a shutdown needs before it may destroy anybody's work.   *)
THEOREM ShutdownsAreLawful == Spec => []ShutdownLawful
<1>1. ShutdownWarned /\ ShutdownAfterGrace /\ OneShutdownPerEpisode => ShutdownLawful
  BY DEF ShutdownLawful
<1> QED BY NoUnwarnedShutdown, GraceRespected, OneShutdown, <1>1, PTL

-----------------------------------------------------------------------------
(* Steps, seen from outside: which of them is a tick, and what it did.      *)

\* A step that Ticked is one of the four ticks, at now'.
LEMMA TickedStep ==
  TypeOK /\ [Next]_vars /\ Ticked =>
    \E g \in Gaps :
      /\ now' = now + g /\ now + g \in 0..Horizon
      /\ UNCHANGED <<ahead, files, kill, soak>>
      /\ \/ TickKillSwitch(now + g) \/ TickFailOpen(now + g)
         \/ TickShadow(now + g) \/ TickAct(now + g)
<1> SUFFICES ASSUME TypeOK, [Next]_vars, Ticked
             PROVE  \E g \in Gaps :
                      /\ now' = now + g /\ now + g \in 0..Horizon
                      /\ UNCHANGED <<ahead, files, kill, soak>>
                      /\ \/ TickKillSwitch(now + g) \/ TickFailOpen(now + g)
                         \/ TickShadow(now + g) \/ TickAct(now + g)
  OBVIOUS
<1>1. NewProcess => last'.outcome = "starting"
  BY NewProcessFacts
<1>2. Tick
  BY <1>1 DEF Ticked, Next, vars, Sleep, Restart, ApplyPolicy, DamagePolicy,
     SetKillSwitch, ClearKillSwitch, InstallShadow, PromoteIfDue, Rollback, CorrectClock
<1> QED
  BY <1>2, ConstantsAssumption DEF Tick, TypeOK

\* What is loaded is what the Mac holds.
LEMMA LoadIsHeld ==
  /\ Load(files) # None => Verified # {} /\ Load(files) = Held
  /\ TypeOK /\ Verified # {} => Load(files) # None
BY ConstantsAssumption DEF Load, Verified, Held, TypeOK

\* A soak's deadline is the one it was begun with.
SoakAsBegun == soak # None => soak.deadline - soak.startedAt <= SoakLength + SoakSlack

\* A soak lasts no longer than it was begun for.
LEMMA NextSoak == TypeOK /\ SoakAsBegun /\ [Next]_vars => SoakAsBegun'
<1> SUFFICES ASSUME TypeOK, SoakAsBegun, [Next]_vars PROVE SoakAsBegun'
  OBVIOUS
<1>1. CASE InstallShadow
  BY <1>1, ConstantsAssumption DEF InstallShadow, SoakAsBegun, TypeOK
<1>2. CASE ~InstallShadow
  <2>1. soak' \in {soak, None}
    BY <1>2 DEF Next, vars, Tick, Sleep, Restart, ApplyPolicy, DamagePolicy, SetKillSwitch,
       ClearKillSwitch, PromoteIfDue, Rollback, CorrectClock
  <2> QED BY <2>1 DEF SoakAsBegun
<1> QED BY <1>1, <1>2

\* Before a soak's deadline its verdict is shadow.
LEMMA InSoakShadows ==
  ASSUME TypeOK, SoakAsBegun, NEW t, InSoak(t)
  PROVE  Shadowing(t)
BY DEF InSoak, Shadowing, SoakAsBegun

\* A tick that applies its decision, in terms of the policy held.
LEMMA ActFacts ==
  ASSUME IInv, NEW t \in 0..Horizon, TickAct(t)
  PROVE  LET ev == Evaluation(Held, t)
             step == LadderStep(ev, t)
         IN  /\ Verified # {} /\ Held \in Docs
             /\ last'.effects = step.effects
             /\ ladder' = step.state
             /\ ev.active \in ActiveWindow \cup {None} /\ ev.due \in SUBSET Due
             /\ ~KillSwitchPresent(t) /\ ~Shadowing(t)
<1>1. Load(files) # None /\ Load(files) = Held /\ Verified # {} /\ Held \in Docs
  BY LoadIsHeld, LoadIsDoc DEF TickAct
<1>2. /\ Evaluation(Held, t).active \in ActiveWindow \cup {None}
      /\ Evaluation(Held, t).due \in SUBSET Due
  BY <1>1, EvaluationTyped
<1>3. LET step == LadderStep(Evaluation(Held, t), t) IN
      /\ ladder' = step.state
      /\ last' = [at |-> t, outcome |-> "acted",
                  active |-> Evaluation(Held, t).active, effects |-> step.effects]
      /\ ~KillSwitchPresent(t) /\ ~Shadowing(t)
  BY <1>1 DEF TickAct
<1> QED BY <1>1, <1>2, <1>3

\* A tick that acts does what the held policy demands, under no kill switch or soak.
LEMMA LawfulStep ==
  IInv /\ SoakAsBegun /\ [Next]_vars =>
    (Ticked =>
       /\ last'.effects.lock => Demands(now', {"lock", "shutdown"})
       /\ last'.effects.shutdown => Demands(now', {"shutdown"})
       /\ (last'.effects # NoEffects) => ~Switched(now') /\ ~InSoak(now'))
<1> SUFFICES ASSUME IInv, SoakAsBegun, [Next]_vars, Ticked
             PROVE  /\ last'.effects.lock => Demands(now', {"lock", "shutdown"})
                    /\ last'.effects.shutdown => Demands(now', {"shutdown"})
                    /\ (last'.effects # NoEffects) => ~Switched(now') /\ ~InSoak(now')
  OBVIOUS
<1>t. TypeOK /\ Agreement
  BY DEF IInv
<1>1. PICK g \in Gaps :
        /\ now' = now + g /\ now + g \in 0..Horizon
        /\ \/ TickKillSwitch(now + g) \/ TickFailOpen(now + g)
           \/ TickShadow(now + g) \/ TickAct(now + g)
  BY <1>t, TickedStep
<1> DEFINE t == now + g
<1>2. CASE TickKillSwitch(t) \/ TickFailOpen(t) \/ TickShadow(t)
  <2>1. last'.effects = NoEffects
    BY <1>2 DEF TickKillSwitch, TickFailOpen, TickShadow, Idle
  <2> QED BY <2>1 DEF NoEffects
<1>3. CASE TickAct(t)
  <2> DEFINE ev == Evaluation(Held, t)
             step == LadderStep(ev, t)
  <2>1. /\ Verified # {} /\ last'.effects = step.effects
        /\ ev.active \in ActiveWindow \cup {None} /\ ev.due \in SUBSET Due
        /\ ~KillSwitchPresent(t) /\ ~Shadowing(t)
    BY <1>1, <1>3, ActFacts
  <2>2. t \in Int
    BY <1>1
  <2> HIDE DEF ev
  <2>3. /\ step.effects.lock => ev.active # None /\ ev.active.action # "warn_only"
        /\ step.effects.shutdown => ev.active # None /\ ev.active.action = "shutdown"
    BY <1>t, <2>1, <2>2, StepFacts DEF Outside, Inside
  <2>4. ev.active # None => ev.active.action \in {"warn_only", "lock", "shutdown"}
    BY <2>1 DEF ActiveWindow, Actions
  <2>5. ~Switched(t)
    BY <2>1 DEF KillSwitchPresent, Switched
  <2>6. ~InSoak(t)
    BY <1>t, <2>1, InSoakShadows
  <2> HIDE DEF step, t
  <2>7. now' = t
    BY <1>1 DEF t
  <2> QED BY <2>1, <2>3, <2>4, <2>5, <2>6, <2>7 DEF Demands, Demand, ev
<1> QED BY <1>1, <1>2, <1>3

\* No soak to begin with.
LEMMA InitSoak == Init => SoakAsBegun
BY DEF Init, SoakAsBegun

(* For every predicate, every policy and every interleaving: the enforcer   *)
(* does nothing to the Mac that the held policy does not demand at that     *)
(* instant, or that a kill switch or a soak forbids.                        *)
THEOREM Lawful == Spec => ActsOnlyWhenLawful
<1>1. IInv => TypeOK
  BY DEF IInv
<1>2. IInv /\ SoakAsBegun /\ [Next]_vars =>
        [Ticked =>
          /\ last'.effects.lock => Demands(now', {"lock", "shutdown"})
          /\ last'.effects.shutdown => Demands(now', {"shutdown"})
          /\ (last'.effects # NoEffects) => ~Switched(now') /\ ~InSoak(now')]_vars
  BY LawfulStep
<1> QED
  BY Inductive, InitSoak, NextSoak, <1>1, <1>2, PTL DEF Spec, ActsOnlyWhenLawful

-----------------------------------------------------------------------------
(* What needs time to move forward: the throttle and the breaker.           *)

\* Without corrections trusted time never goes backwards.
LEMMA TimeForward ==
  ASSUME Corrections = {}, TypeOK, [Next]_vars
  PROVE  now' \in Int /\ now' >= now /\ ~CorrectClock
<1>1. ahead = 0
  BY DEF TypeOK
<1>2. ~CorrectClock
  BY <1>1 DEF CorrectClock
<1>3. now' = now \/ \E g \in Nat : now' = now + g
  BY <1>2, ConstantsAssumption DEF Next, vars, Tick, Sleep, Restart, ApplyPolicy,
     DamagePolicy, SetKillSwitch, ClearKillSwitch, InstallShadow, PromoteIfDue, Rollback
<1> QED BY <1>2, <1>3 DEF TypeOK

\* A step of the ladder's memory is a tick that runs it, a new process, or nothing.
LEMMA MemoryStep ==
  ASSUME IInv, [Next]_vars
  PROVE  \/ \E t \in 0..Horizon :
               /\ now' = t
               /\ UNCHANGED <<files, kill, soak>>
               /\ TickShadow(t) \/ TickAct(t)
         \/ ladder' = InitLadder /\ hist' = InitHist /\ last'.effects.shutdown = FALSE
         \/ /\ ladder' = ladder
            /\ hist' = hist \/ hist' = [hist EXCEPT !.warned = {}]
            /\ last' = last \/ last'.effects.shutdown = FALSE
<1>1. CASE Tick
  <2>1. PICK g \in Gaps :
          /\ now + g <= Horizon /\ now' = now + g
          /\ \/ TickKillSwitch(now + g) \/ TickFailOpen(now + g)
             \/ TickShadow(now + g) \/ TickAct(now + g)
    BY <1>1 DEF Tick
  <2>2. now + g \in 0..Horizon
    BY <2>1, ConstantsAssumption DEF IInv, TypeOK
  <2>3. CASE TickKillSwitch(now + g) \/ TickFailOpen(now + g)
    BY <2>3 DEF TickKillSwitch, TickFailOpen, Idle, NoEffects
  <2> QED BY <1>1, <2>1, <2>2, <2>3 DEF Tick
<1>2. CASE Restart \/ InstallShadow \/ Rollback
  BY <1>2 DEF Restart, InstallShadow, Rollback, NewProcess, Idle, NoEffects
<1>3. CASE ~Tick /\ ~Restart /\ ~InstallShadow /\ ~Rollback
  BY <1>3 DEF Next, vars, Sleep, ApplyPolicy, DamagePolicy, SetKillSwitch,
     ClearKillSwitch, PromoteIfDue, CorrectClock
<1> QED BY <1>1, <1>2, <1>3

\* What a tick that runs the ladder does to memory and history.
LEMMA LadderTick ==
  ASSUME IInv, NEW t \in 0..Horizon, TickShadow(t) \/ TickAct(t)
  PROVE  \E ev, effects :
           /\ ev.active \in ActiveWindow \cup {None} /\ ev.due \in SUBSET Due
           /\ effects = LadderStep(ev, t).effects
           /\ ladder' = LadderStep(ev, t).state
           /\ last'.effects.shutdown => effects.shutdown
           /\ ev.active = None => hist'.open = None /\ hist'.starts = hist.starts
           /\ ev.active # None =>
                /\ hist'.open = (IF hist.open = None THEN t ELSE hist.open)
                /\ hist'.starts = (IF hist.open = None THEN hist.starts \cup {t}
                                                      ELSE hist.starts)
<1> DEFINE ev == Evaluation(Load(files), t)
           step == LadderStep(ev, t)
<1>1. Load(files) # None
  BY DEF TickShadow, TickAct
<1>2. ev.active \in ActiveWindow \cup {None} /\ ev.due \in SUBSET Due
  BY <1>1, LoadIsDoc, EvaluationTyped
<1>3. ladder' = step.state
  BY DEF TickShadow, TickAct
<1>4. hist \in HistType /\ TypeOK /\ Agreement /\ t \in Int
  BY DEF IInv, TypeOK, HistType
<1>5. \/ hist' = (IF ev.active = None THEN SeeUnrestricted(hist)
                  ELSE SeeRestricted(hist, t, step.effects))
      \/ \E outcome \in Outcomes :
           hist' = (IF ev.active = None
                    THEN SeeWarning(SeeUnrestricted(hist), step.effects.warn, outcome)
                    ELSE SeeRestricted(hist, t, step.effects))
  BY DEF TickShadow, TickAct
<1>6. last'.effects.shutdown => step.effects.shutdown
  <2>1. CASE TickShadow(t)
    <3>1. last'.effects = NoEffects
      BY <2>1 DEF TickShadow, Idle
    <3> QED BY <3>1 DEF NoEffects
  <2>2. CASE TickAct(t)
    BY <2>2 DEF TickAct
  <2> QED BY <2>1, <2>2
<1> HIDE DEF ev
<1>7. step.effects.warn \in Due \cup {None}
  BY <1>2, <1>4, StepFacts DEF EffectsType, Outside, Inside
<1> HIDE DEF step
<1>8. /\ ev.active = None => hist'.open = None /\ hist'.starts = hist.starts
      /\ ev.active # None =>
           /\ hist'.open = (IF hist.open = None THEN t ELSE hist.open)
           /\ hist'.starts = (IF hist.open = None THEN hist.starts \cup {t}
                                                 ELSE hist.starts)
  <2>1. CASE ev.active # None
    <3>1. hist' = SeeRestricted(hist, t, step.effects)
      BY <1>5, <2>1
    <3> QED BY <1>4, <2>1, <3>1, RestrictedHistory
  <2>2. CASE ev.active = None
    <3> DEFINE u == SeeUnrestricted(hist)
    <3>1. u \in HistType /\ u.open = None /\ u.starts = hist.starts
      BY <1>4, UnrestrictedHistory
    <3>2. hist' = u \/ \E outcome \in Outcomes : hist' = SeeWarning(u, step.effects.warn, outcome)
      BY <1>5, <2>2
    <3> HIDE DEF u
    <3> QED BY <1>7, <2>2, <3>1, <3>2, WarningHistory
  <2> QED BY <2>1, <2>2
<1> QED BY <1>2, <1>3, <1>6, <1>8 DEF step

\* So the last lock is never in the future,
LEMMA LockNotAheadStep ==
  ASSUME Corrections = {}, IInv, LockNotAhead, [Next]_vars
  PROVE  LockNotAhead'
<1>1. TypeOK /\ Agreement /\ now \in Int /\ now' \in Int /\ now' >= now
  BY TimeForward DEF IInv, TypeOK
<1>2. ladder.lastLockAt \in Int \cup {None}
  BY <1>1 DEF TypeOK, LadderType
<1>3. CASE \E t \in 0..Horizon : now' = t /\ (TickShadow(t) \/ TickAct(t))
  <2>1. PICK t \in 0..Horizon : now' = t /\ (TickShadow(t) \/ TickAct(t))
    BY <1>3
  <2>2. PICK ev, effects :
          /\ ev.active \in ActiveWindow \cup {None} /\ ev.due \in SUBSET Due
          /\ ladder' = LadderStep(ev, t).state
    BY <2>1, LadderTick
  <2>a. t \in Int
    OBVIOUS
  <2>3. ladder'.lastLockAt \in {t, ladder.lastLockAt, None}
    <3>1. \/ Outside(LadderStep(ev, t))
          \/ Inside(ev.active, t, LadderStep(ev, t))
      BY <1>1, <2>2, <2>a, StepFacts
    <3> QED BY <2>2, <3>1 DEF Outside, Inside
  <2> QED BY <1>1, <1>2, <2>1, <2>3 DEF LockNotAhead
<1>4. CASE ladder' = InitLadder
  BY <1>4 DEF InitLadder, LockNotAhead
<1>5. CASE ladder' = ladder
  BY <1>1, <1>2, <1>5 DEF LockNotAhead
<1> QED BY <1>3, <1>4, <1>5, MemoryStep

\* and every restricted tick that acts finds it old enough to lock again.
LEMMA BedtimeStep ==
  ASSUME Corrections = {}, IInv, LockNotAhead, SoakAsBegun, [Next]_vars, Ticked,
         Demands(now', {"lock", "shutdown"}), ~Switched(now'), ~InSoak(now')
  PROVE  last'.effects.lock
<1>t. TypeOK /\ Agreement
  BY DEF IInv
<1>1. PICK g \in Gaps :
        /\ now' = now + g /\ now + g \in 0..Horizon
        /\ \/ TickKillSwitch(now + g) \/ TickFailOpen(now + g)
           \/ TickShadow(now + g) \/ TickAct(now + g)
  BY <1>t, TickedStep
<1> DEFINE t == now + g
<1>2. ~TickKillSwitch(t)
  BY <1>1 DEF TickKillSwitch, KillSwitchPresent, Switched
<1>3. ~TickFailOpen(t)
  BY <1>t, LoadIsHeld DEF TickFailOpen, Demands
<1>4. ~TickShadow(t)
  BY <1>1 DEF TickShadow, Shadowing, InSoak
<1>5. TickAct(t)
  BY <1>1, <1>2, <1>3, <1>4
<1> DEFINE ev == Evaluation(Held, t)
<1>6. /\ ev.active \in ActiveWindow \cup {None} /\ ev.due \in SUBSET Due
      /\ last'.effects = LadderStep(ev, t).effects
  BY <1>1, <1>5, ActFacts
<1>7. ev.active # None /\ ev.active.action # "warn_only"
  BY <1>1 DEF Demands, Demand
<1>8. ladder.lastLockAt = None \/ t - ladder.lastLockAt >= Reassert - Tolerance
  <2>1. ladder.lastLockAt \in Int \cup {None} /\ now \in Int /\ g \in Int
    BY <1>t, ConstantsAssumption DEF TypeOK, LadderType
  <2>2. g >= Reassert - Tolerance /\ Reassert - Tolerance \in Int
    BY TimerAssumption, ConstantsAssumption
  <2> QED BY <2>1, <2>2 DEF LockNotAhead
<1> HIDE DEF ev
<1>9. t \in Int
  BY <1>1
<1> QED BY <1>t, <1>6, <1>7, <1>8, <1>9, StepFacts DEF Outside, Inside

(* The standing test, for every policy and every predicate, provided that   *)
(* trusted time is never corrected backwards: at every tick at which the    *)
(* held policy demands it, the screen is locked.                            *)
THEOREM BedtimeHeld ==
  ASSUME Corrections = {}
  PROVE  Spec => BedtimeHolds
<1>1. Init => LockNotAhead
  BY DEF Init, InitLadder, LockNotAhead
<1>2. IInv /\ LockNotAhead /\ [Next]_vars => LockNotAhead'
  BY LockNotAheadStep
<1>3. IInv /\ LockNotAhead /\ SoakAsBegun /\ [Next]_vars =>
        [(Ticked /\ Demands(now', {"lock", "shutdown"})
            /\ ~Switched(now') /\ ~InSoak(now'))
         => last'.effects.lock]_vars
  BY BedtimeStep
<1>4. IInv => TypeOK
  BY DEF IInv
<1> QED
  BY Inductive, InitSoak, NextSoak, <1>1, <1>2, <1>3, <1>4, PTL DEF Spec, BedtimeHolds

\* The breaker's memory holds every run begun in the last day.
LEMMA BreakerStep ==
  ASSUME Corrections = {}, IInv, BreakerMemory, BreakerHolds, [Next]_vars
  PROVE  BreakerMemory' /\ BreakerHolds'
<1>1. TypeOK /\ Agreement /\ now \in Int /\ now' \in Int /\ now' >= now
  BY TimeForward DEF IInv, TypeOK
<1>2. /\ hist.starts \in SUBSET Int /\ hist.open \in Int \cup {None} /\ None \notin Int
      /\ Day \in Nat
  BY <1>1, ConstantsAssumption DEF TypeOK
<1>3. ASSUME NEW s \in hist.starts \ ladder.recentEpisodes
      PROVE  now' - s >= Day
  BY <1>1, <1>2 DEF BreakerMemory
<1>4. CASE \E t \in 0..Horizon : now' = t /\ (TickShadow(t) \/ TickAct(t))
  <2>1. PICK t \in 0..Horizon : now' = t /\ (TickShadow(t) \/ TickAct(t))
    BY <1>4
  <2>2. PICK ev, effects :
          /\ ev.active \in ActiveWindow \cup {None} /\ ev.due \in SUBSET Due
          /\ effects = LadderStep(ev, t).effects
          /\ ladder' = LadderStep(ev, t).state
          /\ last'.effects.shutdown => effects.shutdown
          /\ ev.active = None => hist'.open = None /\ hist'.starts = hist.starts
          /\ ev.active # None =>
               /\ hist'.open = (IF hist.open = None THEN t ELSE hist.open)
               /\ hist'.starts = (IF hist.open = None THEN hist.starts \cup {t}
                                                     ELSE hist.starts)
    BY <2>1, LadderTick
  <2>a. t \in Int
    OBVIOUS
  <2>3. CASE ev.active = None
    <3>1. ladder'.recentEpisodes = ladder.recentEpisodes /\ effects.shutdown = FALSE
      BY <1>1, <2>2, <2>a, <2>3, StepFacts DEF Outside, Inside
    <3> QED
      BY <1>2, <1>3, <2>2, <2>3, <3>1 DEF BreakerMemory, BreakerHolds, Shutdown
  <2>4. CASE ev.active # None /\ hist.open # None
    <3>1. /\ ladder'.recentEpisodes = ladder.recentEpisodes
          /\ ladder'.breakerTripped = ladder.breakerTripped
          /\ effects.shutdown => ~ladder'.breakerTripped
      BY <1>1, <2>2, <2>a, <2>4, StepFacts DEF Outside, Inside
    <3>2. hist'.open = hist.open /\ hist'.starts = hist.starts
      BY <2>2, <2>4
    <3>3. BreakerMemory'
      BY <1>3, <2>4, <3>1, <3>2 DEF BreakerMemory
    <3>4. BreakerHolds'
      BY <2>2, <2>4, <3>1, <3>2, <3>3 DEF BreakerMemory, BreakerHolds, Shutdown
    <3> QED BY <3>3, <3>4
  <2>5. CASE ev.active # None /\ hist.open = None
    <3> DEFINE recent == RecentAt(t)
               counted == {s \in hist.starts \cup {t} : t - s < Day}
    <3>1. /\ ladder'.recentEpisodes = recent
          /\ ladder'.breakerTripped = (Cardinality(recent) > MaxEpisodes)
          /\ effects.shutdown => ~ladder'.breakerTripped
      BY <1>1, <2>2, <2>a, <2>5, StepFacts DEF Outside, Inside
    <3>2. hist'.open = t /\ hist'.starts = hist.starts \cup {t}
      BY <2>2, <2>5
    <3>3. recent = counted
      BY <1>2, <1>3, <2>1 DEF BreakerMemory, RecentAt
    <3>4. recent \subseteq hist'.starts
      BY <3>2 DEF BreakerMemory, RecentAt
    <3>5. \A s \in hist'.starts \ recent : t - s >= Day
      BY <1>2, <3>2, <3>3
    <3>6. {s \in hist'.starts : hist'.open - s < Day} = recent
      BY <3>2, <3>3
    <3>7. BreakerMemory'
      <4> HIDE DEF recent, counted
      <4> QED BY <2>1, <3>1, <3>4, <3>5, <3>6 DEF BreakerMemory
    <3>8. BreakerHolds'
      <4> HIDE DEF recent, counted
      <4> QED BY <2>2, <3>1, <3>6 DEF BreakerHolds, Shutdown
    <3> QED BY <3>7, <3>8
  <2> QED BY <2>3, <2>4, <2>5
<1>5. CASE ladder' = InitLadder /\ hist' = InitHist /\ last'.effects.shutdown = FALSE
  BY <1>5 DEF InitLadder, InitHist, BreakerMemory, BreakerHolds, Shutdown
<1>6. CASE /\ ladder' = ladder
           /\ hist' = hist \/ hist' = [hist EXCEPT !.warned = {}]
           /\ last' = last \/ last'.effects.shutdown = FALSE
  <2>1. hist'.open = hist.open /\ hist'.starts = hist.starts
    BY <1>1, <1>6 DEF TypeOK
  <2> QED
    BY <1>3, <1>6, <2>1 DEF BreakerMemory, BreakerHolds, Shutdown
<1> QED BY <1>4, <1>5, <1>6, MemoryStep

(* X9, provided that trusted time is never corrected backwards: once more   *)
(* than MaxEpisodes runs have begun inside a day, no shutdown.              *)
THEOREM BreakerHeld ==
  ASSUME Corrections = {}
  PROVE  Spec => []BreakerHolds
<1>1. Init => BreakerMemory /\ BreakerHolds
  BY DEF Init, InitLadder, InitHist, Idle, NoEffects, BreakerMemory, BreakerHolds, Shutdown
<1>2. IInv /\ BreakerMemory /\ BreakerHolds /\ [Next]_vars => BreakerMemory' /\ BreakerHolds'
  BY BreakerStep
<1> QED
  BY Inductive, <1>1, <1>2, PTL DEF Spec

-----------------------------------------------------------------------------
(* The terminal rung is reached.  Agreement says that what the ladder takes *)
(* for a delivery was seen; this needs the converse: what was seen in this  *)
(* run the ladder knows of, or is about to be told.                         *)

Noted ==
  hist.shown # {} =>
    \/ ladder.warningsDelivered # {}
    \/ pending # None /\ pending.outcome = "delivered"

\* A delivery just reported is folded in.
LEMMA FoldDelivers ==
  ASSUME TypeOK, Noted, hist.shown # {}
  PROVE  FoldWarning(ladder).warningsDelivered # {}
<1>1. CASE pending # None /\ pending.outcome = "delivered"
  <2>1. FoldWarning(ladder) =
          [ladder EXCEPT !.warningsDelivered = ladder.warningsDelivered \cup {pending.lead}]
    BY <1>1 DEF FoldWarning
  <2>2. FoldWarning(ladder).warningsDelivered = ladder.warningsDelivered \cup {pending.lead}
    BY <2>1 DEF TypeOK, LadderType
  <2> QED BY <2>2
<1>2. CASE ~(pending # None /\ pending.outcome = "delivered")
  <2>1. FoldWarning(ladder) = ladder
    BY <1>2 DEF FoldWarning
  <2> QED BY <1>2, <2>1 DEF Noted
<1> QED BY <1>1, <1>2

\* What a step keeps of it: the delivery outlives every tick that does not end a
\* run, and once the run is warned, due and unbroken it is shut down.
LEMMA StepDelivers ==
  ASSUME TypeOK, Agreement, Noted, NEW t \in Int,
         NEW ev, ev.active \in ActiveWindow \cup {None}, ev.due \in SUBSET Due,
         hist.shown # {}
  PROVE  LET r == LadderStep(ev, t) IN
         /\ (ev.active = None => hist.open = None) => r.state.warningsDelivered # {}
         /\ (/\ ev.active # None /\ ev.active.action = "shutdown"
             /\ ~r.state.breakerTripped
             /\ t - r.state.episodeStartedAt >= ev.active.grace)
              => r.state.shutdownIssued
<1> DEFINE f == FoldWarning(ladder)
           b == StartEpisode(f, t)
<1>1. /\ f \in LadderType /\ f.episodeStartedAt = hist.open
      /\ f.warningsDelivered # {}
  BY FoldFacts, FoldDelivers DEF TypeOK, Agreement
<1>2. CASE ev.active = None
  <2>1. LadderStep(ev, t) = Unrestricted(f, ev.due)
    BY <1>2 DEF LadderStep
  <2> HIDE DEF f
  <2>2. LadderStep(ev, t).state.warningsDelivered = EndEpisode(f).warningsDelivered
    <3>1. f \in LadderType /\ ev.due \in SUBSET Due
      BY <1>1
    <3>2. Unrestricted(f, ev.due).state.warningsDelivered = EndEpisode(f).warningsDelivered
      BY <3>1, UnrestrictedFacts
    <3> QED BY <2>1, <3>2
  <2>3. hist.open = None => EndEpisode(f) = f
    BY <1>1, EndFacts
  <2> QED BY <1>1, <1>2, <2>2, <2>3
<1>3. CASE ev.active # None
  <2>1. LadderStep(ev, t) = InsideWindow(f, ev.active, t) /\ ev.active \in ActiveWindow
    BY <1>3 DEF LadderStep
  <2> HIDE DEF f
  <2>2. b.warningsDelivered # {} /\ b.shutdownIssued \in BOOLEAN
    BY <1>1, StartFacts DEF LadderType
  <2>3. LET r == LadderStep(ev, t) IN
        /\ r.state.episodeStartedAt = b.episodeStartedAt
        /\ r.state.warningsDelivered = b.warningsDelivered
        /\ r.state.breakerTripped = b.breakerTripped
        /\ r.state.shutdownIssued = (b.shutdownIssued \/ r.effects.shutdown)
        /\ ev.active.action # "warn_only" =>
             (r.effects.shutdown <=> CanEscalate(b, ev.active, t))
    BY <1>1, <2>1, InsideFacts DEF b
  <2> HIDE DEF b
  <2> QED BY <1>3, <2>2, <2>3 DEF CanEscalate
<1> QED BY <1>2, <1>3

\* What a tick that runs the ladder leaves of it.
LEMMA NotedTick ==
  ASSUME IInv, Noted, NEW t \in 0..Horizon, now' = t, TickShadow(t) \/ TickAct(t),
         UNCHANGED <<ahead, files, kill, soak>>
  PROVE  Noted' /\ EscalatesInTime'
<1> DEFINE ev == Evaluation(Load(files), t)
           step == LadderStep(ev, t)
<1>1. TypeOK /\ Agreement /\ t \in Int /\ hist \in HistType
  BY DEF IInv, TypeOK, HistType
<1>2. ev.active \in ActiveWindow \cup {None} /\ ev.due \in SUBSET Due
  BY LoadIsDoc, EvaluationTyped DEF TickShadow, TickAct
<1>3. ladder' = step.state
  BY DEF TickShadow, TickAct
<1>4. IInv'
  BY TickShadowIInv, TickActIInv
<1>5. \/ /\ last'.outcome = "shadow" /\ pending' = None
         /\ hist' = IF ev.active = None THEN SeeUnrestricted(hist)
                    ELSE SeeRestricted(hist, t, step.effects)
      \/ /\ last'.at = t /\ last'.active = ev.active
         /\ \E outcome \in Outcomes :
              /\ pending' = IF step.effects.warn = None THEN None
                            ELSE [lead |-> step.effects.warn.lead, outcome |-> outcome]
              /\ hist' = IF ev.active = None
                         THEN SeeWarning(SeeUnrestricted(hist), step.effects.warn, outcome)
                         ELSE SeeRestricted(hist, t, step.effects)
  BY DEF TickShadow, TickAct, Idle
<1> HIDE DEF ev
<1>6. hist.shown # {} =>
        /\ (ev.active = None => hist.open = None) => step.state.warningsDelivered # {}
        /\ (/\ ev.active # None /\ ev.active.action = "shutdown"
            /\ ~step.state.breakerTripped
            /\ t - step.state.episodeStartedAt >= ev.active.grace)
             => step.state.shutdownIssued
  BY <1>1, <1>2, StepDelivers
<1>7. step.effects.warn \in Due \cup {None}
  BY <1>1, <1>2, StepFacts DEF EffectsType, Outside, Inside
<1> HIDE DEF step
<1>8. ev.active # None => hist' = SeeRestricted(hist, t, step.effects)
  BY <1>5
<1>9. ev.active # None => hist'.shown = hist.shown
  BY <1>1, <1>8, RestrictedHistory
<1>10. Noted'
  <2>1. CASE ev.active # None
    BY <1>3, <1>6, <1>9, <2>1 DEF Noted
  <2>2. CASE ev.active = None
    <3> DEFINE u == SeeUnrestricted(hist)
    <3>1. /\ u \in HistType
          /\ hist.open = None => u.shown = hist.shown
          /\ hist.open # None => u.shown = {}
      BY <1>1, UnrestrictedHistory DEF SeeUnrestricted, HistType
    <3>2. \/ hist' = u
          \/ \E outcome \in Outcomes :
               /\ pending' = IF step.effects.warn = None THEN None
                             ELSE [lead |-> step.effects.warn.lead, outcome |-> outcome]
               /\ hist' = SeeWarning(u, step.effects.warn, outcome)
      BY <1>5, <2>2
    <3> HIDE DEF u
    <3>3. CASE hist' = u
      BY <1>3, <1>6, <2>2, <3>1, <3>3 DEF Noted
    <3>4. ASSUME NEW outcome \in Outcomes,
                 pending' = IF step.effects.warn = None THEN None
                            ELSE [lead |-> step.effects.warn.lead, outcome |-> outcome],
                 hist' = SeeWarning(u, step.effects.warn, outcome)
          PROVE  Noted'
      <4>1. CASE step.effects.warn = None \/ outcome # "delivered"
        <5>1. hist'.shown = u.shown
          BY <3>1, <3>4, <4>1 DEF SeeWarning, HistType
        <5> QED BY <1>3, <1>6, <2>2, <3>1, <5>1 DEF Noted
      <4>2. CASE step.effects.warn # None /\ outcome = "delivered"
        <5> DEFINE p == [lead |-> step.effects.warn.lead, outcome |-> outcome]
        <5>1. pending' = p
          BY <3>4, <4>2
        <5>2. p \in [lead : Leads, outcome : Outcomes]
          BY <1>7, <4>2 DEF Due
        <5>3. p # None
          BY <5>2, ConstantsAssumption
        <5> QED BY <4>2, <5>1, <5>3 DEF Noted
      <4> QED BY <4>1, <4>2
    <3> QED BY <3>2, <3>3, <3>4
  <2> QED BY <2>1, <2>2
<1>11. EscalatesInTime'
  <2> SUFFICES ASSUME last'.outcome = "acted", hist'.open # None,
                      last'.active # None, last'.active.action = "shutdown",
                      last'.at - hist'.open >= last'.active.grace,
                      hist'.shown # {}, ~ladder'.breakerTripped
               PROVE  hist'.tries = 1
    BY DEF EscalatesInTime
  <2>1. last'.at = t /\ last'.active = ev.active
    BY <1>5
  <2>2. hist'.open = step.state.episodeStartedAt
    BY <1>3, <1>4 DEF IInv, Agreement
  <2>3. ladder'.shutdownIssued
    BY <1>3, <1>6, <1>9, <2>1, <2>2
  <2> QED BY <1>4, <2>3 DEF IInv, Agreement
<1> QED BY <1>10, <1>11

\* The invariant behind the last rung, in every step.
LEMMA NotedStep == IInv /\ Noted /\ EscalatesInTime /\ [Next]_vars => Noted' /\ EscalatesInTime'
<1> SUFFICES ASSUME IInv, Noted, EscalatesInTime, [Next]_vars
             PROVE  Noted' /\ EscalatesInTime'
  OBVIOUS
<1>1. CASE Tick
  <2>1. PICK g \in Gaps :
          /\ now + g <= Horizon /\ now' = now + g
          /\ \/ TickKillSwitch(now + g) \/ TickFailOpen(now + g)
             \/ TickShadow(now + g) \/ TickAct(now + g)
    BY <1>1 DEF Tick
  <2>2. now + g \in 0..Horizon /\ UNCHANGED <<ahead, files, kill, soak>>
    BY <1>1, <2>1, ConstantsAssumption DEF Tick, IInv, TypeOK
  <2>3. CASE TickKillSwitch(now + g) \/ TickFailOpen(now + g)
    BY <2>3 DEF TickKillSwitch, TickFailOpen, Idle, Noted, EscalatesInTime
  <2>4. CASE TickShadow(now + g) \/ TickAct(now + g)
    <3> DEFINE t == now + g
    <3>1. t \in 0..Horizon /\ now' = t /\ (TickShadow(t) \/ TickAct(t))
      BY <2>1, <2>2, <2>4
    <3> HIDE DEF t
    <3> QED BY <2>2, <3>1, NotedTick
  <2> QED BY <2>1, <2>3, <2>4
<1>2. CASE Restart \/ InstallShadow \/ Rollback
  BY <1>2 DEF Restart, InstallShadow, Rollback, NewProcess, Idle, InitHist, Noted, EscalatesInTime
<1>3. CASE ~Tick /\ ~Restart /\ ~InstallShadow /\ ~Rollback
  <2>1. /\ UNCHANGED <<ladder, pending, last>>
        /\ hist' = hist \/ hist' = [hist EXCEPT !.warned = {}]
    BY <1>3 DEF Next, vars, Sleep, ApplyPolicy, DamagePolicy, SetKillSwitch,
       ClearKillSwitch, PromoteIfDue, CorrectClock
  <2>2. hist'.open = hist.open /\ hist'.shown = hist.shown /\ hist'.tries = hist.tries
    BY <2>1 DEF IInv, TypeOK
  <2> QED BY <2>1, <2>2 DEF Noted, EscalatesInTime
<1> QED BY <1>1, <1>2, <1>3

(* The terminal rung is reached (Ladder.swift:241-270), for every policy and *)
(* every schedule: a tick that acts, of a warned and unbroken run that has   *)
(* lasted its grace, leaves it shut down.                                    *)
THEOREM Escalated == Spec => []EscalatesInTime
<1>1. Init => Noted /\ EscalatesInTime
  BY DEF Init, InitHist, Idle, Noted, EscalatesInTime
<1> QED BY Inductive, NotedStep, <1>1, PTL DEF Spec

-----------------------------------------------------------------------------
(* No warning is put up twice.  The ladder remembers what it attempted for  *)
(* one boundary at a time and forgets it when a run ends, so that this is   *)
(* true of policies that announce one bedtime at a time.                    *)

\* While a bedtime is being announced no earlier one is, and none is in force.
OneAtATime(doc) ==
  \A s, t \in 0..Horizon : s <= t =>
    \A u \in Evaluation(doc, s).due :
      /\ s < u.boundary
      /\ t < u.boundary => Evaluation(doc, t).active = None
      /\ \A w \in Evaluation(doc, t).due : u.boundary <= w.boundary

Announced(u) == \E s \in 0..now : u \in Evaluation(Load(files), s).due

\* Whatever was put up was due, and will not be again, or is remembered.
Remembered ==
  \A w \in hist.warned :
    /\ Load(files) # None /\ Announced(w)
    /\ \/ w.boundary <= now
       \/ \E v \in Due : Announced(v) /\ w.boundary < v.boundary
       \/ /\ ladder.episodeStartedAt = None
          /\ ladder.warningsAttemptedFor = w.boundary
          /\ w.lead \in ladder.warningsAttempted

\* A tick outside a window attempts the leads of one boundary, and puts up one it
\* had not attempted.
LEMMA UnrestrictedWarns ==
  ASSUME NEW s \in LadderType, NEW due \in SUBSET Due
  PROVE  LET r == Unrestricted(s, due)
             e == EndEpisode(s)
         IN  \/ /\ r.effects.warn = None
                /\ r.state.warningsAttemptedFor = e.warningsAttemptedFor
                /\ r.state.warningsAttempted = e.warningsAttempted
             \/ \E u \in due :
                  /\ r.state.warningsAttemptedFor = u.boundary
                  /\ Attempted(e, u) \subseteq r.state.warningsAttempted
                  /\ u.lead \in r.state.warningsAttempted
                  /\ \/ r.effects.warn = None
                     \/ r.effects.warn = u /\ u.lead \notin Attempted(e, u)
<1> DEFINE e == EndEpisode(s)
           u == CHOOSE x \in Urgent(due) : TRUE
           leads == {w.lead : w \in {x \in due : x.boundary = u.boundary}}
<1>1. e \in LadderType
  BY EndFacts
<1>2. CASE Urgent(due) = {}
  <2>1. Unrestricted(s, due) = [state |-> e, effects |-> NoEffects]
    BY <1>2 DEF Unrestricted
  <2> QED BY <2>1 DEF NoEffects
<1>3. CASE Urgent(due) # {}
  <2>1. u \in due
    BY <1>3 DEF Urgent
  <2>2. u.lead \in leads
    BY <2>1
  <2> DEFINE st == [e EXCEPT !.warningsAttemptedFor = u.boundary,
                             !.warningsAttempted = Attempted(e, u) \cup leads]
             ef == [NoEffects EXCEPT
                      !.warn = IF u.lead \in Attempted(e, u) THEN None ELSE u]
  <2>3. Unrestricted(s, due) = [state |-> st, effects |-> ef]
    BY <1>3 DEF Unrestricted
  <2>4. /\ st.warningsAttemptedFor = u.boundary
        /\ st.warningsAttempted = Attempted(e, u) \cup leads
    <3> HIDE DEF leads, u, e
    <3> QED BY <1>1 DEF LadderType
  <2>5. ef.warn = IF u.lead \in Attempted(e, u) THEN None ELSE u
    <3> HIDE DEF leads, u, e
    <3> QED BY DEF NoEffects
  <2> HIDE DEF st, ef, u, leads
  <2> QED BY <2>1, <2>2, <2>3, <2>4, <2>5
<1> QED BY <1>2, <1>3

\* Folding in an outcome does not touch the attempts, nor does a run that had ended.
LEMMA AttemptsStay ==
  ASSUME TypeOK
  PROVE  LET f == FoldWarning(ladder) IN
         /\ f \in LadderType
         /\ ladder.episodeStartedAt = None =>
              /\ EndEpisode(f).warningsAttempted = ladder.warningsAttempted
              /\ EndEpisode(f).warningsAttemptedFor = ladder.warningsAttemptedFor
<1> DEFINE f == FoldWarning(ladder)
<1>1. /\ f \in LadderType
      /\ f.episodeStartedAt = ladder.episodeStartedAt
      /\ f.warningsAttempted = ladder.warningsAttempted
      /\ f.warningsAttemptedFor = ladder.warningsAttemptedFor
  BY FoldFacts DEF TypeOK, FoldWarning, LadderType
<1> HIDE DEF f
<1>2. f.episodeStartedAt = None => EndEpisode(f) = f
  BY <1>1, EndFacts
<1> QED BY <1>1, <1>2 DEF f

\* A tick that runs the ladder remembers what was put up, and puts up nothing twice.
LEMMA RememberedTick ==
  ASSUME \A doc \in Docs : OneAtATime(doc), IInv, Remembered,
         NEW t \in 0..Horizon, now <= t, now' = t, TickShadow(t) \/ TickAct(t),
         UNCHANGED <<ahead, files, kill, soak>>
  PROVE  /\ Remembered'
         /\ last'.effects.warn # None => last'.effects.warn \notin hist.warned
<1> DEFINE doc == Load(files)
           ev == Evaluation(doc, t)
           step == LadderStep(ev, t)
           f == FoldWarning(ladder)
           e == EndEpisode(f)
<1>1. TypeOK /\ Agreement /\ t \in Int /\ hist \in HistType /\ now \in 0..Horizon
  BY DEF IInv, TypeOK, HistType
<1>2. doc # None /\ doc \in Docs
  BY LoadIsDoc DEF TickShadow, TickAct
<1>3. ev.active \in ActiveWindow \cup {None} /\ ev.due \in SUBSET Due
  BY <1>2, EvaluationTyped
<1>4. Load(files') = doc
  OBVIOUS
<1>5. ASSUME NEW w, Announced(w)
      PROVE  /\ Announced(w)'
             /\ t < w.boundary => ev.active = None
             /\ \A v \in ev.due : w.boundary <= v.boundary
  <2>1. PICK s \in 0..now : w \in Evaluation(doc, s).due
    BY <1>5 DEF Announced
  <2>2. s \in 0..Horizon /\ s <= t /\ s \in 0..t
    <3>1. Horizon \in Nat
      BY ConstantsAssumption
    <3> QED BY <1>1, <2>1, <3>1
  <2>3. Announced(w)'
    BY <1>4, <2>1, <2>2 DEF Announced
  <2> QED BY <1>2, <2>1, <2>2, <2>3 DEF OneAtATime
<1>6. ASSUME NEW v \in ev.due PROVE Announced(v)' /\ t < v.boundary
  <2>1. t \in 0..now'
    <3>1. t \in 0..t
      OBVIOUS
    <3> QED BY <3>1
  <2>2. Announced(v)'
    BY <1>4, <1>6, <2>1 DEF Announced
  <2>3. t <= t
    BY <1>1
  <2> QED BY <1>2, <1>6, <2>2, <2>3 DEF OneAtATime
<1>7. ladder' = step.state
  BY DEF TickShadow, TickAct
<1>8. /\ last'.effects.warn \in {None, step.effects.warn}
      /\ hist'.warned \subseteq
           hist.warned \cup (IF step.effects.warn = None THEN {} ELSE {step.effects.warn})
  <2>1. ASSUME NEW outcome
        PROVE  SeeWarning(SeeUnrestricted(hist), step.effects.warn, outcome).warned \subseteq
                 hist.warned \cup (IF step.effects.warn = None THEN {} ELSE {step.effects.warn})
    <3>1. SeeUnrestricted(hist) \in HistType /\ SeeUnrestricted(hist).warned = hist.warned
      BY <1>1, UnrestrictedHistory DEF SeeUnrestricted, HistType
    <3> HIDE DEF step
    <3> QED BY <3>1 DEF SeeWarning, HistType
  <2>2. SeeUnrestricted(hist).warned = hist.warned
    BY <1>1 DEF SeeUnrestricted, HistType
  <2>3. SeeRestricted(hist, t, step.effects).warned = hist.warned
    <3> HIDE DEF step
    <3> QED BY <1>1 DEF SeeRestricted, HistType
  <2>4. CASE TickShadow(t)
    <3>1. last'.effects.warn = None
      BY <2>4 DEF TickShadow, Idle, NoEffects
    <3> QED BY <2>2, <2>3, <2>4, <3>1 DEF TickShadow
  <2>5. CASE TickAct(t)
    <3>1. last'.effects.warn = step.effects.warn
      BY <2>5 DEF TickAct
    <3>2. hist'.warned = hist.warned
          \/ \E outcome : hist' = SeeWarning(SeeUnrestricted(hist), step.effects.warn, outcome)
      BY <2>3, <2>5 DEF TickAct
    <3> QED BY <2>1, <3>1, <3>2
  <2> QED BY <2>4, <2>5
<1> HIDE DEF ev
<1>9. CASE ev.active # None
  <2>1. step.effects.warn = None
    BY <1>1, <1>3, <1>9, StepFacts DEF Outside, Inside
  <2> HIDE DEF step
  <2>2. ASSUME NEW w \in hist'.warned
        PROVE  /\ Load(files') # None /\ Announced(w)'
               /\ w.boundary <= now' \/ \E v \in Due : Announced(v)' /\ w.boundary < v.boundary
    <3>1. w \in hist.warned /\ w \in Due /\ Announced(w)
      BY <1>1, <1>8, <2>1, <2>2 DEF Remembered, HistType
    <3>2. w.boundary \in Int
      BY <3>1 DEF Due
    <3>3. w.boundary <= t
      BY <1>1, <1>5, <1>9, <3>1, <3>2
    <3> QED BY <1>2, <1>4, <1>5, <3>1, <3>3
  <2>3. Remembered'
    BY <2>2 DEF Remembered
  <2> QED BY <1>8, <2>1, <2>3
<1>10. CASE ev.active = None
  <2>1. step = Unrestricted(f, ev.due)
    BY <1>10 DEF LadderStep
  <2>2. /\ f \in LadderType
        /\ ladder.episodeStartedAt = None =>
             /\ e.warningsAttempted = ladder.warningsAttempted
             /\ e.warningsAttemptedFor = ladder.warningsAttemptedFor
    BY <1>1, AttemptsStay
  <2>3. ladder'.episodeStartedAt = None
    BY <1>1, <1>3, <1>7, <1>10, StepFacts DEF Outside, Inside
  <2> HIDE DEF f
  <2>4. LET r == Unrestricted(f, ev.due) IN
        \/ /\ r.effects.warn = None
           /\ r.state.warningsAttemptedFor = e.warningsAttemptedFor
           /\ r.state.warningsAttempted = e.warningsAttempted
        \/ \E u \in ev.due :
             /\ r.state.warningsAttemptedFor = u.boundary
             /\ Attempted(e, u) \subseteq r.state.warningsAttempted
             /\ u.lead \in r.state.warningsAttempted
             /\ \/ r.effects.warn = None
                \/ r.effects.warn = u /\ u.lead \notin Attempted(e, u)
    BY <1>3, <2>2, UnrestrictedWarns
  <2> HIDE DEF step, e
  <2>5. \/ /\ step.effects.warn = None
           /\ ladder'.warningsAttemptedFor = e.warningsAttemptedFor
           /\ ladder'.warningsAttempted = e.warningsAttempted
        \/ \E u \in ev.due :
             /\ ladder'.warningsAttemptedFor = u.boundary
             /\ Attempted(e, u) \subseteq ladder'.warningsAttempted
             /\ u.lead \in ladder'.warningsAttempted
             /\ \/ step.effects.warn = None
                \/ step.effects.warn = u /\ u.lead \notin Attempted(e, u)
    BY <1>7, <2>1, <2>4
  <2>6. ASSUME NEW w \in hist.warned
        PROVE  /\ Load(files') # None /\ Announced(w)'
               /\ \/ w.boundary <= now'
                  \/ \E v \in Due : Announced(v)' /\ w.boundary < v.boundary
                  \/ /\ ladder'.episodeStartedAt = None
                     /\ ladder'.warningsAttemptedFor = w.boundary
                     /\ w.lead \in ladder'.warningsAttempted
    <3>1. w \in Due /\ w.boundary \in Int /\ Announced(w)
      BY <1>1, <2>6 DEF Remembered, HistType, Due
    <3>2. CASE w.boundary <= now
      BY <1>1, <1>2, <1>4, <1>5, <3>1, <3>2
    <3>3. CASE \E v \in Due : Announced(v) /\ w.boundary < v.boundary
      BY <1>2, <1>4, <1>5, <3>1, <3>3
    <3>4. CASE /\ ladder.episodeStartedAt = None
               /\ ladder.warningsAttemptedFor = w.boundary
               /\ w.lead \in ladder.warningsAttempted
      <4>1. e.warningsAttemptedFor = w.boundary /\ w.lead \in e.warningsAttempted
        BY <2>2, <3>4
      <4>2. ASSUME NEW u \in ev.due, ladder'.warningsAttemptedFor = u.boundary,
                   Attempted(e, u) \subseteq ladder'.warningsAttempted
            PROVE  \/ \E v \in Due : Announced(v)' /\ w.boundary < v.boundary
                   \/ /\ ladder'.warningsAttemptedFor = w.boundary
                      /\ w.lead \in ladder'.warningsAttempted
        <5>1. u \in Due /\ u.boundary \in Int /\ w.boundary <= u.boundary /\ Announced(u)'
          BY <1>3, <1>5, <1>6, <3>1, <4>2 DEF Due
        <5>2. CASE w.boundary < u.boundary
          BY <5>1, <5>2
        <5>3. CASE w.boundary = u.boundary
          <6>1. Attempted(e, u) = e.warningsAttempted
            BY <4>1, <5>3 DEF Attempted
          <6> QED BY <4>1, <4>2, <5>3, <6>1
        <5> QED BY <3>1, <5>1, <5>2, <5>3
      <4>3. \/ \E v \in Due : Announced(v)' /\ w.boundary < v.boundary
            \/ /\ ladder'.warningsAttemptedFor = w.boundary
               /\ w.lead \in ladder'.warningsAttempted
        BY <2>5, <4>1, <4>2
      <4> QED BY <1>2, <1>4, <1>5, <2>3, <3>1, <4>3
    <3> QED BY <2>6, <3>2, <3>3, <3>4 DEF Remembered
  <2>7. ASSUME step.effects.warn # None
        PROVE  /\ step.effects.warn \notin hist.warned
               /\ step.effects.warn \in ev.due
               /\ ladder'.warningsAttemptedFor = step.effects.warn.boundary
               /\ step.effects.warn.lead \in ladder'.warningsAttempted
    <3>1. PICK u \in ev.due :
            /\ ladder'.warningsAttemptedFor = u.boundary
            /\ u.lead \in ladder'.warningsAttempted
            /\ step.effects.warn = u /\ u.lead \notin Attempted(e, u)
      BY <2>5, <2>7
    <3>2. u \in Due /\ u.boundary \in Int
      BY <1>3 DEF Due
    <3>3. SUFFICES ASSUME u \in hist.warned PROVE FALSE
      BY <3>1
    <3>4. CASE u.boundary <= now
      BY <1>1, <1>6, <3>2, <3>4
    <3>5. CASE \E v \in Due : Announced(v) /\ u.boundary < v.boundary
      <4>1. PICK v \in Due : Announced(v) /\ u.boundary < v.boundary
        BY <3>5
      <4>2. v.boundary <= u.boundary /\ v.boundary \in Int
        BY <1>5, <4>1 DEF Due
      <4> QED BY <3>2, <4>1, <4>2
    <3>6. CASE /\ ladder.episodeStartedAt = None
               /\ ladder.warningsAttemptedFor = u.boundary
               /\ u.lead \in ladder.warningsAttempted
      BY <2>2, <3>1, <3>6 DEF Attempted
    <3> QED BY <3>3, <3>4, <3>5, <3>6 DEF Remembered
  <2>8. ASSUME NEW w \in hist'.warned
        PROVE  /\ Load(files') # None /\ Announced(w)'
               /\ \/ w.boundary <= now'
                  \/ \E v \in Due : Announced(v)' /\ w.boundary < v.boundary
                  \/ /\ ladder'.episodeStartedAt = None
                     /\ ladder'.warningsAttemptedFor = w.boundary
                     /\ w.lead \in ladder'.warningsAttempted
    <3>1. CASE w \in hist.warned
      BY <2>6, <3>1
    <3>2. CASE w \notin hist.warned
      <4>1. step.effects.warn # None /\ w = step.effects.warn
        BY <1>8, <2>8, <3>2
      <4> QED BY <1>2, <1>4, <1>6, <2>3, <2>7, <4>1
    <3> QED BY <3>1, <3>2
  <2>9. Remembered'
    BY <2>8 DEF Remembered
  <2> QED BY <1>8, <2>7, <2>9
<1> QED BY <1>9, <1>10

\* What a step that runs no ladder leaves alone.
LEMMA RememberedElse ==
  ASSUME IInv, Remembered,
         \/ hist'.warned = {}
         \/ /\ hist' = hist /\ ladder' = ladder /\ files' = files
            /\ now' \in Nat /\ now <= now'
  PROVE  Remembered'
<1>1. CASE hist'.warned = {}
  BY <1>1 DEF Remembered
<1>2. CASE /\ hist' = hist /\ ladder' = ladder /\ files' = files
           /\ now' \in Nat /\ now <= now'
  <2>1. now \in Nat /\ hist \in HistType
    BY DEF IInv, TypeOK, HistType
  <2>2. ASSUME NEW w, Announced(w) PROVE Announced(w)'
    <3>1. PICK s \in 0..now : w \in Evaluation(Load(files), s).due
      BY <2>2 DEF Announced
    <3>2. s \in 0..now' /\ Load(files') = Load(files)
      BY <1>2, <2>1, <3>1
    <3> QED BY <3>1, <3>2 DEF Announced
  <2>3. ASSUME NEW w \in hist'.warned
        PROVE  /\ Load(files') # None /\ Announced(w)'
               /\ \/ w.boundary <= now'
                  \/ \E v \in Due : Announced(v)' /\ w.boundary < v.boundary
                  \/ /\ ladder'.episodeStartedAt = None
                     /\ ladder'.warningsAttemptedFor = w.boundary
                     /\ w.lead \in ladder'.warningsAttempted
    <3>1. w \in hist.warned /\ w.boundary \in Int /\ Load(files') = Load(files)
      BY <1>2, <2>1, <2>3 DEF HistType, Due
    <3> QED BY <1>2, <2>1, <2>2, <3>1 DEF Remembered
  <2> QED BY <2>3 DEF Remembered
<1> QED BY <1>1, <1>2

\* Every step remembers what was put up, and puts up nothing twice.
LEMMA RememberedStep ==
  ASSUME \A doc \in Docs : OneAtATime(doc), IInv, Remembered, [Next]_vars
  PROVE  /\ Remembered'
         /\ Ticked /\ last'.effects.warn # None => last'.effects.warn \notin hist.warned
<1>t. now \in Nat /\ hist \in HistType
  BY DEF IInv, TypeOK, HistType
<1>1. CASE Tick
  <2>1. PICK g \in Gaps :
          /\ now + g <= Horizon /\ now' = now + g
          /\ \/ TickKillSwitch(now + g) \/ TickFailOpen(now + g)
             \/ TickShadow(now + g) \/ TickAct(now + g)
    BY <1>1 DEF Tick
  <2>2. /\ now + g \in 0..Horizon /\ UNCHANGED <<ahead, files, kill, soak>>
        /\ now <= now + g /\ now' \in Nat
    BY <1>1, <1>t, <2>1, ConstantsAssumption DEF Tick
  <2>3. CASE TickKillSwitch(now + g) \/ TickFailOpen(now + g)
    <3>1. hist' = hist /\ ladder' = ladder /\ last'.effects.warn = None
      BY <2>3 DEF TickKillSwitch, TickFailOpen, Idle, NoEffects
    <3> QED BY <2>1, <2>2, <3>1, RememberedElse
  <2>4. CASE TickShadow(now + g) \/ TickAct(now + g)
    <3> DEFINE t == now + g
    <3>1. t \in 0..Horizon /\ now <= t /\ now' = t /\ (TickShadow(t) \/ TickAct(t))
      BY <2>1, <2>2, <2>4
    <3> HIDE DEF t
    <3> QED BY <2>2, <3>1, RememberedTick
  <2> QED BY <2>1, <2>3, <2>4
<1>2. CASE ~Tick
  <2>1. \/ hist'.warned = {}
        \/ /\ hist' = hist /\ ladder' = ladder /\ files' = files
           /\ now' \in Nat /\ now <= now'
    <3>1. CASE Sleep
      BY <1>t, <3>1, ConstantsAssumption DEF Sleep
    <3>2. CASE Restart \/ InstallShadow \/ Rollback
      BY <3>2 DEF Restart, InstallShadow, Rollback, NewProcess, InitHist
    <3>3. CASE ApplyPolicy \/ DamagePolicy \/ CorrectClock
      BY <1>t, <3>3 DEF ApplyPolicy, DamagePolicy, CorrectClock, HistType
    <3>4. CASE SetKillSwitch \/ ClearKillSwitch \/ PromoteIfDue \/ UNCHANGED vars
      BY <1>t, <3>4 DEF SetKillSwitch, ClearKillSwitch, PromoteIfDue, vars
    <3> QED BY <1>2, <3>1, <3>2, <3>3, <3>4 DEF Next
  <2>2. ~Ticked
    BY <1>2 DEF Ticked, Next, vars, Sleep, Restart, NewProcess, Idle, ApplyPolicy, DamagePolicy,
       SetKillSwitch, ClearKillSwitch, InstallShadow, PromoteIfDue, Rollback, CorrectClock
  <2> QED BY <2>1, <2>2, RememberedElse
<1> QED BY <1>1, <1>2

(* Ladder.swift:143-147, for every policy that announces one bedtime at a   *)
(* time and every schedule: while the policy stays, no (boundary, lead) is  *)
(* put up twice.                                                            *)
THEOREM WarnedOnce ==
  ASSUME \A doc \in Docs : OneAtATime(doc)
  PROVE  Spec => NoWarningTwice
<1> DEFINE Once == Ticked /\ last'.effects.warn # None
                     => last'.effects.warn \notin hist.warned
<1>1. Init => Remembered
  BY DEF Init, InitHist, Remembered
<1>2. IInv /\ Remembered /\ [Next]_vars => Remembered' /\ [Once]_vars
  BY RememberedStep
<1>3. Spec => [][Once]_vars
  BY Inductive, <1>1, <1>2, PTL DEF Spec
<1> QED BY <1>3 DEF NoWarningTwice

=============================================================================
