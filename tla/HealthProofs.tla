----------------------------- MODULE HealthProofs -----------------------------
(***************************************************************************)
(* Health: for any thresholds, windows of expected use, number of check-ins*)
(* at once, restarts and length of time, a device's intervals are one      *)
(* story, a silence is told in time, and what is told is true.             *)
(*                                                                         *)
(* The argument: only the sweep writes intervals, one statement at a time, *)
(* and no time passes inside it.  It opens an interval only after it closed*)
(* whatever was open (Phase), so intervals that differ lie apart (Apart);  *)
(* what a sweep writes to the device is what it opened, and a device that  *)
(* was ever heard of is never judged unenrolled (Enrolled).                *)
(*                                                                         *)
(* And a silence is told in time: while the API was never down every moment*)
(* has its sweep, and what the last one found is in the open interval and  *)
(* told once it has lasted (Noticed).                                      *)
(*                                                                         *)
(* And what is told is true (Truth): the Mac's uptime is the time it was on*)
(* since its last boot, so two of them and the moments between say how long*)
(* it slept, and the rows written between two check-ins are booked with    *)
(* that (Lived, Known, Booked); what is told of a silence had none of the  *)
(* check-ins that would have ended it (Hushed); and the device's boot time,*)
(* wrong after a sleep, is the last boot of a Mac that never slept (Owned).*)
(***************************************************************************)
EXTENDS Health, FiniteSetTheorems, TLAPS

Moment == Nat \cup {Never}

Interval ==
  [state : States, in : Nat, out : Moment, told : Moment, was : {"NULL"} \cup Silence]

Row ==
  [seen : Moment, up : Moment, boot : Int, bad : BOOLEAN, away : Int, health : States, since : Moment]

Calls == [up : Nat, boot : Int, bad : BOOLEAN, wasUp : Moment, wasSeen : Moment]

Sweeps == [step : {"open", "device", "finish"}, state : States, boot : Int]

\* What the sweep and the check-ins write has its type.
Shape ==
  /\ now \in Nat /\ up \in Nat /\ bad \in BOOLEAN /\ cut \in BOOLEAN
  /\ row \in Row
  /\ handlers \in [1 .. InFlight -> {NoCall} \cup Calls]
  /\ sweep \in {Idle} \cup Sweeps
  /\ intervals \in SUBSET Interval

\* Nothing is of the future, and intervals that differ do not overlap.
Apart ==
  /\ \A i \in intervals : i.in <= now /\ i.out <= now
  /\ \A i, j \in intervals : i # j => \/ i.out # Never /\ i.out <= j.in
                                      \/ j.out # Never /\ j.out <= i.in

\* A device never heard of is unenrolled, and a sweep writes only of others.
Enrolled ==
  /\ row.seen = Never => row.health = "UNENROLLED"
  /\ sweep.step # "idle" => sweep.state # "UNENROLLED" /\ row.seen # Never

\* What is open is an interval of this state, entered then.
OpenIs(state, in) ==
  /\ \E i \in intervals : i.out = Never
  /\ \A i \in intervals : i.out = Never => i.state = state /\ i.in = in

NothingOpen == \A i \in intervals : i.out # Never

\* The open interval is what the device row shows.
AsShown == IF row.health = "UNENROLLED" THEN NothingOpen ELSE OpenIs(row.health, row.since)

\* How far a transition has come.
Phase ==
  /\ sweep.step = "idle" /\ ~cut => AsShown
  /\ sweep.step = "open" => NothingOpen
  /\ sweep.step = "device" => OpenIs(sweep.state, now)
  /\ sweep.step = "finish" => ~cut /\ AsShown

IInv == Shape /\ Apart /\ Enrolled /\ Phase

-----------------------------------------------------------------------------
(* What is judged and reviewed. *)

LEMMA VerdictFacts ==
  ASSUME Shape, Enrolled
  PROVE  /\ Verdict(row) \in States
         /\ Verdict(row) # row.health => Verdict(row) # "UNENROLLED" /\ row.seen # Never
<1>1. row \in Row
  BY DEF Shape
<1>2. row.seen = Never => Verdict(row) = "UNENROLLED"
  BY DEF Verdict
<1>3. row.seen # Never =>
        Verdict(row) \in {"EXPECTED_OFFLINE", "DEGRADED", "HEALTHY", "SILENT_TOO_LONG",
                          "UNEXPECTED_SILENCE", row.health}
  BY DEF Verdict
<1> QED
  BY <1>1, <1>2, <1>3 DEF Enrolled, Row, States, Silence

\* A review moves no interval, and leaves an open one its state.
LEMMA ReviewFacts ==
  ASSUME Shape, NEW i \in intervals, NEW state, NEW boot
  PROVE  LET k == Review(i, state, boot)
         IN  /\ k \in Interval /\ k.in = i.in /\ k.out = i.out
             /\ i.out = Never => k.state = i.state
<1>1. i \in Interval /\ now \in Moment
  BY DEF Shape, Moment
<1>2. [i EXCEPT !.told = now] \in Interval
  BY <1>1 DEF Interval
<1>3. i.state \in Silence =>
        [i EXCEPT !.state = "EXPECTED_OFFLINE", !.was = i.state] \in Interval
  BY <1>1 DEF Interval, States, Silence
<1>4. i \in Latest(Explained(boot)) => i.state \in Silence /\ i.out # Never
  BY DEF Latest, Explained
<1>5. CASE i \in Latest(Open) /\ i.told = Never /\ Due(state, i)
  BY <1>1, <1>2, <1>5 DEF Review, Interval
<1>6. CASE /\ ~(i \in Latest(Open) /\ i.told = Never /\ Due(state, i))
           /\ i \in Latest(Explained(boot))
  BY <1>1, <1>3, <1>4, <1>6 DEF Review, Interval
<1>7. CASE /\ ~(i \in Latest(Open) /\ i.told = Never /\ Due(state, i))
           /\ i \notin Latest(Explained(boot))
  BY <1>1, <1>7 DEF Review
<1> QED
  BY <1>5, <1>6, <1>7

LEMMA ReviewKeeps ==
  ASSUME Shape, Apart, NEW state, NEW boot, intervals' = Reviewed(state, boot), now' = now
  PROVE  /\ intervals' \in SUBSET Interval
         /\ Apart'
         /\ NothingOpen => NothingOpen'
         /\ \A st, at : OpenIs(st, at) => OpenIs(st, at)'
<1>1. \A k \in intervals' : \E i \in intervals : k = Review(i, state, boot)
  BY DEF Reviewed
<1>2. \A i \in intervals : Review(i, state, boot) \in intervals'
  BY DEF Reviewed
<1>3. \A i \in intervals :
        LET k == Review(i, state, boot)
        IN  /\ k \in Interval /\ k.in = i.in /\ k.out = i.out
            /\ i.out = Never => k.state = i.state
  BY ReviewFacts
<1>4. intervals' \in SUBSET Interval
  BY <1>1, <1>3
<1>5. Apart'
  <2>1. \A k \in intervals' : k.in <= now' /\ k.out <= now'
    BY <1>1, <1>3 DEF Apart
  <2>2. ASSUME NEW k \in intervals', NEW l \in intervals', k # l
        PROVE  (k.out # Never /\ k.out <= l.in) \/ (l.out # Never /\ l.out <= k.in)
    <3>1. PICK i \in intervals : k = Review(i, state, boot)
      BY <1>1
    <3>2. PICK j \in intervals : l = Review(j, state, boot)
      BY <1>1
    <3>3. i # j
      BY <2>2, <3>1, <3>2
    <3> QED
      BY <3>1, <3>2, <3>3, <1>3 DEF Apart
  <2> QED
    BY <2>1, <2>2 DEF Apart
<1>6. NothingOpen => NothingOpen'
  BY <1>1, <1>3 DEF NothingOpen
<1>7. ASSUME NEW st, NEW at, OpenIs(st, at) PROVE OpenIs(st, at)'
  BY <1>1, <1>2, <1>3, <1>7 DEF OpenIs
<1> QED
  BY <1>4, <1>5, <1>6, <1>7

\* A step that touches neither intervals nor what the device shows.
LEMMA Frame ==
  ASSUME IInv, Shape', Enrolled', UNCHANGED <<now, intervals, sweep, cut>>,
         row'.health = row.health, row'.since = row.since
  PROVE  IInv'
BY DEF IInv, Apart, Phase, AsShown, NothingOpen, OpenIs

-----------------------------------------------------------------------------
(* The steps *)

LEMMA MacKeeps ==
  ASSUME IInv, Boot \/ PowerOff \/ SleepOrWake \/ Network \/ Trouble \/ StopAgent \/ StartAgent \/ Deliver
  PROVE  IInv'
<1>1. UNCHANGED <<now, row, handlers, intervals, sweep, cut>>
  BY DEF Boot, PowerOff, SleepOrWake, Network, Trouble, StopAgent, StartAgent, Deliver, job, hist, mac
<1>2. up \in Nat /\ bad \in BOOLEAN
  BY DEF IInv, Shape
<1>3. up' \in {up, 0}
  BY DEF Boot, PowerOff, SleepOrWake, Network, Trouble, StopAgent, StartAgent, Deliver, mac
<1>4. bad' \in BOOLEAN
  <2>1. CASE Trouble
    BY <2>1 DEF Trouble
  <2>2. CASE bad' = bad
    BY <1>2, <2>2
  <2> QED
    BY <2>1, <2>2 DEF Boot, PowerOff, SleepOrWake, Network, StopAgent, StartAgent, Deliver, mac
<1>5. Shape' /\ Enrolled'
  BY <1>1, <1>2, <1>3, <1>4 DEF IInv, Shape, Enrolled
<1> QED
  BY <1>1, <1>5, Frame

LEMMA SyncKeeps ==
  ASSUME IInv, NEW h \in DOMAIN handlers, SyncRecord(h) \/ SyncUpdate(h)
  PROVE  IInv'
<1>1. h \in 1 .. InFlight
  BY DEF IInv, Shape
<1>2. CASE SyncRecord(h)
  <2>1. Call \in Calls
    BY DEF IInv, Shape, Call, Calls, Row, Moment
  <2>2. handlers' \in [1 .. InFlight -> {NoCall} \cup Calls]
    BY <2>1, <1>1, <1>2 DEF IInv, Shape, SyncRecord
  <2>3. UNCHANGED <<now, up, bad, row, intervals, sweep, cut>>
    BY <1>2 DEF SyncRecord, job, mac
  <2>4. Shape' /\ Enrolled'
    BY <2>2, <2>3 DEF IInv, Shape, Enrolled
  <2> QED
    BY <2>3, <2>4, Frame
<1>3. CASE SyncUpdate(h)
  <2>1. handlers[h] \in Calls
    BY <1>1, <1>3 DEF IInv, Shape, SyncUpdate
  <2>2. row' = [row EXCEPT !.seen = now, !.up = handlers[h].up, !.boot = handlers[h].boot,
                           !.bad = handlers[h].bad]
    BY <1>3 DEF SyncUpdate
  <2>3. /\ row' \in Row /\ row'.health = row.health /\ row'.since = row.since
        /\ row'.seen # Never
    <3>1. row \in Row /\ now \in Moment /\ now # Never
      BY DEF IInv, Shape, Moment, Never
    <3>2. handlers[h].up \in Moment /\ handlers[h].boot \in Int /\ handlers[h].bad \in BOOLEAN
      BY <2>1 DEF Calls, Moment
    <3> QED
      BY <3>1, <3>2, <2>2 DEF Row
  <2>4. handlers' \in [1 .. InFlight -> {NoCall} \cup Calls]
    BY <1>1, <1>3 DEF IInv, Shape, SyncUpdate
  <2>5. UNCHANGED <<now, up, bad, intervals, sweep, cut>>
    BY <1>3 DEF SyncUpdate, job, mac
  <2>6. Shape' /\ Enrolled'
    BY <2>3, <2>4, <2>5 DEF IInv, Shape, Enrolled
  <2> QED
    BY <2>3, <2>5, <2>6, Frame
<1> QED
  BY <1>2, <1>3

LEMMA AwayKeeps == ASSUME IInv, NEW d \in AwayFor, Away(d) PROVE IInv'
<1>1. d \in Int
  BY HealthAssumption
<1>2. row' = [row EXCEPT !.away = now + d]
  BY DEF Away
<1>3. /\ row' \in Row /\ row'.health = row.health /\ row'.since = row.since
      /\ row'.seen = row.seen
  BY <1>1, <1>2 DEF IInv, Shape, Row
<1>4. UNCHANGED <<now, up, bad, handlers, intervals, sweep, cut>>
  BY DEF Away, job, mac, hist
<1>5. Shape' /\ Enrolled'
  BY <1>3, <1>4 DEF IInv, Shape, Enrolled
<1> QED
  BY <1>3, <1>4, <1>5, Frame

\* Whatever is open is closed now.
LEMMA CloseKeeps ==
  ASSUME Shape, Apart, now' = now,
         intervals' = {IF i \in Open THEN [i EXCEPT !.out = now] ELSE i : i \in intervals}
  PROVE  intervals' \in SUBSET Interval /\ Apart' /\ NothingOpen'
<1> DEFINE C(i) == IF i \in Open THEN [i EXCEPT !.out = now] ELSE i
<1>1. now \in Nat /\ now # Never /\ now <= now
  BY DEF Shape, Never
<1>2. ASSUME NEW i \in intervals
      PROVE  /\ C(i) \in Interval /\ C(i).in = i.in /\ C(i).out # Never
             /\ C(i).out = IF i.out = Never THEN now ELSE i.out
  <2>1. i \in Interval /\ now \in Moment
    BY <1>1, <1>2 DEF Shape, Moment
  <2>2. CASE i \in Open
    BY <1>1, <2>1, <2>2 DEF Open, Interval
  <2>3. CASE i \notin Open
    BY <2>1, <2>3 DEF Open
  <2> QED
    BY <2>2, <2>3
<1>3. \A k \in intervals' : \E i \in intervals : k = C(i)
  OBVIOUS
<1> HIDE DEF C
<1>4. \A k \in intervals' : k.in <= now' /\ k.out <= now'
  BY <1>1, <1>2, <1>3 DEF Apart
<1>5. ASSUME NEW k \in intervals', NEW l \in intervals', k # l
      PROVE  (k.out # Never /\ k.out <= l.in) \/ (l.out # Never /\ l.out <= k.in)
  <2>1. PICK i \in intervals : k = C(i)
    BY <1>3
  <2>2. PICK j \in intervals : l = C(j)
    BY <1>3
  <2>3. i # j
    BY <1>5, <2>1, <2>2
  <2> QED
    BY <2>1, <2>2, <2>3, <1>2 DEF Apart
<1> QED
  BY <1>2, <1>3, <1>4, <1>5 DEF Apart, NothingOpen

LEMMA JudgeKeeps == ASSUME IInv, Judge PROVE IInv'
<1>1. /\ sweep = Idle
      /\ UNCHANGED <<now, up, bad, cut, row, handlers>>
  BY DEF Judge, mac, hist
<1>2. Idle.step = "idle"
  BY DEF Idle
<1> DEFINE state == Verdict(row)
<1>3. state \in States /\ (state # row.health => state # "UNENROLLED" /\ row.seen # Never)
  BY VerdictFacts DEF IInv
<1>4. /\ state = row.health => intervals' = Reviewed(state, row.boot) /\ sweep' = Idle
      /\ state # row.health =>
           /\ intervals' = {IF i \in Open THEN [i EXCEPT !.out = now] ELSE i : i \in intervals}
           /\ sweep' = [step |-> "open", state |-> state, boot |-> row.boot]
  BY DEF Judge
<1> HIDE DEF state
<1>5. CASE state = row.health
  <2>1. /\ intervals' \in SUBSET Interval /\ Apart'
        /\ NothingOpen => NothingOpen'
        /\ OpenIs(row.health, row.since) => OpenIs(row.health, row.since)'
    BY <1>1, <1>4, <1>5, ReviewKeeps DEF IInv
  <2>2. Shape' /\ Enrolled'
    BY <1>1, <1>2, <1>4, <1>5, <2>1 DEF IInv, Shape, Enrolled
  <2>3. AsShown => AsShown'
    BY <1>1, <2>1 DEF AsShown
  <2>4. Phase'
    BY <1>1, <1>2, <1>4, <1>5, <2>3 DEF IInv, Phase
  <2> QED
    BY <2>1, <2>2, <2>4 DEF IInv
<1>6. CASE state # row.health
  <2>1. intervals' \in SUBSET Interval /\ Apart' /\ NothingOpen'
    BY <1>1, <1>4, <1>6, CloseKeeps DEF IInv
  <2>2. row.boot \in Int
    BY DEF IInv, Shape, Row
  <2>3. sweep' \in Sweeps /\ sweep'.step = "open" /\ sweep'.state = state
    BY <1>3, <1>4, <1>6, <2>2 DEF Sweeps
  <2>4. Shape' /\ Enrolled'
    BY <1>1, <1>3, <1>6, <2>1, <2>3 DEF IInv, Shape, Enrolled
  <2>5. Phase'
    BY <2>1, <2>3 DEF Phase
  <2> QED
    BY <2>1, <2>4, <2>5 DEF IInv
<1> QED
  BY <1>5, <1>6

\* A sweep that has begun is typed, and one statement on differs in its step only.
LEMMA SweepFacts ==
  ASSUME Shape, sweep.step # "idle", NEW s \in {"open", "device", "finish"}
  PROVE  /\ sweep \in Sweeps /\ sweep.state \in States
         /\ LET w == [sweep EXCEPT !.step = s]
            IN  w \in Sweeps /\ w.step = s /\ w.state = sweep.state
<1>1. sweep \in Sweeps
  BY DEF Shape, Idle
<1> QED
  BY <1>1 DEF Sweeps

LEMMA OpenKeeps == ASSUME IInv, OpenInterval PROVE IInv'
<1> DEFINE x == [state |-> sweep.state, in |-> now, out |-> Never, told |-> Never, was |-> "NULL"]
<1>1. /\ sweep.step = "open"
      /\ intervals' = intervals \cup {x}
      /\ sweep' = [sweep EXCEPT !.step = "device"]
      /\ UNCHANGED <<now, up, bad, cut, row, handlers>>
  BY DEF OpenInterval, mac, hist
<1>2. /\ sweep.state \in States /\ sweep' \in Sweeps
      /\ sweep'.step = "device" /\ sweep'.state = sweep.state
  BY <1>1, SweepFacts DEF IInv
<1>3. x \in Interval /\ x.in = now /\ x.out = Never /\ x.state = sweep.state
  BY <1>2 DEF IInv, Shape, Interval, Moment
<1> HIDE DEF x
<1>4. NothingOpen
  BY <1>1 DEF IInv, Phase
<1>5. Shape' /\ Enrolled'
  BY <1>1, <1>2, <1>3 DEF IInv, Shape, Enrolled
<1>6. Apart'
  <2>1. Never <= now /\ now <= now
    BY DEF IInv, Shape, Never
  <2> QED
    BY <1>1, <1>3, <1>4, <2>1 DEF IInv, Apart, NothingOpen
<1>7. Phase'
  <2>1. OpenIs(sweep.state, now)'
    BY <1>1, <1>2, <1>3, <1>4 DEF OpenIs, NothingOpen
  <2> QED
    BY <1>2, <2>1 DEF Phase
<1> QED
  BY <1>5, <1>6, <1>7 DEF IInv

LEMMA WriteKeeps == ASSUME IInv, WriteDevice PROVE IInv'
<1>1. /\ sweep.step = "device" /\ cut' = FALSE
      /\ row' = [row EXCEPT !.health = sweep.state, !.since = now]
      /\ sweep' = [sweep EXCEPT !.step = "finish"]
      /\ UNCHANGED <<now, up, bad, intervals, handlers>>
  BY DEF WriteDevice, mac
<1>2. /\ sweep.state \in States /\ sweep' \in Sweeps
      /\ sweep'.step = "finish" /\ sweep'.state = sweep.state
  BY <1>1, SweepFacts DEF IInv
<1>3. /\ row' \in Row /\ row'.health = sweep.state /\ row'.since = now /\ row'.seen = row.seen
  <2>1. row \in Row /\ now \in Moment
    BY DEF IInv, Shape, Moment
  <2> QED
    BY <1>1, <1>2, <2>1 DEF Row
<1>4. sweep.state # "UNENROLLED" /\ row.seen # Never /\ OpenIs(sweep.state, now)
  BY <1>1 DEF IInv, Enrolled, Phase
<1>5. Shape' /\ Enrolled'
  BY <1>1, <1>2, <1>3, <1>4 DEF IInv, Shape, Enrolled
<1>6. Apart'
  BY <1>1 DEF IInv, Apart
<1>7. AsShown'
  BY <1>1, <1>3, <1>4 DEF AsShown, OpenIs
<1> QED
  BY <1>1, <1>2, <1>5, <1>6, <1>7 DEF IInv, Phase

LEMMA FinishKeeps == ASSUME IInv, Finish PROVE IInv'
<1>1. /\ sweep.step = "finish" /\ sweep' = Idle
      /\ intervals' = Reviewed(sweep.state, sweep.boot)
      /\ UNCHANGED <<now, up, bad, cut, row, handlers>>
  BY DEF Finish, mac, hist
<1>2. /\ intervals' \in SUBSET Interval /\ Apart'
      /\ NothingOpen => NothingOpen'
      /\ OpenIs(row.health, row.since) => OpenIs(row.health, row.since)'
  BY <1>1, ReviewKeeps DEF IInv
<1>3. AsShown'
  BY <1>1, <1>2 DEF IInv, Phase, AsShown
<1>4. Idle.step = "idle"
  BY DEF Idle
<1>5. Shape' /\ Enrolled'
  BY <1>1, <1>2, <1>4 DEF IInv, Shape, Enrolled
<1> QED
  BY <1>1, <1>2, <1>3, <1>4, <1>5 DEF IInv, Phase

LEMMA CrashKeeps == ASSUME IInv, Crash PROVE IInv'
<1>1. /\ sweep' = Idle /\ cut' = (cut \/ sweep.step \in {"open", "device"})
      /\ handlers' = [h \in DOMAIN handlers |-> NoCall]
      /\ UNCHANGED <<now, up, bad, row, intervals>>
  BY DEF Crash, mac
<1>2. Idle.step = "idle"
  BY DEF Idle
<1>3. cut' \in BOOLEAN /\ (~cut' => ~cut /\ sweep.step \notin {"open", "device"})
  BY <1>1 DEF IInv, Shape
<1>4. handlers' \in [1 .. InFlight -> {NoCall} \cup Calls]
  BY <1>1 DEF IInv, Shape
<1>5. Shape' /\ Enrolled'
  BY <1>1, <1>2, <1>3, <1>4 DEF IInv, Shape, Enrolled
<1>6. sweep.step \in {"idle", "open", "device", "finish"}
  BY <1>2 DEF IInv, Shape, Sweeps
<1>7. ~cut' => AsShown
  BY <1>3, <1>6 DEF IInv, Phase
<1>8. Apart' /\ (AsShown => AsShown')
  BY <1>1 DEF IInv, Apart, AsShown, OpenIs, NothingOpen
<1> QED
  BY <1>1, <1>2, <1>5, <1>7, <1>8 DEF IInv, Phase

LEMMA TickKeeps == ASSUME IInv, Tick PROVE IInv'
<1>1. /\ sweep = Idle /\ now' = now + 1 /\ up' = IF power = "on" THEN up + 1 ELSE up
      /\ UNCHANGED <<bad, cut, row, intervals, handlers, sweep>>
  BY DEF Tick
<1>2. Idle.step = "idle"
  BY DEF Idle
<1>3. now' \in Nat /\ up' \in Nat
  BY <1>1 DEF IInv, Shape
<1>4. Shape' /\ Enrolled'
  BY <1>1, <1>3 DEF IInv, Shape, Enrolled
<1>5. \A i \in intervals : i.in \in Int /\ i.out \in Int /\ now \in Int
  BY DEF IInv, Shape, Interval, Moment, Never
<1>6. Apart'
  BY <1>1, <1>5 DEF IInv, Apart
<1>7. Phase'
  BY <1>1, <1>2 DEF IInv, Phase, AsShown, OpenIs, NothingOpen
<1> QED
  BY <1>4, <1>6, <1>7 DEF IInv

-----------------------------------------------------------------------------
(* The theorems *)

LEMMA InitIInv == Init => IInv
<1> SUFFICES ASSUME Init PROVE IInv
  OBVIOUS
<1>1. /\ now = 0 /\ up = 0 /\ bad = FALSE /\ cut = FALSE /\ intervals = {} /\ sweep = Idle
      /\ handlers = [h \in 1 .. InFlight |-> NoCall]
      /\ row = [seen |-> Never, up |-> Never, boot |-> Never, bad |-> FALSE, away |-> Never,
                health |-> "UNENROLLED", since |-> Never]
  BY DEF Init
<1>2. /\ row \in Row /\ row.health = "UNENROLLED"
  BY <1>1 DEF Row, Moment, Never, States
<1>3. Idle.step = "idle"
  BY DEF Idle
<1>4. Shape
  BY <1>1, <1>2 DEF Shape
<1> QED
  BY <1>1, <1>2, <1>3, <1>4 DEF IInv, Apart, Enrolled, Phase, AsShown, NothingOpen

LEMMA StepIInv == IInv /\ [Next]_vars => IInv'
<1> SUFFICES ASSUME IInv, [Next]_vars PROVE IInv'
  OBVIOUS
<1>1. CASE Boot \/ PowerOff \/ SleepOrWake \/ Network \/ Trouble \/ StopAgent \/ StartAgent \/ Deliver
  BY <1>1, MacKeeps
<1>2. CASE \E h \in DOMAIN handlers : SyncRecord(h) \/ SyncUpdate(h)
  BY <1>2, SyncKeeps
<1>3. CASE \E d \in AwayFor : Away(d)
  BY <1>3, AwayKeeps
<1>4. CASE Sweep
  BY <1>4, JudgeKeeps, OpenKeeps, WriteKeeps, FinishKeeps DEF Sweep
<1>5. CASE Crash
  BY <1>5, CrashKeeps
<1>6. CASE Recover \/ UNCHANGED vars
  <2>1. UNCHANGED <<now, up, bad, row, handlers, intervals, sweep, cut>>
    BY <1>6 DEF Recover, vars, mac, job, hist
  <2>2. Shape' /\ Enrolled'
    BY <2>1 DEF IInv, Shape, Enrolled
  <2> QED
    BY <2>1, <2>2, Frame
<1>7. CASE Tick
  BY <1>7, TickKeeps
<1> QED
  BY <1>1, <1>2, <1>3, <1>4, <1>5, <1>6, <1>7 DEF Next

\* The invariant: intervals lie apart, and the open one is what the device row
\* shows except while a sweep is between its statements, or after a restart cut
\* one short (jobs/liveness.ts, transition).
THEOREM HealthInvariant == Spec => []IInv
<1> QED
  BY InitIInv, StepIInv, PTL DEF Spec

LEMMA StoryFacts == IInv => OneStory
<1> SUFFICES ASSUME IInv PROVE OneStory
  OBVIOUS
<1>1. \A i, j \in Open : i = j
  BY DEF IInv, Apart, Open
<1>2. Cardinality(Open) <= 1
  <2>1. CASE Open = {}
    BY <2>1, FS_EmptySet
  <2>2. CASE \E i : i \in Open
    <3>1. PICK i : i \in Open
      BY <2>2
    <3>2. Open = {i}
      BY <1>1, <3>1
    <3> QED
      BY <3>2, FS_Singleton
  <2> QED
    BY <2>1, <2>2
<1>3. ASSUME AsShown
      PROVE  {<<i.state, i.in>> : i \in Open} =
               IF row.health = "UNENROLLED" THEN {} ELSE {<<row.health, row.since>>}
  <2>1. CASE row.health = "UNENROLLED"
    BY <1>3, <2>1 DEF AsShown, NothingOpen, Open
  <2>2. CASE row.health # "UNENROLLED"
    <3>1. /\ \E i \in Open : TRUE
          /\ \A i \in Open : i.state = row.health /\ i.in = row.since
      BY <1>3, <2>2 DEF AsShown, OpenIs, Open
    <3> QED
      BY <2>2, <3>1
  <2> QED
    BY <2>1, <2>2
<1> QED
  BY <1>2, <1>3 DEF OneStory, IInv, Apart, Phase

\* A device's intervals are one story: at most one open, none overlapping
\* another, and the open one what the device row shows since the same moment,
\* whatever check-ins and restarts fall between a sweep's statements
\* (jobs/liveness.ts, transition).
THEOREM OneStoryAlways == Spec => []OneStory
<1> QED
  BY HealthInvariant, StoryFacts, PTL

-----------------------------------------------------------------------------
(* A silence is told in time. *)

Armed == row.seen + Unexpected

\* A stop the server has heard of, and no start after it.
Excused ==
  \E i \in DOMAIN evs :
    /\ evs[i].kind = "stop" /\ evs[i].at # Never
    /\ ~\E j \in DOMAIN evs : i < j /\ evs[j].kind = "start" /\ evs[j].at # Never

Unmarked == row.seen # Never /\ row.away <= Armed

\* What decide must find at t: a silence of 36 hours, or one while the Mac should be on.
Red(t) == Unmarked /\ t - row.seen >= TooLong
Amber(t) ==
  Unmarked /\ t >= Armed /\ t - row.seen < TooLong /\ Armed .. t \subseteq Online /\ ~Excused

\* The last unit that the job has judged, when the API never stopped.
Judged == IF swept THEN now ELSE now - 1

\* What it found and told; what it has found and is writing.
Noticed ==
  outages = {} =>
    /\ api /\ ~cut /\ (sweep.step # "idle" => swept)
    /\ sweep.step = "idle" =>
         /\ Red(Judged) => \E i \in Open : i.state = "SILENT_TOO_LONG" /\ i.told # Never
         /\ Amber(Judged) =>
              \E i \in Open : /\ i.state = "UNEXPECTED_SILENCE" /\ i.in <= Armed
                              /\ Judged - Armed >= NotifyAfter => i.told # Never
    /\ sweep.step # "idle" =>
         /\ Red(now) => sweep.state = "SILENT_TOO_LONG"
         /\ Amber(now) => sweep.state = "UNEXPECTED_SILENCE" /\ now = Armed
    /\ sweep.step = "finish" => OpenIs(sweep.state, now)

Spooled == evs \in Seq([kind : {"start", "stop"}, at : Moment])

Heard == IInv /\ Spooled /\ Noticed

LEMMA HealthTypes ==
  ASSUME Shape
  PROVE  /\ now \in Nat /\ row.seen \in Int /\ row.away \in Int /\ Armed \in Int
         /\ Unexpected \in Nat /\ TooLong \in Nat /\ HealthyFor \in Nat /\ NotifyAfter \in Nat \ {0}
         /\ HealthyFor < Unexpected /\ Unexpected < TooLong /\ Unexpected > 0
         /\ row.health \in States /\ \A i \in intervals : i.in \in Int
<1>1. row \in Row /\ \A i \in intervals : i \in Interval
  BY DEF Shape
<1> QED
  BY <1>1, HealthAssumption DEF Shape, Row, Interval, Moment, Never, Armed

\* The last of some places is one of them.
LEMMA MaxFacts ==
  ASSUME NEW b \in Nat, NEW T \in SUBSET (1 .. b), T # {}
  PROVE  Max(T) \in T /\ \A u \in T : Max(T) >= u
<1> DEFINE D == {b - t : t \in T}
           R == {ss \in Nat \X Nat : ss[1] < ss[2]}
<1>1. D \in SUBSET Nat /\ D # {}
  <2>1. \A t \in T : b - t \in Nat /\ b - t \in D
    OBVIOUS
  <2>2. PICK t \in T : TRUE
    OBVIOUS
  <2> QED
    BY <2>1, <2>2
<1>2. \A t \in T : b - t \in D
  OBVIOUS
<1>3. \A m \in D : \E t \in T : m = b - t
  OBVIOUS
<1> HIDE DEF D
<1>4. IsWellFoundedOn(R, Nat)
  BY NatLessThanWellFounded DEF OpToRel
<1> HIDE DEF R
<1>5. PICK m \in D : \A n \in D : ~ (<<n, m>> \in R)
  BY <1>1, <1>4, WFMin
<1>6. \A n \in D : m <= n
  <2>1. \A n \in D : n \in Nat /\ m \in Nat
    BY <1>1
  <2>2. \A n \in D : ~(n < m)
    BY <1>5, <2>1 DEF R
  <2> QED
    BY <2>1, <2>2
<1>7. PICK t \in T : m = b - t
  BY <1>3
<1>8. \A u \in T : t >= u
  BY <1>2, <1>6, <1>7
<1> QED
  BY <1>8 DEF Max

LEMMA StopExcuses ==
  ASSUME Spooled, StoppedCleanly(row.seen)
  PROVE  Excused
<1> DEFINE starts == {i \in DOMAIN evs : evs[i].kind = "start" /\ evs[i].at # Never}
           stops == {i \in {k \in DOMAIN evs : evs[k].kind = "stop" /\ evs[k].at # Never} :
                       evs[i].at >= row.seen - StopSlack}
<1>1. stops # {} /\ \A i \in starts : i < Max(stops)
  BY DEF StoppedCleanly
<1>2. Len(evs) \in Nat /\ DOMAIN evs = 1 .. Len(evs)
  BY DEF Spooled
<1>3. stops \in SUBSET (1 .. Len(evs))
  BY <1>2
<1>4. Max(stops) \in stops
  <2> HIDE DEF stops
  <2> QED
    BY <1>1, <1>2, <1>3, MaxFacts
<1>5. PICK m \in stops : m = Max(stops)
  BY <1>4
<1>6. ASSUME NEW j \in starts
      PROVE  ~(m < j)
  <2>1. j \in Nat /\ m \in Nat
    BY <1>2
  <2>2. j < m
    BY <1>1, <1>5
  <2> QED
    BY <2>1, <2>2
<1>7. m \in DOMAIN evs /\ evs[m].kind = "stop" /\ evs[m].at # Never
  BY <1>5
<1> QED
  BY <1>6, <1>7 DEF Excused

\* What is spooled excuses nothing until it is delivered.
LEMMA SpoolFacts ==
  ASSUME Spooled, NEW kind \in {"start", "stop"}, Spool(<<kind>>)
  PROVE  Spooled' /\ (Excused' <=> Excused)
<1> DEFINE e == [kind |-> kind, at |-> Never]
<1>1. evs' = evs \o <<e>>
  <2>1. [i \in 1 .. Len(<<kind>>) |-> [kind |-> <<kind>>[i], at |-> Never]] = <<e>>
    OBVIOUS
  <2> QED
    BY <2>1 DEF Spool
<1>2. e \in [kind : {"start", "stop"}, at : Moment] /\ e.at = Never
  BY DEF Moment
<1> HIDE DEF e
<1>3. Spooled'
  BY <1>1, <1>2 DEF Spooled
<1>4. /\ Len(evs) \in Nat /\ DOMAIN evs = 1 .. Len(evs) /\ DOMAIN evs' = 1 .. Len(evs) + 1
      /\ \A i \in DOMAIN evs : evs'[i] = evs[i]
      /\ evs'[Len(evs) + 1] = e
  BY <1>1, <1>2 DEF Spooled
<1>5. \A i \in DOMAIN evs' : evs'[i].at # Never => i \in DOMAIN evs
  BY <1>2, <1>4
<1>6. Excused' => Excused
  <2> SUFFICES ASSUME Excused'
               PROVE  Excused
    OBVIOUS
  <2>1. PICK i \in DOMAIN evs' :
          /\ evs'[i].kind = "stop" /\ evs'[i].at # Never
          /\ ~\E j \in DOMAIN evs' : i < j /\ evs'[j].kind = "start" /\ evs'[j].at # Never
    BY DEF Excused
  <2>2. i \in DOMAIN evs /\ \A j \in DOMAIN evs : j \in DOMAIN evs'
    BY <1>4, <1>5, <2>1
  <2>3. ~\E j \in DOMAIN evs : i < j /\ evs[j].kind = "start" /\ evs[j].at # Never
    BY <1>4, <2>1, <2>2
  <2> QED
    BY <1>4, <2>1, <2>2, <2>3 DEF Excused
<1>7. Excused => Excused'
  <2> SUFFICES ASSUME Excused
               PROVE  Excused'
    OBVIOUS
  <2>1. PICK i \in DOMAIN evs :
          /\ evs[i].kind = "stop" /\ evs[i].at # Never
          /\ ~\E j \in DOMAIN evs : i < j /\ evs[j].kind = "start" /\ evs[j].at # Never
    BY DEF Excused
  <2>2. i \in DOMAIN evs' /\ evs'[i] = evs[i]
    BY <1>4
  <2>3. ~\E j \in DOMAIN evs' : i < j /\ evs'[j].kind = "start" /\ evs'[j].at # Never
    BY <1>4, <1>5, <2>1
  <2> QED
    BY <2>1, <2>2, <2>3 DEF Excused
<1> QED
  BY <1>3, <1>6, <1>7

LEMMA NoticedFrame ==
  ASSUME Noticed, UNCHANGED <<now, intervals, sweep, swept, api, cut, outages>>,
         row'.seen = row.seen, row'.away = row.away, Excused' <=> Excused
  PROVE  Noticed'
<1>1. Armed' = Armed /\ Judged' = Judged /\ Open' = Open /\ (Unmarked' <=> Unmarked)
  BY DEF Armed, Judged, Open, Unmarked
<1>2. \A t : (Red(t)' <=> Red(t)) /\ (Amber(t)' <=> Amber(t))
  BY <1>1 DEF Red, Amber
<1>3. \A s, t : OpenIs(s, t)' <=> OpenIs(s, t)
  BY DEF OpenIs
<1>4. (Red(Judged)' <=> Red(Judged)) /\ (Amber(Judged)' <=> Amber(Judged))
      /\ (Red(now)' <=> Red(now)) /\ (Amber(now)' <=> Amber(now))
  BY <1>1 DEF Red, Amber
<1>5. OpenIs(sweep.state, now)' <=> OpenIs(sweep.state, now)
  BY DEF OpenIs
<1> QED
  BY <1>1, <1>4, <1>5 DEF Noticed

\* A Mac heard of in this unit, or marked away in it, is nothing to notice.
LEMMA NothingToNotice ==
  ASSUME Shape, Noticed, UNCHANGED <<now, intervals, sweep, swept, api, cut, outages>>,
         row'.seen \in Int, row'.away \in Int, row'.seen = now \/ row'.away > now
  PROVE  Noticed'
<1>1. /\ now \in Nat /\ Unexpected \in Nat /\ TooLong \in Nat /\ Unexpected < TooLong /\ Unexpected > 0
      /\ Judged' \in Int /\ Judged' <= now /\ Armed' = row'.seen + Unexpected
  BY HealthTypes DEF Judged, Armed
<1>2. ASSUME NEW t \in Int, t <= now
      PROVE  /\ row'.away <= Armed' => ~(t - row'.seen >= TooLong) /\ ~(t >= Armed')
  BY <1>1, <1>2
<1>3. ~Red(Judged)' /\ ~Amber(Judged)'
  BY <1>1, <1>2 DEF Red, Amber, Unmarked
<1>4. ~Red(now)' /\ ~Amber(now)'
  BY <1>1, <1>2 DEF Red, Amber, Unmarked
<1>5. OpenIs(sweep.state, now)' <=> OpenIs(sweep.state, now)
  BY DEF OpenIs
<1> QED
  BY <1>3, <1>4, <1>5 DEF Noticed

LEMMA RedVerdict ==
  ASSUME Shape, Red(now)
  PROVE  Verdict(row) = "SILENT_TOO_LONG"
<1>1. /\ now \in Nat /\ row.seen \in Int /\ row.away \in Int /\ Armed = row.seen + Unexpected
      /\ Unexpected \in Nat /\ TooLong \in Nat /\ HealthyFor \in Nat
      /\ HealthyFor < Unexpected /\ Unexpected < TooLong
  BY HealthTypes DEF Armed
<1>2. row.seen # Never /\ row.away <= Armed /\ now - row.seen >= TooLong
  BY DEF Red, Unmarked
<1>3. ~(row.away > now) /\ ~(now - row.seen <= HealthyFor)
  BY <1>1, <1>2
<1> QED
  BY <1>2, <1>3 DEF Verdict

LEMMA AmberVerdict ==
  ASSUME Shape, Spooled, Amber(now)
  PROVE  Verdict(row) = "UNEXPECTED_SILENCE" /\ ExpectedOnline
<1>1. /\ now \in Nat /\ row.seen \in Int /\ row.away \in Int /\ Armed = row.seen + Unexpected /\ Armed \in Int
      /\ Unexpected \in Nat /\ TooLong \in Nat /\ HealthyFor \in Nat
      /\ HealthyFor < Unexpected /\ Unexpected < TooLong
  BY HealthTypes DEF Armed
<1>2. /\ row.seen # Never /\ row.away <= Armed /\ now >= Armed /\ now - row.seen < TooLong
      /\ Armed .. now \subseteq Online /\ ~Excused
  BY DEF Amber, Unmarked
<1>3. ~(row.away > now) /\ ~(now - row.seen <= HealthyFor) /\ ~(now - row.seen >= TooLong)
      /\ now - row.seen >= Unexpected
  BY <1>1, <1>2
<1>4. now \in Online
  BY <1>1, <1>2
<1>5. ~StoppedCleanly(row.seen)
  BY <1>2, StopExcuses
<1> QED
  BY <1>2, <1>3, <1>4, <1>5 DEF Verdict, ExpectedOnline

\* Amber lasts from when it began.
LEMMA AmberBefore ==
  ASSUME Shape, Amber(now), now # Armed
  PROVE  Amber(now - 1)
<1>1. now \in Nat /\ Armed \in Int /\ row.seen \in Int /\ TooLong \in Nat
  BY HealthTypes
<1>2. now >= Armed /\ now - row.seen < TooLong /\ Armed .. now \subseteq Online
  BY DEF Amber
<1>3. now - 1 >= Armed /\ (now - 1) - row.seen < TooLong
  BY <1>1, <1>2
<1>4. Armed .. (now - 1) \subseteq Online
  <2>1. Armed .. (now - 1) \subseteq Armed .. now
    BY <1>1
  <2> QED
    BY <1>2, <2>1
<1> QED
  BY <1>3, <1>4 DEF Amber

\* A review leaves the open interval told, if it was or if it is due.
LEMMA ReviewTells ==
  ASSUME Shape, Apart, NEW i \in intervals, i.out = Never, NEW state, NEW boot,
         intervals' = Reviewed(state, boot), now' = now
  PROVE  \E k \in Open' : /\ k.state = i.state /\ k.in = i.in
                          /\ i.told # Never \/ Due(state, i) => k.told # Never
<1> DEFINE k == Review(i, state, boot)
<1>1. k \in intervals' /\ k.in = i.in /\ k.out = i.out /\ k.state = i.state
  BY ReviewFacts DEF Reviewed
<1>2. i \in Interval /\ now # Never
  BY DEF Shape, Never
<1>3. i \in Latest(Open)
  <2>1. \A j \in Open : j = i
    BY DEF Apart, Open
  <2>2. i.in <= i.in
    BY HealthTypes
  <2> QED
    BY <2>1, <2>2 DEF Latest, Open
<1>4. i \notin Latest(Explained(boot))
  BY DEF Latest, Explained
<1>5. i.told # Never \/ Due(state, i) => k.told # Never
  <2>1. CASE i.told = Never /\ Due(state, i)
    <3>1. k = [i EXCEPT !.told = now]
      BY <1>3, <2>1 DEF Review
    <3> QED
      BY <1>2, <3>1 DEF Interval
  <2>2. CASE ~(i.told = Never /\ Due(state, i))
    <3>1. k = i
      BY <1>4, <2>2 DEF Review
    <3> QED
      BY <2>2, <3>1
  <2> QED
    BY <2>1, <2>2
<1> HIDE DEF k
<1> QED
  BY <1>1, <1>5 DEF Open

LEMMA JudgeNotices == ASSUME Heard, Judge PROVE Noticed'
<1>1. Shape /\ Apart /\ Enrolled /\ Phase /\ Spooled /\ Noticed
  BY DEF Heard, IInv
<1>2. /\ sweep = Idle /\ ~swept /\ swept' = TRUE /\ api
      /\ UNCHANGED <<now, row, evs, api, cut, outages>>
  BY DEF Judge, hist
<1>3. sweep.step = "idle" /\ Judged = now - 1
  BY <1>2 DEF Idle, Judged
<1>4. /\ now \in Nat /\ Armed \in Int /\ NotifyAfter \in Nat \ {0} /\ \A i \in intervals : i.in \in Int
  BY <1>1, HealthTypes
<1> SUFFICES ASSUME outages = {}
             PROVE  Noticed'
  BY <1>2 DEF Noticed
<1>5. ~cut /\ AsShown
  BY <1>1, <1>3 DEF Noticed, Phase
<1> DEFINE state == Verdict(row)
<1>6. Red(now) => state = "SILENT_TOO_LONG"
  BY <1>1, RedVerdict
<1>7. Amber(now) => state = "UNEXPECTED_SILENCE" /\ ExpectedOnline
  BY <1>1, AmberVerdict
<1>8. Amber(now) /\ now # Armed =>
        \E i \in Open : /\ i.state = "UNEXPECTED_SILENCE" /\ i.in <= Armed
                        /\ (now - 1) - Armed >= NotifyAfter => i.told # Never
  BY <1>1, <1>3, AmberBefore DEF Noticed
<1>9. row.health # "UNENROLLED" => OpenIs(row.health, row.since)
  BY <1>5 DEF AsShown
<1>10. \A i \in Open : i.state = row.health
  BY <1>5 DEF AsShown, NothingOpen, OpenIs, Open
<1>11. /\ state = row.health => intervals' = Reviewed(state, row.boot) /\ sweep' = Idle
       /\ state # row.health => sweep' = [step |-> "open", state |-> state, boot |-> row.boot]
  BY DEF Judge
<1> HIDE DEF state
<1>12. /\ Armed' = Armed /\ Judged' = now
       /\ (Red(Judged)' <=> Red(now)) /\ (Amber(Judged)' <=> Amber(now))
       /\ (Red(now)' <=> Red(now)) /\ (Amber(now)' <=> Amber(now))
  BY <1>2 DEF Armed, Judged, Red, Amber, Unmarked, Excused
<1>13. CASE state = row.health
  <2>1. Idle.step = "idle" /\ sweep'.step = "idle"
    BY <1>11, <1>13 DEF Idle
  <2>2. ASSUME Red(now)
        PROVE  \E k \in Open' : k.state = "SILENT_TOO_LONG" /\ k.told # Never
    <3>1. PICK i \in intervals : i.out = Never /\ i.state = "SILENT_TOO_LONG"
      BY <1>6, <1>9, <1>13, <2>2 DEF OpenIs
    <3>2. Due(state, i)
      BY <1>6, <2>2 DEF Due
    <3> QED
      BY <1>1, <1>2, <1>11, <1>13, <3>1, <3>2, ReviewTells
  <2>3. ASSUME Amber(now)
        PROVE  \E k \in Open' : /\ k.state = "UNEXPECTED_SILENCE" /\ k.in <= Armed
                                /\ now - Armed >= NotifyAfter => k.told # Never
    <3>1. PICK i \in intervals : i.out = Never /\ i.state = "UNEXPECTED_SILENCE" /\ i.in <= Armed
      <4>1. CASE now = Armed
        <5>1. PICK i \in intervals : i.out = Never /\ i.state = "UNEXPECTED_SILENCE"
          BY <1>7, <1>9, <1>13, <2>3 DEF OpenIs
        <5>2. i.in <= now
          BY <1>1 DEF Apart
        <5> QED
          BY <4>1, <5>1, <5>2
      <4>2. CASE now # Armed
        BY <1>8, <2>3, <4>2 DEF Open
      <4> QED
        BY <4>1, <4>2
    <3>2. now - Armed >= NotifyAfter => Due(state, i)
      <4>1. now - Armed >= NotifyAfter => now - i.in >= NotifyAfter
        BY <1>4, <3>1
      <4> QED
        BY <1>7, <2>3, <4>1 DEF Due
    <3>3. \E k \in Open' : /\ k.state = i.state /\ k.in = i.in
                           /\ i.told # Never \/ Due(state, i) => k.told # Never
      BY <1>1, <1>2, <1>11, <1>13, <3>1, ReviewTells
    <3> QED
      BY <3>1, <3>2, <3>3
  <2> QED
    BY <1>2, <1>5, <1>12, <2>1, <2>2, <2>3 DEF Noticed
<1>14. CASE state # row.health
  <2>1. sweep'.step = "open" /\ sweep'.state = state
    BY <1>11, <1>14
  <2>2. Amber(now) => now = Armed
    <3>1. ASSUME Amber(now), now # Armed
          PROVE  FALSE
      <4>1. PICK i \in Open : i.state = "UNEXPECTED_SILENCE"
        BY <1>8, <3>1
      <4> QED
        BY <1>7, <1>10, <1>14, <3>1, <4>1
    <3> QED
      BY <3>1
  <2> QED
    BY <1>2, <1>5, <1>6, <1>7, <1>12, <2>1, <2>2 DEF Noticed
<1> QED
  BY <1>13, <1>14

LEMMA SweepNotices == ASSUME Heard, OpenInterval \/ WriteDevice \/ Finish PROVE Noticed'
<1>1. Shape /\ Apart /\ Enrolled /\ Phase /\ Spooled /\ Noticed
  BY DEF Heard, IInv
<1>2. /\ UNCHANGED <<now, evs, swept, api, outages>> /\ sweep.step # "idle"
      /\ row'.seen = row.seen /\ row'.away = row.away /\ (cut' = cut \/ cut' = FALSE)
  <2>1. row \in Row
    BY <1>1 DEF Shape
  <2> QED
    BY <2>1 DEF OpenInterval, WriteDevice, Finish, hist, Row
<1>3. /\ now \in Nat /\ Armed \in Int /\ NotifyAfter \in Nat \ {0} /\ \A i \in intervals : i.in \in Int
  BY <1>1, HealthTypes
<1> SUFFICES ASSUME outages = {}
             PROVE  Noticed'
  BY <1>2 DEF Noticed
<1>4. /\ api /\ ~cut /\ swept
      /\ Red(now) => sweep.state = "SILENT_TOO_LONG"
      /\ Amber(now) => sweep.state = "UNEXPECTED_SILENCE" /\ now = Armed
      /\ sweep.step = "finish" => OpenIs(sweep.state, now)
  BY <1>1, <1>2 DEF Noticed
<1>5. /\ Armed' = Armed /\ Judged' = now
      /\ (Red(Judged)' <=> Red(now)) /\ (Amber(Judged)' <=> Amber(now))
      /\ (Red(now)' <=> Red(now)) /\ (Amber(now)' <=> Amber(now))
  BY <1>2, <1>4 DEF Armed, Judged, Red, Amber, Unmarked, Excused
<1>6. CASE OpenInterval
  <2>1. sweep'.step = "device" /\ sweep'.state = sweep.state
    <3>1. sweep' = [sweep EXCEPT !.step = "device"]
      BY <1>6 DEF OpenInterval
    <3> QED
      BY <1>1, <1>2, <3>1, SweepFacts
  <2> QED
    BY <1>2, <1>4, <1>5, <2>1 DEF Noticed
<1>7. CASE WriteDevice
  <2>1. sweep'.step = "finish" /\ sweep'.state = sweep.state /\ intervals' = intervals
    <3>1. sweep' = [sweep EXCEPT !.step = "finish"] /\ intervals' = intervals
      BY <1>7 DEF WriteDevice
    <3> QED
      BY <1>1, <1>2, <3>1, SweepFacts
  <2>2. OpenIs(sweep.state, now)
    BY <1>1, <1>7 DEF WriteDevice, Phase
  <2>3. OpenIs(sweep.state, now)'
    BY <1>2, <2>1, <2>2 DEF OpenIs
  <2> QED
    BY <1>2, <1>4, <1>5, <2>1, <2>3 DEF Noticed
<1>8. CASE Finish
  <2>1. /\ sweep.step = "finish" /\ intervals' = Reviewed(sweep.state, sweep.boot) /\ sweep'.step = "idle"
    BY <1>8 DEF Finish, Idle
  <2>2. PICK i \in intervals : i.out = Never /\ i.state = sweep.state /\ i.in = now
    BY <1>4, <2>1 DEF OpenIs
  <2>3. \E k \in Open' : /\ k.state = i.state /\ k.in = i.in
                         /\ i.told # Never \/ Due(sweep.state, i) => k.told # Never
    BY <1>1, <1>2, <2>1, <2>2, ReviewTells
  <2>4. Red(now) => Due(sweep.state, i)
    BY <1>4 DEF Due
  <2>5. now = Armed => now <= Armed /\ ~(now - Armed >= NotifyAfter)
    BY <1>3
  <2>6. Red(now) => \E k \in Open' : k.state = "SILENT_TOO_LONG" /\ k.told # Never
    BY <1>4, <2>2, <2>3, <2>4
  <2>7. Amber(now) => \E k \in Open' : /\ k.state = "UNEXPECTED_SILENCE" /\ k.in <= Armed
                                       /\ now - Armed >= NotifyAfter => k.told # Never
    BY <1>4, <2>2, <2>3, <2>5
  <2> QED
    BY <1>2, <1>4, <1>5, <2>1, <2>6, <2>7 DEF Noticed
<1> QED
  BY <1>6, <1>7, <1>8

LEMMA MacNotices ==
  ASSUME Heard, Boot \/ PowerOff \/ SleepOrWake \/ Network \/ Trouble \/ StopAgent \/ StartAgent \/ Deliver
  PROVE  Spooled' /\ Noticed'
<1>1. Shape /\ Spooled /\ Noticed
  BY DEF Heard, IInv
<1>2. /\ UNCHANGED <<now, row, intervals, sweep, swept, api, cut, outages>>
  BY DEF Boot, PowerOff, SleepOrWake, Network, Trouble, StopAgent, StartAgent, Deliver, job, hist, mac
<1>3. CASE \E kind \in {"start", "stop"} : Spool(<<kind>>)
  <2>1. Spooled' /\ (Excused' <=> Excused)
    BY <1>1, <1>3, SpoolFacts
  <2> QED
    BY <1>1, <1>2, <2>1, NoticedFrame
<1>4. CASE evs' = evs
  <2>1. Excused' <=> Excused
    BY <1>4 DEF Excused
  <2> QED
    BY <1>1, <1>2, <1>4, <2>1, NoticedFrame DEF Spooled
<1>5. CASE Deliver
  <2>1. row.seen = now /\ row'.seen = now /\ row'.away \in Int /\ now \in Int
    BY <1>1, <1>2, <1>5, HealthTypes DEF Deliver
  <2>2. Noticed'
    BY <1>1, <1>2, <2>1, NothingToNotice
  <2>3. Spooled'
    <3>1. /\ evs' = [i \in DOMAIN evs |-> IF evs[i].at = Never THEN [evs[i] EXCEPT !.at = now] ELSE evs[i]]
          /\ now \in Moment
      BY <1>1, <1>5 DEF Deliver, Shape, Moment
    <3> DEFINE E == [kind : {"start", "stop"}, at : Moment]
    <3>2. DOMAIN evs = 1 .. Len(evs) /\ Len(evs) \in Nat /\ \A i \in DOMAIN evs : evs[i] \in E
      <4>1. evs \in Seq(E)
        BY <1>1 DEF Spooled
      <4> HIDE DEF E
      <4> QED
        BY <4>1
    <3>3. \A i \in DOMAIN evs : evs'[i] \in [kind : {"start", "stop"}, at : Moment]
      BY <3>1, <3>2
    <3> QED
      BY <3>1, <3>2, <3>3 DEF Spooled
  <2> QED
    BY <2>2, <2>3
<1> QED
  BY <1>3, <1>4, <1>5 DEF Boot, PowerOff, SleepOrWake, Network, Trouble, StopAgent, StartAgent

LEMMA SyncNotices ==
  ASSUME Heard, NEW h \in DOMAIN handlers, SyncRecord(h) \/ SyncUpdate(h)
  PROVE  Spooled' /\ Noticed'
<1>1. Shape /\ Spooled /\ Noticed /\ row \in Row
  BY DEF Heard, IInv, Shape
<1>2. UNCHANGED <<now, evs, intervals, sweep, swept, api, cut, outages>>
  BY DEF SyncRecord, SyncUpdate, job
<1>3. Spooled' /\ (Excused' <=> Excused)
  BY <1>1, <1>2 DEF Spooled, Excused
<1>4. CASE SyncRecord(h)
  <2>1. row' = row
    BY <1>4 DEF SyncRecord
  <2> QED
    BY <1>1, <1>2, <1>3, <2>1, NoticedFrame
<1>5. CASE SyncUpdate(h)
  <2>1. row' = [row EXCEPT !.seen = now, !.up = handlers[h].up, !.boot = handlers[h].boot,
                           !.bad = handlers[h].bad]
    BY <1>5 DEF SyncUpdate
  <2>2. row'.seen = now /\ now \in Int /\ row'.away \in Int
    BY <1>1, <2>1, HealthTypes DEF Row
  <2> QED
    BY <1>1, <1>2, <1>3, <2>2, NothingToNotice
<1> QED
  BY <1>4, <1>5

LEMMA AwayNotices ==
  ASSUME Heard, NEW d \in AwayFor, Away(d)
  PROVE  Spooled' /\ Noticed'
<1>1. Shape /\ Spooled /\ Noticed /\ row \in Row
  BY DEF Heard, IInv, Shape
<1>2. UNCHANGED <<now, evs, intervals, sweep, swept, api, cut, outages>> /\ row' = [row EXCEPT !.away = now + d]
  BY DEF Away, job, hist
<1>3. d \in Nat \ {0} /\ now \in Nat
  BY <1>1, HealthAssumption DEF Shape
<1>4. row'.away = now + d /\ row'.away > now /\ row'.away \in Int /\ row'.seen \in Int
  BY <1>1, <1>2, <1>3, HealthTypes DEF Row
<1> QED
  BY <1>1, <1>2, <1>4, NothingToNotice DEF Spooled

LEMMA TickNotices == ASSUME Heard, Tick PROVE Spooled' /\ Noticed'
<1>1. Shape /\ Spooled /\ Noticed
  BY DEF Heard, IInv
<1>2. /\ now' = now + 1 /\ now \in Nat /\ sweep = Idle /\ (api => swept) /\ swept' = FALSE
      /\ outages' = IF api THEN outages ELSE outages \cup {now, now + 1}
      /\ UNCHANGED <<evs, row, intervals, sweep, api, cut>>
  BY <1>1 DEF Tick, Shape
<1> SUFFICES ASSUME outages' = {}
             PROVE  Noticed'
  BY <1>1, <1>2 DEF Noticed, Spooled
<1>3. outages = {} /\ sweep.step = "idle"
  BY <1>2 DEF Idle
<1>4. api /\ ~cut /\ swept
  BY <1>1, <1>2, <1>3 DEF Noticed
<1>5. Judged' = now /\ Judged = now /\ Armed' = Armed /\ Open' = Open
  BY <1>2, <1>4 DEF Judged, Armed, Open
<1>6. (Red(Judged)' <=> Red(Judged)) /\ (Amber(Judged)' <=> Amber(Judged))
  BY <1>2, <1>5 DEF Red, Amber, Unmarked, Excused
<1> QED
  BY <1>1, <1>2, <1>3, <1>4, <1>5, <1>6 DEF Noticed

LEMMA StepHeard == Heard /\ [Next]_vars => Heard'
<1> SUFFICES ASSUME Heard, [Next]_vars PROVE Heard'
  OBVIOUS
<1>1. IInv'
  BY StepIInv DEF Heard
<1>2. Spooled /\ Noticed /\ Shape
  BY DEF Heard, IInv
<1>3. CASE Boot \/ PowerOff \/ SleepOrWake \/ Network \/ Trouble \/ StopAgent \/ StartAgent \/ Deliver
  BY <1>1, <1>3, MacNotices DEF Heard
<1>4. CASE \E h \in DOMAIN handlers : SyncRecord(h) \/ SyncUpdate(h)
  BY <1>1, <1>4, SyncNotices DEF Heard
<1>5. CASE \E d \in AwayFor : Away(d)
  BY <1>1, <1>5, AwayNotices DEF Heard
<1>6. CASE Sweep
  <2>1. Spooled'
    BY <1>2, <1>6 DEF Sweep, Judge, OpenInterval, WriteDevice, Finish, Spooled
  <2> QED
    BY <1>1, <1>6, <2>1, JudgeNotices, SweepNotices DEF Sweep, Heard
<1>7. CASE Crash
  <2>1. outages' # {} /\ evs' = evs
    BY <1>7 DEF Crash
  <2> QED
    BY <1>1, <1>2, <2>1 DEF Heard, Noticed, Spooled
<1>8. CASE Recover
  <2>1. ~api /\ outages' = outages /\ evs' = evs
    BY <1>8 DEF Recover, hist
  <2> QED
    BY <1>1, <1>2, <2>1 DEF Heard, Noticed, Spooled
<1>9. CASE Tick
  BY <1>1, <1>9, TickNotices DEF Heard
<1>10. CASE UNCHANGED vars
  <2>1. UNCHANGED <<now, row, evs, intervals, sweep, swept, api, cut, outages>>
    BY <1>10 DEF vars, job, hist
  <2>2. Spooled' /\ (Excused' <=> Excused)
    BY <1>2, <2>1 DEF Spooled, Excused
  <2> QED
    BY <1>1, <1>2, <2>1, <2>2, NoticedFrame DEF Heard
<1> QED
  BY <1>3, <1>4, <1>5, <1>6, <1>7, <1>8, <1>9, <1>10 DEF Next

LEMMA InitHeard == Init => Heard
<1> SUFFICES ASSUME Init PROVE Heard
  OBVIOUS
<1>1. /\ evs = <<>> /\ sweep = Idle /\ api = TRUE /\ cut = FALSE
      /\ row = [seen |-> Never, up |-> Never, boot |-> Never, bad |-> FALSE, away |-> Never,
                health |-> "UNENROLLED", since |-> Never]
  BY DEF Init
<1>2. ~Unmarked /\ sweep.step = "idle"
  BY <1>1 DEF Unmarked, Idle
<1>3. Noticed
  BY <1>1, <1>2 DEF Noticed, Red, Amber
<1> QED
  BY <1>1, <1>3, InitIInv DEF Heard, Spooled

LEMMA NoticedFacts == Heard => NoticedInTime
<1> SUFFICES ASSUME Heard, Settled, api, outages = {}, row.seen # Never, row.away <= row.seen + Unexpected,
                    \/ now - row.seen >= TooLong
                    \/ /\ now - row.seen >= Unexpected + NotifyAfter
                       /\ row.seen + Unexpected .. now \subseteq Online
                       /\ ~\E i \in DOMAIN evs : /\ evs[i].kind = "stop" /\ evs[i].at # Never
                                                 /\ ~BackUp(i, row.seen + Unexpected)
             PROVE  \E i \in Open : i.state \in Silence /\ i.told # Never
  BY DEF NoticedInTime
<1>1. Shape /\ Noticed
  BY DEF Heard, IInv
<1>2. sweep.step = "idle" /\ Judged = now /\ Unmarked
  BY DEF Settled, Judged, Unmarked, Armed
<1>3. /\ now \in Nat /\ row.seen \in Int /\ Armed = row.seen + Unexpected /\ Armed \in Int
      /\ Unexpected \in Nat /\ TooLong \in Nat /\ NotifyAfter \in Nat \ {0}
  BY <1>1, HealthTypes DEF Armed
<1>4. CASE now - row.seen >= TooLong
  <2>1. Red(Judged)
    BY <1>2, <1>4 DEF Red
  <2> QED
    BY <1>1, <1>2, <2>1 DEF Noticed, Silence
<1>5. CASE ~(now - row.seen >= TooLong)
  <2>1. ~Excused
    BY <1>5 DEF Excused, BackUp
  <2>2. now >= Armed /\ now - row.seen < TooLong /\ now - Armed >= NotifyAfter /\ Armed .. now \subseteq Online
    BY <1>3, <1>5
  <2>3. Amber(Judged)
    BY <1>2, <2>1, <2>2 DEF Amber
  <2>4. PICK i \in Open : i.state = "UNEXPECTED_SILENCE" /\ i.told # Never
    BY <1>1, <1>2, <2>2, <2>3 DEF Noticed
  <2> QED
    BY <2>4 DEF Silence
<1> QED
  BY <1>4, <1>5

\* A Mac that is silent while it should be on is told of in time, for any thresholds,
\* windows, check-ins in flight and changes of the Mac, unless the API was down or a
\* parent marked it away (jobs/liveness.ts, decide and maybeNotify).
THEOREM NoticedAlways == Spec => []NoticedInTime
<1> QED
  BY InitHeard, StepHeard, NoticedFacts, PTL DEF Spec

-----------------------------------------------------------------------------
(* What is told is true: what the Mac reports is how it has spent its time. *)

Powers == {"on", "asleep", "off"}

Units(p, kind, a, b) == {t \in a .. b - 1 : p[t + 1] = kind}
Spent(p, kind, a, b) == Cardinality(Units(p, kind, a, b))

\* The last boot by t, the uptime then, and whether the Mac has not been off since.
LastBoot(bs, t) == Max({x \in bs : x <= t})
UpAt(p, bs, t) == Spent(p, "on", LastBoot(bs, t), t)
OnAt(p, bs, t) == \A u \in LastBoot(bs, t) .. t - 1 : p[u + 1] # "off"

BootsOf(bs, a, b) == {t \in bs : a < t /\ t <= b}

LEMMA SpentType ==
  ASSUME NEW p, NEW kind, NEW a \in Nat, NEW b \in Nat
  PROVE  /\ IsFiniteSet(Units(p, kind, a, b)) /\ Spent(p, kind, a, b) \in Nat
         /\ a <= b => Spent(p, kind, a, b) <= b - a
         /\ a >= b => Spent(p, kind, a, b) = 0
<1>1. /\ IsFiniteSet(a .. b - 1)
      /\ Cardinality(a .. b - 1) = IF a > b - 1 THEN 0 ELSE b - 1 - a + 1
  BY FS_Interval
<1>2. Units(p, kind, a, b) \in SUBSET (a .. b - 1)
  BY DEF Units
<1>3. /\ IsFiniteSet(Units(p, kind, a, b))
      /\ Spent(p, kind, a, b) <= Cardinality(a .. b - 1)
  BY <1>1, <1>2, FS_Subset DEF Spent
<1>4. Spent(p, kind, a, b) \in Nat
  BY <1>3, FS_CardinalityType DEF Spent
<1>5. a >= b => Spent(p, kind, a, b) = 0
  <2> SUFFICES ASSUME a >= b PROVE Spent(p, kind, a, b) = 0
    OBVIOUS
  <2>1. Units(p, kind, a, b) = {}
    BY <1>2
  <2> QED
    BY <2>1, FS_EmptySet DEF Spent
<1> QED
  BY <1>1, <1>3, <1>4, <1>5

\* Time spent adds up,
LEMMA SpentAdds ==
  ASSUME NEW p, NEW kind, NEW a \in Nat, NEW b \in Nat, NEW c \in Nat, a <= b, b <= c
  PROVE  Spent(p, kind, a, c) = Spent(p, kind, a, b) + Spent(p, kind, b, c)
<1> DEFINE S == Units(p, kind, a, b)
           T == Units(p, kind, b, c)
<1>1. IsFiniteSet(S) /\ IsFiniteSet(T) /\ Cardinality(S) \in Nat /\ Cardinality(T) \in Nat
  BY SpentType DEF Spent
<1>2. Units(p, kind, a, c) = S \cup T /\ S \cap T = {}
  BY DEF Units
<1> HIDE DEF S, T
<1>3. Cardinality(S \cup T) = Cardinality(S) + Cardinality(T) - Cardinality(S \cap T)
  BY <1>1, FS_Union
<1>4. Cardinality(S \cap T) = 0
  BY <1>2, FS_EmptySet
<1> QED
  BY <1>1, <1>2, <1>3, <1>4 DEF Spent, S, T

\* and a Mac that is not off is on or asleep.
LEMMA OnOrAsleep ==
  ASSUME NEW p \in Seq(Powers), NEW a \in Nat, NEW b \in Nat, a <= b, b <= Len(p),
         \A u \in a .. b - 1 : p[u + 1] # "off"
  PROVE  Spent(p, "on", a, b) + Spent(p, "asleep", a, b) = b - a
<1> DEFINE S == Units(p, "on", a, b)
           T == Units(p, "asleep", a, b)
<1>1. IsFiniteSet(S) /\ IsFiniteSet(T) /\ Cardinality(S) \in Nat /\ Cardinality(T) \in Nat
  BY SpentType DEF Spent
<1>2. \A u \in a .. b - 1 : p[u + 1] \in {"on", "asleep"}
  <2>1. \A u \in a .. b - 1 : u + 1 \in 1 .. Len(p)
    OBVIOUS
  <2>2. \A v \in 1 .. Len(p) : p[v] \in Powers
    OBVIOUS
  <2> QED
    BY <2>1, <2>2 DEF Powers
<1>3. a .. b - 1 = S \cup T /\ S \cap T = {}
  BY <1>2 DEF Units
<1> HIDE DEF S, T
<1>4. Cardinality(S \cup T) = Cardinality(S) + Cardinality(T) - Cardinality(S \cap T)
  BY <1>1, FS_Union
<1>5. Cardinality(S \cap T) = 0
  BY <1>3, FS_EmptySet
<1>6. Cardinality(a .. b - 1) = b - a
  <2>1. Cardinality(a .. b - 1) = IF a > b - 1 THEN 0 ELSE b - 1 - a + 1
    BY FS_Interval
  <2> QED
    BY <2>1
<1>7. Cardinality(S \cup T) = b - a
  BY <1>3, <1>6
<1>8. Cardinality(S) + Cardinality(T) = b - a
  BY <1>1, <1>4, <1>5, <1>7
<1> QED
  BY <1>8 DEF Spent, S, T

\* Another unit.
LEMMA SpentAppend ==
  ASSUME NEW p \in Seq(Powers), NEW x \in Powers, NEW kind, NEW a \in Nat, NEW b \in Nat, b <= Len(p)
  PROVE  /\ Units(Append(p, x), kind, a, b) = Units(p, kind, a, b)
         /\ Spent(Append(p, x), kind, a, b) = Spent(p, kind, a, b)
<1>1. \A t \in a .. b - 1 : t + 1 \in 1 .. Len(p)
  OBVIOUS
<1>2. \A v \in 1 .. Len(p) : Append(p, x)[v] = p[v]
  OBVIOUS
<1>3. \A t \in a .. b - 1 : Append(p, x)[t + 1] = p[t + 1]
  BY <1>1, <1>2
<1> QED
  BY <1>3 DEF Units, Spent

LEMMA SpentNext ==
  ASSUME NEW p \in Seq(Powers), NEW x \in Powers, NEW kind, NEW a \in Nat, a <= Len(p)
  PROVE  Spent(Append(p, x), kind, a, Len(p) + 1) =
           Spent(p, kind, a, Len(p)) + (IF x = kind THEN 1 ELSE 0)
<1> DEFINE n == Len(p)
           q == Append(p, x)
<1>1. n \in Nat /\ n + 1 \in Nat /\ a <= n /\ n <= n + 1 /\ q[n + 1] = x
  OBVIOUS
<1>2. Spent(q, kind, a, n) = Spent(p, kind, a, n)
  BY SpentAppend
<1>3. n .. (n + 1) - 1 = {n}
  BY <1>1
<1> HIDE DEF n, q
<1>4. Spent(q, kind, a, n + 1) = Spent(q, kind, a, n) + Spent(q, kind, n, n + 1)
  BY <1>1, SpentAdds
<1>5. Units(q, kind, n, n + 1) = IF x = kind THEN {n} ELSE {}
  BY <1>1, <1>3 DEF Units
<1>6. Spent(q, kind, n, n + 1) = IF x = kind THEN 1 ELSE 0
  BY <1>5, FS_Singleton, FS_EmptySet DEF Spent
<1> QED
  BY <1>2, <1>4, <1>6 DEF n, q

\* The last boot by a time is what it says.
LEMMA LastBootFacts ==
  ASSUME NEW bs \in SUBSET Nat, 0 \in bs, NEW t \in Nat
  PROVE  /\ LastBoot(bs, t) \in bs /\ LastBoot(bs, t) \in Nat /\ LastBoot(bs, t) <= t
         /\ \A x \in bs : x <= t => x <= LastBoot(bs, t)
<1> DEFINE T == {x \in bs : x <= t}
           D == {t - x : x \in T}
           R == {ss \in Nat \X Nat : ss[1] < ss[2]}
<1>1. T \in SUBSET Nat /\ 0 \in T /\ \A x \in T : x <= t
  <2>1. 0 <= t
    OBVIOUS
  <2> QED
    BY <2>1
<1>2. D \in SUBSET Nat /\ D # {} /\ (\A x \in T : t - x \in D) /\ (\A m \in D : \E x \in T : m = t - x)
  <2>1. \A x \in T : t - x \in Nat /\ t - x \in D
    BY <1>1
  <2> QED
    BY <1>1, <2>1
<1> HIDE DEF D
<1>4. IsWellFoundedOn(R, Nat)
  BY NatLessThanWellFounded DEF OpToRel
<1> HIDE DEF R
<1>5. PICK m \in D : \A n \in D : ~ (<<n, m>> \in R)
  BY <1>2, <1>4, WFMin
<1>6. \A n \in D : m <= n
  <2>1. \A n \in D : n \in Nat /\ m \in Nat
    BY <1>2
  <2>2. \A n \in D : ~(n < m)
    BY <1>5, <2>1 DEF R
  <2> QED
    BY <2>1, <2>2
<1>7. PICK x \in T : m = t - x
  BY <1>2
<1>8. \A u \in T : x >= u
  BY <1>1, <1>2, <1>6, <1>7
<1>9. Max(T) \in T /\ \A u \in T : Max(T) >= u
  <2> HIDE DEF T
  <2> QED
    BY <1>8 DEF Max
<1>10. LastBoot(bs, t) = Max(T)
  BY DEF LastBoot
<1> HIDE DEF T
<1>11. \A u \in T : LastBoot(bs, t) >= u
  BY <1>9, <1>10
<1>12. LastBoot(bs, t) \in T
  BY <1>9, <1>10
<1> QED
  BY <1>1, <1>11, <1>12 DEF T

LEMMA LastBootIs ==
  ASSUME NEW bs \in SUBSET Nat, 0 \in bs, NEW t \in Nat,
         NEW b \in bs, b <= t, \A x \in bs : x <= t => x <= b
  PROVE  LastBoot(bs, t) = b
<1>1. /\ LastBoot(bs, t) \in bs /\ LastBoot(bs, t) <= t /\ LastBoot(bs, t) \in Nat /\ b \in Nat
      /\ \A x \in bs : x <= t => x <= LastBoot(bs, t)
  BY LastBootFacts
<1> QED
  BY <1>1

LEMMA UpFacts ==
  ASSUME NEW p \in Seq(Powers), NEW bs \in SUBSET Nat, 0 \in bs, NEW t \in Nat, t <= Len(p)
  PROVE  /\ UpAt(p, bs, t) \in Nat /\ UpAt(p, bs, t) <= t
         /\ OnAt(p, bs, t) => t - UpAt(p, bs, t) = LastBoot(bs, t) + Spent(p, "asleep", LastBoot(bs, t), t)
<1> DEFINE b == LastBoot(bs, t)
<1>1. b \in Nat /\ b <= t
  BY LastBootFacts
<1>2. OnAt(p, bs, t) => \A u \in b .. t - 1 : p[u + 1] # "off"
  BY DEF OnAt
<1>3. UpAt(p, bs, t) = Spent(p, "on", b, t)
  BY DEF UpAt
<1> HIDE DEF b
<1>4. Spent(p, "on", b, t) \in Nat /\ Spent(p, "on", b, t) <= t - b /\ Spent(p, "asleep", b, t) \in Nat
  BY <1>1, SpentType
<1>5. OnAt(p, bs, t) => Spent(p, "on", b, t) + Spent(p, "asleep", b, t) = t - b
  BY <1>1, <1>2, OnOrAsleep
<1>6. OnAt(p, bs, t) => t - UpAt(p, bs, t) = b + Spent(p, "asleep", b, t)
  BY <1>1, <1>3, <1>4, <1>5
<1>7. UpAt(p, bs, t) \in Nat /\ UpAt(p, bs, t) <= t
  BY <1>1, <1>3, <1>4
<1> QED
  BY <1>6, <1>7 DEF b

\* A unit more changes nothing of the times gone by.
LEMMA UpAppend ==
  ASSUME NEW p \in Seq(Powers), NEW x \in Powers, NEW bs \in SUBSET Nat, 0 \in bs,
         NEW t \in Nat, t <= Len(p)
  PROVE  /\ UpAt(Append(p, x), bs, t) = UpAt(p, bs, t)
         /\ OnAt(Append(p, x), bs, t) <=> OnAt(p, bs, t)
<1> DEFINE b == LastBoot(bs, t)
<1>1. b \in Nat /\ b <= t
  BY LastBootFacts
<1> HIDE DEF b
<1>2. Spent(Append(p, x), "on", b, t) = Spent(p, "on", b, t)
  BY <1>1, SpentAppend
<1>3. \A u \in b .. t - 1 : Append(p, x)[u + 1] = p[u + 1]
  <2>1. \A u \in b .. t - 1 : u + 1 \in 1 .. Len(p)
    BY <1>1
  <2>2. \A v \in 1 .. Len(p) : Append(p, x)[v] = p[v]
    OBVIOUS
  <2> QED
    BY <2>1, <2>2
<1>4. (\A u \in b .. t - 1 : Append(p, x)[u + 1] # "off") <=> \A u \in b .. t - 1 : p[u + 1] # "off"
  BY <1>3
<1> QED
  BY <1>2, <1>4 DEF UpAt, OnAt, b

LEMMA UpNext ==
  ASSUME NEW p \in Seq(Powers), NEW x \in Powers, NEW bs \in SUBSET (0 .. Len(p)), 0 \in bs
  PROVE  /\ UpAt(Append(p, x), bs, Len(p) + 1) = UpAt(p, bs, Len(p)) + (IF x = "on" THEN 1 ELSE 0)
         /\ OnAt(p, bs, Len(p)) /\ x # "off" => OnAt(Append(p, x), bs, Len(p) + 1)
<1> DEFINE n == Len(p)
           b == LastBoot(bs, n)
           q == Append(p, x)
<1>1. bs \in SUBSET Nat /\ n \in Nat /\ n + 1 \in Nat /\ \A y \in bs : y <= n
  OBVIOUS
<1>2. b \in bs /\ b \in Nat /\ b <= n /\ \A y \in bs : y <= n => y <= b
  <2> HIDE DEF n
  <2> QED
    BY <1>1, LastBootFacts
<1>3. LastBoot(bs, n + 1) = b
  <2> HIDE DEF n, b
  <2>1. b <= n + 1 /\ \A y \in bs : y <= n + 1 => y <= b
    BY <1>1, <1>2
  <2> QED
    BY <1>1, <1>2, <2>1, LastBootIs
<1>4. Spent(q, "on", b, n + 1) = Spent(p, "on", b, n) + (IF x = "on" THEN 1 ELSE 0)
  <2> HIDE DEF b
  <2> QED
    BY <1>2, SpentNext
<1>5. ASSUME \A u \in b .. n - 1 : p[u + 1] # "off", x # "off"
      PROVE  \A u \in b .. (n + 1) - 1 : q[u + 1] # "off"
  <2> HIDE DEF b
  <2> SUFFICES ASSUME NEW u \in b .. (n + 1) - 1 PROVE q[u + 1] # "off"
    OBVIOUS
  <2>1. CASE u = n
    BY <1>5, <2>1
  <2>2. CASE u # n
    <3>1. u \in b .. n - 1 /\ u + 1 \in 1 .. n
      BY <1>1, <1>2, <2>2
    <3>2. \A v \in 1 .. n : q[v] = p[v]
      OBVIOUS
    <3> QED
      BY <1>5, <3>1, <3>2
  <2> QED
    BY <2>1, <2>2
<1> QED
  BY <1>3, <1>4, <1>5 DEF UpAt, OnAt

\* A boot now is of no time before, and uptime is counted from it.
LEMMA UpBoot ==
  ASSUME NEW p, NEW n \in Nat, NEW bs \in SUBSET (0 .. n), 0 \in bs
  PROVE  /\ UpAt(p, bs \cup {n}, n) = 0 /\ OnAt(p, bs \cup {n}, n)
         /\ \A t \in Nat : t < n => /\ UpAt(p, bs \cup {n}, t) = UpAt(p, bs, t)
                                    /\ OnAt(p, bs \cup {n}, t) <=> OnAt(p, bs, t)
<1> DEFINE cs == bs \cup {n}
<1>1. cs \in SUBSET Nat /\ bs \in SUBSET Nat /\ 0 \in cs /\ n \in cs /\ \A x \in cs : x <= n
  OBVIOUS
<1>2. \A x \in cs : x # n => x \in bs
  OBVIOUS
<1>3. \A x \in bs : x \in cs
  OBVIOUS
<1> HIDE DEF cs
<1>4. LastBoot(cs, n) = n
  BY <1>1, LastBootIs
<1>5. UpAt(p, cs, n) = 0 /\ OnAt(p, cs, n)
  <2>1. Spent(p, "on", n, n) = 0
    BY SpentType
  <2>2. n .. n - 1 = {}
    OBVIOUS
  <2> QED
    BY <1>4, <2>1, <2>2 DEF UpAt, OnAt
<1>6. ASSUME NEW t \in Nat, t < n
      PROVE  LastBoot(cs, t) = LastBoot(bs, t)
  <2>1. /\ LastBoot(bs, t) \in bs /\ LastBoot(bs, t) <= t
        /\ \A x \in bs : x <= t => x <= LastBoot(bs, t)
    BY <1>1, LastBootFacts
  <2>2. \A x \in cs : x <= t => x \in bs
    BY <1>2, <1>6
  <2> QED
    BY <1>1, <1>3, <2>1, <2>2, LastBootIs
<1>7. \A t \in Nat : t < n => UpAt(p, cs, t) = UpAt(p, bs, t) /\ (OnAt(p, cs, t) <=> OnAt(p, bs, t))
  BY <1>6 DEF UpAt, OnAt
<1> QED
  BY <1>5, <1>7 DEF cs

\* With no boot between them, two uptimes differ by the time spent on; with one,
\* the later is counted from after the earlier.
LEMMA UpBetween ==
  ASSUME NEW p \in Seq(Powers), NEW bs \in SUBSET Nat, 0 \in bs, NEW a \in Nat, NEW b \in Nat, a <= b,
         b <= Len(p)
  PROVE  /\ BootsOf(bs, a, b) = {} =>
              /\ UpAt(p, bs, b) = UpAt(p, bs, a) + Spent(p, "on", a, b)
              /\ OnAt(p, bs, b) => Spent(p, "on", a, b) + Spent(p, "asleep", a, b) = b - a
         /\ BootsOf(bs, a, b) # {} => a < LastBoot(bs, b)
<1> DEFINE l == LastBoot(bs, a)
<1>1. /\ l \in bs /\ l \in Nat /\ l <= a /\ \A x \in bs : x <= a => x <= l
  BY LastBootFacts
<1> HIDE DEF l
<1>2. ASSUME BootsOf(bs, a, b) = {}
      PROVE  /\ UpAt(p, bs, b) = UpAt(p, bs, a) + Spent(p, "on", a, b)
             /\ OnAt(p, bs, b) => Spent(p, "on", a, b) + Spent(p, "asleep", a, b) = b - a
  <2>1. \A x \in bs : x <= b => x <= a
    <3>1. \A x \in bs : x \in Nat /\ ~(a < x /\ x <= b)
      BY <1>2 DEF BootsOf
    <3> QED
      BY <3>1
  <2>2. LastBoot(bs, b) = l
    <3>1. l <= b /\ \A x \in bs : x <= b => x <= l
      BY <1>1, <2>1
    <3> QED
      BY <1>1, <3>1, LastBootIs
  <2>3. Spent(p, "on", l, b) = Spent(p, "on", l, a) + Spent(p, "on", a, b)
    BY <1>1, SpentAdds
  <2>4. ASSUME OnAt(p, bs, b)
        PROVE  Spent(p, "on", a, b) + Spent(p, "asleep", a, b) = b - a
    <3>1. \A u \in l .. b - 1 : p[u + 1] # "off"
      BY <2>2, <2>4 DEF OnAt
    <3>2. \A u \in a .. b - 1 : u \in l .. b - 1
      BY <1>1
    <3> QED
      BY <3>1, <3>2, OnOrAsleep
  <2> QED
    BY <2>2, <2>3, <2>4 DEF UpAt, l
<1>3. ASSUME BootsOf(bs, a, b) # {}
      PROVE  a < LastBoot(bs, b)
  <2>1. PICK x \in bs : a < x /\ x <= b
    BY <1>3 DEF BootsOf
  <2>2. x \in Nat /\ x <= LastBoot(bs, b) /\ LastBoot(bs, b) \in Nat
    BY <2>1, LastBootFacts
  <2> QED
    BY <2>1, <2>2
<1> QED
  BY <1>2, <1>3

\* The Mac: what it would report, at every moment.
Lived ==
  /\ past \in Seq(Powers) /\ Len(past) = now /\ power \in Powers
  /\ {reach, run, api, overlapped} \subseteq BOOLEAN
  /\ boots \in SUBSET (0 .. now) /\ 0 \in boots
  /\ up = UpAt(past, boots, now)
  /\ power # "off" => OnAt(past, boots, now)

LEMMA LivedKept == ASSUME IInv, Lived, [Next]_vars PROVE Lived'
<1> USE DEF Lived
<1>1. now \in Nat
  BY DEF IInv, Shape
<1>2. CASE Boot
  <2>1. UpAt(past, boots', now) = 0 /\ OnAt(past, boots', now)
    BY <1>1, <1>2, UpBoot DEF Boot
  <2> QED
    BY <1>1, <1>2, <2>1 DEF Boot, Powers
<1>3. CASE Tick
  <2>1. /\ past' = Append(past, power) /\ now' = now + 1 /\ boots' = boots /\ power' = power
        /\ up' = IF power = "on" THEN up + 1 ELSE up
        /\ UNCHANGED <<reach, run, api, overlapped>>
    BY <1>3 DEF Tick
  <2>2. UpAt(past', boots, now') = up' /\ (power # "off" => OnAt(past', boots, now'))
    <3>1. /\ UpAt(Append(past, power), boots, Len(past) + 1) =
               UpAt(past, boots, Len(past)) + (IF power = "on" THEN 1 ELSE 0)
          /\ OnAt(past, boots, Len(past)) /\ power # "off" => OnAt(Append(past, power), boots, Len(past) + 1)
      BY UpNext
    <3>2. UpAt(past, boots, now) \in Nat
      BY <1>1, UpFacts
    <3> QED
      BY <2>1, <3>1, <3>2
  <2>3. past' \in Seq(Powers) /\ Len(past') = now'
    BY <2>1
  <2>4. boots \in SUBSET (0 .. now')
    BY <1>1, <2>1
  <2> QED
    BY <2>1, <2>2, <2>3, <2>4
<1>4. CASE UNCHANGED <<now, up, past, boots>> /\ (power = "off" => power' = "off") /\ power' \in Powers
           /\ {reach', run', api', overlapped'} \subseteq BOOLEAN
  BY <1>4
<1>5. UNCHANGED <<now, up, past, boots, power>> /\ {reach', run', api', overlapped'} \subseteq BOOLEAN => Lived'
  BY <1>4
<1> QED
  BY <1>2, <1>3, <1>4, <1>5 DEF Next, vars, mac, job, hist, PowerOff, SleepOrWake, Network, Trouble, StopAgent, StartAgent,
     Deliver, SyncRecord, SyncUpdate, Away, Sweep, Judge, OpenInterval, WriteDevice, Finish, Crash, Recover, Powers

Busy == \E h \in 1 .. InFlight : handlers[h] # NoCall

\* What the device row says is what the Mac reported at its last check-in,
Seen ==
  /\ synced \in SUBSET (0 .. now)
  /\ row.seen = Never => synced = {} /\ row.up = Never /\ row.boot = Never
  /\ row.seen # Never => /\ row.seen \in synced /\ \A t \in synced : t <= row.seen
                         /\ row.up = UpAt(past, boots, row.seen) /\ row.boot = row.seen - row.up
                         /\ OnAt(past, boots, row.seen)

\* and a check-in that is being handled is of this unit.
Reporting ==
  Busy => /\ power = "on"
          /\ \A h \in 1 .. InFlight : handlers[h] # NoCall =>
               handlers[h].up = up /\ handlers[h].boot = now - up

Known == IInv /\ Lived /\ Seen /\ Reporting

\* The Mac does not change while a check-in is handled, nor in the unit of the last.
LEMMA EarlyFacts ==
  ASSUME Shape, Early
  PROVE  ~Busy /\ row.seen < now /\ ~swept
BY DEF Shape, Early, Busy

LEMMA BusyFacts ==
  ASSUME Shape, NEW h \in DOMAIN handlers
  PROVE  /\ h \in 1 .. InFlight
         /\ SyncRecord(h) => Busy' /\ handlers'[h] = Call /\ \A g \in 1 .. InFlight : g # h => handlers'[g] = handlers[g]
         /\ SyncUpdate(h) => \A g \in 1 .. InFlight : handlers'[g] \in {handlers[g], NoCall}
<1>1. h \in 1 .. InFlight /\ DOMAIN handlers = 1 .. InFlight
  BY DEF Shape
<1>2. Call # NoCall
  <2>1. "boot" \in DOMAIN Call /\ "boot" \notin DOMAIN NoCall
    BY DEF Call, NoCall
  <2> QED
    BY <2>1
<1>3. ASSUME SyncRecord(h)
      PROVE  Busy' /\ handlers'[h] = Call /\ \A g \in 1 .. InFlight : g # h => handlers'[g] = handlers[g]
  <2>1. handlers' = [handlers EXCEPT ![h] = Call]
    BY <1>3 DEF SyncRecord
  <2>2. handlers'[h] = Call /\ \A g \in 1 .. InFlight : g # h => handlers'[g] = handlers[g]
    BY <1>1, <2>1
  <2>3. NoCall' = NoCall
    BY DEF NoCall
  <2>4. handlers'[h] # NoCall'
    BY <1>2, <2>2, <2>3
  <2> QED
    BY <1>1, <2>2, <2>4 DEF Busy
<1>4. ASSUME SyncUpdate(h)
      PROVE  \A g \in 1 .. InFlight : handlers'[g] \in {handlers[g], NoCall}
  <2>1. handlers' = [handlers EXCEPT ![h] = NoCall]
    BY <1>4 DEF SyncUpdate
  <2> QED
    BY <1>1, <2>1
<1> QED
  BY <1>1, <1>3, <1>4

LEMMA SeenFrame ==
  ASSUME Seen, UNCHANGED synced, row'.seen = row.seen, row'.up = row.up, row'.boot = row.boot,
         synced \in SUBSET (0 .. now'),
         row.seen # Never => /\ UpAt(past', boots', row.seen) = UpAt(past, boots, row.seen)
                             /\ OnAt(past', boots', row.seen) <=> OnAt(past, boots, row.seen)
  PROVE  Seen'
<1>1. synced' = synced /\ Never' = Never
  BY DEF Never
<1> QED
  BY <1>1 DEF Seen

LEMMA SeenKept == ASSUME Known, [Next]_vars PROVE Seen'
<1>1. IInv /\ Lived /\ Seen /\ Reporting /\ Shape
  BY DEF Known, IInv
<1>2. now \in Nat /\ row \in Row /\ row.seen \in Moment
  BY <1>1 DEF Shape, Row
<1>3. Seen => synced \in SUBSET (0 .. now)
  BY DEF Seen
<1>4. CASE Boot
  <2>1. row.seen < now /\ UNCHANGED <<now, past, row, synced>> /\ boots' = boots \cup {now}
    BY <1>1, <1>4, EarlyFacts DEF Boot
  <2>2. row.seen # Never => row.seen \in Nat
    BY <1>2 DEF Moment
  <2>3. row.seen # Never => /\ UpAt(past', boots', row.seen) = UpAt(past, boots, row.seen)
                            /\ OnAt(past', boots', row.seen) <=> OnAt(past, boots, row.seen)
    BY <1>1, <1>2, <2>1, <2>2, UpBoot DEF Lived
  <2> QED
    BY <1>1, <1>3, <2>1, <2>3, SeenFrame
<1>5. CASE \E h \in DOMAIN handlers : SyncUpdate(h)
  <2>1. PICK h \in DOMAIN handlers : SyncUpdate(h)
    BY <1>5
  <2>2. /\ handlers[h] # NoCall /\ synced' = synced \cup {now}
        /\ row' = [row EXCEPT !.seen = now, !.up = handlers[h].up, !.boot = handlers[h].boot,
                              !.bad = handlers[h].bad]
        /\ UNCHANGED <<now, past, boots>>
    BY <2>1 DEF SyncUpdate
  <2>3. h \in 1 .. InFlight /\ Busy
    BY <1>1, <2>2 DEF Shape, Busy
  <2>4. handlers[h].up = up /\ handlers[h].boot = now - up /\ power = "on"
    BY <1>1, <2>2, <2>3 DEF Reporting
  <2>5. row'.seen = now /\ row'.up = up /\ row'.boot = now - up
    BY <1>2, <2>2, <2>4 DEF Row
  <2>6. up = UpAt(past, boots, now) /\ OnAt(past, boots, now)
    BY <1>1, <2>4 DEF Lived
  <2>7. synced' \in SUBSET (0 .. now) /\ now \in synced' /\ (\A t \in synced' : t <= now) /\ now # Never
    BY <1>1, <1>2, <1>3, <2>2 DEF Never
  <2>8. Never' = Never
    BY DEF Never
  <2> QED
    BY <2>2, <2>5, <2>6, <2>7, <2>8 DEF Seen
<1>6. CASE Tick
  <2>1. past' = Append(past, power) /\ now' = now + 1 /\ UNCHANGED <<boots, row, synced>>
    BY <1>6 DEF Tick
  <2>2. row.seen # Never => row.seen \in Nat /\ row.seen <= now
    BY <1>1, <1>2, <1>3 DEF Moment, Seen
  <2>3. /\ past \in Seq(Powers) /\ power \in Powers /\ boots \in SUBSET Nat /\ 0 \in boots /\ Len(past) = now
    BY <1>1 DEF Lived
  <2>4. row.seen # Never => /\ UpAt(past', boots', row.seen) = UpAt(past, boots, row.seen)
                            /\ OnAt(past', boots', row.seen) <=> OnAt(past, boots, row.seen)
    BY <2>1, <2>2, <2>3, UpAppend
  <2>5. synced \in SUBSET (0 .. now')
    BY <1>1, <1>2, <1>3, <2>1
  <2> QED
    BY <1>1, <2>1, <2>4, <2>5, SeenFrame
<1>7. CASE /\ UNCHANGED <<now, past, boots, synced>>
           /\ row'.seen = row.seen /\ row'.up = row.up /\ row'.boot = row.boot
  BY <1>1, <1>3, <1>7, SeenFrame
<1>8. CASE UNCHANGED <<now, past, boots, synced, row>>
  BY <1>7, <1>8
<1>9. CASE (\E d \in AwayFor : Away(d)) \/ WriteDevice
  <2>1. UNCHANGED <<now, past, boots, synced>>
    BY <1>9 DEF Away, WriteDevice
  <2>2. row'.seen = row.seen /\ row'.up = row.up /\ row'.boot = row.boot
    BY <1>2, <1>9 DEF Away, WriteDevice, Row
  <2> QED
    BY <1>7, <2>1, <2>2
<1> QED
  BY <1>4, <1>5, <1>6, <1>8, <1>9 DEF Next, vars, mac, job, hist, PowerOff, SleepOrWake, Network, Trouble, StopAgent,
     StartAgent, Deliver, SyncRecord, Sweep, Judge, OpenInterval, Finish, Crash, Recover

LEMMA ReportingKept == ASSUME Known, [Next]_vars PROVE Reporting'
<1>1. IInv /\ Lived /\ Seen /\ Reporting /\ Shape
  BY DEF Known, IInv
<1>2. NoCall' = NoCall
  BY DEF NoCall
<1>3. CASE ~Busy'
  BY <1>3 DEF Reporting
<1>4. CASE ~Busy /\ UNCHANGED handlers
  <2>1. ~Busy'
    BY <1>2, <1>4 DEF Busy
  <2> QED
    BY <1>3, <2>1
<1>5. CASE UNCHANGED <<handlers, power, up, now>>
  BY <1>1, <1>2, <1>5 DEF Reporting, Busy
<1>6. CASE Boot \/ PowerOff \/ SleepOrWake
  <2>1. ~Busy /\ UNCHANGED handlers
    BY <1>1, <1>6, EarlyFacts DEF Boot, PowerOff, SleepOrWake
  <2> QED
    BY <1>4, <2>1
<1>7. CASE Tick
  <2>1. ~Busy /\ UNCHANGED handlers
    BY <1>1, <1>7 DEF Tick, Busy, Shape
  <2> QED
    BY <1>4, <2>1
<1>8. CASE Crash
  <2>1. ~Busy'
    BY <1>1, <1>2, <1>8 DEF Crash, Busy, Shape
  <2> QED
    BY <1>3, <2>1
<1>9. ASSUME NEW h \in DOMAIN handlers, SyncRecord(h)
      PROVE  Reporting'
  <2>1. /\ h \in 1 .. InFlight /\ handlers'[h] = Call
        /\ \A g \in 1 .. InFlight : g # h => handlers'[g] = handlers[g]
    BY <1>1, <1>9, BusyFacts
  <2>2. power = "on" /\ UNCHANGED <<now, power, up>>
    BY <1>9 DEF SyncRecord, mac
  <2>3. Call.up = up /\ Call.boot = now - up
    BY DEF Call
  <2>4. ASSUME NEW g \in 1 .. InFlight, handlers'[g] # NoCall
        PROVE  handlers'[g].up = up /\ handlers'[g].boot = now - up
    <3>1. CASE g = h
      BY <2>1, <2>3, <3>1
    <3>2. CASE g # h
      BY <1>1, <2>1, <2>4, <3>2 DEF Reporting, Busy
    <3> QED
      BY <3>1, <3>2
  <2> QED
    BY <1>2, <2>2, <2>4 DEF Reporting
<1>10. ASSUME NEW h \in DOMAIN handlers, SyncUpdate(h)
       PROVE  Reporting'
  <2>1. \A g \in 1 .. InFlight : handlers'[g] \in {handlers[g], NoCall}
    BY <1>1, <1>10, BusyFacts
  <2>2. UNCHANGED <<now, power, up>>
    BY <1>10 DEF SyncUpdate, mac
  <2>3. \A g \in 1 .. InFlight : handlers'[g] # NoCall => handlers'[g] = handlers[g]
    BY <2>1
  <2>4. Busy' => Busy
    BY <1>2, <2>3 DEF Busy
  <2> QED
    BY <1>1, <1>2, <2>2, <2>3, <2>4 DEF Reporting
<1> QED
  BY <1>5, <1>6, <1>7, <1>8, <1>9, <1>10 DEF Next, vars, mac, job, hist, Network, Trouble, StopAgent,
     StartAgent, Deliver, Away, Sweep, Judge, OpenInterval, WriteDevice, Finish, Recover

LEMMA StepKnown == ASSUME Known, [Next]_vars PROVE Known'
<1>1. IInv' /\ Lived'
  BY StepIInv, LivedKept DEF Known
<1> QED
  BY <1>1, SeenKept, ReportingKept DEF Known

Kinds == {"power_on", "asleep", "unreported"}
Entry == [kind : Kinds, at : Nat, to : Nat, gap : Nat]

\* A row of the log is true of the Mac.
Honest(r, n, p, bs) ==
  /\ r.at + r.gap <= n /\ r.to \in r.at .. r.at + r.gap
  /\ r.kind = "power_on" => \E b \in bs \ {0} : r.at - Spent(p, "asleep", b, n) <= b /\ b <= r.at
  /\ r.kind # "power_on" /\ BootsOf(bs, r.at, r.at + r.gap) = {} =>
       IF r.kind = "asleep" THEN Spent(p, "asleep", r.at, r.at + r.gap) = r.to - r.at
       ELSE Spent(p, "asleep", r.at, r.at + r.gap) < AsleepMin

\* Between a check-in at a and the next at b nothing is left out.
Tells(a, b, p, bs, rows) ==
  IF BootsOf(bs, a, b) = {}
  THEN b - a >= GapMin => \E r \in rows : r.kind # "power_on" /\ r.at = a /\ a + r.gap = b
  ELSE UpAt(p, bs, b) < UpAt(p, bs, a) => \E r \in rows : r.kind = "power_on" /\ r.at = b - UpAt(p, bs, b)

AllHonest == \A r \in DOMAIN logged : Honest(r, now, past, boots)
AllTold == \A a, b \in synced : Following(a, b) => Tells(a, b, past, boots, DOMAIN logged)
BusyTells == Busy /\ row.seen # Never /\ row.seen < now => Tells(row.seen, now, past, boots, DOMAIN logged)
Once == ~overlapped => \A r \in DOMAIN logged : logged[r] = 1
Older == ~overlapped /\ ~Busy => \A r \in DOMAIN logged : r.at + r.gap <= row.seen

Booked == DOMAIN logged \in SUBSET Entry /\ AllHonest /\ AllTold /\ BusyTells /\ Once /\ Older

LEMMA BagFacts ==
  ASSUME NEW B, NEW S
  PROVE  LET C == B (+) SetToBag(S)
         IN  /\ DOMAIN C = DOMAIN B \cup S
             /\ S \cap DOMAIN B = {} /\ (\A r \in DOMAIN B : B[r] = 1) => \A r \in DOMAIN C : C[r] = 1
<1> DEFINE C == B (+) SetToBag(S)
<1>1. DOMAIN SetToBag(S) = S /\ \A r \in S : SetToBag(S)[r] = 1
  BY DEF SetToBag
<1>2. C = [e \in (DOMAIN B) \cup (DOMAIN SetToBag(S)) |->
             (IF e \in DOMAIN B THEN B[e] ELSE 0)
               + (IF e \in DOMAIN SetToBag(S) THEN SetToBag(S)[e] ELSE 0)]
  BY DEF (+)
<1>3. DOMAIN C = DOMAIN B \cup S
  BY <1>1, <1>2
<1>4. ASSUME S \cap DOMAIN B = {}, \A r \in DOMAIN B : B[r] = 1, NEW r \in DOMAIN C
      PROVE  C[r] = 1
  <2>1. CASE r \in S
    BY <1>1, <1>2, <1>4, <2>1
  <2>2. CASE r \notin S
    BY <1>1, <1>2, <1>3, <1>4, <2>2
  <2> QED
    BY <2>1, <2>2
<1> QED
  BY <1>3, <1>4

LEMMA MaxZero ==
  ASSUME NEW x \in Int
  PROVE  Max({0, x}) = IF x > 0 THEN x ELSE 0
<1>1. CASE x > 0
  <2>1. \E m \in {0, x} : \A y \in {0, x} : m >= y
    BY <1>1
  <2>2. Max({0, x}) \in {0, x} /\ \A y \in {0, x} : Max({0, x}) >= y
    BY <2>1 DEF Max
  <2> QED
    BY <1>1, <2>2
<1>2. CASE ~(x > 0)
  <2>1. \E m \in {0, x} : \A y \in {0, x} : m >= y
    BY <1>2
  <2>2. Max({0, x}) \in {0, x} /\ \A y \in {0, x} : Max({0, x}) >= y
    BY <2>1 DEF Max
  <2> QED
    BY <1>2, <2>2
<1> QED
  BY <1>1, <1>2

\* What is known when the Mac reports now.
LEMMA CallFacts ==
  ASSUME Known, power = "on", row.seen < now
  PROVE  /\ now \in Nat /\ up \in Nat /\ up <= now /\ Call.up = up /\ Call.boot = now - up
         /\ Call.wasUp = row.up /\ Call.wasSeen = row.seen
         /\ row.seen = Never => row.up = Never
         /\ row.seen # Never =>
              /\ row.seen \in Nat /\ row.up \in Nat /\ row.up # Never
              /\ row.up = UpAt(past, boots, row.seen) /\ up = UpAt(past, boots, now)
              /\ BootsOf(boots, row.seen, now) = {} =>
                   /\ up = row.up + Spent(past, "on", row.seen, now)
                   /\ Spent(past, "on", row.seen, now) + Spent(past, "asleep", row.seen, now) = now - row.seen
              /\ BootsOf(boots, row.seen, now) # {} => row.seen < LastBoot(boots, now)
         /\ LastBoot(boots, now) \in boots /\ LastBoot(boots, now) \in Nat
         /\ now - up = LastBoot(boots, now) + Spent(past, "asleep", LastBoot(boots, now), now)
<1>1. Shape /\ Lived /\ Seen
  BY DEF Known, IInv
<1>2. /\ past \in Seq(Powers) /\ boots \in SUBSET Nat /\ 0 \in boots /\ now \in Nat /\ now <= Len(past)
      /\ up = UpAt(past, boots, now) /\ OnAt(past, boots, now) /\ Len(past) = now
  BY <1>1 DEF Lived, Shape
<1>3. /\ up \in Nat /\ up <= now
      /\ now - up = LastBoot(boots, now) + Spent(past, "asleep", LastBoot(boots, now), now)
  BY <1>2, UpFacts
<1>4. LastBoot(boots, now) \in boots /\ LastBoot(boots, now) \in Nat
  BY <1>2, LastBootFacts
<1>5. ASSUME row.seen # Never
      PROVE  /\ row.seen \in Nat /\ row.up \in Nat /\ row.up # Never
             /\ row.up = UpAt(past, boots, row.seen)
             /\ BootsOf(boots, row.seen, now) = {} =>
                   /\ up = row.up + Spent(past, "on", row.seen, now)
                   /\ Spent(past, "on", row.seen, now) + Spent(past, "asleep", row.seen, now) = now - row.seen
             /\ BootsOf(boots, row.seen, now) # {} => row.seen < LastBoot(boots, now)
  <2>1. row.seen \in synced /\ row.up = UpAt(past, boots, row.seen) /\ row.seen \in Nat
    BY <1>1, <1>5 DEF Seen, Shape, Row, Moment
  <2>2. row.up \in Nat /\ row.up # Never
    <3>1. row.seen <= Len(past)
      BY <1>2, <2>1
    <3>2. UpAt(past, boots, row.seen) \in Nat
      BY <1>2, <2>1, <3>1, UpFacts
    <3> QED
      BY <2>1, <3>2 DEF Never
  <2>3. row.seen <= now
    BY <1>2, <2>1
  <2>4. /\ BootsOf(boots, row.seen, now) = {} =>
             /\ UpAt(past, boots, now) = UpAt(past, boots, row.seen) + Spent(past, "on", row.seen, now)
             /\ Spent(past, "on", row.seen, now) + Spent(past, "asleep", row.seen, now) = now - row.seen
        /\ BootsOf(boots, row.seen, now) # {} => row.seen < LastBoot(boots, now)
    BY <1>2, <2>1, <2>3, UpBetween
  <2> QED
    BY <1>2, <2>1, <2>2, <2>4
<1>6. row.seen = Never => row.up = Never
  BY <1>1 DEF Seen
<1> QED
  BY <1>2, <1>3, <1>4, <1>5, <1>6 DEF Call

LEMMA PowerOnFacts ==
  ASSUME Known, power = "on", row.seen < now
  PROVE  /\ \A r \in PowerOn(Call) : /\ r \in Entry /\ Honest(r, now, past, boots) /\ row.seen < r.at
         /\ row.seen # Never /\ up < row.up => \E r \in PowerOn(Call) : r.kind = "power_on" /\ r.at = now - up
<1> DEFINE x == [kind |-> "power_on", at |-> Call.boot, to |-> Call.boot, gap |-> 0]
           b == LastBoot(boots, now)
<1>1. /\ now \in Nat /\ up \in Nat /\ up <= now /\ Call.boot = now - up
      /\ Call.up = up /\ Call.wasUp = row.up
      /\ row.seen = Never => row.up = Never
      /\ b \in boots /\ b \in Nat /\ now - up = b + Spent(past, "asleep", b, now)
  BY CallFacts
<1>2. row.seen # Never =>
        /\ row.seen \in Nat /\ row.up \in Nat /\ row.up # Never
        /\ BootsOf(boots, row.seen, now) = {} => up = row.up + Spent(past, "on", row.seen, now)
        /\ BootsOf(boots, row.seen, now) # {} => row.seen < b
  BY CallFacts
<1>3. Spent(past, "asleep", b, now) \in Nat /\ (row.seen \in Nat => Spent(past, "on", row.seen, now) \in Nat)
  BY <1>1, SpentType
<1>4. PowerOn(Call) = IF row.up # Never /\ up < row.up THEN {x} ELSE {}
  BY <1>1 DEF PowerOn, Rebooted
<1>5. x \in Entry /\ x.at = now - up /\ x.gap = 0 /\ x.to = x.at /\ x.kind = "power_on"
  BY <1>1 DEF Entry, Kinds
<1> HIDE DEF x, b
<1>6. ASSUME row.up # Never, up < row.up
      PROVE  row.seen < b /\ b # 0
  <2>1. row.seen # Never
    BY <1>1, <1>6
  <2>2. BootsOf(boots, row.seen, now) # {}
    BY <1>1, <1>2, <1>3, <1>6, <2>1
  <2> QED
    BY <1>1, <1>2, <2>1, <2>2
<1>7. row.up # Never /\ up < row.up => Honest(x, now, past, boots) /\ row.seen < x.at
  <2> SUFFICES ASSUME row.up # Never, up < row.up PROVE Honest(x, now, past, boots) /\ row.seen < x.at
    OBVIOUS
  <2>1. row.seen < b /\ b # 0 /\ row.seen \in Nat
    BY <1>1, <1>2, <1>6
  <2>2. x.at = b + Spent(past, "asleep", b, now) /\ x.at \in Nat /\ x.at <= now
    BY <1>1, <1>5
  <2>3. x.at - Spent(past, "asleep", b, now) <= b /\ b <= x.at /\ row.seen < x.at
    BY <1>1, <1>3, <2>1, <2>2
  <2>4. b \in boots \ {0}
    BY <1>1, <2>1
  <2>5. x.at + x.gap <= now /\ x.to \in x.at .. x.at + x.gap
    BY <1>5, <2>2
  <2> QED
    BY <1>5, <2>3, <2>4, <2>5 DEF Honest
<1> QED
  BY <1>2, <1>4, <1>5, <1>7

LEMMA GapFacts ==
  ASSUME Known, power = "on", row.seen < now
  PROVE  /\ \A r \in Gap(Call) : /\ r \in Entry /\ Honest(r, now, past, boots)
                                 /\ row.seen < r.at + r.gap /\ r.kind # "power_on"
         /\ row.seen # Never /\ BootsOf(boots, row.seen, now) = {} /\ now - row.seen >= GapMin =>
              \E r \in Gap(Call) : r.kind # "power_on" /\ r.at = row.seen /\ row.seen + r.gap = now
<1> DEFINE wall == now - row.seen
           slept == Max({0, wall - Max({0, up - row.up})})
           kind == IF slept >= AsleepMin THEN "asleep" ELSE "unreported"
           to == row.seen + (IF slept >= AsleepMin THEN slept ELSE wall)
           x == [kind |-> kind, at |-> row.seen, to |-> to, gap |-> wall]
<1>1. /\ now \in Nat /\ up \in Nat /\ Call.up = up /\ Call.wasUp = row.up /\ Call.wasSeen = row.seen
      /\ row.seen = Never => row.up = Never
  BY CallFacts
<1>2. row.seen # Never =>
        /\ row.seen \in Nat /\ row.up \in Nat /\ row.up # Never
        /\ BootsOf(boots, row.seen, now) = {} =>
             /\ up = row.up + Spent(past, "on", row.seen, now)
             /\ Spent(past, "on", row.seen, now) + Spent(past, "asleep", row.seen, now) = now - row.seen
  BY CallFacts
<1>3. GapMin \in Nat \ {0} /\ AsleepMin \in Nat \ {0}
  BY HealthAssumption
<1>4. Gap(Call) = IF row.up = Never \/ row.seen = Never \/ (row.up # Never /\ up < row.up) \/ wall < GapMin
                  THEN {} ELSE {x}
  BY <1>1 DEF Gap, Rebooted
<1>5. ASSUME row.seen # Never
      PROVE  /\ wall \in Nat /\ wall > 0 /\ slept \in Nat /\ slept <= wall
             /\ BootsOf(boots, row.seen, now) = {} => slept = Spent(past, "asleep", row.seen, now) /\ ~(up < row.up)
  <2>1. row.seen \in Nat /\ row.up \in Nat /\ wall \in Nat /\ wall > 0
    BY <1>1, <1>2, <1>5
  <2>2. Max({0, up - row.up}) = IF up - row.up > 0 THEN up - row.up ELSE 0
    BY <1>1, <2>1, MaxZero
  <2>3. Max({0, up - row.up}) \in Nat
    BY <1>1, <2>1, <2>2
  <2>4. slept = IF wall - Max({0, up - row.up}) > 0 THEN wall - Max({0, up - row.up}) ELSE 0
    BY <2>1, <2>3, MaxZero
  <2>5. Spent(past, "on", row.seen, now) \in Nat /\ Spent(past, "asleep", row.seen, now) \in Nat
    BY <1>1, <2>1, SpentType
  <2>6. slept \in Nat /\ slept <= wall
    BY <2>1, <2>3, <2>4
  <2>7. ASSUME BootsOf(boots, row.seen, now) = {}
        PROVE  slept = Spent(past, "asleep", row.seen, now) /\ ~(up < row.up)
    <3>1. up = row.up + Spent(past, "on", row.seen, now)
      BY <1>2, <1>5, <2>7
    <3>2. Spent(past, "on", row.seen, now) + Spent(past, "asleep", row.seen, now) = wall
      BY <1>2, <1>5, <2>7
    <3>3. Max({0, up - row.up}) = Spent(past, "on", row.seen, now)
      BY <2>1, <2>2, <2>5, <3>1
    <3> HIDE DEF slept, wall
    <3> QED
      BY <1>1, <2>1, <2>4, <2>5, <3>1, <3>2, <3>3
  <2> QED
    BY <2>1, <2>6, <2>7
<1>6. /\ x.kind = kind /\ x.at = row.seen /\ x.to = to /\ x.gap = wall /\ kind \in {"asleep", "unreported"}
  OBVIOUS
<1>7. ASSUME row.seen # Never
      PROVE  /\ x \in Entry /\ row.seen + wall = now /\ Honest(x, now, past, boots)
             /\ row.seen < x.at + x.gap /\ x.kind # "power_on"
  <2>1. /\ wall \in Nat /\ wall > 0 /\ slept \in Nat /\ slept <= wall /\ row.seen \in Nat
        /\ BootsOf(boots, row.seen, now) = {} => slept = Spent(past, "asleep", row.seen, now)
    BY <1>2, <1>5, <1>7
  <2>2. row.seen + wall = now
    BY <1>1, <2>1
  <2> HIDE DEF wall, slept
  <2>3. to \in Nat /\ to \in row.seen .. row.seen + wall /\ (kind = "asleep" => to = row.seen + slept)
        /\ (kind # "asleep" => slept < AsleepMin)
    BY <1>3, <2>1
  <2> HIDE DEF to, kind
  <2>4. x \in Entry
    BY <1>6, <2>1, <2>3 DEF Entry, Kinds
  <2> HIDE DEF x
  <2>5. x.at + x.gap = now /\ x.kind # "power_on" /\ row.seen < x.at + x.gap
    BY <1>1, <1>6, <2>1, <2>2
  <2>6. BootsOf(boots, row.seen, now) = {} =>
          IF kind = "asleep" THEN Spent(past, "asleep", row.seen, now) = to - row.seen
          ELSE Spent(past, "asleep", row.seen, now) < AsleepMin
    BY <2>1, <2>3
  <2>7. Honest(x, now, past, boots)
    BY <1>1, <1>6, <2>2, <2>3, <2>5, <2>6 DEF Honest
  <2> QED
    BY <2>2, <2>4, <2>5, <2>7
<1>8. ASSUME row.seen # Never, BootsOf(boots, row.seen, now) = {}, now - row.seen >= GapMin
      PROVE  Gap(Call) = {x}
  <2>1. ~(up < row.up) /\ row.up # Never
    BY <1>2, <1>5, <1>8
  <2>2. ~(wall < GapMin)
    BY <1>2, <1>3, <1>1, <1>8
  <2> HIDE DEF x, wall
  <2> QED
    BY <1>4, <1>8, <2>1, <2>2
<1> HIDE DEF x, wall
<1>9. \A r \in Gap(Call) : r = x /\ row.seen # Never
  BY <1>4
<1> QED
  BY <1>6, <1>7, <1>8, <1>9

\* What is true of the Mac stays true when it boots and as time passes.
LEMMA HonestGrows ==
  ASSUME NEW p \in Seq(Powers), NEW x \in Powers, NEW bs \in SUBSET (0 .. Len(p)), NEW r \in Entry,
         Honest(r, Len(p), p, bs)
  PROVE  /\ Honest(r, Len(p), p, bs \cup {Len(p)})
         /\ Honest(r, Len(p) + 1, Append(p, x), bs)
<1> DEFINE n == Len(p)
           q == Append(p, x)
           cs == bs \cup {n}
<1>1. n \in Nat /\ n + 1 \in Nat /\ n <= n + 1 /\ r.at \in Nat /\ r.gap \in Nat /\ r.to \in Nat
  BY DEF Entry
<1>2. /\ r.at + r.gap <= n /\ r.to \in r.at .. r.at + r.gap
      /\ r.kind = "power_on" => \E b \in bs \ {0} : r.at - Spent(p, "asleep", b, n) <= b /\ b <= r.at
      /\ r.kind # "power_on" /\ BootsOf(bs, r.at, r.at + r.gap) = {} =>
           IF r.kind = "asleep" THEN Spent(p, "asleep", r.at, r.at + r.gap) = r.to - r.at
           ELSE Spent(p, "asleep", r.at, r.at + r.gap) < AsleepMin
  BY DEF Honest
<1>3. BootsOf(cs, r.at, r.at + r.gap) = {} => BootsOf(bs, r.at, r.at + r.gap) = {}
  BY DEF BootsOf
<1>4. Honest(r, n, p, cs)
  <2>1. \A b \in bs \ {0} : b \in cs \ {0}
    OBVIOUS
  <2> HIDE DEF cs, n
  <2> QED
    BY <1>2, <1>3, <2>1 DEF Honest
<1>5. Spent(q, "asleep", r.at, r.at + r.gap) = Spent(p, "asleep", r.at, r.at + r.gap)
  <2>1. r.at + r.gap \in Nat
    BY <1>1
  <2> QED
    BY <1>1, <1>2, <2>1, SpentAppend
<1>6. \A b \in bs \ {0} : Spent(q, "asleep", b, n + 1) >= Spent(p, "asleep", b, n)
  <2> SUFFICES ASSUME NEW b \in bs PROVE Spent(q, "asleep", b, n + 1) >= Spent(p, "asleep", b, n)
    OBVIOUS
  <2>1. b \in Nat /\ b <= n
    OBVIOUS
  <2>2. Spent(q, "asleep", b, n + 1) = Spent(p, "asleep", b, n) + (IF x = "asleep" THEN 1 ELSE 0)
    BY <2>1, SpentNext
  <2>3. Spent(p, "asleep", b, n) \in Nat
    BY <2>1, SpentType
  <2> QED
    BY <2>2, <2>3
<1>7. \A b \in bs \ {0} : /\ b \in Nat /\ Spent(p, "asleep", b, n) \in Nat
                          /\ Spent(q, "asleep", b, n + 1) \in Nat
  <2>1. \A b \in bs : b \in Nat
    OBVIOUS
  <2> QED
    BY <1>1, <2>1, SpentType
<1> HIDE DEF n, q, cs
<1>8. r.kind = "power_on" => \E b \in bs \ {0} : r.at - Spent(q, "asleep", b, n + 1) <= b /\ b <= r.at
  BY <1>1, <1>2, <1>6, <1>7
<1>9. r.at + r.gap <= n + 1
  BY <1>1, <1>2
<1>10. Honest(r, n + 1, q, bs)
  BY <1>2, <1>5, <1>8, <1>9 DEF Honest
<1> QED
  BY <1>4, <1>10 DEF n, q, cs

LEMMA TellsGrows ==
  ASSUME NEW p \in Seq(Powers), NEW x \in Powers, NEW bs \in SUBSET (0 .. Len(p)), 0 \in bs, NEW rows,
         NEW a \in Nat, NEW b \in Nat, a <= b, b <= Len(p), Tells(a, b, p, bs, rows)
  PROVE  /\ b < Len(p) => Tells(a, b, p, bs \cup {Len(p)}, rows)
         /\ Tells(a, b, Append(p, x), bs, rows)
<1> DEFINE n == Len(p)
<1>1. n \in Nat /\ bs \in SUBSET Nat
  OBVIOUS
<1>2. ASSUME b < n
      PROVE  Tells(a, b, p, bs \cup {n}, rows)
  <2>1. a < n
    BY <1>1, <1>2
  <2>2. UpAt(p, bs \cup {n}, b) = UpAt(p, bs, b) /\ UpAt(p, bs \cup {n}, a) = UpAt(p, bs, a)
    BY <1>1, <1>2, <2>1, UpBoot
  <2>3. BootsOf(bs \cup {n}, a, b) = BootsOf(bs, a, b)
    BY <1>1, <1>2 DEF BootsOf
  <2> QED
    BY <2>2, <2>3 DEF Tells
<1>3. Tells(a, b, Append(p, x), bs, rows)
  <2>1. a <= Len(p)
    BY <1>1
  <2>2. UpAt(Append(p, x), bs, b) = UpAt(p, bs, b)
    BY <1>1, UpAppend
  <2>3. UpAt(Append(p, x), bs, a) = UpAt(p, bs, a)
    BY <1>1, <2>1, UpAppend
  <2> QED
    BY <2>2, <2>3 DEF Tells
<1> QED
  BY <1>2, <1>3

LEMMA TellsMore ==
  ASSUME NEW a, NEW b, NEW p, NEW bs, NEW rows, NEW more, rows \subseteq more, Tells(a, b, p, bs, rows)
  PROVE  Tells(a, b, p, bs, more)
<1>1. CASE BootsOf(bs, a, b) = {}
  BY <1>1 DEF Tells
<1>2. CASE BootsOf(bs, a, b) # {}
  BY <1>2 DEF Tells
<1> QED
  BY <1>1, <1>2

LEMMA SyncedFacts ==
  ASSUME Known, NEW t \in synced
  PROVE  t \in Nat /\ t <= now /\ row.seen \in Nat /\ t <= row.seen /\ row.seen <= now
<1>1. Shape /\ Seen
  BY DEF Known, IInv
<1>2. now \in Nat /\ row.seen \in Moment
  BY <1>1 DEF Shape, Row
<1>3. t \in 0 .. now /\ row.seen # Never
  BY <1>1 DEF Seen
<1>4. row.seen \in 0 .. now /\ t <= row.seen
  BY <1>1, <1>3 DEF Seen
<1> QED
  BY <1>2, <1>3, <1>4

LEMMA BookedFrame ==
  ASSUME Booked, UNCHANGED <<logged, now, past, boots, synced, handlers, overlapped>>, row'.seen = row.seen
  PROVE  Booked'
<1>1. (Busy' <=> Busy) /\ Never' = Never
  BY DEF Busy, NoCall, Never
<1>2. \A a, b : Following(a, b)' <=> Following(a, b)
  BY DEF Following
<1>3. AllTold'
  BY DEF Booked, AllTold, Following
<1>4. AllHonest' /\ BusyTells' /\ Once' /\ Older'
  BY <1>1 DEF Booked, AllHonest, BusyTells, Once, Older
<1> QED
  BY <1>3, <1>4 DEF Booked

LEMMA BootBooked == ASSUME Known, Booked, Boot PROVE Booked'
<1>1. Shape /\ Lived /\ Seen
  BY DEF Known, IInv
<1>2. /\ ~Busy /\ row.seen < now /\ boots' = boots \cup {now}
      /\ UNCHANGED <<logged, now, past, synced, handlers, overlapped, row>>
  BY <1>1, <1>1, EarlyFacts DEF Boot
<1>3. ~Busy'
  BY <1>2 DEF Busy, NoCall
<1>4. past \in Seq(Powers) /\ boots \in SUBSET (0 .. now) /\ 0 \in boots /\ now = Len(past) /\ power \in Powers
  BY <1>1 DEF Lived
<1>5. DOMAIN logged \in SUBSET Entry /\ AllHonest /\ AllTold
  BY DEF Booked
<1>6. AllHonest'
  <2>1. \A r \in DOMAIN logged : Honest(r, now, past, boots \cup {now})
    BY <1>4, <1>5, HonestGrows DEF AllHonest
  <2> QED
    BY <1>2, <2>1 DEF AllHonest
<1>7. AllTold'
  <2>1. ASSUME NEW a \in synced, NEW b \in synced, Following(a, b)
        PROVE  Tells(a, b, past, boots \cup {now}, DOMAIN logged)
    <3>1. a \in Nat /\ b \in Nat /\ a < b /\ b <= row.seen /\ row.seen \in Nat /\ now \in Nat
      BY <1>1, <2>1, SyncedFacts DEF Following, Shape
    <3>2. a <= b /\ b < now
      BY <1>2, <3>1
    <3>3. Tells(a, b, past, boots, DOMAIN logged)
      BY <1>5, <2>1 DEF AllTold
    <3> QED
      BY <1>4, <3>1, <3>2, <3>3, TellsGrows
  <2> QED
    BY <1>2, <2>1 DEF AllTold, Following
<1>8. BusyTells' /\ Once' /\ Older'
  BY <1>2, <1>3 DEF Booked, BusyTells, Once, Older
<1> QED
  BY <1>2, <1>5, <1>6, <1>7, <1>8 DEF Booked

LEMMA TickBooked == ASSUME Known, Booked, Tick PROVE Booked'
<1>1. Shape /\ Lived /\ Seen
  BY DEF Known, IInv
<1>2. /\ past' = Append(past, power) /\ now' = now + 1
      /\ UNCHANGED <<logged, boots, synced, handlers, overlapped, row>>
  BY DEF Tick
<1>3. ~Busy /\ ~Busy'
  BY <1>1, <1>2 DEF Tick, Busy, Shape, NoCall
<1>4. past \in Seq(Powers) /\ boots \in SUBSET (0 .. now) /\ 0 \in boots /\ now = Len(past) /\ power \in Powers
  BY <1>1 DEF Lived
<1>5. DOMAIN logged \in SUBSET Entry /\ AllHonest /\ AllTold
  BY DEF Booked
<1>6. AllHonest'
  <2>1. \A r \in DOMAIN logged : Honest(r, now + 1, Append(past, power), boots)
    BY <1>4, <1>5, HonestGrows DEF AllHonest
  <2> QED
    BY <1>2, <2>1 DEF AllHonest
<1>7. AllTold'
  <2>1. ASSUME NEW a \in synced, NEW b \in synced, Following(a, b)
        PROVE  Tells(a, b, Append(past, power), boots, DOMAIN logged)
    <3>1. a \in Nat /\ b \in Nat /\ a < b /\ b <= now
      BY <1>1, <2>1, SyncedFacts DEF Following, Shape
    <3>2. a <= b
      BY <3>1
    <3>3. Tells(a, b, past, boots, DOMAIN logged)
      BY <1>5, <2>1 DEF AllTold
    <3> QED
      BY <1>4, <3>1, <3>2, <3>3, TellsGrows
  <2> QED
    BY <1>2, <2>1 DEF AllTold, Following
<1>8. BusyTells' /\ Once' /\ Older'
  BY <1>2, <1>3 DEF Booked, BusyTells, Once, Older
<1> QED
  BY <1>2, <1>5, <1>6, <1>7, <1>8 DEF Booked

LEMMA RecordBooked ==
  ASSUME Known, Booked, NEW h \in DOMAIN handlers, SyncRecord(h)
  PROVE  Booked'
<1>1. Shape /\ Lived /\ Seen
  BY DEF Known, IInv
<1> DEFINE S == PowerOn(Call) \cup Gap(Call)
<1>2. /\ power = "on" /\ row.seen < now /\ logged' = logged (+) SetToBag(S)
      /\ overlapped' = (overlapped \/ \E g \in DOMAIN handlers : handlers[g] # NoCall)
      /\ UNCHANGED <<now, past, boots, synced, row>>
  BY DEF SyncRecord
<1>3. Busy' /\ (Busy <=> \E g \in DOMAIN handlers : handlers[g] # NoCall)
  BY <1>1, BusyFacts DEF Busy, Shape
<1>4. /\ \A r \in S : r \in Entry /\ Honest(r, now, past, boots) /\ row.seen < r.at + r.gap
      /\ row.seen # Never /\ up < row.up => \E r \in S : r.kind = "power_on" /\ r.at = now - up
      /\ row.seen # Never /\ BootsOf(boots, row.seen, now) = {} /\ now - row.seen >= GapMin =>
           \E r \in S : r.kind # "power_on" /\ r.at = row.seen /\ row.seen + r.gap = now
  <2>1. row.seen \in Int
    BY <1>1, HealthTypes
  <2>2. \A r \in PowerOn(Call) : r \in Entry /\ Honest(r, now, past, boots) /\ row.seen < r.at
    BY <1>2, PowerOnFacts
  <2>3. \A r \in PowerOn(Call) : row.seen < r.at + r.gap
    <3>1. \A r \in PowerOn(Call) : r.at \in Nat /\ r.gap \in Nat
      BY <2>2 DEF Entry
    <3> QED
      BY <2>1, <2>2, <3>1
  <2>4. row.seen # Never /\ up < row.up => \E r \in PowerOn(Call) : r.kind = "power_on" /\ r.at = now - up
    BY <1>2, PowerOnFacts
  <2>5. /\ \A r \in Gap(Call) : r \in Entry /\ Honest(r, now, past, boots) /\ row.seen < r.at + r.gap
        /\ row.seen # Never /\ BootsOf(boots, row.seen, now) = {} /\ now - row.seen >= GapMin =>
             \E r \in Gap(Call) : r.kind # "power_on" /\ r.at = row.seen /\ row.seen + r.gap = now
    BY <1>2, GapFacts
  <2> QED
    BY <2>2, <2>3, <2>4, <2>5
<1>5. row.seen # Never => row.up = UpAt(past, boots, row.seen) /\ up = UpAt(past, boots, now)
  BY <1>1 DEF Seen, Lived
<1> HIDE DEF S
<1>6. /\ DOMAIN logged' = DOMAIN logged \cup S
      /\ S \cap DOMAIN logged = {} /\ (\A r \in DOMAIN logged : logged[r] = 1) => \A r \in DOMAIN logged' : logged'[r] = 1
  <2> DEFINE C == logged (+) SetToBag(S)
  <2>1. /\ DOMAIN C = DOMAIN logged \cup S
        /\ S \cap DOMAIN logged = {} /\ (\A r \in DOMAIN logged : logged[r] = 1) => \A r \in DOMAIN C : C[r] = 1
    BY BagFacts
  <2>2. logged' = C
    BY <1>2
  <2> HIDE DEF C
  <2> QED
    BY <2>1, <2>2
<1>7. DOMAIN logged \in SUBSET Entry /\ AllHonest /\ AllTold /\ Once /\ Older
  BY DEF Booked
<1>8. DOMAIN logged' \in SUBSET Entry
  BY <1>4, <1>6, <1>7
<1>9. AllHonest'
  <2>1. \A r \in DOMAIN logged' : Honest(r, now, past, boots)
    BY <1>4, <1>6, <1>7 DEF AllHonest
  <2> QED
    BY <1>2, <2>1 DEF AllHonest
<1>10. AllTold'
  <2>1. ASSUME NEW a \in synced, NEW b \in synced, Following(a, b)
        PROVE  Tells(a, b, past, boots, DOMAIN logged')
    <3>1. Tells(a, b, past, boots, DOMAIN logged)
      BY <1>7, <2>1 DEF AllTold
    <3>2. DOMAIN logged \subseteq DOMAIN logged'
      BY <1>6
    <3> QED
      BY <3>1, <3>2, TellsMore
  <2> QED
    BY <1>2, <2>1 DEF AllTold, Following
<1>11. BusyTells'
  <2>1. row.seen # Never => Tells(row.seen, now, past, boots, DOMAIN logged')
    BY <1>4, <1>5, <1>6 DEF Tells
  <2> QED
    BY <1>2, <2>1 DEF BusyTells, Never
<1>12. Once'
  <2> SUFFICES ASSUME ~overlapped' PROVE \A r \in DOMAIN logged' : logged'[r] = 1
    BY DEF Once
  <2>1. ~overlapped /\ ~Busy
    BY <1>2, <1>3
  <2>2. \A r \in DOMAIN logged : r.at + r.gap <= row.seen
    BY <1>7, <2>1 DEF Older
  <2>3. S \cap DOMAIN logged = {}
    <3>1. \A r \in DOMAIN logged : r.at \in Nat /\ r.gap \in Nat
      BY <1>7 DEF Entry
    <3>2. row.seen \in Int
      BY <1>1, HealthTypes
    <3> QED
      BY <1>4, <2>2, <3>1, <3>2
  <2> QED
    BY <1>6, <1>7, <2>1, <2>3 DEF Once
<1>13. Older'
  BY <1>3 DEF Older
<1> QED
  BY <1>8, <1>9, <1>10, <1>11, <1>12, <1>13 DEF Booked

LEMMA UpdateBooked ==
  ASSUME Known, Booked, NEW h \in DOMAIN handlers, SyncUpdate(h)
  PROVE  Booked'
<1>1. Shape /\ Lived /\ Seen
  BY DEF Known, IInv
<1>2. /\ handlers[h] # NoCall /\ synced' = synced \cup {now}
      /\ UNCHANGED <<logged, now, past, boots, overlapped>>
      /\ row' = [row EXCEPT !.seen = now, !.up = handlers[h].up, !.boot = handlers[h].boot,
                            !.bad = handlers[h].bad]
  BY DEF SyncUpdate
<1>3. row'.seen = now /\ now \in Nat /\ Busy
  <2>1. row \in Row /\ h \in 1 .. InFlight
    BY <1>1 DEF Shape
  <2> QED
    BY <1>1, <1>2, <2>1 DEF Row, Shape, Busy
<1>4. DOMAIN logged \in SUBSET Entry /\ AllHonest /\ AllTold /\ BusyTells /\ Once
  BY DEF Booked
<1>5. AllHonest' /\ Once'
  BY <1>2, <1>4 DEF AllHonest, Once
<1>6. BusyTells'
  BY <1>2, <1>3 DEF BusyTells
<1>7. Older'
  <2>1. \A r \in DOMAIN logged : r.at + r.gap <= now
    BY <1>4 DEF AllHonest, Honest
  <2> QED
    BY <1>2, <1>3, <2>1 DEF Older
<1>8. AllTold'
  <2> SUFFICES ASSUME NEW a \in synced', NEW b \in synced', a < b, \A c \in synced' : ~(a < c /\ c < b)
               PROVE  Tells(a, b, past, boots, DOMAIN logged)
    BY <1>2 DEF AllTold, Following
  <2>1. \A t \in synced : t \in Nat /\ t <= row.seen /\ row.seen \in Nat /\ row.seen <= now /\ row.seen \in synced
    BY <1>1, SyncedFacts DEF Seen
  <2>2. a \in synced
    BY <1>2, <1>3, <2>1
  <2>3. CASE b \in synced
    <3>1. Following(a, b)
      BY <1>2, <2>2, <2>3 DEF Following
    <3> QED
      BY <1>4, <2>2, <2>3, <3>1 DEF AllTold
  <2>4. CASE b \notin synced
    <3>1. b = now /\ now \notin synced
      BY <1>2, <2>4
    <3>2. row.seen < now /\ row.seen # Never
      BY <1>3, <2>1, <2>2, <3>1 DEF Never
    <3>3. a = row.seen
      BY <1>2, <2>1, <2>2, <3>1, <3>2
    <3> QED
      BY <1>3, <1>4, <3>1, <3>2, <3>3 DEF BusyTells
  <2> QED
    BY <2>3, <2>4
<1> QED
  BY <1>2, <1>4, <1>5, <1>6, <1>7, <1>8 DEF Booked

LEMMA CrashBooked == ASSUME Known, Booked, Crash PROVE Booked'
<1>1. Shape
  BY DEF Known, IInv
<1>2. /\ UNCHANGED <<logged, now, past, boots, synced, row>> /\ handlers' = [h \in DOMAIN handlers |-> NoCall]
      /\ overlapped' = (overlapped \/ \E h \in DOMAIN handlers : handlers[h] # NoCall)
  BY DEF Crash
<1>3. ~Busy' /\ (~overlapped' => ~overlapped /\ ~Busy)
  BY <1>1, <1>2 DEF Busy, NoCall, Shape
<1>4. AllTold'
  BY <1>2 DEF Booked, AllTold, Following
<1>5. AllHonest' /\ BusyTells' /\ Once' /\ Older'
  BY <1>2, <1>3 DEF Booked, AllHonest, BusyTells, Once, Older
<1> QED
  BY <1>2, <1>4, <1>5 DEF Booked

LEMMA BookedKept == ASSUME Known, Booked, [Next]_vars PROVE Booked'
<1>1. Shape /\ row \in Row
  BY DEF Known, IInv, Shape
<1>2. CASE UNCHANGED <<logged, now, past, boots, synced, handlers, overlapped, row>>
  BY <1>2, BookedFrame
<1>3. CASE (\E d \in AwayFor : Away(d)) \/ WriteDevice
  <2>1. UNCHANGED <<logged, now, past, boots, synced, handlers, overlapped>>
    BY <1>3 DEF Away, WriteDevice
  <2>2. row'.seen = row.seen
    BY <1>1, <1>3 DEF Away, WriteDevice, Row
  <2> QED
    BY <2>1, <2>2, BookedFrame
<1> QED
  BY <1>2, <1>3, BootBooked, TickBooked, RecordBooked, UpdateBooked, CrashBooked
     DEF Next, vars, mac, job, hist, PowerOff, SleepOrWake, Network, Trouble, StopAgent,
     StartAgent, Deliver, Sweep, Judge, OpenInterval, Finish, Recover

LEMMA BookedFacts == ASSUME Known, Booked PROVE ToldAsItWas
<1>1. Lived /\ Shape /\ now \in Nat
  BY DEF Known, IInv, Shape
<1>2. DOMAIN logged \in SUBSET Entry /\ AllHonest /\ AllTold /\ Once
  BY DEF Booked
<1>3. /\ \A a, b : Asleep(a, b) = Spent(past, "asleep", a, b)
      /\ \A a, b : BootsIn(a, b) = BootsOf(boots, a, b)
      /\ \A t : Uptime(t) = UpAt(past, boots, t)
      /\ \A k : Rows(k) = {r \in DOMAIN logged : r.kind = k}
  BY DEF Asleep, Spent, Units, BootsIn, BootsOf, Uptime, UpAt, LastBoot, Rows, BagToSet
<1>4. \A r \in Rows("asleep") \cup Rows("unreported") : r \in DOMAIN logged /\ r.kind # "power_on"
  BY <1>3
<1>5. \A r \in DOMAIN logged : r.kind # "power_on" => r \in Rows("asleep") \cup Rows("unreported")
  BY <1>2, <1>3 DEF Entry, Kinds
<1>6. \A r \in Rows("power_on") : \E b \in boots \ {0} : r.at - Asleep(b, now) <= b /\ b <= r.at
  BY <1>2, <1>3 DEF AllHonest, Honest
<1>7. \A r \in Rows("asleep") \cup Rows("unreported") :
        BootsIn(r.at, r.at + r.gap) = {} =>
          IF r.kind = "asleep" THEN Asleep(r.at, r.at + r.gap) = r.to - r.at
          ELSE Asleep(r.at, r.at + r.gap) < AsleepMin
  BY <1>2, <1>3, <1>4 DEF AllHonest, Honest
<1>8. ASSUME NEW a \in synced, NEW b \in synced, Following(a, b)
      PROVE  IF BootsIn(a, b) = {}
             THEN b - a >= GapMin => \E r \in Rows("asleep") \cup Rows("unreported") : r.at = a /\ a + r.gap = b
             ELSE Uptime(b) < Uptime(a) => \E r \in Rows("power_on") : r.at = b - Uptime(b)
  <2>1. Tells(a, b, past, boots, DOMAIN logged)
    BY <1>2, <1>8 DEF AllTold
  <2>2. CASE BootsOf(boots, a, b) = {}
    BY <1>3, <1>5, <2>1, <2>2 DEF Tells
  <2>3. CASE BootsOf(boots, a, b) # {}
    BY <1>3, <2>1, <2>3 DEF Tells
  <2> QED
    BY <1>3, <2>2, <2>3
<1>9. overlapped \/ \A r \in DOMAIN logged : logged[r] = 1
  BY <1>1, <1>2 DEF Once, Lived
<1> QED
  BY <1>6, <1>7, <1>8, <1>9 DEF ToldAsItWas

-----------------------------------------------------------------------------
(* What was told a phone was a silence. *)

\* The API was down; a check-in is so recent that the job has not judged it;
\* nothing was heard from so long before an interval that it is a silence.
Down(a, b) == \E t \in outages : a <= t /\ t <= b
Late(t) == t = now \/ (~swept /\ t = now - 1)
For(state) == IF state = "SILENT_TOO_LONG" THEN TooLong ELSE Unexpected
Quiet(state, in) == \A t \in synced : Late(t) \/ t <= in - For(state)

Was(i) == IF i.was = "NULL" THEN i.state ELSE i.was

\* Silent from ten minutes before, and for long enough, when it was told.
Hush(state, in, told) ==
  /\ \A t \in synced : t <= in - Unexpected \/ told < t
  /\ state = "UNEXPECTED_SILENCE" => told - in >= NotifyAfter /\ told \in Online
  /\ state = "SILENT_TOO_LONG" => \A t \in synced : t <= told - TooLong \/ told < t

Rewritten(i) == i.was # "NULL" => i.state = "EXPECTED_OFFLINE" /\ i.out # Never

\* An open silence is one, or the API has been down since it began.
Waiting(i) ==
  i.out = Never => \/ Down(i.in, now)
                   \/ /\ i.state \in Silence => Quiet(i.state, i.in)
                      /\ cut => sweep.step = "device"

ToldRight(i) ==
  i.told # Never =>
    /\ i.in <= i.told /\ i.told <= now
    /\ i.told <= marked \/ row.away <= i.told
    /\ Was(i) \in Silence => Down(i.in, i.told) \/ i.told \in synced \/ Hush(Was(i), i.in, i.told)

Outages ==
  /\ outages \in SUBSET (0 .. now) /\ marked \in Moment /\ swept \in BOOLEAN
  /\ ~api => now \in outages /\ sweep.step = "idle"

Sweeping ==
  /\ sweep.step # "idle" =>
       /\ swept
       /\ sweep.state # "EXPECTED_OFFLINE" => row.away <= now \/ marked = now
       /\ sweep.state \in Silence => Quiet(sweep.state, now)
  /\ sweep.step = "finish" => OpenIs(sweep.state, now)

Hushed ==
  /\ Outages /\ Sweeping
  /\ \A i \in intervals : Rewritten(i) /\ Waiting(i) /\ ToldRight(i)

LEMMA HushTypes ==
  ASSUME Known, Outages
  PROVE  /\ now \in Nat /\ row.seen \in Moment /\ row.away \in Int /\ marked \in Int
         /\ Unexpected \in Nat /\ TooLong \in Nat /\ HealthyFor \in Nat \ {0} /\ NotifyAfter \in Nat \ {0}
         /\ HealthyFor < Unexpected /\ Unexpected < TooLong
         /\ \A t \in synced : t \in Nat /\ t <= now /\ row.seen \in Nat /\ t <= row.seen
         /\ \A t \in outages : t \in Nat /\ t <= now
         /\ \A i \in intervals : i \in Interval /\ i.in \in Nat /\ i.told \in Int /\ i.in <= now
<1>1. Shape /\ Apart /\ Seen
  BY DEF Known, IInv
<1>2. now \in Nat /\ row.seen \in Moment /\ row.away \in Int
  BY <1>1 DEF Shape, Row
<1>3. \A t \in synced : t \in Nat /\ t <= now /\ row.seen \in Nat /\ t <= row.seen
  BY SyncedFacts
<1>4. \A t \in outages : t \in Nat /\ t <= now
  BY <1>2 DEF Outages
<1>5. \A i \in intervals : i \in Interval /\ i.in \in Nat /\ i.told \in Int /\ i.in <= now
  BY <1>1 DEF Shape, Apart, Interval, Moment, Never
<1>6. marked \in Int
  BY DEF Outages, Moment, Never
<1> QED
  BY <1>2, <1>3, <1>4, <1>5, <1>6, HealthAssumption

\* What a review does to an interval: told now, rewritten, or neither.
LEMMA ReviewCases ==
  ASSUME Shape, NEW i \in intervals, NEW state, NEW boot, NEW k, k = Review(i, state, boot)
  PROVE  /\ k.in = i.in /\ k.out = i.out
         /\ \/ /\ i.out = Never /\ i.told = Never /\ Due(state, i)
               /\ k.told = now /\ k.state = i.state /\ k.was = i.was
            \/ /\ i.was = "NULL" /\ i.state \in Silence /\ i.out # Never
               /\ boot # Never /\ i.in < boot /\ boot <= i.out
               /\ k.told = i.told /\ k.state = "EXPECTED_OFFLINE" /\ k.was = i.state
            \/ k = i /\ (i.out # Never => i \notin Latest(Explained(boot)))
<1>1. i \in Interval
  BY DEF Shape
<1>2. CASE i \in Latest(Open) /\ i.told = Never /\ Due(state, i)
  <2>1. k = [i EXCEPT !.told = now] /\ i.out = Never
    BY <1>2 DEF Review, Latest, Open
  <2>2. k.told = now /\ k.state = i.state /\ k.was = i.was /\ k.in = i.in /\ k.out = i.out
    BY <1>1, <2>1 DEF Interval
  <2> QED
    BY <1>2, <2>1, <2>2
<1>3. CASE ~(i \in Latest(Open) /\ i.told = Never /\ Due(state, i)) /\ i \in Latest(Explained(boot))
  <2>1. k = [i EXCEPT !.state = "EXPECTED_OFFLINE", !.was = i.state]
    BY <1>3 DEF Review
  <2>2. k.told = i.told /\ k.state = "EXPECTED_OFFLINE" /\ k.was = i.state /\ k.in = i.in /\ k.out = i.out
    BY <1>1, <2>1 DEF Interval
  <2>3. /\ i.was = "NULL" /\ i.state \in Silence /\ i.out # Never
        /\ boot # Never /\ i.in < boot /\ boot <= i.out
    BY <1>3 DEF Latest, Explained
  <2> QED
    BY <2>2, <2>3
<1>4. CASE ~(i \in Latest(Open) /\ i.told = Never /\ Due(state, i)) /\ i \notin Latest(Explained(boot))
  <2>1. k = i
    BY <1>4 DEF Review
  <2> QED
    BY <1>4, <2>1
<1> QED
  BY <1>2, <1>3, <1>4

LEMMA HushedFrame ==
  ASSUME Hushed, UNCHANGED <<now, synced, outages, api, swept, sweep, marked, intervals, cut>>,
         row'.away = row.away
  PROVE  Hushed'
<1>1. Outages' /\ Sweeping'
  BY DEF Hushed, Outages, Sweeping, Quiet, Late, OpenIs
<1>2. ASSUME NEW i \in intervals
      PROVE  Rewritten(i)' /\ Waiting(i)' /\ ToldRight(i)'
  <2>1. Rewritten(i) /\ Waiting(i) /\ ToldRight(i)
    BY DEF Hushed
  <2>2. \A a, b : Down(a, b)' <=> Down(a, b)
    BY DEF Down
  <2>3. \A s, a, b : (Quiet(s, a)' <=> Quiet(s, a)) /\ (Hush(s, a, b)' <=> Hush(s, a, b))
    BY DEF Quiet, Hush, Late
  <2>4. Rewritten(i)' /\ Waiting(i)'
    BY <2>1, <2>3 DEF Rewritten, Waiting, Down
  <2>5. ToldRight(i)'
    BY <2>1, <2>3 DEF ToldRight, Down, Hush, Was
  <2> QED
    BY <2>4, <2>5
<1> QED
  BY <1>1, <1>2 DEF Hushed

LEMMA UpdateHushed ==
  ASSUME Known, Hushed, NEW h \in DOMAIN handlers, SyncUpdate(h)
  PROVE  Hushed'
<1>1. /\ synced' = synced \cup {now} /\ UNCHANGED <<now, outages, api, swept, sweep, marked, intervals, cut>>
      /\ row' = [row EXCEPT !.seen = now, !.up = handlers[h].up, !.boot = handlers[h].boot,
                            !.bad = handlers[h].bad]
  BY DEF SyncUpdate, job
<1>2. row'.away = row.away
  <2>1. row \in Row
    BY DEF Known, IInv, Shape
  <2> QED
    BY <1>1, <2>1 DEF Row
<1>3. now \in Nat /\ \A i \in intervals : i.told \in Int
  BY HushTypes DEF Hushed
<1>4. \A s, a : Quiet(s, a) => Quiet(s, a)'
  BY <1>1 DEF Quiet, Late
<1>5. Outages' /\ Sweeping'
  <2>1. sweep.state \in Silence /\ sweep.step # "idle" => Quiet(sweep.state, now)'
    BY <1>1 DEF Hushed, Sweeping, Quiet, Late
  <2> QED
    BY <1>1, <1>2, <2>1 DEF Hushed, Outages, Sweeping, OpenIs
<1>6. ASSUME NEW i \in intervals
      PROVE  Rewritten(i)' /\ Waiting(i)' /\ ToldRight(i)'
  <2>1. Rewritten(i) /\ Waiting(i) /\ ToldRight(i)
    BY DEF Hushed
  <2>2. Rewritten(i)' /\ Waiting(i)'
    BY <1>1, <1>4, <2>1 DEF Rewritten, Waiting, Down
  <2>3. i.told # Never =>
          /\ i.in <= i.told /\ i.told <= now
          /\ i.told <= marked \/ row.away <= i.told
          /\ Was(i) \in Silence => Down(i.in, i.told) \/ i.told \in synced \/ Hush(Was(i), i.in, i.told)
    BY <2>1 DEF ToldRight
  <2>4. i.told # Never /\ i.told # now /\ Hush(Was(i), i.in, i.told) => Hush(Was(i), i.in, i.told)'
    <3>1. i.told # Never /\ i.told # now => i.told < now
      BY <1>3, <2>3
    <3> QED
      BY <1>1, <3>1 DEF Hush
  <2>5. ToldRight(i)'
    BY <1>1, <1>2, <2>3, <2>4 DEF ToldRight, Down, Was
  <2> QED
    BY <2>2, <2>5
<1> QED
  BY <1>1, <1>5, <1>6 DEF Hushed

LEMMA AwayHushed == ASSUME Known, Hushed, NEW d \in AwayFor, Away(d) PROVE Hushed'
<1>1. marked' = now /\ UNCHANGED <<now, synced, outages, api, swept, sweep, intervals, cut>>
  BY DEF Away, job
<1>2. now \in Nat
  BY HushTypes DEF Hushed
<1>3. Outages' /\ Sweeping'
  BY <1>1, <1>2 DEF Hushed, Outages, Sweeping, Quiet, Late, OpenIs, Moment
<1>4. ASSUME NEW i \in intervals
      PROVE  Rewritten(i)' /\ Waiting(i)' /\ ToldRight(i)'
  <2>1. Rewritten(i) /\ Waiting(i) /\ ToldRight(i)
    BY DEF Hushed
  <2>2. Rewritten(i)' /\ Waiting(i)'
    BY <1>1, <2>1 DEF Rewritten, Waiting, Down, Quiet, Late
  <2>3. ToldRight(i)'
    BY <1>1, <2>1 DEF ToldRight, Down, Hush, Was
  <2> QED
    BY <2>2, <2>3
<1> QED
  BY <1>1, <1>3, <1>4 DEF Hushed

LEMMA RestartHushed == ASSUME Known, Hushed, Crash \/ Recover PROVE Hushed'
<1>1. /\ UNCHANGED <<now, synced, intervals, marked, row>>
      /\ Crash => outages' = outages \cup {now} /\ sweep' = Idle /\ api' = FALSE /\ swept' = swept
      /\ Recover => outages' = outages /\ sweep' = sweep /\ ~api /\ api' = TRUE /\ swept' = FALSE
  BY DEF Crash, Recover, hist, mac
<1>2. /\ now \in Nat /\ Outages /\ Sweeping
      /\ \A i \in intervals : i.in \in Nat /\ i.in <= now
  BY HushTypes DEF Hushed
<1>3. sweep'.step = "idle" /\ now \in outages' /\ outages \subseteq outages' /\ outages' \in SUBSET (0 .. now)
  <2>1. Idle.step = "idle"
    BY DEF Idle
  <2>2. CASE Crash
    <3>1. now \in 0 .. now /\ outages \in SUBSET (0 .. now)
      BY <1>2 DEF Outages
    <3>2. outages' = outages \cup {now} /\ sweep' = Idle
      BY <1>1, <2>2
    <3> QED
      BY <2>1, <3>1, <3>2
  <2>3. CASE Recover
    BY <1>1, <1>2, <2>3 DEF Outages
  <2> QED
    BY <2>2, <2>3
<1>4. Outages' /\ Sweeping'
  BY <1>1, <1>2, <1>3 DEF Outages, Sweeping
<1>5. ASSUME NEW i \in intervals
      PROVE  Rewritten(i)' /\ Waiting(i)' /\ ToldRight(i)'
  <2>1. Rewritten(i) /\ ToldRight(i)
    BY DEF Hushed
  <2>2. Down(i.in, now)'
    BY <1>1, <1>2, <1>3 DEF Down
  <2>3. Rewritten(i)' /\ Waiting(i)'
    BY <2>1, <2>2 DEF Rewritten, Waiting
  <2>4. ToldRight(i)'
    BY <1>1, <1>3, <2>1 DEF ToldRight, Down, Hush, Was
  <2> QED
    BY <2>3, <2>4
<1> QED
  BY <1>1, <1>4, <1>5 DEF Hushed

LEMMA TickHushed == ASSUME Known, Hushed, Tick PROVE Hushed'
<1>1. /\ now' = now + 1 /\ sweep = Idle /\ (api => swept) /\ swept' = FALSE
      /\ outages' = IF api THEN outages ELSE outages \cup {now, now + 1}
      /\ UNCHANGED <<synced, api, sweep, marked, intervals, cut, row>>
  BY DEF Tick
<1>2. /\ now \in Nat /\ Outages /\ Sweeping
      /\ \A i \in intervals : i.in \in Nat /\ i.in <= now /\ i.told \in Int
      /\ \A t \in outages : t \in Nat /\ t <= now
      /\ \A t \in synced : t \in Nat
  BY HushTypes DEF Hushed
<1>3. sweep.step = "idle" /\ sweep'.step = "idle"
  BY <1>1 DEF Idle
<1>4. outages' \in SUBSET (0 .. now') /\ outages \subseteq outages' /\ (~api => now \in outages' /\ now' \in outages')
  BY <1>1, <1>2
<1>5. Outages' /\ Sweeping'
  BY <1>1, <1>2, <1>3, <1>4 DEF Outages, Sweeping
<1>6. \A s, a : api /\ Quiet(s, a) => Quiet(s, a)'
  BY <1>1, <1>2 DEF Quiet, Late
<1>7. ASSUME NEW i \in intervals
      PROVE  Rewritten(i)' /\ Waiting(i)' /\ ToldRight(i)'
  <2>1. Rewritten(i) /\ Waiting(i) /\ ToldRight(i)
    BY DEF Hushed
  <2>2. Down(i.in, now) => Down(i.in, now)'
    <3>1. \A t \in outages : t <= now => t <= now'
      BY <1>1, <1>2
    <3> QED
      BY <1>1, <1>4, <3>1 DEF Down
  <2>3. ~api => Down(i.in, now)'
    BY <1>1, <1>2, <1>4 DEF Down
  <2>4. Rewritten(i)' /\ Waiting(i)'
    BY <1>1, <1>3, <1>6, <2>1, <2>2, <2>3 DEF Rewritten, Waiting
  <2>5. i.told <= now => i.told <= now'
    BY <1>1, <1>2
  <2>6. ToldRight(i)'
    BY <1>1, <1>4, <2>1, <2>5 DEF ToldRight, Down, Hush, Was
  <2> QED
    BY <2>4, <2>6
<1> QED
  BY <1>1, <1>5, <1>7 DEF Hushed

\* A Mac judged silent has not been heard of for a while.
LEMMA SilentVerdict ==
  ASSUME Known, Outages
  PROVE  /\ Verdict(row) \notin {"EXPECTED_OFFLINE", "UNENROLLED"} => row.away <= now
         /\ Verdict(row) \in Silence => row.seen < now - 1
         /\ Verdict(row) \in Silence /\ Verdict(row) # row.health => row.seen <= now - For(Verdict(row))
<1>1. /\ now \in Nat /\ row.seen \in Moment /\ row.away \in Int
      /\ Unexpected \in Nat /\ TooLong \in Nat /\ HealthyFor \in Nat \ {0}
      /\ HealthyFor < Unexpected /\ Unexpected < TooLong
  BY HushTypes
<1> DEFINE V == Verdict(row)
<1>2. row.seen = Never => V = "UNENROLLED"
  BY DEF Verdict
<1>3. row.seen # Never /\ row.away > now => V = "EXPECTED_OFFLINE"
  BY DEF Verdict
<1>4. row.seen # Never /\ ~(row.away > now) /\ now - row.seen <= HealthyFor => V \in {"DEGRADED", "HEALTHY"}
  BY DEF Verdict
<1>5. row.seen # Never /\ V = "SILENT_TOO_LONG" /\ V # row.health => now - row.seen >= TooLong
  BY DEF Verdict
<1>6. row.seen # Never /\ V = "UNEXPECTED_SILENCE" /\ V # row.health => now - row.seen >= Unexpected
  BY DEF Verdict
<1> HIDE DEF V
<1>7. row.seen # Never => row.seen \in Nat
  BY <1>1 DEF Moment
<1>8. V \notin {"EXPECTED_OFFLINE", "UNENROLLED"} => row.away <= now
  BY <1>1, <1>2, <1>3
<1>9. V \in Silence => row.seen < now - 1
  BY <1>1, <1>2, <1>3, <1>4, <1>7 DEF Silence
<1>10. V \in Silence /\ V # row.health => row.seen <= now - For(V)
  BY <1>1, <1>2, <1>5, <1>6, <1>7 DEF Silence, For
<1> QED
  BY <1>8, <1>9, <1>10 DEF V

LEMMA JudgeHushed == ASSUME Known, Hushed, Judge PROVE Hushed'
<1>0. PICK state : state = Verdict(row)
  OBVIOUS
<1>1. /\ sweep = Idle /\ ~swept /\ swept' = TRUE /\ api
      /\ UNCHANGED <<now, row, synced, api, cut, outages, marked>>
      /\ state = row.health => intervals' = Reviewed(state, row.boot) /\ sweep' = Idle
      /\ state # row.health =>
           /\ intervals' = {IF i \in Open THEN [i EXCEPT !.out = now] ELSE i : i \in intervals}
           /\ sweep' = [step |-> "open", state |-> state, boot |-> row.boot]
  BY <1>0 DEF Judge, hist
<1>2. /\ now \in Nat /\ row.seen \in Moment /\ Outages /\ Shape /\ Enrolled /\ Phase
      /\ Unexpected \in Nat /\ TooLong \in Nat /\ NotifyAfter \in Nat \ {0} /\ Unexpected < TooLong
      /\ \A t \in synced : t \in Nat /\ t <= row.seen /\ row.seen \in Nat
      /\ \A i \in intervals : i \in Interval /\ i.in \in Nat /\ i.in <= now
  BY HushTypes DEF Hushed, Known, IInv
<1>3. /\ state \notin {"EXPECTED_OFFLINE", "UNENROLLED"} => row.away <= now
      /\ state \in Silence => row.seen < now - 1
      /\ state \in Silence /\ state # row.health => row.seen <= now - For(state)
  BY <1>0, <1>2, SilentVerdict
<1>4. state # row.health => state # "UNENROLLED"
  BY <1>0, <1>2, VerdictFacts
<1>5. sweep.step = "idle" /\ Idle.step = "idle"
  BY <1>1 DEF Idle
<1>6. state \in Silence => \A t \in synced : ~Late(t) /\ t < now - 1
  BY <1>2, <1>3 DEF Late
<1>9. CASE state = row.health
  <2>1. Outages' /\ Sweeping'
    BY <1>1, <1>2, <1>5, <1>9 DEF Outages, Sweeping
  <2>2. ASSUME NEW k \in intervals'
        PROVE  Rewritten(k)' /\ Waiting(k)' /\ ToldRight(k)'
    <3>1. PICK i \in intervals : k = Review(i, state, row.boot)
      BY <1>1, <1>9 DEF Reviewed
    <3>2. Rewritten(i) /\ Waiting(i) /\ ToldRight(i)
      BY DEF Hushed
    <3>3. i \in Interval /\ i.in \in Nat /\ i.in <= now
      BY <1>2
    <3>4. /\ k.in = i.in /\ k.out = i.out
          /\ \/ /\ i.out = Never /\ i.told = Never /\ Due(state, i)
                /\ k.told = now /\ k.state = i.state /\ k.was = i.was
             \/ /\ i.was = "NULL" /\ i.state \in Silence /\ i.out # Never
                /\ k.told = i.told /\ k.state = "EXPECTED_OFFLINE" /\ k.was = i.state
             \/ k = i
      BY <1>2, <3>1, ReviewCases
    <3>5. Rewritten(k)'
      BY <3>2, <3>4 DEF Rewritten, Silence
    <3>6. i.out = Never /\ ~Down(i.in, now) =>
            /\ i.state = state /\ ~cut
            /\ state \in Silence => \A t \in synced : t <= i.in - For(state)
      <4> SUFFICES ASSUME i.out = Never, ~Down(i.in, now)
                   PROVE  /\ i.state = state /\ ~cut
                          /\ state \in Silence => \A t \in synced : t <= i.in - For(state)
        OBVIOUS
      <4>1. ~cut /\ (i.state \in Silence => Quiet(i.state, i.in))
        BY <1>5, <3>2 DEF Waiting
      <4>2. AsShown
        BY <1>2, <1>5, <4>1 DEF Phase
      <4>3. i.state = row.health
        BY <4>2 DEF AsShown, NothingOpen, OpenIs
      <4> QED
        BY <1>6, <1>9, <4>1, <4>3 DEF Quiet
    <3>7. Down(i.in, now) => Down(i.in, now)'
      BY <1>1 DEF Down
    <3>8. Waiting(k)'
      <4> SUFFICES ASSUME k.out = Never, ~Down(k.in, now)' PROVE Waiting(k)'
        BY DEF Waiting
      <4>1. i.out = Never /\ ~Down(i.in, now) /\ k.state = i.state /\ k.in = i.in
        BY <3>4, <3>7
      <4>2. k.state = state /\ ~cut' /\ (state \in Silence => \A t \in synced : t <= k.in - For(state))
        BY <1>1, <3>6, <4>1
      <4>3. k.state \in Silence => Quiet(k.state, k.in)'
        BY <1>1, <4>2 DEF Quiet, For
      <4> QED
        BY <4>2, <4>3 DEF Waiting
    <3>9. ToldRight(k)'
      <4>1. CASE k.told = i.told /\ (k.told # Never => Was(k) = Was(i))
        BY <1>1, <3>2, <3>4, <4>1 DEF ToldRight, Down, Hush, Was
      <4>2. CASE i.out = Never /\ Due(state, i) /\ k.told = now /\ k.state = i.state /\ k.was = i.was
        <5>1. i.was = "NULL" /\ Was(k) = i.state
          BY <3>2, <4>2 DEF Rewritten, Was
        <5>2. row.away <= now
          BY <1>3, <4>2 DEF Due
        <5>3. i.state \in Silence /\ ~Down(i.in, now) => Hush(i.state, i.in, now)
          <6> SUFFICES ASSUME i.state \in Silence, ~Down(i.in, now) PROVE Hush(i.state, i.in, now)
            OBVIOUS
          <6>1. i.state = state /\ \A t \in synced : t <= i.in - For(state)
            BY <3>6, <4>2
          <6>2. state = "UNEXPECTED_SILENCE" => now - i.in >= NotifyAfter /\ now \in Online
            BY <4>2 DEF Due, ExpectedOnline
          <6>3. \A t \in synced : t <= i.in - Unexpected
            BY <1>2, <3>3, <6>1 DEF For
          <6>4. state = "SILENT_TOO_LONG" => \A t \in synced : t <= now - TooLong
            BY <1>2, <3>3, <6>1 DEF For
          <6> QED
            BY <6>1, <6>2, <6>3, <6>4 DEF Hush
        <5>4. /\ k.in <= k.told /\ k.told <= now /\ row.away <= k.told
              /\ Was(k) \in Silence => Down(k.in, k.told) \/ Hush(Was(k), k.in, k.told)
          BY <1>2, <3>3, <3>4, <4>2, <5>1, <5>2, <5>3
        <5> QED
          BY <1>1, <5>4 DEF ToldRight, Down, Hush, Was
      <4>3. k.told = i.told /\ i.was = "NULL" /\ k.was = i.state /\ i.state \in Silence => Was(k) = Was(i)
        BY DEF Was, Silence
      <4> QED
        BY <3>4, <4>1, <4>2, <4>3
    <3> QED
      BY <3>5, <3>8, <3>9
  <2> QED
    BY <2>1, <2>2 DEF Hushed
<1>10. CASE state # row.health
  <2>1. sweep'.step = "open" /\ sweep'.state = state
    BY <1>1, <1>10
  <2>2. state \in Silence => \A t \in synced : t <= now - For(state)
    <3>1. For(state) \in Nat
      BY <1>2 DEF For
    <3> QED
      BY <1>2, <1>3, <1>10, <3>1
  <2>3. Outages'
    BY <1>1, <1>2, <2>1 DEF Outages
  <2>4. state \in Silence => Quiet(state, now)'
    BY <1>1, <2>2 DEF Quiet, For
  <2>5. Sweeping'
    <3>1. state # "EXPECTED_OFFLINE" => row.away <= now
      BY <1>3, <1>4, <1>10
    <3>2. sweep'.state \in Silence => Quiet(sweep.state, now)'
      BY <1>1, <2>1, <2>2 DEF Quiet, For
    <3> QED
      BY <1>1, <2>1, <3>1, <3>2 DEF Sweeping
  <2>6. ASSUME NEW k \in intervals'
        PROVE  Rewritten(k)' /\ Waiting(k)' /\ ToldRight(k)'
    <3>1. PICK i \in intervals : k = IF i \in Open THEN [i EXCEPT !.out = now] ELSE i
      BY <1>1, <1>10
    <3>2. Rewritten(i) /\ Waiting(i) /\ ToldRight(i) /\ i \in Interval /\ now # Never
      BY <1>2 DEF Hushed, Never
    <3>3. k.told = i.told /\ k.was = i.was /\ k.state = i.state /\ k.in = i.in /\ k.out # Never
      <4>1. CASE i \in Open
        <5>1. k = [i EXCEPT !.out = now]
          BY <3>1, <4>1
        <5> QED
          BY <3>2, <5>1 DEF Interval
      <4>2. CASE i \notin Open
        BY <3>1, <4>2 DEF Open
      <4> QED
        BY <4>1, <4>2
    <3>4. Rewritten(k)' /\ Waiting(k)'
      BY <3>2, <3>3 DEF Rewritten, Waiting
    <3>5. ToldRight(k)'
      BY <1>1, <3>2, <3>3 DEF ToldRight, Down, Hush, Was
    <3> QED
      BY <3>4, <3>5
  <2> QED
    BY <2>3, <2>5, <2>6 DEF Hushed
<1> QED
  BY <1>9, <1>10

LEMMA OpenHushed == ASSUME Known, Hushed, OpenInterval PROVE Hushed'
<1>0. PICK x : x = [state |-> sweep.state, in |-> now, out |-> Never, told |-> Never, was |-> "NULL"]
  OBVIOUS
<1>1. /\ sweep.step = "open" /\ intervals' = intervals \cup {x} /\ sweep' = [sweep EXCEPT !.step = "device"]
      /\ UNCHANGED <<now, row, synced, api, swept, cut, outages, marked>>
  BY <1>0 DEF OpenInterval, hist
<1>2. Shape /\ Phase /\ Outages /\ Sweeping
  BY DEF Known, IInv, Hushed
<1>3. sweep'.step = "device" /\ sweep'.state = sweep.state
  BY <1>1, <1>2, SweepFacts
<1>4. x.in = now /\ x.out = Never /\ x.told = Never /\ x.was = "NULL" /\ x.state = sweep.state
  BY <1>0
<1>5. Outages' /\ Sweeping'
  BY <1>1, <1>2, <1>3 DEF Outages, Sweeping, Quiet, Late
<1>6. \A i \in intervals : i.out # Never
  BY <1>1, <1>2 DEF Phase, NothingOpen
<1>7. ASSUME NEW k \in intervals
      PROVE  Rewritten(k)' /\ Waiting(k)' /\ ToldRight(k)'
  <2>1. Rewritten(k) /\ ToldRight(k) /\ k.out # Never
    BY <1>6 DEF Hushed
  <2> QED
    BY <1>1, <2>1 DEF Rewritten, Waiting, ToldRight, Down, Hush, Was
<1>8. Rewritten(x)' /\ Waiting(x)' /\ ToldRight(x)'
  <2>1. sweep.state \in Silence => Quiet(sweep.state, now)
    BY <1>1, <1>2 DEF Sweeping
  <2>2. x.state \in Silence => Quiet(x.state, x.in)'
    BY <1>1, <1>4, <2>1 DEF Quiet, Late
  <2> QED
    BY <1>3, <1>4, <2>2 DEF Rewritten, Waiting, ToldRight
<1> QED
  BY <1>1, <1>5, <1>7, <1>8 DEF Hushed

LEMMA WriteHushed == ASSUME Known, Hushed, WriteDevice PROVE Hushed'
<1>1. /\ sweep.step = "device" /\ cut' = FALSE /\ sweep' = [sweep EXCEPT !.step = "finish"]
      /\ row' = [row EXCEPT !.health = sweep.state, !.since = now]
      /\ UNCHANGED <<now, intervals, synced, api, swept, outages, marked>>
  BY DEF WriteDevice
<1>2. Shape /\ Phase /\ Outages /\ Sweeping /\ row \in Row
  BY DEF Known, IInv, Hushed, Shape
<1>3. sweep'.step = "finish" /\ sweep'.state = sweep.state /\ row'.away = row.away
  BY <1>1, <1>2, SweepFacts DEF Row
<1>4. OpenIs(sweep.state, now)
  BY <1>1, <1>2 DEF Phase
<1>5. Outages' /\ Sweeping'
  BY <1>1, <1>2, <1>3, <1>4 DEF Outages, Sweeping, Quiet, Late, OpenIs
<1>6. ASSUME NEW i \in intervals
      PROVE  Rewritten(i)' /\ Waiting(i)' /\ ToldRight(i)'
  <2>1. Rewritten(i) /\ Waiting(i) /\ ToldRight(i)
    BY DEF Hushed
  <2>2. Rewritten(i)' /\ Waiting(i)'
    BY <1>1, <2>1 DEF Rewritten, Waiting, Down, Quiet, Late
  <2>3. ToldRight(i)'
    BY <1>1, <1>3, <2>1 DEF ToldRight, Down, Hush, Was
  <2> QED
    BY <2>2, <2>3
<1> QED
  BY <1>1, <1>5, <1>6 DEF Hushed

LEMMA FinishHushed == ASSUME Known, Hushed, Finish PROVE Hushed'
<1>1. /\ sweep.step = "finish" /\ sweep' = Idle /\ intervals' = Reviewed(sweep.state, sweep.boot)
      /\ UNCHANGED <<now, row, synced, api, swept, cut, outages, marked>>
  BY DEF Finish, hist
<1>2. /\ now \in Nat /\ Outages /\ Sweeping /\ Shape /\ Phase
      /\ Unexpected \in Nat /\ TooLong \in Nat /\ NotifyAfter \in Nat \ {0} /\ Unexpected < TooLong
      /\ \A t \in synced : t \in Nat
      /\ \A i \in intervals : i \in Interval /\ i.in \in Nat /\ i.in <= now
  BY HushTypes DEF Hushed, Known, IInv
<1>3. ~cut /\ OpenIs(sweep.state, now) /\ sweep'.step = "idle" /\ swept
  BY <1>1, <1>2 DEF Phase, Sweeping, Idle
<1>4. /\ sweep.state # "EXPECTED_OFFLINE" => row.away <= now \/ marked = now
      /\ sweep.state = "SILENT_TOO_LONG" => \A t \in synced : t = now \/ t <= now - TooLong
  BY <1>1, <1>2, <1>3 DEF Sweeping, Quiet, Late, For, Silence
<1>5. Outages' /\ Sweeping'
  BY <1>1, <1>2, <1>3 DEF Outages, Sweeping
<1>6. ASSUME NEW k \in intervals'
      PROVE  Rewritten(k)' /\ Waiting(k)' /\ ToldRight(k)'
  <2>1. PICK i \in intervals : k = Review(i, sweep.state, sweep.boot)
    BY <1>1 DEF Reviewed
  <2>2. Rewritten(i) /\ Waiting(i) /\ ToldRight(i) /\ i \in Interval
    BY <1>2 DEF Hushed
  <2>3. /\ k.in = i.in /\ k.out = i.out
        /\ \/ /\ i.out = Never /\ i.told = Never /\ Due(sweep.state, i)
              /\ k.told = now /\ k.state = i.state /\ k.was = i.was
           \/ /\ i.was = "NULL" /\ i.state \in Silence /\ i.out # Never
              /\ k.told = i.told /\ k.state = "EXPECTED_OFFLINE" /\ k.was = i.state
           \/ k = i
    BY <1>2, <2>1, ReviewCases
  <2>4. Rewritten(k)'
    BY <2>2, <2>3 DEF Rewritten, Silence
  <2>5. Waiting(k)'
    <3> SUFFICES ASSUME k.out = Never PROVE Waiting(k)'
      BY DEF Waiting
    <3>1. i.out = Never /\ k.state = i.state /\ k.in = i.in
      BY <2>3
    <3>2. Down(i.in, now) \/ (i.state \in Silence => Quiet(i.state, i.in))
      BY <2>2, <3>1 DEF Waiting
    <3> QED
      BY <1>1, <1>3, <3>1, <3>2 DEF Waiting, Down, Quiet, Late
  <2>6. ToldRight(k)'
    <3>1. CASE k.told = i.told /\ (k.told # Never => Was(k) = Was(i))
      BY <1>1, <2>2, <2>3, <3>1 DEF ToldRight, Down, Hush, Was
    <3>2. CASE i.out = Never /\ Due(sweep.state, i) /\ k.told = now /\ k.state = i.state /\ k.was = i.was
      <4>1. i.was = "NULL" /\ i.state = sweep.state /\ i.in = now /\ Was(k) = i.state
        BY <1>3, <2>2, <3>2 DEF Rewritten, Was, OpenIs
      <4>2. sweep.state # "UNEXPECTED_SILENCE" /\ sweep.state # "EXPECTED_OFFLINE"
        BY <1>2, <3>2, <4>1 DEF Due
      <4>3. row.away <= now \/ now <= marked
        BY <1>2, <1>4, <4>2
      <4>4. i.state \in Silence /\ now \notin synced => Hush(i.state, now, now)
        <5> SUFFICES ASSUME i.state \in Silence, now \notin synced PROVE Hush(i.state, now, now)
          OBVIOUS
        <5>1. i.state = "SILENT_TOO_LONG"
          BY <4>1, <4>2 DEF Silence
        <5>2. \A t \in synced : t <= now - TooLong
          BY <1>4, <4>1, <5>1
        <5>3. \A t \in synced : t <= now - Unexpected
          BY <1>2, <5>2
        <5> QED
          BY <5>1, <5>2, <5>3 DEF Hush
      <4>5. /\ k.in = now /\ k.told = now /\ now <= now
            /\ k.told <= marked \/ row.away <= k.told
            /\ Was(k) \in Silence => k.told \in synced \/ Hush(Was(k), k.in, k.told)
        BY <1>2, <2>3, <3>2, <4>1, <4>3, <4>4
      <4> QED
        BY <1>1, <4>5 DEF ToldRight, Down, Hush, Was
    <3>3. k.told = i.told /\ i.was = "NULL" /\ k.was = i.state /\ i.state \in Silence => Was(k) = Was(i)
      BY DEF Was, Silence
    <3> QED
      BY <2>3, <3>1, <3>2, <3>3
  <2> QED
    BY <2>4, <2>5, <2>6
<1> QED
  BY <1>5, <1>6 DEF Hushed

LEMMA HushedKept == ASSUME Known, Hushed, [Next]_vars PROVE Hushed'
<1>1. CASE UNCHANGED <<now, synced, outages, api, swept, sweep, marked, intervals, cut, row>>
  BY <1>1, HushedFrame
<1> QED
  BY <1>1, UpdateHushed, AwayHushed, RestartHushed, TickHushed, JudgeHushed, OpenHushed, WriteHushed, FinishHushed
     DEF Next, vars, mac, job, hist, Boot, PowerOff, SleepOrWake, Network, Trouble, StopAgent,
     StartAgent, Deliver, SyncRecord, Sweep

LEMMA HushedFacts == ASSUME Known, Hushed PROVE ToldIsSilent
<1>1. /\ now \in Nat /\ Unexpected \in Nat /\ TooLong \in Nat /\ row.away \in Int /\ marked \in Int
      /\ \A t \in synced : t \in Nat
      /\ \A i \in intervals : i \in Interval /\ i.in \in Nat /\ i.told \in Int
  BY HushTypes DEF Hushed
<1> SUFFICES ASSUME NEW i \in intervals, i.told # Never, i.state \in Silence \/ i.was \in Silence
             PROVE  /\ i.told \notin marked + 1 .. row.away - 1
                    /\ \/ \E t \in outages : i.in <= t /\ t <= i.told
                       \/ i.told \in synced
                       \/ /\ \A t \in synced : t \notin i.in - Unexpected + 1 .. i.told
                          /\ "UNEXPECTED_SILENCE" \in {i.state, i.was} =>
                               i.told - i.in >= NotifyAfter /\ i.told \in Online
                          /\ "SILENT_TOO_LONG" \in {i.state, i.was} =>
                               \A t \in synced : t \notin i.told - TooLong + 1 .. i.told
  BY DEF ToldIsSilent
<1>2. Rewritten(i) /\ ToldRight(i)
  BY DEF Hushed
<1>3. i.told \notin marked + 1 .. row.away - 1
  BY <1>1, <1>2 DEF ToldRight
<1>4. /\ Was(i) \in Silence
      /\ \A s \in Silence : s \in {i.state, i.was} => s = Was(i)
  BY <1>2 DEF Rewritten, Was, Silence
<1>5. CASE Down(i.in, i.told)
  BY <1>3, <1>5 DEF Down
<1>6. CASE i.told \in synced
  BY <1>3, <1>6
<1>7. CASE Hush(Was(i), i.in, i.told)
  <2>1. \A t \in synced : t \notin i.in - Unexpected + 1 .. i.told
    BY <1>1, <1>7 DEF Hush
  <2>2. "UNEXPECTED_SILENCE" \in {i.state, i.was} => i.told - i.in >= NotifyAfter /\ i.told \in Online
    BY <1>4, <1>7 DEF Hush, Silence
  <2>3. "SILENT_TOO_LONG" \in {i.state, i.was} => \A t \in synced : t \notin i.told - TooLong + 1 .. i.told
    <3> SUFFICES ASSUME "SILENT_TOO_LONG" \in {i.state, i.was}
                 PROVE  \A t \in synced : t \notin i.told - TooLong + 1 .. i.told
      OBVIOUS
    <3>1. \A t \in synced : t <= i.told - TooLong \/ i.told < t
      BY <1>4, <1>7 DEF Hush, Silence
    <3> QED
      BY <1>1, <3>1
  <2> QED
    BY <1>3, <2>1, <2>2, <2>3
<1> QED
  BY <1>2, <1>4, <1>5, <1>6, <1>7 DEF ToldRight

-----------------------------------------------------------------------------
(* A silence is rewritten when the Mac was off in it. *)

NeverAsleep == "asleep" \notin {past[t] : t \in DOMAIN past}

\* A check-in of an earlier unit has told of the last boot.
Current == \E t \in synced : LastBoot(boots, now) <= t /\ t < now

Unwritten(i) ==
  i.state \in Silence /\ i.out # Never /\ i.in < LastBoot(boots, now) /\ LastBoot(boots, now) <= i.out

SweepBoot == sweep.step # "idle" => sweep.boot = Never \/ sweep.boot \in boots
Rewrites == \A i \in intervals : i.was # "NULL" => BootsOf(boots, i.in, i.out) # {}
AllWritten ==
  outages = {} /\ Current =>
    /\ sweep.step # "idle" => sweep.boot = LastBoot(boots, now)
    /\ Settled => \A i \in intervals : ~Unwritten(i)

Owned == NeverAsleep => SweepBoot /\ Rewrites /\ AllWritten

\* The boot time of a Mac that never slept is when it was started.
LEMMA BootTime ==
  ASSUME Known, NeverAsleep
  PROVE  /\ row.boot = Never \/ row.boot \in boots
         /\ Current => row.boot = LastBoot(boots, now)
<1>1. /\ Seen /\ past \in Seq(Powers) /\ boots \in SUBSET Nat /\ 0 \in boots /\ now \in Nat /\ Len(past) = now
      /\ row.seen \in Moment
  BY DEF Known, IInv, Lived, Shape, Row
<1>2. ASSUME row.seen # Never
      PROVE  row.boot = LastBoot(boots, row.seen) /\ LastBoot(boots, row.seen) \in boots /\ row.seen \in Nat
  <2>1. row.seen \in synced /\ row.seen \in Nat /\ row.seen <= now
    BY <1>1, <1>2 DEF Seen, Moment
  <2>2. /\ row.up = UpAt(past, boots, row.seen) /\ row.boot = row.seen - row.up
        /\ OnAt(past, boots, row.seen)
    BY <1>1, <1>2 DEF Seen
  <2> DEFINE b == LastBoot(boots, row.seen)
  <2>3. b \in boots /\ b \in Nat /\ b <= row.seen
    BY <1>1, <2>1, LastBootFacts
  <2>4. row.seen - UpAt(past, boots, row.seen) = b + Spent(past, "asleep", b, row.seen)
    BY <1>1, <2>1, <2>2, UpFacts
  <2> HIDE DEF b
  <2>5. Spent(past, "asleep", b, row.seen) = 0
    <3>1. \A u \in b .. row.seen - 1 : u + 1 \in DOMAIN past
      BY <1>1, <2>1, <2>3
    <3>2. Units(past, "asleep", b, row.seen) = {}
      BY <3>1 DEF Units, NeverAsleep
    <3> QED
      BY <3>2, FS_EmptySet DEF Spent
  <2> QED
    BY <2>1, <2>2, <2>3, <2>4, <2>5 DEF b
<1>3. row.seen = Never => row.boot = Never
  BY <1>1 DEF Seen
<1>4. ASSUME NEW t \in synced, LastBoot(boots, now) <= t, t < now
      PROVE  row.boot = LastBoot(boots, now)
  <2>1. t \in Nat /\ t <= row.seen /\ row.seen \in Nat /\ row.seen # Never /\ row.seen <= now
    BY SyncedFacts DEF Never
  <2>2. /\ LastBoot(boots, now) \in boots /\ LastBoot(boots, now) \in Nat
        /\ \A x \in boots : x \in Nat /\ (x <= now => x <= LastBoot(boots, now))
    BY <1>1, LastBootFacts
  <2>3. LastBoot(boots, row.seen) = LastBoot(boots, now)
    <3> DEFINE l == LastBoot(boots, now)
    <3>1. l \in boots /\ l <= row.seen /\ \A x \in boots : x <= row.seen => x <= l
      BY <1>1, <1>4, <2>1, <2>2
    <3> HIDE DEF l
    <3>2. LastBoot(boots, row.seen) = l
      BY <1>1, <2>1, <3>1, LastBootIs
    <3> QED
      BY <3>2 DEF l
  <2> QED
    BY <1>2, <2>1, <2>3
<1> QED
  BY <1>2, <1>3, <1>4 DEF Current

LEMMA AsleepStays ==
  ASSUME Known, [Next]_vars, NeverAsleep'
  PROVE  NeverAsleep
<1>1. past \in Seq(Powers)
  BY DEF Known, Lived
<1>2. CASE past' = past
  BY <1>2 DEF NeverAsleep
<1>3. CASE Tick
  <2>1. past' = Append(past, power)
    BY <1>3 DEF Tick
  <2>2. \A t \in DOMAIN past : t \in DOMAIN past' /\ past'[t] = past[t]
    BY <1>1, <2>1
  <2> QED
    BY <2>2 DEF NeverAsleep
<1> QED
  BY <1>2, <1>3 DEF Next, vars, mac, job, hist, Boot, PowerOff, SleepOrWake, Network, Trouble, StopAgent,
     StartAgent, Deliver, SyncRecord, SyncUpdate, Away, Sweep, Judge, OpenInterval, WriteDevice, Finish, Crash, Recover

\* A review by the last boot leaves no silence it lies in.
LEMMA ReviewOwns ==
  ASSUME Known, Hushed, NeverAsleep, Rewrites, NEW state, NEW boot, boot = Never \/ boot \in boots,
         UNCHANGED <<now, boots>>, intervals' = Reviewed(state, boot)
  PROVE  /\ Rewrites'
         /\ boot = LastBoot(boots, now) => \A k \in intervals' : ~Unwritten(k)'
<1>1. Shape /\ Apart /\ now \in Nat /\ boots \in SUBSET Nat /\ 0 \in boots
  BY DEF Known, IInv, Shape, Lived
<1>2. LastBoot(boots, now) \in Nat
  BY <1>1, LastBootFacts
<1>3. ASSUME NEW k \in intervals'
      PROVE  /\ k.was # "NULL" => BootsOf(boots, k.in, k.out) # {}
             /\ boot = LastBoot(boots, now) => ~Unwritten(k)'
  <2>1. PICK i \in intervals : k = Review(i, state, boot)
    BY DEF Reviewed
  <2>2. /\ k.in = i.in /\ k.out = i.out
        /\ \/ /\ i.out = Never
              /\ k.state = i.state /\ k.was = i.was
           \/ /\ i.was = "NULL" /\ boot # Never /\ i.in < boot /\ boot <= i.out
              /\ k.state = "EXPECTED_OFFLINE" /\ k.was = i.state
           \/ k = i /\ (i.out # Never => i \notin Latest(Explained(boot)))
    BY <1>1, <2>1, ReviewCases
  <2>3. i.was # "NULL" => BootsOf(boots, i.in, i.out) # {}
    BY DEF Rewrites
  <2>4. k.was # "NULL" => BootsOf(boots, k.in, k.out) # {}
    BY <2>2, <2>3 DEF BootsOf
  <2>5. ASSUME boot = LastBoot(boots, now), k.state \in Silence, k.out # Never, k.in < boot, boot <= k.out
        PROVE  FALSE
    <3>1. k = i /\ i \notin Latest(Explained(boot))
      BY <2>2, <2>5 DEF Silence
    <3>2. i.was = "NULL"
      BY <2>5, <3>1 DEF Hushed, Rewritten, Silence
    <3>3. i \in Explained(boot)
      BY <1>2, <2>5, <3>1, <3>2 DEF Explained, Never
    <3>4. PICK j \in Explained(boot) : ~(j.in <= i.in)
      BY <3>1, <3>3 DEF Latest
    <3>5. /\ j \in intervals /\ j.in < boot /\ boot <= j.out /\ j.in \in Nat /\ i.in \in Nat
          /\ j.out \in Int /\ i.out \in Int /\ boot \in Nat
      BY <1>1, <1>2, <2>5, <3>4 DEF Explained, Shape, Interval, Moment, Never
    <3>6. i # j
      BY <3>4, <3>5
    <3>7. \/ i.out # Never /\ i.out <= j.in
          \/ j.out # Never /\ j.out <= i.in
      BY <1>1, <3>5, <3>6 DEF Apart
    <3> QED
      BY <2>5, <3>1, <3>5, <3>7
  <2> QED
    BY <2>4, <2>5 DEF Unwritten
<1> QED
  BY <1>3 DEF Rewrites

LEMMA OwnedFrame ==
  ASSUME Owned, NeverAsleep' => NeverAsleep, boots \subseteq boots',
         UNCHANGED <<sweep, intervals>>,
         NeverAsleep' /\ AllWritten => AllWritten'
  PROVE  Owned'
<1> SUFFICES ASSUME NeverAsleep' PROVE SweepBoot' /\ Rewrites' /\ AllWritten'
  BY DEF Owned
<1>1. SweepBoot /\ Rewrites /\ AllWritten
  BY DEF Owned
<1>2. \A a, b : BootsOf(boots, a, b) # {} => BootsOf(boots', a, b) # {}
  BY DEF BootsOf
<1>3. Rewrites'
  BY <1>1, <1>2 DEF Rewrites
<1>4. SweepBoot'
  BY <1>1 DEF SweepBoot, Never
<1> QED
  BY <1>1, <1>3, <1>4

LEMMA JudgeOwned == ASSUME Known, Hushed, Owned, Judge, NeverAsleep PROVE SweepBoot' /\ Rewrites' /\ AllWritten'
<1>0. PICK state : state = Verdict(row)
  OBVIOUS
<1>1. /\ swept' = TRUE /\ UNCHANGED <<now, boots, synced, outages>>
      /\ state = row.health => intervals' = Reviewed(state, row.boot) /\ sweep' = Idle
      /\ state # row.health =>
           /\ intervals' = {IF i \in Open THEN [i EXCEPT !.out = now] ELSE i : i \in intervals}
           /\ sweep' = [step |-> "open", state |-> state, boot |-> row.boot]
  BY <1>0 DEF Judge, hist
<1>2. SweepBoot /\ Rewrites /\ AllWritten /\ Shape
  BY DEF Owned, Known, IInv
<1>3. PICK boot : boot = row.boot
  OBVIOUS
<1>4. (boot = Never \/ boot \in boots) /\ (Current => boot = LastBoot(boots, now))
  BY <1>3, BootTime
<1>5. Current' <=> Current
  BY <1>1 DEF Current
<1>6. CASE state = row.health
  <2>1. sweep'.step = "idle"
    BY <1>1, <1>6 DEF Idle
  <2>2. Rewrites' /\ (boot = LastBoot(boots, now) => \A k \in intervals' : ~Unwritten(k)')
    BY <1>1, <1>2, <1>3, <1>4, <1>6, ReviewOwns
  <2> QED
    BY <1>1, <1>4, <1>5, <2>1, <2>2 DEF SweepBoot, AllWritten
<1>7. CASE state # row.health
  <2>1. sweep'.step = "open" /\ sweep'.boot = boot
    BY <1>1, <1>3, <1>7
  <2>2. SweepBoot'
    BY <1>1, <1>4, <2>1 DEF SweepBoot, Never
  <2>3. AllWritten'
    BY <1>1, <1>4, <1>5, <2>1 DEF AllWritten, Settled
  <2>4. ASSUME NEW k \in intervals', k.was # "NULL"
        PROVE  BootsOf(boots, k.in, k.out) # {}
    <3>1. PICK i \in intervals : k = IF i \in Open THEN [i EXCEPT !.out = now] ELSE i
      BY <1>1, <1>7
    <3>2. Rewritten(i) /\ i \in Interval
      BY <1>2 DEF Hushed, Shape
    <3>3. i \notin Open
      <4>1. i \in Open => i.was = "NULL"
        BY <3>2 DEF Rewritten, Open
      <4>2. i \in Open => k.was = i.was
        BY <3>1, <3>2 DEF Interval
      <4> QED
        BY <2>4, <4>1, <4>2
    <3> QED
      BY <1>2, <2>4, <3>1, <3>3 DEF Rewrites
  <2>5. Rewrites'
    BY <1>1, <2>4 DEF Rewrites
  <2> QED
    BY <2>2, <2>3, <2>5
<1> QED
  BY <1>6, <1>7

LEMMA SweepOwned ==
  ASSUME Known, Hushed, Owned, OpenInterval \/ WriteDevice \/ Finish, NeverAsleep
  PROVE  SweepBoot' /\ Rewrites' /\ AllWritten'
<1>1. /\ sweep.step # "idle" /\ UNCHANGED <<now, boots, synced, outages, swept>>
  BY DEF OpenInterval, WriteDevice, Finish, hist
<1>2. SweepBoot /\ Rewrites /\ AllWritten /\ Shape
  BY DEF Owned, Known, IInv
<1>3. Current' <=> Current
  BY <1>1 DEF Current
<1>4. PICK boot : boot = sweep.boot
  OBVIOUS
<1>5. (boot = Never \/ boot \in boots) /\ (outages = {} /\ Current => boot = LastBoot(boots, now))
  BY <1>1, <1>2, <1>4 DEF SweepBoot, AllWritten
<1>6. sweep \in Sweeps
  BY <1>1, <1>2 DEF Shape, Idle
<1>7. CASE OpenInterval \/ WriteDevice
  <2>1. PICK s \in {"device", "finish"} : sweep' = [sweep EXCEPT !.step = s]
    BY <1>7 DEF OpenInterval, WriteDevice
  <2>2. sweep'.step = s /\ sweep'.boot = boot
    BY <1>4, <1>6, <2>1 DEF Sweeps
  <2>3. SweepBoot' /\ AllWritten'
    BY <1>1, <1>3, <1>5, <2>2 DEF SweepBoot, AllWritten, Settled, Never
  <2>4. \A k \in intervals' : k \in intervals \/ k.was = "NULL"
    BY <1>7 DEF OpenInterval, WriteDevice
  <2>5. Rewrites'
    BY <1>1, <1>2, <2>4 DEF Rewrites
  <2> QED
    BY <2>3, <2>5
<1>8. CASE Finish
  <2>1. sweep'.step = "idle" /\ intervals' = Reviewed(sweep.state, boot)
    BY <1>4, <1>8 DEF Finish, Idle
  <2>2. PICK state : state = sweep.state
    OBVIOUS
  <2>3. Rewrites' /\ (boot = LastBoot(boots, now) => \A k \in intervals' : ~Unwritten(k)')
    BY <1>1, <1>2, <1>5, <2>1, <2>2, ReviewOwns
  <2> QED
    BY <1>1, <1>3, <1>5, <2>1, <2>3 DEF SweepBoot, AllWritten
<1> QED
  BY <1>7, <1>8

LEMMA OwnedKept == ASSUME Known, Hushed, Owned, [Next]_vars PROVE Owned'
<1>1. NeverAsleep' => NeverAsleep
  BY AsleepStays
<1>2. Shape /\ now \in Nat /\ boots \in SUBSET (0 .. now) /\ 0 \in boots /\ Outages
  BY DEF Known, IInv, Shape, Lived, Hushed
<1>3. CASE UNCHANGED <<now, boots, synced, outages, swept, sweep, intervals>>
  <2>1. AllWritten => AllWritten'
    BY <1>3 DEF AllWritten, Current, Settled, Unwritten
  <2> QED
    BY <1>1, <1>3, <2>1, OwnedFrame
<1>4. CASE \E h \in DOMAIN handlers : SyncUpdate(h)
  <2>1. synced' = synced \cup {now} /\ UNCHANGED <<now, boots, outages, swept, sweep, intervals>>
    BY <1>4 DEF SyncUpdate, job
  <2>2. Current' => Current
    BY <1>2, <2>1 DEF Current
  <2>3. AllWritten => AllWritten'
    BY <2>1, <2>2 DEF AllWritten, Settled, Unwritten
  <2> QED
    BY <1>1, <2>1, <2>3, OwnedFrame
<1>5. CASE Boot
  <2>1. boots' = boots \cup {now} /\ UNCHANGED <<now, synced, outages, swept, sweep, intervals>>
    BY <1>5 DEF Boot, job
  <2>2. LastBoot(boots', now) = now
    <3>0. now \in Nat /\ now <= now /\ 0 .. now \subseteq Nat
      BY <1>2
    <3>1. boots' \subseteq Nat /\ 0 \in boots' /\ now \in boots' /\ now <= now /\ \A x \in boots' : x <= now => x <= now
      BY <1>2, <2>1, <3>0
    <3>2. boots' \in SUBSET Nat
      BY ONLY <3>1
    <3> QED
      BY ONLY <3>0, <3>1, <3>2, LastBootIs
  <2>3. ~Current'
    <3>1. now \in Nat /\ synced \subseteq Nat
      BY <1>2 DEF Known, Seen
    <3>2. Current' <=> \E t \in synced : now <= t /\ t < now
      BY <2>1, <2>2 DEF Current
    <3> QED
      BY ONLY <3>1, <3>2
  <2>4. AllWritten'
    BY <2>3 DEF AllWritten
  <2> QED
    BY <1>1, <2>1, <2>4, OwnedFrame
<1>6. CASE Tick
  <2>1. /\ sweep = Idle /\ swept' = FALSE /\ UNCHANGED <<boots, sweep, intervals>>
    BY <1>6 DEF Tick
  <2>2. AllWritten'
    BY <2>1 DEF AllWritten, Settled, Idle
  <2> QED
    BY <1>1, <2>1, <2>2, OwnedFrame
<1>7. CASE Crash
  <2>1. /\ outages' = outages \cup {now} /\ sweep' = Idle /\ UNCHANGED <<boots, intervals>>
    BY <1>7 DEF Crash
  <2>2. AllWritten' /\ SweepBoot'
    BY <2>1 DEF AllWritten, SweepBoot, Idle
  <2>3. Rewrites => Rewrites'
    BY <2>1 DEF Rewrites
  <2> QED
    BY <1>1, <2>2, <2>3 DEF Owned
<1>8. CASE Recover
  <2>1. /\ outages' = outages /\ UNCHANGED <<boots, intervals, sweep>> /\ now \in outages
    BY <1>2, <1>8 DEF Recover, hist, Outages
  <2>2. AllWritten'
    BY <2>1 DEF AllWritten
  <2> QED
    BY <1>1, <2>1, <2>2, OwnedFrame
<1>9. CASE Judge
  BY <1>1, <1>9, JudgeOwned DEF Owned
<1>10. CASE OpenInterval \/ WriteDevice \/ Finish
  BY <1>1, <1>10, SweepOwned DEF Owned
<1> QED
  BY <1>3, <1>4, <1>5, <1>6, <1>7, <1>8, <1>9, <1>10
     DEF Next, vars, mac, job, hist, PowerOff, SleepOrWake, Network, Trouble, StopAgent,
     StartAgent, Deliver, SyncRecord, Away, Sweep

LEMMA OwnedFacts == ASSUME Known, Owned PROVE OffIsOff
<1>1. now \in Nat /\ boots \in SUBSET (0 .. now) /\ 0 \in boots
  BY DEF Known, IInv, Shape, Lived
<1>2. LastBoot(boots, now) = Max(boots)
  <2>1. \A x \in boots : x <= now
    BY <1>1
  <2>2. {x \in boots : x <= now} = boots
    BY ONLY <2>1
  <2> QED
    BY <2>2 DEF LastBoot
<1>3. \A a, b : BootsIn(a, b) = BootsOf(boots, a, b)
  BY DEF BootsIn, BootsOf
<1> SUFFICES ASSUME NeverAsleep
             PROVE  /\ \A i \in intervals : i.was # "NULL" => BootsIn(i.in, i.out) # {}
                    /\ Settled /\ outages = {} =>
                         ~\E i \in intervals : /\ i.state \in Silence /\ i.out # Never
                                               /\ Max(boots) \in BootsIn(i.in, i.out)
                                               /\ \E t \in synced : Max(boots) <= t /\ t < now
  BY DEF OffIsOff, NeverAsleep
<1>4. Rewrites /\ AllWritten
  BY DEF Owned
<1>5. \A i \in intervals : i.was # "NULL" => BootsIn(i.in, i.out) # {}
  BY <1>3, <1>4 DEF Rewrites
<1>6. ASSUME Settled, outages = {}, NEW i \in intervals, i.state \in Silence, i.out # Never,
             Max(boots) \in BootsIn(i.in, i.out), NEW t \in synced, Max(boots) <= t, t < now
      PROVE  FALSE
  <2>1. Current
    BY <1>2, <1>6 DEF Current
  <2>2. ~Unwritten(i)
    BY <1>4, <1>6, <2>1 DEF AllWritten
  <2>3. i.in < Max(boots) /\ Max(boots) <= i.out
    BY <1>6 DEF BootsIn
  <2> QED
    BY <1>2, <1>6, <2>2, <2>3 DEF Unwritten
<1> QED
  BY <1>5, <1>6

-----------------------------------------------------------------------------
(* All together. *)

\* What the server got of the spool, and when.
Received ==
  /\ now <= Horizon /\ evs \in Seq([kind : {"start", "stop"}, at : Moment])
  /\ \A i \in DOMAIN evs : evs[i].at <= now

Truth == Known /\ Booked /\ Hushed /\ Owned /\ Received

LEMMA ReceivedKept == ASSUME Heard, Known, Received, [Next]_vars PROVE Received'
<1>1. /\ now \in Nat /\ Horizon \in Nat /\ Spooled
      /\ DOMAIN evs = 1 .. Len(evs) /\ Len(evs) \in Nat /\ \A i \in DOMAIN evs : evs[i].at \in Int /\ evs[i].at <= now
  <2> DEFINE E == [kind : {"start", "stop"}, at : Moment]
  <2>1. evs \in Seq(E) /\ \A e \in E : e.at \in Int
    BY DEF Received, Moment, Never
  <2> HIDE DEF E
  <2>2. \A i \in DOMAIN evs : evs[i].at \in Int
    BY <2>1
  <2> QED
    BY <2>1, <2>2, HealthAssumption DEF Known, IInv, Shape, Received, Heard
<1>2. Spooled'
  BY StepHeard DEF Heard
<1>3. CASE UNCHANGED <<now, evs>>
  BY <1>3 DEF Received
<1>4. CASE Tick
  <2>1. now' = now + 1 /\ evs' = evs /\ now < Horizon
    BY <1>4 DEF Tick
  <2>2. now' <= Horizon /\ \A i \in DOMAIN evs : evs[i].at <= now'
    BY <1>1, <2>1
  <2> QED
    BY <2>1, <2>2 DEF Received
<1>5. CASE now' = now /\ \E kind \in {"start", "stop"} : Spool(<<kind>>)
  <2>1. PICK kind \in {"start", "stop"} : Spool(<<kind>>)
    BY <1>5
  <2> DEFINE e == [kind |-> kind, at |-> Never]
  <2>2. evs' = evs \o <<e>> /\ e.at = Never
    <3>1. [i \in 1 .. Len(<<kind>>) |-> [kind |-> <<kind>>[i], at |-> Never]] = <<e>>
      OBVIOUS
    <3> QED
      BY <2>1, <3>1 DEF Spool
  <2> HIDE DEF e
  <2>3. \A i \in DOMAIN evs' : IF i \in DOMAIN evs THEN evs'[i] = evs[i] ELSE evs'[i] = e
    BY <1>1, <2>2 DEF Received
  <2>4. Never <= now
    BY <1>1 DEF Never
  <2> QED
    BY <1>1, <1>2, <1>5, <2>2, <2>3, <2>4 DEF Received, Spooled
<1>6. CASE Deliver
  <2>1. /\ now' = now
        /\ evs' = [i \in DOMAIN evs |-> IF evs[i].at = Never THEN [evs[i] EXCEPT !.at = now] ELSE evs[i]]
    BY <1>6 DEF Deliver
  <2>2. \A i \in DOMAIN evs : evs[i] \in [kind : {"start", "stop"}, at : Moment]
    <3> DEFINE E == [kind : {"start", "stop"}, at : Moment]
    <3>1. evs \in Seq(E)
      BY DEF Received
    <3> HIDE DEF E
    <3>2. \A i \in DOMAIN evs : evs[i] \in E
      BY <3>1
    <3> QED
      BY <3>2 DEF E
  <2>3. \A i \in DOMAIN evs' : evs'[i].at <= now
    BY <1>1, <2>1, <2>2
  <2> QED
    BY <1>2, <2>1, <2>3 DEF Received, Spooled
<1> QED
  BY <1>3, <1>4, <1>5, <1>6
     DEF Next, vars, mac, job, hist, Boot, PowerOff, SleepOrWake, Network, Trouble, StopAgent,
     StartAgent, SyncRecord, SyncUpdate, Away, Sweep, Judge, OpenInterval, WriteDevice, Finish, Crash, Recover

LEMMA StepTruth == Heard /\ Truth /\ [Next]_vars => Truth'
<1> SUFFICES ASSUME Heard, Truth, [Next]_vars PROVE Truth'
  OBVIOUS
<1>1. Known /\ Booked /\ Hushed /\ Owned /\ Received
  BY DEF Truth
<1> QED
  BY <1>1, StepKnown, BookedKept, HushedKept, OwnedKept, ReceivedKept DEF Truth

LEMMA InitTruth == Init => Truth
<1> SUFFICES ASSUME Init PROVE Truth
  OBVIOUS
<1>1. /\ now = 0 /\ power = "on" /\ reach = TRUE /\ up = 0 /\ run = TRUE /\ evs = <<>> /\ api = TRUE
      /\ row = [seen |-> Never, up |-> Never, boot |-> Never, bad |-> FALSE, away |-> Never,
                health |-> "UNENROLLED", since |-> Never]
      /\ intervals = {} /\ logged = EmptyBag /\ sweep = Idle
      /\ handlers = [h \in 1 .. InFlight |-> NoCall] /\ swept = FALSE
      /\ past = <<>> /\ boots = {0} /\ synced = {} /\ overlapped = FALSE /\ outages = {} /\ marked = Never
  BY DEF Init
<1>2. IInv
  BY InitIInv
<1>3. Lived
  <2>1. UpAt(past, {0} \cup {0}, 0) = 0 /\ OnAt(past, {0} \cup {0}, 0)
    BY UpBoot
  <2>2. {0} \cup {0} = {0}
    OBVIOUS
  <2>3. past \in Seq(Powers) /\ Len(past) = now
    BY <1>1
  <2>4. UpAt(past, boots, now) = up
    BY <1>1, <2>1, <2>2
  <2>5. now \in Nat /\ boots \subseteq 0 .. now /\ 0 \in boots
    BY <1>1
  <2>6. power \in Powers /\ (power = "on" => OnAt(past, boots, now))
    BY <1>1, <2>1, <2>2 DEF Powers
  <2> QED
    BY <1>1, <2>3, <2>4, <2>5, <2>6 DEF Lived
<1>4. ~Busy /\ sweep.step = "idle" /\ DOMAIN logged = {}
  BY <1>1 DEF Busy, Idle, EmptyBag, SetToBag
<1>5. Seen /\ Reporting
  BY <1>1, <1>4 DEF Seen, Reporting
<1>6. Booked
  BY <1>1, <1>4 DEF Booked, AllHonest, AllTold, BusyTells, Once, Older
<1>7. Hushed
  BY <1>1, <1>4 DEF Hushed, Outages, Sweeping, Moment
<1>8. Owned
  BY <1>1, <1>4 DEF Owned, SweepBoot, Rewrites, AllWritten, Settled
<1>9. Received
  BY <1>1, HealthAssumption DEF Received
<1> QED
  BY <1>2, <1>3, <1>5, <1>6, <1>7, <1>8, <1>9 DEF Truth, Known

LEMMA TypeFacts == ASSUME Truth PROVE TypeOK
<1>1. Shape /\ Apart /\ Lived /\ Seen /\ Reporting /\ Booked /\ Hushed /\ Received /\ now \in Nat /\ Horizon \in Nat
  BY HealthAssumption DEF Truth, Known, IInv, Shape
<1>2. /\ now \in Time /\ now <= Horizon /\ power \in {"on", "asleep", "off"}
      /\ \A t \in Int : t <= now /\ t >= 0 => t \in Time
  BY <1>1 DEF Time, Received, Lived, Powers
<1>3. up \in Time
  <2>1. up \in Nat /\ up <= now
    BY <1>1, UpFacts DEF Lived
  <2> QED
    BY <1>2, <2>1
<1>4. {reach, bad, run, api, overlapped, cut} \subseteq BOOLEAN
  BY <1>1 DEF Lived, Shape
<1>5. \A t \in Moment : t <= now => t \in Time \cup {Never}
  BY <1>1, <1>2 DEF Moment
<1>6. \A i \in DOMAIN evs : evs[i] \in [kind : {"start", "stop"}, at : Time \cup {Never}]
  <2> DEFINE E == [kind : {"start", "stop"}, at : Moment]
  <2>1. evs \in Seq(E) /\ \A i \in DOMAIN evs : evs[i].at <= now
    BY <1>1 DEF Received
  <2> HIDE DEF E
  <2>2. \A i \in DOMAIN evs : evs[i] \in E
    BY <2>1
  <2> QED
    BY <1>5, <2>1, <2>2 DEF E
<1>7. row.seen \in synced \cup {Never} /\ row.health \in States
  BY <1>1 DEF Seen, Shape, Row
<1>8. intervals \subseteq [state : States, in : Time, out : Time \cup {Never}, told : Time \cup {Never},
                           was : {"NULL"} \cup Silence]
  <2> SUFFICES ASSUME NEW i \in intervals
               PROVE  i \in [state : States, in : Time, out : Time \cup {Never}, told : Time \cup {Never},
                             was : {"NULL"} \cup Silence]
    OBVIOUS
  <2>1. i \in Interval /\ i.in <= now /\ i.out <= now /\ (i.told # Never => i.told <= now)
    BY <1>1 DEF Shape, Apart, Hushed, ToldRight
  <2>2. i.in \in Time /\ i.out \in Time \cup {Never} /\ i.told \in Time \cup {Never}
    BY <1>2, <1>5, <2>1 DEF Interval
  <2> QED
    BY <2>1, <2>2 DEF Interval
<1>9. sweep.step \in {"idle", "open", "device", "finish"}
  BY <1>1 DEF Shape, Idle, Sweeps
<1>10. \A r \in BagToSet(logged) : r.kind \in {"power_on", "asleep", "unreported"} /\ r.to \in r.at .. r.at + r.gap
  BY <1>1 DEF BagToSet, Booked, AllHonest, Honest, Entry, Kinds
<1>11. \A h \in DOMAIN handlers : handlers[h].up \in Time \cup {Never}
  <2> SUFFICES ASSUME NEW h \in 1 .. InFlight PROVE handlers[h].up \in Time \cup {Never}
    BY <1>1 DEF Shape
  <2>1. handlers[h] = NoCall => handlers[h].up = Never
    BY DEF NoCall
  <2>2. handlers[h] # NoCall => handlers[h].up = up
    BY <1>1 DEF Reporting, Busy
  <2> QED
    BY <1>3, <2>1, <2>2
<1> QED
  BY <1>2, <1>3, <1>4, <1>6, <1>7, <1>8, <1>9, <1>10, <1>11 DEF TypeOK

\* Everything told a parent is true, for any thresholds, windows, lengths of an
\* away mark, check-ins at once, changes of the Mac and restarts of the API: what
\* buzzed the phone was a silence, what the log says of a gap, a sleep or a boot
\* is what the Mac did, once, and a silence rewritten as off had the Mac started in
\* it (routes/sync.ts, recordPowerOn and recordGap; jobs/liveness.ts, maybeNotify
\* and reclassifyIfMachineWasOff).
THEOREM ToldTrulyAlways == Spec => []ToldTruly
<1>1. Truth => ToldTruly
  BY TypeFacts, HushedFacts, BookedFacts, OwnedFacts DEF Truth, ToldTruly
<1> QED
  BY <1>1, InitHeard, StepHeard, InitTruth, StepTruth, PTL DEF Spec

=============================================================================
