------------------------------ MODULE Compiler ------------------------------
(***************************************************************************)
(* From what the parent wrote down to what one Mac obeys, night after      *)
(* night: the grants and calendar exceptions in the database, the compiler *)
(* that turns them into a policy document for the next 21 days             *)
(* (apps/api/src/policy), the handlers that write them, the job that       *)
(* recompiles every 24 hours, and the Mac, which evaluates whatever        *)
(* document it holds with BedtimePredicate.                                *)
(*                                                                         *)
(* One child, one Mac, delivery at once (late delivery is Policy's         *)
(* subject).  A day has DayLen units; zone rules are abstracted away.      *)
(* Every exception is for all windows: the API writes no other             *)
(* (parent-rules.ts, window_id is never set).                              *)
(***************************************************************************)
EXTENDS Restriction
LOCAL INSTANCE SequencesExt
LOCAL INSTANCE FiniteSetsExt

CONSTANTS
  WindowLists,     \* schedules a child may have
  HolidaySets,     \* sets of days the library may call public holidays
  ExceptionDays,   \* days the parent may write an exception for
  Minutes,         \* sizes of a custom or granted extension
  HorizonDays,     \* HORIZON_DAYS
  NightEnd,        \* 06:00, as a time of day
  MaxGrantsPerDay, \* override_policy.max_grants_per_day
  MaxMinutesPerDay,
  FirstDay, LastDay,  \* the days watched (bounds `now')
  MaxGrants,       \* grants in a behaviour (bound)
  MaxRestarts,     \* server restarts in a behaviour (bound)
  MaxExceptions,   \* exceptions in a behaviour (bound)
  OneWordPerDay    \* BOOLEAN: the parent writes one exception for a day, never a second

ASSUME CompilerAssumption ==
  /\ HorizonDays \in Nat \ {0}
  /\ NightEnd \in 1..DayLen - 1

VARIABLES
  now,
  windows,     \* schedule_windows
  holidays,    \* what date-holidays answers
  exceptions,  \* calendar_exceptions, a sequence of rows
  grants,      \* overrides granted by the parent, a sequence of rows
  doc,         \* the newest policy version, and the Mac's current one
  timerSince,  \* when the recompile job's interval began
  restarts     \* server restarts so far

vars == <<now, windows, holidays, exceptions, grants, doc, timerSince, restarts>>

Weekend == {5, 6}

-----------------------------------------------------------------------------
(* compile.ts *)

\* When a whole-day relaxation ends.
EndOfDay(d) == (d + 1) * DayLen

Duration(w) == Span(w, 0).until - Span(w, 0).from

\* Mutant: the horizon is today.
MutInHorizon(d, at) == d = DayOf(at)

InHorizon(d, at) == DayOf(at) <= d /\ d <= DayOf(at) + HorizonDays

Override(id, type, window, day, minutes, expires) ==
  [id |-> id, type |-> type, window |-> window, day |-> day,
   minutes |-> minutes, expires |-> expires]

\* "Treat this day like a weekend": each window of that day starts when the
\* latest weekend window would, by at most its own length.
TreatAsWeekend(kind, n, d) ==
  LET weekend == {i \in DOMAIN windows : windows[i].days \cap Weekend # {}}
      start   == Max({windows[i].from : i \in weekend})
      relaxed == {i \in DOMAIN windows : /\ Weekday(d) \in windows[i].days
                                         /\ start > windows[i].from}
  IN  IF weekend = {} THEN {}
      ELSE {Override(<<kind, n, i>>, "extend", i, d,
                     Min({start - windows[i].from, Duration(windows[i])}),
                     Span(windows[i], d).until) : i \in relaxed}

FromException(n, e) ==
  CASE e.effect = "no_bedtime" ->
         {Override(<<"exception", n, 0>>, "suspend", 0, e.day, 0, EndOfDay(e.day))}
    [] e.effect = "custom" ->
         {Override(<<"exception", n, 0>>, "extend", 0, e.day, e.minutes, EndOfDay(e.day))}
    [] e.effect = "treat_as_weekend" -> TreatAsWeekend("exception", n, e.day)
    [] OTHER -> {}   \* dismiss_holiday emits nothing

\* The calendar's relaxations: what the parent wrote, then the library for the
\* days the parent has not spoken about.
Synthesise(at) ==
  LET rows    == {k \in DOMAIN exceptions : InHorizon(exceptions[k].day, at)}
      library == {d \in holidays : /\ InHorizon(d, at)
                                   /\ \A k \in rows : exceptions[k].day # d}
  IN  UNION {FromException(k, exceptions[k]) : k \in rows}
      \cup UNION {TreatAsWeekend("holiday", d, d) : d \in library}

\* The grants gather() selects: not revoked, not expired.
LiveGrants(at) ==
  {Override(<<"grant", g, 0>>, grants[g].type, 0, grants[g].day, grants[g].minutes,
            grants[g].expires) :
     g \in {k \in DOMAIN grants : ~grants[k].revoked /\ grants[k].expires > at}}

CompilePolicy(at) ==
  [issued    |-> at,
   windows   |-> windows,
   overrides |-> SetToSeq({o \in LiveGrants(at) \cup Synthesise(at) : o.expires > at})]

\* Mutant: the hash covers the issue date as well.
MutContent(d) == d

\* What the content hash covers (CONTENT_HASH_EXCLUDED).
Content(d) == [windows |-> d.windows, overrides |-> d.overrides]

\* publishPolicy: no new version when the content did not change.
Publish(at) ==
  doc' = IF Content(CompilePolicy(at)') = Content(doc) THEN doc ELSE CompilePolicy(at)'

-----------------------------------------------------------------------------
(* The handlers and the job *)

\* 06:00 that ends the night `at' belongs to.
EndOfNight(at) ==
  (IF at % DayLen < NightEnd THEN DayOf(at) ELSE DayOf(at) + 1) * DayLen + NightEnd

GrantsToday == {g \in DOMAIN grants : grants[g].day = DayOf(now) /\ ~grants[g].revoked}

WithinCaps(minutes) ==
  /\ Cardinality(GrantsToday) < MaxGrantsPerDay
  /\ minutes + MapThenSumSet(LAMBDA g : grants[g].minutes, GrantsToday)
       <= MaxMinutesPerDay

Init ==
  /\ now = FirstDay * DayLen
  /\ windows \in WindowLists
  /\ holidays \in HolidaySets
  /\ exceptions = <<>>
  /\ grants = <<>>
  /\ timerSince \in now - DayLen + 1..now
  /\ doc = CompilePolicy(timerSince)
  /\ restarts = 0

\* POST /overrides (handleGrantOverride).
GrantOverride ==
  \E type \in {"extend", "suspend"}, m \in Minutes :
    LET minutes == IF type = "extend" THEN m ELSE 0
    IN  /\ Len(grants) < MaxGrants
        /\ WithinCaps(minutes)
        /\ grants' = Append(grants, [type |-> type, minutes |-> minutes,
                                     day |-> DayOf(now), expires |-> EndOfNight(now),
                                     revoked |-> FALSE])
        /\ UNCHANGED <<now, windows, holidays, exceptions, timerSince, restarts>>
        /\ Publish(now)

\* DELETE /overrides/:id (handleRevokeOverride).
RevokeOverride ==
  \E g \in DOMAIN grants :
    /\ ~grants[g].revoked
    /\ grants' = [grants EXCEPT ![g].revoked = TRUE]
    /\ UNCHANGED <<now, windows, holidays, exceptions, timerSince, restarts>>
    /\ Publish(now)

\* POST /rules/calendar (handleUpsertException).  The unique key holds the
\* window, which is NULL, and NULLs are distinct: it is always an insertion.
UpsertException ==
  \E d \in ExceptionDays, m \in Minutes,
     effect \in {"treat_as_weekend", "no_bedtime", "custom", "dismiss_holiday"} :
    /\ Len(exceptions) < MaxExceptions
    /\ OneWordPerDay => \A k \in DOMAIN exceptions : exceptions[k].day # d
    /\ exceptions' = Append(exceptions,
                            [day |-> d, effect |-> effect,
                             minutes |-> IF effect = "custom" THEN m ELSE 0])
    /\ UNCHANGED <<now, windows, holidays, grants, timerSince, restarts>>
    /\ Publish(now)

\* recompileHorizons, when its interval has passed.
RecompileHorizons ==
  /\ now = timerSince + DayLen
  /\ timerSince' = now
  /\ UNCHANGED <<now, windows, holidays, exceptions, grants, restarts>>
  /\ Publish(now)

\* The server restarts: "nightly" means every 24 h since boot, and not at boot.
Restart ==
  /\ restarts < MaxRestarts
  /\ now < timerSince + DayLen
  /\ restarts' = restarts + 1
  /\ timerSince' = now
  /\ UNCHANGED <<now, windows, holidays, exceptions, grants, doc>>

Tick ==
  /\ now < timerSince + DayLen
  /\ now < (LastDay + 1) * DayLen - 1
  /\ now' = now + 1
  /\ UNCHANGED <<windows, holidays, exceptions, grants, doc, timerSince, restarts>>

Next ==
  \/ GrantOverride \/ RevokeOverride \/ UpsertException
  \/ RecompileHorizons \/ Restart \/ Tick

Spec == Init /\ [][Next]_vars
=============================================================================
