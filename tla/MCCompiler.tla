----------------------------- MODULE MCCompiler -----------------------------
(***************************************************************************)
(* Three days (Thursday to Saturday) of one child: a school-night bedtime, *)
(* a later weekend one, and quiet hours in the afternoon.  DayLen is 8, so *)
(* a unit is three hours and 06:00 is 2.                                   *)
(***************************************************************************)
EXTENDS Compiler

Window(days, from, until, watch) ==
  [days |-> days, from |-> from, until |-> until, watch |-> watch, action |-> "shutdown",
   grace |-> 1, leads |-> {1, 2}]

SchoolNights  == Window({0, 1, 2, 3, 4, 6}, 6, 2, 3)
WeekendNights == Window({5}, 7, 3, 4)
QuietHours    == Window({0, 1, 2, 3, 4}, 4, 5, None)

OneList  == {<<SchoolNights, WeekendNights, QuietHours>>}
Lists    == OneList

\* A bedtime just after midnight, and an evening with a longer one that only warns.
AllLists ==
  Lists \cup {<<Window(0..6, 1, 3, None)>>,
             <<Window(0..6, 6, 2, 3), [Window(0..6, 5, 3, 4) EXCEPT !.action = "warn_only"]>>}
Holidays == {{4}}
Days     == {3, 4}
OneSize  == {1}

-----------------------------------------------------------------------------
\* What the parent has said about the night that begins on day d, read from
\* the tables alone.
Rows(d)     == {k \in DOMAIN exceptions : exceptions[k].day = d}
Granted(d)  == {g \in DOMAIN grants : /\ grants[g].day = d
                                      /\ ~grants[g].revoked
                                      /\ now < grants[g].expires}
Said(d, effect) == {k \in Rows(d) : exceptions[k].effect = effect}

LikeWeekend(d) == Said(d, "treat_as_weekend") # {} \/ (d \in holidays /\ Rows(d) = {})

NoNight(d) ==
  \/ Said(d, "no_bedtime") # {} /\ DayOf(now) = d
  \/ \E g \in Granted(d) : grants[g].type = "suspend"

Later(d) ==
  Cardinality({g \in Granted(d) : grants[g].type = "extend"})
    + (IF DayOf(now) = d THEN Cardinality(Said(d, "custom")) ELSE 0)

\* The weekend's bedtime is 7: quiet hours have no room for it and vanish.
Start(w, d) ==
  (IF LikeWeekend(d) /\ w.from < 7
     THEN IF w = QuietHours THEN Span(w, d).until ELSE d * DayLen + 7
     ELSE Span(w, d).from)
  + Later(d)

(* The Mac enforces exactly what the parent's tables say of this instant:   *)
(* the night of a day restricts from its bedtime, or the weekend's on a     *)
(* holiday or when the parent said so, later by every live grant, and not   *)
(* at all when it is called off - although the Mac holds a document         *)
(* compiled up to two days ago, and whatever was dismissed, revoked or has  *)
(* run out since.                                                           *)
IntentHolds ==
  Restricted(doc, now) <=>
    \E i \in DOMAIN windows : \E d \in {DayOf(now) - 1, DayOf(now)} :
      LET w == windows[i]
      IN  /\ Weekday(d) \in w.days
          /\ ~NoNight(d)
          /\ Start(w, d) <= now /\ now < Span(w, d).until

(* "The parent's history never calls a moment after bedtime that the Mac    *)
(* did not treat as such" (restriction.ts): the two implementations find    *)
(* the same window enforced at every instant, through holidays, exceptions, *)
(* grants and their ends; and nothing is watched while the Mac enforces.    *)
ServerAgrees ==
  LET server == RestrictionAt(doc, now)
  IN  IF Restricted(doc, now)
      THEN server # None /\ server.phase = "enforced" /\ server.window = ActiveWindow(doc, now)
      ELSE server = None \/ server.phase = "watch"

(* A restriction that begins because time passed was announced by the Mac   *)
(* the instant before, unless what began it is a relaxation running out     *)
(* (X10 locks that one unwarned, by decision) or a version with less of it. *)
NoUnannouncedStart ==
  [][(doc' = doc /\ ~Restricted(doc, now) /\ Restricted(doc, now'))
       => \/ \E w \in DueWarnings(doc, now) : w.boundary = now'
          \/ \E i \in DOMAIN doc.overrides : doc.overrides[i].expires = now']_vars

(* The churn-killer (publish.ts): a new version means that the parent said  *)
(* something, that a relaxation ran out, or that the horizon moved.         *)
NoChurn ==
  [][doc' # doc =>
       \/ grants' # grants \/ exceptions' # exceptions
       \/ \E k \in DOMAIN doc.overrides : doc.overrides[k].expires <= now
       \/ DayOf(doc.issued) # DayOf(now)]_vars

-----------------------------------------------------------------------------
(* parent-overrides.ts:96-98: a grant expires "at the end of the local    *)
(* night the grant belongs to".  So "No bedtime tonight" leaves the Mac     *)
(* unrestricted when it is granted.                                         *)
GrantRelaxes ==
  [][\A g \in DOMAIN grants' :
       (g \notin DOMAIN grants /\ grants'[g].type = "suspend")
         => ~Restricted(doc', now)]_vars

(* parent-overrides.ts:266-270, of relaxations that end at midnight: a      *)
(* window that wraps "would lose its relaxation at exactly the wrong        *)
(* moment".  So a night the calendar calls off is off to its end.           *)
NightOff ==
  \A k \in DOMAIN exceptions : \A i \in DOMAIN windows :
    LET s == Span(windows[i], exceptions[k].day)
    IN  (/\ exceptions[k].effect = "no_bedtime"
         /\ Weekday(exceptions[k].day) \in windows[i].days
         /\ s.from <= now /\ now < s.until)
        => ~Restricted(doc, now)

(* restriction.ts: "A night with no bedtime has no watch either."  A night  *)
(* the parent gave free is not watched in the morning after it.             *)
NoBedtimeNoWatch ==
  \A g \in DOMAIN grants : \A i \in DOMAIN windows :
    LET until == Span(windows[i], grants[g].day).until
        server == RestrictionAt(doc, now)
    IN  (/\ grants[g].type = "suspend" /\ ~grants[g].revoked
         /\ Weekday(grants[g].day) \in windows[i].days
         /\ windows[i].watch # None /\ until <= now /\ now < WatchEnd(windows[i], until))
        => server = None \/ server.window # windows[i]

(* BedtimePredicate.swift:100, of a due warning: "Due from its moment until *)
(* the boundary", tonight's and tomorrow's alike.                           *)
DueFromItsMoment ==
  doc.overrides = <<>> =>
    \A i \in DOMAIN doc.windows : \A d \in FirstDay .. LastDay :
      LET w == doc.windows[i]
          from == Span(w, d).from
      IN \A l \in w.leads :
           (Weekday(d) \in w.days /\ from - l <= now /\ now < from)
             => [lead |-> l, boundary |-> from] \in DueWarnings(doc, now)

(* BedtimePredicate.swift:83-84, where two windows overlap: "Latest-ending  *)
(* window wins when two overlap: more restriction, never less".  So while a *)
(* covering window locks, the winner locks.                                 *)
OverlapNeverLess ==
  (\E c \in Covering(doc, now) : doc.windows[c.idx].action # "warn_only")
    => ActiveWindow(doc, now).action # "warn_only"

(* parent-rules.ts:655-660: an exception for a day "fires for other         *)
(* child-wide rows", that is, it overwrites what was said of the day        *)
(* before: dismissing a holiday takes back an earlier "no bedtime".         *)
LastWordStands ==
  \A k \in DOMAIN exceptions :
    (/\ exceptions[k].effect = "dismiss_holiday"
     /\ \A l \in DOMAIN exceptions : l > k => exceptions[l].day # exceptions[k].day)
    => \A o \in DOMAIN doc.overrides :
         doc.overrides[o].day = exceptions[k].day => doc.overrides[o].id[1] = "grant"
=============================================================================
