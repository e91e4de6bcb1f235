-------------------------- MODULE BedtimePredicate --------------------------
(***************************************************************************)
(* The question the enforcer asks every minute: is the Mac inside a        *)
(* restricted window right now, and which warnings are due?                *)
(* (agent/Sources/HPCCore/BedtimePredicate.swift.)                         *)
(*                                                                         *)
(* An instant is a number of time units; local day d runs from d * DayLen  *)
(* to (d+1) * DayLen.  A policy document is a record                       *)
(*   [windows : Seq([days, from, until, action, grace, leads]),            *)
(*    overrides : Seq([type, window, day, minutes, expires])]              *)
(* where `from' and `until' are times of day, `days' the weekdays a window *)
(* runs on, `leads' its warning leads, and an override's `window' is the   *)
(* index of the window it is scoped to, or 0 for every window.             *)
(* Zone rules (DST) are abstracted away: every local day has DayLen units. *)
(* Operators called Mut... are mistakes the properties must catch.         *)
(***************************************************************************)
EXTENDS Integers, Sequences, FiniteSets
LOCAL INSTANCE SequencesExt

CONSTANTS
  DayLen,     \* units in one local day
  None        \* absence of a value

ASSUME DayLenAssumption == DayLen \in Nat \ {0}

DayOf(t) == t \div DayLen

Weekday(d) == d % 7

\* One window on one local day, as instants.  An end that is not after its
\* start belongs to the next local day.
Span(w, d) ==
  [from  |-> d * DayLen + w.from,
   until |-> (IF w.until <= w.from THEN d + 1 ELSE d) * DayLen + w.until]

\* Mutant: an override still counts at the instant it expires.
MutApplies(o, i, d, now) ==
  /\ o.expires >= now
  /\ o.window \in {0, i}
  /\ o.day = d

\* Does this override relax window number i on day d at instant now?
Applies(o, i, d, now) ==
  /\ o.expires > now
  /\ o.window \in {0, i}
  /\ o.day = d

\* Mutant: extra time moves the end of the night as well.
MutRelax(s, o) ==
  CASE o.type = "suspend" -> [s EXCEPT !.until = s.from]
    [] o.type = "extend" /\ o.minutes > 0 ->
         [from |-> s.from + o.minutes, until |-> s.until + o.minutes]
    [] OTHER -> s

\* One relaxation.  `suspend' collapses the span; `extend' moves the start
\* only, clamped to the end; any other type relaxes nothing.
Relax(s, o) ==
  CASE o.type = "suspend" -> [s EXCEPT !.until = s.from]
    [] o.type = "extend" /\ o.minutes > 0 ->
         [s EXCEPT !.from =
            IF s.from + o.minutes > s.until THEN s.until ELSE s.from + o.minutes]
    [] OTHER -> s

\* The document's overrides, applied in document order.
ApplyOverrides(doc, i, d, now) ==
  FoldLeft(LAMBDA s, o : IF Applies(o, i, d, now) THEN Relax(s, o) ELSE s,
           Span(doc.windows[i], d), doc.overrides)

\* Mutant: today's windows only.
MutDaysConsidered(now) == {DayOf(now)}

\* The days evaluate() looks at: yesterday (for windows that wrap past
\* midnight) and today.
DaysConsidered(now) == {DayOf(now) - 1, DayOf(now)}

\* Every span with something left to enforce.
Spans(doc, now) ==
  LET candidates ==
        {[idx |-> i, day |-> d, span |-> ApplyOverrides(doc, i, d, now)] :
           i \in DOMAIN doc.windows, d \in DaysConsidered(now)}
  IN  {c \in candidates :
         /\ Weekday(c.day) \in doc.windows[c.idx].days
         /\ c.span.until > c.span.from}

\* The half-open predicate [from, until).
Covering(doc, now) ==
  {c \in Spans(doc, now) : c.span.from <= now /\ now < c.span.until}

\* Latest-ending span wins; among equals the first one met in document order,
\* yesterday before today.
Wins(a, b) ==
  \/ a.span.until > b.span.until
  \/ a.span.until = b.span.until /\ a.idx < b.idx
  \/ a.span.until = b.span.until /\ a.idx = b.idx /\ a.day <= b.day

ActiveWindow(doc, now) ==
  LET C == Covering(doc, now)
  IN  IF C = {} THEN None
      ELSE doc.windows[(CHOOSE c \in C : \A o \in C : Wins(c, o)).idx]

\* Mutant: the countdown ignores the overrides.
MutDueWarnings(doc, now) ==
  UNION {{[lead |-> l, boundary |-> Span(doc.windows[c.idx], c.day).from] :
            l \in {x \in doc.windows[c.idx].leads :
                     /\ Span(doc.windows[c.idx], c.day).from - x <= now
                     /\ now < Span(doc.windows[c.idx], c.day).from}} :
         c \in Spans(doc, now)}

\* Due from the lead's moment until the boundary.
DueWarnings(doc, now) ==
  UNION {{[lead |-> l, boundary |-> c.span.from] :
            l \in {x \in doc.windows[c.idx].leads :
                     c.span.from - x <= now /\ now < c.span.from}} :
         c \in Spans(doc, now)}

\* What one tick concludes.
Evaluate(doc, now) ==
  [active |-> ActiveWindow(doc, now), due |-> DueWarnings(doc, now)]

Restricted(doc, now) == ActiveWindow(doc, now) # None
=============================================================================
