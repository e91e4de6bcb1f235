------------------------------ MODULE Restriction ------------------------------
(***************************************************************************)
(* The server's own answer to "was this moment restricted?", which the     *)
(* parent's history judges rows by: enforced, watched, or neither          *)
(* (apps/api/src/lib/restriction.ts).  It reads the document the Mac       *)
(* enforces, and the file calls itself "a mirror of the agent's            *)
(* BedtimePredicate, rule for rule", written a second time in another      *)
(* language; BedtimePredicate is the Mac's.                                *)
(*                                                                         *)
(* A window has, besides, `watch': the time of day its watch ends, or None.*)
(***************************************************************************)
EXTENDS BedtimePredicate
LOCAL INSTANCE FiniteSetsExt

\* "Two days back as well as today".
DaysBack(at) == DayOf(at) - 2 .. DayOf(at)

\* Mutant: an override that runs out now still counts.
MutRelaxations(doc, i, d, at) ==
  {k \in DOMAIN doc.overrides : LET o == doc.overrides[k] IN
     o.expires >= at /\ o.window \in {0, i} /\ o.day = d}

Relaxations(doc, i, d, at) ==
  {k \in DOMAIN doc.overrides : LET o == doc.overrides[k] IN
     o.expires > at /\ o.window \in {0, i} /\ o.day = d}

Suspended(doc, i, d, at) ==
  \E k \in Relaxations(doc, i, d, at) : doc.overrides[k].type = "suspend"

\* Extra time moves the start, to the end at the most.
EffectiveFrom(doc, i, d, at) ==
  LET span == Span(doc.windows[i], d)
      extra == MapThenSumSet(LAMBDA k : doc.overrides[k].minutes,
                 {k \in Relaxations(doc, i, d, at) : doc.overrides[k].type = "extend"})
  IN  IF Suspended(doc, i, d, at) THEN span.until ELSE Min({span.from + extra, span.until})

\* The watch after a night: from its end to the next time the clock shows watch_until.
WatchEnd(w, until) ==
  LET that == DayOf(until) * DayLen + w.watch IN IF that <= until THEN that + DayLen ELSE that

Nights(doc, at) ==
  {n \in (DOMAIN doc.windows) \X DaysBack(at) : Weekday(n[2]) \in doc.windows[n[1]].days}

Until(doc, n) == Span(doc.windows[n[1]], n[2]).until

EnforcedBy(doc, at) ==
  {n \in Nights(doc, at) : EffectiveFrom(doc, n[1], n[2], at) <= at /\ at < Until(doc, n)}

WatchedBy(doc, at) ==
  {n \in Nights(doc, at) \ EnforcedBy(doc, at) : LET w == doc.windows[n[1]] IN
     /\ w.watch # None /\ ~Suspended(doc, n[1], n[2], at)
     /\ Until(doc, n) <= at /\ at < WatchEnd(w, Until(doc, n))}

\* The latest to end wins; of several, the first in the document, and its first day.
Latest(doc, nights) ==
  CHOOSE n \in nights : \A o \in nights :
    \/ Until(doc, n) > Until(doc, o)
    \/ Until(doc, n) = Until(doc, o) /\ (n[1] < o[1] \/ (n[1] = o[1] /\ n[2] <= o[2]))

RestrictionAt(doc, at) ==
  LET enforced == EnforcedBy(doc, at)
      watched  == WatchedBy(doc, at)
      Answer(phase, n) == [phase |-> phase, window |-> doc.windows[n[1]],
                           from |-> IF phase = "enforced"
                                    THEN EffectiveFrom(doc, n[1], n[2], at) ELSE None]
  IN  IF enforced # {} THEN Answer("enforced", Latest(doc, enforced))
      ELSE IF watched # {} THEN Answer("watch", Latest(doc, watched))
      ELSE None
================================================================================
