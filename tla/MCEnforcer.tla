----------------------------- MODULE MCEnforcer -----------------------------
(***************************************************************************)
(* Small instances of Enforcer.  Policies are named by strings and answer  *)
(* through BedtimePredicate, on a local day of 24 units; a tick comes      *)
(* every 3 units, more or less one, as the 60 s timer does with its leeway *)
(* (Reassert = 3, Tolerance = 1).                                          *)
(***************************************************************************)
EXTENDS Enforcer

DayLen == 24
P == INSTANCE BedtimePredicate

Bedtime(from, until, action) ==
  [days |-> 0..6, from |-> from, until |-> until, action |-> action,
   grace |-> 5, leads |-> {3, 6}]

Doc(name) ==
  CASE name = "school"   -> [windows |-> <<Bedtime(9, 20, "shutdown")>>, overrides |-> <<>>]
    [] name = "lockOnly" -> [windows |-> <<Bedtime(9, 20, "lock")>>, overrides |-> <<>>]
    [] name = "watch"    -> [windows |-> <<Bedtime(6, 20, "warn_only")>>, overrides |-> <<>>]
    [] name = "late"     -> [windows |-> <<Bedtime(9, 20, "shutdown")>>,
                             overrides |-> <<[type |-> "extend", window |-> 0, day |-> 0,
                                              minutes |-> 4, expires |-> 24]>>]
    [] name = "free"     -> [windows |-> <<>>, overrides |-> <<>>]

MCDocs == {"school", "lockOnly", "watch", "late", "free"}

Answer(d, t) ==
  LET ev == P!Evaluate(Doc(d), t)
  IN  [active |-> IF ev.active = None THEN None
                  ELSE [action |-> ev.active.action, grace |-> ev.active.grace],
       due |-> ev.due]

\* Evaluated once: TLC keeps the value of a constant definition.
Table == [d \in Docs, t \in 0..Horizon |-> Answer(d, t)]
MCEvaluation(d, t) == Table[d, t]

\* Start of the window in force at instant t.
WindowStart(d, t) ==
  (CHOOSE c \in P!Covering(Doc(d), t) :
     \A o \in P!Covering(Doc(d), t) : P!Wins(c, o)).span.from

(* Ladder.swift:57-58 (doc comment): "Lead-minute values successfully       *)
(* DELIVERED during this episode."  The notice that unlocks a shutdown is   *)
(* notice of THIS bedtime, not of one that passed or was cancelled.  Stated *)
(* of episodes that began inside the window they end in.                    *)
WarnedForThisBoundary ==
  Shutdown /\ hist.open >= WindowStart(Held, last.at) =>
    \E w \in hist.shown : w.boundary = WindowStart(Held, last.at)

(* Ladder.swift:12-13 and :56: the shutdown stands at T+300s of the window  *)
(* being enforced, "When the current restricted episode began": its grace   *)
(* is counted from no earlier than the window's own start.                  *)
GraceOfThisWindow ==
  Shutdown => last.at - WindowStart(Held, last.at) >= last.active.grace
=============================================================================
