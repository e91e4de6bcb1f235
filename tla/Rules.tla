------------------------------- MODULE Rules -------------------------------
(***************************************************************************)
(* The rules page and what it asks of the server: a draft edited in a      *)
(* browser, saved, reviewed as the compiled document, published or         *)
(* restored from the history (apps/web/src/app/(app)/rules/page.tsx,       *)
(* apps/api/src/routes/parent-rules.ts), by several browsers at once.      *)
(*                                                                         *)
(* A window is its row's id, the time it starts and whether it has         *)
(* warnings; its other columns follow the start.  All the Macs are one     *)
(* child's and share a policy set.  How a version reaches the Mac, and     *)
(* grants, are Policy's subject; here they are the publications of others  *)
(* (Recompile).  Every handler is cut where the code awaits something that *)
(* another request or the parent can overtake.                             *)
(***************************************************************************)
EXTENDS Integers, Sequences

CONSTANTS
  Tabs,         \* browsers with the rules page open
  Macs,         \* publishTargets: the child's enrolled Macs
  Starts,       \* the times a bedtime may start
  Day,          \* length of a day
  Soon,         \* IMMEDIATE_EFFECT_WINDOW_MS
  Caps,         \* what the extra-time limits may be
  FirstStarts, FirstCaps,  \* what the set holds at first
  None,
  Horizon,      \* how long the behaviour lasts (bound)
  Does,         \* what each parent does besides: [Tabs -> SUBSET Habits] (bound)
  MaxClicks     \* what the parents do on the pages (bound)

\* Editing, reviewing and publishing are everybody's.
Habits == {"pick", "discard", "restore", "limits"}

ASSUME RulesAssumption ==
  /\ Day \in Nat \ {0} /\ Starts \subseteq 0..(Day - 1) /\ Soon \in Nat
  /\ FirstStarts \subseteq Starts /\ FirstCaps \in Caps
  /\ Horizon \in Nat /\ MaxClicks \in Nat
  /\ Does \in [Tabs -> SUBSET Habits]
  /\ None \notin Macs /\ None \notin Tabs

VARIABLES
  now,
  (* the database *)
  windows,    \* schedule_windows of the set, with their warnings
  caps,       \* the limits in policy_sets
  writes,     \* transactions so far; a window's id is its write's number
  versions,   \* policy_versions: [Macs -> Seq(document)]
  lock,       \* whose publication holds the device's row
  (* the browsers *)
  page,       \* what each shows: [rules, draft, mac, diff]
  call,       \* the handler under way: its next step, the Mac picked when it began, what follows,
              \* and what it carries
  late,       \* answers to loadDiff not yet arrived, of an earlier pick
  clicks      \* bookkeeping

database == <<windows, caps, writes, versions, lock>>
vars == <<now, database, page, call, late, clicks>>

Ids(wins) == {w.id : w \in wins}

Fresh(wins) == {[id |-> <<writes + 1, w.from>>, from |-> w.from, warned |-> w.warned] : w \in wins}

\* compilePolicy: what the agent would obey now; `write` is bookkeeping.
Compiled == [windows |-> windows, caps |-> caps, write |-> writes]

\* The content hash: the rows' ids count.
Same(document, other) == document.windows = other.windows /\ document.caps = other.caps

Newest(m) == versions[m][Len(versions[m])]

MinutesUntil(from) == (from - now) % Day

\* detectTightening: a window that starts soon and is new, or starts earlier than it did.
Tightening(current, proposed) ==
  \E w \in proposed.windows :
    /\ MinutesUntil(w.from) <= Soon
    /\ \A before \in current.windows :
         before.id = w.id => MinutesUntil(w.from) < MinutesUntil(before.from)

\* handleRulesHistory lists versions 1 to this one.
Listed(m) == Len(versions[m])

\* handleRulesDiff, which the page asks for together with the history.
Diff(m) ==
  [mac |-> m, proposed |-> Compiled, version |-> Listed(m),
   changed |-> ~Same(Compiled, Newest(m)), confirm |-> Tightening(Newest(m), Compiled)]

\* A handler at a step of its own; `load` is what it carries there, `document` what it compiled.
Call(step, m, then, load) ==
  [step |-> step, mac |-> m, then |-> then, load |-> load, document |-> None]

Idle == Call("idle", None, "idle", None)

Busy(t) == call[t].step # "idle"

Unsaved(t) == page[t].draft # page[t].rules.windows

Init ==
  /\ now = 0
  /\ windows = {[id |-> <<0, s>>, from |-> s, warned |-> TRUE] : s \in FirstStarts}
  /\ caps = FirstCaps
  /\ writes = 0
  /\ versions = [m \in Macs |-> <<Compiled>>]
  /\ lock = [m \in Macs |-> None]
  /\ \E m \in Macs :
       page = [t \in Tabs |-> [rules |-> [windows |-> windows, caps |-> caps], draft |-> windows,
                               mac |-> m, diff |-> Diff(m)]]
  /\ call = [t \in Tabs |-> Idle]
  /\ late = [t \in Tabs |-> {}]
  /\ clicks = 0

Goto(t, c) == call' = [call EXCEPT ![t] = c]

-----------------------------------------------------------------------------
(* The page *)

\* Another Mac is picked, which nothing disables: loadDiff for it, ordered with no other.
Pick(t) ==
  /\ \E m \in Macs \ {page[t].mac} :
       /\ page' = [page EXCEPT ![t].mac = m]
       /\ late' = [late EXCEPT ![t] = @ \cup {Diff(m)}]
  /\ UNCHANGED <<now, database, call>>

Arrive(t) ==
  /\ \E answer \in late[t] :
       /\ page' = [page EXCEPT ![t].diff = answer]
       /\ late' = [late EXCEPT ![t] = @ \ {answer}]
  /\ UNCHANGED <<now, database, call>>

\* The window editor's fields.
MoveWindow(t) ==
  \E w \in page[t].draft : \E s \in Starts \ {w.from} :
    page' = [page EXCEPT ![t].draft = (@ \ {w}) \cup {[w EXCEPT !.from = s]}]

RemoveWindow(t) == \E w \in page[t].draft : page' = [page EXCEPT ![t].draft = @ \ {w}]

\* "Add a window", bounded to an empty page.
AddWindow(t) ==
  /\ page[t].draft = {}
  /\ \E s \in Starts :
       page' = [page EXCEPT ![t].draft = {[id |-> None, from |-> s, warned |-> TRUE]}]

\* Busy or not; one edit stands for several.
Edit(t) ==
  /\ ~Unsaved(t)
  /\ MoveWindow(t) \/ RemoveWindow(t) \/ AddWindow(t)
  /\ UNCHANGED <<now, database, call, late>>

Discard(t) ==
  /\ ~Busy(t) /\ Unsaved(t)
  /\ page' = [page EXCEPT ![t].draft = page[t].rules.windows]
  /\ UNCHANGED <<now, database, call, late>>

\* "Review changes": saveRules, loadRules, loadDiff.
Review(t) ==
  /\ ~Busy(t) /\ Unsaved(t)
  /\ Goto(t, Call("replace", page[t].mac, "rules", [with |-> page[t].draft, existing |-> {}]))
  /\ UNCHANGED <<now, database, page, late>>

\* "Publish", or "Publish anyway", under a review: the confirmation is the review's.
PublishClick(t) ==
  /\ ~Busy(t) /\ ~Unsaved(t)
  /\ page[t].diff.changed
  /\ Goto(t, Call("check", page[t].mac, "diff", page[t].diff.confirm))
  /\ UNCHANGED <<now, database, page, late>>

\* "Restore", of a version the history lists: 404 if the Mac picked has none, 422 if it is empty.
RestoreClick(t) ==
  /\ ~Busy(t)
  /\ \E v \in 1..page[t].diff.version :
       /\ v <= Len(versions[page[t].mac])
       /\ versions[page[t].mac][v].windows # {}
       /\ Goto(t, Call("replace", page[t].mac, "publish",
                       [with |-> versions[page[t].mac][v].windows, existing |-> {}]))
  /\ UNCHANGED <<now, database, page, late>>

\* handlePatchSettings
PatchSettings(limits) == caps' = limits /\ writes' = writes + 1

\* The limits are saved as the field is left: patchSettings, loadRules, loadDiff.
SaveLimits(t) ==
  /\ ~Busy(t)
  /\ \E limits \in Caps \ {page[t].rules.caps} : PatchSettings(limits)
  /\ Goto(t, Call("rules", page[t].mac, "diff", None))
  /\ UNCHANGED <<now, windows, versions, lock, page, late>>

-----------------------------------------------------------------------------
(* The server, for a handler of the page *)

\* handleGetRules reads windows and warnings in two statements.
ReadWindows(t) ==
  /\ call[t].step = "rules"
  /\ Goto(t, Call("warnings", call[t].mac, "diff", [windows |-> windows, caps |-> caps]))
  /\ UNCHANGED <<now, database, page, late>>

\* The answer replaces `rules`, and with it the draft.
ReadWarnings(t) ==
  /\ call[t].step = "warnings"
  /\ LET read == call[t].load
         seen == {[w EXCEPT !.warned = w.warned /\ w.id \in Ids(windows)] : w \in read.windows}
     IN page' = [page EXCEPT ![t].rules = [windows |-> seen, caps |-> read.caps], ![t].draft = seen]
  /\ Goto(t, Call("diff", call[t].mac, "idle", None))
  /\ UNCHANGED <<now, database, late>>

\* loadDiff, of the Mac that was picked when the handler began.
AskDiff(t) ==
  /\ call[t].step = "diff"
  /\ Goto(t, Call("answer", call[t].mac, "idle", Diff(call[t].mac)))
  /\ UNCHANGED <<now, database, page, late>>

AnswerDiff(t) ==
  /\ call[t].step = "answer"
  /\ page' = [page EXCEPT ![t].diff = call[t].load]
  /\ Goto(t, Idle)
  /\ UNCHANGED <<now, database, late>>

\* The transaction that replaces the windows, of a save or a restore: which rows are there?
ReadExisting(t) ==
  /\ call[t].step = "replace"
  /\ Goto(t, Call("insert", call[t].mac, call[t].then,
                  [with |-> call[t].load.with, existing |-> windows]))
  /\ UNCHANGED <<now, database, page, late>>

\* What it deletes.  It skips both deletes when it read no window.  Warnings make it wait for
\* another transaction that deletes them, after which it sees what that one wrote; without any,
\* its one statement may have begun before the other's commit.
Deletes(existing) ==
  IF existing = {} THEN {{}}
  ELSE IF \E w \in existing : w.warned THEN {windows}
  ELSE {windows, windows \cap existing}

ReplaceWindows(t) ==
  /\ call[t].step = "insert"
  /\ \E gone \in Deletes(call[t].load.existing) :
       windows' = (windows \ gone) \cup Fresh(call[t].load.with)
  /\ writes' = writes + 1
  /\ Goto(t, Call(call[t].then, call[t].mac, "diff", None))
  /\ UNCHANGED <<now, caps, versions, lock, page, late>>

Checked(confirmed) == [confirmed |-> confirmed, compiled |-> Compiled, at |-> now]

\* Mutant: the tab's word is taken for it.
MutCheckTightening(t) ==
  /\ call[t].step = "check"
  /\ Goto(t, Call("publish", call[t].mac, "diff", Checked(call[t].load)))
  /\ UNCHANGED <<now, database, page, late>>

\* handlePublishRules: C3 again, or 409, which the page shows and does nothing else about.
CheckTightening(t) ==
  /\ call[t].step = "check"
  /\ LET m == call[t].mac IN
     IF Tightening(Newest(m), Compiled) /\ ~call[t].load
     THEN Goto(t, Idle)
     ELSE Goto(t, Call("publish", m, "diff", Checked(call[t].load)))
  /\ UNCHANGED <<now, database, page, late>>

\* Mutant: no SELECT ... FOR UPDATE.
MutGatherAndCompile(t) ==
  /\ call[t].step = "publish"
  /\ Goto(t, [step |-> "write", mac |-> call[t].mac, then |-> "diff", load |-> call[t].load,
              document |-> Compiled])
  /\ UNCHANGED <<now, database, page, late>>

\* publishPolicy: under the device's row lock, compile, then insert unless nothing changed.
GatherAndCompile(t) ==
  /\ call[t].step = "publish" /\ lock[call[t].mac] = None
  /\ lock' = [lock EXCEPT ![call[t].mac] = t]
  /\ Goto(t, [step |-> "write", mac |-> call[t].mac, then |-> "diff", load |-> call[t].load,
              document |-> Compiled])
  /\ UNCHANGED <<now, windows, caps, writes, versions, page, late>>

Insert(m, document) ==
  versions' = [versions EXCEPT ![m] = IF Same(document, Newest(m)) THEN @ ELSE Append(@, document)]

WriteVersion(t) ==
  /\ call[t].step = "write"
  /\ Insert(call[t].mac, call[t].document)
  /\ lock' = [lock EXCEPT ![call[t].mac] = None]
  /\ Goto(t, Call("diff", call[t].mac, "idle", None))
  /\ UNCHANGED <<now, windows, caps, writes, page, late>>

\* The nightly job, a grant or a calendar exception publishes what the tables say.
Recompile(m) ==
  /\ lock[m] = None /\ ~Same(Compiled, Newest(m))
  /\ Insert(m, Compiled)
  /\ UNCHANGED <<now, windows, caps, writes, lock, page, call, late>>

Tick ==
  /\ now < Horizon
  /\ now' = now + 1
  /\ UNCHANGED <<database, page, call, late>>

Parent(t) ==
  /\ clicks < MaxClicks /\ clicks' = clicks + 1
  /\ \/ Edit(t) \/ Review(t) \/ PublishClick(t)
     \/ "pick" \in Does[t] /\ Pick(t)
     \/ "discard" \in Does[t] /\ Discard(t)
     \/ "restore" \in Does[t] /\ RestoreClick(t)
     \/ "limits" \in Does[t] /\ SaveLimits(t)

Handler(t) ==
  \/ ReadWindows(t) \/ ReadWarnings(t) \/ AskDiff(t) \/ AnswerDiff(t)
  \/ ReadExisting(t) \/ ReplaceWindows(t)
  \/ CheckTightening(t) \/ GatherAndCompile(t) \/ WriteVersion(t)

Next ==
  \/ \E t \in Tabs : Parent(t)
  \/ /\ \/ \E t \in Tabs : Handler(t) \/ Arrive(t)
        \/ \E m \in Macs : Recompile(m)
        \/ Tick
     /\ UNCHANGED clicks

Spec == Init /\ [][Next]_vars

-----------------------------------------------------------------------------

Window == [id : Nat \X Starts, from : Starts, warned : BOOLEAN]

\* On a page a window may be new.
Draft == SUBSET [id : (Nat \X Starts) \cup {None}, from : Starts, warned : BOOLEAN]

Read == [windows : SUBSET Window, caps : Caps]

Document == [windows : SUBSET Window, caps : Caps, write : Nat]

Reviewed == [mac : Macs, proposed : Document, version : Nat, changed : BOOLEAN, confirm : BOOLEAN]

Page == [rules : Read, draft : Draft, mac : Macs, diff : Reviewed]

\* What a handler carries is right for the step that will use it.
CallOK(c) ==
  /\ c.step # "idle" => c.mac \in Macs
  /\ c.step \in {"replace", "insert"} =>
       /\ c.load.with \in Draft /\ c.load.existing \in SUBSET Window
       /\ c.then \in {"rules", "publish"}
  /\ c.step = "warnings" => c.load \in Read
  /\ c.step = "answer" => c.load \in Reviewed
  /\ c.step = "write" => c.document \in Document

TypeOK ==
  /\ now \in Nat /\ writes \in Nat
  /\ windows \in SUBSET Window /\ caps \in Caps
  /\ versions \in [Macs -> Seq(Document) \ {<<>>}]
  /\ lock \in [Macs -> Tabs \cup {None}]
  /\ page \in [Tabs -> Page]
  /\ late \in [Tabs -> SUBSET Reviewed]
  /\ DOMAIN call = Tabs /\ \A t \in Tabs : CallOK(call[t])

\* However requests overlap, a Mac's rules never go back to an older draft: a later version was
\* compiled from a later state of the tables (publishPolicy compiles under the device's row lock).
\* A restore is a later state too: it writes, and never rewinds.
NeverGoesBack ==
  \A m \in Macs : \A i, j \in 1..Len(versions[m]) :
    i < j => versions[m][i].write < versions[m][j].write

\* C3: "Publish" brings a window that is about to start to a Mac only if the review said so, or if
\* the draft or the clock moved under the request, between its check and its compilation
\* (handlePublishRules re-checks on the server what a stale tab believes).
UnaskedOnlyInARace ==
  [][\A t \in Tabs : LET c == call[t] IN
      c.step = "write" /\ call'[t].step = "diff" /\ c.load # None =>
        \/ c.load.confirmed \/ ~Tightening(Newest(c.mac), c.document)
        \/ c.load.at # now \/ ~Same(c.load.compiled, c.document)]_vars

-----------------------------------------------------------------------------
(* What the code's comments and the page say that these steps refute *)

\* "This is what the Mac will obey" (page.tsx:581): what is published is what was reviewed.
WhatWasReviewed ==
  [][\A t \in Tabs : LET c == call[t] IN
      c.step = "write" /\ call'[t].step = "diff" /\ c.load # None =>
        Same(c.document, page[t].diff.proposed)]_vars

StartsOf(wins) == {w.from : w \in wins}

\* "<Mac> has these rules (version N)": the windows on the page are the Mac's.
HasTheseRules ==
  \A t \in Tabs :
    ~Busy(t) /\ ~Unsaved(t) /\ late[t] = {} =>
      page[t].diff.changed \/ StartsOf(page[t].draft) = StartsOf(Newest(page[t].mac).windows)

\* "Echoed back from the diff": a parent who is refused for lack of confirmation can give it.
RefusedCanConfirm ==
  [][\A t \in Tabs : call[t].step = "check" /\ call'[t] = Idle => page[t].diff.confirm]_vars

\* "A relaxation never sets the flag": a flagged review starts something earlier.
RelaxationNeverAsks ==
  [][\A t \in Tabs : call[t].step = "diff" /\ call'[t].step = "answer" /\ call'[t].load.confirm =>
      \E w \in windows : \A b \in Newest(call[t].mac).windows :
        MinutesUntil(b.from) > MinutesUntil(w.from)]_vars

\* "restrict something within the next 15 minutes that the current one does not": bedtime moved to
\* a moment just past is asked about.
BitesAtOnceIsAsked ==
  [][\A t \in Tabs : LET c == call[t] IN
      c.step = "check" /\ ~c.load /\ call'[t].step = "publish" =>
        \A w \in windows : (now - w.from) % Day <= Soon =>
          \E b \in Newest(c.mac).windows : (now - b.from) % Day <= Soon]_vars

\* "Replace wholesale": the windows are those of one save.
ReplacedWholesale == \A w, x \in windows : w.id[1] = x.id[1]

\* A save changes what was edited: the warnings stay.
WarningsSurvive == \A w \in windows : w.warned
=============================================================================
