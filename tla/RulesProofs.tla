----------------------------- MODULE RulesProofs -----------------------------
(***************************************************************************)
(* Rules: for any number of browsers and Macs, a Mac's rules never go back *)
(* to an older draft.                                                      *)
(*                                                                         *)
(* The argument: whoever is about to insert a version holds the device's   *)
(* row (Holder), compiled no earlier than the newest version was (Order),  *)
(* and two documents compiled from the tables after the same write say the *)
(* same (SameWrite); so a document that differs from the newest is of a    *)
(* later write.  And no window about to start is published unasked, but in *)
(* a race (the last part).                                                 *)
(***************************************************************************)
EXTENDS Rules, TLAPS

\* The publication about to insert holds the row of its Mac.
Holder == \A t \in Tabs : call[t].step = "write" => lock[call[t].mac] = t

\* Nothing is from a later write than the last, and what waits is no older than what is there.
Order ==
  /\ NeverGoesBack
  /\ \A m \in Macs : Newest(m).write <= writes
  /\ \A t \in Tabs : call[t].step = "write" =>
       /\ call[t].document.write <= writes
       /\ Newest(call[t].mac).write <= call[t].document.write

\* What was compiled after the last write says what the tables say, and the document that waits
\* says what the newest does if it is of the same write.
SameWrite ==
  /\ \A m \in Macs : Newest(m).write = writes => Same(Newest(m), Compiled)
  /\ \A t \in Tabs : call[t].step = "write" =>
       /\ call[t].document.write = writes => Same(call[t].document, Compiled)
       /\ call[t].document.write = Newest(call[t].mac).write =>
            Same(call[t].document, Newest(call[t].mac))

IInv == TypeOK /\ Holder /\ Order /\ SameWrite

-----------------------------------------------------------------------------

LEMMA CompiledTyped == ASSUME TypeOK PROVE Compiled \in Document
BY DEF TypeOK, Compiled, Document

LEMMA NewestTyped == ASSUME TypeOK, NEW m \in Macs PROVE Newest(m) \in Document
BY DEF TypeOK, Newest

LEMMA DiffTyped == ASSUME TypeOK, NEW m \in Macs PROVE Diff(m) \in Reviewed
<1>1. Len(versions[m]) \in Nat
  BY DEF TypeOK
<1>2. Same(Compiled, Newest(m)) \in BOOLEAN /\ Tightening(Newest(m), Compiled) \in BOOLEAN
  BY DEF Same, Tightening
<1> QED
  BY <1>1, <1>2, CompiledTyped DEF Diff, Listed, Reviewed

LEMMA FreshTyped == ASSUME TypeOK, NEW d \in Draft PROVE Fresh(d) \in SUBSET Window
BY DEF TypeOK, Fresh, Draft, Window

\* A call starts the step it names.
LEMMA GotoFacts ==
  ASSUME TypeOK, NEW t \in Tabs, NEW c, Goto(t, c)
  PROVE  DOMAIN call' = Tabs /\ call'[t] = c /\ \A u \in Tabs \ {t} : call'[u] = call[u]
BY DEF TypeOK, Goto

\* Inserting a version adds the document at the end, unless nothing changed.
LEMMA InsertFacts ==
  ASSUME TypeOK, NEW m \in Macs, NEW d \in Document, Insert(m, d)
  PROVE  /\ versions' \in [Macs -> Seq(Document) \ {<<>>}]
         /\ \A n \in Macs \ {m} : versions'[n] = versions[n]
         /\ Same(d, Newest(m)) => versions' = versions
         /\ ~Same(d, Newest(m)) =>
              /\ Len(versions'[m]) = Len(versions[m]) + 1
              /\ versions'[m][Len(versions[m]) + 1] = d
              /\ \A i \in 1..Len(versions[m]) : versions'[m][i] = versions[m][i]
<1>1. versions[m] \in Seq(Document) \ {<<>>}
  BY DEF TypeOK
<1>2. Append(versions[m], d) \in Seq(Document) \ {<<>>}
  BY <1>1
<1> QED
  BY <1>1, <1>2 DEF Insert, TypeOK

-----------------------------------------------------------------------------
(* Types *)

LEMMA InitTyped == ASSUME Init PROVE TypeOK
<1> USE RulesAssumption
<1>1. windows \in SUBSET Window /\ caps \in Caps /\ writes \in Nat
  <2>1. ASSUME NEW s \in FirstStarts
        PROVE  [id |-> <<0, s>>, from |-> s, warned |-> TRUE] \in Window
    BY DEF Window
  <2> QED
    BY <2>1 DEF Init
<1>2. Compiled \in Document
  BY <1>1 DEF Compiled, Document
<1>3. versions \in [Macs -> Seq(Document) \ {<<>>}]
  BY <1>2 DEF Init
<1>4. PICK m \in Macs :
        page = [t \in Tabs |-> [rules |-> [windows |-> windows, caps |-> caps], draft |-> windows,
                               mac |-> m, diff |-> Diff(m)]]
  BY DEF Init
<1>5. Diff(m) \in Reviewed
  <2>1. Len(versions[m]) \in Nat
    BY <1>3
  <2>2. Same(Compiled, Newest(m)) \in BOOLEAN /\ Tightening(Newest(m), Compiled) \in BOOLEAN
    BY DEF Same, Tightening
  <2> QED
    BY <2>1, <2>2, <1>2 DEF Diff, Listed, Reviewed
<1>6. windows \in Draft
  BY <1>1 DEF Window, Draft
<1>7. page \in [Tabs -> Page]
  BY <1>1, <1>4, <1>5, <1>6 DEF Page, Read
<1>8. \A t \in Tabs : CallOK(call[t])
  BY DEF Init, Idle, Call, CallOK
<1> QED
  BY <1>1, <1>3, <1>7, <1>8 DEF Init, TypeOK

\* The types, part by part.
LEMMA Typed ==
  ASSUME now' \in Nat, writes' \in Nat, windows' \in SUBSET Window, caps' \in Caps,
         versions' \in [Macs -> Seq(Document) \ {<<>>}], lock' \in [Macs -> Tabs \cup {None}],
         page' \in [Tabs -> Page], late' \in [Tabs -> SUBSET Reviewed],
         DOMAIN call' = Tabs, \A t \in Tabs : CallOK(call'[t])
  PROVE  TypeOK'
BY DEF TypeOK

\* A handler's move that changes no table keeps the types if its next step is in order.
LEMMA GotoTyped ==
  ASSUME TypeOK, NEW t \in Tabs, NEW c, CallOK(c), Goto(t, c), UNCHANGED <<now, database>>,
         page' \in [Tabs -> Page], late' \in [Tabs -> SUBSET Reviewed]
  PROVE  TypeOK'
<1>1. \A u \in Tabs : CallOK(call'[u])
  BY GotoFacts DEF TypeOK
<1> QED
  BY <1>1, GotoFacts, Typed DEF TypeOK, database

LEMMA ParentTyped == ASSUME TypeOK, NEW t \in Tabs, Parent(t) PROVE TypeOK'
<1> USE DEF TypeOK, database
<1>0. page[t] \in Page
  OBVIOUS
<1>1. CASE Pick(t)
  <2>1. PICK m \in Macs : /\ page' = [page EXCEPT ![t].mac = m]
                          /\ late' = [late EXCEPT ![t] = @ \cup {Diff(m)}]
    BY <1>1 DEF Pick
  <2>2. page' \in [Tabs -> Page]
    BY <1>0, <2>1 DEF Page
  <2>3. late' \in [Tabs -> SUBSET Reviewed]
    BY <2>1, DiffTyped
  <2> QED
    BY <1>1, <2>2, <2>3, Typed DEF Pick
<1>2. CASE Edit(t)
  <2>1. ASSUME NEW d \in Draft, page' = [page EXCEPT ![t].draft = d]
        PROVE  page' \in [Tabs -> Page]
    BY <2>1 DEF Page
  <2>2. page' \in [Tabs -> Page]
    <3>1. CASE MoveWindow(t)
      <4>1. PICK w \in page[t].draft, s \in Starts :
                 page' = [page EXCEPT ![t].draft = (@ \ {w}) \cup {[w EXCEPT !.from = s]}]
        BY <3>1 DEF MoveWindow
      <4>2. (page[t].draft \ {w}) \cup {[w EXCEPT !.from = s]} \in Draft
        BY <1>0, <4>1 DEF Page, Draft
      <4> QED
        BY <1>0, <4>1, <4>2, <2>1
    <3>2. CASE RemoveWindow(t)
      <4>1. PICK w \in page[t].draft : page' = [page EXCEPT ![t].draft = @ \ {w}]
        BY <3>2 DEF RemoveWindow
      <4>2. page[t].draft \ {w} \in Draft
        BY <1>0 DEF Page, Draft
      <4> QED
        BY <1>0, <4>1, <4>2, <2>1
    <3>3. CASE AddWindow(t)
      <4>1. PICK s \in Starts :
                 page' = [page EXCEPT ![t].draft = {[id |-> None, from |-> s, warned |-> TRUE]}]
        BY <3>3 DEF AddWindow
      <4>2. {[id |-> None, from |-> s, warned |-> TRUE]} \in Draft
        BY DEF Draft
      <4> QED
        BY <4>1, <4>2, <2>1
    <3> QED
      BY <1>2, <3>1, <3>2, <3>3 DEF Edit
  <2> QED
    BY <1>2, <2>2, Typed DEF Edit
<1>3. CASE Discard(t)
  <2>1. page[t].rules.windows \in Draft
    BY <1>0 DEF Page, Read, Draft, Window
  <2>2. page' \in [Tabs -> Page]
    BY <1>3, <2>1 DEF Discard, Page
  <2> QED
    BY <1>3, <2>2, Typed DEF Discard
<1>4. CASE Review(t)
  <2>1. CallOK(Call("replace", page[t].mac, "rules", [with |-> page[t].draft, existing |-> {}]))
    BY <1>0 DEF CallOK, Call, Page
  <2> QED
    BY <1>4, <2>1, GotoTyped DEF Review
<1>5. CASE PublishClick(t)
  <2>1. CallOK(Call("check", page[t].mac, "diff", page[t].diff.confirm))
    BY <1>0 DEF CallOK, Call, Page
  <2> QED
    BY <1>5, <2>1, GotoTyped DEF PublishClick
<1>6. CASE RestoreClick(t)
  <2>1. PICK v \in 1..page[t].diff.version :
          /\ v <= Len(versions[page[t].mac])
          /\ Goto(t, Call("replace", page[t].mac, "publish",
                         [with |-> versions[page[t].mac][v].windows, existing |-> {}]))
    BY <1>6 DEF RestoreClick
  <2>2. versions[page[t].mac][v] \in Document
    BY <1>0, <2>1 DEF Page
  <2>3. versions[page[t].mac][v].windows \in Draft
    BY <2>2 DEF Document, Window, Draft
  <2>4. CallOK(Call("replace", page[t].mac, "publish",
                    [with |-> versions[page[t].mac][v].windows, existing |-> {}]))
    BY <1>0, <2>3 DEF CallOK, Call, Page
  <2> QED
    BY <1>6, <2>1, <2>4, GotoTyped DEF RestoreClick
<1>7. CASE SaveLimits(t)
  <2>1. CallOK(Call("rules", page[t].mac, "diff", None))
    BY <1>0 DEF CallOK, Call, Page
  <2>2. \A u \in Tabs : CallOK(call'[u])
    BY <1>7, <2>1, GotoFacts DEF SaveLimits
  <2> QED
    BY <1>7, <2>2, GotoFacts, Typed DEF SaveLimits, PatchSettings
<1> QED
  BY <1>1, <1>2, <1>3, <1>4, <1>5, <1>6, <1>7 DEF Parent

LEMMA HandlerTyped == ASSUME TypeOK, NEW t \in Tabs, Handler(t) PROVE TypeOK'
<1> USE DEF TypeOK, database
<1>0. page[t] \in Page /\ CallOK(call[t]) /\ CallOK(Idle)
  BY DEF CallOK, Idle, Call
<1>1. CASE ReadWindows(t)
  <2>1. CallOK(Call("warnings", call[t].mac, "diff", [windows |-> windows, caps |-> caps]))
    BY <1>0, <1>1 DEF CallOK, Call, ReadWindows, Read
  <2> QED
    BY <1>1, <2>1, GotoTyped DEF ReadWindows
<1>2. CASE ReadWarnings(t)
  <2> DEFINE read == call[t].load
             seen == {[w EXCEPT !.warned = w.warned /\ w.id \in Ids(windows)] : w \in read.windows}
  <2>1. read \in Read
    BY <1>0, <1>2 DEF CallOK, ReadWarnings
  <2>2. ASSUME NEW w \in read.windows
        PROVE  [w EXCEPT !.warned = w.warned /\ w.id \in Ids(windows)] \in Window
    <3>1. w \in Window
      BY <2>1 DEF Read
    <3>2. /\ [w EXCEPT !.warned = w.warned /\ w.id \in Ids(windows)]
              = [id |-> w.id, from |-> w.from, warned |-> w.warned /\ w.id \in Ids(windows)]
          /\ w.id \in Nat \X Starts /\ w.from \in Starts
      BY <3>1 DEF Window
    <3>3. (w.warned /\ w.id \in Ids(windows)) \in BOOLEAN
      OBVIOUS
    <3> HIDE DEF TypeOK, database
    <3> QED
      BY <3>2, <3>3 DEF Window
  <2>3. seen \in SUBSET Window
    <3>1. ASSUME NEW x \in seen
          PROVE  x \in Window
      BY <2>2, <3>1
    <3> HIDE DEF seen
    <3> QED
      BY <3>1
  <2>4. seen \in Draft
    BY <2>3 DEF Window, Draft
  <2>5. page' = [page EXCEPT ![t].rules = [windows |-> seen, caps |-> read.caps], ![t].draft = seen]
    BY <1>2 DEF ReadWarnings
  <2>6. page' \in [Tabs -> Page]
    <3> HIDE DEF seen
    <3>1. [windows |-> seen, caps |-> read.caps] \in Read
      BY <2>1, <2>3 DEF Read
    <3>2. [page[t] EXCEPT !.rules = [windows |-> seen, caps |-> read.caps], !.draft = seen] \in Page
      BY <2>4, <3>1 DEF Page, TypeOK
    <3>3. page' = [page EXCEPT ![t] = [page[t] EXCEPT !.rules = [windows |-> seen, caps |-> read.caps],
                                                      !.draft = seen]]
      BY <2>5 DEF TypeOK
    <3> QED
      BY <3>2, <3>3 DEF TypeOK
  <2>7. CallOK(Call("diff", call[t].mac, "idle", None))
    BY <1>0, <1>2 DEF CallOK, Call, ReadWarnings
  <2> QED
    BY <1>2, <2>6, <2>7, GotoTyped DEF ReadWarnings
<1>3. CASE AskDiff(t)
  <2>1. CallOK(Call("answer", call[t].mac, "idle", Diff(call[t].mac)))
    BY <1>0, <1>3, DiffTyped DEF CallOK, Call, AskDiff
  <2> QED
    BY <1>3, <2>1, GotoTyped DEF AskDiff
<1>4. CASE AnswerDiff(t)
  <2>1. call[t].load \in Reviewed
    BY <1>0, <1>4 DEF CallOK, AnswerDiff
  <2>2. page' \in [Tabs -> Page]
    BY <1>4, <2>1 DEF AnswerDiff, Page
  <2> QED
    BY <1>0, <1>4, <2>2, GotoTyped DEF AnswerDiff
<1>5. CASE ReadExisting(t)
  <2>1. CallOK(Call("insert", call[t].mac, call[t].then,
                    [with |-> call[t].load.with, existing |-> windows]))
    BY <1>0, <1>5 DEF CallOK, Call, ReadExisting
  <2> QED
    BY <1>5, <2>1, GotoTyped DEF ReadExisting
<1>6. CASE ReplaceWindows(t)
  <2>1. Fresh(call[t].load.with) \in SUBSET Window
    BY <1>0, <1>6, FreshTyped DEF CallOK, ReplaceWindows
  <2>2. windows' \in SUBSET Window
    BY <1>6, <2>1 DEF ReplaceWindows
  <2>3. CallOK(Call(call[t].then, call[t].mac, "diff", None))
    BY <1>0, <1>6 DEF CallOK, Call, ReplaceWindows
  <2>4. \A u \in Tabs : CallOK(call'[u])
    BY <1>6, <2>3, GotoFacts DEF ReplaceWindows
  <2> QED
    BY <1>6, <2>2, <2>4, GotoFacts, Typed DEF ReplaceWindows
<1>7. CASE CheckTightening(t)
  <2>1. CallOK(Call("publish", call[t].mac, "diff", Checked(call[t].load)))
    BY <1>0, <1>7 DEF CallOK, Call, CheckTightening
  <2> QED
    BY <1>0, <1>7, <2>1, GotoTyped DEF CheckTightening
<1>8. CASE GatherAndCompile(t)
  <2> DEFINE c == [step |-> "write", mac |-> call[t].mac, then |-> "diff", load |-> call[t].load,
                   document |-> Compiled]
  <2>1. CallOK(c)
    BY <1>0, <1>8, CompiledTyped DEF CallOK, GatherAndCompile
  <2>2. \A u \in Tabs : CallOK(call'[u])
    BY <1>8, <2>1, GotoFacts DEF GatherAndCompile
  <2> QED
    BY <1>0, <1>8, <2>2, GotoFacts, Typed DEF GatherAndCompile, CallOK
<1>9. CASE WriteVersion(t)
  <2>1. call[t].mac \in Macs /\ call[t].document \in Document
    BY <1>0, <1>9 DEF CallOK, WriteVersion
  <2>2. versions' \in [Macs -> Seq(Document) \ {<<>>}]
    BY <1>9, <2>1, InsertFacts DEF WriteVersion
  <2>3. CallOK(Call("diff", call[t].mac, "idle", None))
    BY <2>1 DEF CallOK, Call
  <2>4. \A u \in Tabs : CallOK(call'[u])
    BY <1>9, <2>3, GotoFacts DEF WriteVersion
  <2> QED
    BY <1>9, <2>1, <2>2, <2>4, GotoFacts, Typed DEF WriteVersion
<1> QED
  BY <1>1, <1>2, <1>3, <1>4, <1>5, <1>6, <1>7, <1>8, <1>9 DEF Handler

LEMMA StepTyped == ASSUME TypeOK, [Next]_vars PROVE TypeOK'
<1>1. CASE \E t \in Tabs : Parent(t)
  BY <1>1, ParentTyped
<1>2. CASE \E t \in Tabs : Handler(t)
  BY <1>2, HandlerTyped
<1>3. CASE \E t \in Tabs : Arrive(t)
  <2>0. PICK t \in Tabs : Arrive(t)
    BY <1>3
  <2>1. PICK answer \in late[t] :
          /\ page' = [page EXCEPT ![t].diff = answer]
          /\ late' = [late EXCEPT ![t] = @ \ {answer}]
          /\ UNCHANGED <<now, database, call>>
    BY <2>0 DEF Arrive
  <2>2. page' \in [Tabs -> Page] /\ late' \in [Tabs -> SUBSET Reviewed]
    BY <2>1 DEF TypeOK, Page
  <2> QED
    BY <2>1, <2>2, Typed DEF TypeOK, database
<1>4. CASE \E m \in Macs : Recompile(m)
  <2>1. PICK m \in Macs : Recompile(m)
    BY <1>4
  <2>2. versions' \in [Macs -> Seq(Document) \ {<<>>}]
    BY <2>1, CompiledTyped, InsertFacts DEF Recompile
  <2> QED
    BY <2>1, <2>2, Typed DEF Recompile, TypeOK
<1>5. CASE Tick
  BY <1>5, Typed DEF Tick, TypeOK, database
<1>6. CASE UNCHANGED vars
  BY <1>6, Typed DEF vars, TypeOK, database
<1> QED
  BY <1>1, <1>2, <1>3, <1>4, <1>5, <1>6 DEF Next

-----------------------------------------------------------------------------
(* Order *)

\* A move that writes no table and starts no insertion keeps what the versions owe each other.
LEMMA Frame ==
  ASSUME IInv, TypeOK', UNCHANGED database,
         \A u \in Tabs : call'[u].step = "write" => call'[u] = call[u]
  PROVE  IInv'
<1>1. \A m \in Macs : Newest(m)' = Newest(m)
  BY DEF Newest, database
<1>2. Compiled' = Compiled
  BY DEF Compiled, database
<1>3. Holder'
  BY DEF IInv, Holder, database
<1>4. NeverGoesBack'
  BY DEF IInv, Order, NeverGoesBack, database
<1>5. Order'
  <2>1. \A t \in Tabs : call[t].step = "write" => call[t].mac \in Macs
    BY DEF IInv, TypeOK, CallOK
  <2> QED
    BY <1>1, <1>4, <2>1 DEF IInv, Order, database, Newest
<1>6. SameWrite'
  BY <1>1, <1>2 DEF IInv, SameWrite, Same, database, Newest
<1> QED
  BY <1>3, <1>5, <1>6 DEF IInv

\* A write makes every document older than the tables.
LEMMA WriteKeeps ==
  ASSUME IInv, TypeOK', writes' = writes + 1, UNCHANGED <<versions, lock>>,
         \A u \in Tabs : call'[u].step = "write" => call'[u] = call[u]
  PROVE  IInv'
<1>1. \A m \in Macs : Newest(m)' = Newest(m) /\ Newest(m).write \in Nat
  BY NewestTyped DEF Newest, Document, IInv
<1>2. writes \in Nat
  BY DEF IInv, TypeOK
<1>3. \A t \in Tabs : call[t].step = "write" => call[t].mac \in Macs /\ call[t].document.write \in Nat
  BY DEF IInv, TypeOK, CallOK, Document
<1>4. Holder'
  BY DEF IInv, Holder
<1>5. NeverGoesBack'
  BY DEF IInv, Order, NeverGoesBack
<1>6. Order'
  <2>1. \A m \in Macs : Newest(m)'.write <= writes'
    BY <1>1, <1>2 DEF IInv, Order
  <2>2. ASSUME NEW t \in Tabs, call'[t].step = "write"
        PROVE  call'[t].document.write <= writes' /\ Newest(call[t].mac)'.write <= call'[t].document.write
    BY <1>1, <1>2, <1>3, <2>2 DEF IInv, Order
  <2> QED
    BY <1>5, <2>1, <2>2 DEF Order, Newest
<1>7. SameWrite'
  <2>1. \A m \in Macs : Newest(m)'.write # writes'
    BY <1>1, <1>2 DEF IInv, Order
  <2>2. ASSUME NEW t \in Tabs, call'[t].step = "write"
        PROVE  /\ call'[t].document.write # writes'
               /\ call'[t].document.write = Newest(call[t].mac)'.write =>
                    Same(call'[t].document, Newest(call[t].mac)')
    BY <1>1, <1>2, <1>3, <2>2 DEF IInv, Order, SameWrite
  <2> QED
    BY <2>1, <2>2 DEF SameWrite, Newest, Same
<1> QED
  BY <1>4, <1>6, <1>7 DEF IInv

\* Inserting a document that is no older than the newest, and that agrees with it if it is of the
\* same write, keeps the versions in order; nothing else waits to insert on that Mac.
LEMMA InsertKeeps ==
  ASSUME IInv, TypeOK', NEW m \in Macs, NEW d \in Document, Insert(m, d),
         UNCHANGED <<windows, caps, writes>>,
         d.write <= writes, Newest(m).write <= d.write,
         d.write = Newest(m).write => Same(d, Newest(m)),
         d.write = writes => Same(d, Compiled),
         \A u \in Tabs : call'[u].step = "write" =>
           call'[u] = call[u] /\ call[u].mac # m /\ lock'[call[u].mac] = lock[call[u].mac]
  PROVE  IInv'
<1>1. versions[m] \in Seq(Document) \ {<<>>} /\ Len(versions[m]) \in Nat \ {0}
  BY DEF IInv, TypeOK
<1>2. Newest(m) \in Document /\ writes \in Nat /\ d.write \in Nat /\ Newest(m).write \in Nat
  BY NewestTyped DEF IInv, TypeOK, Document
<1>3. \A n \in Macs \ {m} : versions'[n] = versions[n] /\ Newest(n)' = Newest(n)
  BY InsertFacts DEF IInv, Newest
<1>4. \/ Same(d, Newest(m)) /\ versions' = versions /\ Newest(m)' = Newest(m)
      \/ /\ ~Same(d, Newest(m)) /\ Newest(m).write < d.write /\ Newest(m)' = d
         /\ Len(versions'[m]) = Len(versions[m]) + 1
         /\ versions'[m][Len(versions[m]) + 1] = d
         /\ \A i \in 1..Len(versions[m]) : versions'[m][i] = versions[m][i]
  BY <1>1, <1>2, InsertFacts DEF IInv, Newest
<1>5. Compiled' = Compiled
  BY DEF Compiled
<1>6. \A t \in Tabs : call[t].step = "write" => call[t].mac \in Macs
  BY DEF IInv, TypeOK, CallOK
<1>7. Holder'
  BY <1>6 DEF IInv, Holder
<1>8. NeverGoesBack'
  <2>1. ASSUME NEW n \in Macs, NEW i \in 1..Len(versions'[n]), NEW j \in 1..Len(versions'[n]), i < j
        PROVE  versions'[n][i].write < versions'[n][j].write
    <3>1. CASE versions'[n] = versions[n]
      BY <2>1, <3>1 DEF IInv, Order, NeverGoesBack
    <3>2. CASE versions'[n] # versions[n]
      <4>1. n = m /\ ~Same(d, Newest(m))
        BY <1>3, <1>4, <3>2
      <4>2. i \in 1..Len(versions[m]) /\ versions'[m][i] = versions[m][i]
        BY <1>1, <1>4, <2>1, <4>1
      <4>3. CASE j \in 1..Len(versions[m])
        BY <1>4, <2>1, <4>1, <4>2, <4>3 DEF IInv, Order, NeverGoesBack
      <4>4. CASE j = Len(versions[m]) + 1
        <5>0. versions[m][i] \in Document
          BY <1>1, <4>2
        <5>1. versions[m][i].write \in Nat
          BY <5>0 DEF Document
        <5>2. versions[m][i].write <= Newest(m).write
          <6>1. CASE i = Len(versions[m])
            BY <1>2, <6>1 DEF Newest
          <6>2. CASE i # Len(versions[m])
            <7>1. i \in 1..Len(versions[m]) /\ Len(versions[m]) \in 1..Len(versions[m]) /\ i < Len(versions[m])
              BY <1>1, <4>2, <6>2
            <7>2. versions[m][i].write < versions[m][Len(versions[m])].write
              BY <7>1 DEF IInv, Order, NeverGoesBack
            <7> QED
              BY <1>2, <5>1, <7>2 DEF Newest
          <6> QED
            BY <6>1, <6>2
        <5>3. versions'[m][j].write = d.write /\ versions'[m][i].write = versions[m][i].write
          BY <1>4, <4>1, <4>2, <4>4
        <5>4. Newest(m).write < d.write
          BY <1>4, <4>1
        <5>5. versions[m][i].write < d.write
          BY <1>2, <5>1, <5>2, <5>4
        <5> QED
          BY <4>1, <5>3, <5>5
      <4> QED
        BY <1>1, <1>4, <4>1, <4>3, <4>4
    <3> QED
      BY <3>1, <3>2
  <2> QED
    BY <2>1 DEF NeverGoesBack
<1>9. Order'
  <2>1. \A n \in Macs : Newest(n)'.write <= writes'
    BY <1>3, <1>4 DEF IInv, Order
  <2>2. ASSUME NEW t \in Tabs, call'[t].step = "write"
        PROVE  call'[t].document.write <= writes' /\ Newest(call[t].mac)'.write <= call'[t].document.write
    BY <1>3, <1>6, <2>2 DEF IInv, Order
  <2> QED
    BY <1>8, <2>1, <2>2 DEF Order, Newest
<1>10. SameWrite'
  <2>1. \A n \in Macs : Newest(n)'.write = writes' => Same(Newest(n)', Compiled')
    BY <1>3, <1>4, <1>5 DEF IInv, SameWrite
  <2>2. ASSUME NEW t \in Tabs, call'[t].step = "write"
        PROVE  /\ call'[t].document.write = writes' => Same(call'[t].document, Compiled')
               /\ call'[t].document.write = Newest(call[t].mac)'.write =>
                    Same(call'[t].document, Newest(call[t].mac)')
    BY <1>3, <1>5, <1>6, <2>2 DEF IInv, SameWrite
  <2> QED
    BY <2>1, <2>2 DEF SameWrite, Newest, Same
<1> QED
  BY <1>7, <1>9, <1>10 DEF IInv

LEMMA InitIInv == ASSUME Init PROVE IInv
<1>1. TypeOK
  BY InitTyped
<1>2. \A m \in Macs : Newest(m) = Compiled /\ Len(versions[m]) = 1
  BY DEF Init, Newest
<1>3. \A t \in Tabs : call[t].step = "idle"
  BY DEF Init, Idle, Call
<1>4. NeverGoesBack
  BY <1>2 DEF NeverGoesBack
<1>5. Compiled.write = writes /\ writes \in Nat
  BY <1>1 DEF Compiled, TypeOK
<1>6. Order
  BY <1>2, <1>3, <1>4, <1>5 DEF Order
<1>7. SameWrite
  BY <1>2, <1>3 DEF SameWrite, Same
<1> QED
  BY <1>1, <1>3, <1>6, <1>7 DEF IInv, Holder

\* What a parent does: the limits are a write, the rest moves the page.
LEMMA ParentKeeps == ASSUME IInv, TypeOK', NEW t \in Tabs, Parent(t) PROVE IInv'
<1> USE DEF IInv
<1>1. ASSUME NEW c, c.step # "write", Goto(t, c)
      PROVE  \A u \in Tabs : call'[u].step = "write" => call'[u] = call[u]
  BY <1>1, GotoFacts
<1>2. CASE SaveLimits(t)
  BY <1>1, <1>2, WriteKeeps DEF SaveLimits, PatchSettings, Call
<1>3. CASE Pick(t) \/ Edit(t) \/ Discard(t)
  BY <1>3, Frame DEF Pick, Edit, Discard
<1>4. CASE Review(t) \/ PublishClick(t) \/ RestoreClick(t)
  BY <1>1, <1>4, Frame DEF Review, PublishClick, RestoreClick, Call, database
<1> QED
  BY <1>2, <1>3, <1>4 DEF Parent

LEMMA HandlerKeeps == ASSUME IInv, TypeOK', NEW t \in Tabs, Handler(t) PROVE IInv'
<1> USE DEF IInv
<1>1. ASSUME NEW c, c.step # "write", Goto(t, c)
      PROVE  \A u \in Tabs : call'[u].step = "write" => call'[u] = call[u]
  BY <1>1, GotoFacts
<1>2. CASE ReadWindows(t) \/ ReadWarnings(t) \/ AskDiff(t) \/ AnswerDiff(t) \/ ReadExisting(t)
  BY <1>1, <1>2, Frame
  DEF ReadWindows, ReadWarnings, AskDiff, AnswerDiff, ReadExisting, Call, Idle, database
<1>3. CASE CheckTightening(t)
  BY <1>1, <1>3, Frame DEF CheckTightening, Call, Idle
<1>4. CASE ReplaceWindows(t)
  <2>1. call[t].then # "write"
    BY <1>4 DEF TypeOK, CallOK, ReplaceWindows
  <2> QED
    BY <1>1, <1>4, <2>1, WriteKeeps DEF ReplaceWindows, Call
<1>5. CASE GatherAndCompile(t)
  <2> DEFINE m == call[t].mac
             c == [step |-> "write", mac |-> m, then |-> "diff", load |-> call[t].load,
                   document |-> Compiled]
  <2>1. m \in Macs /\ lock[m] = None /\ lock' = [lock EXCEPT ![m] = t]
    BY <1>5 DEF GatherAndCompile, TypeOK, CallOK
  <2>2. call'[t] = c /\ \A u \in Tabs \ {t} : call'[u] = call[u]
    <3>1. Goto(t, c)
      BY <1>5 DEF GatherAndCompile
    <3>2. TypeOK
      OBVIOUS
    <3> HIDE DEF c, IInv
    <3> QED
      BY <3>1, <3>2, GotoFacts
  <2>3. \A u \in Tabs : call[u].step = "write" => call[u].mac \in Macs \ {m} /\ lock[call[u].mac] = u
    BY <2>1, RulesAssumption DEF TypeOK, CallOK, Holder
  <2>4. Holder'
    <3>1. lock'[m] = t /\ \A n \in Macs \ {m} : lock'[n] = lock[n]
      BY <2>1 DEF TypeOK
    <3>2. call'[t].mac = m
      BY <2>2
    <3> HIDE DEF m, IInv
    <3> QED
      BY <2>2, <2>3, <3>1, <3>2 DEF Holder
  <2>5. UNCHANGED <<windows, caps, writes, versions>> /\ Compiled' = Compiled
    BY <1>5 DEF GatherAndCompile, Compiled
  <2>6. \A n \in Macs : Newest(n)' = Newest(n)
    BY <2>5 DEF Newest
  <2>7. Compiled.write = writes /\ writes \in Nat
    BY DEF Compiled, TypeOK
  <2>8. NeverGoesBack'
    BY <2>5 DEF Order, NeverGoesBack
  <2>9. Order'
    <3>1. ASSUME NEW u \in Tabs, call'[u].step = "write"
          PROVE  call'[u].document.write <= writes' /\ Newest(call[u].mac)'.write <= call'[u].document.write
      <4>1. CASE u = t
        BY <2>1, <2>2, <2>5, <2>6, <2>7, <4>1 DEF Order
      <4>2. CASE u # t
        BY <2>2, <2>3, <2>5, <2>6, <3>1, <4>2 DEF Order
      <4> QED
        BY <4>1, <4>2
    <3> QED
      BY <2>5, <2>6, <2>8, <3>1 DEF Order, Newest
  <2>10. SameWrite'
    <3>1. ASSUME NEW u \in Tabs, call'[u].step = "write"
          PROVE  /\ call'[u].document.write = writes' => Same(call'[u].document, Compiled')
                 /\ call'[u].document.write = Newest(call[u].mac)'.write =>
                      Same(call'[u].document, Newest(call[u].mac)')
      <4>1. CASE u = t
        BY <2>1, <2>2, <2>5, <2>6, <2>7, <4>1 DEF SameWrite, Same
      <4>2. CASE u # t
        BY <2>2, <2>3, <2>5, <2>6, <3>1, <4>2 DEF SameWrite
      <4> QED
        BY <4>1, <4>2
    <3>2. \A n \in Macs : Newest(n)'.write = writes' => Same(Newest(n)', Compiled')
      BY <2>5, <2>6 DEF SameWrite
    <3> QED
      BY <3>1, <3>2 DEF SameWrite, Newest, Same
  <2> QED
    BY <2>4, <2>9, <2>10
<1>6. CASE WriteVersion(t)
  <2> DEFINE m == call[t].mac
             d == call[t].document
  <2>1. m \in Macs /\ d \in Document /\ call[t].step = "write" /\ lock[m] = t
    BY <1>6 DEF WriteVersion, TypeOK, CallOK, Holder
  <2>2. d.write <= writes /\ Newest(m).write <= d.write
    BY <2>1 DEF Order
  <2>3. (d.write = Newest(m).write => Same(d, Newest(m))) /\ (d.write = writes => Same(d, Compiled))
    BY <2>1 DEF SameWrite
  <2>4. ASSUME NEW u \in Tabs, call'[u].step = "write"
        PROVE  call'[u] = call[u] /\ call[u].mac # m /\ lock'[call[u].mac] = lock[call[u].mac]
    <3>1. u # t /\ call'[u] = call[u]
      BY <1>6, <2>4, GotoFacts DEF WriteVersion, Call
    <3>2. call[u].mac \in Macs /\ lock[call[u].mac] = u
      BY <2>4, <3>1 DEF Holder, TypeOK, CallOK
    <3> QED
      BY <1>6, <2>1, <3>1, <3>2 DEF WriteVersion, TypeOK
  <2>5. Insert(m, d) /\ UNCHANGED <<windows, caps, writes>>
    BY <1>6 DEF WriteVersion
  <2> HIDE DEF m, d, IInv
  <2> QED
    BY <2>1, <2>2, <2>3, <2>4, <2>5, InsertKeeps
<1> QED
  BY <1>2, <1>3, <1>4, <1>5, <1>6 DEF Handler

LEMMA StepIInv == ASSUME IInv, [Next]_vars PROVE IInv'
<1>0. TypeOK'
  BY StepTyped DEF IInv
<1>1. CASE \E t \in Tabs : Parent(t)
  BY <1>0, <1>1, ParentKeeps
<1>2. CASE \E t \in Tabs : Handler(t)
  BY <1>0, <1>2, HandlerKeeps
<1>3. CASE \E t \in Tabs : Arrive(t)
  BY <1>0, <1>3, Frame DEF Arrive
<1>4. CASE \E m \in Macs : Recompile(m)
  <2>1. PICK m \in Macs : Recompile(m)
    BY <1>4
  <2>2. Compiled \in Document /\ Compiled.write = writes /\ writes \in Nat /\ Same(Compiled, Compiled)
    BY CompiledTyped DEF IInv, Compiled, TypeOK, Same
  <2>3. Newest(m).write <= writes /\ (writes = Newest(m).write => Same(Compiled, Newest(m)))
    BY DEF IInv, Order, SameWrite, Same
  <2>4. \A u \in Tabs : call[u].step = "write" => call[u].mac # m
    BY <2>1, RulesAssumption DEF IInv, Holder, Recompile
  <2>5. Insert(m, Compiled) /\ UNCHANGED <<windows, caps, writes, lock, call>>
    BY <2>1 DEF Recompile
  <2> QED
    BY <1>0, <2>2, <2>3, <2>4, <2>5, InsertKeeps
<1>5. CASE Tick
  BY <1>0, <1>5, Frame DEF Tick
<1>6. CASE UNCHANGED vars
  BY <1>0, <1>6, Frame DEF vars
<1> QED
  BY <1>1, <1>2, <1>3, <1>4, <1>5, <1>6 DEF Next

\* The inductive invariant: every reachable state is typed, the row of a Mac is held by whoever is
\* about to insert, and what waits is no older than what is there (publish.ts).
THEOREM RulesInvariant == Spec => []IInv
BY InitIInv, StepIInv, PTL DEF Spec

\* Every variable keeps its type, whatever the requests and their order.
THEOREM RulesTypesAreRight == Spec => []TypeOK
<1>1. IInv => TypeOK
  BY DEF IInv
<1> QED
  BY <1>1, RulesInvariant, PTL

\* However many browsers save, restore and publish at once, and whatever the nightly job does, a
\* Mac's rules never go back to an older draft.
THEOREM RulesNeverGoBack == Spec => []NeverGoesBack
<1>1. IInv => NeverGoesBack
  BY DEF IInv, Order
<1> QED
  BY <1>1, RulesInvariant, PTL

-----------------------------------------------------------------------------
(* What a Mac is sent unasked.  A save gives every window a new row, and a *)
(* row that is gone never returns.  So what the check before the lock let  *)
(* pass is a tightening of no version that comes before it is compiled     *)
(* again (Judged): the rows it shares with the Mac's newest version are in *)
(* every version compiled in between (Follows); and once the tables have   *)
(* changed they never say the same again (Overtaken).                      *)

\* A row is numbered by the write that inserted it, and named by its start too.
Rows(wins, n) == \A w \in wins : w.id[1] <= n /\ w.id[2] = w.from

\* What has not been read was written later than all that has.
ReadAll(read, there) == \A x \in read, y \in there \ read : x.id[1] < y.id[1]

\* A newer document has every row of an older one that is still there.
Keeps(there, older, newer) == \A w \in there : w.id \in Ids(older) => w.id \in Ids(newer)

\* The tables no longer hold just these rows, and never will again.
Overtaken(wins, there) ==
  /\ wins # {}
  /\ (\E w \in wins : w \notin there) \/ (\E x \in there : \A w \in wins : w.id[1] < x.id[1])

\* detectTightening, at a moment.
Away(n, from) == (from - n) % Day

TightAt(n, current, proposed) ==
  \E w \in proposed.windows :
    /\ Away(n, w.from) <= Soon
    /\ \A before \in current.windows : before.id = w.id => Away(n, w.from) < Away(n, before.from)

Publishing(t) == call[t].step \in {"publish", "write"} /\ call[t].load # None

CallNumbered(t) ==
  /\ call[t].step = "write" => Rows(call[t].document.windows, writes)
  /\ call[t].step = "insert" => Rows(call[t].load.existing, writes)
  /\ Publishing(t) =>
       /\ call[t].load.compiled \in Document /\ Rows(call[t].load.compiled.windows, writes)
       /\ call[t].load.at \in Nat /\ call[t].load.at <= now

Numbered ==
  /\ Rows(windows, writes)
  /\ \A m \in Macs : Rows(Newest(m).windows, writes)
  /\ \A t \in Tabs : CallNumbered(t)

Reads(t) == call[t].step = "insert" => ReadAll(call[t].load.existing, windows)

Follows(t) ==
  call[t].step = "write" => Keeps(windows, Newest(call[t].mac).windows, call[t].document.windows)

Unconfirmed(t) == Publishing(t) /\ ~call[t].load.confirmed /\ call[t].load.at = now

\* What the check saw is still there, or will never be, or restricts nothing.
Seen(t) ==
  LET wins == call[t].load.compiled.windows
  IN  wins = windows \/ wins = {} \/ Overtaken(wins, windows)

\* It tightens neither the newest version nor one that is about to be.
Passed(t) ==
  LET seen == call[t].load.compiled
  IN  \/ Overtaken(seen.windows, windows)
      \/ /\ ~TightAt(now, Newest(call[t].mac), seen)
         /\ \A u \in Tabs : call[u].step = "write" /\ call[u].mac = call[t].mac =>
              ~TightAt(now, call[u].document, seen)

Judged(t) ==
  Unconfirmed(t) =>
    /\ Seen(t)
    /\ call[t].step = "publish" => Passed(t)
    /\ call[t].step = "write" =>
         \/ call[t].document.windows # call[t].load.compiled.windows
         \/ ~TightAt(now, Newest(call[t].mac), call[t].load.compiled)

Watched == Numbered /\ \A t \in Tabs : Reads(t) /\ Follows(t) /\ Judged(t)

-----------------------------------------------------------------------------
(* Rows *)

LEMMA Tightens == \A c, p : Tightening(c, p) <=> TightAt(now, c, p)
BY DEF Tightening, MinutesUntil, TightAt, Away

LEMMA Later ==
  ASSUME NEW wins \in SUBSET Window, NEW n \in Nat, Rows(wins, n)
  PROVE  Rows(wins, n + 1)
BY DEF Rows, Window

\* The rows are told apart by their numbers alone.
LEMMA TightIsNew ==
  ASSUME TypeOK, NEW c \in Document, NEW p \in Document, NEW n, Rows(c.windows, n), Rows(p.windows, n)
  PROVE  TightAt(now, c, p) <=>
           \E w \in p.windows : Away(now, w.from) <= Soon /\ w.id \notin Ids(c.windows)
<1>1. ASSUME NEW w \in p.windows
      PROVE  Away(now, w.from) \in Int
  <2>0. w \in Window
    BY <1>1 DEF Document
  <2>1. w.from \in Int /\ now \in Int /\ Day \in Nat \ {0}
    <3>1. w.from \in Starts /\ Starts \subseteq 0..(Day - 1) /\ Day \in Nat \ {0}
      BY <2>0, RulesAssumption DEF Window
    <3>2. now \in Nat
      BY DEF TypeOK
    <3>3. w.from \in 0..(Day - 1)
      BY <3>1
    <3> QED
      BY <3>1, <3>2, <3>3
  <2> QED
    BY <2>1 DEF Away
<1>2. ASSUME NEW w \in p.windows, NEW b \in c.windows, b.id = w.id
      PROVE  ~(Away(now, w.from) < Away(now, b.from))
  <2>1. b.from = w.from
    BY <1>2 DEF Rows
  <2> QED
    BY <2>1, <1>1
<1> QED
  BY <1>2 DEF TightAt, Ids

\* Nothing tightens what holds its rows, and nothing restricts if there is nothing.
LEMMA NothingNew ==
  ASSUME TypeOK, NEW c \in Document, NEW p \in Document, NEW n, Rows(c.windows, n), Rows(p.windows, n),
         p.windows = {} \/ p.windows = c.windows
  PROVE  ~TightAt(now, c, p)
BY TightIsNew DEF Ids

\* A newer document is tightened by no more of what is there than the older one.
LEMMA NoTighter ==
  ASSUME TypeOK, NEW c \in Document, NEW d \in Document, NEW p \in Document,
         Rows(c.windows, writes), Rows(d.windows, writes), Rows(p.windows, writes),
         Keeps(p.windows, c.windows, d.windows), ~TightAt(now, c, p)
  PROVE  ~TightAt(now, d, p)
<1>1. \A w \in p.windows : Away(now, w.from) <= Soon => w.id \in Ids(c.windows)
  BY TightIsNew
<1>2. \A w \in p.windows : Away(now, w.from) <= Soon => w.id \in Ids(d.windows)
  BY <1>1 DEF Keeps
<1> QED
  BY <1>2, TightIsNew

LEMMA DeletesFacts ==
  ASSUME NEW read, NEW gone \in Deletes(read)
  PROVE  gone = {} \/ gone = windows \/ gone = windows \cap read
BY DEF Deletes

\* What a write does to what a handler has read, and to what it has checked.
LEMMA ReplaceReads ==
  ASSUME NEW there \in SUBSET Window, NEW read \in SUBSET Window, NEW n \in Nat,
         Rows(read, n), ReadAll(read, there),
         NEW gone, NEW new \in SUBSET Window, \A w \in new : w.id[1] = n + 1
  PROVE  ReadAll(read, (there \ gone) \cup new)
<1>1. ASSUME NEW x \in read, NEW y \in ((there \ gone) \cup new) \ read
      PROVE  x.id[1] < y.id[1]
  <2>1. x.id[1] \in Nat /\ x.id[1] <= n
    BY <1>1 DEF Rows, Window
  <2>2. CASE y \in new
    BY <2>1, <2>2
  <2>3. CASE y \in there
    BY <1>1, <2>3 DEF ReadAll
  <2> QED
    BY <1>1, <2>2, <2>3
<1> QED
  BY <1>1 DEF ReadAll

LEMMA ReplaceChecked ==
  ASSUME NEW there \in SUBSET Window, NEW wins \in SUBSET Window, NEW read \in SUBSET Window, NEW n \in Nat,
         Rows(there, n), Rows(wins, n), Rows(read, n), ReadAll(read, there),
         NEW gone, gone = {} \/ gone = there \/ gone = there \cap read,
         NEW new \in SUBSET Window, \A w \in new : w.id[1] = n + 1,
         NEW next, next = (there \ gone) \cup new
  PROVE  /\ \/ wins = there \/ wins = {} \/ Overtaken(wins, there)
            => wins = next \/ wins = {} \/ Overtaken(wins, next)
         /\ Overtaken(wins, there) => Overtaken(wins, next)
<1>0. /\ \A w \in there \cup wins \cup read : w.id[1] \in Nat /\ w.id[1] <= n
      /\ \A w \in new : w.id[1] = n + 1 /\ n < n + 1
  BY DEF Rows, Window
<1>2. ASSUME NEW w \in wins, w \notin there
      PROVE  w \notin next
  BY <1>2, <1>0
<1>3. ASSUME NEW w \in wins, w \in gone
      PROVE  w \notin next
  BY <1>3, <1>0
<1>4. ASSUME Overtaken(wins, there)
      PROVE  Overtaken(wins, next)
  <2>1. CASE \E w \in wins : w \notin there
    BY <1>2, <1>4, <2>1 DEF Overtaken
  <2>2. CASE \E x \in there : \A w \in wins : w.id[1] < x.id[1]
    <3>1. PICK x \in there : \A w \in wins : w.id[1] < x.id[1]
      BY <2>2
    <3>2. CASE x \in next
      BY <1>4, <3>1, <3>2 DEF Overtaken
    <3>3. CASE x \notin next
      <4>1. PICK w \in wins : TRUE
        BY <1>4 DEF Overtaken
      <4>2. CASE w \in there
        <5>1. x \in gone
          BY <3>3
        <5>2. w \in gone
          <6>1. CASE gone = there
            BY <6>1, <4>2
          <6>2. CASE gone = there \cap read
            <7>1. x \in read /\ w.id[1] < x.id[1] /\ w.id[1] \in Nat /\ x.id[1] \in Nat
              BY <1>0, <3>1, <4>1, <5>1, <6>2
            <7>2. w \in read
              BY <7>1, <4>2 DEF ReadAll
            <7> QED
              BY <6>2, <7>2, <4>2
          <6> QED
            BY <5>1, <6>1, <6>2
        <5> QED
          BY <1>3, <1>4, <4>1, <5>2 DEF Overtaken
      <4>3. CASE w \notin there
        BY <1>2, <1>4, <4>1, <4>3 DEF Overtaken
      <4> QED
        BY <4>2, <4>3
    <3> QED
      BY <3>2, <3>3
  <2> QED
    BY <1>4, <2>1, <2>2 DEF Overtaken
<1>5. ASSUME wins = there, wins # {}
      PROVE  wins = next \/ Overtaken(wins, next)
  <2>1. CASE \E w \in wins : w \in gone
    BY <1>3, <1>5, <2>1 DEF Overtaken
  <2>2. CASE \A w \in wins : w \notin gone
    <3>1. CASE new = {}
      BY <1>5, <2>2, <3>1
    <3>2. CASE new # {}
      <4>1. PICK x \in new : TRUE
        BY <3>2
      <4>2. x \in next /\ \A w \in wins : w.id[1] < x.id[1]
        BY <1>0, <4>1
      <4> QED
        BY <1>5, <4>2 DEF Overtaken
    <3> QED
      BY <3>1, <3>2
  <2> QED
    BY <2>1, <2>2
<1> QED
  BY <1>4, <1>5

-----------------------------------------------------------------------------
(* One lemma per kind of step *)

LEMMA DocumentsTyped ==
  ASSUME TypeOK, NEW t \in Tabs
  PROVE  /\ call[t].step # "idle" => call[t].mac \in Macs /\ Newest(call[t].mac) \in Document
         /\ call[t].step = "write" => call[t].document \in Document
         /\ call[t].step = "insert" => call[t].load.existing \in SUBSET Window
BY NewestTyped DEF TypeOK, CallOK

\* What is compiled now is no tightening, for whoever checked what is there or what is gone.
LEMMA CompiledPasses ==
  ASSUME TypeOK, Watched, NEW t \in Tabs, Unconfirmed(t)
  PROVE  LET seen == call[t].load.compiled
         IN  Overtaken(seen.windows, windows) \/ ~TightAt(now, Compiled, seen)
<1> DEFINE seen == call[t].load.compiled
<1>1. Numbered /\ CallNumbered(t) /\ Judged(t) /\ Publishing(t)
  BY DEF Watched, Numbered, Unconfirmed
<1>2. seen \in Document /\ Rows(seen.windows, writes) /\ Seen(t)
  BY <1>1 DEF CallNumbered, Judged
<1>3. Compiled \in Document /\ Compiled.windows = windows /\ Rows(windows, writes)
  BY <1>1, CompiledTyped DEF Compiled, Numbered
<1>4. seen.windows = {} \/ seen.windows = windows => ~TightAt(now, Compiled, seen)
  BY <1>2, <1>3, NothingNew
<1> QED
  BY <1>2, <1>4 DEF Seen

\* A handler that is left alone, by a step that writes no window and no version and that starts no
\* insertion but of what is compiled now.
LEMMA Undisturbed ==
  ASSUME TypeOK, Watched, UNCHANGED <<windows, versions, now>>, writes' = writes \/ writes' = writes + 1,
         NEW t \in Tabs, call'[t] = call[t],
         \A u \in Tabs : call'[u].step = "write" => call'[u] = call[u] \/ call'[u].document = Compiled
  PROVE  CallNumbered(t)' /\ Reads(t)' /\ Follows(t)' /\ Judged(t)'
<1>1. CallNumbered(t) /\ Reads(t) /\ Follows(t) /\ Judged(t)
  BY DEF Watched, Numbered
<1>2. call[t].step # "idle" => call[t].mac \in Macs
  BY DocumentsTyped
<1>3. CallNumbered(t)'
  <2>1. \A wins \in SUBSET Window : Rows(wins, writes) => Rows(wins, writes')
    BY Later DEF TypeOK
  <2>2. call[t].step = "write" => call[t].document.windows \in SUBSET Window
    BY DocumentsTyped DEF Document
  <2>3. Publishing(t) => call[t].load.compiled.windows \in SUBSET Window
    BY <1>1 DEF CallNumbered, Document
  <2> QED
    BY <1>1, <2>1, <2>2, <2>3, DocumentsTyped DEF CallNumbered, Publishing
<1>4. Reads(t)' /\ Follows(t)'
  BY <1>1, <1>2 DEF Reads, Follows, Newest
<1>5. Judged(t)'
  <2> SUFFICES ASSUME Unconfirmed(t)'
               PROVE  Judged(t)'
    BY DEF Judged
  <2>1. Unconfirmed(t)
    BY DEF Unconfirmed, Publishing
  <2>2. Seen(t)'
    BY <1>1, <2>1 DEF Seen, Judged
  <2>3. ASSUME call[t].step = "publish"
        PROVE  Passed(t)'
    <3>1. Passed(t)
      BY <1>1, <2>1, <2>3 DEF Judged
    <3>2. \/ Overtaken(call[t].load.compiled.windows, windows)
          \/ ~TightAt(now, Compiled, call[t].load.compiled)
      BY <2>1, CompiledPasses
    <3>3. ASSUME ~Overtaken(call[t].load.compiled.windows, windows),
                 NEW u \in Tabs, call'[u].step = "write", call'[u].mac = call[t].mac
          PROVE  ~TightAt(now, call'[u].document, call[t].load.compiled)
      BY <3>1, <3>2, <3>3 DEF Passed
    <3> QED
      BY <1>2, <2>3, <3>1, <3>3 DEF Passed, Newest
  <2> QED
    BY <1>1, <1>2, <2>1, <2>2, <2>3 DEF Judged, Newest
<1> QED
  BY <1>3, <1>4, <1>5

\* A step that writes no window and no version, and begins nothing that is watched.
LEMMA QuietKeeps ==
  ASSUME TypeOK, Watched, UNCHANGED <<windows, versions, now>>, writes' = writes \/ writes' = writes + 1,
         \A u \in Tabs : call'[u] = call[u] \/ call'[u].step \notin {"insert", "publish", "write"}
  PROVE  Watched'
<1>1. \A m \in Macs : Newest(m)' = Newest(m)
  BY DEF Newest
<1>2. \A wins \in SUBSET Window : Rows(wins, writes) => Rows(wins, writes')
  BY Later DEF TypeOK
<1>3. Rows(windows', writes')
  BY <1>2 DEF Watched, Numbered, TypeOK
<1>4. \A m \in Macs : Rows(Newest(m)'.windows, writes')
  BY <1>1, <1>2, NewestTyped DEF Watched, Numbered, Document
<1>5. ASSUME NEW t \in Tabs
      PROVE  CallNumbered(t)' /\ Reads(t)' /\ Follows(t)' /\ Judged(t)'
  <2>1. CASE call'[t] = call[t]
    BY <2>1, Undisturbed
  <2>2. CASE call'[t].step \notin {"insert", "publish", "write"}
    BY <2>2 DEF CallNumbered, Reads, Follows, Judged, Unconfirmed, Publishing
  <2> QED
    BY <2>1, <2>2
<1> QED
  BY <1>3, <1>4, <1>5 DEF Watched, Numbered, Newest

\* Time passes: what was checked before is no longer what is watched.
LEMMA TickKeeps == ASSUME TypeOK, Watched, Tick PROVE Watched'
<1>1. \A m \in Macs : Newest(m)' = Newest(m)
  BY DEF Newest, Tick, database
<1>2. UNCHANGED <<windows, writes, call>> /\ now \in Nat /\ now' = now + 1
  BY DEF Tick, database, TypeOK
<1>3. ASSUME NEW t \in Tabs
      PROVE  CallNumbered(t)'
  BY <1>2 DEF Watched, Numbered, CallNumbered, Publishing
<1>4. ASSUME NEW t \in Tabs
      PROVE  Reads(t)' /\ Follows(t)' /\ Judged(t)'
  <2>1. call[t].step # "idle" => call[t].mac \in Macs
    BY DocumentsTyped
  <2>2. Reads(t)' /\ Follows(t)'
    BY <1>1, <1>2, <2>1 DEF Watched, Reads, Follows, Newest
  <2>3. ~Unconfirmed(t)'
    BY <1>2 DEF Watched, Numbered, CallNumbered, Unconfirmed, Publishing
  <2> QED
    BY <2>2, <2>3 DEF Judged
<1> QED
  BY <1>1, <1>2, <1>3, <1>4 DEF Watched, Numbered, Newest

\* A save reads what is there.
LEMMA ReadKeeps ==
  ASSUME TypeOK, TypeOK', Watched, NEW t \in Tabs, ReadExisting(t)
  PROVE  Watched'
<1> DEFINE c == Call("insert", call[t].mac, call[t].then, [with |-> call[t].load.with, existing |-> windows])
<1>1. call'[t] = c /\ \A u \in Tabs \ {t} : call'[u] = call[u]
  BY GotoFacts DEF ReadExisting
<1>2. c.step = "insert" /\ c.load.existing = windows
  BY DEF Call
<1>3. UNCHANGED <<windows, versions, now, writes>>
  BY DEF ReadExisting, database
<1>4. CallNumbered(t)' /\ Reads(t)' /\ Follows(t)' /\ Judged(t)'
  <2>1. Rows(windows, writes)
    BY DEF Watched, Numbered
  <2> QED
    BY <1>1, <1>2, <1>3, <2>1
    DEF CallNumbered, Publishing, Reads, ReadAll, Follows, Judged, Unconfirmed
<1>5. ASSUME NEW u \in Tabs, u # t
      PROVE  CallNumbered(u)' /\ Reads(u)' /\ Follows(u)' /\ Judged(u)'
  BY <1>1, <1>2, <1>3, <1>5, Undisturbed
<1>6. \A u \in Tabs : CallNumbered(u)' /\ Reads(u)' /\ Follows(u)' /\ Judged(u)'
  BY <1>4, <1>5
<1> QED
  BY <1>3, <1>6 DEF Watched, Numbered, Newest

\* A save replaces windows by rows that no version and no handler has.
LEMMA ReplaceKeeps ==
  ASSUME TypeOK, Watched, NEW t \in Tabs, ReplaceWindows(t)
  PROVE  Watched'
<1> DEFINE read == call[t].load.existing
           new == Fresh(call[t].load.with)
<1>0. writes \in Nat /\ windows \in SUBSET Window
  BY DEF TypeOK
<1>1. /\ read \in SUBSET Window /\ new \in SUBSET Window /\ Rows(read, writes) /\ Rows(windows, writes)
      /\ ReadAll(read, windows)
  <2>1. call[t].step = "insert" /\ call[t].load.with \in Draft
    BY DEF ReplaceWindows, TypeOK, CallOK
  <2>2. Reads(t) /\ CallNumbered(t) /\ Rows(windows, writes)
    BY DEF Watched, Numbered
  <2> QED
    BY <2>1, <2>2, DocumentsTyped, FreshTyped DEF Reads, CallNumbered
<1>2. \A w \in new : w.id[1] = writes + 1 /\ w.id[2] = w.from
  BY DEF Fresh
<1>3. PICK gone \in Deletes(read) : windows' = (windows \ gone) \cup new
  BY DEF ReplaceWindows
<1>4. gone = {} \/ gone = windows \/ gone = windows \cap read
  BY DeletesFacts
<1>5. UNCHANGED <<versions, now>> /\ writes' = writes + 1
  BY DEF ReplaceWindows
<1>6. call'[t] = Call(call[t].then, call[t].mac, "diff", None) /\ \A u \in Tabs \ {t} : call'[u] = call[u]
  BY GotoFacts DEF ReplaceWindows
<1>7. call'[t].step \in {"rules", "publish"} /\ call'[t].load = None
  <2>1. call[t].then \in {"rules", "publish"}
    BY DEF ReplaceWindows, TypeOK, CallOK
  <2> QED
    BY <1>6, <2>1 DEF Call
<1> HIDE DEF read, new
<1>8. ASSUME NEW wins \in SUBSET Window, Rows(wins, writes)
      PROVE  /\ \/ wins = windows \/ wins = {} \/ Overtaken(wins, windows)
                => wins = windows' \/ wins = {} \/ Overtaken(wins, windows')
             /\ Overtaken(wins, windows) => Overtaken(wins, windows')
  <2>1. \A w \in new : w.id[1] = writes + 1
    BY <1>2
  <2>2. PICK next : next = windows'
    OBVIOUS
  <2>3. /\ \/ wins = windows \/ wins = {} \/ Overtaken(wins, windows)
           => wins = next \/ wins = {} \/ Overtaken(wins, next)
        /\ Overtaken(wins, windows) => Overtaken(wins, next)
    BY <1>0, <1>1, <1>3, <1>4, <1>8, <2>1, <2>2, ReplaceChecked
  <2> QED
    BY <2>2, <2>3
<1>9. \A wins \in SUBSET Window : Rows(wins, writes) => Rows(wins, writes')
  BY <1>0, <1>5, Later
<1>10. Rows(windows', writes')
  <2>1. Rows(windows, writes')
    BY <1>0, <1>1, <1>9
  <2>2. \A w \in new : w.id[1] <= writes' /\ w.id[2] = w.from
    BY <1>0, <1>2, <1>5
  <2> QED
    BY <1>3, <2>1, <2>2 DEF Rows
<1>11. \A m \in Macs : Newest(m)' = Newest(m) /\ Rows(Newest(m).windows, writes')
  <2>1. \A m \in Macs : Newest(m)' = Newest(m)
    BY <1>5 DEF Newest
  <2>2. \A m \in Macs : Newest(m).windows \in SUBSET Window /\ Rows(Newest(m).windows, writes)
    BY NewestTyped DEF Document, Watched, Numbered
  <2> QED
    BY <2>1, <2>2, <1>9
<1>12. CallNumbered(t)' /\ Reads(t)' /\ Follows(t)' /\ Judged(t)'
  BY <1>7 DEF CallNumbered, Reads, Follows, Judged, Unconfirmed, Publishing
<1>13. ASSUME NEW u \in Tabs, u # t
       PROVE  CallNumbered(u)' /\ Reads(u)' /\ Follows(u)' /\ Judged(u)'
  <2>1. call'[u] = call[u]
    BY <1>6, <1>13
  <2>2. CallNumbered(u) /\ Reads(u) /\ Follows(u) /\ Judged(u)
    BY DEF Watched, Numbered
  <2>3. /\ call[u].step = "write" => call[u].document.windows \in SUBSET Window
        /\ Publishing(u) => call[u].load.compiled.windows \in SUBSET Window
        /\ call[u].step = "insert" => call[u].load.existing \in SUBSET Window
        /\ call[u].step # "idle" => call[u].mac \in Macs
    BY <2>2, DocumentsTyped DEF CallNumbered, Document
  <2>4. CallNumbered(u)'
    BY <1>5, <1>9, <2>1, <2>2, <2>3 DEF CallNumbered, Publishing
  <2>5. Reads(u)'
    <3>1. ASSUME call[u].step = "insert"
          PROVE  ReadAll(call[u].load.existing, windows')
      <4>1. /\ call[u].load.existing \in SUBSET Window
            /\ Rows(call[u].load.existing, writes) /\ ReadAll(call[u].load.existing, windows)
        BY <2>2, <2>3, <3>1 DEF Reads, CallNumbered
      <4>2. ReadAll(call[u].load.existing, (windows \ gone) \cup new)
        BY <1>0, <1>1, <1>2, <4>1, ReplaceReads
      <4> QED
        BY <1>3, <4>2
    <3> QED
      BY <3>1, <2>1 DEF Reads
  <2>6. Follows(u)'
    <3>1. ASSUME call[u].step = "write", NEW w \in windows', w.id \in Ids(Newest(call[u].mac).windows)
          PROVE  w.id \in Ids(call[u].document.windows)
      <4>1. w \notin new
        <5>1. PICK x \in Newest(call[u].mac).windows : x.id = w.id
          BY <3>1 DEF Ids
        <5>2. x.id[1] <= writes /\ x \in Window
          BY <2>3, <3>1, <5>1, NewestTyped DEF Watched, Numbered, Rows, Document
        <5> QED
          BY <1>0, <1>2, <5>1, <5>2 DEF Window
      <4> QED
        BY <1>3, <2>2, <3>1, <4>1 DEF Follows, Keeps
    <3> QED
      BY <1>11, <2>1, <2>3, <3>1 DEF Follows, Keeps, Newest
  <2>7. Judged(u)'
    <3> SUFFICES ASSUME Unconfirmed(u)'
                 PROVE  Judged(u)'
      BY DEF Judged
    <3>1. Unconfirmed(u) /\ Publishing(u)
      BY <1>5, <2>1 DEF Unconfirmed, Publishing
    <3>2. Seen(u)'
      <4> DEFINE wins == call[u].load.compiled.windows
      <4>1. wins \in SUBSET Window /\ Rows(wins, writes) /\ Seen(u)
        BY <2>2, <2>3, <3>1 DEF CallNumbered, Judged
      <4>2. wins = windows' \/ wins = {} \/ Overtaken(wins, windows')
        BY <1>8, <4>1 DEF Seen
      <4> QED
        BY <2>1, <4>2 DEF Seen
    <3>3. ASSUME call[u].step = "publish"
          PROVE  Passed(u)'
      <4> DEFINE wins == call[u].load.compiled.windows
      <4>1. Passed(u)
        BY <2>2, <3>1, <3>3 DEF Judged
      <4>2. wins \in SUBSET Window /\ Rows(wins, writes)
        BY <2>2, <2>3, <3>1 DEF CallNumbered
      <4>3. Overtaken(wins, windows) => Overtaken(wins, windows')
        BY <1>8, <4>2
      <4>4. \A v \in Tabs : call'[v].step = "write" => call'[v] = call[v]
        BY <1>6, <1>7
      <4> QED
        BY <4>1, <4>3, <4>4, <1>5, <2>1, <2>3, <3>3 DEF Passed, Newest
    <3> QED
      BY <1>5, <2>1, <2>2, <2>3, <3>1, <3>2, <3>3 DEF Judged, Newest
  <2> QED
    BY <2>4, <2>5, <2>6, <2>7
<1>14. ASSUME NEW u \in Tabs
       PROVE  CallNumbered(u)' /\ Reads(u)' /\ Follows(u)' /\ Judged(u)'
  BY <1>12, <1>13
<1> QED
  BY <1>10, <1>11, <1>14 DEF Watched, Numbered, Newest

\* The check before the lock, of what the tables say now.
LEMMA CheckKeeps ==
  ASSUME TypeOK, Watched, NEW t \in Tabs, CheckTightening(t)
  PROVE  Watched'
<1> DEFINE m == call[t].mac
           c == Call("publish", m, "diff", Checked(call[t].load))
<1>0. m \in Macs /\ Newest(m) \in Document /\ Compiled \in Document
  BY DocumentsTyped, CompiledTyped DEF CheckTightening
<1>1. UNCHANGED <<windows, versions, now, writes>>
  BY DEF CheckTightening, database
<1>2. CASE Goto(t, Idle)
  <2>1. \A u \in Tabs : call'[u] = call[u] \/ call'[u].step \notin {"insert", "publish", "write"}
    BY <1>2, GotoFacts DEF Idle, Call
  <2> QED
    BY <1>1, <2>1, QuietKeeps
<1>3. CASE Goto(t, c) /\ (call[t].load \/ ~TightAt(now, Newest(m), Compiled))
  <2>1. call'[t] = c /\ \A u \in Tabs \ {t} : call'[u] = call[u]
    BY <1>3, GotoFacts
  <2>2. /\ c.step = "publish" /\ c.mac = m /\ c.load.compiled = Compiled /\ c.load.at = now
        /\ c.load.confirmed = call[t].load
    BY DEF Call, Checked
  <2> HIDE DEF c, m
  <2>3. Compiled.windows = windows /\ Rows(windows, writes) /\ now \in Nat
    BY DEF Compiled, Watched, Numbered, TypeOK
  <2>4. CallNumbered(t)' /\ Reads(t)' /\ Follows(t)'
    BY <1>0, <1>1, <2>1, <2>2, <2>3 DEF CallNumbered, Publishing, Reads, Follows
  <2>5. Judged(t)'
    <3>1. ASSUME Unconfirmed(t)'
          PROVE  Passed(t)'
      <4>1. ~TightAt(now, Newest(m), Compiled)
        BY <1>3, <2>1, <2>2, <3>1 DEF Unconfirmed
      <4>2. ASSUME NEW u \in Tabs, call'[u].step = "write", call'[u].mac = m
            PROVE  ~TightAt(now, call'[u].document, Compiled)
        <5>1. call'[u] = call[u]
          BY <2>1, <2>2, <4>2
        <5>2. CallNumbered(u) /\ Follows(u) /\ call[u].document \in Document /\ Rows(Newest(m).windows, writes)
          BY <1>0, <4>2, <5>1, DocumentsTyped DEF Watched, Numbered
        <5>3. Keeps(windows, Newest(m).windows, call[u].document.windows)
          BY <4>2, <5>1, <5>2 DEF Follows
        <5>4. Rows(call[u].document.windows, writes) /\ Rows(Compiled.windows, writes)
          BY <2>3, <4>2, <5>1, <5>2 DEF CallNumbered
        <5>5. Keeps(Compiled.windows, Newest(m).windows, call[u].document.windows)
          BY <2>3, <5>3
        <5> QED
          BY <1>0, <4>1, <5>1, <5>2, <5>4, <5>5, NoTighter
      <4> QED
        BY <1>1, <2>1, <2>2, <4>1, <4>2 DEF Passed, Newest
    <3>2. Seen(t)'
      BY <1>1, <2>1, <2>2, <2>3 DEF Seen
    <3> QED
      BY <2>1, <2>2, <3>1, <3>2 DEF Judged
  <2>6. ASSUME NEW u \in Tabs, u # t
        PROVE  CallNumbered(u)' /\ Reads(u)' /\ Follows(u)' /\ Judged(u)'
    BY <1>1, <2>1, <2>2, <2>6, Undisturbed
  <2>7. \A u \in Tabs : CallNumbered(u)' /\ Reads(u)' /\ Follows(u)' /\ Judged(u)'
    BY <2>4, <2>5, <2>6
  <2> QED
    BY <1>1, <2>7 DEF Watched, Numbered, Newest
<1> QED
  BY <1>2, <1>3, Tightens DEF CheckTightening

\* Under the lock the tables are compiled as they are now.
LEMMA GatherKeeps ==
  ASSUME TypeOK, Watched, NEW t \in Tabs, GatherAndCompile(t)
  PROVE  Watched'
<1> DEFINE c == [step |-> "write", mac |-> call[t].mac, then |-> "diff", load |-> call[t].load,
                 document |-> Compiled]
<1>0. call[t].step = "publish" /\ call[t].mac \in Macs
  BY DocumentsTyped DEF GatherAndCompile
<1>1. UNCHANGED <<windows, versions, now, writes>>
  BY DEF GatherAndCompile
<1>2. call'[t] = c /\ \A u \in Tabs \ {t} : call'[u] = call[u]
  BY GotoFacts DEF GatherAndCompile
<1>3. Compiled.windows = windows /\ Rows(windows, writes)
  BY DEF Compiled, Watched, Numbered
<1>4. CallNumbered(t) /\ Judged(t)
  BY DEF Watched, Numbered
<1>5. CallNumbered(t)' /\ Reads(t)' /\ Follows(t)'
  BY <1>0, <1>1, <1>2, <1>3, <1>4 DEF CallNumbered, Publishing, Reads, Follows, Keeps, Ids
<1>6. Judged(t)'
  <2> SUFFICES ASSUME Unconfirmed(t)'
               PROVE  Judged(t)'
    BY DEF Judged
  <2> DEFINE seen == call[t].load.compiled
  <2>1. Unconfirmed(t)
    BY <1>0, <1>1, <1>2 DEF Unconfirmed, Publishing
  <2>2. Seen(t) /\ Passed(t)
    BY <1>0, <1>4, <2>1 DEF Judged
  <2>3. Overtaken(seen.windows, windows) => windows # seen.windows
    BY DEF Overtaken, TypeOK, Window
  <2>4. Compiled.windows # seen.windows \/ ~TightAt(now, Newest(call[t].mac), seen)
    BY <1>3, <2>2, <2>3 DEF Passed
  <2> QED
    BY <1>0, <1>1, <1>2, <2>2, <2>4 DEF Judged, Seen, Newest
<1>7. ASSUME NEW u \in Tabs, u # t
      PROVE  CallNumbered(u)' /\ Reads(u)' /\ Follows(u)' /\ Judged(u)'
  BY <1>1, <1>2, <1>7, Undisturbed
<1>8. \A u \in Tabs : CallNumbered(u)' /\ Reads(u)' /\ Follows(u)' /\ Judged(u)'
  BY <1>5, <1>6, <1>7
<1> QED
  BY <1>1, <1>3, <1>8 DEF Watched, Numbered, Newest

\* A version is added for a Mac for which nothing else waits, and that what was checked passes.
LEMMA VersionKeeps ==
  ASSUME TypeOK, Watched, NEW m \in Macs, NEW d \in Document, Insert(m, d),
         UNCHANGED <<windows, now, writes>>, Rows(d.windows, writes),
         \A u \in Tabs : call'[u] = call[u] \/ call'[u].step \notin {"insert", "publish", "write"},
         \A u \in Tabs : call'[u].step = "write" => call[u].mac # m,
         \A u \in Tabs : call[u].step = "publish" /\ Unconfirmed(u) /\ call[u].mac = m =>
           \/ Overtaken(call[u].load.compiled.windows, windows)
           \/ ~TightAt(now, d, call[u].load.compiled)
  PROVE  Watched'
<1>1. \A n \in Macs \ {m} : Newest(n)' = Newest(n)
  BY InsertFacts DEF Newest
<1>2. Newest(m)' = Newest(m) \/ Newest(m)' = d
  BY InsertFacts DEF Newest
<1>3. \A n \in Macs : Rows(Newest(n)'.windows, writes)
  BY <1>1, <1>2 DEF Watched, Numbered
<1>4. ASSUME NEW t \in Tabs, call'[t] = call[t]
      PROVE  CallNumbered(t)' /\ Reads(t)' /\ Follows(t)' /\ Judged(t)'
  <2>1. CallNumbered(t) /\ Reads(t) /\ Follows(t) /\ Judged(t)
    BY DEF Watched, Numbered
  <2>2. call[t].step # "idle" => call[t].mac \in Macs
    BY DocumentsTyped
  <2>3. call[t].step = "write" => call[t].mac # m /\ Newest(call[t].mac)' = Newest(call[t].mac)
    <3> SUFFICES ASSUME call[t].step = "write"
                 PROVE  call[t].mac # m /\ \A n \in Macs : n = call[t].mac => Newest(n)' = Newest(n)
      BY <1>4, <2>2 DEF Newest
    <3> QED
      BY <1>1, <1>4, <2>2
  <2>4. CallNumbered(t)' /\ Reads(t)' /\ Follows(t)'
    BY <1>4, <2>1, <2>3 DEF CallNumbered, Publishing, Reads, Follows, Newest
  <2>5. Judged(t)'
    <3> SUFFICES ASSUME Unconfirmed(t)'
                 PROVE  Judged(t)'
      BY DEF Judged
    <3> DEFINE seen == call[t].load.compiled
    <3>1. Unconfirmed(t)
      BY <1>4 DEF Unconfirmed, Publishing
    <3>2. Seen(t)'
      BY <1>4, <2>1, <3>1 DEF Seen, Judged
    <3>3. ASSUME call[t].step = "publish"
          PROVE  Passed(t)'
      <4>1. Passed(t)
        BY <2>1, <3>1, <3>3 DEF Judged
      <4>2. ASSUME ~Overtaken(seen.windows, windows)
            PROVE  \A n \in Macs : n = call[t].mac => ~TightAt(now, Newest(n)', seen)
        <5>1. \A n \in Macs : n = call[t].mac => ~TightAt(now, Newest(n), seen)
          BY <4>1, <4>2 DEF Passed
        <5>2. call[t].mac = m => ~TightAt(now, d, seen)
          BY <3>1, <3>3, <4>2
        <5> QED
          BY <1>1, <1>2, <5>1, <5>2
      <4>3. \A u \in Tabs : call'[u].step = "write" => call'[u] = call[u]
        OBVIOUS
      <4> QED
        BY <1>4, <2>2, <3>3, <4>1, <4>2, <4>3 DEF Passed, Newest
    <3>4. ASSUME call[t].step = "write"
          PROVE  \/ call[t].document.windows # seen.windows
                 \/ \A n \in Macs : n = call[t].mac => ~TightAt(now, Newest(n)', seen)
      BY <1>1, <1>4, <2>1, <2>3, <3>1, <3>4 DEF Judged
    <3> QED
      BY <1>4, <2>2, <3>2, <3>3, <3>4 DEF Judged, Newest
  <2> QED
    BY <2>4, <2>5
<1>5. ASSUME NEW t \in Tabs
      PROVE  CallNumbered(t)' /\ Reads(t)' /\ Follows(t)' /\ Judged(t)'
  <2>1. CASE call'[t].step \notin {"insert", "publish", "write"}
    BY <2>1 DEF CallNumbered, Reads, Follows, Judged, Unconfirmed, Publishing
  <2> QED
    BY <1>4, <2>1
<1>6. Rows(windows', writes')
  BY DEF Watched, Numbered
<1> QED
  BY <1>3, <1>5, <1>6 DEF Watched, Numbered, Newest

LEMMA InsertionKeeps ==
  ASSUME TypeOK, Holder, Watched, NEW t \in Tabs, WriteVersion(t)
  PROVE  Watched'
<1> DEFINE m == call[t].mac
           d == call[t].document
<1>1. m \in Macs /\ d \in Document /\ call[t].step = "write" /\ lock[m] = t
  BY DocumentsTyped DEF WriteVersion, Holder
<1>2. Insert(m, d) /\ UNCHANGED <<windows, now, writes>>
  BY DEF WriteVersion
<1>3. call'[t].step = "diff" /\ \A u \in Tabs \ {t} : call'[u] = call[u]
  BY GotoFacts DEF WriteVersion, Call
<1>4. Rows(d.windows, writes)
  BY <1>1 DEF Watched, Numbered, CallNumbered
<1>5. \A u \in Tabs : call'[u].step = "write" => call[u].mac # m
  BY <1>1, <1>3 DEF Holder
<1>6. ASSUME NEW u \in Tabs, call[u].step = "publish", Unconfirmed(u), call[u].mac = m
      PROVE  \/ Overtaken(call[u].load.compiled.windows, windows)
             \/ ~TightAt(now, d, call[u].load.compiled)
  BY <1>1, <1>6 DEF Watched, Judged, Passed
<1>7. \A u \in Tabs : call'[u] = call[u] \/ call'[u].step \notin {"insert", "publish", "write"}
  BY <1>3
<1> HIDE DEF m, d
<1> QED
  BY <1>1, <1>2, <1>4, <1>5, <1>6, <1>7, VersionKeeps

LEMMA RecompileKeeps ==
  ASSUME TypeOK, Holder, Watched, NEW m \in Macs, Recompile(m)
  PROVE  Watched'
<1>1. Compiled \in Document /\ Rows(Compiled.windows, writes)
  BY CompiledTyped DEF Compiled, Watched, Numbered
<1>2. Insert(m, Compiled) /\ UNCHANGED <<windows, now, writes, call>> /\ lock[m] = None
  BY DEF Recompile
<1>3. \A u \in Tabs : call'[u].step = "write" => call[u].mac # m
  BY <1>2, RulesAssumption DEF Holder
<1> QED
  BY <1>1, <1>2, <1>3, CompiledPasses, VersionKeeps

LEMMA InitWatched == ASSUME Init PROVE Watched
<1>1. \A m \in Macs : Newest(m) = Compiled
  BY DEF Init, Newest
<1>2. \A t \in Tabs : call[t].step = "idle"
  BY DEF Init, Idle, Call
<1>3. Rows(windows, writes)
  BY DEF Init, Rows
<1> QED
  BY <1>1, <1>2, <1>3
  DEF Watched, Numbered, CallNumbered, Publishing, Reads, Follows, Judged, Unconfirmed, Compiled

LEMMA StepWatched == ASSUME IInv, Watched, [Next]_vars PROVE Watched'
<1> USE DEF IInv
<1>0. TypeOK'
  BY StepTyped
<1>1. ASSUME NEW t \in Tabs, NEW c, c.step \notin {"insert", "publish", "write"}, Goto(t, c)
      PROVE  \A u \in Tabs : call'[u] = call[u] \/ call'[u].step \notin {"insert", "publish", "write"}
  BY <1>1, GotoFacts
<1>2. ASSUME NEW t \in Tabs, Parent(t)
      PROVE  Watched'
  <2>1. CASE SaveLimits(t)
    BY <1>1, <2>1, QuietKeeps DEF SaveLimits, PatchSettings, Call
  <2>2. CASE Pick(t) \/ Edit(t) \/ Discard(t)
    BY <2>2, QuietKeeps DEF Pick, Edit, Discard, database
  <2>3. CASE Review(t) \/ PublishClick(t) \/ RestoreClick(t)
    BY <1>1, <2>3, QuietKeeps DEF Review, PublishClick, RestoreClick, Call, database
  <2> QED
    BY <1>2, <2>1, <2>2, <2>3 DEF Parent
<1>3. ASSUME NEW t \in Tabs, Handler(t)
      PROVE  Watched'
  <2>1. CASE ReadWindows(t) \/ ReadWarnings(t) \/ AskDiff(t) \/ AnswerDiff(t)
    BY <1>1, <2>1, QuietKeeps DEF ReadWindows, ReadWarnings, AskDiff, AnswerDiff, Call, Idle, database
  <2> QED
    BY <1>0, <1>3, <2>1, ReadKeeps, ReplaceKeeps, CheckKeeps, GatherKeeps, InsertionKeeps DEF Handler
<1>4. CASE \E t \in Tabs : Arrive(t)
  BY <1>4, QuietKeeps DEF Arrive, database
<1>5. CASE UNCHANGED vars
  BY <1>5, QuietKeeps DEF vars, database
<1> QED
  BY <1>2, <1>3, <1>4, <1>5, RecompileKeeps, TickKeeps DEF Next

\* "Publish" brings a window that is about to start to a Mac only if the review said so, or if the
\* draft or the clock moved between the check and the compilation, for any number of browsers and
\* Macs and however saves, restores and publications overlap (parent-rules.ts, publish.ts).
THEOREM AskedFirst == Spec => UnaskedOnlyInARace
<1>1. ASSUME Watched, NEW t \in Tabs, call[t].step = "write", call[t].load # None,
             ~call[t].load.confirmed, call[t].load.at = now, Same(call[t].load.compiled, call[t].document)
      PROVE  ~Tightening(Newest(call[t].mac), call[t].document)
  <2>1. Unconfirmed(t) /\ Judged(t)
    BY <1>1 DEF Unconfirmed, Publishing, Watched
  <2>2. ~TightAt(now, Newest(call[t].mac), call[t].load.compiled)
    BY <1>1, <2>1 DEF Judged, Same
  <2> QED
    BY <1>1, <2>2, Tightens DEF TightAt, Same
<1>2. IInv /\ Watched /\ [Next]_vars =>
        [\A t \in Tabs : LET c == call[t] IN
           c.step = "write" /\ call'[t].step = "diff" /\ c.load # None =>
             \/ c.load.confirmed \/ ~Tightening(Newest(c.mac), c.document)
             \/ c.load.at # now \/ ~Same(c.load.compiled, c.document)]_vars
  BY <1>1
<1> QED
  BY <1>2, InitIInv, StepIInv, InitWatched, StepWatched, PTL DEF Spec, UnaskedOnlyInARace

=============================================================================
