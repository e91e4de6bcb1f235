--------------------------- MODULE CredentialsProofs ---------------------------
(***************************************************************************)
(* Credentials, for any number of Macs, devices, codes and keys, any lost  *)
(* answers and restarts of daemons, and any lifetimes.                     *)
(*                                                                         *)
(* When handlers do not overlap, what is revoked is dead, an overlap is    *)
(* honoured, and no code and no key is a spare way in.  The argument: a key*)
(* belongs to the device it was minted for, a device to the Mac that       *)
(* enrolled as it first, and a Mac only ever holds keys of one of its      *)
(* devices (Given).  What a handler has read is still so when it writes    *)
(* (Handling), as nobody else is half-way (Alone).                         *)
(*                                                                         *)
(* When they do, the routes and the daemon still implement Binding (OInv), *)
(* in every run in which no code is issued for a device that a Mac has     *)
(* enrolled as since the parent's click read it (LateCode).                *)
(***************************************************************************)
EXTENDS Credentials, FiniteSetTheorems, TLAPS

Phases == Waiting \cup {"idle", "reconciling", "renewing", "leaving"}
Agent == [phase : Phases, cred : Cred \cup {None}, code : Codes \cup {None},
          halted : BOOLEAN, gone : BOOLEAN, item : BOOLEAN]
DevRow == [status : Statuses, mac : Macs \cup {None}, key : KeyOrNone, prev : KeyOrNone, until : Nat]

\* Every variable has its type.
Shape ==
  /\ now \in 0..Horizon /\ minted \in {0} \cup Keys /\ issued \in {0} \cup Codes
  /\ lost \in 0..Losses /\ crashed \in 0..Crashes
  /\ items \subseteq Devices
  /\ dev \in [Devices -> DevRow]
  /\ keys \in [Keys -> KeyRow \cup {None}]
  /\ codes \in [Codes -> Enrollment \cup {None}]
  /\ req \in [Slots -> Request \cup {None}]
  /\ op \in Op \cup {None}
  /\ agent \in [Macs -> Agent]
  /\ ended \in [Devices -> Ending \cup {None}]

\* Decommissioned once.
Retired(d) == ended[d] # None /\ "decommissioned" \in ended[d].ends

\* Keys that somebody may have been told.
Handed == IF \E s \in Slots : Stage(s, "minted") THEN minted - 1 ELSE minted

\* A key that m may hold, as device d.
Given(k, m, d) ==
  /\ k \in Keys /\ k <= Handed
  /\ keys[k] # None => keys[k].device = d
  /\ d \in Devices /\ dev[d].mac = m

\* A device of m was decommissioned.
Told(m) == \E d \in Devices : Retired(d) /\ dev[d].mac = m

\* A device that no Mac has enrolled as is blank; a row's keys are its own; a
\* superseded key ends with its overlap, and every key with a revocation.
Row(d) ==
  /\ dev[d].status \in {"absent", "pending"} => dev[d].mac = None /\ RowKeys(d) = {}
  /\ \A k \in RowKeys(d) : k <= minted /\ (keys[k] # None => keys[k].device = d)
  /\ dev[d].prev # None /\ keys[dev[d].prev] # None /\ keys[dev[d].prev].on =>
       keys[dev[d].prev].expires # None /\ keys[dev[d].prev].expires <= dev[d].until
  /\ dev[d].status = "decommissioned" => Retired(d)
  /\ ended[d] # None =>
       /\ ended[d].upto <= minted
       /\ ended[d].what = "revoked" =>
            \A k \in RowKeys(d) : k <= ended[d].upto /\ keys[k] # None => ~keys[k].on

Rows == \A d \in Devices : Row(d)

\* An unspent code is the only one of a pending device; a spent one is of the
\* Mac that has the device.
Invites ==
  \A c \in Codes : codes[c] # None =>
    /\ codes[c].by = None =>
         /\ dev[codes[c].device].status = "pending"
         /\ \A e \in Codes : codes[e] # None /\ codes[e].by = None /\ codes[e].device = codes[c].device => e = c
    /\ codes[c].by # None => dev[codes[c].device].mac = codes[c].by

\* A key that is on is of its device's row, over, or in a rotation's hand.
Placed ==
  \A k \in Keys : keys[k] # None /\ keys[k].on =>
    \/ k \in RowKeys(keys[k].device)
    \/ keys[k].expires # None /\ keys[k].expires <= now
    \/ \E s \in Slots : Stage(s, "minted") /\ req[s].seen.new = k

\* What the parent's click and the nightly job have read.
Clicks ==
  /\ op # None => /\ RowKeys(op.device) \subseteq op.keys
                  /\ op.what = "code" => dev[op.device].status = "pending" /\ issued + 1 \in Codes
  /\ job # None => \A d \in DOMAIN job.todo \cap Devices : dev[d].prev = None \/ dev[d].until < now

\* Handlers do not overlap with anything.
Alone ==
  /\ \A s, t \in Slots : Mid(s) /\ Mid(t) => s = t
  /\ op # None \/ job # None => \A s \in Slots : ~Mid(s)

Fits(kind, phase) ==
  \/ kind = "enrol" /\ phase = "enrolling"
  \/ kind = "sync" /\ phase = "syncing"
  \/ kind = "rotate" /\ phase \in {"rotating", "renewal"}
  \/ kind = "report" /\ phase = "reporting"

\* A rotation's device is its caller's, and the current key is what it read.
Rotation(s) ==
  LET w == req[s].seen
  IN  /\ w.device = agent[req[s].mac].cred.device
      /\ w.key = dev[w.device].key
      /\ ~OverlapOpen(w.device)

\* What is so of a call at each stage.
Handling(s) ==
  LET r == req[s]
  IN  /\ r.waited /\ Fits(r.kind, agent[r.mac].phase)
      /\ r.kind = "enrol" => r.code \in Codes
      /\ r.kind # "enrol" => agent[r.mac].cred # None /\ r.key = agent[r.mac].cred.token
      /\ r.stage \in {"claimed", "reissuing"} => r.kind = "enrol" /\ codes[r.code] # None
      /\ r.stage = "claimed" => codes[r.code].by = None
      /\ r.stage = "reissuing" =>
           codes[r.code].by = r.mac /\ r.seen \in Keys /\ r.seen = dev[codes[r.code].device].key
      /\ r.stage = "read" =>
           \/ r.kind = "sync" /\ r.seen \in [device : Devices, status : Statuses]
              /\ r.seen.status = dev[r.seen.device].status
           \/ r.kind = "rotate" /\ r.seen \in [device : Devices, key : Keys] /\ Rotation(s)
      /\ r.stage = "minted" =>
           /\ r.kind = "rotate" /\ r.seen \in [device : Devices, key : Keys, new : Keys] /\ Rotation(s)
           /\ r.seen.new = minted
           /\ keys[minted] # None => keys[minted].device = r.seen.device
           /\ ended[r.seen.device] # None => ended[r.seen.device].upto < minted
      /\ r.stage = "done" =>
           /\ r.reply \in Answers
           /\ r.reply.answer = "decommission" => Told(r.mac)
           /\ r.reply.answer = "ok" /\ r.kind \in {"enrol", "rotate"} =>
                Given(r.reply.key, r.mac, r.reply.device)
           /\ r.reply.answer = "ok" /\ r.kind = "rotate" =>
                r.reply.device = agent[r.mac].cred.device

\* What is so of a daemon in each phase.
Serving(m) ==
  /\ agent[m].cred # None => Given(agent[m].cred.token, m, agent[m].cred.device)
  /\ agent[m].phase \notin {"idle", "enrolling"} => agent[m].cred # None
  /\ agent[m].phase \in {"leaving", "reporting"} => Told(m)
  /\ agent[m].phase \in Waiting => \E s \in Slots : Waits(m, s)

Calls ==
  /\ \A s \in Slots : req[s] # None => Handling(s)
  /\ \A s, t \in Slots : req[s] # None /\ req[t] # None /\ req[s].mac = req[t].mac => s = t
  /\ \A m \in Macs : Serving(m)

IInv == Shape /\ Rows /\ Invites /\ Placed /\ Clicks /\ Alone /\ Calls

-----------------------------------------------------------------------------
(* Numbers and names. *)

LEMMA Basics ==
  /\ Keys \subseteq Nat \ {0} /\ Codes \subseteq Nat \ {0}
  /\ \A k \in Keys : k - 1 \in {0} \cup Keys
  /\ None \notin Macs /\ None \notin Devices /\ None \notin Nat /\ None \notin Keys /\ None \notin Codes
  /\ None \notin KeyRow /\ None \notin Enrollment /\ None \notin Request /\ None \notin Ending
  /\ None \notin Cred /\ None \notin Op
<1>1. Cardinality(Keys) \in Nat /\ Cardinality(Codes) \in Nat
  BY FS_CardinalityType, CredentialsAssumption
<1>2. Keys \subseteq Nat \ {0} /\ Codes \subseteq Nat \ {0}
  BY <1>1, CredentialsAssumption
<1>3. \A k \in Keys : k - 1 \in {0} \cup Keys
  BY <1>1, CredentialsAssumption
<1> QED
  BY <1>2, <1>3, CredentialsAssumption, NoneAssumption

LEMMA ShapeFacts ==
  ASSUME Shape
  PROVE  /\ minted \in Nat /\ now \in Nat /\ Handed \in Int /\ Handed <= minted
         /\ \A d \in Devices : dev[d] \in DevRow /\ RowKeys(d) \subseteq Keys
         /\ \A k \in Keys : keys[k] # None => keys[k] \in KeyRow
         /\ \A c \in Codes : codes[c] # None => codes[c] \in Enrollment
         /\ \A s \in Slots : req[s] # None => req[s] \in Request
         /\ \A m \in Macs : agent[m] \in Agent
         /\ \A d \in Devices : ended[d] # None => ended[d] \in Ending
<1>1. minted \in Nat /\ now \in Nat
  BY Basics, CredentialsAssumption DEF Shape
<1>2. Handed \in Int /\ Handed <= minted
  BY <1>1 DEF Handed
<1>3. \A d \in Devices : dev[d] \in DevRow /\ RowKeys(d) \subseteq Keys
  BY DEF Shape, DevRow, RowKeys, KeyOrNone
<1> QED
  BY <1>1, <1>2, <1>3 DEF Shape

\* Whoever may begin, or is half-way, is alone.
LEMMA AloneFacts ==
  ASSUME ~Concurrent, IInv, NEW s \in Slots, MayStart \/ Mid(s)
  PROVE  op = None /\ job = None /\ \A t \in Slots \ {s} : ~Mid(t)
BY DEF IInv, Alone, MayStart

LEMMA StageFacts ==
  ASSUME NEW s \in Slots
  PROVE  /\ \A st : Stage(s, st) /\ st \notin {"sent", "done"} => Mid(s)
         /\ \A kind, st : At(s, kind, st) => req[s] # None /\ req[s].stage = st /\ req[s].kind = kind
BY DEF Stage, At, Mid

-----------------------------------------------------------------------------
(* What only grows. *)

Grows ==
  /\ Handed <= Handed'
  /\ \A d \in Devices : dev[d].mac # None => dev'[d].mac = dev[d].mac
  /\ \A d \in Devices : Retired(d) => Retired(d)'
  /\ \A k \in Keys : k <= minted /\ keys'[k] # None => keys[k] # None /\ keys'[k].device = keys[k].device

LEMMA GivenStays ==
  ASSUME Shape, Shape', Grows, NEW k, NEW m \in Macs, NEW d, Given(k, m, d)
  PROVE  Given(k, m, d)'
<1>1. k \in Nat /\ Handed \in Int /\ Handed' \in Int /\ Handed <= minted /\ minted \in Nat
  <2>1. Handed \in Int /\ Handed <= minted /\ minted \in Nat
    BY ShapeFacts
  <2>2. minted' \in Nat
    BY Basics DEF Shape
  <2> QED
    BY <2>1, <2>2, Basics DEF Given, Handed
<1>2. m # None
  BY Basics
<1> QED
  BY <1>1, <1>2 DEF Given, Grows

LEMMA ToldStays ==
  ASSUME Grows, NEW m \in Macs, Told(m)
  PROVE  Told(m)'
BY Basics DEF Told, Grows

\* Keys are used or turned off, and no rotation takes or drops one.
Fade ==
  \A k \in Keys : \/ keys'[k] = keys[k]
                 \/ /\ keys[k] # None /\ keys'[k] # None
                    /\ keys'[k].device = keys[k].device /\ keys'[k].expires = keys[k].expires
                    /\ keys'[k].on => keys[k].on

InHand ==
  \A s \in Slots : Stage(s, "minted") \/ Stage(s, "minted")' => req'[s] = req[s]

LEMMA FadeKeeps ==
  ASSUME Shape, Rows, Placed, Fade, InHand, UNCHANGED <<now, dev, minted, ended>>
  PROVE  Rows' /\ Placed' /\ Grows
<1>1. \A d \in Devices : RowKeys(d)' = RowKeys(d) /\ RowKeys(d) \subseteq Keys /\ Retired(d)' = Retired(d)
  BY ShapeFacts DEF RowKeys, Retired
<1>2. Rows'
  <2> SUFFICES ASSUME NEW d \in Devices PROVE Row(d)'
    BY DEF Rows
  <2>1. \A k \in RowKeys(d) : k <= minted /\ (keys'[k] # None => keys'[k].device = d)
    BY <1>1 DEF Rows, Row, Fade
  <2>2. dev[d].prev # None => dev[d].prev \in Keys
    BY ShapeFacts DEF DevRow, KeyOrNone
  <2>3. dev[d].prev # None /\ keys'[dev[d].prev] # None /\ keys'[dev[d].prev].on =>
          keys'[dev[d].prev].expires # None /\ keys'[dev[d].prev].expires <= dev[d].until
    BY <2>2 DEF Rows, Row, Fade
  <2>4. ended[d] # None /\ ended[d].what = "revoked" =>
          \A k \in RowKeys(d) : k <= ended[d].upto /\ keys'[k] # None => ~keys'[k].on
    BY <1>1 DEF Rows, Row, Fade
  <2> QED
    BY <1>1, <2>1, <2>3, <2>4 DEF Rows, Row
<1>3. Placed'
  <2> SUFFICES ASSUME NEW k \in Keys, keys'[k] # None, keys'[k].on
               PROVE  \/ k \in RowKeys(keys[k].device)'
                      \/ keys'[k].expires # None /\ keys'[k].expires <= now'
                      \/ \E s \in Slots : Stage(s, "minted")' /\ req'[s].seen.new = k
    BY DEF Placed
  <2>1. /\ keys[k] # None /\ keys[k].on /\ keys'[k].device = keys[k].device
        /\ keys'[k].expires = keys[k].expires
    BY DEF Fade
  <2>2. CASE k \in RowKeys(keys[k].device)
    BY <2>1, <2>2 DEF RowKeys
  <2>3. CASE keys[k].expires # None /\ keys[k].expires <= now
    BY <2>1, <2>3
  <2>4. CASE \E s \in Slots : Stage(s, "minted") /\ req[s].seen.new = k
    <3>1. PICK s \in Slots : Stage(s, "minted") /\ req[s].seen.new = k
      BY <2>4
    <3>2. Stage(s, "minted")' /\ req'[s].seen.new = k
      BY <3>1 DEF InHand, Stage
    <3> QED
      BY <3>2
  <2> QED
    BY <2>1, <2>2, <2>3, <2>4 DEF Placed
<1>4. Handed' = Handed
  <2>1. (\E s \in Slots : Stage(s, "minted"))' <=> \E s \in Slots : Stage(s, "minted")
    BY DEF InHand, Stage
  <2> QED
    BY <2>1 DEF Handed
<1>5. Handed \in Int
  BY ShapeFacts
<1>6. \A k \in Keys : keys'[k] # None => keys[k] # None /\ keys'[k].device = keys[k].device
  BY DEF Fade
<1> QED
  BY <1>1, <1>2, <1>3, <1>4, <1>5, <1>6 DEF Grows

\* A row stays right while it and its keys stay, and its keys at most go off.
LEMMA RowStays ==
  ASSUME NEW e \in Devices, Row(e),
         dev'[e] = dev[e], ended'[e] = ended[e], RowKeys(e)' = RowKeys(e), Retired(e)' = Retired(e),
         \A k \in RowKeys(e) : k <= minted',
         \A k \in RowKeys(e) : keys'[k] # None =>
           /\ keys[k] # None /\ keys'[k].device = keys[k].device /\ keys'[k].expires = keys[k].expires
           /\ keys'[k].on => keys[k].on,
         ended[e] # None => ended[e].upto <= minted'
  PROVE  Row(e)'
<1>1. dev[e].prev # None => dev[e].prev \in RowKeys(e)
  BY DEF RowKeys
<1>2. dev[e].prev # None /\ keys'[dev[e].prev] # None /\ keys'[dev[e].prev].on =>
        keys'[dev[e].prev].expires # None /\ keys'[dev[e].prev].expires <= dev[e].until
  BY <1>1 DEF Row
<1>3. ended[e] # None /\ ended[e].what = "revoked" =>
        \A k \in RowKeys(e) : k <= ended[e].upto /\ keys'[k] # None => ~keys'[k].on
  BY DEF Row
<1>4. \A k \in RowKeys(e) : keys'[k] # None => keys'[k].device = e
  BY DEF Row
<1> QED
  BY <1>2, <1>3, <1>4 DEF Row

\* What is so of a call stays so: a handler has not read yet, or has answered, or
\* nothing it has read changes.
LEMMA HandlingStays ==
  ASSUME NEW t \in Slots, Handling(t), req'[t] = req[t], agent'[req[t].mac] = agent[req[t].mac],
         Told(req[t].mac) => Told(req[t].mac)',
         Given(req[t].reply.key, req[t].mac, req[t].reply.device) =>
           Given(req[t].reply.key, req[t].mac, req[t].reply.device)',
         req[t].stage \in {"sent", "done"} \/ UNCHANGED <<now, dev, keys, codes, minted, ended>>
  PROVE  Handling(t)'
<1>1. CASE req[t].stage \in {"sent", "done"}
  BY <1>1 DEF Handling
<1>2. CASE req[t].stage \notin {"sent", "done"}
  <2>1. UNCHANGED <<now, dev, keys, codes, minted, ended>>
    BY <1>2
  <2>2. Rotation(t) => Rotation(t)'
    BY <2>1 DEF Rotation, OverlapOpen
  <2> QED
    BY <1>2, <2>1, <2>2 DEF Handling
<1> QED
  BY <1>1, <1>2

\* A step of a daemon: its call begins, ends or is given up between a handler's stages.
LEMMA AgentFrame ==
  ASSUME ~Concurrent, IInv, Shape', NEW m \in Macs,
         UNCHANGED <<now, dev, keys, codes, minted, issued, op, job, ended>>,
         \A n \in Macs \ {m} : agent'[n] = agent[n],
         \A t \in Slots : req[t] # None /\ (req[t].mac # m \/ Mid(t)) => req'[t] = req[t],
         \A t \in Slots : req'[t] # None /\ req'[t].mac # m => req'[t] = req[t],
         \A t \in Slots : req'[t] # None /\ req'[t].mac = m => ~Mid(t)' /\ Handling(t)',
         \A s, t \in Slots : req'[s] # None /\ req'[t] # None /\ req'[s].mac = m /\ req'[t].mac = m => s = t,
         Serving(m)'
  PROVE  IInv'
<1>1. \A t \in Slots : Mid(t)' => req'[t] = req[t] /\ Mid(t)
  BY DEF Mid
<1>2. \A t \in Slots : Mid(t) => req'[t] = req[t]
  BY DEF Mid
<1>3. InHand
  BY <1>1, <1>2 DEF InHand, Stage, Mid
<1>4. Rows' /\ Placed' /\ Grows
  <2>1. Fade
    BY DEF Fade
  <2> QED
    BY <1>3, <2>1, FadeKeeps DEF IInv
<1>5. Invites' /\ Clicks'
  BY DEF IInv, Invites, Clicks, RowKeys
<1>6. Alone'
  BY <1>1 DEF IInv, Alone
<1>7. ASSUME NEW t \in Slots, req'[t] # None PROVE Handling(t)'
  <2>1. CASE req'[t].mac # m
    <3>1. req'[t] = req[t] /\ req[t] \in Request
      BY <1>7, <2>1, ShapeFacts DEF IInv
    <3>2. agent'[req[t].mac] = agent[req[t].mac] /\ req[t].mac \in Macs
      BY <2>1, <3>1 DEF Request
    <3>3. Handling(t)
      BY <1>7, <3>1 DEF IInv, Calls
    <3>4. Told(req[t].mac) => Told(req[t].mac)'
      BY <1>4, <3>1, <3>2, ToldStays
    <3>5. Given(req[t].reply.key, req[t].mac, req[t].reply.device) =>
            Given(req[t].reply.key, req[t].mac, req[t].reply.device)'
      BY <1>4, <3>1, <3>2, GivenStays DEF IInv
    <3> QED
      BY <3>1, <3>2, <3>3, <3>4, <3>5, HandlingStays
  <2>2. CASE req'[t].mac = m
    BY <1>7, <2>2
  <2> QED
    BY <2>1, <2>2
<1>8. ASSUME NEW n \in Macs, n # m PROVE Serving(n)'
  <2>1. Serving(n) /\ agent'[n] = agent[n]
    BY <1>8 DEF IInv, Calls
  <2>2. Told(n) => Told(n)'
    BY <1>4, ToldStays
  <2>3. Given(agent[n].cred.token, n, agent[n].cred.device) =>
          Given(agent[n].cred.token, n, agent[n].cred.device)'
    BY <1>4, <2>1, GivenStays DEF IInv
  <2>4. \A s \in Slots : Waits(n, s) => Waits(n, s)'
    BY <1>8 DEF Waits
  <2> QED
    BY <2>1, <2>2, <2>3, <2>4 DEF Serving
<1>9. ASSUME NEW s \in Slots, NEW t \in Slots, req'[s] # None, req'[t] # None, req'[s].mac = req'[t].mac
      PROVE  s = t
  BY <1>9 DEF IInv, Calls
<1> QED
  BY <1>4, <1>5, <1>6, <1>7, <1>8, <1>9 DEF IInv, Calls

\* A step of a handler: its own call, and rows nobody else is about to write.
LEMMA HandlerFrame ==
  ASSUME ~Concurrent, IInv, Shape', NEW s \in Slots, req[s] # None, MayStart \/ Mid(s),
         UNCHANGED <<now, agent, op, job, ended>>,
         \A t \in Slots \ {s} : req'[t] = req[t],
         req'[s] # None, req'[s].mac = req[s].mac, req'[s].waited,
         Rows', Invites', Placed', Grows, Handling(s)'
  PROVE  IInv'
<1>1. op = None /\ job = None /\ \A t \in Slots \ {s} : ~Mid(t)
  BY AloneFacts
<1>2. Clicks'
  BY <1>1 DEF Clicks
<1>3. \A t \in Slots \ {s} : ~Mid(t)'
  BY <1>1 DEF Mid
<1>4. Alone'
  BY <1>1, <1>3 DEF Alone
<1>5. ASSUME NEW t \in Slots, t # s, req'[t] # None PROVE Handling(t)'
  <2>1. req'[t] = req[t] /\ req[t] \in Request
    BY <1>5, ShapeFacts DEF IInv
  <2>2. req[t].mac \in Macs
    BY <2>1 DEF Request
  <2>3. Handling(t) /\ req[t].stage \in {"sent", "done"}
    BY <1>1, <1>5, <2>1 DEF IInv, Calls, Mid
  <2>4. Told(req[t].mac) => Told(req[t].mac)'
    BY <2>1, <2>2, ToldStays
  <2>5. Given(req[t].reply.key, req[t].mac, req[t].reply.device) =>
          Given(req[t].reply.key, req[t].mac, req[t].reply.device)'
    BY <2>1, <2>2, GivenStays DEF IInv
  <2> QED
    BY <2>1, <2>3, <2>4, <2>5, HandlingStays
<1>6. ASSUME NEW n \in Macs PROVE Serving(n)'
  <2>1. Serving(n)
    BY DEF IInv, Calls
  <2>2. Told(n) => Told(n)'
    BY ToldStays
  <2>3. Given(agent[n].cred.token, n, agent[n].cred.device) =>
          Given(agent[n].cred.token, n, agent[n].cred.device)'
    BY GivenStays DEF IInv
  <2>4. \A t \in Slots : Waits(n, t) => Waits(n, t)'
    BY DEF Waits
  <2> QED
    BY <2>1, <2>2, <2>3, <2>4 DEF Serving
<1>7. ASSUME NEW t \in Slots, NEW u \in Slots, req'[t] # None, req'[u] # None, req'[t].mac = req'[u].mac
      PROVE  t = u
  BY <1>7 DEF IInv, Calls
<1> QED
  BY <1>2, <1>4, <1>5, <1>6, <1>7 DEF IInv, Calls

\* A step of the parent or of the clock: no call changes.
LEMMA ParentFrame ==
  ASSUME ~Concurrent, IInv, Shape', UNCHANGED <<req, agent>>, \A s \in Slots : ~Mid(s),
         Rows', Invites', Placed', Clicks', Grows
  PROVE  IInv'
<1>1. \A s \in Slots : ~Mid(s)'
  BY DEF Mid
<1>2. Alone'
  BY <1>1 DEF Alone
<1>3. ASSUME NEW t \in Slots, req[t] # None PROVE Handling(t)'
  <2>1. req[t].mac \in Macs
    BY <1>3, ShapeFacts DEF IInv, Request
  <2>2. Handling(t) /\ req[t].stage \in {"sent", "done"}
    BY <1>3 DEF IInv, Calls, Mid
  <2>3. Told(req[t].mac) => Told(req[t].mac)'
    BY <2>1, ToldStays
  <2>4. Given(req[t].reply.key, req[t].mac, req[t].reply.device) =>
          Given(req[t].reply.key, req[t].mac, req[t].reply.device)'
    BY <2>1, GivenStays DEF IInv
  <2> QED
    BY <2>1, <2>2, <2>3, <2>4, HandlingStays
<1>4. ASSUME NEW n \in Macs PROVE Serving(n)'
  <2>1. Serving(n)
    BY DEF IInv, Calls
  <2>2. Told(n) => Told(n)'
    BY ToldStays
  <2>3. Given(agent[n].cred.token, n, agent[n].cred.device) =>
          Given(agent[n].cred.token, n, agent[n].cred.device)'
    BY GivenStays DEF IInv
  <2>4. \A t \in Slots : Waits(n, t) => Waits(n, t)'
    BY DEF Waits
  <2> QED
    BY <2>1, <2>2, <2>3, <2>4 DEF Serving
<1> QED
  BY <1>2, <1>3, <1>4 DEF IInv, Calls

-----------------------------------------------------------------------------
(* The steps of a daemon. *)

\* A daemon that does not wait has no call.
LEMMA QuietFacts ==
  ASSUME IInv, NEW m \in Macs, agent[m].phase \notin Waiting, NEW t \in Slots, req[t] # None
  PROVE  req[t].mac # m
BY DEF IInv, Calls, Handling, Fits, Waiting

\* Its calls are over: it thinks, has an answer, or gives up.
LEMMA AgentFree ==
  ASSUME ~Concurrent, IInv, Shape', NEW m \in Macs,
         UNCHANGED <<now, dev, keys, codes, minted, issued, op, job, ended>>,
         \A n \in Macs \ {m} : agent'[n] = agent[n],
         \A t \in Slots : IF req[t] # None /\ req[t].mac = m THEN ~Mid(t) /\ req'[t] = None
                                                         ELSE req'[t] = req[t],
         agent'[m].phase \notin Waiting,
         agent'[m].cred # None => Given(agent'[m].cred.token, m, agent'[m].cred.device),
         agent'[m].phase # "idle" => agent'[m].cred # None,
         agent'[m].phase = "leaving" => Told(m)
  PROVE  IInv'
<1>1. \A t \in Slots : Stage(t, "minted") \/ Stage(t, "minted")' => req'[t] = req[t]
  BY DEF Stage, Mid
<1>2. Grows
  <2>1. Fade /\ InHand
    BY <1>1 DEF Fade, InHand
  <2> QED
    BY <2>1, FadeKeeps DEF IInv
<1>3. Serving(m)'
  <2>1. Given(agent'[m].cred.token, m, agent'[m].cred.device) =>
          Given(agent[m].cred.token, m, agent[m].cred.device)'
    BY <1>2, GivenStays DEF IInv
  <2>2. Told(m) => Told(m)'
    BY <1>2, ToldStays
  <2>3. agent'[m].phase # "reporting" /\ agent'[m].phase # "enrolling"
    BY DEF Waiting
  <2> QED
    BY <2>1, <2>2, <2>3 DEF Serving
<1> QED
  BY <1>3, AgentFrame

\* It calls.
LEMMA AgentCalls ==
  ASSUME ~Concurrent, IInv, NEW m \in Macs, agent[m].phase \notin Waiting,
         NEW kind \in {"enrol", "sync", "rotate", "report"}, NEW phase \in Waiting, Fits(kind, phase),
         kind = "enrol" => agent[m].code # None,
         kind # "enrol" => agent[m].cred # None,
         kind = "report" => Told(m),
         Send(m, kind, phase), UNCHANGED <<now, server, op, job, bounds, ended>>
  PROVE  IInv'
<1>1. UNCHANGED <<now, dev, keys, codes, minted, items, issued, op, job, lost, crashed, ended>>
  BY DEF server, bounds
<1> DEFINE r == [mac |-> m, kind |-> kind, code |-> agent[m].code,
                 key |-> IF agent[m].cred = None THEN None ELSE agent[m].cred.token,
                 stage |-> "sent", seen |-> None, reply |-> None, waited |-> TRUE]
<1>2. PICK s \in Slots : /\ req[s] = None /\ req' = [req EXCEPT ![s] = r]
                       /\ agent' = [agent EXCEPT ![m].phase = phase]
  BY DEF Send
<1>3. agent[m] \in Agent /\ agent \in [Macs -> Agent] /\ req \in [Slots -> Request \cup {None}]
  BY DEF IInv, Shape
<1>4. r \in Request
  <2>1. agent[m].cred # None => agent[m].cred.token \in Keys
    BY <1>3 DEF Agent, Cred
  <2>2. (IF agent[m].cred = None THEN None ELSE agent[m].cred.token) \in KeyOrNone
    BY <2>1 DEF KeyOrNone
  <2>3. agent[m].code \in Codes \cup {None} /\ None \in Seen
    BY <1>3 DEF Agent, Seen, KeyOrNone
  <2> QED
    BY <2>2, <2>3 DEF Request
<1>5. /\ agent'[m] \in Agent /\ agent'[m].phase = phase /\ agent'[m].cred = agent[m].cred
      /\ agent'[m].code = agent[m].code /\ \A n \in Macs \ {m} : agent'[n] = agent[n]
      /\ agent' \in [Macs -> Agent]
  BY <1>2, <1>3 DEF Agent, Phases
<1>6. /\ req'[s] = r /\ r # None /\ \A t \in Slots \ {s} : req'[t] = req[t]
      /\ req' \in [Slots -> Request \cup {None}]
  BY <1>2, <1>3, <1>4, Basics
<1>7. /\ r.mac = m /\ r.kind = kind /\ r.code = agent[m].code /\ r.stage = "sent" /\ r.waited
      /\ agent[m].cred # None => r.key = agent[m].cred.token
  OBVIOUS
<1> HIDE DEF r
<1>8. Shape'
  BY <1>1, <1>5, <1>6 DEF IInv, Shape
<1>9. Handling(s)' /\ ~Mid(s)'
  <2>1. agent[m].code # None => agent[m].code \in Codes
    BY <1>3 DEF Agent
  <2> QED
    BY <1>5, <1>6, <1>7, <2>1 DEF Handling, Mid
<1>10. \A t \in Slots : req[t] # None => req[t].mac # m /\ t # s
  BY <1>2, QuietFacts
<1>11. \A t \in Slots : Stage(t, "minted") \/ Stage(t, "minted")' => req'[t] = req[t]
  BY <1>2, <1>6, <1>7 DEF Stage
<1>12. Grows
  <2>1. Fade /\ InHand
    BY <1>1, <1>11 DEF Fade, InHand
  <2> QED
    BY <1>1, <2>1, FadeKeeps DEF IInv
<1>13. Serving(m)'
  <2>1. Serving(m)
    BY DEF IInv, Calls
  <2>2. Given(agent[m].cred.token, m, agent[m].cred.device) =>
          Given(agent[m].cred.token, m, agent[m].cred.device)'
    BY <1>5, <1>8, <1>12, GivenStays DEF IInv
  <2>3. Told(m) => Told(m)'
    BY <1>12, ToldStays
  <2>4. Waits(m, s)'
    BY <1>6, <1>7 DEF Waits
  <2>5. phase \notin {"idle", "enrolling"} => kind # "enrol"
    BY DEF Fits, Waiting
  <2>6. phase \in {"leaving", "reporting"} => kind = "report"
    BY DEF Fits, Waiting
  <2> QED
    BY <1>5, <2>1, <2>2, <2>3, <2>4, <2>5, <2>6 DEF Serving
<1> QED
  BY <1>1, <1>2, <1>5, <1>6, <1>7, <1>8, <1>9, <1>10, <1>13, AgentFrame

LEMMA GotFacts ==
  ASSUME IInv, NEW m \in Macs, NEW s \in Slots, Got(m, s), Consume(s)
  PROVE  /\ \A t \in Slots : IF req[t] # None /\ req[t].mac = m THEN ~Mid(t) /\ req'[t] = None
                                                             ELSE req'[t] = req[t]
         /\ req' \in [Slots -> Request \cup {None}]
         /\ Handling(s) /\ req[s].stage = "done" /\ req[s].mac = m /\ req[s].reply \in Answers
         /\ Serving(m) /\ Fits(req[s].kind, agent[m].phase)
<1>1. /\ req[s] # None /\ req[s].stage = "done" /\ req[s].mac = m
      /\ req' = [req EXCEPT ![s] = None]
  BY DEF Got, Stage, Consume
<1>2. Handling(s) /\ Serving(m)
  BY <1>1 DEF IInv, Calls
<1>3. req \in [Slots -> Request \cup {None}]
  BY DEF IInv, Shape
<1>4. \A t \in Slots : req[t] # None /\ req[t].mac = m => t = s
  BY <1>1 DEF IInv, Calls
<1>5. ~Mid(s)
  BY <1>1 DEF Mid
<1> QED
  BY <1>1, <1>2, <1>3, <1>4, <1>5 DEF Handling

LEMMA TickKeeps == ASSUME ~Concurrent, IInv, NEW m \in Macs, Tick(m) PROVE IInv'
<1>1. agent[m].phase \notin Waiting
  BY DEF Tick, Waiting
<1>2. CASE agent[m].cred = None /\ agent[m].code # None /\ Send(m, "enrol", "enrolling")
  <2>1. Fits("enrol", "enrolling") /\ "enrolling" \in Waiting
    BY DEF Fits, Waiting
  <2> QED
    BY <1>1, <1>2, <2>1, AgentCalls DEF Tick
<1>3. CASE agent[m].cred # None /\ Send(m, "sync", "syncing")
  <2>1. Fits("sync", "syncing") /\ "syncing" \in Waiting
    BY DEF Fits, Waiting
  <2> QED
    BY <1>1, <1>3, <2>1, AgentCalls DEF Tick
<1> QED
  BY <1>2, <1>3 DEF Tick

LEMMA GetEnrolmentKeeps == ASSUME ~Concurrent, IInv, NEW m \in Macs, GetEnrolment(m) PROVE IInv'
<1>1. PICK s \in Slots : /\ Got(m, s) /\ agent[m].phase = "enrolling" /\ Consume(s)
                       /\ agent' = [agent EXCEPT
                            ![m].phase = "idle", ![m].code = None,
                            ![m].cred = IF req[s].reply.answer = "ok"
                                        THEN [token |-> req[s].reply.key, device |-> req[s].reply.device,
                                              renew |-> None]
                                        ELSE @]
  BY DEF GetEnrolment
<1>2. UNCHANGED <<now, dev, keys, codes, minted, items, issued, op, job, lost, crashed, ended>>
  BY DEF GetEnrolment, server, bounds
<1>3. /\ \A t \in Slots : IF req[t] # None /\ req[t].mac = m THEN ~Mid(t) /\ req'[t] = None
                                                          ELSE req'[t] = req[t]
      /\ req' \in [Slots -> Request \cup {None}]
      /\ Handling(s) /\ req[s].stage = "done" /\ req[s].mac = m /\ req[s].reply \in Answers
      /\ Serving(m) /\ Fits(req[s].kind, agent[m].phase)
  BY <1>1, GotFacts
<1> DEFINE c == IF req[s].reply.answer = "ok"
                THEN [token |-> req[s].reply.key, device |-> req[s].reply.device, renew |-> None]
                ELSE agent[m].cred
<1>4. agent \in [Macs -> Agent] /\ agent[m] \in Agent
  BY DEF IInv, Shape
<1>5. c # None => Given(c.token, m, c.device)
  <2>1. CASE req[s].reply.answer = "ok"
    BY <1>1, <1>3, <2>1 DEF Handling, Fits
  <2>2. CASE req[s].reply.answer # "ok"
    BY <1>3, <2>2 DEF Serving
  <2> QED
    BY <2>1, <2>2
<1>6. c \in Cred \cup {None}
  <2>1. CASE req[s].reply.answer = "ok"
    <3>1. Given(req[s].reply.key, m, req[s].reply.device)
      BY <1>1, <1>3, <2>1 DEF Handling, Fits
    <3> QED
      BY <2>1, <3>1 DEF Cred, Given
  <2>2. CASE req[s].reply.answer # "ok"
    BY <1>4, <2>2 DEF Agent
  <2> QED
    BY <2>1, <2>2
<1>7. agent' = [agent EXCEPT ![m].phase = "idle", ![m].code = None, ![m].cred = c]
  BY <1>1, <1>4 DEF Agent
<1> HIDE DEF c
<1>8. /\ agent' \in [Macs -> Agent] /\ agent'[m].phase = "idle" /\ agent'[m].cred = c
      /\ \A n \in Macs \ {m} : agent'[n] = agent[n]
  BY <1>4, <1>6, <1>7 DEF Agent, Phases
<1>9. Shape'
  BY <1>2, <1>3, <1>8 DEF IInv, Shape
<1>10. "idle" \notin Waiting
  BY DEF Waiting
<1> QED
  BY <1>2, <1>3, <1>5, <1>8, <1>9, <1>10, AgentFree

LEMMA GetSyncKeeps == ASSUME ~Concurrent, IInv, NEW m \in Macs, GetSync(m) PROVE IInv'
<1>1. PICK s \in Slots :
        /\ Got(m, s) /\ agent[m].phase = "syncing" /\ Consume(s)
        /\ agent' = IF req[s].reply.answer = "ok"
                    THEN [agent EXCEPT ![m].phase = "reconciling", ![m].item = req[s].reply.item]
                    ELSE [agent EXCEPT ![m].halted = TRUE,
                            ![m].phase = IF Obeys(req[s].reply.answer) THEN "leaving" ELSE "idle"]
  BY DEF GetSync
<1>2. UNCHANGED <<now, dev, keys, codes, minted, items, issued, op, job, lost, crashed, ended>>
  BY DEF GetSync, server, bounds
<1>3. /\ \A t \in Slots : IF req[t] # None /\ req[t].mac = m THEN ~Mid(t) /\ req'[t] = None
                                                          ELSE req'[t] = req[t]
      /\ req' \in [Slots -> Request \cup {None}]
      /\ Handling(s) /\ req[s].stage = "done" /\ req[s].mac = m /\ req[s].reply \in Answers
      /\ Serving(m) /\ Fits(req[s].kind, agent[m].phase)
  BY <1>1, GotFacts
<1>4. agent \in [Macs -> Agent] /\ agent[m] \in Agent
  BY DEF IInv, Shape
<1>5. agent[m].cred # None /\ Given(agent[m].cred.token, m, agent[m].cred.device)
  BY <1>1, <1>3 DEF Serving
<1>6. /\ agent' \in [Macs -> Agent] /\ agent'[m].cred = agent[m].cred
      /\ \A n \in Macs \ {m} : agent'[n] = agent[n]
      /\ agent'[m].phase \in {"reconciling", "idle", "leaving"}
      /\ agent'[m].phase = "leaving" => req[s].reply.answer = "decommission"
  <2>1. CASE req[s].reply.answer = "ok"
    <3>1. agent' = [agent EXCEPT ![m].phase = "reconciling", ![m].item = req[s].reply.item]
      BY <1>1, <2>1
    <3>2. req[s].reply.item \in BOOLEAN
      BY <1>3 DEF Answers
    <3> QED
      BY <1>4, <3>1, <3>2 DEF Agent, Phases
  <2>2. CASE req[s].reply.answer # "ok"
    <3>1. agent' = [agent EXCEPT ![m].halted = TRUE,
                      ![m].phase = IF Obeys(req[s].reply.answer) THEN "leaving" ELSE "idle"]
      BY <1>1, <2>2
    <3>2. (IF Obeys(req[s].reply.answer) THEN "leaving" ELSE "idle") \in {"leaving", "idle"}
      OBVIOUS
    <3> QED
      BY <1>4, <3>1, <3>2 DEF Agent, Phases, Obeys
  <2> QED
    BY <2>1, <2>2
<1>7. Shape'
  BY <1>2, <1>3, <1>6 DEF IInv, Shape
<1>8. agent'[m].phase = "leaving" => Told(m)
  BY <1>3, <1>6 DEF Handling
<1>9. agent'[m].phase \notin Waiting
  BY <1>6 DEF Waiting
<1> QED
  BY <1>2, <1>3, <1>5, <1>6, <1>7, <1>8, <1>9, AgentFree

\* A daemon that goes on to its next phase without a call.
LEMMA ThinkKeeps ==
  ASSUME ~Concurrent, IInv, NEW m \in Macs, agent[m].phase \notin Waiting,
         NEW phase \in {"idle", "renewing"}, phase = "renewing" => agent[m].cred # None,
         agent' = [agent EXCEPT ![m].phase = phase],
         UNCHANGED <<now, server, req, op, job, bounds, ended>>
  PROVE  IInv'
<1>1. UNCHANGED <<now, dev, keys, codes, minted, items, issued, op, job, lost, crashed, ended, req>>
  BY DEF server, bounds
<1>2. agent \in [Macs -> Agent] /\ agent[m] \in Agent /\ Serving(m)
  BY DEF IInv, Shape, Calls
<1>3. /\ agent' \in [Macs -> Agent] /\ agent'[m].cred = agent[m].cred /\ agent'[m].phase = phase
      /\ \A n \in Macs \ {m} : agent'[n] = agent[n]
  BY <1>2 DEF Agent, Phases
<1>4. Shape'
  BY <1>1, <1>3 DEF IInv, Shape
<1>5. \A t \in Slots : req[t] # None => req[t].mac # m
  BY QuietFacts
<1>6. phase \notin Waiting /\ phase # "leaving"
  BY DEF Waiting
<1> QED
  BY <1>1, <1>2, <1>3, <1>4, <1>5, <1>6, AgentFree DEF Serving

LEMMA ReconcileKeeps ==
  ASSUME ~Concurrent, IInv, NEW m \in Macs, Reconcile(m) \/ RotateIfDue(m) PROVE IInv'
<1>1. /\ agent[m].phase \in {"reconciling", "renewing"} /\ agent[m].phase \notin Waiting
      /\ UNCHANGED <<now, server, op, job, bounds, ended>>
  BY DEF Reconcile, RotateIfDue, Waiting
<1>2. agent[m].cred # None
  <2>1. Serving(m)
    BY DEF IInv, Calls
  <2> QED
    BY <1>1, <2>1 DEF Serving
<1>3. CASE Send(m, "rotate", "rotating") \/ Send(m, "rotate", "renewal")
  <2>1. /\ Fits("rotate", "rotating") /\ Fits("rotate", "renewal")
        /\ "rotating" \in Waiting /\ "renewal" \in Waiting
    BY DEF Fits, Waiting
  <2> QED
    BY <1>1, <1>2, <1>3, <2>1, AgentCalls
<1>4. CASE /\ \/ agent' = [agent EXCEPT ![m].phase = "renewing"]
             \/ agent' = [agent EXCEPT ![m].phase = "idle"]
           /\ UNCHANGED req
  BY <1>1, <1>2, <1>4, ThinkKeeps
<1> QED
  BY <1>3, <1>4 DEF Reconcile, RotateIfDue

LEMMA LeaveKeeps == ASSUME ~Concurrent, IInv, NEW m \in Macs, Leave(m) PROVE IInv'
<1>1. /\ agent[m].phase = "leaving" /\ agent[m].phase \notin Waiting
      /\ Send(m, "report", "reporting") /\ UNCHANGED <<now, server, op, job, bounds, ended>>
  BY DEF Leave, Waiting
<1>2. agent[m].cred # None /\ Told(m)
  <2>1. Serving(m)
    BY DEF IInv, Calls
  <2> QED
    BY <1>1, <2>1 DEF Serving
<1>3. Fits("report", "reporting") /\ "reporting" \in Waiting
  BY DEF Fits, Waiting
<1> QED
  BY <1>1, <1>2, <1>3, AgentCalls

LEMMA GetRotationKeeps == ASSUME ~Concurrent, IInv, NEW m \in Macs, GetRotation(m) PROVE IInv'
<1>1. PICK s \in Slots :
        /\ Got(m, s) /\ agent[m].phase \in {"rotating", "renewal"} /\ Consume(s)
        /\ agent' = [agent EXCEPT
             ![m].phase = AfterRotation(m),
             ![m].cred = IF req[s].reply.answer = "ok"
                         THEN [@ EXCEPT !.token = req[s].reply.key, !.renew = now + RotateAfter]
                         ELSE @]
  BY DEF GetRotation
<1>2. UNCHANGED <<now, dev, keys, codes, minted, items, issued, op, job, lost, crashed, ended>>
  BY DEF GetRotation, server, bounds
<1>3. /\ \A t \in Slots : IF req[t] # None /\ req[t].mac = m THEN ~Mid(t) /\ req'[t] = None
                                                          ELSE req'[t] = req[t]
      /\ req' \in [Slots -> Request \cup {None}]
      /\ Handling(s) /\ req[s].stage = "done" /\ req[s].mac = m /\ req[s].reply \in Answers
      /\ Serving(m) /\ Fits(req[s].kind, agent[m].phase)
  BY <1>1, GotFacts
<1>4. agent \in [Macs -> Agent] /\ agent[m] \in Agent
  BY DEF IInv, Shape
<1> DEFINE c == IF req[s].reply.answer = "ok"
                THEN [agent[m].cred EXCEPT !.token = req[s].reply.key, !.renew = now + RotateAfter]
                ELSE agent[m].cred
<1>5. /\ agent[m].cred # None /\ agent[m].cred \in Cred
      /\ Given(agent[m].cred.token, m, agent[m].cred.device)
  BY <1>1, <1>3, <1>4 DEF Serving, Agent
<1>6. c \in Cred /\ Given(c.token, m, c.device)
  <2>1. CASE req[s].reply.answer = "ok"
    <3>1. /\ Given(req[s].reply.key, m, req[s].reply.device)
          /\ req[s].reply.device = agent[m].cred.device
      BY <1>1, <1>3, <2>1 DEF Handling, Fits
    <3>2. now + RotateAfter \in Nat
      BY CredentialsAssumption, ShapeFacts DEF IInv
    <3>3. req[s].reply.key \in Keys
      BY <3>1 DEF Given
    <3>4. c \in Cred /\ c.token = req[s].reply.key /\ c.device = agent[m].cred.device
      BY <1>5, <2>1, <3>2, <3>3 DEF Cred
    <3> QED
      BY <3>1, <3>4
  <2>2. CASE req[s].reply.answer # "ok"
    BY <1>5, <2>2
  <2> QED
    BY <2>1, <2>2
<1>7. agent' = [agent EXCEPT ![m].phase = AfterRotation(m), ![m].cred = c]
  BY <1>1, <1>4 DEF Agent
<1> HIDE DEF c
<1>8. AfterRotation(m) \in {"renewing", "idle"}
  BY DEF AfterRotation
<1>9. /\ agent' \in [Macs -> Agent] /\ agent'[m].phase = AfterRotation(m) /\ agent'[m].cred = c
      /\ \A n \in Macs \ {m} : agent'[n] = agent[n]
  BY <1>4, <1>6, <1>7, <1>8 DEF Agent, Phases
<1>10. Shape'
  BY <1>2, <1>3, <1>9 DEF IInv, Shape
<1>11. agent'[m].phase \notin Waiting /\ agent'[m].phase # "leaving"
  BY <1>8, <1>9 DEF Waiting
<1>12. agent'[m].phase # "idle" => agent'[m].cred # None
  BY <1>6, <1>9, Basics
<1> QED
  BY <1>2, <1>3, <1>6, <1>9, <1>10, <1>11, <1>12, AgentFree

LEMMA RemovedFacts ==
  Removed \in Agent /\ Removed.cred = None /\ Removed.phase = "idle" /\ Removed.gone
BY DEF Removed, FreshAgent, Agent, Phases

LEMMA GetReportKeeps == ASSUME ~Concurrent, IInv, NEW m \in Macs, GetReport(m) PROVE IInv'
<1>1. PICK s \in Slots : /\ Got(m, s) /\ Consume(s)
                       /\ agent' = [agent EXCEPT ![m] = Removed]
  BY DEF GetReport
<1>2. UNCHANGED <<now, dev, keys, codes, minted, items, issued, op, job, lost, crashed, ended>>
  BY DEF GetReport, server, bounds
<1>3. /\ \A t \in Slots : IF req[t] # None /\ req[t].mac = m THEN ~Mid(t) /\ req'[t] = None
                                                          ELSE req'[t] = req[t]
      /\ req' \in [Slots -> Request \cup {None}]
      /\ Handling(s) /\ req[s].stage = "done" /\ req[s].mac = m /\ req[s].reply \in Answers
      /\ Serving(m) /\ Fits(req[s].kind, agent[m].phase)
  BY <1>1, GotFacts
<1>4. agent \in [Macs -> Agent] /\ agent[m] \in Agent
  BY DEF IInv, Shape
<1>5. /\ agent' \in [Macs -> Agent] /\ agent'[m] = Removed
      /\ \A n \in Macs \ {m} : agent'[n] = agent[n]
  BY <1>1, <1>4, RemovedFacts
<1>6. Shape'
  BY <1>2, <1>3, <1>5 DEF IInv, Shape
<1>7. Removed.phase \notin Waiting
  BY RemovedFacts DEF Waiting
<1> QED
  BY <1>2, <1>3, <1>5, <1>6, <1>7, RemovedFacts, AgentFree

LEMMA AbandonFacts ==
  ASSUME ~Concurrent, IInv, NEW m \in Macs, Abandon(m)
  PROVE  /\ \A t \in Slots : IF req[t] # None /\ req[t].mac = m THEN ~Mid(t) /\ req'[t] = None
                                                             ELSE req'[t] = req[t]
         /\ req' \in [Slots -> Request \cup {None}]
<1>1. PICK s \in Slots : Waits(m, s) /\ ~Mid(s) /\ req' = [req EXCEPT ![s] = None]
  BY DEF Abandon
<1>2. \A t \in Slots : req[t] # None /\ req[t].mac = m => t = s
  BY <1>1 DEF IInv, Calls, Waits
<1>3. req \in [Slots -> Request \cup {None}]
  BY DEF IInv, Shape
<1> QED
  BY <1>1, <1>2, <1>3 DEF Waits

LEMMA UnansweredKeeps == ASSUME ~Concurrent, IInv, NEW m \in Macs, Unanswered(m) PROVE IInv'
<1>1. /\ agent[m].phase \in Waiting /\ Abandon(m) /\ lost < Losses /\ lost' = lost + 1
      /\ agent' = [agent EXCEPT ![m] =
           CASE @.phase = "reporting" -> Removed
             [] @.phase \in {"rotating", "renewal"} -> [@ EXCEPT !.phase = AfterRotation(m)]
             [] OTHER -> [@ EXCEPT !.phase = "idle"]]
  BY DEF Unanswered
<1>2. UNCHANGED <<now, dev, keys, codes, minted, items, issued, op, job, crashed, ended>>
  BY DEF Unanswered, server
<1>3. /\ \A t \in Slots : IF req[t] # None /\ req[t].mac = m THEN ~Mid(t) /\ req'[t] = None
                                                          ELSE req'[t] = req[t]
      /\ req' \in [Slots -> Request \cup {None}]
  BY <1>1, AbandonFacts
<1>4. agent \in [Macs -> Agent] /\ agent[m] \in Agent /\ Serving(m)
  BY DEF IInv, Shape, Calls
<1>5. AfterRotation(m) \in {"renewing", "idle"}
  BY DEF AfterRotation
<1>6. /\ agent'[m] \in Agent /\ agent'[m].cred \in {agent[m].cred, None}
      /\ agent'[m].phase \in {"renewing", "idle"}
      /\ agent'[m].phase = "renewing" => agent'[m].cred = agent[m].cred /\ agent[m].phase \notin {"idle", "enrolling"}
  <2>1. CASE agent[m].phase = "reporting"
    <3>1. agent'[m] = Removed
      BY <1>1, <1>4, <2>1
    <3> QED
      BY <3>1, RemovedFacts
  <2>2. CASE agent[m].phase \in {"rotating", "renewal"}
    <3>1. agent'[m] = [agent[m] EXCEPT !.phase = AfterRotation(m)]
      BY <1>1, <1>4, <2>2
    <3> QED
      BY <1>4, <1>5, <2>2, <3>1 DEF Agent, Phases
  <2>3. CASE agent[m].phase \notin {"reporting", "rotating", "renewal"}
    <3>1. agent'[m] = [agent[m] EXCEPT !.phase = "idle"]
      BY <1>1, <1>4, <2>3
    <3> QED
      BY <1>4, <3>1 DEF Agent, Phases
  <2> QED
    BY <2>1, <2>2, <2>3
<1>7. agent' \in [Macs -> Agent] /\ \A n \in Macs \ {m} : agent'[n] = agent[n]
  BY <1>1, <1>4, <1>6
<1>8. lost' \in 0..Losses
  BY <1>1, CredentialsAssumption DEF IInv, Shape
<1>9. Shape'
  BY <1>2, <1>3, <1>7, <1>8 DEF IInv, Shape
<1>10. agent'[m].phase \notin Waiting /\ agent'[m].phase # "leaving"
  BY <1>6 DEF Waiting
<1>11. /\ agent'[m].cred # None => Given(agent'[m].cred.token, m, agent'[m].cred.device)
       /\ agent'[m].phase # "idle" => agent'[m].cred # None
  BY <1>4, <1>6 DEF Serving
<1> QED
  BY <1>2, <1>3, <1>7, <1>9, <1>10, <1>11, AgentFree

LEMMA RestartKeeps == ASSUME ~Concurrent, IInv, NEW m \in Macs, Restart(m) PROVE IInv'
<1>1. /\ agent[m].phase # "idle" => crashed < Crashes
      /\ crashed' = IF agent[m].phase = "idle" THEN crashed ELSE crashed + 1
      /\ IF agent[m].phase \in Waiting THEN Abandon(m) ELSE UNCHANGED req
      /\ agent' = [agent EXCEPT ![m].phase = "idle", ![m].halted = FALSE]
  BY DEF Restart
<1>2. UNCHANGED <<now, dev, keys, codes, minted, items, issued, op, job, lost, ended>>
  BY DEF Restart, server
<1>3. agent \in [Macs -> Agent] /\ agent[m] \in Agent /\ Serving(m) /\ req \in [Slots -> Request \cup {None}]
  BY DEF IInv, Shape, Calls
<1>4. /\ \A t \in Slots : IF req[t] # None /\ req[t].mac = m THEN ~Mid(t) /\ req'[t] = None
                                                          ELSE req'[t] = req[t]
      /\ req' \in [Slots -> Request \cup {None}]
  <2>1. CASE agent[m].phase \in Waiting
    BY <1>1, <2>1, AbandonFacts
  <2>2. CASE agent[m].phase \notin Waiting
    <3>1. \A t \in Slots : req[t] # None => req[t].mac # m
      BY <2>2, QuietFacts
    <3> QED
      BY <1>1, <1>3, <2>2, <3>1
  <2> QED
    BY <2>1, <2>2
<1>5. /\ agent' \in [Macs -> Agent] /\ agent'[m].cred = agent[m].cred /\ agent'[m].phase = "idle"
      /\ \A n \in Macs \ {m} : agent'[n] = agent[n]
  BY <1>1, <1>3 DEF Agent, Phases
<1>6. crashed' \in 0..Crashes
  BY <1>1, CredentialsAssumption DEF IInv, Shape
<1>7. Shape'
  BY <1>2, <1>4, <1>5, <1>6 DEF IInv, Shape
<1>8. "idle" \notin Waiting
  BY DEF Waiting
<1> QED
  BY <1>2, <1>3, <1>4, <1>5, <1>7, <1>8, AgentFree DEF Serving

LEMMA StageCodeKeeps == ASSUME ~Concurrent, IInv, NEW m \in Macs, StageCode(m) PROVE IInv'
<1>1. PICK c \in Codes :
        /\ agent[m].phase = "idle"
        /\ agent' = [agent EXCEPT ![m] =
             [IF @.gone THEN FreshAgent ELSE @ EXCEPT !.code = c, !.halted = FALSE]]
  BY DEF StageCode
<1>2. UNCHANGED <<now, dev, keys, codes, minted, items, issued, req, op, job, lost, crashed, ended>>
  BY DEF StageCode, server, bounds
<1>3. agent \in [Macs -> Agent] /\ agent[m] \in Agent /\ Serving(m)
  BY DEF IInv, Shape, Calls
<1> DEFINE a == IF agent[m].gone THEN FreshAgent ELSE agent[m]
<1>4. a \in Agent /\ a.phase = "idle" /\ a.cred \in {agent[m].cred, None}
  <2>1. FreshAgent \in Agent /\ FreshAgent.phase = "idle" /\ FreshAgent.cred = None
    BY DEF FreshAgent, Agent, Phases
  <2> QED
    BY <1>1, <1>3, <2>1
<1>5. agent' = [agent EXCEPT ![m] = [a EXCEPT !.code = c, !.halted = FALSE]]
  BY <1>1, <1>3
<1> HIDE DEF a
<1>6. /\ agent' \in [Macs -> Agent] /\ agent'[m].cred \in {agent[m].cred, None} /\ agent'[m].phase = "idle"
      /\ \A n \in Macs \ {m} : agent'[n] = agent[n]
  BY <1>3, <1>4, <1>5 DEF Agent
<1>7. Shape'
  BY <1>2, <1>6 DEF IInv, Shape
<1>8. "idle" \notin Waiting
  BY DEF Waiting
<1>9. \A t \in Slots : req[t] # None => req[t].mac # m
  BY <1>1, <1>8, QuietFacts
<1> QED
  BY <1>2, <1>3, <1>6, <1>7, <1>8, <1>9, AgentFree DEF Serving

-----------------------------------------------------------------------------
(* The steps of a handler. *)

LEMMA ReplyFacts ==
  ASSUME IInv, NEW s \in Slots, req[s] # None, NEW a \in Answers, Reply(s, a)
  PROVE  /\ req' \in [Slots -> Request \cup {None}] /\ req'[s] # None /\ req[s] \in Request
         /\ \A t \in Slots \ {s} : req'[t] = req[t]
         /\ req'[s].mac = req[s].mac /\ req'[s].kind = req[s].kind /\ req'[s].waited
         /\ req'[s].code = req[s].code /\ req'[s].key = req[s].key
         /\ req'[s].stage = "done" /\ req'[s].reply = a
<1>1. /\ req \in [Slots -> Request \cup {None}] /\ req[s] \in Request /\ req[s].waited
  BY DEF IInv, Shape, Calls, Handling
<1>2. req' = [req EXCEPT ![s] = [@ EXCEPT !.stage = "done", !.reply = a]]
  BY <1>1 DEF Reply
<1>3. [req[s] EXCEPT !.stage = "done", !.reply = a] \in Request
  BY <1>1 DEF Request
<1> QED
  BY <1>1, <1>2, <1>3, Basics DEF Request

LEMMA ProceedFacts ==
  ASSUME IInv, NEW s \in Slots, req[s] # None, NEW seen \in Seen,
         NEW stage \in {"claimed", "reissuing", "read", "minted"}, Proceed(s, stage, seen)
  PROVE  /\ req' \in [Slots -> Request \cup {None}] /\ req'[s] # None /\ req[s] \in Request
         /\ \A t \in Slots \ {s} : req'[t] = req[t]
         /\ req'[s].mac = req[s].mac /\ req'[s].kind = req[s].kind /\ req'[s].waited
         /\ req'[s].code = req[s].code /\ req'[s].key = req[s].key
         /\ req'[s].stage = stage /\ req'[s].seen = seen
<1>1. /\ req \in [Slots -> Request \cup {None}] /\ req[s] \in Request /\ req[s].waited
  BY DEF IInv, Shape, Calls, Handling
<1>2. req' = [req EXCEPT ![s] = [req[s] EXCEPT !.stage = stage, !.seen = seen]]
  BY <1>1 DEF Proceed
<1>3. [req[s] EXCEPT !.stage = stage, !.seen = seen] \in Request
  BY <1>1 DEF Request
<1> QED
  BY <1>1, <1>2, <1>3, Basics DEF Request

\* A handler that uses keys or turns them off, and says so.
LEMMA FadeStep ==
  ASSUME ~Concurrent, IInv, NEW s \in Slots, req[s] # None, MayStart \/ Mid(s), ~Stage(s, "minted"),
         UNCHANGED <<now, dev, items, minted, issued, op, job, agent, bounds, ended>>,
         Fade, keys' \in [Keys -> KeyRow \cup {None}],
         codes' \in [Codes -> Enrollment \cup {None}], Invites',
         req' \in [Slots -> Request \cup {None}], req'[s] # None,
         \A t \in Slots \ {s} : req'[t] = req[t],
         req'[s].mac = req[s].mac, req'[s].waited, req'[s].stage # "minted",
         Handling(s)'
  PROVE  IInv'
<1>1. Shape'
  BY DEF IInv, Shape, bounds
<1>2. InHand
  <2>1. ~Stage(s, "minted")'
    BY DEF Stage
  <2> QED
    BY <2>1 DEF InHand, Stage
<1>3. Rows' /\ Placed' /\ Grows
  BY <1>2, FadeKeeps DEF IInv
<1> QED
  BY <1>1, <1>3, HandlerFrame

LEMMA AnswerStep ==
  ASSUME ~Concurrent, IInv, NEW s \in Slots, req[s] # None, MayStart \/ Mid(s), ~Stage(s, "minted"),
         UNCHANGED <<now, dev, items, minted, issued, op, job, agent, bounds, ended>>,
         Fade, keys' \in [Keys -> KeyRow \cup {None}],
         codes' \in [Codes -> Enrollment \cup {None}], Invites',
         NEW a \in Answers, Reply(s, a),
         a.answer = "decommission" => Told(req[s].mac),
         a.answer = "ok" => req[s].kind \notin {"enrol", "rotate"}
  PROVE  IInv'
<1>1. /\ req' \in [Slots -> Request \cup {None}] /\ req'[s] # None /\ req[s] \in Request
      /\ \A t \in Slots \ {s} : req'[t] = req[t]
      /\ req'[s].mac = req[s].mac /\ req'[s].kind = req[s].kind /\ req'[s].waited
      /\ req'[s].code = req[s].code /\ req'[s].key = req[s].key
      /\ req'[s].stage = "done" /\ req'[s].reply = a
  BY ReplyFacts
<1>2. Handling(s)
  BY DEF IInv, Calls
<1>3. a.answer = "decommission" => Told(req[s].mac)'
  BY <1>1 DEF Told, Retired
<1>4. agent' = agent
  OBVIOUS
<1>5. Handling(s)'
  BY <1>1, <1>2, <1>3, <1>4 DEF Handling
<1> QED
  BY <1>1, <1>5, FadeStep

LEMMA SameCodes ==
  ASSUME IInv, UNCHANGED <<dev, codes>>
  PROVE  Invites' /\ codes' \in [Codes -> Enrollment \cup {None}]
BY DEF IInv, Shape, Invites

LEMMA SameKeys ==
  ASSUME Shape, UNCHANGED keys
  PROVE  Fade /\ keys' \in [Keys -> KeyRow \cup {None}]
BY DEF Shape, Fade

LEMMA TouchFacts ==
  ASSUME Shape, NEW k \in Keys, keys[k] # None, Touch(k)
  PROVE  Fade /\ keys' \in [Keys -> KeyRow \cup {None}]
<1>1. keys \in [Keys -> KeyRow \cup {None}] /\ keys[k] \in KeyRow
  BY DEF Shape
<1>2. keys' = [keys EXCEPT ![k] = [keys[k] EXCEPT !.used = TRUE]]
  BY <1>1 DEF Touch
<1>3. [keys[k] EXCEPT !.used = TRUE] \in KeyRow
  BY <1>1 DEF KeyRow
<1> QED
  BY <1>1, <1>2, <1>3, Basics DEF Fade, KeyRow

LEMMA TurnOffFacts ==
  ASSUME Shape, NEW off, keys' = TurnOff(keys, off)
  PROVE  /\ Fade /\ keys' \in [Keys -> KeyRow \cup {None}]
         /\ \A k \in Keys \cap off : keys'[k] # None => ~keys'[k].on
<1>1. keys \in [Keys -> KeyRow \cup {None}] /\ \A k \in Keys : keys[k] # None => keys[k] \in KeyRow
  BY DEF Shape
<1>2. \A k \in Keys : IF k \in off /\ keys[k] # None THEN keys'[k] = [keys[k] EXCEPT !.on = FALSE]
                      ELSE keys'[k] = keys[k]
  BY DEF TurnOff
<1>3. \A k \in Keys : keys[k] # None => /\ [keys[k] EXCEPT !.on = FALSE] \in KeyRow
                                       /\ [keys[k] EXCEPT !.on = FALSE].device = keys[k].device
                                       /\ [keys[k] EXCEPT !.on = FALSE].expires = keys[k].expires
                                       /\ ~[keys[k] EXCEPT !.on = FALSE].on
  BY <1>1 DEF KeyRow
<1>4. DOMAIN keys' = Keys /\ keys' = [k \in Keys |-> keys'[k]]
  BY DEF TurnOff
<1>5. keys' \in [Keys -> KeyRow \cup {None}]
  BY <1>1, <1>2, <1>3, <1>4
<1>6. Fade
  BY <1>2, <1>3, Basics DEF Fade
<1>7. \A k \in Keys \cap off : keys'[k] # None => ~keys'[k].on
  BY <1>2, <1>3
<1> QED
  BY <1>5, <1>6, <1>7

\* Who calls with a key that is accepted is its holder, as the device the key is for.
LEMMA CallerFacts ==
  ASSUME IInv, NEW s \in Slots, req[s] # None, req[s].kind # "enrol"
  PROVE  /\ req[s] \in Request /\ req[s].mac \in Macs /\ req[s].key \in Keys
         /\ agent[req[s].mac].cred # None /\ req[s].key = agent[req[s].mac].cred.token
         /\ Accepted(req[s].key) =>
              /\ keys[req[s].key] # None /\ Caller(s) \in Devices
              /\ Caller(s) = agent[req[s].mac].cred.device
              /\ dev[Caller(s)].mac = req[s].mac
<1>1. Handling(s) /\ req[s] \in Request
  BY DEF IInv, Calls, Shape
<1>2. req[s].mac \in Macs
  BY <1>1 DEF Request
<1>3. Serving(req[s].mac)
  BY <1>2 DEF IInv, Calls
<1>4. /\ agent[req[s].mac].cred # None /\ req[s].key = agent[req[s].mac].cred.token
      /\ Given(req[s].key, req[s].mac, agent[req[s].mac].cred.device)
  BY <1>1, <1>3 DEF Handling, Serving
<1>5. req[s].key \in Keys
  BY <1>4 DEF Given
<1>6. ASSUME Accepted(req[s].key)
      PROVE  /\ keys[req[s].key] # None /\ Caller(s) \in Devices
             /\ Caller(s) = agent[req[s].mac].cred.device
  <2>1. keys[req[s].key] # None /\ Resolved(req[s].key) # {}
    BY <1>6 DEF Accepted, Authenticates
  <2>2. Caller(s) \in Resolved(req[s].key)
    BY <2>1 DEF Caller
  <2>3. Caller(s) \in Devices /\ req[s].key \in RowKeys(Caller(s))
    BY <1>5, <2>2, Basics DEF Resolved, RowKeys
  <2>4. keys[req[s].key].device = Caller(s)
    BY <2>1, <2>3 DEF IInv, Rows, Row
  <2> QED
    BY <1>4, <2>1, <2>3, <2>4 DEF Given
<1> QED
  BY <1>1, <1>2, <1>4, <1>5, <1>6 DEF Given

LEMMA AnswerIsAnswer ==
  \A a \in {"ok", "rejected", "halt", "decommission", "failed"} :
    Answer(a) \in Answers /\ Answer(a).answer = a
BY DEF Answer, Answers, KeyOrNone

LEMMA EnrolClaimKeeps == ASSUME ~Concurrent, IInv, NEW s \in Slots, EnrolClaim(s) PROVE IInv'
<1>1. /\ MayStart /\ req[s] # None /\ req[s].stage = "sent" /\ req[s].kind = "enrol"
      /\ ~Stage(s, "minted")
      /\ UNCHANGED <<now, dev, items, keys, minted, codes, issued, op, job, agent, bounds, ended>>
  BY DEF EnrolClaim, server, At, Stage
<1>2. Fade /\ keys' \in [Keys -> KeyRow \cup {None}] /\ Invites' /\ codes' \in [Codes -> Enrollment \cup {None}]
  BY <1>1, SameKeys, SameCodes DEF IInv
<1>3. CASE Reply(s, Answer("rejected"))
  BY <1>1, <1>2, <1>3, AnswerStep, AnswerIsAnswer
<1>4. CASE Proceed(s, "claimed", None)
  <2>1. None \in Seen
    BY DEF Seen, KeyOrNone
  <2>2. /\ req' \in [Slots -> Request \cup {None}] /\ req'[s] # None /\ req[s] \in Request
        /\ \A t \in Slots \ {s} : req'[t] = req[t]
        /\ req'[s].mac = req[s].mac /\ req'[s].kind = req[s].kind /\ req'[s].waited
        /\ req'[s].code = req[s].code /\ req'[s].key = req[s].key
        /\ req'[s].stage = "claimed" /\ req'[s].seen = None
    BY <1>1, <1>4, <2>1, ProceedFacts
  <2>3. Handling(s)
    BY <1>1 DEF IInv, Calls
  <2>4. codes'[req[s].code] # None /\ codes'[req[s].code].by = None /\ agent' = agent
    BY <1>1 DEF EnrolClaim, Claimable
  <2>5. Handling(s)'
    BY <1>1, <2>2, <2>3, <2>4 DEF Handling
  <2> QED
    BY <1>1, <1>2, <2>2, <2>5, FadeStep
<1> QED
  BY <1>3, <1>4 DEF EnrolClaim

LEMMA EnrolRefusedKeeps == ASSUME ~Concurrent, IInv, NEW s \in Slots, EnrolRefused(s) PROVE IInv'
<1> DEFINE c == req[s].code
<1>1. /\ MayStart /\ req[s] # None /\ req[s].stage = "sent" /\ req[s].kind = "enrol"
      /\ ~Stage(s, "minted")
      /\ UNCHANGED <<now, dev, items, keys, minted, issued, op, job, agent, bounds, ended>>
  BY DEF EnrolRefused, At, Stage
<1>2. Fade /\ keys' \in [Keys -> KeyRow \cup {None}]
  BY <1>1, SameKeys DEF IInv
<1>3. Handling(s)
  BY <1>1 DEF IInv, Calls
<1>4. c \in Codes /\ codes \in [Codes -> Enrollment \cup {None}] /\ Invites
  BY <1>1, <1>3 DEF Handling, IInv, Shape
<1>5. CASE codes[c] = None
  <2>1. Reply(s, Answer("rejected")) /\ UNCHANGED codes
    BY <1>5 DEF EnrolRefused
  <2>2. Invites' /\ codes' \in [Codes -> Enrollment \cup {None}]
    BY <1>1, <2>1, SameCodes
  <2> QED
    BY <1>1, <1>2, <2>1, <2>2, AnswerStep, AnswerIsAnswer
<1>6. CASE codes[c] # None
  <2> DEFINE n == IF codes[c].attempts < MaxAttempts THEN codes[c].attempts + 1 ELSE codes[c].attempts
  <2>1. /\ codes' = [codes EXCEPT ![c] = [codes[c] EXCEPT !.attempts = n]]
        /\ IF MayReissue(req[s].mac, c) THEN Proceed(s, "reissuing", dev[codes[c].device].key)
           ELSE Reply(s, Answer("rejected"))
    BY <1>4, <1>6 DEF EnrolRefused
  <2>2. codes[c] \in Enrollment
    BY <1>4, <1>6
  <2>3. n \in Nat
    BY <2>2 DEF Enrollment
  <2> HIDE DEF n
  <2>4. /\ [codes[c] EXCEPT !.attempts = n] \in Enrollment
        /\ [codes[c] EXCEPT !.attempts = n].by = codes[c].by
        /\ [codes[c] EXCEPT !.attempts = n].device = codes[c].device
    BY <2>2, <2>3 DEF Enrollment
  <2>5. /\ codes' \in [Codes -> Enrollment \cup {None}]
        /\ \A e \in Codes : /\ (codes'[e] = None) = (codes[e] = None)
                            /\ codes[e] # None => codes'[e].by = codes[e].by /\ codes'[e].device = codes[e].device
    BY <1>4, <1>6, <2>1, <2>4, Basics
  <2>6. Invites'
    BY <1>1, <1>4, <2>5 DEF Invites
  <2>7. CASE Reply(s, Answer("rejected"))
    BY <1>1, <1>2, <2>5, <2>6, <2>7, AnswerStep, AnswerIsAnswer
  <2>8. CASE MayReissue(req[s].mac, c) /\ Proceed(s, "reissuing", dev[codes[c].device].key)
    <3>1. codes[c].device \in Devices
      BY <2>2 DEF Enrollment
    <3>2. dev[codes[c].device].key \in Keys /\ codes[c].by = req[s].mac
      BY <2>8, <3>1, ShapeFacts DEF MayReissue, IInv, DevRow, KeyOrNone
    <3>3. dev[codes[c].device].key \in Seen
      BY <3>2 DEF Seen, KeyOrNone
    <3>4. /\ req' \in [Slots -> Request \cup {None}] /\ req'[s] # None /\ req[s] \in Request
          /\ \A t \in Slots \ {s} : req'[t] = req[t]
          /\ req'[s].mac = req[s].mac /\ req'[s].kind = req[s].kind /\ req'[s].waited
          /\ req'[s].code = req[s].code /\ req'[s].key = req[s].key
          /\ req'[s].stage = "reissuing" /\ req'[s].seen = dev[codes[c].device].key
      BY <1>1, <2>8, <3>3, ProceedFacts
    <3>5. /\ codes'[req[s].code] # None /\ codes'[req[s].code].by = req[s].mac
          /\ codes'[req[s].code].device = codes[c].device /\ agent' = agent /\ dev' = dev
      BY <1>1, <1>4, <1>6, <2>5, <3>2
    <3>6. Handling(s)'
      BY <1>1, <1>3, <3>2, <3>4, <3>5 DEF Handling
    <3> QED
      BY <1>1, <1>2, <2>5, <2>6, <3>4, <3>6, FadeStep
  <2> QED
    BY <2>1, <2>7, <2>8
<1> QED
  BY <1>5, <1>6

LEMMA RefuseKeeps ==
  ASSUME ~Concurrent, IInv, NEW s \in Slots, NEW kind \in {"sync", "rotate", "report"}, Refuse(s, kind)
  PROVE  IInv'
<1>1. /\ MayStart /\ req[s] # None /\ req[s].stage = "sent" /\ req[s].kind = kind
      /\ ~Stage(s, "minted")
      /\ UNCHANGED <<now, dev, items, minted, codes, issued, op, job, agent, bounds, ended>>
      /\ IF Authenticates(req[s].key) THEN Touch(req[s].key) ELSE UNCHANGED keys
      /\ Reply(s, Answer(IF kind = "rotate" THEN "failed" ELSE "halt"))
  BY DEF Refuse, At, Stage
<1>2. req[s].key \in Keys
  BY <1>1, CallerFacts
<1>3. Fade /\ keys' \in [Keys -> KeyRow \cup {None}]
  BY <1>1, <1>2, TouchFacts, SameKeys DEF Authenticates, IInv
<1>4. Invites' /\ codes' \in [Codes -> Enrollment \cup {None}]
  BY <1>1, SameCodes
<1>5. /\ Answer(IF kind = "rotate" THEN "failed" ELSE "halt") \in Answers
      /\ Answer(IF kind = "rotate" THEN "failed" ELSE "halt").answer \in {"failed", "halt"}
  BY AnswerIsAnswer
<1> QED
  BY <1>1, <1>3, <1>4, <1>5, AnswerStep

LEMMA TellDecommissionedKeeps ==
  ASSUME ~Concurrent, IInv, NEW s \in Slots, NEW kind \in {"sync", "rotate"}, TellDecommissioned(s, kind)
  PROVE  IInv'
<1>1. /\ MayStart /\ req[s] # None /\ req[s].stage = "sent" /\ req[s].kind = kind
      /\ ~Stage(s, "minted") /\ Accepted(req[s].key) /\ dev[Caller(s)].status = "decommissioned"
      /\ UNCHANGED <<now, dev, items, minted, codes, issued, op, job, agent, bounds, ended>>
      /\ Touch(req[s].key)
      /\ Reply(s, Answer(IF kind = "rotate" THEN "failed" ELSE "decommission"))
  BY DEF TellDecommissioned, At, Stage
<1>2. /\ req[s].key \in Keys /\ keys[req[s].key] # None /\ Caller(s) \in Devices
      /\ dev[Caller(s)].mac = req[s].mac
  BY <1>1, CallerFacts
<1>3. Fade /\ keys' \in [Keys -> KeyRow \cup {None}]
  BY <1>1, <1>2, TouchFacts DEF IInv
<1>4. Invites' /\ codes' \in [Codes -> Enrollment \cup {None}]
  BY <1>1, SameCodes
<1>5. /\ Answer(IF kind = "rotate" THEN "failed" ELSE "decommission") \in Answers
      /\ Answer(IF kind = "rotate" THEN "failed" ELSE "decommission").answer \in {"failed", "decommission"}
  BY AnswerIsAnswer
<1>6. Told(req[s].mac)
  BY <1>1, <1>2 DEF IInv, Rows, Row, Told
<1> QED
  BY <1>1, <1>3, <1>4, <1>5, <1>6, AnswerStep

LEMMA ReportKeeps == ASSUME ~Concurrent, IInv, NEW s \in Slots, Report(s) PROVE IInv'
<1>1. /\ MayStart /\ req[s] # None /\ req[s].stage = "sent" /\ req[s].kind = "report"
      /\ ~Stage(s, "minted") /\ Accepted(req[s].key)
      /\ UNCHANGED <<now, dev, items, minted, codes, issued, op, job, agent, bounds, ended>>
      /\ Touch(req[s].key) \/ keys' = TurnOff(keys, RowKeys(Caller(s)))
      /\ Reply(s, Answer("ok"))
  BY DEF Report, At, Stage
<1>2. req[s].key \in Keys /\ keys[req[s].key] # None
  BY <1>1, CallerFacts
<1>3. Fade /\ keys' \in [Keys -> KeyRow \cup {None}]
  BY <1>1, <1>2, TouchFacts, TurnOffFacts DEF IInv
<1>4. Invites' /\ codes' \in [Codes -> Enrollment \cup {None}]
  BY <1>1, SameCodes
<1> QED
  BY <1>1, <1>3, <1>4, AnswerStep, AnswerIsAnswer

LEMMA SyncReadKeeps == ASSUME ~Concurrent, IInv, NEW s \in Slots, SyncRead(s) PROVE IInv'
<1> DEFINE w == [device |-> Caller(s), status |-> dev[Caller(s)].status]
<1>1. /\ MayStart /\ req[s] # None /\ req[s].stage = "sent" /\ req[s].kind = "sync"
      /\ ~Stage(s, "minted") /\ Accepted(req[s].key)
      /\ UNCHANGED <<now, dev, items, minted, codes, issued, op, job, agent, bounds, ended>>
      /\ Touch(req[s].key) /\ Proceed(s, "read", w)
  BY DEF SyncRead, At, Stage
<1>2. req[s].key \in Keys /\ keys[req[s].key] # None /\ Caller(s) \in Devices
  BY <1>1, CallerFacts
<1>3. Fade /\ keys' \in [Keys -> KeyRow \cup {None}]
  BY <1>1, <1>2, TouchFacts DEF IInv
<1>4. Invites' /\ codes' \in [Codes -> Enrollment \cup {None}]
  BY <1>1, SameCodes
<1>5. /\ w \in [device : Devices, status : Statuses] /\ w.status = dev[w.device].status
      /\ w \in Seen
  BY <1>2, ShapeFacts DEF IInv, DevRow, Seen
<1> HIDE DEF w
<1>6. /\ req' \in [Slots -> Request \cup {None}] /\ req'[s] # None /\ req[s] \in Request
      /\ \A t \in Slots \ {s} : req'[t] = req[t]
      /\ req'[s].mac = req[s].mac /\ req'[s].kind = req[s].kind /\ req'[s].waited
      /\ req'[s].code = req[s].code /\ req'[s].key = req[s].key
      /\ req'[s].stage = "read" /\ req'[s].seen = w
  BY <1>1, <1>5, ProceedFacts
<1>7. Handling(s)
  BY <1>1 DEF IInv, Calls
<1>8. agent' = agent /\ dev' = dev
  BY <1>1
<1>9. Handling(s)'
  BY <1>1, <1>5, <1>6, <1>7, <1>8 DEF Handling
<1> QED
  BY <1>1, <1>3, <1>4, <1>6, <1>9, FadeStep

LEMMA RotateReadKeeps == ASSUME ~Concurrent, IInv, NEW s \in Slots, RotateRead(s) PROVE IInv'
<1> DEFINE d == Caller(s)
           w == [device |-> d, key |-> dev[d].key]
<1>1. /\ MayStart /\ req[s] # None /\ req[s].stage = "sent" /\ req[s].kind = "rotate"
      /\ ~Stage(s, "minted") /\ Accepted(req[s].key)
      /\ UNCHANGED <<now, dev, items, minted, codes, issued, op, job, agent, bounds, ended>>
      /\ Touch(req[s].key)
      /\ IF dev[d].key = None \/ OverlapOpen(d) THEN Reply(s, Answer("failed")) ELSE Proceed(s, "read", w)
  BY DEF RotateRead, At, Stage
<1>2. /\ req[s].key \in Keys /\ keys[req[s].key] # None /\ d \in Devices
      /\ d = agent[req[s].mac].cred.device
  BY <1>1, CallerFacts
<1> HIDE DEF d
<1>3. Fade /\ keys' \in [Keys -> KeyRow \cup {None}]
  BY <1>1, <1>2, TouchFacts DEF IInv
<1>4. Invites' /\ codes' \in [Codes -> Enrollment \cup {None}]
  BY <1>1, SameCodes
<1>5. CASE Reply(s, Answer("failed"))
  BY <1>1, <1>3, <1>4, <1>5, AnswerStep, AnswerIsAnswer
<1>6. CASE dev[d].key # None /\ ~OverlapOpen(d) /\ Proceed(s, "read", w)
  <2>1. /\ w \in [device : Devices, key : Keys] /\ w.device = d /\ w.key = dev[d].key
        /\ w \in Seen
    BY <1>2, <1>6, ShapeFacts DEF IInv, DevRow, Seen, KeyOrNone
  <2> HIDE DEF w
  <2>2. /\ req' \in [Slots -> Request \cup {None}] /\ req'[s] # None /\ req[s] \in Request
        /\ \A t \in Slots \ {s} : req'[t] = req[t]
        /\ req'[s].mac = req[s].mac /\ req'[s].kind = req[s].kind /\ req'[s].waited
        /\ req'[s].code = req[s].code /\ req'[s].key = req[s].key
        /\ req'[s].stage = "read" /\ req'[s].seen = w
    BY <1>1, <1>6, <2>1, ProceedFacts
  <2>3. Handling(s)
    BY <1>1 DEF IInv, Calls
  <2>4. agent' = agent /\ dev' = dev /\ now' = now
    BY <1>1
  <2>5. Rotation(s)'
    BY <1>2, <1>6, <2>1, <2>2, <2>4 DEF Rotation, OverlapOpen
  <2>6. Handling(s)'
    BY <1>1, <2>1, <2>2, <2>3, <2>4, <2>5 DEF Handling
  <2> QED
    BY <1>1, <1>3, <1>4, <2>2, <2>6, FadeStep
<1> QED
  BY <1>1, <1>5, <1>6

\* No rotation holds a key while another handler works.
LEMMA NobodyMints ==
  ASSUME ~Concurrent, IInv, NEW s \in Slots, MayStart \/ Mid(s), ~Stage(s, "minted")
  PROVE  /\ op = None /\ job = None /\ Handed = minted
         /\ \A t \in Slots : ~Stage(t, "minted")
<1>1. op = None /\ job = None /\ \A t \in Slots \ {s} : ~Mid(t)
  BY AloneFacts
<1>2. \A t \in Slots : ~Stage(t, "minted")
  BY <1>1 DEF Stage, Mid
<1> QED
  BY <1>1, <1>2 DEF Handed

LEMMA SyncWriteKeeps == ASSUME ~Concurrent, IInv, NEW s \in Slots, SyncWrite(s) PROVE IInv'
<1> DEFINE d == req[s].seen.device
           a == [Answer("ok") EXCEPT !.item = PendingDesired(d)]
<1>1. /\ req[s] # None /\ req[s].stage = "read" /\ req[s].kind = "sync"
      /\ UNCHANGED <<now, items, keys, minted, codes, issued, op, job, agent, lost, crashed, ended>>
      /\ dev' = IF req[s].seen.status = "enrolled" THEN [dev EXCEPT ![d].status = "active"] ELSE dev
      /\ Reply(s, a)
  BY DEF SyncWrite, At, Stage, bounds
<1>2. Mid(s) /\ ~Stage(s, "minted")
  BY <1>1 DEF Mid, Stage
<1>3. /\ req[s].seen \in [device : Devices, status : Statuses] /\ Handling(s)
      /\ req[s].seen.status = dev[d].status
  BY <1>1 DEF IInv, Calls, Handling
<1>4. d \in Devices /\ dev \in [Devices -> DevRow] /\ dev[d] \in DevRow
  BY <1>3 DEF IInv, Shape
<1>5. a \in Answers /\ a.answer = "ok"
  <2>1. PendingDesired(d) \in BOOLEAN
    BY DEF PendingDesired
  <2>2. Answer("ok") \in Answers /\ Answer("ok").answer = "ok"
    BY AnswerIsAnswer
  <2> QED
    BY <2>1, <2>2 DEF Answers
<1> HIDE DEF a, d
<1>6. /\ dev' \in [Devices -> DevRow]
      /\ \A e \in Devices : /\ dev'[e].mac = dev[e].mac /\ dev'[e].key = dev[e].key
                            /\ dev'[e].prev = dev[e].prev /\ dev'[e].until = dev[e].until
                            /\ \/ dev'[e].status = dev[e].status
                               \/ dev'[e].status = "active" /\ dev[e].status = "enrolled"
  BY <1>1, <1>3, <1>4 DEF DevRow, Statuses, Live
<1>7. /\ req' \in [Slots -> Request \cup {None}] /\ req'[s] # None /\ req[s] \in Request
      /\ \A t \in Slots \ {s} : req'[t] = req[t]
      /\ req'[s].mac = req[s].mac /\ req'[s].kind = req[s].kind /\ req'[s].waited
      /\ req'[s].code = req[s].code /\ req'[s].key = req[s].key
      /\ req'[s].stage = "done" /\ req'[s].reply = a
  BY <1>1, <1>5, ReplyFacts
<1>8. Shape'
  BY <1>1, <1>6, <1>7 DEF IInv, Shape
<1>9. \A e \in Devices : RowKeys(e)' = RowKeys(e) /\ Retired(e)' = Retired(e)
  BY <1>1, <1>6 DEF RowKeys, Retired
<1>10. Rows'
  BY <1>1, <1>6, <1>9 DEF IInv, Rows, Row
<1>11. Invites'
  <2>1. \A c \in Codes : codes[c] # None => codes[c].device \in Devices
    BY ShapeFacts DEF IInv, Enrollment
  <2> QED
    BY <1>1, <1>6, <2>1 DEF IInv, Invites
<1>12. /\ \A t \in Slots : ~Stage(t, "minted") /\ ~Stage(t, "minted")'
       /\ Handed = minted
  BY <1>2, <1>7, NobodyMints DEF Stage
<1>13. Placed'
  <2>1. \A k \in Keys : keys[k] # None => keys[k].device \in Devices
    BY ShapeFacts DEF IInv, KeyRow
  <2> QED
    BY <1>1, <1>9, <1>12, <2>1 DEF IInv, Placed
<1>14. Grows
  BY <1>1, <1>6, <1>9, <1>12, ShapeFacts DEF IInv, Grows, Handed
<1>15. Handling(s)'
  <2>1. agent' = agent
    BY <1>1
  <2> QED
    BY <1>1, <1>3, <1>5, <1>7, <2>1 DEF Handling
<1> QED
  BY <1>1, <1>2, <1>7, <1>8, <1>10, <1>11, <1>13, <1>14, <1>15, HandlerFrame

\* A new row for a new key.
LEMMA MintFacts ==
  ASSUME NEW d \in Devices, NEW ks \in [Keys -> KeyRow \cup {None}], minted + 1 \in Keys, keys' = Mint(d, ks)
  PROVE  /\ keys' \in [Keys -> KeyRow \cup {None}]
         /\ \A k \in Keys \ {minted + 1} : keys'[k] = ks[k]
         /\ keys'[minted + 1] # None /\ keys'[minted + 1].device = d /\ keys'[minted + 1].expires = None
<1> DEFINE r == [device |-> d, on |-> TRUE, expires |-> None, used |-> FALSE]
<1>1. r \in KeyRow
  BY DEF KeyRow
<1>2. r # None
  BY <1>1, Basics
<1> QED
  BY <1>1, <1>2 DEF Mint

LEMMA RotateMintKeeps == ASSUME ~Concurrent, IInv, NEW s \in Slots, RotateMint(s) PROVE IInv'
<1> DEFINE d == req[s].seen.device
           w == [device |-> req[s].seen.device, key |-> req[s].seen.key, new |-> minted + 1]
<1>1. /\ req[s] # None /\ req[s].stage = "read" /\ req[s].kind = "rotate"
      /\ UNCHANGED <<now, dev, items, codes, issued, op, job, agent, lost, crashed, ended>>
      /\ minted + 1 \in Keys /\ keys' = Mint(d, keys) /\ minted' = minted + 1
      /\ Proceed(s, "minted", w)
  BY DEF RotateMint, At, Stage, bounds
<1>2. Mid(s) /\ ~Stage(s, "minted")
  BY <1>1 DEF Mid, Stage
<1>3. Handling(s) /\ Rotation(s) /\ req[s].seen \in [device : Devices, key : Keys]
  BY <1>1 DEF IInv, Calls, Handling
<1>4. /\ w \in [device : Devices, key : Keys, new : Keys] /\ w \in Seen /\ d \in Devices
      /\ w.device = req[s].seen.device /\ w.key = req[s].seen.key /\ w.new = minted + 1
  BY <1>1, <1>3 DEF Seen
<1> HIDE DEF w, d
<1>5. /\ req' \in [Slots -> Request \cup {None}] /\ req'[s] # None /\ req[s] \in Request
      /\ \A t \in Slots \ {s} : req'[t] = req[t]
      /\ req'[s].mac = req[s].mac /\ req'[s].kind = req[s].kind /\ req'[s].waited
      /\ req'[s].code = req[s].code /\ req'[s].key = req[s].key
      /\ req'[s].stage = "minted" /\ req'[s].seen = w
  BY <1>1, <1>4, ProceedFacts
<1>6. keys \in [Keys -> KeyRow \cup {None}] /\ minted \in Nat
  BY ShapeFacts DEF IInv, Shape
<1>7. /\ keys' \in [Keys -> KeyRow \cup {None}]
      /\ \A k \in Keys \ {minted + 1} : keys'[k] = keys[k]
      /\ keys'[minted + 1] # None /\ keys'[minted + 1].device = d
  BY <1>1, <1>4, <1>6, MintFacts
<1>8. Shape'
  BY <1>1, <1>5, <1>7 DEF IInv, Shape
<1>9. \A e \in Devices : RowKeys(e)' = RowKeys(e) /\ Retired(e)' = Retired(e) /\ RowKeys(e) \subseteq Keys
  BY <1>1, ShapeFacts DEF IInv, RowKeys, Retired
<1>10. \A e \in Devices : \A k \in RowKeys(e) : k <= minted /\ k # minted + 1 /\ k \in Nat
  <2>1. \A e \in Devices : \A k \in RowKeys(e) : k <= minted
    BY DEF IInv, Rows, Row
  <2>2. \A e \in Devices : RowKeys(e) \subseteq Nat
    BY <1>9, Basics
  <2>3. \A k \in Nat : k <= minted => k # minted + 1
    BY <1>6
  <2> QED
    BY <2>1, <2>2, <2>3
<1>11. Rows'
  <2>1. \A e \in Devices : dev[e].prev # None => dev[e].prev \in RowKeys(e)
    BY DEF RowKeys
  <2>2. \A e \in Devices : dev[e].prev # None => keys'[dev[e].prev] = keys[dev[e].prev]
    BY <1>7, <1>9, <1>10, <2>1
  <2>3. \A e \in Devices : ended[e] # None => ended[e].upto \in Nat
    BY ShapeFacts DEF IInv, Ending
  <2>4. \A e \in Devices : \A k \in RowKeys(e) : keys'[k] = keys[k] /\ k <= minted'
    BY <1>1, <1>6, <1>7, <1>9, <1>10
  <2>5. \A e \in Devices : ended[e] # None => ended[e].upto <= minted'
    BY <1>1, <1>6, <2>3 DEF IInv, Rows, Row
  <2> SUFFICES ASSUME NEW e \in Devices PROVE Row(e)'
    BY DEF Rows
  <2> QED
    BY <1>1, <1>9, <2>2, <2>4, <2>5 DEF IInv, Rows, Row
<1>12. Invites'
  BY <1>1 DEF IInv, Invites
<1>13. (\A t \in Slots : ~Stage(t, "minted")) /\ Stage(s, "minted")' /\ Handed = minted
  BY <1>2, <1>5, NobodyMints DEF Stage
<1>14. Placed'
  <2>1. req'[s].seen.new = minted + 1
    BY <1>4, <1>5
  <2>2. \A k \in Keys : keys[k] # None => keys[k].device \in Devices
    BY ShapeFacts DEF IInv, KeyRow
  <2> QED
    BY <1>1, <1>7, <1>9, <1>13, <2>1, <2>2 DEF IInv, Placed
<1>15. Grows
  <2>1. Handed' = minted
    BY <1>1, <1>6, <1>13 DEF Handed
  <2>2. \A k \in Keys : k <= minted => k # minted + 1
    BY <1>6, Basics
  <2> QED
    BY <1>1, <1>6, <1>7, <1>9, <1>13, <2>1, <2>2 DEF Grows
<1>16. Rotation(s)'
  BY <1>1, <1>3, <1>4, <1>5 DEF Rotation, OverlapOpen
<1>17. Handling(s)'
  <2>1. keys'[minted + 1].device = w.device
    BY <1>4, <1>7 DEF d
  <2>2. w.device \in Devices
    BY <1>4
  <2>3. ended'[w.device] # None => ended'[w.device].upto < minted'
    <3>1. ended[w.device] # None => ended[w.device].upto \in Nat
      BY <2>2, ShapeFacts DEF IInv, Ending
    <3>2. ended[w.device] # None => ended[w.device].upto <= minted
      BY <2>2 DEF IInv, Rows, Row
    <3> QED
      BY <1>1, <1>6, <3>1, <3>2
  <2>4. agent' = agent /\ minted' = minted + 1
    BY <1>1
  <2> QED
    BY <1>1, <1>3, <1>4, <1>5, <1>16, <2>1, <2>3, <2>4 DEF Handling
<1> QED
  BY <1>1, <1>2, <1>5, <1>8, <1>11, <1>12, <1>14, <1>15, <1>17, HandlerFrame

LEMMA RotateCommitKeeps == ASSUME ~Concurrent, IInv, NEW s \in Slots, RotateCommit(s) PROVE IInv'
<1>1. /\ req[s] # None /\ req[s].stage = "minted" /\ Stage(s, "minted")
      /\ UNCHANGED <<now, items, minted, codes, issued, op, job, agent, lost, crashed, ended>>
  BY DEF RotateCommit, At, Stage, bounds
<1>2. Mid(s) /\ op = None /\ job = None /\ \A t \in Slots \ {s} : ~Stage(t, "minted")
  <2>1. Mid(s)
    BY <1>1 DEF Mid
  <2> QED
    BY <2>1, AloneFacts DEF Stage, Mid
<1>3. /\ Handling(s) /\ Rotation(s) /\ req[s].seen \in [device : Devices, key : Keys, new : Keys]
      /\ req[s].kind = "rotate" /\ req[s].mac \in Macs
  BY <1>1, CallerFacts DEF IInv, Calls, Handling
<1>4. PICK d \in Devices, old \in Keys, m \in Macs :
        d = req[s].seen.device /\ old = req[s].seen.key /\ m = req[s].mac
  BY <1>3
<1> DEFINE a == [Answer("ok") EXCEPT !.key = minted, !.device = d]
<1>5. /\ minted \in Keys /\ req[s].seen.new = minted
      /\ old = dev[d].key /\ ~OverlapOpen(d) /\ d = agent[m].cred.device
      /\ keys[minted] # None => keys[minted].device = d
      /\ ended[d] # None => ended[d].upto < minted
  BY <1>1, <1>3, <1>4 DEF Handling, Rotation
<1>6. /\ keys' = IF keys[old] = None THEN keys ELSE [keys EXCEPT ![old].expires = now + Overlap]
      /\ dev' = [dev EXCEPT ![d].key = minted, ![d].prev = old, ![d].until = now + Overlap]
      /\ Reply(s, a)
  BY <1>4, <1>5 DEF RotateCommit
<1>7. /\ dev \in [Devices -> DevRow] /\ dev[d] \in DevRow /\ keys \in [Keys -> KeyRow \cup {None}]
      /\ minted \in Nat /\ now \in Nat /\ now + Overlap \in Nat
  BY CredentialsAssumption, ShapeFacts DEF IInv, Shape
<1>8. /\ a \in Answers /\ a.answer = "ok" /\ a.key = minted /\ a.device = d
  BY <1>5, AnswerIsAnswer DEF Answers, KeyOrNone
<1> HIDE DEF a
<1>9. /\ req' \in [Slots -> Request \cup {None}] /\ req'[s] # None /\ req[s] \in Request
      /\ \A t \in Slots \ {s} : req'[t] = req[t]
      /\ req'[s].mac = req[s].mac /\ req'[s].kind = req[s].kind /\ req'[s].waited
      /\ req'[s].code = req[s].code /\ req'[s].key = req[s].key
      /\ req'[s].stage = "done" /\ req'[s].reply = a
  BY <1>1, <1>6, <1>8, ReplyFacts
<1>10. old # None /\ old \in RowKeys(d)
  BY <1>5, Basics DEF RowKeys
<1>11. /\ keys' \in [Keys -> KeyRow \cup {None}]
       /\ \A k \in Keys : keys[k] = None => keys'[k] = None
       /\ \A k \in Keys : keys'[k] # None => keys[k] # None
       /\ \A k \in Keys : keys[k] # None => keys'[k].on = keys[k].on /\ keys'[k].device = keys[k].device
       /\ \A k \in Keys : k # old => keys'[k] = keys[k]
       /\ keys'[old] # None => keys'[old].expires = now + Overlap
  <2>1. CASE keys[old] = None
    BY <1>6, <1>7, <2>1
  <2>2. CASE keys[old] # None
    <3> DEFINE r == [keys[old] EXCEPT !.expires = now + Overlap]
    <3>1. keys[old] \in KeyRow /\ keys' = [keys EXCEPT ![old] = r]
      BY <1>6, <1>7, <2>2
    <3>2. r \in KeyRow /\ r.on = keys[old].on /\ r.device = keys[old].device /\ r.expires = now + Overlap
      BY <1>7, <3>1 DEF KeyRow
    <3>3. r # None
      BY <3>2, Basics
    <3> HIDE DEF r
    <3> QED
      BY <1>7, <2>2, <3>1, <3>2, <3>3
  <2> QED
    BY <2>1, <2>2
<1>12. /\ dev' \in [Devices -> DevRow]
       /\ \A e \in Devices \ {d} : dev'[e] = dev[e]
       /\ dev'[d].status = dev[d].status /\ dev'[d].mac = dev[d].mac
       /\ dev'[d].key = minted /\ dev'[d].prev = old /\ dev'[d].until = now + Overlap
  <2> DEFINE row == [dev[d] EXCEPT !.key = minted, !.prev = old, !.until = now + Overlap]
  <2>1. dev' = [dev EXCEPT ![d] = row]
    BY <1>6, <1>7
  <2>2. /\ row \in DevRow /\ row.status = dev[d].status /\ row.mac = dev[d].mac
        /\ row.key = minted /\ row.prev = old /\ row.until = now + Overlap
    BY <1>5, <1>7 DEF DevRow, KeyOrNone
  <2> HIDE DEF row
  <2> QED
    BY <1>7, <2>1, <2>2
<1>13. Shape'
  BY <1>1, <1>9, <1>11, <1>12 DEF IInv, Shape
<1>14. /\ \A e \in Devices : Retired(e)' = Retired(e)
       /\ \A e \in Devices \ {d} : RowKeys(e)' = RowKeys(e)
       /\ RowKeys(d)' = {minted, old}
  BY <1>1, <1>5, <1>10, <1>12, Basics DEF RowKeys, Retired
<1>15. /\ old <= minted /\ (keys[old] # None => keys[old].device = d)
       /\ \A e \in Devices : RowKeys(e) \subseteq Keys
       /\ \A e \in Devices \ {d} : old \notin RowKeys(e) \/ keys[old] = None
  <2>1. old <= minted /\ (keys[old] # None => keys[old].device = d)
    BY <1>10 DEF IInv, Rows, Row
  <2>2. \A e \in Devices : RowKeys(e) \subseteq Keys
    BY ShapeFacts DEF IInv
  <2>3. \A e \in Devices \ {d} : old \notin RowKeys(e) \/ keys[old] = None
    BY <2>1 DEF IInv, Rows, Row
  <2> QED
    BY <2>1, <2>2, <2>3
<1>16. Rows'
  <2> SUFFICES ASSUME NEW e \in Devices PROVE Row(e)'
    BY DEF Rows
  <2>1. CASE e # d
    <3>1. \A k \in RowKeys(e) : k \in Keys /\ (keys'[k] = keys[k] \/ (keys[k] = None /\ keys'[k] = None))
      <4> SUFFICES ASSUME NEW k \in RowKeys(e)
                   PROVE  k \in Keys /\ (keys'[k] = keys[k] \/ (keys[k] = None /\ keys'[k] = None))
        OBVIOUS
      <4>1. k \in Keys
        BY <1>15
      <4>2. k = old => keys[k] = None
        BY <1>15, <2>1
      <4>3. k # old => keys'[k] = keys[k]
        BY <1>11, <4>1
      <4>4. keys[k] = None => keys'[k] = None
        BY <1>11, <4>1
      <4> QED
        BY <4>1, <4>2, <4>3, <4>4
    <3>2. /\ dev'[e] = dev[e] /\ RowKeys(e)' = RowKeys(e) /\ Retired(e)' = Retired(e)
          /\ minted' = minted /\ ended' = ended
      BY <1>1, <1>12, <1>14, <2>1
    <3>3. /\ Row(e) /\ \A k \in RowKeys(e) : k <= minted
          /\ ended[e] # None => ended[e].upto <= minted
      BY DEF IInv, Rows, Row
    <3> QED
      BY <3>1, <3>2, <3>3, RowStays
  <2>2. CASE e = d
    <3>1. dev[d].status \notin {"absent", "pending"}
      BY <1>10 DEF IInv, Rows, Row
    <3>2. \A k \in RowKeys(d)' : k <= minted /\ (keys'[k] # None => keys'[k].device = d)
      <4>1. minted <= minted /\ (keys'[minted] # None => keys'[minted].device = d)
        BY <1>5, <1>7, <1>11
      <4>2. old <= minted /\ (keys'[old] # None => keys'[old].device = d)
        BY <1>11, <1>15
      <4> QED
        BY <1>14, <4>1, <4>2
    <3>3. keys'[old] # None => keys'[old].expires # None /\ keys'[old].expires <= now + Overlap
      BY <1>7, <1>11, Basics
    <3>4. ended[d] # None => ended[d].upto <= minted
      BY DEF IInv, Rows, Row
    <3>5. ended[d] # None => ended[d].upto \in Nat /\ ended[d].upto < minted
      BY <1>5, ShapeFacts DEF IInv, Ending
    <3>6. ended[d] # None /\ ended[d].what = "revoked" =>
            \A k \in RowKeys(d)' : k <= ended[d].upto /\ keys'[k] # None => ~keys'[k].on
      <4>1. ended[d] # None => ~(minted <= ended[d].upto)
        BY <1>7, <3>5
      <4>2. ended[d] # None /\ ended[d].what = "revoked" =>
              (old <= ended[d].upto /\ keys[old] # None => ~keys[old].on)
        BY <1>10 DEF IInv, Rows, Row
      <4> QED
        BY <1>11, <1>14, <4>1, <4>2
    <3>7. dev[d].status = "decommissioned" => Retired(d)
      BY DEF IInv, Rows, Row
    <3> QED
      BY <1>1, <1>12, <1>14, <2>2, <3>1, <3>2, <3>3, <3>4, <3>6, <3>7 DEF Row
  <2> QED
    BY <2>1, <2>2
<1>17. Invites'
  <2>1. \A c \in Codes : codes[c] # None => codes[c].device \in Devices
    BY ShapeFacts DEF IInv, Enrollment
  <2>2. \A e \in Devices : dev'[e].status = dev[e].status /\ dev'[e].mac = dev[e].mac
    BY <1>12
  <2> QED
    BY <1>1, <2>1, <2>2 DEF IInv, Invites
<1>18. Placed'
  <2> SUFFICES ASSUME NEW k \in Keys, keys'[k] # None, keys'[k].on
               PROVE  \/ k \in RowKeys(keys[k].device)'
                      \/ keys'[k].expires # None /\ keys'[k].expires <= now'
    BY DEF Placed
  <2>1. /\ keys[k] # None /\ keys[k].on /\ keys'[k].device = keys[k].device
        /\ keys[k].device \in Devices
    BY <1>11, ShapeFacts DEF IInv, KeyRow
  <2>2. CASE k = old
    <3>1. keys'[k].device = d
      BY <1>15, <2>1, <2>2
    <3> QED
      BY <1>10, <1>12, <2>2, <3>1 DEF RowKeys
  <2>3. CASE k # old
    <3>1. keys'[k] = keys[k]
      BY <1>11, <2>3
    <3>2. CASE k \in RowKeys(keys[k].device)
      <4>1. CASE keys[k].device # d
        <5>1. dev'[keys[k].device] = dev[keys[k].device]
          BY <1>12, <2>1, <4>1
        <5> QED
          BY <2>1, <3>2, <5>1 DEF RowKeys
      <4>2. CASE keys[k].device = d
        <5>1. k = dev[d].prev /\ dev[d].prev # None
          BY <1>5, <2>3, <3>2, <4>2 DEF RowKeys
        <5>2. ~(now < dev[d].until)
          BY <1>5, <5>1 DEF OverlapOpen
        <5>3. keys[k].expires # None /\ keys[k].expires <= dev[d].until
          BY <2>1, <5>1 DEF IInv, Rows, Row
        <5>4. keys[k] \in KeyRow
          BY <2>1, ShapeFacts DEF IInv
        <5>5. keys[k].expires \in Nat /\ dev[d].until \in Nat
          BY <1>7, <5>3, <5>4 DEF KeyRow, DevRow
        <5>6. keys[k].expires <= now
          BY <1>7, <5>2, <5>3, <5>5
        <5> QED
          BY <1>1, <3>1, <5>3, <5>6
      <4> QED
        BY <4>1, <4>2
    <3>3. CASE keys[k].expires # None /\ keys[k].expires <= now
      BY <1>1, <3>1, <3>3
    <3>4. CASE \E t \in Slots : Stage(t, "minted") /\ req[t].seen.new = k
      <4>1. k = minted /\ keys'[k].device = d
        BY <1>2, <1>5, <2>1, <3>4
      <4> QED
        BY <1>12, <4>1, Basics DEF RowKeys
    <3> QED
      BY <2>1, <3>2, <3>3, <3>4 DEF IInv, Placed
  <2> QED
    BY <2>2, <2>3
<1>19. Handed' = minted /\ Handed = minted - 1
  <2>1. \A t \in Slots : ~Stage(t, "minted")'
    BY <1>2, <1>9 DEF Stage
  <2> QED
    BY <1>1, <2>1 DEF Handed
<1>20. Grows
  <2>1. Handed <= Handed'
    BY <1>7, <1>19
  <2>2. \A e \in Devices : dev[e].mac # None => dev'[e].mac = dev[e].mac
    BY <1>12
  <2> QED
    BY <1>11, <1>14, <2>1, <2>2 DEF Grows
<1>21. Given(minted, m, d)'
  <2>1. keys'[minted] # None => keys'[minted].device = d
    BY <1>5, <1>11
  <2>2. dev[d].mac = m
    <3>1. agent[m].cred # None
      BY <1>1, <1>3, <1>4, CallerFacts
    <3>2. Serving(m)
      BY DEF IInv, Calls
    <3> QED
      BY <1>5, <3>1, <3>2 DEF Serving, Given
  <2>3. dev'[d].mac = m
    BY <1>12, <2>2
  <2> QED
    BY <1>1, <1>5, <1>7, <1>19, <2>1, <2>3 DEF Given
<1>22. Handling(s)'
  <2>1. agent' = agent /\ minted' = minted
    BY <1>1
  <2>2. Given(req[s].reply.key, req[s].mac, req[s].reply.device)'
    BY <1>4, <1>8, <1>9, <1>21, <2>1
  <2> QED
    BY <1>3, <1>4, <1>5, <1>8, <1>9, <2>1, <2>2 DEF Handling
<1> QED
  BY <1>1, <1>2, <1>9, <1>13, <1>16, <1>17, <1>18, <1>20, <1>22, HandlerFrame

\* A new credential for a device whose current key, if any, is deleted first.
LEMMA IssueKeeps ==
  ASSUME ~Concurrent, IInv, NEW s \in Slots, req[s] # None, MayStart \/ Mid(s), ~Stage(s, "minted"),
         req[s].kind = "enrol", NEW d \in Devices, NEW ks \in [Keys -> KeyRow \cup {None}],
         \A k \in Keys : ks[k] = keys[k] \/ ks[k] = None,
         dev[d].key # None => ks[dev[d].key] = None,
         Issue(s, d, ks), dev[d].mac \in {None, req[s].mac},
         \A e \in Devices \ {d} : \A k \in RowKeys(e) : ks[k] = keys[k],
         UNCHANGED <<now, items, issued, op, job, agent, bounds, ended>>,
         codes' \in [Codes -> Enrollment \cup {None}], Invites'
  PROVE  IInv'
<1>1. PICK m \in Macs : m = req[s].mac /\ m # None
  BY ShapeFacts, Basics DEF IInv, Request
<1> DEFINE a == [Answer("ok") EXCEPT !.key = minted + 1, !.device = d]
<1>2. /\ minted + 1 \in Keys /\ keys' = Mint(d, ks) /\ minted' = minted + 1
      /\ dev' = [dev EXCEPT ![d].status = "enrolled", ![d].mac = m, ![d].key = minted + 1]
      /\ Reply(s, a)
      /\ UNCHANGED <<now, items, issued, op, job, agent, lost, crashed, ended>>
  BY <1>1 DEF Issue, bounds
<1>3. a \in Answers /\ a.answer = "ok" /\ a.key = minted + 1 /\ a.device = d
  BY <1>2, AnswerIsAnswer DEF Answers, KeyOrNone
<1> HIDE DEF a
<1>4. /\ req' \in [Slots -> Request \cup {None}] /\ req'[s] # None /\ req[s] \in Request
      /\ \A t \in Slots \ {s} : req'[t] = req[t]
      /\ req'[s].mac = req[s].mac /\ req'[s].kind = req[s].kind /\ req'[s].waited
      /\ req'[s].code = req[s].code /\ req'[s].key = req[s].key
      /\ req'[s].stage = "done" /\ req'[s].reply = a
  BY <1>2, <1>3, ReplyFacts
<1>5. /\ dev \in [Devices -> DevRow] /\ dev[d] \in DevRow /\ keys \in [Keys -> KeyRow \cup {None}]
      /\ minted \in Nat
  BY ShapeFacts DEF IInv, Shape
<1>6. PICK new \in Keys : new = minted + 1 /\ new # None
  BY <1>2, Basics
<1>7. /\ keys' \in [Keys -> KeyRow \cup {None}]
      /\ \A k \in Keys : k # new => keys'[k] = ks[k]
      /\ keys'[new] # None /\ keys'[new].device = d
  BY <1>2, <1>6, MintFacts
<1>8. /\ dev' \in [Devices -> DevRow]
      /\ \A e \in Devices \ {d} : dev'[e] = dev[e]
      /\ dev'[d].status = "enrolled" /\ dev'[d].mac = m /\ dev'[d].key = new
      /\ dev'[d].prev = dev[d].prev /\ dev'[d].until = dev[d].until
  <2> DEFINE row == [dev[d] EXCEPT !.status = "enrolled", !.mac = m, !.key = new]
  <2>1. dev' = [dev EXCEPT ![d] = row]
    BY <1>2, <1>5, <1>6
  <2>2. /\ row \in DevRow /\ row.status = "enrolled" /\ row.mac = m /\ row.key = new
        /\ row.prev = dev[d].prev /\ row.until = dev[d].until
    BY <1>5 DEF DevRow, KeyOrNone, Statuses, Live
  <2> HIDE DEF row
  <2> QED
    BY <1>5, <2>1, <2>2
<1>9. Shape'
  BY <1>2, <1>4, <1>7, <1>8 DEF IInv, Shape
<1>10. /\ \A e \in Devices : Retired(e)' = Retired(e)
       /\ \A e \in Devices \ {d} : RowKeys(e)' = RowKeys(e)
       /\ RowKeys(d)' = {new, dev[d].prev} \ {None} /\ new \in RowKeys(d)'
  BY <1>2, <1>6, <1>8 DEF RowKeys, Retired
<1>11. \A e \in Devices : \A k \in RowKeys(e) : k \in Keys /\ k <= minted /\ k # new
  <2>1. \A e \in Devices : \A k \in RowKeys(e) : k <= minted
    BY DEF IInv, Rows, Row
  <2>2. \A e \in Devices : RowKeys(e) \subseteq Keys
    BY ShapeFacts DEF IInv
  <2>3. \A k \in Keys : k <= minted => k # new
    BY <1>5, <1>6, Basics
  <2> QED
    BY <2>1, <2>2, <2>3
<1>12. Rows'
  <2> SUFFICES ASSUME NEW e \in Devices PROVE Row(e)'
    BY DEF Rows
  <2>1. dev[e].prev # None => dev[e].prev \in RowKeys(e)
    BY DEF RowKeys
  <2>2. ended[e] # None => ended[e].upto \in Nat /\ ended[e].upto <= minted /\ ended[e].upto <= minted'
    <3>1. ended[e] # None => ended[e].upto \in Nat
      BY ShapeFacts DEF IInv, Ending
    <3>2. ended[e] # None => ended[e].upto <= minted
      BY DEF IInv, Rows, Row
    <3> QED
      BY <1>2, <1>5, <3>1, <3>2
  <2>3. \A k \in RowKeys(e) : k <= minted' /\ k \in Keys /\ (keys'[k] = keys[k] \/ keys'[k] = None)
    BY <1>2, <1>5, <1>7, <1>11, Basics
  <2>4. CASE e # d
    <3>1. dev'[e] = dev[e] /\ RowKeys(e)' = RowKeys(e) /\ Retired(e)' = Retired(e) /\ ended' = ended
      BY <1>2, <1>8, <1>10, <2>4
    <3>2. \A k \in RowKeys(e) : keys'[k] # None => keys'[k] = keys[k]
      BY <2>3
    <3>3. Row(e)
      BY DEF IInv, Rows
    <3> QED
      BY <2>2, <2>3, <3>1, <3>2, <3>3, RowStays
  <2>5. CASE e = d
    <3>1. dev'[e].status \notin {"absent", "pending", "decommissioned"}
      BY <1>8, <2>5
    <3>2. \A k \in RowKeys(e)' : k = new \/ k \in RowKeys(e)
      BY <1>10, <2>1, <2>5
    <3>3. \A k \in RowKeys(e)' : k <= minted' /\ (keys'[k] # None => keys'[k].device = e)
      <4>1. new <= minted' /\ keys'[new].device = e
        BY <1>2, <1>5, <1>6, <1>7, <2>5
      <4>2. \A k \in RowKeys(e) : keys'[k] # None => keys'[k].device = e
        BY <2>3 DEF IInv, Rows, Row
      <4> QED
        BY <2>3, <3>2, <4>1, <4>2
    <3>4. dev[e].prev # None /\ keys'[dev[e].prev] # None /\ keys'[dev[e].prev].on =>
            keys'[dev[e].prev].expires # None /\ keys'[dev[e].prev].expires <= dev[e].until
      BY <2>1, <2>3 DEF IInv, Rows, Row
    <3>5. ended[e] # None => ~(new <= ended[e].upto)
      BY <1>5, <1>6, <2>2
    <3>6. ended[e] # None /\ ended[e].what = "revoked" =>
            \A k \in RowKeys(e)' : k <= ended[e].upto /\ keys'[k] # None => ~keys'[k].on
      BY <2>3, <3>2, <3>5 DEF IInv, Rows, Row
    <3> QED
      BY <1>2, <1>8, <2>2, <2>5, <3>1, <3>3, <3>4, <3>6 DEF Row
  <2> QED
    BY <2>4, <2>5
<1>13. /\ \A t \in Slots : ~Stage(t, "minted") /\ ~Stage(t, "minted")'
       /\ Handed = minted
  BY <1>4, NobodyMints DEF Stage
<1>14. Placed'
  <2> SUFFICES ASSUME NEW k \in Keys, keys'[k] # None, keys'[k].on
               PROVE  \/ k \in RowKeys(keys[k].device)'
                      \/ keys'[k].expires # None /\ keys'[k].expires <= now'
    BY DEF Placed
  <2>1. CASE k = new
    BY <1>7, <1>8, <1>6, <2>1 DEF RowKeys
  <2>2. CASE k # new
    <3>1. keys'[k] = keys[k] /\ keys[k] # None /\ keys[k].on /\ keys[k].device \in Devices
      BY <1>7, <2>2, ShapeFacts DEF IInv, KeyRow
    <3>2. k \in RowKeys(keys[k].device) \/ (keys[k].expires # None /\ keys[k].expires <= now)
      BY <1>13, <3>1 DEF IInv, Placed
    <3>3. CASE k \in RowKeys(keys[k].device) /\ keys[k].device # d
      <4>1. dev'[keys[k].device] = dev[keys[k].device]
        BY <1>8, <3>1, <3>3
      <4> QED
        BY <3>1, <3>3, <4>1 DEF RowKeys
    <3>4. CASE k \in RowKeys(keys[k].device) /\ keys[k].device = d
      <4>1. k # dev[d].key
        BY <1>7, <2>2, Basics
      <4>2. k = dev[d].prev /\ k # None
        BY <3>4, <4>1 DEF RowKeys
      <4> QED
        BY <1>8, <3>1, <3>4, <4>2 DEF RowKeys
    <3> QED
      BY <1>2, <3>1, <3>2, <3>3, <3>4
  <2> QED
    BY <2>1, <2>2
<1>15. Grows
  <2>1. Handed' = minted + 1
    BY <1>2, <1>13 DEF Handed
  <2>2. Handed <= Handed'
    BY <1>5, <1>13, <2>1
  <2>3. \A e \in Devices : dev[e].mac # None => dev'[e].mac = dev[e].mac
    BY <1>1, <1>8
  <2>4. \A k \in Keys : k <= minted => k # new
    BY <1>5, <1>6, Basics
  <2>5. \A k \in Keys : k <= minted /\ keys'[k] # None => keys'[k] = keys[k]
    BY <1>7, <2>4
  <2> QED
    BY <1>10, <2>2, <2>3, <2>5 DEF Grows
<1>16. Given(new, m, d)'
  <2>1. new <= Handed'
    BY <1>2, <1>5, <1>6, <1>13 DEF Handed
  <2> QED
    BY <1>7, <1>8, <2>1 DEF Given
<1>17. Handling(s)'
  <2>1. Handling(s) /\ agent' = agent
    BY <1>2 DEF IInv, Calls
  <2>2. Given(req[s].reply.key, req[s].mac, req[s].reply.device)'
    BY <1>1, <1>3, <1>4, <1>6, <1>16
  <2> QED
    BY <1>3, <1>4, <2>1, <2>2 DEF Handling
<1> QED
  BY <1>2, <1>4, <1>9, <1>12, <1>14, <1>15, <1>17, HandlerFrame

LEMMA EnrolCommitKeeps == ASSUME ~Concurrent, IInv, NEW s \in Slots, EnrolCommit(s) PROVE IInv'
<1>1. /\ req[s] # None /\ req[s].stage = "claimed" /\ req[s].kind = "enrol"
      /\ codes' = [codes EXCEPT ![req[s].code].by = req[s].mac]
      /\ Issue(s, codes[req[s].code].device, keys)
      /\ UNCHANGED <<now, items, issued, op, job, agent, bounds, ended>>
  BY DEF EnrolCommit, At, Stage
<1>2. Mid(s) /\ ~Stage(s, "minted")
  BY <1>1 DEF Mid, Stage
<1>3. Handling(s) /\ req[s] \in Request
  BY <1>1, ShapeFacts DEF IInv, Calls
<1>4. PICK c \in Codes, m \in Macs : c = req[s].code /\ m = req[s].mac /\ m # None
  BY <1>1, <1>3, Basics DEF Handling, Request
<1>5. codes[c] # None /\ codes[c].by = None /\ codes[c] \in Enrollment
  BY <1>1, <1>3, <1>4, ShapeFacts DEF Handling, IInv
<1>6. PICK d \in Devices : d = codes[c].device
  BY <1>5 DEF Enrollment
<1>7. dev[d].status = "pending" /\ dev[d].mac = None /\ RowKeys(d) = {}
  <2>1. dev[d].status = "pending"
    BY <1>5, <1>6 DEF IInv, Invites
  <2> QED
    BY <2>1 DEF IInv, Rows, Row
<1>8. codes \in [Codes -> Enrollment \cup {None}] /\ keys \in [Keys -> KeyRow \cup {None}] /\ dev \in [Devices -> DevRow]
  BY DEF IInv, Shape
<1>9. /\ codes' \in [Codes -> Enrollment \cup {None}]
      /\ codes'[c] # None /\ codes'[c].by = m /\ codes'[c].device = d
      /\ \A e \in Codes \ {c} : codes'[e] = codes[e]
  <2> DEFINE r == [codes[c] EXCEPT !.by = m]
  <2>1. r \in Enrollment /\ r.by = m /\ r.device = d
    BY <1>5, <1>6 DEF Enrollment
  <2>2. codes' = [codes EXCEPT ![c] = r] /\ r # None
    BY <1>1, <1>4, <1>8, <2>1, Basics
  <2> HIDE DEF r
  <2> QED
    BY <1>8, <2>1, <2>2
<1>10. \A e \in Devices \ {d} : dev'[e] = dev[e]
  BY <1>1, <1>4, <1>6, <1>8 DEF Issue
<1>11. dev'[d].mac = m
  BY <1>1, <1>4, <1>6, <1>8 DEF Issue, DevRow
<1>12. Invites'
  <2> SUFFICES ASSUME NEW e \in Codes, codes'[e] # None
               PROVE  /\ codes'[e].by = None =>
                           /\ dev'[codes'[e].device].status = "pending"
                           /\ \A f \in Codes : codes'[f] # None /\ codes'[f].by = None /\ codes'[f].device = codes'[e].device
                                                 => f = e
                      /\ codes'[e].by # None => dev'[codes'[e].device].mac = codes'[e].by
    BY DEF Invites
  <2>1. CASE e = c
    BY <1>4, <1>9, <1>11, <2>1
  <2>2. CASE e # c
    <3>1. codes'[e] = codes[e] /\ codes[e] # None /\ codes[e].device \in Devices
      BY <1>9, <2>2, ShapeFacts DEF IInv, Enrollment
    <3>2. codes[e].device # d
      <4>1. CASE codes[e].by = None
        BY <1>5, <1>6, <2>2, <3>1, <4>1 DEF IInv, Invites
      <4>2. CASE codes[e].by # None
        BY <1>7, <3>1, <4>2 DEF IInv, Invites
      <4> QED
        BY <4>1, <4>2
    <3>3. dev'[codes[e].device] = dev[codes[e].device]
      BY <1>10, <3>1, <3>2
    <3>4. \A f \in Codes : codes'[f] # None /\ codes'[f].by = None => codes'[f] = codes[f]
      BY <1>4, <1>9
    <3> QED
      BY <3>1, <3>3, <3>4 DEF IInv, Invites
  <2> QED
    BY <2>1, <2>2
<1>13. dev[d].key = None
  BY <1>7 DEF RowKeys
<1>14. Issue(s, d, keys) /\ dev[d].mac \in {None, req[s].mac}
  BY <1>1, <1>4, <1>6, <1>7
<1> QED
  BY <1>1, <1>2, <1>8, <1>9, <1>12, <1>13, <1>14, IssueKeeps

LEMMA EnrolReissueKeeps == ASSUME ~Concurrent, IInv, NEW s \in Slots, EnrolReissue(s) PROVE IInv'
<1>1. /\ req[s] # None /\ req[s].stage = "reissuing" /\ req[s].kind = "enrol"
      /\ UNCHANGED <<now, items, codes, issued, op, job, agent, bounds, ended>>
  BY DEF EnrolReissue, At, Stage
<1>2. Mid(s) /\ ~Stage(s, "minted")
  BY <1>1 DEF Mid, Stage
<1>3. Handling(s) /\ req[s] \in Request
  BY <1>1, ShapeFacts DEF IInv, Calls
<1>4. PICK c \in Codes, m \in Macs, old \in Keys : c = req[s].code /\ m = req[s].mac /\ m # None /\ old = req[s].seen
  BY <1>1, <1>3, Basics DEF Handling, Request
<1>5. codes[c] # None /\ codes[c].by = m /\ codes[c] \in Enrollment
  BY <1>1, <1>3, <1>4, ShapeFacts DEF Handling, IInv
<1>6. PICK d \in Devices : d = codes[c].device
  BY <1>5 DEF Enrollment
<1>7. old = dev[d].key /\ dev[d].mac = m /\ old \in RowKeys(d)
  <2>1. old = dev[d].key
    BY <1>1, <1>3, <1>4, <1>6 DEF Handling
  <2>2. dev[d].mac = m
    BY <1>4, <1>5, <1>6 DEF IInv, Invites
  <2> QED
    BY <2>1, <2>2, Basics DEF RowKeys
<1>8. dev[d].status # "pending"
  BY <1>7 DEF IInv, Rows, Row
<1>9. codes \in [Codes -> Enrollment \cup {None}] /\ keys \in [Keys -> KeyRow \cup {None}] /\ dev \in [Devices -> DevRow]
  BY DEF IInv, Shape
<1>10. CASE Reply(s, Answer("rejected")) /\ UNCHANGED <<dev, keys, minted>>
  <2>1. Fade /\ keys' \in [Keys -> KeyRow \cup {None}] /\ Invites' /\ codes' \in [Codes -> Enrollment \cup {None}]
    BY <1>1, <1>10, SameKeys, SameCodes DEF IInv
  <2> QED
    BY <1>1, <1>2, <1>10, <2>1, AnswerStep, AnswerIsAnswer
<1>11. CASE Issue(s, d, [keys EXCEPT ![old] = None])
  <2> DEFINE ks == [keys EXCEPT ![old] = None]
  <2>1. /\ ks \in [Keys -> KeyRow \cup {None}] /\ ks[old] = None
        /\ \A k \in Keys : ks[k] = keys[k] \/ ks[k] = None
        /\ \A k \in Keys : k # old => ks[k] = keys[k]
    BY <1>9
  <2>2. Issue(s, d, ks)
    BY <1>11
  <2>3. \A e \in Devices \ {d} : \A k \in RowKeys(e) : ks[k] = keys[k]
    <3> SUFFICES ASSUME NEW e \in Devices, e # d, NEW k \in RowKeys(e)
                 PROVE  ks[k] = keys[k]
      OBVIOUS
    <3>1. k \in Keys
      BY ShapeFacts DEF IInv
    <3>2. k = old => keys[k] = None
      BY <1>7 DEF IInv, Rows, Row
    <3> QED
      BY <1>9, <2>1, <3>1, <3>2
  <2> HIDE DEF ks
  <2>4. Invites'
    <3>1. \A e \in Devices \ {d} : dev'[e] = dev[e]
      BY <1>9, <2>2 DEF Issue
    <3>2. dev'[d].mac = m
      BY <1>4, <1>9, <2>2 DEF Issue, DevRow
    <3>3. \A e \in Codes : codes[e] # None => codes[e].device \in Devices
      BY ShapeFacts DEF IInv, Enrollment
    <3>4. \A e \in Codes : codes[e] # None /\ codes[e].by = None => codes[e].device # d
      BY <1>8 DEF IInv, Invites
    <3>5. \A e \in Codes : codes[e] # None => dev'[codes[e].device].mac = dev[codes[e].device].mac
      BY <1>7, <3>1, <3>2, <3>3
    <3>6. \A e \in Codes : codes[e] # None /\ codes[e].by = None => dev'[codes[e].device] = dev[codes[e].device]
      BY <3>1, <3>3, <3>4
    <3> QED
      BY <1>1, <3>5, <3>6 DEF IInv, Invites
  <2>5. dev[d].mac \in {None, req[s].mac} /\ (dev[d].key # None => ks[dev[d].key] = None)
    BY <1>4, <1>7, <2>1
  <2>6. codes' \in [Codes -> Enrollment \cup {None}]
    BY <1>1, <1>9
  <2> QED
    BY <1>1, <1>2, <2>1, <2>2, <2>3, <2>4, <2>5, <2>6, IssueKeeps
<1> QED
  BY <1>4, <1>6, <1>10, <1>11 DEF EnrolReissue

-----------------------------------------------------------------------------
(* The steps of the parent, of the nightly job and of the clock. *)

\* Nobody is half-way in a call when the parent's click is handled, or the job runs.
LEMMA Idle ==
  ASSUME ~Concurrent, IInv, MayStart \/ op # None \/ job # None
  PROVE  \A s \in Slots : ~Mid(s) /\ ~Stage(s, "minted")
<1>1. \A s \in Slots : ~Mid(s)
  BY DEF IInv, Alone, MayStart
<1> QED
  BY <1>1 DEF Mid, Stage

LEMMA NewCodeFacts ==
  ASSUME Shape, NEW d \in Devices
  PROVE  NewCode(d) \in Enrollment /\ NewCode(d) # None /\ NewCode(d).device = d /\ NewCode(d).by = None
<1>1. now + Ttl \in Nat
  BY ShapeFacts, CredentialsAssumption
<1>2. NewCode(d) \in Enrollment /\ NewCode(d).device = d /\ NewCode(d).by = None
  BY <1>1 DEF NewCode, Enrollment
<1> QED
  BY <1>2, Basics

\* A click changes neither keys nor rows' keys.
LEMMA RowsStay ==
  ASSUME IInv, UNCHANGED <<now, keys, minted, req, ended>>,
         \A e \in Devices : /\ dev'[e].mac = dev[e].mac /\ dev'[e].key = dev[e].key
                            /\ dev'[e].prev = dev[e].prev /\ dev'[e].until = dev[e].until
                            /\ dev'[e].status # dev[e].status =>
                                 dev[e].status = "absent" /\ dev'[e].status = "pending"
  PROVE  Rows' /\ Placed' /\ Grows
<1>1. \A e \in Devices : RowKeys(e)' = RowKeys(e) /\ Retired(e)' = Retired(e)
  BY DEF RowKeys, Retired
<1>2. Rows'
  BY <1>1 DEF IInv, Rows, Row
<1>3. \A k \in Keys : keys[k] # None => keys[k].device \in Devices
  BY ShapeFacts DEF IInv, KeyRow
<1>4. \A s \in Slots : Stage(s, "minted")' = Stage(s, "minted")
  BY DEF Stage
<1>5. Placed'
  BY <1>1, <1>3, <1>4 DEF IInv, Placed
<1>6. Handed' = Handed /\ Handed \in Int
  BY <1>4, ShapeFacts DEF IInv, Handed
<1> QED
  BY <1>1, <1>2, <1>5, <1>6 DEF Grows

LEMMA CreateDeviceKeeps == ASSUME ~Concurrent, IInv, NEW d \in Devices, CreateDevice(d) PROVE IInv'
<1>1. /\ MayStart /\ dev[d].status = "absent" /\ issued + 1 \in Codes
      /\ dev' = [dev EXCEPT ![d].status = "pending"]
      /\ codes' = [codes EXCEPT ![issued + 1] = NewCode(d)]
      /\ issued' = issued + 1
      /\ UNCHANGED <<now, items, keys, minted, req, op, job, agent, lost, crashed, ended>>
  BY DEF CreateDevice, bounds
<1>2. /\ dev \in [Devices -> DevRow] /\ codes \in [Codes -> Enrollment \cup {None}] /\ dev[d] \in DevRow
  BY DEF IInv, Shape
<1>3. NewCode(d) \in Enrollment /\ NewCode(d) # None /\ NewCode(d).device = d /\ NewCode(d).by = None
  BY NewCodeFacts DEF IInv
<1>4. /\ dev' \in [Devices -> DevRow] /\ \A e \in Devices \ {d} : dev'[e] = dev[e]
      /\ dev'[d].status = "pending" /\ dev'[d].mac = dev[d].mac /\ dev'[d].key = dev[d].key
      /\ dev'[d].prev = dev[d].prev /\ dev'[d].until = dev[d].until
  BY <1>1, <1>2 DEF DevRow, Statuses
<1>5. PICK new \in Codes : new = issued + 1
  BY <1>1
<1>6. /\ codes' \in [Codes -> Enrollment \cup {None}] /\ codes'[new] = NewCode(d)
      /\ \A e \in Codes \ {new} : codes'[e] = codes[e]
  BY <1>1, <1>2, <1>3, <1>5
<1>7. Shape'
  BY <1>1, <1>4, <1>6 DEF IInv, Shape
<1>8. Rows' /\ Placed' /\ Grows
  BY <1>1, <1>4, RowsStay
<1>9. \A c \in Codes : codes[c] # None => codes[c].device \in Devices /\ (codes[c].by = None => codes[c].device # d)
  BY <1>1, ShapeFacts DEF IInv, Enrollment, Invites
<1>10. Invites'
  <2> SUFFICES ASSUME NEW e \in Codes, codes'[e] # None
               PROVE  /\ codes'[e].by = None =>
                           /\ dev'[codes'[e].device].status = "pending"
                           /\ \A f \in Codes : codes'[f] # None /\ codes'[f].by = None /\ codes'[f].device = codes'[e].device
                                                 => f = e
                      /\ codes'[e].by # None => dev'[codes'[e].device].mac = codes'[e].by
    BY DEF Invites
  <2>1. CASE e = new
    BY <1>3, <1>4, <1>6, <1>9, <2>1
  <2>2. CASE e # new
    <3>1. codes'[e] = codes[e] /\ codes[e] # None /\ dev'[codes[e].device].mac = dev[codes[e].device].mac
      BY <1>4, <1>6, <1>9, <2>2
    <3>2. codes[e].by = None => dev'[codes[e].device] = dev[codes[e].device]
      BY <1>4, <1>9, <3>1
    <3>3. \A f \in Codes : codes'[f] # None /\ codes'[f].by = None /\ codes'[f].device # d => codes'[f] = codes[f]
      BY <1>3, <1>6
    <3> QED
      BY <1>9, <3>1, <3>2, <3>3 DEF IInv, Invites
  <2> QED
    BY <2>1, <2>2
<1>11. Clicks' /\ \A s \in Slots : ~Mid(s)
  BY <1>1, Idle DEF MayStart, Clicks
<1> QED
  BY <1>1, <1>7, <1>8, <1>10, <1>11, ParentFrame

LEMMA ClickKeeps ==
  ASSUME ~Concurrent, IInv, NEW d \in Devices, NEW what \in {"code", "revoked", "decommissioned"}, Click(d, what)
  PROVE  IInv'
<1>1. /\ MayStart /\ op' = [device |-> d, what |-> what, keys |-> RowKeys(d)]
      /\ what = "code" => dev[d].status = "pending" /\ issued + 1 \in Codes
      /\ UNCHANGED <<now, dev, items, keys, minted, codes, issued, req, job, agent, lost, crashed, ended>>
  BY DEF Click, server, bounds
<1>2. RowKeys(d) \in SUBSET Keys
  BY ShapeFacts DEF IInv
<1>3. op' \in Op /\ op'.device = d /\ op'.what = what /\ op'.keys = RowKeys(d)
  BY <1>1, <1>2 DEF Op
<1>4. Shape'
  BY <1>1, <1>3 DEF IInv, Shape
<1>5. Rows' /\ Placed' /\ Grows
  BY <1>1, RowsStay
<1>6. Invites'
  BY <1>1 DEF IInv, Invites
<1>7. Clicks'
  <2>1. job' = None
    BY <1>1 DEF MayStart
  <2>2. (RowKeys(op.device) \subseteq op.keys)'
    BY <1>1, <1>3 DEF RowKeys
  <2> QED
    BY <1>1, <1>3, <2>1, <2>2 DEF Clicks
<1> QED
  BY <1>1, <1>4, <1>5, <1>6, <1>7, Idle, ParentFrame

\* The unspent codes of a device are retired.
LEMMA ForgetFacts ==
  ASSUME Shape, NEW d \in Devices
  PROVE  /\ Forget(Unconsumed(d)) \in [Codes -> Enrollment \cup {None}]
         /\ \A c \in Codes : \/ Forget(Unconsumed(d))[c] = None
                             \/ /\ Forget(Unconsumed(d))[c] = codes[c] /\ codes[c] # None
                                /\ codes[c].by = None => codes[c].device # d
<1>1. codes \in [Codes -> Enrollment \cup {None}]
  BY DEF Shape
<1> QED
  BY <1>1 DEF Forget, Unconsumed

LEMMA ReissueCodeKeeps == ASSUME ~Concurrent, IInv, ReissueCode PROVE IInv'
<1>1. /\ op # None /\ op.what = "code" /\ op' = None
      /\ codes' = [Forget(Unconsumed(op.device)) EXCEPT ![issued + 1] = NewCode(op.device)]
      /\ issued' = issued + 1
      /\ UNCHANGED <<now, dev, items, keys, minted, req, job, agent, lost, crashed, ended>>
  BY DEF ReissueCode, bounds
<1>2. PICK d \in Devices : d = op.device
  BY <1>1 DEF IInv, Shape, Op
<1>3. dev[d].status = "pending" /\ issued + 1 \in Codes
  BY <1>1, <1>2 DEF IInv, Clicks
<1>4. NewCode(d) \in Enrollment /\ NewCode(d) # None /\ NewCode(d).device = d /\ NewCode(d).by = None
  BY NewCodeFacts DEF IInv
<1>5. PICK new \in Codes : new = issued + 1
  BY <1>3
<1>6. /\ codes' \in [Codes -> Enrollment \cup {None}] /\ codes'[new] = NewCode(d)
      /\ \A c \in Codes \ {new} : \/ codes'[c] = None
                                  \/ /\ codes'[c] = codes[c] /\ codes[c] # None
                                     /\ codes[c].by = None => codes[c].device # d
  <2> DEFINE f == Forget(Unconsumed(d))
  <2>1. /\ f \in [Codes -> Enrollment \cup {None}]
        /\ \A c \in Codes : \/ f[c] = None
                            \/ /\ f[c] = codes[c] /\ codes[c] # None
                               /\ codes[c].by = None => codes[c].device # d
    BY ForgetFacts DEF IInv
  <2>2. codes' = [f EXCEPT ![new] = NewCode(d)]
    BY <1>1, <1>2, <1>5
  <2> HIDE DEF f
  <2> QED
    BY <1>4, <2>1, <2>2
<1>7. Shape'
  BY <1>1, <1>3, <1>6 DEF IInv, Shape
<1>8. Rows' /\ Placed' /\ Grows
  BY <1>1, RowsStay
<1>9. Invites'
  <2> SUFFICES ASSUME NEW e \in Codes, codes'[e] # None
               PROVE  /\ codes'[e].by = None =>
                           /\ dev'[codes'[e].device].status = "pending"
                           /\ \A f \in Codes : codes'[f] # None /\ codes'[f].by = None /\ codes'[f].device = codes'[e].device
                                                 => f = e
                      /\ codes'[e].by # None => dev'[codes'[e].device].mac = codes'[e].by
    BY DEF Invites
  <2>1. CASE e = new
    BY <1>1, <1>3, <1>4, <1>6, <2>1
  <2>2. CASE e # new
    <3>1. codes'[e] = codes[e] /\ codes[e] # None /\ (codes[e].by = None => codes[e].device # d)
      BY <1>6, <2>2
    <3>2. \A f \in Codes : codes'[f] # None /\ codes'[f].device # d => codes'[f] = codes[f]
      BY <1>4, <1>6
    <3> QED
      BY <1>1, <3>1, <3>2 DEF IInv, Invites
  <2> QED
    BY <2>1, <2>2
<1>10. Clicks'
  BY <1>1 DEF IInv, Clicks
<1> QED
  BY <1>1, <1>7, <1>8, <1>9, <1>10, Idle, ParentFrame

LEMMA EndDeviceKeeps == ASSUME ~Concurrent, IInv, EndDevice PROVE IInv'
<1>1. PICK d \in Devices : d = op.device /\ op # None
  BY DEF EndDevice, IInv, Shape, Op
<1> DEFINE kept == KeepCredential(op.what)
           old == ended[d]
           rec == [what |-> op.what, upto |-> minted,
                   ends |-> {op.what} \cup (IF old = None THEN {} ELSE old.ends)]
<1>2. /\ op.what \in {"revoked", "decommissioned"} /\ op' = None
      /\ keys' = IF kept THEN keys ELSE TurnOff(keys, op.keys)
      /\ dev' = [dev EXCEPT ![d] =
            IF kept THEN [@ EXCEPT !.status = op.what]
            ELSE [@ EXCEPT !.status = op.what, !.prev = None, !.until = 0]]
      /\ codes' = Forget(Unconsumed(d))
      /\ items' = IF op.what = "decommissioned" THEN items \ {d} ELSE items
      /\ ended' = [ended EXCEPT ![d] = rec]
      /\ UNCHANGED <<now, minted, issued, req, job, agent, lost, crashed>>
  BY <1>1 DEF EndDevice, DeadCodes, bounds, IInv, Shape
<1>3. /\ dev \in [Devices -> DevRow] /\ dev[d] \in DevRow /\ minted \in Nat
      /\ ended \in [Devices -> Ending \cup {None}] /\ (ended[d] # None => ended[d] \in Ending)
  BY ShapeFacts DEF IInv, Shape
<1>4. kept <=> op.what = "decommissioned"
  BY DEF KeepCredential
<1> HIDE DEF kept
<1>5. RowKeys(d) \subseteq op.keys
  BY <1>1 DEF IInv, Clicks
<1>6. /\ Fade /\ keys' \in [Keys -> KeyRow \cup {None}]
      /\ kept => keys' = keys
      /\ ~kept => \A k \in Keys \cap op.keys : keys'[k] # None => ~keys'[k].on
  <2>1. CASE kept
    BY <1>2, <2>1, SameKeys DEF IInv
  <2>2. CASE ~kept
    BY <1>2, <2>2, TurnOffFacts DEF IInv
  <2> QED
    BY <2>1, <2>2
<1>7. /\ dev' \in [Devices -> DevRow] /\ \A e \in Devices \ {d} : dev'[e] = dev[e]
      /\ dev'[d].status = op.what /\ dev'[d].mac = dev[d].mac /\ dev'[d].key = dev[d].key
      /\ kept => dev'[d].prev = dev[d].prev /\ dev'[d].until = dev[d].until
      /\ ~kept => dev'[d].prev = None
  <2>1. CASE kept
    <3> DEFINE row == [dev[d] EXCEPT !.status = op.what]
    <3>1. dev' = [dev EXCEPT ![d] = row]
      BY <1>2, <1>3, <2>1
    <3>2. /\ row \in DevRow /\ row.status = op.what /\ row.mac = dev[d].mac /\ row.key = dev[d].key
          /\ row.prev = dev[d].prev /\ row.until = dev[d].until
      BY <1>2, <1>3 DEF DevRow, Statuses
    <3> HIDE DEF row
    <3> QED
      BY <1>3, <2>1, <3>1, <3>2
  <2>2. CASE ~kept
    <3> DEFINE row == [dev[d] EXCEPT !.status = op.what, !.prev = None, !.until = 0]
    <3>1. dev' = [dev EXCEPT ![d] = row]
      BY <1>2, <1>3, <2>2
    <3>2. /\ row \in DevRow /\ row.status = op.what /\ row.mac = dev[d].mac /\ row.key = dev[d].key
          /\ row.prev = None
      BY <1>2, <1>3 DEF DevRow, Statuses, KeyOrNone
    <3> HIDE DEF row
    <3> QED
      BY <1>3, <2>2, <3>1, <3>2
  <2> QED
    BY <2>1, <2>2
<1>8. /\ rec \in Ending /\ rec.what = op.what /\ rec.upto = minted /\ op.what \in rec.ends
      /\ ended[d] # None => ended[d].ends \subseteq rec.ends
  <2>1. {op.what} \cup (IF old = None THEN {} ELSE old.ends) \in SUBSET {"revoked", "decommissioned"}
    BY <1>2, <1>3 DEF Ending
  <2> QED
    BY <1>2, <1>3, <2>1 DEF Ending
<1> HIDE DEF rec, old
<1>9. /\ ended' \in [Devices -> Ending \cup {None}] /\ ended'[d] = rec /\ rec # None
      /\ \A e \in Devices \ {d} : ended'[e] = ended[e]
  BY <1>2, <1>3, <1>8, Basics
<1>10. /\ codes' \in [Codes -> Enrollment \cup {None}]
       /\ \A c \in Codes : \/ codes'[c] = None
                           \/ /\ codes'[c] = codes[c] /\ codes[c] # None
                              /\ codes[c].by = None => codes[c].device # d
  BY <1>2, ForgetFacts DEF IInv
<1>11. items' \subseteq Devices
  BY <1>2 DEF IInv, Shape
<1>12. Shape'
  BY <1>2, <1>6, <1>7, <1>9, <1>10, <1>11 DEF IInv, Shape
<1>13. /\ \A e \in Devices \ {d} : RowKeys(e)' = RowKeys(e) /\ Retired(e)' = Retired(e)
       /\ RowKeys(d)' \subseteq RowKeys(d) /\ (kept => RowKeys(d)' = RowKeys(d))
       /\ Retired(d) => Retired(d)'
       /\ op.what = "decommissioned" => Retired(d)'
       /\ \A e \in Devices : RowKeys(e) \subseteq Keys
  <2>1. /\ \A e \in Devices \ {d} : RowKeys(e)' = RowKeys(e) /\ Retired(e)' = Retired(e)
        /\ RowKeys(d)' \subseteq RowKeys(d) /\ (kept => RowKeys(d)' = RowKeys(d))
    BY <1>7, <1>9 DEF RowKeys, Retired
  <2>2. (Retired(d) => Retired(d)') /\ (op.what = "decommissioned" => Retired(d)')
    BY <1>8, <1>9 DEF Retired
  <2>3. \A e \in Devices : RowKeys(e) \subseteq Keys
    BY ShapeFacts DEF IInv
  <2> QED
    BY <2>1, <2>2, <2>3
<1>14. Rows'
  <2> SUFFICES ASSUME NEW e \in Devices PROVE Row(e)'
    BY DEF Rows
  <2>1. \A k \in RowKeys(e) : /\ k \in Keys /\ k <= minted /\ (keys'[k] # None => keys'[k].device = e)
                              /\ keys'[k] # None => keys[k] # None /\ keys'[k].expires = keys[k].expires
                              /\ keys'[k] # None /\ keys'[k].on => keys[k].on
    BY <1>6, <1>13 DEF Fade, IInv, Rows, Row
  <2>2. dev[e].prev # None => dev[e].prev \in RowKeys(e)
    BY DEF RowKeys
  <2>3. CASE e # d
    <3>1. dev'[e] = dev[e] /\ RowKeys(e)' = RowKeys(e) /\ Retired(e)' = Retired(e) /\ ended'[e] = ended[e]
      BY <1>7, <1>9, <1>13, <2>3
    <3>2. Row(e) /\ minted' = minted /\ (ended[e] # None => ended[e].upto <= minted)
      BY <1>2 DEF IInv, Rows, Row
    <3>3. \A k \in RowKeys(e) : keys'[k] # None => keys[k] # None /\ keys'[k].device = keys[k].device
      BY <1>6, <2>1 DEF Fade
    <3> QED
      BY <2>1, <3>1, <3>2, <3>3, RowStays
  <2>4. CASE e = d
    <3>1. dev'[e].status \in {"revoked", "decommissioned"} /\ dev'[e].status = op.what
      BY <1>2, <1>7, <2>4
    <3>2. \A k \in RowKeys(e)' : k <= minted' /\ (keys'[k] # None => keys'[k].device = e)
      BY <1>2, <1>13, <2>1, <2>4
    <3>3. dev'[e].prev # None => kept /\ dev'[e].prev = dev[e].prev /\ dev'[e].until = dev[e].until
      BY <1>7, <2>4
    <3>4. dev'[e].prev # None /\ keys'[dev'[e].prev] # None /\ keys'[dev'[e].prev].on =>
            keys'[dev'[e].prev].expires # None /\ keys'[dev'[e].prev].expires <= dev'[e].until
      BY <1>6, <2>1, <2>2, <3>3 DEF IInv, Rows, Row
    <3>5. dev'[e].status = "decommissioned" => Retired(e)'
      BY <1>13, <2>4, <3>1
    <3>6. ended'[e].upto <= minted'
      BY <1>2, <1>3, <1>8, <1>9, <2>4
    <3>7. ended'[e].what = "revoked" =>
            \A k \in RowKeys(e)' : keys'[k] # None => ~keys'[k].on
      <4>1. ended'[e].what = "revoked" => ~kept
        BY <1>4, <1>8, <1>9, <2>4
      <4> QED
        BY <1>5, <1>6, <1>13, <2>4, <4>1
    <3> QED
      BY <3>1, <3>2, <3>4, <3>5, <3>6, <3>7 DEF Row
  <2> QED
    BY <2>3, <2>4
<1>15. Invites'
  <2>1. \A c \in Codes : codes[c] # None => codes[c].device \in Devices
    BY ShapeFacts DEF IInv, Enrollment
  <2>2. \A e \in Devices : dev'[e].mac = dev[e].mac /\ (e # d => dev'[e] = dev[e])
    BY <1>7
  <2>3. \A c \in Codes : codes'[c] # None => /\ codes'[c] = codes[c] /\ codes[c] # None
                                             /\ codes[c].by = None => codes[c].device # d
    BY <1>10
  <2> QED
    BY <2>1, <2>2, <2>3 DEF IInv, Invites
<1>16. \A s \in Slots : ~Mid(s) /\ ~Stage(s, "minted") /\ ~Stage(s, "minted")'
  BY <1>1, <1>2, Idle DEF Stage
<1>17. Placed'
  <2> SUFFICES ASSUME NEW k \in Keys, keys'[k] # None, keys'[k].on
               PROVE  \/ k \in RowKeys(keys[k].device)'
                      \/ keys'[k].expires # None /\ keys'[k].expires <= now'
    BY DEF Placed
  <2>1. /\ keys[k] # None /\ keys[k].on /\ keys'[k].device = keys[k].device
        /\ keys'[k].expires = keys[k].expires /\ keys[k].device \in Devices
    BY <1>6, ShapeFacts DEF Fade, IInv, KeyRow
  <2>2. k \in RowKeys(keys[k].device) \/ (keys[k].expires # None /\ keys[k].expires <= now)
    BY <1>16, <2>1 DEF IInv, Placed
  <2>3. CASE k \in RowKeys(keys[k].device)
    <3>1. keys[k].device = d => kept
      BY <1>5, <1>6, <2>3
    <3>2. /\ dev'[keys[k].device].key = dev[keys[k].device].key
          /\ dev'[keys[k].device].prev = dev[keys[k].device].prev
      BY <1>7, <2>1, <3>1
    <3> QED
      BY <2>1, <2>3, <3>2 DEF RowKeys
  <2> QED
    BY <1>2, <2>1, <2>2, <2>3
<1>18. Grows
  <2>1. Handed' = Handed /\ Handed \in Int
    BY <1>2, <1>3, <1>16 DEF Handed
  <2>2. \A e \in Devices : dev'[e].mac = dev[e].mac
    BY <1>7
  <2>3. \A k \in Keys : keys'[k] # None => keys[k] # None /\ keys'[k].device = keys[k].device
    BY <1>6 DEF Fade
  <2>4. \A e \in Devices : Retired(e) => Retired(e)'
    BY <1>13
  <2> QED
    BY <2>1, <2>2, <2>3, <2>4 DEF Grows
<1>19. Clicks'
  <2>1. \A e \in Devices : dev'[e].prev = None \/ dev'[e] = dev[e] \/ (dev'[e].prev = dev[e].prev /\ dev'[e].until = dev[e].until)
    BY <1>7
  <2> QED
    BY <1>2, <2>1 DEF IInv, Clicks
<1> QED
  BY <1>2, <1>12, <1>14, <1>15, <1>16, <1>17, <1>18, <1>19, ParentFrame

\* Nothing changes but, perhaps, the desired items.
LEMMA ItemsKeep ==
  ASSUME IInv, items' \subseteq Devices,
         UNCHANGED <<now, dev, keys, minted, codes, issued, req, op, job, agent, lost, crashed, ended>>
  PROVE  IInv'
<1>1. UNCHANGED <<now, dev, keys, minted, codes, issued, req, op, job, agent, lost, crashed, ended>>
  OBVIOUS
<1>2. Shape'
  BY <1>1 DEF IInv, Shape
<1>3. Rows' /\ Placed' /\ Grows
  BY <1>1, RowsStay
<1>4. Invites' /\ Clicks' /\ Alone'
  BY <1>1 DEF IInv, Invites, Clicks, Alone, RowKeys, Mid
<1>5. Calls'
  <2>1. \A k : \A m \in Macs : \A e : Given(k, m, e) => Given(k, m, e)'
    BY <1>2, <1>3, GivenStays DEF IInv
  <2>2. \A m \in Macs : Told(m) => Told(m)'
    BY <1>3, ToldStays
  <2>3. ASSUME NEW s \in Slots, req[s] # None PROVE Handling(s)'
    <3>1. req[s].mac \in Macs /\ Handling(s)
      BY <2>3, ShapeFacts DEF IInv, Request, Calls
    <3>2. Given(req[s].reply.key, req[s].mac, req[s].reply.device) =>
            Given(req[s].reply.key, req[s].mac, req[s].reply.device)'
      BY <1>1, <2>1, <3>1
    <3>3. Told(req[s].mac) => Told(req[s].mac)'
      BY <1>1, <2>2, <3>1
    <3> QED
      BY <1>1, <3>1, <3>2, <3>3, HandlingStays
  <2>4. ASSUME NEW m \in Macs PROVE Serving(m)'
    <3>1. Serving(m)
      BY DEF IInv, Calls
    <3>2. Given(agent[m].cred.token, m, agent[m].cred.device) =>
            Given(agent[m].cred.token, m, agent[m].cred.device)'
      BY <1>1, <2>1
    <3>3. \A s \in Slots : Waits(m, s)' = Waits(m, s)
      BY <1>1 DEF Waits
    <3> QED
      BY <1>1, <2>2, <3>1, <3>2, <3>3 DEF Serving
  <2> QED
    BY <1>1, <2>3, <2>4 DEF IInv, Calls
<1> QED
  BY <1>2, <1>3, <1>4, <1>5 DEF IInv

LEMMA QueueItemKeeps == ASSUME IInv, NEW d \in Devices, QueueItem(d) PROVE IInv'
<1>1. /\ items' \subseteq Devices
      /\ UNCHANGED <<now, dev, keys, minted, codes, issued, req, op, job, agent, lost, crashed, ended>>
  BY DEF QueueItem, bounds, IInv, Shape
<1> QED
  BY <1>1, ItemsKeep

LEMMA CloseSelectKeeps == ASSUME ~Concurrent, IInv, CloseSelect PROVE IInv'
<1>1. /\ MayStart /\ job' = [todo |-> [d \in Expired |-> dev[d].prev], off |-> FALSE]
      /\ UNCHANGED <<now, dev, items, keys, minted, codes, issued, req, op, agent, lost, crashed, ended>>
  BY DEF CloseSelect, server, bounds
<1>2. Shape'
  BY <1>1 DEF IInv, Shape
<1>3. Rows' /\ Placed' /\ Grows
  BY <1>1, RowsStay
<1>4. Invites'
  BY <1>1 DEF IInv, Invites
<1>5. Clicks'
  <2>1. op' = None
    BY <1>1 DEF MayStart
  <2>2. DOMAIN job'.todo = Expired
    BY <1>1
  <2> QED
    BY <1>1, <2>1, <2>2 DEF Clicks, Expired
<1> QED
  BY <1>1, <1>2, <1>3, <1>4, <1>5, Idle, ParentFrame

LEMMA CloseDisableKeeps == ASSUME ~Concurrent, IInv, CloseDisable PROVE IInv'
<1>1. /\ job # None /\ (\E off : keys' = TurnOff(keys, off))
      /\ job' = [job EXCEPT !.off = TRUE]
      /\ UNCHANGED <<now, dev, items, minted, codes, issued, req, op, agent, lost, crashed, ended>>
  BY DEF CloseDisable, bounds
<1>2. Fade /\ keys' \in [Keys -> KeyRow \cup {None}]
  BY <1>1, TurnOffFacts DEF IInv
<1>3. Shape'
  BY <1>1, <1>2 DEF IInv, Shape
<1>4. InHand
  BY <1>1 DEF InHand
<1>5. Rows' /\ Placed' /\ Grows
  BY <1>1, <1>2, <1>4, FadeKeeps DEF IInv
<1>6. Invites'
  BY <1>1 DEF IInv, Invites
<1>7. Clicks'
  BY <1>1 DEF IInv, Clicks, RowKeys
<1> QED
  BY <1>1, <1>3, <1>5, <1>6, <1>7, Idle, ParentFrame

LEMMA CloseClearKeeps == ASSUME ~Concurrent, IInv, CloseClear PROVE IInv'
<1>1. PICK d \in DOMAIN job.todo :
        /\ dev' = [dev EXCEPT ![d].prev = None, ![d].until = 0]
        /\ job' = LET rest == DOMAIN job.todo \ {d} IN
                  IF rest = {} THEN None ELSE [todo |-> [e \in rest |-> job.todo[e]], off |-> FALSE]
  BY DEF CloseClear
<1>2. /\ job # None
      /\ UNCHANGED <<now, items, keys, minted, codes, issued, req, op, agent, lost, crashed, ended>>
  BY DEF CloseClear, bounds
<1>3. dev \in [Devices -> DevRow] /\ now \in Nat /\ minted \in Nat
  BY ShapeFacts DEF IInv, Shape
<1>4. /\ dev' \in [Devices -> DevRow]
      /\ \A e \in Devices : /\ dev'[e].status = dev[e].status /\ dev'[e].mac = dev[e].mac
                            /\ dev'[e].key = dev[e].key
                            /\ dev'[e].prev = None \/ dev'[e] = dev[e]
                            /\ dev'[e] = dev[e] \/ (e = d /\ d \in Devices)
  <2>1. CASE d \in Devices
    <3> DEFINE row == [dev[d] EXCEPT !.prev = None, !.until = 0]
    <3>1. dev' = [dev EXCEPT ![d] = row]
      BY <1>1, <1>3, <2>1
    <3>2. /\ row \in DevRow /\ row.status = dev[d].status /\ row.mac = dev[d].mac
          /\ row.key = dev[d].key /\ row.prev = None
      BY <1>3, <2>1 DEF DevRow, KeyOrNone
    <3> HIDE DEF row
    <3> QED
      BY <1>3, <2>1, <3>1, <3>2
  <2>2. CASE d \notin Devices
    <3>1. dev' = dev
      BY <1>1, <1>3, <2>2
    <3> QED
      BY <1>3, <3>1
  <2> QED
    BY <2>1, <2>2
<1>5. Shape'
  BY <1>2, <1>4 DEF IInv, Shape
<1>6. \A e \in Devices : RowKeys(e)' \subseteq RowKeys(e) /\ Retired(e)' = Retired(e) /\ RowKeys(e) \subseteq Keys
  <2>1. \A e \in Devices : RowKeys(e)' \subseteq RowKeys(e)
    BY <1>4 DEF RowKeys
  <2>2. \A e \in Devices : Retired(e)' = Retired(e)
    BY <1>2 DEF Retired
  <2>3. \A e \in Devices : RowKeys(e) \subseteq Keys
    BY ShapeFacts DEF IInv
  <2> QED
    BY <2>1, <2>2, <2>3
<1>7. Rows'
  <2> SUFFICES ASSUME NEW e \in Devices PROVE Row(e)'
    BY DEF Rows
  <2>1. dev'[e].status \in {"absent", "pending"} => dev'[e].mac = None /\ RowKeys(e)' = {}
    BY <1>4, <1>6 DEF IInv, Rows, Row
  <2>2. \A k \in RowKeys(e)' : k <= minted' /\ (keys'[k] # None => keys'[k].device = e)
    BY <1>2, <1>6 DEF IInv, Rows, Row
  <2>3. dev'[e].prev # None /\ keys'[dev'[e].prev] # None /\ keys'[dev'[e].prev].on =>
          keys'[dev'[e].prev].expires # None /\ keys'[dev'[e].prev].expires <= dev'[e].until
    <3>1. dev'[e].prev # None => dev'[e] = dev[e]
      BY <1>4
    <3> QED
      BY <1>2, <3>1 DEF IInv, Rows, Row
  <2>4. dev'[e].status = "decommissioned" => Retired(e)'
    BY <1>4, <1>6 DEF IInv, Rows, Row
  <2>5. ended'[e] # None =>
          /\ ended'[e].upto <= minted'
          /\ ended'[e].what = "revoked" =>
               \A k \in RowKeys(e)' : k <= ended'[e].upto /\ keys'[k] # None => ~keys'[k].on
    BY <1>2, <1>6 DEF IInv, Rows, Row
  <2> QED
    BY <2>1, <2>2, <2>3, <2>4, <2>5 DEF Row
<1>8. Invites'
  <2>1. \A c \in Codes : codes[c] # None => codes[c].device \in Devices
    BY ShapeFacts DEF IInv, Enrollment
  <2> QED
    BY <1>2, <1>4, <2>1 DEF IInv, Invites
<1>9. \A s \in Slots : ~Mid(s) /\ ~Stage(s, "minted") /\ ~Stage(s, "minted")'
  BY <1>2, Idle DEF Stage
<1>10. Placed'
  <2> SUFFICES ASSUME NEW k \in Keys, keys[k] # None, keys[k].on
               PROVE  \/ k \in RowKeys(keys[k].device)'
                      \/ keys[k].expires # None /\ keys[k].expires <= now
    BY <1>2 DEF Placed
  <2>1. keys[k].device \in Devices /\ keys[k] \in KeyRow
    BY ShapeFacts DEF IInv, KeyRow
  <2>2. PICK e \in Devices : e = keys[k].device
    BY <2>1
  <2>3. k \in RowKeys(e) \/ (keys[k].expires # None /\ keys[k].expires <= now)
    BY <1>9, <2>2 DEF IInv, Placed
  <2>4. keys'[k].device = e
    BY <1>2, <2>2
  <2>5. CASE dev'[e] = dev[e]
    BY <2>3, <2>4, <2>5 DEF RowKeys
  <2>6. CASE e = d /\ k = dev[e].key
    BY <1>4, <2>3, <2>4, <2>6, Basics DEF RowKeys
  <2>7. CASE e = d /\ k = dev[e].prev
    <3>1. dev[e].until < now
      BY <1>2, <2>7, Basics DEF IInv, Clicks
    <3>2. keys[k].expires # None /\ keys[k].expires <= dev[e].until
      BY <2>7, Basics DEF IInv, Rows, Row
    <3>3. keys[k].expires \in Nat /\ dev[e].until \in Nat
      BY <1>3, <2>1, <3>2 DEF KeyRow, DevRow
    <3>4. keys[k].expires <= now
      BY <1>3, <3>1, <3>2, <3>3
    <3> QED
      BY <3>2, <3>4
  <2> QED
    BY <1>4, <2>3, <2>5, <2>6, <2>7 DEF RowKeys
<1>11. Grows
  <2>1. Handed' = Handed /\ Handed \in Int
    BY <1>2, <1>3, <1>9 DEF Handed
  <2> QED
    BY <1>2, <1>4, <1>6, <2>1 DEF Grows
<1>12. Clicks'
  <2>1. job' # None => DOMAIN job'.todo \subseteq DOMAIN job.todo
    BY <1>1
  <2>2. op # None => op.device \in Devices
    BY DEF IInv, Shape, Op
  <2>3. \A e \in Devices : dev[e].prev = None \/ dev[e].until < now => dev'[e].prev = None \/ dev'[e].until < now
    BY <1>4
  <2>4. op' # None => /\ RowKeys(op.device)' \subseteq op'.keys
                      /\ op'.what = "code" => dev'[op'.device].status = "pending" /\ issued' + 1 \in Codes
    <3>1. op' = op
      BY <1>2
    <3>2. op # None => RowKeys(op.device)' \subseteq RowKeys(op.device)
      BY <1>6, <2>2, <3>1
    <3> QED
      BY <1>2, <1>4, <2>2, <3>1, <3>2 DEF IInv, Clicks
  <2>5. job' # None => \A e \in DOMAIN job'.todo \cap Devices : dev'[e].prev = None \/ dev'[e].until < now'
    BY <1>2, <2>1, <2>3 DEF IInv, Clicks
  <2> QED
    BY <2>4, <2>5 DEF Clicks
<1> QED
  BY <1>2, <1>5, <1>7, <1>8, <1>9, <1>10, <1>11, <1>12, ParentFrame

LEMMA PassKeeps == ASSUME ~Concurrent, IInv, Pass PROVE IInv'
<1>1. /\ now < Horizon /\ now' = now + 1 /\ op = None /\ job = None /\ \A s \in Slots : req[s] = None
      /\ UNCHANGED <<dev, items, keys, minted, codes, issued, req, op, job, agent, lost, crashed, ended>>
  BY DEF Pass, server, bounds
<1>2. now \in Nat /\ minted \in Nat
  BY ShapeFacts DEF IInv
<1>3. Shape'
  BY <1>1, <1>2, CredentialsAssumption DEF IInv, Shape
<1>4. \A e \in Devices : RowKeys(e)' = RowKeys(e) /\ Retired(e)' = Retired(e)
  BY <1>1 DEF RowKeys, Retired
<1>5. Rows' /\ Invites' /\ Clicks'
  BY <1>1, <1>4 DEF IInv, Rows, Row, Invites, Clicks
<1>6. \A s \in Slots : ~Mid(s) /\ ~Stage(s, "minted") /\ ~Stage(s, "minted")'
  BY <1>1 DEF Mid, Stage
<1>7. Placed'
  <2>1. \A k \in Keys : keys[k] # None => keys[k].device \in Devices /\ keys[k].expires \in Nat \cup {None}
    BY ShapeFacts DEF IInv, KeyRow
  <2>2. \A n \in Nat : n <= now => n <= now'
    BY <1>1, <1>2
  <2> SUFFICES ASSUME NEW k \in Keys, keys[k] # None, keys[k].on
               PROVE  \/ k \in RowKeys(keys[k].device)'
                      \/ keys[k].expires # None /\ keys[k].expires <= now'
    BY <1>1 DEF Placed
  <2>3. k \in RowKeys(keys[k].device) \/ (keys[k].expires # None /\ keys[k].expires <= now)
    BY <1>6 DEF IInv, Placed
  <2> QED
    BY <1>1, <2>1, <2>2, <2>3 DEF RowKeys
<1>8. Grows
  <2>1. Handed' = Handed /\ Handed \in Int
    BY <1>1, <1>2, <1>6 DEF Handed
  <2> QED
    BY <1>1, <1>4, <2>1 DEF Grows
<1> QED
  BY <1>1, <1>3, <1>5, <1>6, <1>7, <1>8, ParentFrame

-----------------------------------------------------------------------------
(* The invariant. *)

LEMMA InitIInv == Init => IInv
<1> SUFFICES ASSUME Init PROVE IInv
  OBVIOUS
<1> USE DEF Init
<1>1. \A d \in Devices : dev[d] = NoDevice /\ RowKeys(d) = {} /\ ended[d] = None
  BY DEF NoDevice, RowKeys
<1>2. \A m \in Macs : agent[m] = FreshAgent /\ FreshAgent.cred = None /\ FreshAgent.phase = "idle"
  BY DEF FreshAgent
<1>3. Shape
  <2>1. NoDevice \in DevRow
    BY DEF NoDevice, DevRow, Statuses, KeyOrNone
  <2>2. FreshAgent \in Agent
    BY DEF FreshAgent, Agent, Phases
  <2> QED
    BY <2>1, <2>2, CredentialsAssumption DEF Shape
<1>4. Rows
  BY <1>1 DEF Rows, Row, NoDevice
<1>5. Invites /\ Placed /\ Clicks /\ Alone
  BY DEF Invites, Placed, Clicks, Alone, Mid
<1>6. Calls
  BY <1>2 DEF Calls, Serving, Waiting
<1> QED
  BY <1>3, <1>4, <1>5, <1>6 DEF IInv

LEMMA StutterKeeps == ASSUME IInv, UNCHANGED vars PROVE IInv'
<1>1. UNCHANGED <<now, dev, items, keys, minted, codes, issued, req, op, job, agent, lost, crashed, ended>>
  BY DEF vars, server, bounds
<1>2. items' \subseteq Devices
  BY <1>1 DEF IInv, Shape
<1> QED
  BY <1>1, <1>2, ItemsKeep

LEMMA StepIInv == ASSUME ~Concurrent, IInv, [Next]_vars PROVE IInv'
<1>1. ASSUME NEW m \in Macs, AgentStep(m) \/ Unanswered(m) \/ Restart(m) \/ StageCode(m) PROVE IInv'
  BY <1>1, TickKeeps, GetEnrolmentKeeps, GetSyncKeeps, ReconcileKeeps, GetRotationKeeps, LeaveKeeps,
     GetReportKeeps, UnansweredKeeps, RestartKeeps, StageCodeKeeps DEF AgentStep
<1>2. ASSUME NEW s \in Slots, Handle(s) PROVE IInv'
  BY <1>2, EnrolClaimKeeps, EnrolCommitKeeps, EnrolRefusedKeeps, EnrolReissueKeeps, RefuseKeeps,
     TellDecommissionedKeeps, SyncReadKeeps, SyncWriteKeeps, RotateReadKeeps, RotateMintKeeps,
     RotateCommitKeeps, ReportKeeps DEF Handle
<1>3. ASSUME NEW d \in Devices,
             \/ CreateDevice(d) \/ QueueItem(d)
             \/ \E what \in {"code", "revoked", "decommissioned"} : Click(d, what)
      PROVE  IInv'
  BY <1>3, CreateDeviceKeeps, QueueItemKeeps, ClickKeeps
<1>4. CASE ReissueCode \/ EndDevice \/ Close \/ Pass
  BY <1>4, ReissueCodeKeeps, EndDeviceKeeps, CloseSelectKeeps, CloseDisableKeeps, CloseClearKeeps,
     PassKeeps DEF Close
<1>5. CASE UNCHANGED vars
  BY <1>5, StutterKeeps
<1> QED
  BY <1>1, <1>2, <1>3, <1>4, <1>5 DEF Next, Parent

\* Handlers that do not overlap: a key belongs to the device it was minted for and
\* the Mac that has it, what a handler read still holds when it writes, and nothing
\* that authenticates is left unaccounted for (the whole of enroll.ts, credential.ts,
\* sync.ts, parent-setup.ts, parent-devices.ts and the daemon's credential).
THEOREM CredentialsInvariant == ASSUME ~Concurrent PROVE Spec => []IInv
<1>1. Init => IInv
  BY InitIInv
<1>2. IInv /\ [Next]_vars => IInv'
  BY StepIInv
<1> QED
  BY <1>1, <1>2, PTL DEF Spec

-----------------------------------------------------------------------------
(* What follows from it. *)

LEMMA IInvRevoked == ASSUME IInv PROVE RevokedIsDead
<1> SUFFICES ASSUME NEW k \in Keys, keys[k] # None, ended[keys[k].device] # None,
                    ended[keys[k].device].what = "revoked", k <= ended[keys[k].device].upto, Accepted(k)
             PROVE  FALSE
  BY DEF RevokedIsDead
<1>1. PICK d \in Devices : d \in Resolved(k)
  BY DEF Accepted, Resolved
<1>2. k \in RowKeys(d)
  BY <1>1, Basics DEF Resolved, RowKeys
<1>3. keys[k].device = d
  BY <1>2 DEF IInv, Rows, Row
<1>4. ~keys[k].on
  BY <1>2, <1>3 DEF IInv, Rows, Row
<1> QED
  BY <1>4 DEF Accepted, Authenticates

LEMMA IInvOverlap == ASSUME IInv PROVE OverlapHonoured
<1> SUFFICES ASSUME NEW m \in Macs, NEW d \in Devices, Holds(m, d), Authenticates(Token(m))
             PROVE  Resolved(Token(m)) = {d}
  BY DEF OverlapHonoured
<1>1. Given(agent[m].cred.token, m, d)
  BY DEF Holds, IInv, Calls, Serving
<1>2. PICK k \in Keys : k = Token(m) /\ k <= Handed /\ keys[k].device = d
  BY <1>1 DEF Given, Token, Authenticates
<1>3. /\ keys[k] # None /\ keys[k].on /\ keys[k] \in KeyRow
      /\ keys[k].expires # None => now < keys[k].expires
  BY <1>2, ShapeFacts DEF Authenticates, IInv
<1>4. now \in Nat /\ minted \in Nat /\ dev[d] \in DevRow
  BY ShapeFacts DEF IInv
<1>5. ~(\E s \in Slots : Stage(s, "minted") /\ req[s].seen.new = k)
  <2> SUFFICES ASSUME NEW s \in Slots, Stage(s, "minted"), req[s].seen.new = k
               PROVE  FALSE
    OBVIOUS
  <2>1. k = minted
    BY DEF IInv, Calls, Handling, Stage
  <2>2. Handed = minted - 1
    BY DEF Handed
  <2> QED
    BY <1>2, <1>4, <2>1, <2>2
<1>6. ~(keys[k].expires # None /\ keys[k].expires <= now)
  BY <1>3, <1>4 DEF KeyRow
<1>7. k \in RowKeys(d)
  BY <1>2, <1>3, <1>5, <1>6 DEF IInv, Placed
<1>8. d \in Resolved(k)
  <2>1. CASE k = dev[d].key
    BY <2>1 DEF Resolved
  <2>2. CASE k = dev[d].prev
    <3>1. keys[k].expires # None /\ keys[k].expires <= dev[d].until
      BY <1>3, <2>2, Basics DEF IInv, Rows, Row
    <3>2. now < dev[d].until
      BY <1>3, <1>4, <3>1 DEF KeyRow, DevRow
    <3> QED
      BY <2>2, <3>2 DEF Resolved
  <2> QED
    BY <1>7, <2>1, <2>2 DEF RowKeys
<1>9. \A e \in Resolved(k) : e = d
  <2> SUFFICES ASSUME NEW e \in Resolved(k) PROVE e = d
    OBVIOUS
  <2>1. e \in Devices /\ k \in RowKeys(e)
    BY Basics DEF Resolved, RowKeys
  <2> QED
    BY <1>2, <1>3, <2>1 DEF IInv, Rows, Row
<1> QED
  BY <1>2, <1>8, <1>9

LEMMA IInvKeysAndCodes == ASSUME IInv PROVE KeysAndCodes
<1>1. TypeOK
  <2>1. \A m \in Macs : /\ agent[m].phase \in Waiting \cup {"idle", "reconciling", "renewing", "leaving"}
                        /\ agent[m].cred # None => agent[m].cred.token \in Keys
    BY ShapeFacts DEF IInv, Agent, Phases, Cred
  <2>2. \A m \in Macs : agent[m].phase \in Waiting => \E s \in Slots : Waits(m, s)
    BY DEF IInv, Calls, Serving
  <2>3. \A m \in Macs : \A s \in Slots : Waits(m, s) => agent[m].phase \in Waiting
    BY DEF IInv, Calls, Waits, Handling, Fits, Waiting
  <2> QED
    BY <2>1, <2>2, <2>3 DEF TypeOK, IInv, Shape, DevRow
<1>2. NoSpareWayIn
  BY DEF NoSpareWayIn, Claimable, IInv, Invites
<1>3. NoOrphanKey
  <2> SUFFICES ASSUME NEW k \in Keys, Authenticates(k)
               PROVE  \/ \E d \in Devices : k \in RowKeys(d)
                      \/ \E s \in Slots : Stage(s, "minted") /\ req[s].seen.new = k
    BY DEF NoOrphanKey
  <2>1. keys[k] # None /\ keys[k].on /\ keys[k] \in KeyRow /\ now \in Nat
    BY ShapeFacts DEF Authenticates, IInv
  <2>2. ~(keys[k].expires # None /\ keys[k].expires <= now)
    BY <2>1 DEF Authenticates, KeyRow
  <2>3. keys[k].device \in Devices
    BY <2>1 DEF KeyRow
  <2> QED
    BY <2>1, <2>2, <2>3 DEF IInv, Placed
<1> QED
  BY <1>1, <1>2, <1>3 DEF KeysAndCodes

\* Once a device is revoked, no key it had is accepted again by any route (the
\* disabling in parent-devices.ts, agent.ts's resolver, rotation in credential.ts).
THEOREM RevokedIsDeadAlways == ASSUME ~Concurrent PROVE Spec => []RevokedIsDead
<1>1. IInv => RevokedIsDead
  BY IInvRevoked
<1> QED
  BY <1>1, CredentialsInvariant, PTL

\* A Mac's credential that still authenticates resolves to its device and to no
\* other, one superseded inside its overlap included (credential.ts, agent.ts).
THEOREM OverlapIsHonoured == ASSUME ~Concurrent PROVE Spec => []OverlapHonoured
<1>1. IInv => OverlapHonoured
  BY IInvOverlap
<1> QED
  BY <1>1, CredentialsInvariant, PTL

\* Every variable keeps its domain, at most one code is a way into a pending device,
\* and every key that authenticates is on a row or in a rotation's hand (enroll.ts,
\* parent-setup.ts, credential.ts).
THEOREM KeysAndCodesAlways == ASSUME ~Concurrent PROVE Spec => []KeysAndCodes
<1>1. IInv => KeysAndCodes
  BY IInvKeysAndCodes
<1> QED
  BY <1>1, CredentialsInvariant, PTL

-----------------------------------------------------------------------------
(* Handlers that overlap, outlive their call or die half-way.  What is left *)
(* of the argument is enough for Binding: a key belongs to the device it    *)
(* was minted for, and a device has one code and is of the Mac that spent   *)
(* it.  One thing breaks it: a code issued for a device that a Mac has      *)
(* enrolled as since the parent's click read it (parent-setup.ts:201).      *)

LateCode == ReissueCode /\ dev[op.device].mac # None

\* A key of d, or gone.
Of(k, d) == k \in Keys /\ k <= minted /\ (keys[k] # None => keys[k].device = d)

\* A key of a device of m, or gone.
Own(k, m) == \E d \in Devices : dev[d].mac = m /\ Of(k, d)

\* A row refers to keys of its own, and is blank before the first code.
OwnRow(d) ==
  /\ \A k \in RowKeys(d) : Of(k, d)
  /\ dev[d].status = "absent" => dev[d].mac = None
  /\ dev[d].status = "decommissioned" => Retired(d)
  /\ issued = 0 => dev[d].mac = None

OwnRows == \A d \in Devices : OwnRow(d)

\* A device has one code, and is of the Mac that spent it.
OwnCode(c) ==
  /\ c <= issued
  /\ dev[codes[c].device].status # "absent" /\ dev[codes[c].device].mac = codes[c].by
  /\ \A e \in Codes : codes[e] # None /\ codes[e].device = codes[c].device => e = c

OwnCodes == \A c \in Codes : codes[c] # None => OwnCode(c)

\* A rotation of a device of the Mac that asked for it.
Turning(s) == dev[req[s].seen.device].mac = req[s].mac /\ Of(req[s].seen.key, req[s].seen.device)

\* What is so of a call at each stage, whoever else is half-way.
OwnCall(s) ==
  LET r == req[s]
  IN  /\ r.waited => Fits(r.kind, agent[r.mac].phase)
      /\ r.kind = "enrol" => r.code \in Codes
      /\ r.kind # "enrol" => Own(r.key, r.mac)
      /\ r.stage = "claimed" => r.kind = "enrol" /\ codes[r.code] # None /\ codes[r.code].by = None
      /\ r.stage = "reissuing" =>
           r.kind = "enrol" /\ codes[r.code] # None /\ codes[r.code].by = r.mac /\ r.seen \in Keys
      /\ r.stage = "read" =>
           \/ r.kind = "sync" /\ r.seen \in [device : Devices, status : Statuses]
           \/ r.kind = "rotate" /\ r.seen \in [device : Devices, key : Keys] /\ Turning(s)
      /\ r.stage = "minted" =>
           /\ r.kind = "rotate" /\ r.seen \in [device : Devices, key : Keys, new : Keys]
           /\ Turning(s) /\ Of(r.seen.new, r.seen.device)
      /\ r.stage = "done" =>
           /\ r.reply \in Answers
           /\ r.reply.answer = "decommission" => Told(r.mac)
           /\ r.reply.answer = "ok" /\ r.kind \in {"enrol", "rotate"} =>
                Own(r.reply.key, r.mac) /\ r.reply.device \in Devices

\* What is so of a daemon in each phase.
OwnAgent(m) ==
  /\ agent[m].cred # None => Own(agent[m].cred.token, m)
  /\ agent[m].phase \notin {"idle", "enrolling"} => agent[m].cred # None
  /\ agent[m].phase \in {"leaving", "reporting"} => Told(m)

\* A Mac waits for one call, and a code is claimed by one.
Single ==
  /\ \A s, t \in Slots : req[s] # None /\ req[t] # None /\ req[s].waited /\ req[t].waited
                           /\ req[s].mac = req[t].mac => s = t
  /\ \A s, t \in Slots : Stage(s, "claimed") /\ Stage(t, "claimed") /\ req[s].code = req[t].code => s = t

\* The parent clicks on devices that there are.
Clicked == op # None => dev[op.device].status # "absent"

OInv ==
  /\ Shape /\ OwnRows /\ OwnCodes /\ Clicked /\ Single
  /\ \A s \in Slots : req[s] # None => OwnCall(s)
  /\ \A m \in Macs : OwnAgent(m)

\* Devices stay with their Macs and keys with their devices.
Follows ==
  /\ minted <= minted'
  /\ \A d \in Devices : dev[d].mac # None => dev'[d].mac = dev[d].mac
  /\ \A d \in Devices : dev[d].status # "absent" => dev'[d].status # "absent"
  /\ \A d \in Devices : Retired(d) => Retired(d)'
  /\ \A k \in Keys : k <= minted /\ keys'[k] # None => keys[k] # None /\ keys'[k].device = keys[k].device

LEMMA OfStays ==
  ASSUME Shape, Shape', Follows, NEW k, NEW d, Of(k, d)
  PROVE  Of(k, d)'
<1>1. k \in Nat /\ minted \in Nat /\ minted' \in Nat
  BY Basics DEF Of, Shape
<1> QED
  BY <1>1 DEF Of, Follows

LEMMA OwnStays ==
  ASSUME Shape, Shape', Follows, NEW k, NEW m \in Macs, Own(k, m)
  PROVE  Own(k, m)'
<1>1. PICK d \in Devices : dev[d].mac = m /\ Of(k, d)
  BY DEF Own
<1>2. Of(k, d)'
  BY <1>1, OfStays
<1>3. dev'[d].mac = m
  BY <1>1, Basics DEF Follows
<1> QED
  BY <1>2, <1>3 DEF Own

LEMMA ToldHolds ==
  ASSUME Follows, NEW m \in Macs, Told(m)
  PROVE  Told(m)'
BY Basics DEF Told, Follows

\* Only keys change: they are used, turned off, expire or are gone.
LEMMA FollowsKeys ==
  ASSUME UNCHANGED <<dev, minted, ended>>,
         \A k \in Keys : keys'[k] # None => keys[k] # None /\ keys'[k].device = keys[k].device,
         minted \in Nat
  PROVE  Follows
<1>1. \A d \in Devices : Retired(d)' = Retired(d)
  BY DEF Retired
<1> QED
  BY <1>1 DEF Follows

\* A call whose handler did nothing, given up or not.
LEMMA CallStays ==
  ASSUME Shape, Shape', Follows, NEW t \in Slots, req[t] # None, OwnCall(t),
         req'[t].mac = req[t].mac, req'[t].kind = req[t].kind, req'[t].code = req[t].code,
         req'[t].key = req[t].key, req'[t].stage = req[t].stage, req'[t].seen = req[t].seen,
         req'[t].reply = req[t].reply,
         req'[t].waited => req[t].waited /\ agent'[req[t].mac].phase = agent[req[t].mac].phase,
         req[t].stage \in {"claimed", "reissuing"} =>
           codes'[req[t].code] # None /\ codes'[req[t].code].by = codes[req[t].code].by
  PROVE  OwnCall(t)'
<1>1. PICK m \in Macs : m = req[t].mac
  BY ShapeFacts DEF Request
<1>2. PICK k : k = req[t].key
  OBVIOUS
<1>3. PICK w : w = req[t].seen
  OBVIOUS
<1>4. PICK a : a = req[t].reply
  OBVIOUS
<1>5. req[t].kind # "enrol" => Own(k, m)'
  BY <1>1, <1>2, OwnStays DEF OwnCall
<1>6. ASSUME Turning(t), w.device \in Devices
      PROVE  Turning(t)' /\ \A n : Of(n, w.device) => Of(n, w.device)'
  <2>1. PICK d \in Devices : d = w.device
    BY <1>6
  <2>2. dev[d].mac = m /\ Of(w.key, d)
    BY <1>1, <1>3, <1>6, <2>1 DEF Turning
  <2>3. dev'[d].mac = m /\ \A n : Of(n, d) => Of(n, d)'
    BY <1>1, <2>2, Basics, OfStays DEF Follows
  <2>4. Of(w.key, d)'
    BY <2>2, <2>3
  <2> QED
    BY <1>1, <1>3, <2>1, <2>3, <2>4 DEF Turning
<1>7. req[t].stage = "read" =>
        \/ req[t].kind = "sync" /\ w \in [device : Devices, status : Statuses]
        \/ req[t].kind = "rotate" /\ w \in [device : Devices, key : Keys] /\ Turning(t)'
  BY <1>3, <1>6 DEF OwnCall
<1>8. req[t].stage = "minted" =>
        /\ req[t].kind = "rotate" /\ w \in [device : Devices, key : Keys, new : Keys]
        /\ Turning(t)' /\ Of(w.new, w.device)'
  BY <1>3, <1>6 DEF OwnCall
<1>9. req[t].stage = "done" =>
        /\ a \in Answers
        /\ a.answer = "decommission" => Told(m)'
        /\ a.answer = "ok" /\ req[t].kind \in {"enrol", "rotate"} => Own(a.key, m)' /\ a.device \in Devices
  <2>1. \A n : Own(n, m) => Own(n, m)'
    BY <1>1, OwnStays
  <2>2. Told(m) => Told(m)'
    BY <1>1, ToldHolds
  <2> QED
    BY <1>1, <1>4, <2>1, <2>2 DEF OwnCall
<1>10. /\ req'[t].waited => Fits(req[t].kind, agent'[m].phase)
       /\ req[t].kind = "enrol" => req[t].code \in Codes
       /\ req[t].stage = "claimed" =>
            req[t].kind = "enrol" /\ codes'[req[t].code] # None /\ codes'[req[t].code].by = None
       /\ req[t].stage = "reissuing" =>
            req[t].kind = "enrol" /\ codes'[req[t].code] # None /\ codes'[req[t].code].by = m /\ w \in Keys
  BY <1>1, <1>3 DEF OwnCall
<1> QED
  BY <1>1, <1>2, <1>3, <1>4, <1>5, <1>7, <1>8, <1>9, <1>10 DEF OwnCall

LEMMA AgentStays ==
  ASSUME Shape, Shape', Follows, NEW m \in Macs, OwnAgent(m), agent'[m] = agent[m]
  PROVE  OwnAgent(m)'
<1>1. PICK k : k = agent[m].cred.token
  OBVIOUS
<1>2. Own(k, m) => Own(k, m)'
  BY OwnStays
<1>3. Told(m) => Told(m)'
  BY ToldHolds
<1> QED
  BY <1>1, <1>2, <1>3 DEF OwnAgent

LEMMA ClickedStays ==
  ASSUME Shape, Follows, Clicked, op' = op
  PROVE  Clicked'
<1>1. op # None => op.device \in Devices
  BY DEF Shape, Op
<1> QED
  BY <1>1 DEF Clicked, Follows

\* A step of the server: no daemon moves, and at most the calls in busy do.
LEMMA ServerFrame ==
  ASSUME OInv, Shape', Follows, OwnRows', OwnCodes', Clicked' \/ op' = op, agent' = agent, NEW busy \in SUBSET Slots,
         \A t \in Slots \ busy : req'[t] = req[t],
         \A t \in Slots \ busy : req[t] # None /\ req[t].stage \in {"claimed", "reissuing"} =>
           codes'[req[t].code] # None /\ codes'[req[t].code].by = codes[req[t].code].by,
         \A t \in busy : req'[t] # None =>
           req[t] # None /\ req'[t].mac = req[t].mac /\ (req'[t].waited => req[t].waited),
         \A t \in busy : req'[t] # None => OwnCall(t)',
         \A t \in busy : Stage(t, "claimed")' =>
           \A u \in Slots : Stage(u, "claimed")' /\ req'[u].code = req'[t].code => u = t
  PROVE  OInv'
<1>1. ASSUME NEW t \in Slots, req'[t] # None PROVE OwnCall(t)'
  <2>1. CASE t \in busy
    BY <1>1, <2>1
  <2>2. CASE t \notin busy
    <3>1. req'[t] = req[t] /\ req[t] # None /\ OwnCall(t)
      BY <1>1, <2>2 DEF OInv
    <3>2. req[t].stage \in {"claimed", "reissuing"} =>
            codes'[req[t].code] # None /\ codes'[req[t].code].by = codes[req[t].code].by
      BY <2>2, <3>1
    <3> QED
      BY <3>1, <3>2, CallStays DEF OInv
  <2> QED
    BY <2>1, <2>2
<1>2. ASSUME NEW m \in Macs PROVE OwnAgent(m)'
  BY AgentStays DEF OInv
<1>3. ASSUME NEW s \in Slots, NEW t \in Slots, req'[s] # None, req'[t] # None,
             req'[s].waited, req'[t].waited, req'[s].mac = req'[t].mac
      PROVE  s = t
  <2>1. \A u \in {s, t} : req[u] # None /\ req[u].waited /\ req'[u].mac = req[u].mac
    BY <1>3
  <2> QED
    BY <1>3, <2>1 DEF OInv, Single
<1>4. ASSUME NEW s \in Slots, NEW t \in Slots, Stage(s, "claimed")', Stage(t, "claimed")',
             req'[s].code = req'[t].code
      PROVE  s = t
  <2>1. CASE s \in busy \/ t \in busy
    BY <1>4, <2>1
  <2>2. CASE s \notin busy /\ t \notin busy
    <3>1. \A u \in {s, t} : req'[u] = req[u] /\ Stage(u, "claimed")
      BY <1>4, <2>2 DEF Stage
    <3> QED
      BY <1>4, <3>1 DEF OInv, Single
  <2> QED
    BY <2>1, <2>2
<1>5. Single'
  BY <1>3, <1>4 DEF Single
<1>6. Clicked'
  BY ClickedStays DEF OInv
<1> QED
  BY <1>1, <1>2, <1>5, <1>6 DEF OInv

\* A step of a daemon, which has no part in the server's rows: its old call is
\* over or given up, and its new one, if any, is in slot s.
LEMMA DaemonFrame ==
  ASSUME OInv, Shape', NEW m \in Macs, UNCHANGED <<dev, keys, codes, minted, issued, op, ended>>,
         \A n \in Macs \ {m} : agent'[n] = agent[n],
         NEW fresh \in SUBSET Slots, \A s, t \in fresh : s = t,
         \A t \in fresh : req'[t] # None /\ req'[t].stage = "sent" /\ req'[t].mac = m /\ OwnCall(t)',
         \A t \in Slots \ fresh : req'[t] # None =>
           /\ req[t] # None
           /\ req'[t] = req[t] \/ req'[t] = [req[t] EXCEPT !.waited = FALSE]
           /\ req[t].mac = m => ~req'[t].waited,
         OwnAgent(m)'
  PROVE  OInv'
<1>1. Follows
  <2>1. minted \in Nat
    BY ShapeFacts DEF OInv
  <2> QED
    BY <2>1, FollowsKeys
<1>2. OwnRows' /\ OwnCodes'
  <2>1. OwnRows /\ OwnCodes
    BY DEF OInv
  <2>2. \A d \in Devices : Retired(d)' = Retired(d) /\ RowKeys(d)' = RowKeys(d)
    BY DEF Retired, RowKeys
  <2>3. \A k, d : Of(k, d)' = Of(k, d)
    BY DEF Of
  <2> QED
    BY <2>1, <2>2, <2>3 DEF OwnRows, OwnRow, OwnCodes, OwnCode
<1>3. ASSUME NEW t \in Slots \ fresh, req'[t] # None
      PROVE  /\ req[t] # None /\ req[t].mac \in Macs
             /\ req'[t].mac = req[t].mac /\ req'[t].kind = req[t].kind /\ req'[t].code = req[t].code
             /\ req'[t].key = req[t].key /\ req'[t].stage = req[t].stage /\ req'[t].seen = req[t].seen
             /\ req'[t].reply = req[t].reply /\ (req'[t].waited => req[t].waited /\ req[t].mac # m)
  <2>1. req[t] # None /\ req[t] \in Request
    BY <1>3, ShapeFacts DEF OInv
  <2> QED
    BY <1>3, <2>1 DEF Request
<1>4. ASSUME NEW t \in Slots, req'[t] # None PROVE OwnCall(t)'
  <2>1. CASE t \in fresh
    BY <2>1
  <2>2. CASE t \notin fresh
    <3>1. OwnCall(t)
      BY <1>3, <1>4, <2>2 DEF OInv
    <3>2. req'[t].waited => agent'[req[t].mac].phase = agent[req[t].mac].phase
      BY <1>3, <1>4, <2>2
    <3>3. req[t].stage \in {"claimed", "reissuing"} => codes'[req[t].code] # None
      BY <3>1 DEF OwnCall
    <3> QED
      BY <1>1, <1>3, <1>4, <2>2, <3>1, <3>2, <3>3, CallStays DEF OInv
  <2> QED
    BY <2>1, <2>2
<1>5. ASSUME NEW n \in Macs PROVE OwnAgent(n)'
  BY <1>1, AgentStays DEF OInv
<1>6. ASSUME NEW s \in Slots, NEW t \in Slots, req'[s] # None, req'[t] # None,
             req'[s].waited, req'[t].waited, req'[s].mac = req'[t].mac
      PROVE  s = t
  BY <1>3, <1>6 DEF OInv, Single
<1>7. ASSUME NEW s \in Slots, NEW t \in Slots, Stage(s, "claimed")', Stage(t, "claimed")',
             req'[s].code = req'[t].code
      PROVE  s = t
  <2>1. s \notin fresh /\ t \notin fresh
    BY <1>7 DEF Stage
  <2>2. Stage(s, "claimed") /\ Stage(t, "claimed") /\ req[s].code = req[t].code
    BY <1>3, <1>7, <2>1 DEF Stage
  <2> QED
    BY <2>2 DEF OInv, Single
<1>8. Single'
  BY <1>6, <1>7 DEF Single
<1>9. Clicked'
  BY <1>1, ClickedStays DEF OInv
<1> QED
  BY <1>1, <1>2, <1>4, <1>5, <1>8, <1>9 DEF OInv

\* A daemon that does not wait has no call that anybody waits for.
LEMMA NoneAwaited ==
  ASSUME OInv, NEW m \in Macs, agent[m].phase \notin Waiting, NEW t \in Slots, req[t] # None, req[t].mac = m
  PROVE  ~req[t].waited
BY DEF OInv, OwnCall, Fits, Waiting

\* What is left of the calls of a daemon that waits no more.
LetGo(m) ==
  \A t \in Slots : req'[t] # None =>
    /\ req[t] # None
    /\ req'[t] = req[t] \/ req'[t] = [req[t] EXCEPT !.waited = FALSE]
    /\ req[t].mac = m => ~req'[t].waited

LEMMA GotLetsGo ==
  ASSUME OInv, NEW m \in Macs, NEW s \in Slots, Got(m, s), Consume(s)
  PROVE  /\ LetGo(m) /\ req' \in [Slots -> Request \cup {None}]
         /\ OwnCall(s) /\ req[s].stage = "done" /\ req[s].mac = m /\ req[s].reply \in Answers
         /\ OwnAgent(m) /\ Fits(req[s].kind, agent[m].phase)
<1>1. /\ req[s] # None /\ req[s].stage = "done" /\ req[s].mac = m /\ req[s].waited
      /\ req' = [req EXCEPT ![s] = None]
  BY DEF Got, Stage, Consume
<1>2. OwnCall(s) /\ OwnAgent(m)
  BY <1>1 DEF OInv
<1>3. req \in [Slots -> Request \cup {None}]
  BY DEF OInv, Shape
<1>4. \A t \in Slots \ {s} : req'[t] = req[t]
  BY <1>1, <1>3
<1>5. req'[s] = None
  BY <1>1, <1>3
<1>6. LetGo(m)
  BY <1>1, <1>4, <1>5 DEF LetGo, OInv, Single
<1> QED
  BY <1>1, <1>2, <1>3, <1>6 DEF OwnCall

LEMMA AbandonLetsGo ==
  ASSUME OInv, NEW m \in Macs, Abandon(m)
  PROVE  LetGo(m) /\ req' \in [Slots -> Request \cup {None}]
<1>1. PICK s \in Slots :
        /\ Waits(m, s)
        /\ req' = [req EXCEPT ![s] = None] \/ req' = [req EXCEPT ![s].waited = FALSE]
  BY DEF Abandon
<1>2. /\ req \in [Slots -> Request \cup {None}] /\ req[s] # None /\ req[s] \in Request
      /\ req[s].mac = m /\ req[s].waited
  BY <1>1 DEF OInv, Shape, Waits
<1> DEFINE r == [req[s] EXCEPT !.waited = FALSE]
<1>3. r \in Request /\ ~r.waited
  BY <1>2 DEF Request
<1>4. req'[s] \in {None, r} /\ req' \in [Slots -> Request \cup {None}]
  BY <1>1, <1>2, <1>3
<1>5. \A t \in Slots \ {s} : req'[t] = req[t]
  BY <1>1, <1>2
<1>6. \A t \in Slots \ {s} : req[t] # None /\ req[t].mac = m => ~req[t].waited
  BY <1>2 DEF OInv, Single
<1>7. LetGo(m)
  BY <1>2, <1>3, <1>4, <1>5, <1>6 DEF LetGo
<1> QED
  BY <1>4, <1>7

\* Its call is over, or it had none: it goes on, or gives up.
LEMMA DaemonGoesOn ==
  ASSUME OInv, NEW m \in Macs, LetGo(m), req' \in [Slots -> Request \cup {None}],
         UNCHANGED <<now, dev, keys, codes, minted, items, issued, op, ended>>,
         lost' \in 0..Losses, crashed' \in 0..Crashes,
         NEW a \in Agent, agent' = [agent EXCEPT ![m] = a],
         a.cred # None => Own(a.cred.token, m),
         a.phase # "idle" => a.cred # None,
         a.phase = "leaving" => Told(m),
         a.phase # "reporting"
  PROVE  OInv'
<1>1. agent \in [Macs -> Agent]
  BY DEF OInv, Shape
<1>2. agent' \in [Macs -> Agent] /\ agent'[m] = a /\ \A n \in Macs \ {m} : agent'[n] = agent[n]
  BY <1>1
<1>3. Shape'
  BY <1>2 DEF OInv, Shape
<1>4. Follows
  BY FollowsKeys, ShapeFacts DEF OInv
<1>5. OwnAgent(m)'
  <2>1. PICK k : k = a.cred.token
    OBVIOUS
  <2>2. Own(k, m) => Own(k, m)'
    BY <1>3, <1>4, OwnStays DEF OInv
  <2>3. Told(m) => Told(m)'
    BY <1>4, ToldHolds
  <2> QED
    BY <1>2, <2>1, <2>2, <2>3 DEF OwnAgent
<1>6. PICK fresh \in SUBSET Slots : fresh = {}
  OBVIOUS
<1> QED
  BY <1>2, <1>3, <1>5, <1>6, DaemonFrame DEF LetGo

\* It calls.
LEMMA DaemonCalls ==
  ASSUME OInv, NEW m \in Macs, agent[m].phase \notin Waiting,
         NEW kind \in {"enrol", "sync", "rotate", "report"}, NEW phase \in Waiting, Fits(kind, phase),
         kind = "enrol" => agent[m].code # None,
         kind # "enrol" => agent[m].cred # None,
         kind = "report" => Told(m),
         Send(m, kind, phase), UNCHANGED <<now, server, op, bounds, ended>>
  PROVE  OInv'
<1>1. UNCHANGED <<now, dev, keys, codes, minted, items, issued, op, lost, crashed, ended>>
  BY DEF server, bounds
<1> DEFINE key == IF agent[m].cred = None THEN None ELSE agent[m].cred.token
           r == [mac |-> m, kind |-> kind, code |-> agent[m].code, key |-> key,
                 stage |-> "sent", seen |-> None, reply |-> None, waited |-> TRUE]
<1>2. PICK s \in Slots : /\ req[s] = None /\ req' = [req EXCEPT ![s] = r]
                         /\ agent' = [agent EXCEPT ![m].phase = phase]
  BY DEF Send
<1>3. agent[m] \in Agent /\ agent \in [Macs -> Agent] /\ req \in [Slots -> Request \cup {None}]
  BY DEF OInv, Shape
<1>4. OwnAgent(m) /\ agent[m].code \in Codes \cup {None}
  BY <1>3 DEF OInv, Agent
<1>5. key \in KeyOrNone /\ (kind # "enrol" => Own(key, m))
  BY <1>3, <1>4 DEF Agent, Cred, KeyOrNone, OwnAgent
<1> HIDE DEF key
<1>6. r \in Request
  BY <1>4, <1>5 DEF Request, Seen, KeyOrNone
<1>7. /\ r.mac = m /\ r.kind = kind /\ r.code = agent[m].code /\ r.stage = "sent" /\ r.key = key
  OBVIOUS
<1> HIDE DEF r
<1>8. /\ agent' \in [Macs -> Agent] /\ agent'[m].phase = phase /\ agent'[m].cred = agent[m].cred
      /\ \A n \in Macs \ {m} : agent'[n] = agent[n]
  BY <1>2, <1>3 DEF Agent, Phases
<1>9. /\ req'[s] = r /\ r # None /\ \A t \in Slots \ {s} : req'[t] = req[t]
      /\ req' \in [Slots -> Request \cup {None}]
  BY <1>2, <1>3, <1>6, Basics
<1>10. Shape'
  BY <1>1, <1>8, <1>9 DEF OInv, Shape
<1>11. Follows
  BY <1>1, FollowsKeys, ShapeFacts DEF OInv
<1>12. \A k : Own(k, m) => Own(k, m)'
  BY <1>10, <1>11, OwnStays DEF OInv
<1>13. OwnCall(s)'
  BY <1>4, <1>5, <1>7, <1>8, <1>9, <1>12 DEF OwnCall
<1>14. OwnAgent(m)'
  <2>1. phase \notin {"idle", "enrolling"} => kind # "enrol"
    BY DEF Fits, Waiting
  <2>2. phase \in {"leaving", "reporting"} => kind = "report"
    BY DEF Fits, Waiting
  <2>3. Told(m) => Told(m)'
    BY <1>11, ToldHolds
  <2>4. PICK k : k = agent[m].cred.token
    OBVIOUS
  <2> QED
    BY <1>4, <1>8, <1>12, <2>1, <2>2, <2>3, <2>4 DEF OwnAgent
<1>15. \A t \in Slots \ {s} : req'[t] # None => req[t] # None /\ req'[t] = req[t] /\ (req[t].mac = m => ~req[t].waited)
  BY <1>9, NoneAwaited
<1>16. PICK fresh \in SUBSET Slots : fresh = {s}
  OBVIOUS
<1> QED
  BY <1>1, <1>7, <1>8, <1>9, <1>10, <1>13, <1>14, <1>15, <1>16, DaemonFrame

LEMMA CallingHolds ==
  ASSUME OInv, NEW m \in Macs, Tick(m) \/ Reconcile(m) \/ RotateIfDue(m) \/ Leave(m)
  PROVE  OInv'
<1>1. /\ agent[m].phase \in {"idle", "reconciling", "renewing", "leaving"}
      /\ agent[m].phase \notin Waiting /\ UNCHANGED <<now, server, op, bounds, ended>>
  BY DEF Tick, Reconcile, RotateIfDue, Leave, Waiting
<1>2. agent \in [Macs -> Agent] /\ agent[m] \in Agent /\ OwnAgent(m) /\ req \in [Slots -> Request \cup {None}]
  BY DEF OInv, Shape
<1>3. /\ Fits("enrol", "enrolling") /\ Fits("sync", "syncing") /\ Fits("rotate", "rotating")
      /\ Fits("rotate", "renewal") /\ Fits("report", "reporting")
      /\ Waiting = {"enrolling", "syncing", "rotating", "renewal", "reporting"}
  BY DEF Fits, Waiting
<1>4. CASE agent[m].code # None /\ Send(m, "enrol", "enrolling")
  BY <1>1, <1>3, <1>4, DaemonCalls
<1>5. CASE agent[m].cred # None /\ Send(m, "sync", "syncing")
  BY <1>1, <1>3, <1>5, DaemonCalls
<1>6. CASE agent[m].phase # "idle" /\ (Send(m, "rotate", "rotating") \/ Send(m, "rotate", "renewal"))
  <2>1. agent[m].cred # None
    BY <1>1, <1>2, <1>6 DEF OwnAgent
  <2> QED
    BY <1>1, <1>3, <1>6, <2>1, DaemonCalls
<1>7. CASE agent[m].phase = "leaving" /\ Send(m, "report", "reporting")
  <2>1. agent[m].cred # None /\ Told(m)
    BY <1>2, <1>7 DEF OwnAgent
  <2> QED
    BY <1>1, <1>3, <1>7, <2>1, DaemonCalls
<1>8. ASSUME NEW p \in {"idle", "renewing"}, agent[m].phase # "idle",
             agent' = [agent EXCEPT ![m].phase = p], UNCHANGED req
      PROVE  OInv'
  <2> DEFINE a == [agent[m] EXCEPT !.phase = p]
  <2>1. agent' = [agent EXCEPT ![m] = a]
    BY <1>2, <1>8
  <2>2. a \in Agent /\ a.phase = p /\ a.cred = agent[m].cred
    BY <1>2, <1>8 DEF Agent, Phases
  <2>3. a.cred # None /\ Own(a.cred.token, m)
    BY <1>1, <1>2, <1>8, <2>2 DEF OwnAgent
  <2>4. LetGo(m)
    BY <1>1, <1>8, NoneAwaited DEF LetGo
  <2>5. UNCHANGED <<dev, keys, codes, minted, items, issued, lost, crashed>>
    BY <1>1 DEF server, bounds
  <2>6. lost' \in 0..Losses /\ crashed' \in 0..Crashes
    BY <2>5 DEF OInv, Shape
  <2> HIDE DEF a
  <2> QED
    BY <1>1, <1>2, <1>8, <2>1, <2>2, <2>3, <2>4, <2>5, <2>6, DaemonGoesOn
<1> QED
  BY <1>4, <1>5, <1>6, <1>7, <1>8 DEF Tick, Reconcile, RotateIfDue, Leave

LEMMA GetEnrolmentHolds == ASSUME OInv, NEW m \in Macs, GetEnrolment(m) PROVE OInv'
<1>1. PICK s \in Slots : /\ Got(m, s) /\ agent[m].phase = "enrolling" /\ Consume(s)
                         /\ agent' = [agent EXCEPT
                            ![m].phase = "idle", ![m].code = None,
                            ![m].cred = IF req[s].reply.answer = "ok"
                                        THEN [token |-> req[s].reply.key, device |-> req[s].reply.device,
                                              renew |-> None]
                                        ELSE @]
  BY DEF GetEnrolment
<1>2. UNCHANGED <<now, dev, keys, codes, minted, items, issued, op, lost, crashed, ended>>
  BY DEF GetEnrolment, server, bounds
<1>3. /\ LetGo(m) /\ req' \in [Slots -> Request \cup {None}]
      /\ OwnCall(s) /\ req[s].stage = "done" /\ req[s].mac = m /\ req[s].reply \in Answers
      /\ OwnAgent(m) /\ Fits(req[s].kind, agent[m].phase)
  BY <1>1, GotLetsGo
<1> DEFINE c == IF req[s].reply.answer = "ok"
                THEN [token |-> req[s].reply.key, device |-> req[s].reply.device, renew |-> None]
                ELSE agent[m].cred
           a == [agent[m] EXCEPT !.phase = "idle", !.code = None, !.cred = c]
<1>4. agent \in [Macs -> Agent] /\ agent[m] \in Agent
  BY DEF OInv, Shape
<1>5. agent' = [agent EXCEPT ![m] = a]
  BY <1>1, <1>4 DEF Agent
<1>6. c \in Cred \cup {None} /\ (c # None => Own(c.token, m))
  <2>1. CASE req[s].reply.answer = "ok"
    <3>1. Own(req[s].reply.key, m) /\ req[s].reply.device \in Devices
      BY <1>1, <1>3, <2>1 DEF OwnCall, Fits
    <3> QED
      BY <2>1, <3>1 DEF Cred, Own, Of
  <2>2. CASE req[s].reply.answer # "ok"
    BY <1>3, <1>4, <2>2 DEF OwnAgent, Agent
  <2> QED
    BY <2>1, <2>2
<1> HIDE DEF c
<1>7. a \in Agent /\ a.phase = "idle" /\ a.cred = c
  BY <1>4, <1>6 DEF Agent, Phases
<1>8. lost' \in 0..Losses /\ crashed' \in 0..Crashes
  BY <1>2 DEF OInv, Shape
<1> HIDE DEF a
<1> QED
  BY <1>2, <1>3, <1>5, <1>6, <1>7, <1>8, DaemonGoesOn

LEMMA GetSyncHolds == ASSUME OInv, NEW m \in Macs, GetSync(m) PROVE OInv'
<1>1. PICK s \in Slots :
        /\ Got(m, s) /\ agent[m].phase = "syncing" /\ Consume(s)
        /\ agent' = IF req[s].reply.answer = "ok"
                    THEN [agent EXCEPT ![m].phase = "reconciling", ![m].item = req[s].reply.item]
                    ELSE [agent EXCEPT ![m].halted = TRUE,
                            ![m].phase = IF Obeys(req[s].reply.answer) THEN "leaving" ELSE "idle"]
  BY DEF GetSync
<1>2. UNCHANGED <<now, dev, keys, codes, minted, items, issued, op, lost, crashed, ended>>
  BY DEF GetSync, server, bounds
<1>3. /\ LetGo(m) /\ req' \in [Slots -> Request \cup {None}]
      /\ OwnCall(s) /\ req[s].stage = "done" /\ req[s].mac = m /\ req[s].reply \in Answers
      /\ OwnAgent(m) /\ Fits(req[s].kind, agent[m].phase)
  BY <1>1, GotLetsGo
<1>4. agent \in [Macs -> Agent] /\ agent[m] \in Agent
  BY DEF OInv, Shape
<1>5. agent[m].cred # None /\ Own(agent[m].cred.token, m)
  BY <1>1, <1>3 DEF OwnAgent
<1>6. PICK a \in Agent :
        /\ agent' = [agent EXCEPT ![m] = a] /\ a.cred = agent[m].cred
        /\ a.phase \in {"reconciling", "idle", "leaving"}
        /\ a.phase = "leaving" => req[s].reply.answer = "decommission"
  <2>1. CASE req[s].reply.answer = "ok"
    <3> DEFINE b == [agent[m] EXCEPT !.phase = "reconciling", !.item = req[s].reply.item]
    <3>1. agent' = [agent EXCEPT ![m] = b]
      BY <1>1, <1>4, <2>1
    <3>2. b \in Agent /\ b.phase = "reconciling" /\ b.cred = agent[m].cred
      BY <1>3, <1>4 DEF Agent, Phases, Answers
    <3> HIDE DEF b
    <3> QED
      BY <3>1, <3>2
  <2>2. CASE req[s].reply.answer # "ok"
    <3> DEFINE p == IF Obeys(req[s].reply.answer) THEN "leaving" ELSE "idle"
               b == [agent[m] EXCEPT !.halted = TRUE, !.phase = p]
    <3>1. agent' = [agent EXCEPT ![m] = b]
      BY <1>1, <1>4, <2>2
    <3>2. p \in {"idle", "leaving"} /\ (p = "leaving" => req[s].reply.answer = "decommission")
      BY DEF Obeys
    <3> HIDE DEF p
    <3>3. b \in Agent /\ b.phase = p /\ b.cred = agent[m].cred
      BY <1>4, <3>2 DEF Agent, Phases
    <3> HIDE DEF b
    <3> QED
      BY <3>1, <3>2, <3>3
  <2> QED
    BY <2>1, <2>2
<1>7. a.phase = "leaving" => Told(m)
  <2>1. req[s].reply.answer = "decommission" => Told(req[s].mac)
    BY <1>3 DEF OwnCall
  <2> QED
    BY <1>3, <1>6, <2>1
<1>8. lost' \in 0..Losses /\ crashed' \in 0..Crashes
  BY <1>2 DEF OInv, Shape
<1>9. a.cred # None /\ Own(a.cred.token, m)
  BY <1>5, <1>6
<1>10. a.phase # "reporting"
  BY <1>6
<1> QED
  BY <1>2, <1>3, <1>6, <1>7, <1>8, <1>9, <1>10, DaemonGoesOn

LEMMA GetRotationHolds == ASSUME OInv, NEW m \in Macs, GetRotation(m) PROVE OInv'
<1>1. PICK s \in Slots :
        /\ Got(m, s) /\ agent[m].phase \in {"rotating", "renewal"} /\ Consume(s)
        /\ agent' = [agent EXCEPT
             ![m].phase = AfterRotation(m),
             ![m].cred = IF req[s].reply.answer = "ok"
                         THEN [@ EXCEPT !.token = req[s].reply.key, !.renew = now + RotateAfter]
                         ELSE @]
  BY DEF GetRotation
<1>2. UNCHANGED <<now, dev, keys, codes, minted, items, issued, op, lost, crashed, ended>>
  BY DEF GetRotation, server, bounds
<1>3. /\ LetGo(m) /\ req' \in [Slots -> Request \cup {None}]
      /\ OwnCall(s) /\ req[s].stage = "done" /\ req[s].mac = m /\ req[s].reply \in Answers
      /\ OwnAgent(m) /\ Fits(req[s].kind, agent[m].phase)
  BY <1>1, GotLetsGo
<1>4. agent \in [Macs -> Agent] /\ agent[m] \in Agent
  BY DEF OInv, Shape
<1> DEFINE c == IF req[s].reply.answer = "ok"
                THEN [agent[m].cred EXCEPT !.token = req[s].reply.key, !.renew = now + RotateAfter]
                ELSE agent[m].cred
           a == [agent[m] EXCEPT !.phase = AfterRotation(m), !.cred = c]
<1>5. agent[m].cred # None /\ agent[m].cred \in Cred /\ Own(agent[m].cred.token, m)
  BY <1>1, <1>3, <1>4 DEF OwnAgent, Agent
<1>6. agent' = [agent EXCEPT ![m] = a]
  BY <1>1, <1>4 DEF Agent
<1>7. c \in Cred /\ Own(c.token, m)
  <2>1. CASE req[s].reply.answer = "ok"
    <3>1. Own(req[s].reply.key, m) /\ req[s].reply.key \in Keys
      BY <1>1, <1>3, <2>1 DEF OwnCall, Fits, Own, Of
    <3>2. now + RotateAfter \in Nat
      BY CredentialsAssumption, ShapeFacts DEF OInv
    <3>3. c \in Cred /\ c.token = req[s].reply.key
      BY <1>5, <2>1, <3>1, <3>2 DEF Cred
    <3> QED
      BY <3>1, <3>3
  <2>2. CASE req[s].reply.answer # "ok"
    BY <1>5, <2>2
  <2> QED
    BY <2>1, <2>2
<1> HIDE DEF c
<1>8. AfterRotation(m) \in {"renewing", "idle"}
  BY DEF AfterRotation
<1>9. a \in Agent /\ a.phase \in {"renewing", "idle"} /\ a.cred = c /\ c # None
  BY <1>4, <1>7, <1>8, Basics DEF Agent, Phases
<1>10. lost' \in 0..Losses /\ crashed' \in 0..Crashes
  BY <1>2 DEF OInv, Shape
<1> HIDE DEF a
<1> QED
  BY <1>2, <1>3, <1>6, <1>7, <1>9, <1>10, DaemonGoesOn

LEMMA GetReportHolds == ASSUME OInv, NEW m \in Macs, GetReport(m) PROVE OInv'
<1>1. PICK s \in Slots : Got(m, s) /\ Consume(s) /\ agent' = [agent EXCEPT ![m] = Removed]
  BY DEF GetReport
<1>2. UNCHANGED <<now, dev, keys, codes, minted, items, issued, op, lost, crashed, ended>>
  BY DEF GetReport, server, bounds
<1>3. LetGo(m) /\ req' \in [Slots -> Request \cup {None}]
  BY <1>1, GotLetsGo
<1>4. lost' \in 0..Losses /\ crashed' \in 0..Crashes
  BY <1>2 DEF OInv, Shape
<1> QED
  BY <1>1, <1>2, <1>3, <1>4, RemovedFacts, DaemonGoesOn

LEMMA UnansweredHolds == ASSUME OInv, NEW m \in Macs, Unanswered(m) PROVE OInv'
<1>1. /\ agent[m].phase \in Waiting /\ Abandon(m) /\ lost < Losses /\ lost' = lost + 1
      /\ agent' = [agent EXCEPT ![m] =
           CASE @.phase = "reporting" -> Removed
             [] @.phase \in {"rotating", "renewal"} -> [@ EXCEPT !.phase = AfterRotation(m)]
             [] OTHER -> [@ EXCEPT !.phase = "idle"]]
  BY DEF Unanswered
<1>2. UNCHANGED <<now, dev, keys, codes, minted, items, issued, op, crashed, ended>>
  BY DEF Unanswered, server
<1>3. LetGo(m) /\ req' \in [Slots -> Request \cup {None}]
  BY <1>1, AbandonLetsGo
<1>4. agent \in [Macs -> Agent] /\ agent[m] \in Agent /\ OwnAgent(m)
  BY DEF OInv, Shape
<1>5. AfterRotation(m) \in {"renewing", "idle"}
  BY DEF AfterRotation
<1>6. PICK a \in Agent :
        /\ agent' = [agent EXCEPT ![m] = a] /\ a.cred \in {agent[m].cred, None}
        /\ a.phase \in {"renewing", "idle"}
        /\ a.phase = "renewing" => a.cred = agent[m].cred /\ agent[m].phase \notin {"idle", "enrolling"}
  <2>1. CASE agent[m].phase = "reporting"
    <3>1. agent' = [agent EXCEPT ![m] = Removed]
      BY <1>1, <1>4, <2>1
    <3> QED
      BY <3>1, RemovedFacts
  <2>2. CASE agent[m].phase \in {"rotating", "renewal"}
    <3> DEFINE b == [agent[m] EXCEPT !.phase = AfterRotation(m)]
    <3>1. agent' = [agent EXCEPT ![m] = b]
      BY <1>1, <1>4, <2>2
    <3>2. b \in Agent /\ b.phase = AfterRotation(m) /\ b.cred = agent[m].cred
      BY <1>4, <1>5 DEF Agent, Phases
    <3> HIDE DEF b
    <3> QED
      BY <1>5, <2>2, <3>1, <3>2
  <2>3. CASE agent[m].phase \notin {"reporting", "rotating", "renewal"}
    <3> DEFINE b == [agent[m] EXCEPT !.phase = "idle"]
    <3>1. agent' = [agent EXCEPT ![m] = b]
      BY <1>1, <1>4, <2>3
    <3>2. b \in Agent /\ b.phase = "idle" /\ b.cred = agent[m].cred
      BY <1>4 DEF Agent, Phases
    <3> HIDE DEF b
    <3> QED
      BY <3>1, <3>2
  <2> QED
    BY <2>1, <2>2, <2>3
<1>7. lost' \in 0..Losses /\ crashed' \in 0..Crashes
  BY <1>1, <1>2, CredentialsAssumption DEF OInv, Shape
<1>8. (a.cred # None => Own(a.cred.token, m)) /\ (a.phase # "idle" => a.cred # None)
  BY <1>4, <1>6 DEF OwnAgent
<1> QED
  BY <1>2, <1>3, <1>6, <1>7, <1>8, DaemonGoesOn

LEMMA RestartHolds == ASSUME OInv, NEW m \in Macs, Restart(m) PROVE OInv'
<1>1. /\ agent[m].phase # "idle" => crashed < Crashes
      /\ crashed' = IF agent[m].phase = "idle" THEN crashed ELSE crashed + 1
      /\ IF agent[m].phase \in Waiting THEN Abandon(m) ELSE UNCHANGED req
      /\ agent' = [agent EXCEPT ![m].phase = "idle", ![m].halted = FALSE]
  BY DEF Restart
<1>2. UNCHANGED <<now, dev, keys, codes, minted, items, issued, op, lost, ended>>
  BY DEF Restart, server
<1>3. agent \in [Macs -> Agent] /\ agent[m] \in Agent /\ OwnAgent(m) /\ req \in [Slots -> Request \cup {None}]
  BY DEF OInv, Shape
<1>4. LetGo(m) /\ req' \in [Slots -> Request \cup {None}]
  <2>1. CASE agent[m].phase \in Waiting
    BY <1>1, <2>1, AbandonLetsGo
  <2>2. CASE agent[m].phase \notin Waiting
    <3>1. LetGo(m)
      BY <1>1, <2>2, NoneAwaited DEF LetGo
    <3> QED
      BY <1>1, <1>3, <2>2, <3>1
  <2> QED
    BY <2>1, <2>2
<1> DEFINE a == [agent[m] EXCEPT !.phase = "idle", !.halted = FALSE]
<1>5. agent' = [agent EXCEPT ![m] = a]
  BY <1>1, <1>3
<1>6. a \in Agent /\ a.phase = "idle" /\ a.cred = agent[m].cred
  BY <1>3 DEF Agent, Phases
<1> HIDE DEF a
<1>7. lost' \in 0..Losses /\ crashed' \in 0..Crashes
  BY <1>1, <1>2, CredentialsAssumption DEF OInv, Shape
<1>8. a.cred # None => Own(a.cred.token, m)
  BY <1>3, <1>6 DEF OwnAgent
<1> QED
  BY <1>2, <1>4, <1>5, <1>6, <1>7, <1>8, DaemonGoesOn

LEMMA StageCodeHolds == ASSUME OInv, NEW m \in Macs, StageCode(m) PROVE OInv'
<1>1. PICK c \in Codes :
        /\ agent[m].phase = "idle"
        /\ agent' = [agent EXCEPT ![m] =
             [IF @.gone THEN FreshAgent ELSE @ EXCEPT !.code = c, !.halted = FALSE]]
  BY DEF StageCode
<1>2. UNCHANGED <<now, dev, keys, codes, minted, items, issued, req, op, lost, crashed, ended>>
  BY DEF StageCode, server, bounds
<1>3. agent \in [Macs -> Agent] /\ agent[m] \in Agent /\ OwnAgent(m) /\ req \in [Slots -> Request \cup {None}]
  BY DEF OInv, Shape
<1> DEFINE b == IF agent[m].gone THEN FreshAgent ELSE agent[m]
           a == [b EXCEPT !.code = c, !.halted = FALSE]
<1>4. b \in Agent /\ b.phase = "idle" /\ b.cred \in {agent[m].cred, None}
  <2>1. FreshAgent \in Agent /\ FreshAgent.phase = "idle" /\ FreshAgent.cred = None
    BY DEF FreshAgent, Agent, Phases
  <2> QED
    BY <1>1, <1>3, <2>1
<1>5. agent' = [agent EXCEPT ![m] = a]
  BY <1>1, <1>3
<1> HIDE DEF b
<1>6. a \in Agent /\ a.phase = "idle" /\ a.cred = b.cred
  BY <1>4 DEF Agent
<1> HIDE DEF a
<1>7. LetGo(m)
  <2>1. agent[m].phase \notin Waiting
    BY <1>1 DEF Waiting
  <2> QED
    BY <1>2, <2>1, NoneAwaited DEF LetGo
<1>8. (a.cred # None => Own(a.cred.token, m)) /\ req' \in [Slots -> Request \cup {None}]
  BY <1>2, <1>3, <1>4, <1>6 DEF OwnAgent
<1>9. lost' \in 0..Losses /\ crashed' \in 0..Crashes
  BY <1>2 DEF OInv, Shape
<1> QED
  BY <1>2, <1>5, <1>6, <1>7, <1>8, <1>9, DaemonGoesOn

\* What a handler leaves of its call when it has answered.
LEMMA ReplyGives ==
  ASSUME Shape, NEW s \in Slots, req[s] # None, NEW a \in Answers, Reply(s, a)
  PROVE  /\ req' \in [Slots -> Request \cup {None}] /\ \A t \in Slots \ {s} : req'[t] = req[t]
         /\ req'[s] # None =>
              /\ req'[s].mac = req[s].mac /\ req'[s].kind = req[s].kind /\ req[s].waited
              /\ req'[s].code = req[s].code /\ req'[s].key = req[s].key
              /\ req'[s].stage = "done" /\ req'[s].reply = a
<1>1. req \in [Slots -> Request \cup {None}] /\ req[s] \in Request
  BY DEF Shape
<1> DEFINE r == [req[s] EXCEPT !.stage = "done", !.reply = a]
<1>2. req' = [req EXCEPT ![s] = IF req[s].waited THEN r ELSE None]
  BY <1>1 DEF Reply
<1>3. /\ r \in Request /\ r.mac = req[s].mac /\ r.kind = req[s].kind /\ r.code = req[s].code
      /\ r.key = req[s].key /\ r.stage = "done" /\ r.reply = a
  BY <1>1 DEF Request
<1> HIDE DEF r
<1> QED
  BY <1>1, <1>2, <1>3

\* ... or goes on to its next stage.
LEMMA ProceedGives ==
  ASSUME Shape, NEW s \in Slots, req[s] # None, NEW seen \in Seen,
         NEW stage \in {"claimed", "reissuing", "read", "minted"}, Proceed(s, stage, seen)
  PROVE  /\ req' \in [Slots -> Request \cup {None}] /\ \A t \in Slots \ {s} : req'[t] = req[t]
         /\ req'[s].mac = req[s].mac /\ req'[s].kind = req[s].kind /\ req'[s].waited = req[s].waited
         /\ req'[s].code = req[s].code /\ req'[s].key = req[s].key
         /\ req'[s].stage = stage /\ req'[s].seen = seen
<1>1. req \in [Slots -> Request \cup {None}] /\ req[s] \in Request
  BY DEF Shape
<1> DEFINE r == [req[s] EXCEPT !.stage = stage, !.seen = seen]
<1>2. req' = [req EXCEPT ![s] = r]
  BY <1>1 DEF Proceed
<1>3. /\ r \in Request /\ r.mac = req[s].mac /\ r.kind = req[s].kind /\ r.code = req[s].code
      /\ r.key = req[s].key /\ r.stage = stage /\ r.seen = seen /\ r.waited = req[s].waited
  BY <1>1 DEF Request
<1> HIDE DEF r
<1> QED
  BY <1>1, <1>2, <1>3

\* Rows whose devices and keys stay.
LEMMA RowsHold ==
  ASSUME OInv, Shape', Follows, issued' = issued,
         \A d \in Devices : dev'[d].mac = dev[d].mac /\ \A k \in RowKeys(d)' : k \in RowKeys(d) \/ Of(k, d),
         \A d \in Devices : dev'[d].status \in {"absent", "decommissioned"} =>
           dev'[d].status = dev[d].status \/ (dev'[d].status = "decommissioned" /\ Retired(d)')
  PROVE  OwnRows'
<1> SUFFICES ASSUME NEW d \in Devices PROVE OwnRow(d)'
  BY DEF OwnRows
<1>1. OwnRow(d)
  BY DEF OInv, OwnRows
<1>2. \A k \in RowKeys(d)' : Of(k, d)'
  <2> SUFFICES ASSUME NEW k \in RowKeys(d)' PROVE Of(k, d)'
    OBVIOUS
  <2>1. Of(k, d)
    BY <1>1 DEF OwnRow
  <2> QED
    BY <2>1, OfStays DEF OInv
<1>3. Retired(d) => Retired(d)'
  BY DEF Follows
<1> QED
  BY <1>1, <1>2, <1>3 DEF OwnRow

\* Codes that nobody spends, or that are gone.
LEMMA CodesHold ==
  ASSUME OInv, issued' = issued,
         \A c \in Codes : codes'[c] # None =>
           codes[c] # None /\ codes'[c].by = codes[c].by /\ codes'[c].device = codes[c].device,
         \A d \in Devices : /\ dev'[d].mac = dev[d].mac
                            /\ dev[d].status # "absent" => dev'[d].status # "absent"
  PROVE  OwnCodes'
<1> SUFFICES ASSUME NEW c \in Codes, codes'[c] # None PROVE OwnCode(c)'
  BY DEF OwnCodes
<1>1. codes[c] # None /\ OwnCode(c) /\ codes[c].device \in Devices
  BY ShapeFacts DEF OInv, OwnCodes, Enrollment
<1>2. PICK d \in Devices : d = codes[c].device /\ codes'[c].device = d
  BY <1>1
<1> QED
  BY <1>1, <1>2 DEF OwnCode

\* The codes that half-way handlers hold are there.
LEMMA HeldFacts ==
  ASSUME OInv, NEW t \in Slots, req[t] # None, req[t].stage \in {"claimed", "reissuing"}
  PROVE  /\ req[t].code \in Codes /\ codes[req[t].code] # None /\ req[t].kind = "enrol"
         /\ codes[req[t].code].by = None => Stage(t, "claimed")
<1>1. OwnCall(t) /\ req[t] \in Request
  BY ShapeFacts DEF OInv
<1>2. req[t].mac # None
  BY <1>1, Basics DEF Request
<1> QED
  BY <1>1, <1>2 DEF OwnCall, Stage

\* A handler that uses keys, turns them off or deletes them, and counts attempts.
LEMMA UsesKeys ==
  ASSUME OInv, UNCHANGED <<now, dev, items, minted, issued, op, agent, bounds, ended>>,
         Fade, keys' \in [Keys -> KeyRow \cup {None}],
         codes' \in [Codes -> Enrollment \cup {None}],
         \A c \in Codes : /\ codes'[c] # None <=> codes[c] # None
                          /\ codes[c] # None =>
                               codes'[c].by = codes[c].by /\ codes'[c].device = codes[c].device,
         req' \in [Slots -> Request \cup {None}]
  PROVE  /\ Shape' /\ Follows /\ OwnRows' /\ OwnCodes'
         /\ \A t \in Slots : req[t] # None /\ req[t].stage \in {"claimed", "reissuing"} =>
              codes'[req[t].code] # None /\ codes'[req[t].code].by = codes[req[t].code].by
<1>1. Shape'
  BY DEF OInv, Shape, bounds
<1>2. Follows
  <2>1. \A k \in Keys : keys'[k] # None => keys[k] # None /\ keys'[k].device = keys[k].device
    BY DEF Fade
  <2> QED
    BY <2>1, FollowsKeys, ShapeFacts DEF OInv
<1>3. \A d \in Devices : RowKeys(d)' = RowKeys(d)
  BY DEF RowKeys
<1>4. OwnRows'
  BY <1>1, <1>2, <1>3, RowsHold
<1>5. OwnCodes'
  BY CodesHold
<1> QED
  BY <1>1, <1>2, <1>4, <1>5, HeldFacts

\* A handler's last step: its answer is true.
LEMMA HandlerAnswers ==
  ASSUME OInv, Shape', Follows, OwnRows', OwnCodes', op' = op, agent' = agent,
         NEW s \in Slots, req[s] # None, NEW a \in Answers, Reply(s, a),
         \A t \in Slots \ {s} : req[t] # None /\ req[t].stage \in {"claimed", "reissuing"} =>
           codes'[req[t].code] # None /\ codes'[req[t].code].by = codes[req[t].code].by,
         NEW m \in Macs, m = req[s].mac,
         a.answer = "decommission" => Told(m)',
         a.answer = "ok" /\ req[s].kind \in {"enrol", "rotate"} =>
           Own(a.key, m)' /\ a.device \in Devices
  PROVE  OInv'
<1>1. /\ \A t \in Slots \ {s} : req'[t] = req[t]
      /\ req'[s] # None =>
           /\ req'[s].mac = m /\ req'[s].kind = req[s].kind /\ req[s].waited
           /\ req'[s].code = req[s].code /\ req'[s].key = req[s].key
           /\ req'[s].stage = "done" /\ req'[s].reply = a
  BY ReplyGives DEF OInv
<1>2. OwnCall(s)
  BY DEF OInv
<1>3. \A k : Own(k, m) => Own(k, m)'
  BY OwnStays DEF OInv
<1>4. req'[s] # None => OwnCall(s)'
  BY <1>1, <1>2, <1>3 DEF OwnCall
<1>5. ~Stage(s, "claimed")'
  BY <1>1 DEF Stage
<1>6. PICK busy \in SUBSET Slots : busy = {s}
  OBVIOUS
<1> QED
  BY <1>1, <1>4, <1>5, <1>6, ServerFrame

\* A handler that goes on.
LEMMA HandlerGoesOn ==
  ASSUME OInv, Shape', Follows, OwnRows', OwnCodes', op' = op, agent' = agent,
         NEW s \in Slots, req[s] # None, \A t \in Slots \ {s} : req'[t] = req[t],
         req'[s].mac = req[s].mac, req'[s].waited => req[s].waited, OwnCall(s)',
         \A t \in Slots \ {s} : req[t] # None /\ req[t].stage \in {"claimed", "reissuing"} =>
           codes'[req[t].code] # None /\ codes'[req[t].code].by = codes[req[t].code].by,
         Stage(s, "claimed")' => \A t \in Slots \ {s} : Stage(t, "claimed") => req[t].code # req'[s].code
  PROVE  OInv'
<1>1. PICK busy \in SUBSET Slots : busy = {s}
  OBVIOUS
<1>2. Stage(s, "claimed")' => \A t \in Slots : Stage(t, "claimed")' /\ req'[t].code = req'[s].code => t = s
  BY DEF Stage
<1> QED
  BY <1>1, <1>2, ServerFrame

\* Who calls with a key that is accepted calls as a device of his.
LEMMA CallerIsOwn ==
  ASSUME OInv, NEW s \in Slots, req[s] # None, req[s].kind # "enrol"
  PROVE  /\ req[s].mac \in Macs /\ req[s].key \in Keys
         /\ Accepted(req[s].key) =>
              /\ keys[req[s].key] # None /\ Caller(s) \in Devices
              /\ dev[Caller(s)].mac = req[s].mac /\ OwnRow(Caller(s))
<1>1. OwnCall(s) /\ req[s].mac \in Macs
  BY ShapeFacts DEF OInv, Request
<1>2. PICK d \in Devices : dev[d].mac = req[s].mac /\ Of(req[s].key, d)
  BY <1>1 DEF OwnCall, Own
<1>3. req[s].key \in Keys
  BY <1>2 DEF Of
<1>4. ASSUME Accepted(req[s].key)
      PROVE  keys[req[s].key] # None /\ Caller(s) = d
  <2>1. keys[req[s].key] # None /\ Resolved(req[s].key) # {}
    BY <1>4 DEF Accepted, Authenticates
  <2>2. Caller(s) \in Resolved(req[s].key)
    BY <2>1 DEF Caller
  <2>3. Caller(s) \in Devices /\ req[s].key \in RowKeys(Caller(s))
    BY <1>3, <2>2, Basics DEF Resolved, RowKeys
  <2>4. keys[req[s].key].device = Caller(s)
    BY <2>1, <2>3 DEF OInv, OwnRows, OwnRow, Of
  <2> QED
    BY <1>2, <2>1, <2>4 DEF Of
<1>5. OwnRow(d)
  BY DEF OInv, OwnRows
<1> QED
  BY <1>1, <1>2, <1>3, <1>4, <1>5

LEMMA EnrolClaimHolds == ASSUME OInv, NEW s \in Slots, EnrolClaim(s) PROVE OInv'
<1>1. /\ req[s] # None /\ req[s].stage = "sent" /\ req[s].kind = "enrol"
      /\ Claimable(req[s].code) /\ ~Claimed(req[s].code)
      /\ UNCHANGED <<now, dev, items, keys, minted, codes, issued, op, job, agent, bounds, ended>>
  BY DEF EnrolClaim, server, At, Stage
<1>2. OwnCall(s) /\ req[s] \in Request
  BY <1>1, ShapeFacts DEF OInv
<1>3. PICK m \in Macs, c \in Codes : m = req[s].mac /\ c = req[s].code
  BY <1>1, <1>2 DEF OwnCall, Request
<1>4. Fade /\ keys' \in [Keys -> KeyRow \cup {None}] /\ codes' \in [Codes -> Enrollment \cup {None}]
  BY <1>1, SameKeys DEF OInv, Shape
<1>5. CASE Reply(s, Answer("rejected"))
  <2>1. Answer("rejected") \in Answers /\ Answer("rejected").answer = "rejected"
    BY AnswerIsAnswer
  <2>2. req' \in [Slots -> Request \cup {None}]
    BY <1>1, <1>5, <2>1, ReplyGives DEF OInv
  <2>3. /\ Shape' /\ Follows /\ OwnRows' /\ OwnCodes'
        /\ \A t \in Slots : req[t] # None /\ req[t].stage \in {"claimed", "reissuing"} =>
             codes'[req[t].code] # None /\ codes'[req[t].code].by = codes[req[t].code].by
    BY <1>1, <1>4, <2>2, UsesKeys
  <2> QED
    BY <1>1, <1>3, <1>5, <2>1, <2>3, HandlerAnswers
<1>6. CASE Proceed(s, "claimed", None)
  <2>1. None \in Seen
    BY DEF Seen, KeyOrNone
  <2>2. /\ req' \in [Slots -> Request \cup {None}] /\ \A t \in Slots \ {s} : req'[t] = req[t]
        /\ req'[s].mac = req[s].mac /\ req'[s].kind = req[s].kind /\ req'[s].waited = req[s].waited
        /\ req'[s].code = req[s].code /\ req'[s].key = req[s].key
        /\ req'[s].stage = "claimed" /\ req'[s].seen = None
    BY <1>1, <1>6, <2>1, ProceedGives DEF OInv
  <2>3. /\ Shape' /\ Follows /\ OwnRows' /\ OwnCodes'
        /\ \A t \in Slots : req[t] # None /\ req[t].stage \in {"claimed", "reissuing"} =>
             codes'[req[t].code] # None /\ codes'[req[t].code].by = codes[req[t].code].by
    BY <1>1, <1>4, <2>2, UsesKeys
  <2>4. codes'[c] # None /\ codes'[c].by = None
    BY <1>1, <1>3 DEF Claimable
  <2>5. OwnCall(s)'
    BY <1>1, <1>2, <1>3, <2>2, <2>4 DEF OwnCall
  <2>6. \A t \in Slots \ {s} : Stage(t, "claimed") => req[t].code # req'[s].code
    BY <1>1, <2>2 DEF Claimed
  <2> QED
    BY <1>1, <2>2, <2>3, <2>5, <2>6, HandlerGoesOn
<1> QED
  BY <1>5, <1>6 DEF EnrolClaim

LEMMA EnrolRefusedHolds == ASSUME OInv, NEW s \in Slots, EnrolRefused(s) PROVE OInv'
<1>1. /\ req[s] # None /\ req[s].stage = "sent" /\ req[s].kind = "enrol"
      /\ UNCHANGED <<now, dev, items, keys, minted, issued, op, job, agent, bounds, ended>>
  BY DEF EnrolRefused, At, Stage
<1>2. OwnCall(s) /\ req[s] \in Request
  BY <1>1, ShapeFacts DEF OInv
<1>3. PICK m \in Macs, c \in Codes : m = req[s].mac /\ c = req[s].code
  BY <1>1, <1>2 DEF OwnCall, Request
<1>4. Fade /\ keys' \in [Keys -> KeyRow \cup {None}] /\ codes \in [Codes -> Enrollment \cup {None}]
  BY <1>1, SameKeys DEF OInv, Shape
<1>5. Answer("rejected") \in Answers /\ Answer("rejected").answer = "rejected"
  BY AnswerIsAnswer
<1>6. CASE codes[c] = None
  <2>1. Reply(s, Answer("rejected")) /\ UNCHANGED codes
    BY <1>3, <1>6 DEF EnrolRefused
  <2>2. req' \in [Slots -> Request \cup {None}]
    BY <1>1, <1>5, <2>1, ReplyGives DEF OInv
  <2>3. /\ Shape' /\ Follows /\ OwnRows' /\ OwnCodes'
        /\ \A t \in Slots : req[t] # None /\ req[t].stage \in {"claimed", "reissuing"} =>
             codes'[req[t].code] # None /\ codes'[req[t].code].by = codes[req[t].code].by
    BY <1>1, <1>4, <2>1, <2>2, UsesKeys
  <2> QED
    BY <1>1, <1>3, <1>5, <2>1, <2>3, HandlerAnswers
<1>7. CASE codes[c] # None
  <2> DEFINE n == IF codes[c].attempts < MaxAttempts THEN codes[c].attempts + 1 ELSE codes[c].attempts
             e == [codes[c] EXCEPT !.attempts = n]
  <2>1. /\ codes' = [codes EXCEPT ![c] = e]
        /\ IF MayReissue(m, c) THEN Proceed(s, "reissuing", dev[codes[c].device].key)
           ELSE Reply(s, Answer("rejected"))
    BY <1>3, <1>4, <1>7 DEF EnrolRefused
  <2>2. codes[c] \in Enrollment
    BY <1>4, <1>7
  <2>3. n \in Nat
    BY <2>2 DEF Enrollment
  <2> HIDE DEF n
  <2>4. e \in Enrollment /\ e.by = codes[c].by /\ e.device = codes[c].device
    BY <2>2, <2>3 DEF Enrollment
  <2> HIDE DEF e
  <2>5. /\ codes' \in [Codes -> Enrollment \cup {None}]
        /\ \A x \in Codes : /\ codes'[x] # None <=> codes[x] # None
                            /\ codes[x] # None => codes'[x].by = codes[x].by /\ codes'[x].device = codes[x].device
    BY <1>4, <1>7, <2>1, <2>4, Basics
  <2>6. ASSUME req' \in [Slots -> Request \cup {None}]
        PROVE  /\ Shape' /\ Follows /\ OwnRows' /\ OwnCodes'
               /\ \A t \in Slots : req[t] # None /\ req[t].stage \in {"claimed", "reissuing"} =>
                    codes'[req[t].code] # None /\ codes'[req[t].code].by = codes[req[t].code].by
    BY <1>1, <1>4, <2>5, <2>6, UsesKeys
  <2>7. CASE Reply(s, Answer("rejected"))
    <3>1. req' \in [Slots -> Request \cup {None}]
      BY <1>1, <1>5, <2>7, ReplyGives DEF OInv
    <3> QED
      BY <1>1, <1>3, <1>5, <2>6, <2>7, <3>1, HandlerAnswers
  <2>8. CASE MayReissue(m, c) /\ Proceed(s, "reissuing", dev[codes[c].device].key)
    <3>1. PICK k : k = dev[codes[c].device].key
      OBVIOUS
    <3>2. codes[c].device \in Devices
      BY <2>2 DEF Enrollment
    <3>3. k \in Keys /\ k \in Seen /\ codes[c].by = m
      BY <2>8, <3>1, <3>2, ShapeFacts DEF MayReissue, OInv, DevRow, KeyOrNone, Seen
    <3>4. /\ req' \in [Slots -> Request \cup {None}] /\ \A t \in Slots \ {s} : req'[t] = req[t]
          /\ req'[s].mac = req[s].mac /\ req'[s].kind = req[s].kind /\ req'[s].waited = req[s].waited
          /\ req'[s].code = req[s].code /\ req'[s].key = req[s].key
          /\ req'[s].stage = "reissuing" /\ req'[s].seen = k
      BY <1>1, <2>8, <3>1, <3>3, ProceedGives DEF OInv
    <3>5. codes'[c] # None /\ codes'[c].by = m
      BY <1>7, <2>5, <3>3
    <3>6. OwnCall(s)'
      BY <1>1, <1>2, <1>3, <3>3, <3>4, <3>5 DEF OwnCall
    <3>7. ~Stage(s, "claimed")'
      BY <3>4 DEF Stage
    <3> QED
      BY <1>1, <2>6, <3>4, <3>6, <3>7, HandlerGoesOn
  <2> QED
    BY <2>1, <2>7, <2>8
<1> QED
  BY <1>6, <1>7

\* A handler that uses keys and answers.
LEMMA UsesAndAnswers ==
  ASSUME OInv, UNCHANGED <<now, dev, items, minted, codes, issued, op, agent, bounds, ended>>,
         Fade, keys' \in [Keys -> KeyRow \cup {None}],
         NEW s \in Slots, req[s] # None, NEW a \in Answers, Reply(s, a),
         a.answer = "decommission" => Told(req[s].mac),
         a.answer = "ok" => req[s].kind \notin {"enrol", "rotate"}
  PROVE  OInv'
<1>1. PICK m \in Macs : m = req[s].mac
  BY ShapeFacts DEF OInv, Request
<1>2. req' \in [Slots -> Request \cup {None}] /\ codes' \in [Codes -> Enrollment \cup {None}]
  BY ReplyGives DEF OInv, Shape
<1>3. Shape' /\ Follows /\ OwnRows' /\ OwnCodes'
  BY <1>2, UsesKeys
<1>4. Told(m) => Told(m)'
  BY <1>3, ToldHolds
<1> QED
  BY <1>1, <1>3, <1>4, HeldFacts, HandlerAnswers

LEMMA RefuseHolds ==
  ASSUME OInv, NEW s \in Slots, NEW kind \in {"sync", "rotate", "report"}, Refuse(s, kind)
  PROVE  OInv'
<1>1. /\ req[s] # None /\ req[s].kind = kind
      /\ UNCHANGED <<now, dev, items, minted, codes, issued, op, agent, bounds, ended>>
      /\ IF Authenticates(req[s].key) THEN Touch(req[s].key) ELSE UNCHANGED keys
      /\ Reply(s, Answer(IF kind = "rotate" THEN "failed" ELSE "halt"))
  BY DEF Refuse, At, Stage
<1>2. req[s].key \in Keys
  BY <1>1, CallerIsOwn
<1>3. Fade /\ keys' \in [Keys -> KeyRow \cup {None}]
  BY <1>1, <1>2, TouchFacts, SameKeys DEF Authenticates, OInv
<1>4. /\ Answer(IF kind = "rotate" THEN "failed" ELSE "halt") \in Answers
      /\ Answer(IF kind = "rotate" THEN "failed" ELSE "halt").answer \in {"failed", "halt"}
  BY AnswerIsAnswer
<1> QED
  BY <1>1, <1>3, <1>4, UsesAndAnswers

LEMMA TellDecommissionedHolds ==
  ASSUME OInv, NEW s \in Slots, NEW kind \in {"sync", "rotate"}, TellDecommissioned(s, kind)
  PROVE  OInv'
<1>1. /\ req[s] # None /\ req[s].kind = kind
      /\ Accepted(req[s].key) /\ dev[Caller(s)].status = "decommissioned"
      /\ UNCHANGED <<now, dev, items, minted, codes, issued, op, agent, bounds, ended>>
      /\ Touch(req[s].key)
      /\ Reply(s, Answer(IF kind = "rotate" THEN "failed" ELSE "decommission"))
  BY DEF TellDecommissioned, At, Stage
<1>2. /\ req[s].key \in Keys /\ keys[req[s].key] # None /\ Caller(s) \in Devices
      /\ dev[Caller(s)].mac = req[s].mac /\ OwnRow(Caller(s))
  BY <1>1, CallerIsOwn
<1>3. Fade /\ keys' \in [Keys -> KeyRow \cup {None}]
  BY <1>1, <1>2, TouchFacts DEF OInv
<1>4. /\ Answer(IF kind = "rotate" THEN "failed" ELSE "decommission") \in Answers
      /\ Answer(IF kind = "rotate" THEN "failed" ELSE "decommission").answer \in {"failed", "decommission"}
  BY AnswerIsAnswer
<1>5. Told(req[s].mac)
  BY <1>1, <1>2 DEF OwnRow, Told
<1> QED
  BY <1>1, <1>3, <1>4, <1>5, UsesAndAnswers

LEMMA ReportHolds == ASSUME OInv, NEW s \in Slots, Report(s) PROVE OInv'
<1>1. /\ req[s] # None /\ req[s].kind = "report" /\ Accepted(req[s].key)
      /\ UNCHANGED <<now, dev, items, minted, codes, issued, op, agent, bounds, ended>>
      /\ Touch(req[s].key) \/ keys' = TurnOff(keys, RowKeys(Caller(s)))
      /\ Reply(s, Answer("ok"))
  BY DEF Report, At, Stage
<1>2. req[s].key \in Keys /\ keys[req[s].key] # None
  BY <1>1, CallerIsOwn
<1>3. Fade /\ keys' \in [Keys -> KeyRow \cup {None}]
  BY <1>1, <1>2, TouchFacts, TurnOffFacts DEF OInv
<1> QED
  BY <1>1, <1>3, AnswerIsAnswer, UsesAndAnswers

\* A handler that uses a key and reads a row.
LEMMA UsesAndReads ==
  ASSUME OInv, UNCHANGED <<now, dev, items, minted, codes, issued, op, agent, bounds, ended>>,
         Fade, keys' \in [Keys -> KeyRow \cup {None}],
         NEW s \in Slots, req[s] # None, NEW w \in Seen, Proceed(s, "read", w),
         \/ req[s].kind = "sync" /\ w \in [device : Devices, status : Statuses]
         \/ /\ req[s].kind = "rotate" /\ w \in [device : Devices, key : Keys]
            /\ dev[w.device].mac = req[s].mac /\ Of(w.key, w.device)
  PROVE  OInv'
<1>1. PICK m \in Macs : m = req[s].mac
  BY ShapeFacts DEF OInv, Request
<1>2. /\ req' \in [Slots -> Request \cup {None}] /\ \A t \in Slots \ {s} : req'[t] = req[t]
      /\ req'[s].mac = req[s].mac /\ req'[s].kind = req[s].kind /\ req'[s].waited = req[s].waited
      /\ req'[s].code = req[s].code /\ req'[s].key = req[s].key
      /\ req'[s].stage = "read" /\ req'[s].seen = w
  BY ProceedGives DEF OInv
<1>3. codes' \in [Codes -> Enrollment \cup {None}]
  BY DEF OInv, Shape
<1>4. Shape' /\ Follows /\ OwnRows' /\ OwnCodes'
  BY <1>2, <1>3, UsesKeys
<1>5. OwnCall(s)
  BY DEF OInv
<1>6. PICK k : k = req[s].key
  OBVIOUS
<1>7. Own(k, m) => Own(k, m)'
  BY <1>4, OwnStays DEF OInv
<1>8. req[s].kind = "rotate" => Turning(s)'
  <2> SUFFICES ASSUME req[s].kind = "rotate" PROVE Turning(s)'
    OBVIOUS
  <2>1. PICK d \in Devices : d = w.device /\ dev[d].mac = m /\ Of(w.key, d)
    BY <1>1
  <2>2. Of(w.key, d)'
    BY <1>4, <2>1, OfStays DEF OInv
  <2> QED
    BY <1>1, <1>2, <2>1, <2>2 DEF Turning
<1>9. OwnCall(s)'
  BY <1>1, <1>2, <1>5, <1>6, <1>7, <1>8 DEF OwnCall
<1>10. ~Stage(s, "claimed")'
  BY <1>2 DEF Stage
<1> QED
  BY <1>2, <1>4, <1>9, <1>10, HeldFacts, HandlerGoesOn

LEMMA SyncReadHolds == ASSUME OInv, NEW s \in Slots, SyncRead(s) PROVE OInv'
<1> DEFINE w == [device |-> Caller(s), status |-> dev[Caller(s)].status]
<1>1. /\ req[s] # None /\ req[s].kind = "sync" /\ Accepted(req[s].key)
      /\ UNCHANGED <<now, dev, items, minted, codes, issued, op, agent, bounds, ended>>
      /\ Touch(req[s].key) /\ Proceed(s, "read", w)
  BY DEF SyncRead, At, Stage
<1>2. req[s].key \in Keys /\ keys[req[s].key] # None /\ Caller(s) \in Devices
  BY <1>1, CallerIsOwn
<1>3. Fade /\ keys' \in [Keys -> KeyRow \cup {None}]
  BY <1>1, <1>2, TouchFacts DEF OInv
<1>4. w \in [device : Devices, status : Statuses] /\ w \in Seen
  BY <1>2, ShapeFacts DEF OInv, DevRow, Seen
<1> HIDE DEF w
<1> QED
  BY <1>1, <1>3, <1>4, UsesAndReads

LEMMA RotateReadHolds == ASSUME OInv, NEW s \in Slots, RotateRead(s) PROVE OInv'
<1> DEFINE d == Caller(s)
           w == [device |-> d, key |-> dev[d].key]
<1>1. /\ req[s] # None /\ req[s].kind = "rotate" /\ Accepted(req[s].key)
      /\ UNCHANGED <<now, dev, items, minted, codes, issued, op, agent, bounds, ended>>
      /\ Touch(req[s].key)
      /\ IF dev[d].key = None \/ OverlapOpen(d) THEN Reply(s, Answer("failed")) ELSE Proceed(s, "read", w)
  BY DEF RotateRead, At, Stage
<1>2. /\ req[s].key \in Keys /\ keys[req[s].key] # None /\ d \in Devices
      /\ dev[d].mac = req[s].mac /\ OwnRow(d)
  BY <1>1, CallerIsOwn
<1> HIDE DEF d
<1>3. Fade /\ keys' \in [Keys -> KeyRow \cup {None}]
  BY <1>1, <1>2, TouchFacts DEF OInv
<1>4. CASE Reply(s, Answer("failed"))
  BY <1>1, <1>3, <1>4, AnswerIsAnswer, UsesAndAnswers
<1>5. CASE dev[d].key # None /\ Proceed(s, "read", w)
  <2>1. dev[d].key \in Keys /\ Of(dev[d].key, d)
    BY <1>2, <1>5, ShapeFacts DEF OInv, DevRow, KeyOrNone, OwnRow, RowKeys
  <2>2. w \in [device : Devices, key : Keys] /\ w.device = d /\ w.key = dev[d].key /\ w \in Seen
    BY <1>2, <2>1 DEF Seen
  <2> HIDE DEF w
  <2>3. dev[w.device].mac = req[s].mac /\ Of(w.key, w.device)
    BY <1>2, <2>1, <2>2
  <2> QED
    BY <1>1, <1>3, <1>5, <2>2, <2>3, UsesAndReads
<1> QED
  BY <1>1, <1>4, <1>5

LEMMA SyncWriteHolds == ASSUME OInv, NEW s \in Slots, SyncWrite(s) PROVE OInv'
<1>1. /\ req[s] # None /\ req[s].stage = "read" /\ req[s].kind = "sync"
      /\ UNCHANGED <<now, items, keys, minted, codes, issued, op, agent, lost, crashed, ended>>
  BY DEF SyncWrite, At, Stage, bounds
<1>2. OwnCall(s) /\ req[s] \in Request
  BY <1>1, ShapeFacts DEF OInv
<1>3. PICK m \in Macs, d \in Devices : m = req[s].mac /\ d = req[s].seen.device
  BY <1>1, <1>2 DEF OwnCall, Request
<1> DEFINE a == [Answer("ok") EXCEPT !.item = PendingDesired(d)]
<1>4. dev \in [Devices -> DevRow]
  BY DEF OInv, Shape
<1>5. Reply(s, a) /\ dev' \in {dev, [dev EXCEPT ![d].status = "active"]}
  BY <1>3 DEF SyncWrite
<1>6. a \in Answers /\ a.answer = "ok"
  <2>1. PendingDesired(d) \in BOOLEAN
    BY DEF PendingDesired
  <2>2. Answer("ok") \in Answers /\ Answer("ok").answer = "ok"
    BY AnswerIsAnswer
  <2> QED
    BY <2>1, <2>2 DEF Answers
<1> HIDE DEF a
<1>7. dev' \in [Devices -> DevRow]
  BY <1>3, <1>4, <1>5 DEF DevRow, Statuses, Live
<1>8. \A e \in Devices : /\ dev'[e].mac = dev[e].mac /\ dev'[e].key = dev[e].key /\ dev'[e].prev = dev[e].prev
                         /\ dev'[e].status \in {dev[e].status, "active"}
  BY <1>3, <1>4, <1>5 DEF DevRow
<1>9. req' \in [Slots -> Request \cup {None}]
  BY <1>1, <1>5, <1>6, ReplyGives DEF OInv
<1>10. Shape'
  BY <1>1, <1>7, <1>9 DEF OInv, Shape
<1>11. \A e \in Devices : RowKeys(e)' = RowKeys(e) /\ Retired(e)' = Retired(e)
  BY <1>1, <1>8 DEF RowKeys, Retired
<1>12. Follows
  <2>1. minted \in Nat
    BY ShapeFacts DEF OInv
  <2> QED
    BY <1>1, <1>8, <1>11, <2>1 DEF Follows
<1>13. OwnRows'
  BY <1>1, <1>8, <1>10, <1>11, <1>12, RowsHold
<1>14. OwnCodes'
  BY <1>1, <1>8, CodesHold
<1> QED
  BY <1>1, <1>3, <1>5, <1>6, <1>10, <1>12, <1>13, <1>14, HeldFacts, HandlerAnswers

LEMMA RotateMintHolds == ASSUME OInv, NEW s \in Slots, RotateMint(s) PROVE OInv'
<1> DEFINE w == [device |-> req[s].seen.device, key |-> req[s].seen.key, new |-> minted + 1]
<1>1. /\ req[s] # None /\ req[s].stage = "read" /\ req[s].kind = "rotate"
      /\ UNCHANGED <<now, dev, items, codes, issued, op, agent, lost, crashed, ended>>
      /\ minted + 1 \in Keys /\ keys' = Mint(req[s].seen.device, keys) /\ minted' = minted + 1
      /\ Proceed(s, "minted", w)
  BY DEF RotateMint, At, Stage, bounds
<1>2. OwnCall(s) /\ req[s] \in Request
  BY <1>1, ShapeFacts DEF OInv
<1>3. Turning(s) /\ req[s].seen \in [device : Devices, key : Keys]
  BY <1>1, <1>2 DEF OwnCall
<1>4. PICK m \in Macs, d \in Devices, old \in Keys :
        /\ m = req[s].mac /\ d = req[s].seen.device /\ old = req[s].seen.key
        /\ dev[d].mac = m /\ Of(old, d)
  BY <1>2, <1>3 DEF Turning, Request
<1>5. /\ w \in [device : Devices, key : Keys, new : Keys] /\ w \in Seen
      /\ w.device = d /\ w.key = old /\ w.new = minted + 1
  BY <1>1, <1>4 DEF Seen
<1> HIDE DEF w
<1>6. /\ req' \in [Slots -> Request \cup {None}] /\ \A t \in Slots \ {s} : req'[t] = req[t]
      /\ req'[s].mac = req[s].mac /\ req'[s].kind = req[s].kind /\ req'[s].waited = req[s].waited
      /\ req'[s].code = req[s].code /\ req'[s].key = req[s].key
      /\ req'[s].stage = "minted" /\ req'[s].seen = w
  BY <1>1, <1>5, ProceedGives DEF OInv
<1>7. keys \in [Keys -> KeyRow \cup {None}] /\ minted \in Nat
  BY ShapeFacts DEF OInv, Shape
<1>8. /\ keys' \in [Keys -> KeyRow \cup {None}]
      /\ \A k \in Keys \ {minted + 1} : keys'[k] = keys[k]
      /\ keys'[minted + 1] # None /\ keys'[minted + 1].device = d
  BY <1>1, <1>4, <1>7, MintFacts
<1>9. Shape'
  BY <1>1, <1>6, <1>8 DEF OInv, Shape
<1>10. \A e \in Devices : RowKeys(e)' = RowKeys(e) /\ Retired(e)' = Retired(e)
  BY <1>1 DEF RowKeys, Retired
<1>11. Follows
  <2>1. \A k \in Keys : k <= minted => k # minted + 1
    BY <1>7, Basics
  <2> QED
    BY <1>1, <1>7, <1>8, <1>10, <2>1 DEF Follows
<1>12. OwnRows'
  BY <1>1, <1>9, <1>10, <1>11, RowsHold
<1>13. OwnCodes'
  BY <1>1, CodesHold
<1>14. PICK new \in Keys : new = w.new /\ Of(old, d)' /\ Of(new, d)'
  <2>1. Of(old, d)'
    BY <1>4, <1>9, <1>11, OfStays DEF OInv
  <2>2. PICK new \in Keys : new = minted + 1
    BY <1>1
  <2>3. new <= minted' /\ keys'[new].device = d
    BY <1>1, <1>7, <1>8, <2>2
  <2>4. Of(new, d)'
    BY <2>3 DEF Of
  <2>5. new = w.new
    BY <1>5, <2>2
  <2> QED
    BY <2>1, <2>4, <2>5
<1>15. OwnCall(s)'
  <2>1. PICK k : k = req[s].key
    OBVIOUS
  <2>2. Own(k, m)'
    BY <1>1, <1>2, <1>4, <1>9, <1>11, <2>1, OwnStays DEF OInv, OwnCall
  <2>3. Turning(s)'
    BY <1>1, <1>4, <1>5, <1>6, <1>14 DEF Turning
  <2> QED
    BY <1>1, <1>2, <1>4, <1>5, <1>6, <1>14, <2>1, <2>2, <2>3 DEF OwnCall
<1>16. ~Stage(s, "claimed")'
  BY <1>6 DEF Stage
<1> QED
  BY <1>1, <1>6, <1>9, <1>11, <1>12, <1>13, <1>15, <1>16, HeldFacts, HandlerGoesOn

LEMMA RotateCommitHolds == ASSUME OInv, NEW s \in Slots, RotateCommit(s) PROVE OInv'
<1>1. /\ req[s] # None /\ req[s].stage = "minted" /\ req[s].kind = "rotate"
      /\ UNCHANGED <<now, items, minted, codes, issued, op, agent, lost, crashed, ended>>
  BY DEF RotateCommit, At, Stage, bounds
<1>2. OwnCall(s) /\ req[s] \in Request
  BY <1>1, ShapeFacts DEF OInv
<1>3. Turning(s) /\ req[s].seen \in [device : Devices, key : Keys, new : Keys] /\ Of(req[s].seen.new, req[s].seen.device)
  BY <1>1, <1>2 DEF OwnCall
<1>4. PICK m \in Macs, d \in Devices, old \in Keys, new \in Keys :
        /\ m = req[s].mac /\ d = req[s].seen.device /\ old = req[s].seen.key /\ new = req[s].seen.new
        /\ dev[d].mac = m /\ Of(old, d) /\ Of(new, d)
  BY <1>2, <1>3 DEF Turning, Request
<1> DEFINE a == [Answer("ok") EXCEPT !.key = new, !.device = d]
           row == [dev[d] EXCEPT !.key = new, !.prev = old, !.until = now + Overlap]
           k1 == [keys[old] EXCEPT !.expires = now + Overlap]
<1>5. /\ dev \in [Devices -> DevRow] /\ dev[d] \in DevRow /\ keys \in [Keys -> KeyRow \cup {None}]
      /\ now + Overlap \in Nat /\ minted \in Nat
  BY ShapeFacts, CredentialsAssumption DEF OInv, Shape
<1>6. /\ keys' = IF keys[old] = None THEN keys ELSE [keys EXCEPT ![old] = k1]
      /\ dev' = [dev EXCEPT ![d] = row] /\ Reply(s, a)
  BY <1>4, <1>5 DEF RotateCommit, KeyRow, DevRow
<1>7. a \in Answers /\ a.answer = "ok" /\ a.key = new /\ a.device = d
  BY DEF Answer, Answers, KeyOrNone
<1>8. /\ row \in DevRow /\ row.mac = dev[d].mac /\ row.key = new /\ row.prev = old /\ row.status = dev[d].status
  BY <1>5 DEF DevRow, KeyOrNone
<1>9. keys[old] # None => k1 \in KeyRow /\ k1.device = keys[old].device
  BY <1>5 DEF KeyRow
<1> HIDE DEF a, row, k1
<1>10. /\ dev' \in [Devices -> DevRow] /\ dev'[d] = row /\ \A e \in Devices \ {d} : dev'[e] = dev[e]
       /\ \A e \in Devices : dev'[e].mac = dev[e].mac /\ dev'[e].status = dev[e].status
  BY <1>5, <1>6, <1>8
<1>11. /\ keys' \in [Keys -> KeyRow \cup {None}]
       /\ \A k \in Keys : keys'[k] # None => keys[k] # None /\ keys'[k].device = keys[k].device
  BY <1>5, <1>6, <1>9
<1>12. req' \in [Slots -> Request \cup {None}]
  BY <1>1, <1>6, <1>7, ReplyGives DEF OInv
<1>13. Shape'
  BY <1>1, <1>10, <1>11, <1>12 DEF OInv, Shape
<1>14. \A e \in Devices : Retired(e)' = Retired(e) /\ \A k \in RowKeys(e)' : k \in RowKeys(e) \/ Of(k, e)
  <2> SUFFICES ASSUME NEW e \in Devices
               PROVE  Retired(e)' = Retired(e) /\ \A k \in RowKeys(e)' : k \in RowKeys(e) \/ Of(k, e)
    OBVIOUS
  <2>1. Retired(e)' = Retired(e)
    BY <1>1 DEF Retired
  <2>2. CASE e = d
    BY <1>4, <1>8, <1>10, <2>1, <2>2 DEF RowKeys
  <2>3. CASE e # d
    BY <1>10, <2>1, <2>3 DEF RowKeys
  <2> QED
    BY <2>2, <2>3
<1>15. Follows
  BY <1>1, <1>5, <1>10, <1>11, <1>14 DEF Follows
<1>16. OwnRows'
  BY <1>1, <1>10, <1>13, <1>14, <1>15, RowsHold
<1>17. OwnCodes'
  BY <1>1, <1>10, CodesHold
<1>18. Own(new, m)'
  <2>1. Own(new, m)
    BY <1>4 DEF Own
  <2> QED
    BY <1>13, <1>15, <2>1, OwnStays DEF OInv
<1> QED
  BY <1>1, <1>4, <1>6, <1>7, <1>13, <1>15, <1>16, <1>17, <1>18, HeldFacts, HandlerAnswers

\* A Mac enrols as a device that is nobody's or its own, with the code of the device.
LEMMA IssueHolds ==
  ASSUME OInv, NEW s \in Slots, req[s] # None, NEW m \in Macs, m = req[s].mac,
         NEW c \in Codes, c = req[s].code, codes[c] # None, NEW d \in Devices, d = codes[c].device,
         dev[d].mac \in {None, m}, UNCHANGED <<now, items, issued, op, agent, bounds, ended>>,
         NEW ks \in [Keys -> KeyRow \cup {None}], \A k \in Keys : ks[k] = keys[k] \/ ks[k] = None,
         Issue(s, d, ks),
         codes' \in [Codes -> Enrollment \cup {None}], \A e \in Codes \ {c} : codes'[e] = codes[e],
         codes'[c] # None /\ codes'[c].device = d /\ codes'[c].by = m,
         \A t \in Slots \ {s} : req[t] # None /\ req[t].stage \in {"claimed", "reissuing"} /\ req[t].code = c =>
           codes[c].by = m
  PROVE  OInv'
<1> DEFINE new == minted + 1
           a == [Answer("ok") EXCEPT !.key = new, !.device = d]
           row == [dev[d] EXCEPT !.status = "enrolled", !.mac = m, !.key = new]
<1>1. /\ dev \in [Devices -> DevRow] /\ dev[d] \in DevRow /\ minted \in Nat /\ new \in Keys
  BY ShapeFacts DEF OInv, Shape, Issue
<1>2. keys' = Mint(d, ks) /\ minted' = new /\ dev' = [dev EXCEPT ![d] = row] /\ Reply(s, a)
  BY <1>1 DEF Issue
<1>3. a \in Answers /\ a.answer = "ok" /\ a.key = new /\ a.device = d
  BY <1>1 DEF Answer, Answers, KeyOrNone
<1>4. row \in DevRow /\ row.status = "enrolled" /\ row.mac = m /\ row.key = new /\ row.prev = dev[d].prev
  BY <1>1 DEF DevRow, Statuses, Live, KeyOrNone
<1>5. /\ keys' \in [Keys -> KeyRow \cup {None}] /\ \A k \in Keys \ {new} : keys'[k] = ks[k]
      /\ keys'[new] # None /\ keys'[new].device = d
  BY <1>1, <1>2, MintFacts
<1> HIDE DEF a, row
<1>6. dev' \in [Devices -> DevRow] /\ dev'[d] = row /\ \A e \in Devices \ {d} : dev'[e] = dev[e]
  BY <1>1, <1>2, <1>4
<1>7. req' \in [Slots -> Request \cup {None}]
  BY <1>2, <1>3, ReplyGives DEF OInv
<1>8. Shape'
  BY <1>1, <1>2, <1>5, <1>6, <1>7 DEF OInv, Shape, bounds
<1>9. \A e \in Devices : Retired(e)' = Retired(e)
  BY DEF Retired
<1>10. Follows
  <2>1. \A k \in Keys : k <= minted => k # new
    BY <1>1, Basics
  <2>2. \A e \in Devices : /\ dev[e].mac # None => dev'[e].mac = dev[e].mac
                           /\ dev[e].status # "absent" => dev'[e].status # "absent"
    BY <1>4, <1>6
  <2>3. \A k \in Keys : k <= minted /\ keys'[k] # None => keys[k] # None /\ keys'[k].device = keys[k].device
    BY <1>5, <2>1
  <2>4. minted <= minted'
    BY <1>1, <1>2
  <2> QED
    BY <1>9, <2>2, <2>3, <2>4 DEF Follows
<1>11. PICK n \in Keys : n = new
  BY <1>1
<1>12. Of(n, d)'
  <2>1. n \in Keys /\ n \in Nat /\ minted' = n
    BY <1>1, <1>2, <1>11
  <2>2. n <= minted'
    BY <2>1
  <2>3. keys'[n].device = d
    BY <1>5, <1>11
  <2> QED
    BY <2>1, <2>2, <2>3 DEF Of
<1> HIDE DEF new
<1>13. OwnCode(c)
  BY DEF OInv, OwnCodes
<1>14. ASSUME NEW e \in Devices PROVE OwnRow(e)'
  <2>1. OwnRow(e)
    BY DEF OInv, OwnRows
  <2>2. \A k : Of(k, e) => Of(k, e)'
    BY <1>8, <1>10, OfStays DEF OInv
  <2>3. CASE e = d
    <3>1. c \in Nat \ {0} /\ c <= issued /\ issued' = issued
      BY <1>13, Basics DEF OwnCode
    <3>2. issued' # 0
      BY <3>1
    <3>3. \A k \in RowKeys(d)' : k = n \/ k \in RowKeys(d)
      BY <1>4, <1>6, <1>11 DEF RowKeys
    <3>4. \A k \in RowKeys(d)' : Of(k, d)'
      BY <1>12, <2>1, <2>2, <2>3, <3>3 DEF OwnRow
    <3> QED
      BY <1>4, <1>6, <2>3, <3>2, <3>4 DEF OwnRow
  <2>4. CASE e # d
    <3>1. dev'[e] = dev[e] /\ RowKeys(e)' = RowKeys(e) /\ Retired(e)' = Retired(e)
      BY <1>6, <1>9, <2>4 DEF RowKeys
    <3> QED
      BY <2>1, <2>2, <3>1 DEF OwnRow
  <2> QED
    BY <2>3, <2>4
<1>15. OwnRows'
  BY <1>14 DEF OwnRows
<1>16. \A e \in Codes : /\ codes'[e] # None <=> codes[e] # None
                        /\ codes[e] # None => codes'[e].device = codes[e].device
  OBVIOUS
<1>17. ASSUME NEW e \in Codes, codes'[e] # None PROVE OwnCode(e)'
  <2>1. codes[e] # None /\ OwnCode(e) /\ codes'[e].device = codes[e].device /\ codes[e].device \in Devices
    BY <1>16, <1>17, ShapeFacts DEF OInv, OwnCodes, Enrollment
  <2>2. \A f \in Codes : codes'[f] # None /\ codes'[f].device = codes'[e].device => f = e
    BY <1>16, <2>1 DEF OwnCode
  <2>3. CASE e = c
    <3>1. dev'[d].status # "absent" /\ dev'[d].mac = m
      BY <1>4, <1>6
    <3> QED
      BY <2>1, <2>2, <2>3, <3>1 DEF OwnCode
  <2>4. CASE e # c
    <3>1. codes[e].device # d /\ codes'[e] = codes[e]
      BY <1>13, <2>1, <2>4 DEF OwnCode
    <3>2. PICK g \in Devices : g = codes[e].device /\ dev'[g] = dev[g]
      BY <1>6, <2>1, <3>1
    <3> QED
      BY <2>1, <2>2, <3>1, <3>2 DEF OwnCode
  <2> QED
    BY <2>3, <2>4
<1>18. OwnCodes'
  BY <1>17 DEF OwnCodes
<1>19. Own(n, m)'
  <2>1. dev'[d].mac = m
    BY <1>4, <1>6
  <2> QED
    BY <1>12, <2>1 DEF Own
<1>20. \A t \in Slots \ {s} : req[t] # None /\ req[t].stage \in {"claimed", "reissuing"} =>
         codes'[req[t].code] # None /\ codes'[req[t].code].by = codes[req[t].code].by
  <2> SUFFICES ASSUME NEW t \in Slots \ {s}, req[t] # None, req[t].stage \in {"claimed", "reissuing"}
               PROVE  codes'[req[t].code] # None /\ codes'[req[t].code].by = codes[req[t].code].by
    OBVIOUS
  <2>1. PICK e \in Codes : e = req[t].code /\ codes[e] # None
    BY HeldFacts
  <2> QED
    BY <2>1
<1> QED
  BY <1>2, <1>3, <1>8, <1>10, <1>11, <1>15, <1>18, <1>19, <1>20, HandlerAnswers

LEMMA EnrolCommitHolds == ASSUME OInv, NEW s \in Slots, EnrolCommit(s) PROVE OInv'
<1>1. /\ req[s] # None /\ req[s].stage = "claimed" /\ req[s].kind = "enrol"
      /\ UNCHANGED <<now, items, issued, op, agent, bounds, ended>>
  BY DEF EnrolCommit, At, Stage
<1>2. OwnCall(s) /\ req[s] \in Request
  BY <1>1, ShapeFacts DEF OInv
<1>3. PICK m \in Macs, c \in Codes : m = req[s].mac /\ c = req[s].code /\ codes[c] # None /\ codes[c].by = None
  BY <1>1, <1>2 DEF OwnCall, Request
<1>4. codes \in [Codes -> Enrollment \cup {None}] /\ keys \in [Keys -> KeyRow \cup {None}] /\ codes[c] \in Enrollment
  BY <1>3 DEF OInv, Shape
<1>5. PICK d \in Devices : d = codes[c].device
  BY <1>4 DEF Enrollment
<1> DEFINE e == [codes[c] EXCEPT !.by = m]
<1>6. e \in Enrollment /\ e.device = d /\ e.by = m
  BY <1>4, <1>5 DEF Enrollment
<1>7. codes' = [codes EXCEPT ![c] = e] /\ Issue(s, d, keys)
  BY <1>3, <1>4, <1>5 DEF EnrolCommit, Enrollment
<1> HIDE DEF e
<1>8. /\ codes' \in [Codes -> Enrollment \cup {None}] /\ \A x \in Codes \ {c} : codes'[x] = codes[x]
      /\ codes'[c] # None /\ codes'[c].device = d /\ codes'[c].by = m
  BY <1>4, <1>6, <1>7, Basics
<1>9. dev[d].mac = None
  BY <1>3, <1>5 DEF OInv, OwnCodes, OwnCode
<1>10. \A t \in Slots \ {s} : req[t] # None /\ req[t].stage \in {"claimed", "reissuing"} => req[t].code # c
  <2> SUFFICES ASSUME NEW t \in Slots \ {s}, req[t] # None, req[t].stage \in {"claimed", "reissuing"}, req[t].code = c
               PROVE  FALSE
    OBVIOUS
  <2>1. Stage(t, "claimed") /\ Stage(s, "claimed")
    BY <1>1, <1>3, HeldFacts DEF Stage
  <2> QED
    BY <1>3, <2>1 DEF OInv, Single
<1> QED
  BY <1>1, <1>3, <1>4, <1>5, <1>7, <1>8, <1>9, <1>10, IssueHolds

LEMMA EnrolReissueHolds == ASSUME OInv, NEW s \in Slots, EnrolReissue(s) PROVE OInv'
<1>1. /\ req[s] # None /\ req[s].stage = "reissuing" /\ req[s].kind = "enrol"
      /\ UNCHANGED <<now, items, codes, issued, op, agent, bounds, ended>>
  BY DEF EnrolReissue, At, Stage
<1>2. OwnCall(s) /\ req[s] \in Request
  BY <1>1, ShapeFacts DEF OInv
<1>3. PICK m \in Macs, c \in Codes, old \in Keys :
        m = req[s].mac /\ c = req[s].code /\ old = req[s].seen /\ codes[c] # None /\ codes[c].by = m
  BY <1>1, <1>2 DEF OwnCall, Request
<1>4. codes \in [Codes -> Enrollment \cup {None}] /\ keys \in [Keys -> KeyRow \cup {None}] /\ codes[c] \in Enrollment
  BY <1>3 DEF OInv, Shape
<1>5. PICK d \in Devices : d = codes[c].device
  BY <1>4 DEF Enrollment
<1>6. dev[d].mac = m
  BY <1>3, <1>5 DEF OInv, OwnCodes, OwnCode
<1>7. CASE Reply(s, Answer("rejected")) /\ UNCHANGED <<dev, keys, minted>>
  <2>1. Fade /\ keys' \in [Keys -> KeyRow \cup {None}]
    BY <1>7, SameKeys DEF OInv
  <2>2. Answer("rejected") \in Answers /\ Answer("rejected").answer = "rejected"
    BY AnswerIsAnswer
  <2> QED
    BY <1>1, <1>7, <2>1, <2>2, UsesAndAnswers
<1>8. CASE Issue(s, d, [keys EXCEPT ![old] = None])
  <2> DEFINE ks == [keys EXCEPT ![old] = None]
  <2>1. ks \in [Keys -> KeyRow \cup {None}] /\ \A k \in Keys : ks[k] = keys[k] \/ ks[k] = None
    BY <1>4
  <2>2. Issue(s, d, ks)
    BY <1>8
  <2> HIDE DEF ks
  <2>3. codes' \in [Codes -> Enrollment \cup {None}] /\ codes' = codes
    BY <1>1, <1>4
  <2> QED
    BY <1>1, <1>3, <1>5, <1>6, <2>1, <2>2, <2>3, IssueHolds
<1> QED
  BY <1>3, <1>5, <1>7, <1>8 DEF EnrolReissue

LEMMA HandleHolds == ASSUME OInv, NEW s \in Slots, Handle(s) PROVE OInv'
BY EnrolClaimHolds, EnrolCommitHolds, EnrolRefusedHolds, EnrolReissueHolds, RefuseHolds, TellDecommissionedHolds,
   SyncReadHolds, SyncWriteHolds, RotateReadHolds, RotateMintHolds, RotateCommitHolds, ReportHolds DEF Handle

\* A step that no call sees.
LEMMA StillFrame ==
  ASSUME OInv, Shape', Follows, OwnRows', OwnCodes', Clicked' \/ op' = op, agent' = agent, req' = req,
         \A t \in Slots : req[t] # None /\ req[t].stage \in {"claimed", "reissuing"} =>
           codes'[req[t].code] # None /\ codes'[req[t].code].by = codes[req[t].code].by
  PROVE  OInv'
<1>1. PICK busy \in SUBSET Slots : busy = {}
  OBVIOUS
<1> QED
  BY <1>1, ServerFrame

\* No row, key or code changes.
LEMMA NothingMoves ==
  ASSUME OInv, UNCHANGED <<dev, keys, minted, codes, issued, req, agent, lost, crashed, ended>>,
         now' \in 0..Horizon, items' \subseteq Devices, op' \in Op \cup {None}, Clicked' \/ op' = op
  PROVE  OInv'
<1>1. Shape'
  BY DEF OInv, Shape
<1>2. Follows
  BY FollowsKeys, ShapeFacts DEF OInv
<1>3. \A d \in Devices : RowKeys(d)' = RowKeys(d)
  BY DEF RowKeys
<1>4. OwnRows'
  BY <1>1, <1>2, <1>3, RowsHold
<1>5. OwnCodes'
  BY CodesHold
<1> QED
  BY <1>1, <1>2, <1>4, <1>5, HeldFacts, StillFrame

LEMMA IdleHolds ==
  ASSUME OInv, (\E d \in Devices : QueueItem(d)) \/ CloseSelect \/ Pass \/ UNCHANGED vars
  PROVE  OInv'
<1>1. /\ UNCHANGED <<dev, keys, minted, codes, issued, req, op, agent, lost, crashed, ended>>
      /\ now' = now \/ (now < Horizon /\ now' = now + 1)
      /\ items' = items \/ \E d \in Devices : items' = items \cup {d}
  BY DEF QueueItem, CloseSelect, Pass, vars, server, bounds
<1>2. now' \in 0..Horizon /\ items' \subseteq Devices /\ op' \in Op \cup {None}
  BY <1>1, CredentialsAssumption DEF OInv, Shape
<1> QED
  BY <1>1, <1>2, NothingMoves

LEMMA ClickHolds ==
  ASSUME OInv, NEW d \in Devices, NEW what \in {"code", "revoked", "decommissioned"}, Click(d, what)
  PROVE  OInv'
<1> DEFINE o == [device |-> d, what |-> what, keys |-> RowKeys(d)]
<1>1. /\ UNCHANGED <<now, dev, items, keys, minted, codes, issued, req, agent, lost, crashed, ended>>
      /\ dev[d].status # "absent" /\ op' = o
  BY DEF Click, server, bounds
<1>2. o \in Op /\ o.device = d
  BY ShapeFacts DEF OInv, Op
<1> HIDE DEF o
<1>3. Clicked'
  BY <1>1, <1>2 DEF Clicked
<1>4. now' \in 0..Horizon /\ items' \subseteq Devices /\ op' \in Op \cup {None}
  BY <1>1, <1>2 DEF OInv, Shape
<1> QED
  BY <1>1, <1>3, <1>4, NothingMoves

\* A new code for a device that has no other, and no Mac.
LEMMA NewCodeHolds ==
  ASSUME OInv, NEW d \in Devices, dev[d].mac = None, NEW new \in Codes, new = issued + 1,
         UNCHANGED <<now, items, keys, minted, req, agent, lost, crashed, ended>>,
         dev' \in [Devices -> DevRow], dev'[d].status # "absent",
         \A e \in Devices : /\ dev'[e].mac = dev[e].mac /\ RowKeys(e)' = RowKeys(e)
                            /\ dev'[e].status \in {dev[e].status, "pending"},
         op' \in {op, None}, issued' = new, codes' \in [Codes -> Enrollment \cup {None}],
         codes'[new] # None /\ codes'[new].device = d /\ codes'[new].by = None,
         \A c \in Codes \ {new} : codes'[c] # None => codes'[c] = codes[c] /\ codes[c].device # d,
         \A t \in Slots : req[t] # None /\ req[t].stage \in {"claimed", "reissuing"} =>
           req[t].code # new /\ codes'[req[t].code] = codes[req[t].code]
  PROVE  OInv'
<1>1. Shape'
  BY DEF OInv, Shape
<1>2. \A e \in Devices : Retired(e)' = Retired(e)
  BY DEF Retired
<1>3. Follows
  <2>1. minted \in Nat
    BY ShapeFacts DEF OInv
  <2> QED
    BY <1>2, <2>1 DEF Follows
<1>4. issued' # 0 /\ issued \in Nat /\ new \in Nat
  BY Basics DEF OInv, Shape
<1>5. ASSUME NEW e \in Devices PROVE OwnRow(e)'
  <2>1. OwnRow(e)
    BY DEF OInv, OwnRows
  <2>2. \A k : Of(k, e) => Of(k, e)'
    BY <1>1, <1>3, OfStays DEF OInv
  <2>3. \A k \in RowKeys(e)' : Of(k, e)'
    BY <2>1, <2>2 DEF OwnRow
  <2>4. /\ dev'[e].mac = dev[e].mac /\ dev'[e].status \in {dev[e].status, "pending"}
        /\ Retired(e)' = Retired(e)
    BY <1>2
  <2> QED
    BY <1>4, <2>1, <2>3, <2>4 DEF OwnRow
<1>6. ASSUME NEW c \in Codes, codes'[c] # None PROVE OwnCode(c)'
  <2>1. CASE c = new
    <3>1. \A e \in Codes : codes'[e] # None /\ codes'[e].device = d => e = c
      BY <2>1
    <3>2. dev'[d].mac = None /\ new <= issued'
      BY <1>4
    <3> QED
      BY <2>1, <3>1, <3>2 DEF OwnCode
  <2>2. CASE c # new
    <3>1. codes'[c] = codes[c] /\ codes[c] # None /\ codes[c].device # d /\ OwnCode(c)
      BY <1>6, <2>2 DEF OInv, OwnCodes
    <3>2. PICK g \in Devices : g = codes[c].device
      BY <3>1, ShapeFacts DEF OInv, Enrollment
    <3>3. dev'[g].mac = dev[g].mac /\ dev'[g].status # "absent"
      BY <3>1, <3>2 DEF OwnCode
    <3>4. c <= issued'
      BY <1>4, <3>1, Basics DEF OwnCode
    <3>5. \A e \in Codes : codes'[e] # None /\ codes'[e].device = g => e = c
      BY <3>1, <3>2 DEF OwnCode
    <3> QED
      BY <3>1, <3>2, <3>3, <3>4, <3>5 DEF OwnCode
  <2> QED
    BY <2>1, <2>2
<1>7. OwnRows' /\ OwnCodes'
  BY <1>5, <1>6 DEF OwnRows, OwnCodes
<1>8. Clicked' \/ op' = op
  BY DEF Clicked
<1> QED
  BY <1>1, <1>3, <1>7, <1>8, HeldFacts, StillFrame

\* Codes are used in order.
LEMMA NextCodeIsNew ==
  ASSUME OInv, NEW new \in Codes, new = issued + 1
  PROVE  codes[new] = None
<1>1. issued \in Nat
  BY Basics DEF OInv, Shape
<1>2. ~(new <= issued)
  BY <1>1
<1> QED
  BY <1>2 DEF OInv, OwnCodes, OwnCode

LEMMA CreateDeviceHolds == ASSUME OInv, NEW d \in Devices, CreateDevice(d) PROVE OInv'
<1>1. /\ dev[d].status = "absent" /\ issued + 1 \in Codes
      /\ dev' = [dev EXCEPT ![d].status = "pending"]
      /\ codes' = [codes EXCEPT ![issued + 1] = NewCode(d)]
      /\ issued' = issued + 1
      /\ UNCHANGED <<now, items, keys, minted, req, op, agent, lost, crashed, ended>>
  BY DEF CreateDevice, bounds
<1>2. dev \in [Devices -> DevRow] /\ codes \in [Codes -> Enrollment \cup {None}]
  BY DEF OInv, Shape
<1>3. NewCode(d) \in Enrollment /\ NewCode(d) # None /\ NewCode(d).device = d /\ NewCode(d).by = None
  BY NewCodeFacts DEF OInv
<1>4. PICK new \in Codes : new = issued + 1
  BY <1>1
<1>5. codes[new] = None
  BY <1>4, NextCodeIsNew
<1>6. /\ dev' \in [Devices -> DevRow] /\ dev'[d].status = "pending"
      /\ \A e \in Devices : /\ dev'[e].mac = dev[e].mac /\ dev'[e].key = dev[e].key /\ dev'[e].prev = dev[e].prev
                            /\ dev'[e].status \in {dev[e].status, "pending"}
  BY <1>1, <1>2 DEF DevRow, Statuses
<1>7. \A e \in Devices : RowKeys(e)' = RowKeys(e)
  BY <1>6 DEF RowKeys
<1>8. /\ codes' \in [Codes -> Enrollment \cup {None}] /\ codes'[new] = NewCode(d)
      /\ \A c \in Codes \ {new} : codes'[c] = codes[c]
  BY <1>1, <1>2, <1>3, <1>4
<1>9. \A c \in Codes : codes[c] # None => codes[c].device # d
  BY <1>1 DEF OInv, OwnCodes, OwnCode
<1>10. dev[d].mac = None
  BY <1>1 DEF OInv, OwnRows, OwnRow
<1> QED
  BY <1>1, <1>3, <1>4, <1>5, <1>6, <1>7, <1>8, <1>9, <1>10, HeldFacts, NewCodeHolds

LEMMA ReissueCodeHolds == ASSUME OInv, ReissueCode, ~LateCode PROVE OInv'
<1>1. /\ op # None /\ issued + 1 \in Codes /\ op' = None
      /\ \A c \in Unconsumed(op.device) : ~Claimed(c)
      /\ codes' = [Forget(Unconsumed(op.device)) EXCEPT ![issued + 1] = NewCode(op.device)]
      /\ issued' = issued + 1
      /\ UNCHANGED <<now, dev, items, keys, minted, req, agent, lost, crashed, ended>>
  BY DEF ReissueCode, bounds
<1>2. PICK d \in Devices : d = op.device
  BY <1>1 DEF OInv, Shape, Op
<1>3. dev[d].mac = None /\ dev[d].status # "absent"
  BY <1>1, <1>2 DEF LateCode, OInv, Clicked
<1>4. NewCode(d) \in Enrollment /\ NewCode(d) # None /\ NewCode(d).device = d /\ NewCode(d).by = None
  BY NewCodeFacts DEF OInv
<1>5. PICK new \in Codes : new = issued + 1
  BY <1>1
<1>6. codes[new] = None
  BY <1>5, NextCodeIsNew
<1> DEFINE f == Forget(Unconsumed(d))
<1>7. /\ f \in [Codes -> Enrollment \cup {None}]
      /\ \A c \in Codes : \/ f[c] = None
                          \/ /\ f[c] = codes[c] /\ codes[c] # None
                             /\ codes[c].by = None => codes[c].device # d
  BY ForgetFacts DEF OInv
<1>8. \A c \in Codes : f[c] # codes[c] => c \in Unconsumed(d)
  BY DEF Forget
<1>9. codes' = [f EXCEPT ![new] = NewCode(d)]
  BY <1>1, <1>2, <1>5
<1> HIDE DEF f
<1>10. /\ codes' \in [Codes -> Enrollment \cup {None}] /\ codes'[new] = NewCode(d)
       /\ \A c \in Codes \ {new} : codes'[c] = f[c]
  BY <1>4, <1>7, <1>9
<1>11. \A c \in Codes : codes[c] # None /\ codes[c].device = d => codes[c].by = None
  BY <1>3 DEF OInv, OwnCodes, OwnCode
<1>12. \A c \in Codes \ {new} : codes'[c] # None => codes'[c] = codes[c] /\ codes[c].device # d
  BY <1>7, <1>10, <1>11
<1>13. ASSUME NEW t \in Slots, req[t] # None, req[t].stage \in {"claimed", "reissuing"}
       PROVE  req[t].code # new /\ codes'[req[t].code] = codes[req[t].code]
  <2>1. PICK c \in Codes : /\ c = req[t].code /\ codes[c] # None
                           /\ codes[c].by = None => Stage(t, "claimed")
    BY <1>13, HeldFacts
  <2>2. c \notin Unconsumed(d)
    BY <1>1, <1>2, <2>1 DEF Unconsumed, Claimed
  <2> QED
    BY <1>6, <1>8, <1>10, <2>1, <2>2
<1>14. \A e \in Devices : RowKeys(e)' = RowKeys(e)
  BY <1>1 DEF RowKeys
<1>15. dev' \in [Devices -> DevRow]
  BY <1>1 DEF OInv, Shape
<1> QED
  BY <1>1, <1>3, <1>4, <1>5, <1>10, <1>12, <1>13, <1>14, <1>15, NewCodeHolds

LEMMA EndDeviceHolds == ASSUME OInv, EndDevice PROVE OInv'
<1>1. PICK d \in Devices : d = op.device /\ op # None
  BY DEF EndDevice, OInv, Shape, Op
<1> DEFINE kept == KeepCredential(op.what)
           old == ended[d]
           ends == {op.what} \cup (IF old = None THEN {} ELSE old.ends)
           rec == [what |-> op.what, upto |-> minted, ends |-> ends]
<1>2. /\ op.what \in {"revoked", "decommissioned"} /\ op' = None
      /\ \A c \in Unconsumed(d) : ~Claimed(c)
      /\ keys' = IF kept THEN keys ELSE TurnOff(keys, op.keys)
      /\ dev' = [dev EXCEPT ![d] =
            IF kept THEN [@ EXCEPT !.status = op.what]
            ELSE [@ EXCEPT !.status = op.what, !.prev = None, !.until = 0]]
      /\ codes' = Forget(Unconsumed(d))
      /\ items' \subseteq items
      /\ ended' = [ended EXCEPT ![d] = rec]
      /\ UNCHANGED <<now, minted, issued, req, agent, lost, crashed>>
  BY <1>1 DEF EndDevice, DeadCodes, bounds, OInv, Shape
<1>3. /\ dev \in [Devices -> DevRow] /\ dev[d] \in DevRow /\ minted \in Nat
      /\ ended \in [Devices -> Ending \cup {None}] /\ (ended[d] # None => ended[d] \in Ending)
  BY ShapeFacts DEF OInv, Shape
<1> HIDE DEF kept
<1>4. Fade /\ keys' \in [Keys -> KeyRow \cup {None}]
  BY <1>2, SameKeys, TurnOffFacts DEF OInv
<1>5. /\ dev' \in [Devices -> DevRow] /\ \A e \in Devices \ {d} : dev'[e] = dev[e]
      /\ dev'[d].status = op.what /\ dev'[d].mac = dev[d].mac /\ dev'[d].key = dev[d].key
      /\ dev'[d].prev \in {dev[d].prev, None}
  <2>1. PICK row \in DevRow : /\ dev' = [dev EXCEPT ![d] = row]
                              /\ row.status = op.what /\ row.mac = dev[d].mac /\ row.key = dev[d].key
                              /\ row.prev \in {dev[d].prev, None}
    <3>1. CASE kept
      <4> DEFINE row == [dev[d] EXCEPT !.status = op.what]
      <4>1. dev' = [dev EXCEPT ![d] = row]
        BY <1>2, <1>3, <3>1
      <4>2. row \in DevRow /\ row.status = op.what /\ row.mac = dev[d].mac /\ row.key = dev[d].key /\ row.prev = dev[d].prev
        BY <1>2, <1>3 DEF DevRow, Statuses
      <4> HIDE DEF row
      <4> QED
        BY <4>1, <4>2
    <3>2. CASE ~kept
      <4> DEFINE row == [dev[d] EXCEPT !.status = op.what, !.prev = None, !.until = 0]
      <4>1. dev' = [dev EXCEPT ![d] = row]
        BY <1>2, <1>3, <3>2
      <4>2. row \in DevRow /\ row.status = op.what /\ row.mac = dev[d].mac /\ row.key = dev[d].key /\ row.prev = None
        BY <1>2, <1>3 DEF DevRow, Statuses, KeyOrNone
      <4> HIDE DEF row
      <4> QED
        BY <4>1, <4>2
    <3> QED
      BY <3>1, <3>2
  <2> QED
    BY <1>3, <2>1
<1>6. /\ ended'[d] # None /\ ended'[d].ends = ends /\ \A e \in Devices \ {d} : ended'[e] = ended[e]
      /\ ended' \in [Devices -> Ending \cup {None}]
  <2>1. ended[d] # None => ended[d].ends \subseteq {"revoked", "decommissioned"}
    BY <1>3 DEF Ending
  <2>2. ends \in SUBSET {"revoked", "decommissioned"}
    BY <1>2, <2>1
  <2>3. rec \in Ending /\ rec.ends = ends
    BY <1>2, <1>3, <2>2 DEF Ending
  <2> HIDE DEF rec, ends
  <2> QED
    BY <1>2, <1>3, <2>3, Basics
<1>7. op.what \in ends /\ (Retired(d) => "decommissioned" \in ends)
  BY DEF Retired
<1> HIDE DEF rec, ends, old
<1>8. /\ codes' \in [Codes -> Enrollment \cup {None}]
      /\ \A c \in Codes : \/ codes'[c] = None
                          \/ codes'[c] = codes[c] /\ codes[c] # None
  BY <1>2, ForgetFacts DEF OInv
<1>9. Shape'
  BY <1>2, <1>4, <1>5, <1>6, <1>8 DEF OInv, Shape
<1>10. \A e \in Devices : Retired(e) => Retired(e)'
  BY <1>6, <1>7 DEF Retired
<1>11. op.what = "decommissioned" => Retired(d)'
  BY <1>6, <1>7 DEF Retired
<1>12. Follows
  <2>1. \A k \in Keys : keys'[k] # None => keys[k] # None /\ keys'[k].device = keys[k].device
    BY <1>4 DEF Fade
  <2>2. \A e \in Devices : /\ dev'[e].mac = dev[e].mac
                           /\ dev[e].status # "absent" => dev'[e].status # "absent"
    BY <1>2, <1>5
  <2> QED
    BY <1>2, <1>3, <1>10, <2>1, <2>2 DEF Follows
<1>13. \A e \in Devices : RowKeys(e)' \subseteq RowKeys(e)
  <2> SUFFICES ASSUME NEW e \in Devices PROVE RowKeys(e)' \subseteq RowKeys(e)
    OBVIOUS
  <2>1. dev'[e].key = dev[e].key /\ dev'[e].prev \in {dev[e].prev, None}
    BY <1>5
  <2> QED
    BY <2>1 DEF RowKeys
<1>14. OwnRows'
  <2>1. \A e \in Devices : dev'[e].mac = dev[e].mac /\ \A k \in RowKeys(e)' : k \in RowKeys(e) \/ Of(k, e)
    BY <1>5, <1>13
  <2>2. \A e \in Devices : dev'[e].status \in {"absent", "decommissioned"} =>
          dev'[e].status = dev[e].status \/ (dev'[e].status = "decommissioned" /\ Retired(e)')
    BY <1>2, <1>5, <1>11
  <2> QED
    BY <1>2, <1>9, <1>12, <2>1, <2>2, RowsHold
<1>15. OwnCodes'
  <2>1. \A e \in Devices : /\ dev'[e].mac = dev[e].mac
                           /\ dev[e].status # "absent" => dev'[e].status # "absent"
    BY <1>2, <1>5
  <2> QED
    BY <1>2, <1>8, <2>1, CodesHold
<1>16. ASSUME NEW t \in Slots, req[t] # None, req[t].stage \in {"claimed", "reissuing"}
       PROVE  codes'[req[t].code] # None /\ codes'[req[t].code].by = codes[req[t].code].by
  <2>1. PICK c \in Codes : /\ c = req[t].code /\ codes[c] # None
                           /\ codes[c].by = None => Stage(t, "claimed")
    BY <1>16, HeldFacts
  <2>2. c \notin Unconsumed(d)
    BY <1>2, <2>1 DEF Unconsumed, Claimed
  <2>3. codes'[c] = codes[c]
    BY <1>2, <2>2 DEF Forget
  <2> QED
    BY <2>1, <2>3
<1>17. Clicked'
  BY <1>2 DEF Clicked
<1> QED
  BY <1>2, <1>9, <1>12, <1>14, <1>15, <1>16, <1>17, StillFrame

LEMMA CloseDisableHolds == ASSUME OInv, CloseDisable PROVE OInv'
<1>1. /\ \E off : keys' = TurnOff(keys, off)
      /\ UNCHANGED <<now, dev, items, minted, codes, issued, req, op, agent, bounds, ended>>
  BY DEF CloseDisable
<1>2. Fade /\ keys' \in [Keys -> KeyRow \cup {None}]
  BY <1>1, TurnOffFacts DEF OInv
<1>3. codes' \in [Codes -> Enrollment \cup {None}] /\ req' \in [Slots -> Request \cup {None}]
  BY <1>1 DEF OInv, Shape
<1>4. /\ Shape' /\ Follows /\ OwnRows' /\ OwnCodes'
      /\ \A t \in Slots : req[t] # None /\ req[t].stage \in {"claimed", "reissuing"} =>
           codes'[req[t].code] # None /\ codes'[req[t].code].by = codes[req[t].code].by
  BY <1>1, <1>2, <1>3, UsesKeys
<1> QED
  BY <1>1, <1>4, StillFrame

LEMMA CloseClearHolds == ASSUME OInv, CloseClear PROVE OInv'
<1>1. PICK d : dev' = [dev EXCEPT ![d].prev = None, ![d].until = 0]
  BY DEF CloseClear
<1>2. UNCHANGED <<now, items, keys, minted, codes, issued, req, op, agent, lost, crashed, ended>>
  BY DEF CloseClear, bounds
<1>3. dev \in [Devices -> DevRow] /\ minted \in Nat
  BY ShapeFacts DEF OInv, Shape
<1>4. /\ dev' \in [Devices -> DevRow]
      /\ \A e \in Devices : /\ dev'[e].status = dev[e].status /\ dev'[e].mac = dev[e].mac
                            /\ dev'[e].key = dev[e].key /\ dev'[e].prev \in {dev[e].prev, None}
  <2>1. CASE d \in Devices
    <3> DEFINE row == [dev[d] EXCEPT !.prev = None, !.until = 0]
    <3>1. dev' = [dev EXCEPT ![d] = row]
      BY <1>1, <1>3, <2>1
    <3>2. /\ row \in DevRow /\ row.status = dev[d].status /\ row.mac = dev[d].mac
          /\ row.key = dev[d].key /\ row.prev = None
      BY <1>3, <2>1 DEF DevRow, KeyOrNone
    <3> HIDE DEF row
    <3> QED
      BY <1>3, <2>1, <3>1, <3>2
  <2>2. CASE d \notin Devices
    <3>1. dev' = dev
      BY <1>1, <1>3, <2>2
    <3> QED
      BY <1>3, <3>1
  <2> QED
    BY <2>1, <2>2
<1>5. Shape'
  BY <1>2, <1>4 DEF OInv, Shape
<1>6. \A e \in Devices : Retired(e)' = Retired(e) /\ RowKeys(e)' \subseteq RowKeys(e)
  <2> SUFFICES ASSUME NEW e \in Devices PROVE Retired(e)' = Retired(e) /\ RowKeys(e)' \subseteq RowKeys(e)
    OBVIOUS
  <2>1. dev'[e].key = dev[e].key /\ dev'[e].prev \in {dev[e].prev, None}
    BY <1>4
  <2> QED
    BY <1>2, <2>1 DEF RowKeys, Retired
<1>7. Follows
  BY <1>2, <1>3, <1>4, <1>6 DEF Follows
<1>8. OwnRows'
  BY <1>2, <1>4, <1>5, <1>6, <1>7, RowsHold
<1>9. OwnCodes'
  BY <1>2, <1>4, CodesHold
<1> QED
  BY <1>2, <1>5, <1>7, <1>8, <1>9, HeldFacts, StillFrame

LEMMA InitOInv == Init => OInv
<1> SUFFICES ASSUME Init PROVE OInv
  OBVIOUS
<1>1. Shape
  BY InitIInv DEF IInv
<1> USE DEF Init
<1>2. \A d \in Devices : dev[d] = NoDevice /\ RowKeys(d) = {}
  BY DEF NoDevice, RowKeys
<1>3. OwnRows
  BY <1>2 DEF OwnRows, OwnRow, NoDevice
<1>4. \A m \in Macs : OwnAgent(m)
  BY DEF OwnAgent, FreshAgent
<1>5. OwnCodes /\ Clicked /\ Single
  BY DEF OwnCodes, Clicked, Single, Stage
<1> QED
  BY <1>1, <1>3, <1>4, <1>5 DEF OInv

LEMMA StepOInv == ASSUME OInv, [Next]_vars, ~LateCode PROVE OInv'
<1>1. ASSUME NEW m \in Macs, AgentStep(m) \/ Unanswered(m) \/ Restart(m) \/ StageCode(m) PROVE OInv'
  BY <1>1, CallingHolds, GetEnrolmentHolds, GetSyncHolds, GetRotationHolds, GetReportHolds, UnansweredHolds,
     RestartHolds, StageCodeHolds DEF AgentStep
<1>2. ASSUME NEW s \in Slots, Handle(s) PROVE OInv'
  BY <1>2, HandleHolds
<1>3. ASSUME NEW d \in Devices,
             CreateDevice(d) \/ \E what \in {"code", "revoked", "decommissioned"} : Click(d, what)
      PROVE  OInv'
  BY <1>3, CreateDeviceHolds, ClickHolds
<1>4. CASE ReissueCode
  BY <1>4, ReissueCodeHolds
<1>5. CASE EndDevice \/ CloseDisable \/ CloseClear
  BY <1>5, EndDeviceHolds, CloseDisableHolds, CloseClearHolds
<1>6. CASE (\E d \in Devices : QueueItem(d)) \/ CloseSelect \/ Pass \/ UNCHANGED vars
  BY <1>6, IdleHolds
<1> QED
  BY <1>1, <1>2, <1>3, <1>4, <1>5, <1>6 DEF Next, Parent, Close

\* Without overlap there is no late code: a device awaits a code only while it is
\* pending, and nobody enrols as it meanwhile.
LEMMA NeverLate == ASSUME IInv PROVE ~LateCode
<1> SUFFICES ASSUME LateCode PROVE FALSE
  OBVIOUS
<1>1. op # None /\ op.what = "code" /\ dev[op.device].mac # None
  BY DEF LateCode, ReissueCode
<1>2. op.device \in Devices
  BY <1>1 DEF IInv, Shape, Op
<1> QED
  BY <1>1, <1>2 DEF IInv, Clicks, Rows, Row

\* Nor with one code, which a device must have had to be enrolled as.
LEMMA OneCodeIsNotLate == ASSUME Cardinality(Codes) <= 1, OInv PROVE ~LateCode
<1> SUFFICES ASSUME LateCode PROVE FALSE
  OBVIOUS
<1>1. op # None /\ issued + 1 \in Codes /\ dev[op.device].mac # None
  BY DEF LateCode, ReissueCode
<1>2. op.device \in Devices
  BY <1>1 DEF OInv, Shape, Op
<1>3. issued # 0
  BY <1>1, <1>2 DEF OInv, OwnRows, OwnRow
<1>4. issued \in Nat /\ Cardinality(Codes) \in Nat /\ Codes = 1..Cardinality(Codes)
  BY Basics, FS_CardinalityType, CredentialsAssumption DEF OInv, Shape
<1> QED
  BY <1>1, <1>3, <1>4

-----------------------------------------------------------------------------
(* The refinement. *)

\* A step that Binding does not see.
LEMMA Unseen ==
  ASSUME \A d \in Devices : dev'[d].mac = dev[d].mac,
         \A d \in Devices : Retired(d)' = Retired(d),
         \A m \in Macs : agent'[m].gone = agent[m].gone
  PROVE  UNCHANGED B!vars
<1>1. [d \in Devices |-> dev'[d].mac] = [d \in Devices |-> dev[d].mac]
  OBVIOUS
<1>2. {d \in Devices : ended'[d] # None /\ "decommissioned" \in ended'[d].ends}
        = {d \in Devices : ended[d] # None /\ "decommissioned" \in ended[d].ends}
  BY DEF Retired
<1>3. {m \in Macs : agent'[m].gone} = {m \in Macs : agent[m].gone}
  OBVIOUS
<1> QED
  BY <1>1, <1>2, <1>3 DEF B!vars

\* An agent removes itself, or is installed again.
LEMMA SeenOfMac ==
  ASSUME NEW m \in Macs, UNCHANGED <<dev, ended>>,
         \A n \in Macs \ {m} : agent'[n].gone = agent[n].gone,
         agent'[m].gone = agent[m].gone \/ ~agent'[m].gone \/ Told(m)
  PROVE  [B!Next]_B!vars
<1> DEFINE out == {n \in Macs : agent[n].gone}
<1>1. UNCHANGED <<[d \in Devices |-> dev[d].mac],
                 {d \in Devices : ended[d] # None /\ "decommissioned" \in ended[d].ends}>>
  OBVIOUS
<1>2. CASE agent'[m].gone = agent[m].gone
  <2>1. \A d \in Devices : Retired(d)' = Retired(d)
    BY DEF Retired
  <2> QED
    BY <1>2, <2>1, Unseen
<1>3. CASE ~agent'[m].gone
  <2>1. {n \in Macs : agent'[n].gone} = out \ {m}
    BY <1>3
  <2>2. B!Reinstall(m)
    BY <1>1, <2>1 DEF B!Reinstall
  <2> QED
    BY <2>2 DEF B!Next
<1>4. CASE agent'[m].gone /\ Told(m)
  <2>1. {n \in Macs : agent'[n].gone} = out \cup {m}
    BY <1>4
  <2>2. \E d \in {e \in Devices : ended[e] # None /\ "decommissioned" \in ended[e].ends} :
          [e \in Devices |-> dev[e].mac][d] = m
    BY <1>4 DEF Told, Retired
  <2>3. B!Remove(m)
    BY <1>1, <2>1, <2>2 DEF B!Remove
  <2> QED
    BY <2>3 DEF B!Next
<1> QED
  BY <1>2, <1>3, <1>4

\* A Mac enrols as a device, or gets a fresh key for it.
LEMMA SeenOfDevice ==
  ASSUME NEW d \in Devices, NEW m \in Macs, UNCHANGED <<agent, ended>>,
         \A e \in Devices \ {d} : dev'[e].mac = dev[e].mac,
         dev'[d].mac = m, dev[d].mac \in {None, m}
  PROVE  [B!Next]_B!vars
<1>1. \A e \in Devices : Retired(e)' = Retired(e)
  BY DEF Retired
<1>2. CASE dev[d].mac = m
  <2>1. \A e \in Devices : dev'[e].mac = dev[e].mac
    BY <1>2
  <2> QED
    BY <1>1, <2>1, Unseen
<1>3. CASE dev[d].mac = None
  <2>1. [e \in Devices |-> dev'[e].mac] = [[e \in Devices |-> dev[e].mac] EXCEPT ![d] = m]
    OBVIOUS
  <2>2. B!Enrol(m, d)
    BY <1>3, <2>1 DEF B!Enrol
  <2> QED
    BY <2>2 DEF B!Next
<1> QED
  BY <1>2, <1>3

LEMMA InitBinds == Init => B!Init
<1> SUFFICES ASSUME Init PROVE B!Init
  OBVIOUS
<1>1. \A d \in Devices : dev[d].mac = None /\ ended[d] = None
  BY DEF Init, NoDevice
<1>2. \A m \in Macs : ~agent[m].gone
  BY DEF Init, FreshAgent
<1> QED
  BY <1>1, <1>2 DEF B!Init

LEMMA AgentBinds ==
  ASSUME OInv, NEW m \in Macs, AgentStep(m) \/ Unanswered(m) \/ Restart(m) \/ StageCode(m)
  PROVE  [B!Next]_B!vars
<1>1. agent \in [Macs -> Agent] /\ agent[m] \in Agent /\ OwnAgent(m)
  BY DEF OInv, Shape
<1>2. UNCHANGED <<dev, ended>>
  BY DEF AgentStep, Tick, GetEnrolment, GetSync, Reconcile, RotateIfDue, GetRotation, Leave, GetReport,
         Unanswered, Restart, StageCode, server
<1>3. ASSUME NEW kind, NEW phase, Send(m, kind, phase)
      PROVE  \A n \in Macs : agent'[n].gone = agent[n].gone
  BY <1>1, <1>3 DEF Send, Agent
<1>4. CASE Tick(m) \/ Reconcile(m) \/ RotateIfDue(m) \/ Leave(m)
  <2>1. \/ \E kind, phase : Send(m, kind, phase)
        \/ \E phase : agent' = [agent EXCEPT ![m].phase = phase]
    BY <1>4 DEF Tick, Reconcile, RotateIfDue, Leave
  <2>2. \A n \in Macs : agent'[n].gone = agent[n].gone
    BY <1>1, <1>3, <2>1 DEF Agent
  <2> QED
    BY <1>2, <2>2, SeenOfMac
<1>5. CASE GetEnrolment(m)
  <2>1. \E c : agent' = [agent EXCEPT ![m].phase = "idle", ![m].code = None, ![m].cred = c]
    BY <1>1, <1>5 DEF GetEnrolment, Agent
  <2>2. \A n \in Macs : agent'[n].gone = agent[n].gone
    BY <1>1, <2>1 DEF Agent
  <2> QED
    BY <1>2, <2>2, SeenOfMac
<1>6. CASE GetSync(m)
  <2>1. \/ \E i : agent' = [agent EXCEPT ![m].phase = "reconciling", ![m].item = i]
        \/ \E p : agent' = [agent EXCEPT ![m].halted = TRUE, ![m].phase = p]
    BY <1>6 DEF GetSync
  <2>2. \A n \in Macs : agent'[n].gone = agent[n].gone
    BY <1>1, <2>1 DEF Agent
  <2> QED
    BY <1>2, <2>2, SeenOfMac
<1>7. CASE GetRotation(m)
  <2>1. PICK s \in Slots :
          agent' = [agent EXCEPT
            ![m].phase = AfterRotation(m),
            ![m].cred = IF req[s].reply.answer = "ok"
                        THEN [@ EXCEPT !.token = req[s].reply.key, !.renew = now + RotateAfter]
                        ELSE @]
    BY <1>7 DEF GetRotation
  <2>2. \A n \in Macs : agent'[n].gone = agent[n].gone
    BY <1>1, <2>1 DEF Agent
  <2> QED
    BY <1>2, <2>2, SeenOfMac
<1>8. CASE Restart(m)
  <2>1. agent' = [agent EXCEPT ![m].phase = "idle", ![m].halted = FALSE]
    BY <1>8 DEF Restart
  <2>2. \A n \in Macs : agent'[n].gone = agent[n].gone
    BY <1>1, <2>1 DEF Agent
  <2> QED
    BY <1>2, <2>2, SeenOfMac
<1>9. CASE GetReport(m) \/ Unanswered(m)
  <2>1. \A n \in Macs \ {m} : agent'[n].gone = agent[n].gone
    BY <1>1, <1>9 DEF GetReport, Unanswered
  <2>2. CASE agent[m].phase = "reporting"
    <3>1. Told(m)
      BY <1>1, <2>2 DEF OwnAgent
    <3>2. agent'[m] = Removed
      BY <1>1, <1>9, <2>2 DEF GetReport, Unanswered
    <3> QED
      BY <1>2, <2>1, <3>1, <3>2, RemovedFacts, SeenOfMac
  <2>3. CASE agent[m].phase # "reporting"
    <3>1. \E p : agent'[m] = [agent[m] EXCEPT !.phase = p]
      BY <1>1, <1>9, <2>3 DEF GetReport, Unanswered
    <3>2. agent'[m].gone = agent[m].gone
      BY <1>1, <3>1 DEF Agent
    <3> QED
      BY <1>2, <2>1, <3>2, SeenOfMac
  <2> QED
    BY <2>2, <2>3
<1>10. CASE StageCode(m)
  <2>1. \A n \in Macs \ {m} : agent'[n].gone = agent[n].gone
    BY <1>1, <1>10 DEF StageCode
  <2>2. PICK c : agent'[m] = [IF agent[m].gone THEN FreshAgent ELSE agent[m] EXCEPT !.code = c, !.halted = FALSE]
    BY <1>1, <1>10 DEF StageCode
  <2>3. CASE agent[m].gone
    <3>1. ~agent'[m].gone
      BY <2>2, <2>3 DEF FreshAgent
    <3> QED
      BY <1>2, <2>1, <3>1, SeenOfMac
  <2>4. CASE ~agent[m].gone
    <3>1. agent'[m].gone = agent[m].gone
      BY <1>1, <2>2, <2>4 DEF Agent
    <3> QED
      BY <1>2, <2>1, <3>1, SeenOfMac
  <2> QED
    BY <2>3, <2>4
<1> QED
  BY <1>4, <1>5, <1>6, <1>7, <1>8, <1>9, <1>10 DEF AgentStep

\* Rows change, but not whose they are.
LEMMA RowBinds ==
  ASSUME UNCHANGED <<agent, ended>>, \A d \in Devices : dev'[d].mac = dev[d].mac
  PROVE  [B!Next]_B!vars
<1>1. \A d \in Devices : Retired(d)' = Retired(d)
  BY DEF Retired
<1>2. \A m \in Macs : agent'[m].gone = agent[m].gone
  OBVIOUS
<1> QED
  BY <1>1, <1>2, Unseen

LEMMA HandleBinds == ASSUME OInv, NEW s \in Slots, Handle(s) PROVE [B!Next]_B!vars
<1>1. UNCHANGED <<agent, ended>>
  BY DEF Handle, EnrolClaim, EnrolCommit, EnrolRefused, EnrolReissue, Refuse, TellDecommissioned, SyncRead,
         SyncWrite, RotateRead, RotateMint, RotateCommit, Report
<1>2. dev \in [Devices -> DevRow]
  BY DEF OInv, Shape
<1>3. CASE UNCHANGED dev
  BY <1>1, <1>3, RowBinds
<1>4. CASE SyncWrite(s)
  <2>1. dev' \in {dev, [dev EXCEPT ![req[s].seen.device].status = "active"]}
    BY <1>4 DEF SyncWrite
  <2>2. \A d \in Devices : dev'[d].mac = dev[d].mac
    BY <1>2, <2>1 DEF DevRow
  <2> QED
    BY <1>1, <2>2, RowBinds
<1>5. CASE RotateCommit(s)
  <2>1. dev' = [dev EXCEPT ![req[s].seen.device].key = req[s].seen.new,
                           ![req[s].seen.device].prev = req[s].seen.key,
                           ![req[s].seen.device].until = now + Overlap]
    BY <1>5 DEF RotateCommit
  <2>2. \A d \in Devices : dev'[d].mac = dev[d].mac
    BY <1>2, <2>1 DEF DevRow
  <2> QED
    BY <1>1, <2>2, RowBinds
<1>6. ASSUME NEW d \in Devices, NEW m \in Macs, dev[d].mac \in {None, m}, m = req[s].mac,
             NEW ks, Issue(s, d, ks)
      PROVE  [B!Next]_B!vars
  <2>1. dev' = [dev EXCEPT ![d].status = "enrolled", ![d].mac = m, ![d].key = minted + 1]
    BY <1>6 DEF Issue
  <2>2. dev'[d].mac = m /\ \A e \in Devices \ {d} : dev'[e].mac = dev[e].mac
    BY <1>2, <2>1 DEF DevRow
  <2> QED
    BY <1>1, <1>6, <2>2, SeenOfDevice
<1>7. CASE EnrolCommit(s) \/ EnrolReissue(s)
  <2>1. /\ req[s] # None /\ req[s].kind = "enrol" /\ req[s].stage \in {"claimed", "reissuing"}
        /\ EnrolCommit(s) => req[s].stage = "claimed"
        /\ EnrolReissue(s) => req[s].stage = "reissuing"
    BY <1>7 DEF EnrolCommit, EnrolReissue, At, Stage
  <2>2. OwnCall(s) /\ req[s] \in Request
    BY <2>1, ShapeFacts DEF OInv
  <2>3. PICK c \in Codes, m \in Macs : c = req[s].code /\ m = req[s].mac /\ codes[c] # None
    BY <2>1, <2>2 DEF OwnCall, Request
  <2>4. PICK d \in Devices : d = codes[c].device
    BY <2>3, ShapeFacts DEF OInv, Enrollment
  <2>5. CASE EnrolCommit(s)
    <3>1. codes[c].by = None
      BY <2>1, <2>2, <2>3, <2>5 DEF OwnCall
    <3>2. dev[d].mac = None
      BY <2>3, <2>4, <3>1 DEF OInv, OwnCodes, OwnCode
    <3>3. Issue(s, d, keys)
      BY <2>3, <2>4, <2>5 DEF EnrolCommit
    <3> QED
      BY <1>6, <2>3, <3>2, <3>3
  <2>6. CASE EnrolReissue(s)
    <3>1. codes[c].by = m
      BY <2>1, <2>2, <2>3, <2>6 DEF OwnCall
    <3>2. dev[d].mac = m
      BY <2>3, <2>4, <3>1 DEF OInv, OwnCodes, OwnCode
    <3>3. UNCHANGED dev \/ Issue(s, d, [keys EXCEPT ![req[s].seen] = None])
      BY <2>3, <2>4, <2>6 DEF EnrolReissue
    <3> QED
      BY <1>3, <1>6, <2>3, <3>2, <3>3
  <2> QED
    BY <1>7, <2>5, <2>6
<1> QED
  BY <1>3, <1>4, <1>7, <1>5 DEF Handle, EnrolClaim, EnrolRefused, Refuse, TellDecommissioned, SyncRead,
                          RotateRead, RotateMint, Report, server

LEMMA EndBinds == ASSUME OInv, EndDevice PROVE [B!Next]_B!vars
<1>1. PICK d \in Devices : d = op.device
  BY DEF EndDevice, OInv, Shape, Op
<1>2. dev \in [Devices -> DevRow] /\ ended \in [Devices -> Ending \cup {None}] /\ agent' = agent
  BY DEF EndDevice, OInv, Shape
<1>3. \A e \in Devices : dev'[e].mac = dev[e].mac
  BY <1>1, <1>2 DEF EndDevice, DevRow
<1> DEFINE old == ended[d]
           more == {op.what} \cup (IF old = None THEN {} ELSE old.ends)
           rec == [what |-> op.what, upto |-> minted, ends |-> more]
<1>4. ended' = [ended EXCEPT ![d] = rec] /\ op.what \in {"revoked", "decommissioned"}
  BY <1>1, <1>2 DEF EndDevice
<1>5. rec.ends = more /\ rec \in Ending
  <2>1. ended[d] # None => ended[d].ends \subseteq {"revoked", "decommissioned"}
    BY <1>2 DEF Ending
  <2>2. minted \in Nat
    BY ShapeFacts DEF OInv
  <2>3. more \in SUBSET {"revoked", "decommissioned"}
    BY <1>4, <2>1
  <2> QED
    BY <1>4, <2>2, <2>3 DEF Ending
<1>6. /\ ended'[d] # None /\ ended'[d].ends = more
      /\ \A e \in Devices \ {d} : ended'[e] = ended[e]
  BY <1>2, <1>4, <1>5, Basics
<1>7. "decommissioned" \in more <=> Retired(d) \/ op.what = "decommissioned"
  BY <1>4 DEF Retired
<1> HIDE DEF more, rec, old
<1>8. \A e \in Devices : Retired(e)' <=> Retired(e) \/ (e = d /\ op.what = "decommissioned")
  BY <1>6, <1>7 DEF Retired
<1>9. UNCHANGED <<[e \in Devices |-> dev[e].mac], {m \in Macs : agent[m].gone}>>
  BY <1>2, <1>3
<1>10. CASE op.what = "decommissioned"
  <2>1. {e \in Devices : Retired(e)'} = {e \in Devices : Retired(e)} \cup {d}
    BY <1>8, <1>10
  <2>2. B!Decommission(d)
    BY <1>9, <2>1 DEF B!Decommission, Retired
  <2> QED
    BY <2>2 DEF B!Next
<1>11. CASE op.what # "decommissioned"
  <2>1. {e \in Devices : Retired(e)'} = {e \in Devices : Retired(e)}
    BY <1>8, <1>11
  <2> QED
    BY <1>9, <2>1 DEF B!vars, Retired
<1> QED
  BY <1>10, <1>11

LEMMA StepBinds == ASSUME OInv, [Next]_vars PROVE [B!Next]_B!vars
<1>1. dev \in [Devices -> DevRow]
  BY DEF OInv, Shape
<1>2. ASSUME NEW m \in Macs, AgentStep(m) \/ Unanswered(m) \/ Restart(m) \/ StageCode(m)
      PROVE  [B!Next]_B!vars
  BY <1>2, AgentBinds
<1>3. ASSUME NEW s \in Slots, Handle(s) PROVE [B!Next]_B!vars
  BY <1>3, HandleBinds
<1>4. CASE EndDevice
  BY <1>4, EndBinds
<1>5. ASSUME NEW d \in Devices,
             \/ CreateDevice(d) \/ QueueItem(d)
             \/ \E what \in {"code", "revoked", "decommissioned"} : Click(d, what)
      PROVE  [B!Next]_B!vars
  <2>1. UNCHANGED <<agent, ended>>
    BY <1>5 DEF CreateDevice, QueueItem, Click
  <2>2. \A e \in Devices : dev'[e].mac = dev[e].mac
    BY <1>1, <1>5 DEF CreateDevice, QueueItem, Click, server, DevRow
  <2> QED
    BY <2>1, <2>2, RowBinds
<1>6. CASE ReissueCode \/ Close \/ Pass
  <2>1. UNCHANGED <<agent, ended>>
    BY <1>6 DEF ReissueCode, Close, CloseSelect, CloseDisable, CloseClear, Pass
  <2>2. \A e \in Devices : dev'[e].mac = dev[e].mac
    <3>1. CASE CloseClear
      BY <1>1, <3>1 DEF CloseClear, DevRow
    <3>2. CASE ~CloseClear
      BY <1>6, <3>2 DEF ReissueCode, Close, CloseSelect, CloseDisable, Pass, server
    <3> QED
      BY <3>1, <3>2
  <2> QED
    BY <2>1, <2>2, RowBinds
<1>7. CASE UNCHANGED vars
  BY <1>7, RowBinds DEF vars, server
<1> QED
  BY <1>2, <1>3, <1>4, <1>5, <1>6, <1>7 DEF Next, Parent

\* A late code is a step.
LEMMA LateCodeMoves == ASSUME LateCode PROVE ~UNCHANGED vars
BY DEF LateCode, ReissueCode, vars

\* However handlers overlap, outlive their calls or die half-way, the routes and
\* the daemon implement Binding, a device is the first Mac's that enrols as it and
\* only a Mac with a decommissioned device is left by its agent, in every run in
\* which no code is issued for a device that a Mac has enrolled as since the
\* parent's click read it (enroll.ts, parent-setup.ts:201, SyncDaemon.swift).
THEOREM BindingBarLateCodes == Spec /\ [][~LateCode]_vars => ImplementsBinding
<1>1. Init => OInv /\ B!Init
  BY InitOInv, InitBinds
<1>2. OInv /\ [Next]_vars /\ [~LateCode]_vars => OInv' /\ [B!Next]_B!vars
  <2> SUFFICES ASSUME OInv, [Next]_vars, [~LateCode]_vars PROVE OInv' /\ [B!Next]_B!vars
    OBVIOUS
  <2>1. LateCode => ~UNCHANGED vars
    BY LateCodeMoves
  <2> QED
    BY <2>1, StepOInv, StepBinds
<1> QED
  BY <1>1, <1>2, PTL DEF Spec, ImplementsBinding, B!Spec

\* With one code, whatever else happens: retries, re-issues and races of handlers
\* never bind a device to a second Mac, nor tell a Mac to go without cause.
THEOREM BindingOfOneCode == ASSUME Cardinality(Codes) <= 1 PROVE Spec => ImplementsBinding
<1>1. Init => OInv /\ B!Init
  BY InitOInv, InitBinds
<1>2. OInv /\ [Next]_vars => OInv' /\ [B!Next]_B!vars
  BY OneCodeIsNotLate, StepOInv, StepBinds
<1> QED
  BY <1>1, <1>2, PTL DEF Spec, ImplementsBinding, B!Spec

\* And with any number of codes, when handlers do not overlap.
THEOREM BindingImplemented == ASSUME ~Concurrent PROVE Spec => ImplementsBinding
<1>1. IInv => ~LateCode
  BY NeverLate
<1>2. Spec => [][~LateCode]_vars
  BY <1>1, CredentialsInvariant, PTL DEF Spec
<1> QED
  BY <1>2, BindingBarLateCodes

=============================================================================
