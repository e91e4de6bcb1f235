------------------------------ MODULE Credentials ------------------------------
(***************************************************************************)
(* The life of a device credential, on both sides of the wire: enrolment   *)
(* with a one-time code, use at every tick, rotation with its overlap,     *)
(* revocation, decommissioning (apps/api/src/routes/{enroll,credential,    *)
(* agent,sync,events,parent-setup,parent-devices}.ts and the sync daemon,  *)
(* agent/Sources/HPCSyncKit).                                              *)
(*                                                                         *)
(* The agent does one blocking call at a time; the server handles calls    *)
(* step by step, each step one statement or one transaction, so that calls,*)
(* the parent's clicks and the nightly job interleave as they can in       *)
(* Postgres.  A call may go unanswered: it never arrived, the server died  *)
(* on it, the answer was lost, or the client timed out while the server    *)
(* works on.  One unit of time is far longer than any of them; Ttl,        *)
(* Overlap and RotateAfter keep the order of 60 min, 24 h and 90 days.     *)
(*                                                                         *)
(* Left out: rate limits, scopes (every key carries all of them), ordinary *)
(* telemetry calls (their 401 halts as the next sync's would), tripwires.  *)
(* Operators called Mut... are mistakes the properties must catch.         *)
(***************************************************************************)
EXTENDS Naturals, FiniteSets

CONSTANTS
  Macs,         \* machines with an agent on them
  Devices,      \* device rows the parent may create
  Codes,        \* bound: enrolment codes, 1..n, used in order
  Keys,         \* bound: API keys, 1..n, minted in order
  Slots,        \* bound: calls inside the server at once
  Ttl,          \* ENROLMENT_TTL_MINUTES
  Overlap,      \* OVERLAP_MS
  RotateAfter,  \* ROTATE_AFTER_MS
  MaxAttempts,  \* MAX_ENROLMENT_ATTEMPTS
  Horizon,      \* bound: units of time modelled
  Losses,       \* bound: calls that go unanswered
  Crashes,      \* bound: restarts of the sync daemon in the middle of a call
  Concurrent,   \* BOOLEAN: may handlers overlap, outlive their call or die half-way?
  Items,        \* BOOLEAN: does an operator queue `credential' desired items?
  None

ASSUME CredentialsAssumption ==
  /\ IsFiniteSet(Codes) /\ Codes = 1..Cardinality(Codes)
  /\ IsFiniteSet(Keys) /\ Keys = 1..Cardinality(Keys)
  /\ {Ttl, Overlap, RotateAfter, MaxAttempts, Horizon, Losses, Crashes} \subseteq Nat
  /\ {Concurrent, Items} \subseteq BOOLEAN
  /\ None \notin Macs \cup Devices \cup Nat

VARIABLES
  now,     \* server time; the agent's trusted time is taken to agree with it
  dev,     \* devices rows
  items,   \* devices with a pending `credential' desired item
  keys,    \* apikeys rows
  minted,  \* how many keys were ever minted
  codes,   \* enrollments rows
  issued,  \* how many codes were ever issued
  req,     \* calls inside the server or in flight
  op,      \* the parent's click being handled
  job,     \* closeExpiredRotations: [todo, off]
  agent,   \* the sync daemons
  lost,    \* unanswered calls so far
  crashed, \* mid-call restarts so far
  ended    \* history: how the parent last ended each device, the keys there were
           \* by then, and the set of all ends

server == <<dev, items, keys, minted, codes, issued>>
bounds == <<lost, crashed>>
vars == <<now, server, req, op, job, agent, bounds, ended>>

Live == {"enrolled", "active"}
Statuses == {"absent", "pending", "revoked", "decommissioned"} \cup Live

NoDevice == [status |-> "absent", mac |-> None, key |-> None, prev |-> None, until |-> 0]
FreshAgent == [phase |-> "idle", cred |-> None, code |-> None, halted |-> FALSE,
               gone |-> FALSE, item |-> FALSE]

-----------------------------------------------------------------------------
(* Authentication (better-auth) and the device resolver.                    *)

Authenticates(k) ==
  /\ keys[k] # None
  /\ keys[k].on
  /\ keys[k].expires # None => now < keys[k].expires

\* Mutant: the current key only.
MutResolved(k) == {d \in Devices : dev[d].key = k}

\* The current key, or the superseded one inside its overlap.
Resolved(k) ==
  {d \in Devices : dev[d].key = k \/ (dev[d].prev = k /\ now < dev[d].until)}

Accepted(k) == Authenticates(k) /\ Resolved(k) # {}

Mint(d, ks) ==
  [ks EXCEPT ![minted + 1] =
     [device |-> d, on |-> TRUE, expires |-> None, used |-> FALSE]]

TurnOff(ks, off) ==
  [k \in Keys |-> IF k \in off /\ ks[k] # None THEN [ks[k] EXCEPT !.on = FALSE] ELSE ks[k]]

\* The current key and one inside a rotation overlap.
RowKeys(d) == {dev[d].key, dev[d].prev} \ {None}

\* better-auth stamps lastRequest on every request it authenticates.
Touch(k) == keys' = [keys EXCEPT ![k].used = TRUE]

-----------------------------------------------------------------------------
(* The plumbing of a call.                                                  *)

Mid(s) == req[s] # None /\ req[s].stage \notin {"sent", "done"}

\* A handler may begin: always, or only when nothing else is half-way.
MayStart == Concurrent \/ (op = None /\ job = None /\ \A s \in Slots : ~Mid(s))

Stage(s, stage) == req[s] # None /\ req[s].stage = stage
At(s, kind, stage) == Stage(s, stage) /\ req[s].kind = kind

Answer(a) == [answer |-> a, key |-> None, device |-> None, item |-> FALSE]

\* The response: nobody waits for one whose client has given up.
Reply(s, r) ==
  req' = [req EXCEPT ![s] = IF @.waited THEN [@ EXCEPT !.stage = "done", !.reply = r]
                            ELSE None]

Proceed(s, stage, seen) ==
  req' = [req EXCEPT ![s].stage = stage, ![s].seen = seen]

Send(m, kind, phase) ==
  \E s \in Slots :
    /\ req[s] = None
    /\ req' = [req EXCEPT ![s] =
         [mac |-> m, kind |-> kind, code |-> agent[m].code,
          key |-> IF agent[m].cred = None THEN None ELSE agent[m].cred.token,
          stage |-> "sent", seen |-> None, reply |-> None, waited |-> TRUE]]
    /\ agent' = [agent EXCEPT ![m].phase = phase]

-----------------------------------------------------------------------------
(* The sync daemon.                                                         *)

Waiting == {"enrolling", "syncing", "rotating", "renewal", "reporting"}

\* SyncDaemon.tick: enrol without a credential, sync with one.
Tick(m) ==
  /\ agent[m].phase = "idle" /\ ~agent[m].halted /\ ~agent[m].gone
  /\ \/ agent[m].cred = None /\ agent[m].code # None /\ Send(m, "enrol", "enrolling")
     \/ agent[m].cred # None /\ Send(m, "sync", "syncing")
  /\ UNCHANGED <<now, server, op, job, bounds, ended>>

Got(m, s) == Stage(s, "done") /\ req[s].waited /\ req[s].mac = m
Consume(s) == req' = [req EXCEPT ![s] = None]

\* enrol, and EnrolmentPolicy for a refusal: a dead code is never sent again.
GetEnrolment(m) ==
  \E s \in Slots :
    /\ Got(m, s) /\ agent[m].phase = "enrolling"
    /\ agent' = [agent EXCEPT
         ![m].phase = "idle",
         ![m].code = None,
         ![m].cred = IF req[s].reply.answer = "ok"
                     THEN [token |-> req[s].reply.key, device |-> req[s].reply.device,
                           renew |-> None]
                     ELSE @]
    /\ Consume(s)
    /\ UNCHANGED <<now, server, op, job, bounds, ended>>

\* Mutant: every refusal is read as `decommission'.
MutObeys(answer) == answer \in {"halt", "decommission"}

\* Client.interpret and SyncDaemon.handle: the one answer that uninstalls.
Obeys(answer) == answer = "decommission"

GetSync(m) ==
  \E s \in Slots :
    /\ Got(m, s) /\ agent[m].phase = "syncing"
    /\ agent' =
         IF req[s].reply.answer = "ok"
         THEN [agent EXCEPT ![m].phase = "reconciling", ![m].item = req[s].reply.item]
         ELSE [agent EXCEPT ![m].halted = TRUE,
                            ![m].phase = IF Obeys(req[s].reply.answer) THEN "leaving" ELSE "idle"]
    /\ Consume(s)
    /\ UNCHANGED <<now, server, op, job, bounds, ended>>

\* A desired `credential' item first, then rotate_after.
Reconcile(m) ==
  /\ agent[m].phase = "reconciling"
  /\ IF agent[m].item THEN Send(m, "rotate", "rotating")
     ELSE agent' = [agent EXCEPT ![m].phase = "renewing"] /\ UNCHANGED req
  /\ UNCHANGED <<now, server, op, job, bounds, ended>>

RotateIfDue(m) ==
  /\ agent[m].phase = "renewing"
  /\ IF agent[m].cred.renew # None /\ agent[m].cred.renew <= now
     THEN Send(m, "rotate", "renewal")
     ELSE agent' = [agent EXCEPT ![m].phase = "idle"] /\ UNCHANGED req
  /\ UNCHANGED <<now, server, op, job, bounds, ended>>

\* Mutant: the daemon goes on waiting.
MutAfterRotation(m) == agent[m].phase

AfterRotation(m) == IF agent[m].phase = "rotating" THEN "renewing" ELSE "idle"

\* rotate: whatever is not a new token changes nothing.
GetRotation(m) ==
  \E s \in Slots :
    /\ Got(m, s) /\ agent[m].phase \in {"rotating", "renewal"}
    /\ agent' = [agent EXCEPT
         ![m].phase = AfterRotation(m),
         ![m].cred = IF req[s].reply.answer = "ok"
                     THEN [@ EXCEPT !.token = req[s].reply.key, !.renew = now + RotateAfter]
                     ELSE @]
    /\ Consume(s)
    /\ UNCHANGED <<now, server, op, job, bounds, ended>>

\* decommission: the final report first, then everything is removed, whatever
\* became of the report.
Leave(m) ==
  /\ agent[m].phase = "leaving"
  /\ Send(m, "report", "reporting")
  /\ UNCHANGED <<now, server, op, job, bounds, ended>>

Removed == [FreshAgent EXCEPT !.halted = TRUE, !.gone = TRUE]

GetReport(m) ==
  \E s \in Slots :
    /\ Got(m, s) /\ agent[m].phase = "reporting"
    /\ agent' = [agent EXCEPT ![m] = Removed]
    /\ Consume(s)
    /\ UNCHANGED <<now, server, op, job, bounds, ended>>

Waits(m, s) == req[s] # None /\ req[s].mac = m /\ req[s].waited

\* The call of m is lost on the way there or back, or dies with the server, or
\* the client gives up on it while the server goes on.
Abandon(m) ==
  \E s \in Slots :
    /\ Waits(m, s)
    /\ \/ (Concurrent \/ ~Mid(s)) /\ req' = [req EXCEPT ![s] = None]
       \/ Concurrent /\ req[s].stage # "done" /\ req' = [req EXCEPT ![s].waited = FALSE]

Unanswered(m) ==
  /\ agent[m].phase \in Waiting
  /\ lost < Losses /\ lost' = lost + 1
  /\ Abandon(m)
  /\ agent' = [agent EXCEPT ![m] =
       CASE @.phase = "reporting" -> Removed
         [] @.phase \in {"rotating", "renewal"} -> [@ EXCEPT !.phase = AfterRotation(m)]
         [] OTHER -> [@ EXCEPT !.phase = "idle"]]
  /\ UNCHANGED <<now, server, op, job, crashed, ended>>

\* `halted' is in memory only: a restart clears it, whether it falls between two
\* ticks or cuts one short.
Restart(m) ==
  /\ agent[m].halted \/ agent[m].phase # "idle"
  /\ ~agent[m].gone
  /\ agent[m].phase # "idle" => crashed < Crashes
  /\ crashed' = IF agent[m].phase = "idle" THEN crashed ELSE crashed + 1
  /\ IF agent[m].phase \in Waiting THEN Abandon(m) ELSE UNCHANGED req
  /\ agent' = [agent EXCEPT ![m].phase = "idle", ![m].halted = FALSE]
  /\ UNCHANGED <<now, server, op, job, lost, ended>>

-----------------------------------------------------------------------------
(* POST /enroll.                                                            *)

\* The conditional UPDATE.
Claimable(c) == codes[c] # None /\ codes[c].by = None /\ now < codes[c].expires

Claimed(c) == \E s \in Slots : Stage(s, "claimed") /\ req[s].code = c

\* Mutant: nobody else holds a Mac.
MutHolders(m, d) == {}

\* Other live registrations of the same Mac.
Holders(m, d) == {e \in Devices \ {d} : dev[e].mac = m /\ dev[e].status \in Live}

Issue(s, d, ks) ==
  LET m == req[s].mac IN
  /\ minted + 1 \in Keys
  /\ keys' = Mint(d, ks)
  /\ minted' = minted + 1
  /\ dev' = [dev EXCEPT ![d].status = "enrolled", ![d].mac = m, ![d].key = minted + 1]
  /\ Reply(s, [Answer("ok") EXCEPT !.key = minted + 1, !.device = d])

\* One transaction: claim, holder check ...
EnrolClaim(s) ==
  /\ MayStart /\ At(s, "enrol", "sent")
  /\ Claimable(req[s].code) /\ ~Claimed(req[s].code)
  /\ IF Holders(req[s].mac, codes[req[s].code].device) # {}
     THEN Reply(s, Answer("rejected"))
     ELSE Proceed(s, "claimed", None)
  /\ UNCHANGED <<now, server, op, job, agent, bounds, ended>>

\* ... mint, device row, commit.
EnrolCommit(s) ==
  /\ At(s, "enrol", "claimed")
  /\ codes' = [codes EXCEPT ![req[s].code].by = req[s].mac]
  /\ Issue(s, codes[req[s].code].device, keys)
  /\ UNCHANGED <<now, items, issued, op, job, agent, bounds, ended>>

\* Mutant: any Mac that knows a consumed code.
MutMayReissue(m, c) ==
  LET k == dev[codes[c].device].key IN
  /\ codes[c].by # None /\ now < codes[c].expires
  /\ codes[c].attempts + 1 < MaxAttempts
  /\ k # None /\ ~keys[k].used

\* The four conditions of a re-issue.
MayReissue(m, c) ==
  LET k == dev[codes[c].device].key IN
  /\ codes[c].by = m /\ now < codes[c].expires
  /\ codes[c].attempts + 1 < MaxAttempts
  /\ k # None /\ ~keys[k].used

\* rejectOrReissue: the attempt is counted outside any transaction (here up to
\* the maximum: only whether it is reached is ever asked).
EnrolRefused(s) ==
  LET c == req[s].code IN
  /\ MayStart /\ At(s, "enrol", "sent")
  /\ ~Claimable(c) /\ ~Claimed(c)
  /\ IF codes[c] = None
     THEN Reply(s, Answer("rejected")) /\ UNCHANGED codes
     ELSE /\ codes' = [codes EXCEPT ![c].attempts = IF @ < MaxAttempts THEN @ + 1 ELSE @]
          /\ IF MayReissue(req[s].mac, c)
             THEN Proceed(s, "reissuing", dev[codes[c].device].key)
             ELSE Reply(s, Answer("rejected"))
  /\ UNCHANGED <<now, dev, items, keys, minted, issued, op, job, agent, bounds, ended>>

\* The key the agent never stored is deleted, a fresh one is issued.
EnrolReissue(s) ==
  LET d == codes[req[s].code].device IN
  /\ At(s, "enrol", "reissuing")
  /\ IF Holders(req[s].mac, d) # {}
     THEN Reply(s, Answer("rejected")) /\ UNCHANGED <<dev, keys, minted>>
     ELSE Issue(s, d, [keys EXCEPT ![req[s].seen] = None])
  /\ UNCHANGED <<now, items, codes, issued, op, job, agent, bounds, ended>>

-----------------------------------------------------------------------------
(* The authenticated routes.  Every one begins with the same check; a key   *)
(* that does not pass is answered 401 or 403, `halt_sync_keep_enforcing'.   *)

Refuse(s, kind) ==
  LET k == req[s].key IN
  /\ MayStart /\ At(s, kind, "sent")
  /\ ~Accepted(k)
  /\ IF Authenticates(k) THEN Touch(k) ELSE UNCHANGED keys
  /\ Reply(s, Answer(IF kind = "rotate" THEN "failed" ELSE "halt"))
  /\ UNCHANGED <<now, dev, items, minted, codes, issued, op, job, agent, bounds, ended>>

Caller(s) == CHOOSE d \in Resolved(req[s].key) : TRUE

\* A decommissioned device is told so, on every route but /events.
TellDecommissioned(s, kind) ==
  /\ MayStart /\ At(s, kind, "sent") /\ Accepted(req[s].key)
  /\ dev[Caller(s)].status = "decommissioned"
  /\ Touch(req[s].key)
  /\ Reply(s, Answer(IF kind = "rotate" THEN "failed" ELSE "decommission"))
  /\ UNCHANGED <<now, dev, items, minted, codes, issued, op, job, agent, bounds, ended>>

\* handleSync: the row is read, and written back some statements later.
SyncRead(s) ==
  /\ MayStart /\ At(s, "sync", "sent") /\ Accepted(req[s].key)
  /\ dev[Caller(s)].status # "decommissioned"
  /\ Touch(req[s].key)
  /\ Proceed(s, "read", [device |-> Caller(s), status |-> dev[Caller(s)].status])
  /\ UNCHANGED <<now, dev, items, minted, codes, issued, op, job, agent, bounds, ended>>

\* Re-sent with every answer: nothing here ever marks a credential item converged.
PendingDesired(d) == d \in items

SyncWrite(s) ==
  /\ At(s, "sync", "read")
  /\ LET d == req[s].seen.device IN
     /\ dev' = IF req[s].seen.status = "enrolled" THEN [dev EXCEPT ![d].status = "active"]
               ELSE dev
     /\ Reply(s, [Answer("ok") EXCEPT !.item = PendingDesired(d)])
  /\ UNCHANGED <<now, items, keys, minted, codes, issued, op, job, agent, bounds, ended>>

\* Mutant: an open overlap does not stand in the way.
MutOverlapOpen(d) == FALSE

OverlapOpen(d) == dev[d].prev # None /\ now < dev[d].until

\* handleCredentialRotate: read and refuse, or ...
RotateRead(s) ==
  /\ MayStart /\ At(s, "rotate", "sent") /\ Accepted(req[s].key)
  /\ dev[Caller(s)].status # "decommissioned"
  /\ Touch(req[s].key)
  /\ IF dev[Caller(s)].key = None \/ OverlapOpen(Caller(s))
     THEN Reply(s, Answer("failed"))
     ELSE Proceed(s, "read", [device |-> Caller(s), key |-> dev[Caller(s)].key])
  /\ UNCHANGED <<now, dev, items, minted, codes, issued, op, job, agent, bounds, ended>>

\* ... mint first (the row is committed at once), ...
RotateMint(s) ==
  /\ At(s, "rotate", "read")
  /\ minted + 1 \in Keys
  /\ keys' = Mint(req[s].seen.device, keys)
  /\ minted' = minted + 1
  /\ Proceed(s, "minted", [device |-> req[s].seen.device, key |-> req[s].seen.key,
                           new |-> minted + 1])
  /\ UNCHANGED <<now, dev, items, codes, issued, op, job, agent, bounds, ended>>

\* ... then one transaction: the old key gains an expiry, the row moves on.
RotateCommit(s) ==
  /\ At(s, "rotate", "minted")
  /\ LET w == req[s].seen IN
     /\ keys' = IF keys[w.key] = None THEN keys
                ELSE [keys EXCEPT ![w.key].expires = now + Overlap]
     /\ dev' = [dev EXCEPT ![w.device].key = w.new, ![w.device].prev = w.key,
                           ![w.device].until = now + Overlap]
     /\ Reply(s, [Answer("ok") EXCEPT !.key = w.new, !.device = w.device])
  /\ UNCHANGED <<now, items, minted, codes, issued, op, job, agent, bounds, ended>>

\* POST /events, which a decommissioned device may still call: its last report
\* retires the credential, unless a backlog kept it out of the batch.
Report(s) ==
  /\ MayStart /\ At(s, "report", "sent") /\ Accepted(req[s].key)
  /\ LET d == Caller(s) IN
     \/ Touch(req[s].key)
     \/ /\ dev[d].status = "decommissioned"
        /\ keys' = TurnOff(keys, RowKeys(d))
  /\ Reply(s, Answer("ok"))
  /\ UNCHANGED <<now, dev, items, minted, codes, issued, op, job, agent, bounds, ended>>

-----------------------------------------------------------------------------
(* The parent.                                                              *)

NewCode(d) ==
  [device |-> d, by |-> None, expires |-> now + Ttl, attempts |-> 0]

Unconsumed(d) == {c \in Codes : codes[c] # None /\ codes[c].device = d /\ codes[c].by = None}
Forget(dead) == [c \in Codes |-> IF c \in dead THEN None ELSE codes[c]]

CreateDevice(d) ==
  /\ MayStart /\ dev[d].status = "absent" /\ issued + 1 \in Codes
  /\ dev' = [dev EXCEPT ![d].status = "pending"]
  /\ codes' = [codes EXCEPT ![issued + 1] = NewCode(d)]
  /\ issued' = issued + 1
  /\ UNCHANGED <<now, items, keys, minted, req, op, job, agent, bounds, ended>>

\* handleReissueCode and endCredential both read the device, then write.
Click(d, what) ==
  /\ MayStart /\ op = None /\ dev[d].status # "absent"
  /\ what = "code" => dev[d].status = "pending" /\ issued + 1 \in Codes
  /\ op' = [device |-> d, what |-> what, keys |-> RowKeys(d)]
  /\ UNCHANGED <<now, server, req, job, agent, bounds, ended>>

ReissueCode ==
  /\ op # None /\ op.what = "code" /\ issued + 1 \in Codes
  /\ \A c \in Unconsumed(op.device) : ~Claimed(c)     \* the claim holds the row
  /\ codes' = [Forget(Unconsumed(op.device)) EXCEPT ![issued + 1] = NewCode(op.device)]
  /\ issued' = issued + 1
  /\ op' = None
  /\ UNCHANGED <<now, dev, items, keys, minted, req, job, agent, bounds, ended>>

\* Mutant: decommissioning disables the credential, as revoking does.
MutKeepCredential(what) == FALSE

\* Mutant: revoking keeps it too.
MutKeepRevoked(what) == TRUE

\* The Mac must be able to hear that it is decommissioned.
KeepCredential(what) == what = "decommissioned"

\* Mutant: setup codes survive.
MutDeadCodes(d) == {}

\* An unused setup code dies with its device.
DeadCodes(d) == Unconsumed(d)

EndDevice ==
  /\ op # None /\ op.what \in {"revoked", "decommissioned"}
  /\ \A c \in Unconsumed(op.device) : ~Claimed(c)
  /\ LET d == op.device IN
     /\ keys' = IF KeepCredential(op.what) THEN keys ELSE TurnOff(keys, op.keys)
     /\ dev' = [dev EXCEPT ![d] =
          IF KeepCredential(op.what) THEN [@ EXCEPT !.status = op.what]
          ELSE [@ EXCEPT !.status = op.what, !.prev = None, !.until = 0]]
     /\ codes' = Forget(DeadCodes(d))
     /\ items' = IF op.what = "decommissioned" THEN items \ {d} ELSE items
     /\ ended' = [ended EXCEPT ![d] =
          [what |-> op.what, upto |-> minted,
           ends |-> {op.what} \cup (IF @ = None THEN {} ELSE @.ends)]]
  /\ op' = None
  /\ UNCHANGED <<now, minted, issued, req, job, agent, bounds>>

\* install.sh --code: the daemon restarts, on a Mac that was removed afresh.
StageCode(m) ==
  \E c \in Codes :
    /\ codes[c] # None /\ agent[m].phase = "idle" /\ agent[m].code # c
    /\ agent' = [agent EXCEPT ![m] =
         [IF @.gone THEN FreshAgent ELSE @ EXCEPT !.code = c, !.halted = FALSE]]
    /\ UNCHANGED <<now, server, req, op, job, bounds, ended>>

\* An operator inserts a `credential' desired item; nothing in the server
\* observes its convergence, so it stays pending.
QueueItem(d) ==
  /\ Items /\ dev[d].status \in Live /\ d \notin items
  /\ items' = items \cup {d}
  /\ UNCHANGED <<now, dev, keys, minted, codes, issued, req, op, job, agent, bounds, ended>>

-----------------------------------------------------------------------------
(* closeExpiredRotations: select, then two updates per row.                 *)

Expired == {d \in Devices : dev[d].prev # None /\ dev[d].until < now}

CloseSelect ==
  /\ MayStart /\ job = None /\ Expired # {}
  /\ job' = [todo |-> [d \in Expired |-> dev[d].prev], off |-> FALSE]
  /\ UNCHANGED <<now, server, req, op, agent, bounds, ended>>

CloseDisable ==
  /\ job # None /\ ~job.off
  /\ \E d \in DOMAIN job.todo : keys' = TurnOff(keys, {job.todo[d]})
  /\ job' = [job EXCEPT !.off = TRUE]
  /\ UNCHANGED <<now, dev, items, minted, codes, issued, req, op, agent, bounds, ended>>

CloseClear ==
  /\ job # None /\ job.off
  /\ \E d \in DOMAIN job.todo :
       /\ dev' = [dev EXCEPT ![d].prev = None, ![d].until = 0]
       /\ job' = LET rest == DOMAIN job.todo \ {d} IN
                 IF rest = {} THEN None
                 ELSE [todo |-> [e \in rest |-> job.todo[e]], off |-> FALSE]
  /\ UNCHANGED <<now, items, keys, minted, codes, issued, req, op, agent, bounds, ended>>

\* Time passes between calls, not within them.
Pass ==
  /\ now < Horizon
  /\ \A s \in Slots : req[s] = None
  /\ op = None /\ job = None
  /\ \A m \in Macs : agent[m].phase \notin Waiting
  /\ now' = now + 1
  /\ UNCHANGED <<server, req, op, job, agent, bounds, ended>>

-----------------------------------------------------------------------------

Init ==
  /\ now = 0 /\ minted = 0 /\ issued = 0 /\ lost = 0 /\ crashed = 0
  /\ dev = [d \in Devices |-> NoDevice]
  /\ items = {}
  /\ keys = [k \in Keys |-> None]
  /\ codes = [c \in Codes |-> None]
  /\ req = [s \in Slots |-> None]
  /\ op = None /\ job = None
  /\ agent = [m \in Macs |-> FreshAgent]
  /\ ended = [d \in Devices |-> None]

AgentStep(m) ==
  \/ Tick(m) \/ GetEnrolment(m) \/ GetSync(m) \/ Reconcile(m) \/ RotateIfDue(m)
  \/ GetRotation(m) \/ Leave(m) \/ GetReport(m)

Handle(s) ==
  \/ EnrolClaim(s) \/ EnrolCommit(s) \/ EnrolRefused(s) \/ EnrolReissue(s)
  \/ \E kind \in {"sync", "rotate", "report"} : Refuse(s, kind)
  \/ \E kind \in {"sync", "rotate"} : TellDecommissioned(s, kind)
  \/ SyncRead(s) \/ SyncWrite(s)
  \/ RotateRead(s) \/ RotateMint(s) \/ RotateCommit(s)
  \/ Report(s)

Close == CloseSelect \/ CloseDisable \/ CloseClear

Parent ==
  \/ \E d \in Devices :
       \/ CreateDevice(d) \/ QueueItem(d)
       \/ \E what \in {"code", "revoked", "decommissioned"} : Click(d, what)
  \/ \E m \in Macs : StageCode(m)

Next ==
  \/ \E m \in Macs : AgentStep(m) \/ Unanswered(m) \/ Restart(m)
  \/ \E s \in Slots : Handle(s)
  \/ Parent \/ ReissueCode \/ EndDevice
  \/ Close
  \/ Pass

Spec == Init /\ [][Next]_vars

\* The daemon ticks, the server handles what reached it, the nightly job runs
\* and time passes; strongly, because one handler at a time would let a busy
\* parent keep the others out, which Postgres does not.  Nobody promises that the
\* parent clicks, that a daemon restarts or that a call is lost.
Fairness ==
  /\ \A m \in Macs : WF_vars(AgentStep(m))
  /\ \A s \in Slots : SF_vars(Handle(s))
  /\ WF_vars(ReissueCode \/ EndDevice)
  /\ SF_vars(Close)
  /\ SF_vars(Pass)

FairSpec == Spec /\ Fairness

-----------------------------------------------------------------------------
(* Properties.                                                              *)

KeyRow == [device : Devices, on : BOOLEAN, expires : Nat \cup {None}, used : BOOLEAN]
Enrollment == [device : Devices, by : Macs \cup {None}, expires : Nat, attempts : Nat]
KeyOrNone == Keys \cup {None}
Answers == [answer : {"ok", "rejected", "halt", "decommission", "failed"},
            key : KeyOrNone, device : Devices \cup {None}, item : BOOLEAN]
Seen == KeyOrNone \cup [device : Devices, status : Statuses] \cup [device : Devices, key : Keys]
          \cup [device : Devices, key : Keys, new : Keys]
Request == [mac : Macs, kind : {"enrol", "sync", "rotate", "report"}, code : Codes \cup {None},
            key : KeyOrNone, stage : {"sent", "claimed", "reissuing", "read", "minted", "done"},
            seen : Seen, reply : Answers \cup {None}, waited : BOOLEAN]
Ending == [what : {"revoked", "decommissioned"}, upto : Nat, ends : SUBSET {"revoked", "decommissioned"}]
Cred == [token : Keys, device : Devices, renew : Nat \cup {None}]
Op == [device : Devices, what : {"code", "revoked", "decommissioned"}, keys : SUBSET Keys]

\* None is no row.
ASSUME NoneAssumption == None \notin KeyRow \cup Enrollment \cup Request \cup Ending \cup Cred \cup Op

\* Every variable stays in its domain.
TypeOK ==
  /\ now \in 0..Horizon /\ minted \in {0} \cup Keys /\ issued \in {0} \cup Codes
  /\ lost \in 0..Losses /\ crashed \in 0..Crashes
  /\ dev \in [Devices -> [status : Statuses, mac : Macs \cup {None}, key : KeyOrNone,
                          prev : KeyOrNone, until : Nat]]
  /\ items \subseteq Devices
  /\ keys \in [Keys -> KeyRow \cup {None}]
  /\ codes \in [Codes -> {None} \cup Enrollment]
  /\ \A m \in Macs :
       /\ agent[m].phase \in Waiting \cup {"idle", "reconciling", "renewing", "leaving"}
       /\ agent[m].cred # None => agent[m].cred.token \in Keys
       /\ agent[m].phase \in Waiting <=> \E s \in Slots : Waits(m, s)

Holds(m, d) == agent[m].cred # None /\ agent[m].cred.device = d
Token(m) == agent[m].cred.token

\* A credential that still authenticates is still bound to its device, through
\* lost answers, rotations and the nightly job: agent.ts's resolver and the rows
\* rotation writes agree.
OverlapHonoured ==
  \A m \in Macs, d \in Devices :
    Holds(m, d) /\ ended[d] = None /\ Authenticates(Token(m)) => Resolved(Token(m)) = {d}

\* However often a code is retried, re-issued and raced, a device is never taken
\* over by another Mac; and no lost answer, dead key or refused code makes an agent
\* remove itself, only the decommissioning of a device of that very Mac does.  What
\* Binding promises, of the routes and the daemon together.
B == INSTANCE Binding WITH
       owner   <- [d \in Devices |-> dev[d].mac],
       retired <- {d \in Devices : ended[d] # None /\ "decommissioned" \in ended[d].ends},
       removed <- {m \in Macs : agent[m].gone}

ImplementsBinding == B!Spec

\* At most one code is a way in, and only to a device that is still pending.
NoSpareWayIn ==
  \A c \in Codes : Claimable(c) =>
    /\ dev[codes[c].device].status = "pending"
    /\ \A e \in Codes : Claimable(e) /\ codes[e].device = codes[c].device => e = c

\* Every key that authenticates is one a device row refers to, or a rotation in
\* hand, so that ending the device can end the key.
NoOrphanKey ==
  \A k \in Keys :
    Authenticates(k) =>
      \/ \E d \in Devices : k \in RowKeys(d)
      \/ \E s \in Slots : Stage(s, "minted") /\ req[s].seen.new = k

\* The state is well formed, and every way to act as a device is accounted for.
KeysAndCodes == TypeOK /\ NoSpareWayIn /\ NoOrphanKey

\* Revoking kills every key the device had: no answer still on its way, no
\* rotation and no overlap brings one of them back.
RevokedIsDead ==
  \A k \in Keys :
    keys[k] # None =>
      LET e == ended[keys[k].device] IN
      e # None /\ e.what = "revoked" /\ k <= e.upto => ~Accepted(k)

\* A device that was only ever decommissioned: nothing has touched its credential.
OnlyDecommissioned(d) ==
  dev[d].status = "decommissioned" /\ ended[d].ends = {"decommissioned"}

\* A decommissioned Mac that holds the device's current credential hears of it
\* and removes itself, unless the parent revokes the device after all.
DecommissionReaches ==
  \A m \in Macs, d \in Devices :
    (OnlyDecommissioned(d) /\ Holds(m, d) /\ Token(m) = dev[d].key)
      ~> (agent[m].gone \/ ~OnlyDecommissioned(d))

(* What the repository says and the code does not do.                        *)

\* "One Mac, one registration" (enroll.ts): no Mac is enrolled as two live devices.
OneMacOneRegistration ==
  \A d, e \in Devices :
    dev[d].status \in Live /\ dev[e].status \in Live /\ dev[d].mac = dev[e].mac => d = e

\* "`backoff' ...: the desired item is re-sent next tick and will succeed once
\* the window closes" (credential.ts): a Mac always gets past a lost answer.
NeverStranded ==
  \A m \in Macs, d \in Devices :
    Holds(m, d) /\ dev[d].status \in Live /\ ended[d] = None => Accepted(Token(m))

\* "`rotate_after' is returned by enrolment and by every rotation"
\* (SyncDaemon.swift): an agent renews its credential on the clock.
RenewsOnTheClock ==
  \A m \in Macs, k \in Keys :
    (agent[m].cred # None /\ Token(m) = k /\ now + RotateAfter < Horizon)
      ~> (agent[m].cred = None \/ Token(m) # k \/ ~Accepted(k))

\* A device the parent ended stays ended until the parent acts on it again.
EndedStaysEnded ==
  \A d \in Devices : ended[d] # None => dev[d].status = ended[d].what

\* The credential is retired once the agent reports "that it has uninstalled
\* itself" (events.ts): a retired one is not left on an enforcing Mac.
RetiredMeansGone ==
  \A m \in Macs, d \in Devices :
    Holds(m, d) /\ ended[d] # None /\ ended[d].ends = {"decommissioned"}
      /\ agent[m].phase = "idle" => Accepted(Token(m))

\* "the device learns of it as a `410' on its next /sync" (parent-devices.ts): a
\* decommissioned Mac is always told, one that was revoked before included.
DecommissionAlwaysReaches ==
  \A m \in Macs, d \in Devices :
    (dev[d].status = "decommissioned" /\ Holds(m, d))
      ~> (agent[m].gone \/ dev[d].status # "decommissioned")

\* "setting the Mac up again is the way back" from a revocation (enroll.ts): a
\* live code staged on a revoked Mac is sent.
RevokedMacIsSetUpAgain ==
  \A m \in Macs, c \in Codes :
    (/\ agent[m].code = c /\ Claimable(c)
     /\ \E d \in Devices : Holds(m, d) /\ dev[d].status = "revoked")
      ~> agent[m].code # c

=============================================================================
