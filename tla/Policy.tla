------------------------------- MODULE Policy -------------------------------
(***************************************************************************)
(* How a rule reaches a Mac: parents' requests that change the tables and  *)
(* publish (apps/api/src/routes/parent-overrides.ts, parent-rules.ts), the *)
(* publication itself, under the device's row lock and over a pool of      *)
(* database connections (policy/publish.ts), the nightly recompile, the    *)
(* policy part of /sync (routes/sync.ts), and the Mac's three files        *)
(* (HPCSyncKit/SyncDaemon.swift, SyncDaemon+PolicyEtag.swift).             *)
(*                                                                         *)
(* Several requests are served at once; each is cut where the code awaits. *)
(* A policy's content is the draft rules and the set of live grants; what  *)
(* the compiler makes of them, expiry included, is Compiler's subject.     *)
(* Every device is enrolled with version 1.  An etag names a version       *)
(* (etagFor), so both are the version's number here.                       *)
(***************************************************************************)
EXTENDS Integers, Sequences, FiniteSets

CONSTANTS
  Devices,      \* the Macs of one child
  Clients,      \* requests the API serves at once
  Pool,         \* connections in the database pool
  Rules,        \* what schedule_windows may say
  FirstRules,   \* what they say at enrolment
  Grants,       \* ids of overrides rows
  GrantCap,     \* override_policy.max_grants_per_day
  Bad,          \* a policy file that does not verify
  None,
  MaxRequests,  \* parents' requests in a behaviour (bound)
  MaxFaults     \* crashes, power losses and lost messages in a behaviour (bound)

ASSUME PolicyAssumption ==
  /\ Pool \in Nat \ {0} /\ GrantCap \in Nat /\ FirstRules \in Rules
  /\ None \notin Nat /\ Bad \notin Nat /\ None # Bad
  /\ None \notin Devices /\ None \notin Clients /\ None \notin Grants

VARIABLES
  (* the database *)
  rules,      \* the draft: schedule_windows
  grants,     \* overrides: [Grants -> [state, device]]
  versions,   \* policy_versions: [Devices -> Seq([rules, grants])]
  lock,       \* who holds the device's row FOR UPDATE
  applied,    \* devices.applied_policy_version
  (* the requests *)
  pc, kind, gid, todo, dev, gathered,
  awaited,    \* awaiting_policy_version, as answered for a grant
  (* the Macs *)
  files,      \* [Devices -> [cur, lkg, etag]]
  mem,        \* lastEtag and appliedVersion
  sync,       \* the exchange under way
  (* bookkeeping *)
  requests, faults,
  missed      \* devices whose publication a crash of the API cut short

database == <<rules, grants, versions, lock>>
request  == <<pc, kind, gid, todo, dev, gathered, awaited>>
mac      == <<files, mem, sync>>
vars     == <<database, applied, request, mac, requests, faults, missed>>

Newest(d) == versions[d][Len(versions[d])]

Live(d) == {g \in Grants : grants[g].state = "live" /\ grants[g].device = d}

\* The stages of a request at which it keeps a connection for its transaction.
Holding == {"lock", "rules", "grants", "write"}

Free == Pool - Cardinality({c \in Clients : pc[c] \in Holding})

Init ==
  /\ rules = FirstRules
  /\ grants = [g \in Grants |-> [state |-> "none", device |-> None]]
  /\ versions = [d \in Devices |-> <<[rules |-> rules, grants |-> {}]>>]
  /\ lock = [d \in Devices |-> None]
  /\ applied = [d \in Devices |-> None]
  /\ pc = [c \in Clients |-> "idle"]
  /\ kind = [c \in Clients |-> None]
  /\ gid = [c \in Clients |-> None]
  /\ todo = [c \in Clients |-> {}]
  /\ dev = [c \in Clients |-> None]
  /\ gathered = [c \in Clients |-> None]
  /\ awaited = [g \in Grants |-> None]
  /\ files = [d \in Devices |-> [cur |-> None, lkg |-> None, etag |-> None]]
  /\ mem = [d \in Devices |-> None]
  /\ sync = [d \in Devices |-> [stage |-> "none", version |-> None]]
  /\ requests = 0
  /\ faults = 0
  /\ missed = {}

-----------------------------------------------------------------------------
(* The requests.  A query needs a free connection for a moment; a           *)
(* transaction keeps one.                                                    *)

Arrives(c, k) ==
  /\ pc[c] = "idle" /\ Free > 0
  /\ requests < MaxRequests
  /\ requests' = requests + 1
  /\ kind' = [kind EXCEPT ![c] = k]

\* The request goes on to publish for these devices.
ThenPublish(c, ds) ==
  /\ pc' = [pc EXCEPT ![c] = "begin"]
  /\ todo' = [todo EXCEPT ![c] = ds]

\* POST /overrides: the cap is read, and not locked.
GrantOverride(c, d) ==
  /\ Arrives(c, "grant")
  /\ Cardinality({g \in Grants : grants[g].state = "live"}) < GrantCap
  /\ \E g \in Grants :
       /\ grants[g].state = "none" /\ \A o \in Clients : gid[o] # g
       /\ gid' = [gid EXCEPT ![c] = g]
  /\ dev' = [dev EXCEPT ![c] = d]
  /\ pc' = [pc EXCEPT ![c] = "insert"]
  /\ UNCHANGED <<database, applied, todo, gathered, awaited, mac, faults, missed>>

InsertOverride(c) ==
  /\ pc[c] = "insert" /\ Free > 0
  /\ grants' = [grants EXCEPT ![gid[c]] = [state |-> "live", device |-> dev[c]]]
  /\ ThenPublish(c, {dev[c]})
  /\ UNCHANGED <<rules, versions, lock, applied, kind, gid, dev, gathered, awaited, mac,
                 requests, faults, missed>>

\* DELETE /overrides/:id
RevokeOverride(c, g) ==
  /\ Arrives(c, "revoke")
  /\ grants[g].state = "live"
  /\ grants' = [grants EXCEPT ![g].state = "revoked"]
  /\ ThenPublish(c, {grants[g].device})
  /\ UNCHANGED <<rules, versions, lock, applied, gid, dev, gathered, awaited, mac, faults,
                 missed>>

\* PUT /rules saves the draft, in one transaction, and publishes nothing.
SaveRules(c, r) ==
  /\ pc[c] = "idle" /\ Free > 0
  /\ requests < MaxRequests
  /\ requests' = requests + 1
  /\ rules' = r
  /\ UNCHANGED <<grants, versions, lock, applied, request, mac, faults, missed>>

\* POST /rules/publish, once C3 is satisfied.
PublishRules(c, d) ==
  /\ Arrives(c, "publish")
  /\ ThenPublish(c, {d})
  /\ UNCHANGED <<database, applied, gid, dev, gathered, awaited, mac, faults, missed>>

\* POST /rules/history/:version/restore: the old windows, then a publication.
RestoreVersion(c, d, v) ==
  /\ Arrives(c, "restore")
  /\ v \in 1..Len(versions[d])
  /\ rules' = versions[d][v].rules
  /\ ThenPublish(c, {d})
  /\ UNCHANGED <<grants, versions, lock, applied, gid, dev, gathered, awaited, mac, faults,
                 missed>>

\* The nightly job: every device, one after the other.  The scheduler never
\* starts it while it runs.
RecompileHorizons(c) ==
  /\ pc[c] = "idle" /\ Free > 0
  /\ \A o \in Clients : kind[o] # "calendar"
  /\ kind' = [kind EXCEPT ![c] = "calendar"]
  /\ ThenPublish(c, Devices)
  /\ UNCHANGED <<database, applied, gid, dev, gathered, awaited, mac, requests, faults,
                 missed>>

-----------------------------------------------------------------------------
(* publishPolicy *)

\* The transaction begins: a connection is taken.
Begin(c) ==
  /\ pc[c] = "begin" /\ Free > 0
  /\ \E d \in todo[c] : dev' = [dev EXCEPT ![c] = d]
  /\ pc' = [pc EXCEPT ![c] = "lock"]
  /\ UNCHANGED <<database, applied, kind, gid, todo, gathered, awaited, mac, requests,
                 faults, missed>>

\* Mutant: no lock.
MutLock(c) ==
  /\ pc[c] = "lock"
  /\ pc' = [pc EXCEPT ![c] = "rules"]
  /\ UNCHANGED <<database, applied, kind, gid, todo, dev, gathered, awaited,
                 mac, requests, faults, missed>>

\* SELECT ... FOR UPDATE
Lock(c) ==
  /\ pc[c] = "lock"
  /\ lock[dev[c]] = None
  /\ lock' = [lock EXCEPT ![dev[c]] = c]
  /\ pc' = [pc EXCEPT ![c] = "rules"]
  /\ UNCHANGED <<rules, grants, versions, applied, kind, gid, todo, dev, gathered, awaited,
                 mac, requests, faults, missed>>

\* gatherCompilerInput reads on the pool, not on the transaction: each query
\* needs a connection more.
GatherRules(c) ==
  /\ pc[c] = "rules" /\ Free > 0
  /\ gathered' = [gathered EXCEPT ![c] = [rules |-> rules, grants |-> {}]]
  /\ pc' = [pc EXCEPT ![c] = "grants"]
  /\ UNCHANGED <<database, applied, kind, gid, todo, dev, awaited, mac, requests, faults,
                 missed>>

GatherGrants(c) ==
  /\ pc[c] = "grants" /\ Free > 0
  /\ gathered' = [gathered EXCEPT ![c].grants = Live(dev[c])]
  /\ todo' = [todo EXCEPT ![c] = @ \ {dev[c]}]
  /\ pc' = [pc EXCEPT ![c] = "write"]
  /\ UNCHANGED <<database, applied, kind, gid, dev, awaited, mac, requests, faults, missed>>

Changed(c) == gathered[c] # Newest(dev[c])

\* Mutant: the next version, also when nothing changed.
MutVersion(c) == Len(versions[dev[c]]) + 1

\* The version publishPolicy returns.
Version(c) == IF Changed(c) THEN Len(versions[dev[c]]) + 1 ELSE Len(versions[dev[c]])

\* The new version, unless the content is the newest one's; then the commit.
Write(c) ==
  LET d == dev[c]
  IN  /\ pc[c] = "write"
      /\ versions' = IF Changed(c) THEN [versions EXCEPT ![d] = Append(@, gathered[c])]
                     ELSE versions
      /\ lock' = [lock EXCEPT ![d] = None]
      /\ awaited' = IF kind[c] = "grant" THEN [awaited EXCEPT ![gid[c]] = Version(c)] ELSE awaited
      /\ missed' = missed \ {d}
      /\ pc' = [pc EXCEPT ![c] = IF todo[c] = {} THEN "idle" ELSE "begin"]
      /\ gid' = [gid EXCEPT ![c] = None]
      /\ dev' = [dev EXCEPT ![c] = None]
      /\ gathered' = [gathered EXCEPT ![c] = None]
      /\ kind' = [kind EXCEPT ![c] = IF todo[c] = {} THEN None ELSE @]
      /\ UNCHANGED <<rules, grants, applied, todo, mac, requests, faults>>

\* The API process dies: transactions roll back, what was committed stays.
ApiCrash ==
  /\ faults < MaxFaults
  /\ \E c \in Clients : pc[c] # "idle"
  /\ faults' = faults + 1
  /\ missed' = missed \cup UNION {todo[c] \cup ({dev[c]} \ {None}) : c \in Clients}
  /\ lock' = [d \in Devices |-> None]
  /\ pc' = [c \in Clients |-> "idle"]
  /\ gid' = [c \in Clients |-> None]
  /\ todo' = [c \in Clients |-> {}]
  /\ dev' = [c \in Clients |-> None]
  /\ gathered' = [c \in Clients |-> None]
  /\ kind' = [c \in Clients |-> None]
  /\ UNCHANGED <<rules, grants, versions, applied, awaited, mac, requests>>

-----------------------------------------------------------------------------
(* /sync, and the Mac *)

Good(v) == v \notin {None, Bad}

\* The version the enforcer loads: the current file, else the last known good.
Enforced(d) ==
  CASE Good(files[d].cur) -> files[d].cur
    [] ~Good(files[d].cur) /\ Good(files[d].lkg) -> files[d].lkg
    [] OTHER -> None

\* Mutant: whatever the etag file says.
MutRecall(d) == IF mem[d] # None THEN mem[d] ELSE files[d].etag

\* The etag the daemon reports: the one it remembers or, in a new process, the
\* saved one if it names the current file's version (recallPolicyEtag).
Recall(d) ==
  CASE mem[d] # None -> mem[d]
    [] mem[d] = None /\ Good(files[d].cur) /\ files[d].etag = files[d].cur -> files[d].etag
    [] OTHER -> None

SyncAsk(d) ==
  /\ sync[d].stage = "none"
  /\ mem' = [mem EXCEPT ![d] = Recall(d)]
  /\ sync' = [sync EXCEPT ![d] = [stage |-> "asked", version |-> Recall(d)]]
  /\ UNCHANGED <<database, applied, request, files, requests, faults, missed>>

\* Mutant: any etag will do.
MutIsUnchanged(d) == sync[d].version # None

\* policyEnvelope: is the reported etag the highest version's?
IsUnchanged(d) == sync[d].version = Len(versions[d])

\* handleSync: note what the Mac reports, answer with the highest version.
SyncAnswer(d) ==
  /\ sync[d].stage = "asked" /\ Free > 0
  /\ applied' = [applied EXCEPT ![d] = sync[d].version]
  /\ sync' = [sync EXCEPT ![d] = [stage   |-> IF IsUnchanged(d) THEN "unchanged" ELSE "changed",
                                  version |-> Len(versions[d])]]
  /\ UNCHANGED <<database, request, files, mem, requests, faults, missed>>

\* apply(response:) on {unchanged: true, etag}
Unchanged(d) ==
  /\ sync[d].stage = "unchanged"
  /\ mem' = [mem EXCEPT ![d] = sync[d].version]
  /\ sync' = [sync EXCEPT ![d] = [stage |-> "none", version |-> None]]
  /\ UNCHANGED <<database, applied, request, files, requests, faults, missed>>

\* applyPolicy, one file at a time.  First the current file becomes the last
\* known good, whatever is in it.
PromoteToLkg(d) ==
  /\ sync[d].stage = "changed"
  /\ files' = [files EXCEPT ![d].lkg = IF files[d].cur = None THEN @ ELSE files[d].cur]
  /\ sync' = [sync EXCEPT ![d].stage = "current"]
  /\ UNCHANGED <<database, applied, request, mem, requests, faults, missed>>

WriteCurrent(d) ==
  /\ sync[d].stage = "current"
  /\ files' = [files EXCEPT ![d].cur = sync[d].version]
  /\ sync' = [sync EXCEPT ![d].stage = "etag"]
  /\ UNCHANGED <<database, applied, request, mem, requests, faults, missed>>

WriteEtag(d) ==
  /\ sync[d].stage = "etag"
  /\ mem' = [mem EXCEPT ![d] = sync[d].version]
  /\ files' = [files EXCEPT ![d].etag = sync[d].version]
  /\ sync' = [sync EXCEPT ![d] = [stage |-> "none", version |-> None]]
  /\ UNCHANGED <<database, applied, request, requests, faults, missed>>

\* The request or the answer is lost; the next tick asks again.
Lose(d) ==
  /\ faults < MaxFaults
  /\ sync[d].stage \in {"asked", "unchanged", "changed"}
  /\ faults' = faults + 1
  /\ sync' = [sync EXCEPT ![d] = [stage |-> "none", version |-> None]]
  /\ UNCHANGED <<database, applied, request, files, mem, requests, missed>>

\* The Mac goes down at any point and comes up with a new daemon; its current
\* file may have suffered.
PowerLoss(d) ==
  /\ faults < MaxFaults
  /\ faults' = faults + 1
  /\ mem' = [mem EXCEPT ![d] = None]
  /\ sync' = [sync EXCEPT ![d] = [stage |-> "none", version |-> None]]
  /\ \/ UNCHANGED files
     \/ /\ files[d].cur # None
        /\ files' = [files EXCEPT ![d].cur = Bad]
  /\ UNCHANGED <<database, applied, request, requests, missed>>

-----------------------------------------------------------------------------
PublishStep(c) ==
  \/ InsertOverride(c) \/ Begin(c) \/ Lock(c)
  \/ GatherRules(c) \/ GatherGrants(c) \/ Write(c)

SyncStep(d) ==
  \/ SyncAsk(d) \/ SyncAnswer(d) \/ Unchanged(d)
  \/ PromoteToLkg(d) \/ WriteCurrent(d) \/ WriteEtag(d)

Next ==
  \/ \E c \in Clients :
       \/ \E d \in Devices : GrantOverride(c, d)
       \/ \E g \in Grants : RevokeOverride(c, g)
       \/ \E r \in Rules : SaveRules(c, r)
       \/ \E d \in Devices : PublishRules(c, d)
       \/ \E d \in Devices : \E v \in DOMAIN versions[d] : RestoreVersion(c, d, v)
       \/ RecompileHorizons(c)
       \/ PublishStep(c)
  \/ ApiCrash
  \/ \E d \in Devices : SyncStep(d) \/ Lose(d) \/ PowerLoss(d)

Spec == Init /\ [][Next]_vars

\* The database serves those who wait for a row in turn; the scheduler runs the
\* job every 24 hours; the Mac asks again at least every 300 s.
Fairness ==
  /\ \A c \in Clients : WF_vars(PublishStep(c)) /\ SF_vars(Lock(c))
  /\ WF_vars(\E c \in Clients : RecompileHorizons(c))
  /\ \A d \in Devices : WF_vars(SyncStep(d))

FairSpec == Spec /\ Fairness

\* The current file goes bad and the daemon runs on.
Damage(d) ==
  /\ faults < MaxFaults
  /\ faults' = faults + 1
  /\ files[d].cur # None
  /\ files' = [files EXCEPT ![d].cur = Bad]
  /\ UNCHANGED <<database, applied, request, mem, sync, requests, missed>>

\* The system with that fault as well, which the daemon does not get over.
DamagedSpec ==
  Init /\ [][Next \/ \E d \in Devices : Damage(d)]_vars /\ Fairness

-----------------------------------------------------------------------------
\* The versions a device has, or none.
Known(d) == 1..Len(versions[d]) \cup {None}

Stages == {"none", "asked", "unchanged", "changed", "current", "etag"}

Files == [cur : Nat \cup {None, Bad}, lkg : Nat \cup {None, Bad}, etag : Nat \cup {None}]

Types ==
  /\ rules \in Rules
  /\ grants \in [Grants -> [state : {"none", "live", "revoked"}, device : Devices \cup {None}]]
  /\ versions \in [Devices -> Seq([rules : Rules, grants : SUBSET Grants])]
  /\ lock \in [Devices -> Clients \cup {None}]
  /\ pc \in [Clients -> {"idle", "insert", "begin", "lock", "rules", "grants", "write"}]
  /\ kind \in [Clients -> {"grant", "revoke", "publish", "restore", "calendar", None}]
  /\ gid \in [Clients -> Grants \cup {None}]
  /\ todo \in [Clients -> SUBSET Devices]
  /\ dev \in [Clients -> Devices \cup {None}]
  /\ gathered \in [Clients -> [rules : Rules, grants : SUBSET Grants] \cup {None}]
  /\ awaited \in [Grants -> Nat \cup {None}]
  /\ applied \in [Devices -> Nat \cup {None}]
  /\ mem \in [Devices -> Nat \cup {None}]
  /\ files \in [Devices -> Files]
  /\ sync \in [Devices -> [stage : Stages, version : Nat \cup {None}]]
  /\ missed \subseteq Devices

\* A version number that anybody holds is one the device has.
NamesAVersion ==
  /\ \A d \in Devices :
       /\ Len(versions[d]) > 0
       /\ applied[d] \in Known(d) /\ mem[d] \in Known(d) /\ sync[d].version \in Known(d)
       /\ files[d].cur \in Known(d) \cup {Bad} /\ files[d].lkg \in Known(d) \cup {Bad}
       /\ files[d].etag \in Known(d)
  /\ \A g \in Grants : awaited[g] # None => awaited[g] \in Known(grants[g].device)

(* Every variable has its type, and every version number that a file, the   *)
(* daemon, the server or a parent's browser holds is one the device has.    *)
TypeOK == Types /\ NamesAVersion

(* Nothing is forgotten between two publications that overlap: when no      *)
(* request owes a device a publication any more, and none was cut short by  *)
(* a crash, the newest version holds exactly the live grants of the tables  *)
(* (publish.ts: the lock makes gather-compare-insert atomic, and every      *)
(* handler publishes after it has written).                                 *)
NewestIsCurrent ==
  \A d \in Devices :
    (d \notin missed /\ \A c \in Clients : d \notin todo[c] /\ dev[c] # d)
      => Newest(d).grants = Live(d)

(* "Applied" is true when the parent reads it: a Mac that reports the       *)
(* version a grant's answer named, or a later one, is enforcing a version   *)
(* with that grant in it, unless it was revoked since (grant-progress.ts:   *)
(* applied_policy_version >= awaiting_policy_version).                      *)
AppliedMeansApplied ==
  \A d \in Devices : \A g \in Live(d) :
    (/\ sync[d].stage = "asked" /\ sync[d].version # None
     /\ awaited[g] # None /\ sync[d].version >= awaited[g])
      => Enforced(d) # None /\ g \in versions[d][Enforced(d)].grants

(* Every request is answered: publications do not wait on each other for    *)
(* ever.                                                                    *)
Answered == \A c \in Clients : (pc[c] # "idle") ~> (pc[c] = "idle")

(* A grant reaches the Mac, whatever single crash, power loss or lost       *)
(* message comes in between, unless it is taken back.                       *)
GrantReaches ==
  \A g \in Grants : \A d \in Devices :
    (g \in Live(d)) ~>
       \/ g \notin Live(d)
       \/ Enforced(d) # None /\ g \in versions[d][Enforced(d)].grants

-----------------------------------------------------------------------------
(* parent-rules.ts:154-158, of saving the draft: "Does not publish", it     *)
(* lands somewhere "the compiler can read without the agent seeing it yet". *)
(* So only a request to publish or to restore changes a device's rules.     *)
DraftNeedsPublish ==
  [][\A c \in Clients :
       (pc[c] = "write" /\ pc'[c] # "write" /\ versions' # versions
          /\ gathered[c].rules # Newest(dev[c]).rules)
         => kind[c] \in {"publish", "restore"}]_vars

(* parent-overrides.ts:72-74: caps are enforced "at write time".            *)
CapHolds == Cardinality({g \in Grants : grants[g].state = "live"}) <= GrantCap

(* SyncDaemon.swift:422-424: "a corrupt write leaves a known-good file      *)
(* behind it".  So while a new policy is put in place, which no fault       *)
(* disturbs, there is always one to enforce.                                *)
AlwaysAPolicy ==
  [][\A d \in Devices :
       (Enforced(d) # None /\ faults' = faults) => Enforced(d)' # None]_vars
=============================================================================
