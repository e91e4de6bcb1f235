---------------------------- MODULE PolicyProofs ----------------------------
(***************************************************************************)
(* Publication forgets nothing and "Applied" is true, for any number of    *)
(* Macs, concurrent requests, connections, grants, crashes and power       *)
(* losses.                                                                 *)
(*                                                                         *)
(* The argument.  A device is owed a publication while it is in some       *)
(* request's todo, which it leaves when the grants are gathered, under the *)
(* row lock.  So of two requests that changed a device's grants, the one   *)
(* that gathers last sees both changes, and writes last (Held).  Hence a   *)
(* request about to write holds the live grants of the tables unless       *)
(* somebody is still owed (Accurate), and so does the newest version       *)
(* unless somebody is still owed or about to write (CaughtUp).             *)
(*                                                                         *)
(* From the version a grant's answer named on, every version has the grant *)
(* (Since, OwnGathered); and a daemon that remembers a version has it in   *)
(* its current file (MacInSync).                                           *)
(***************************************************************************)
EXTENDS Policy, SequenceTheorems, TLAPS

Contents == [rules : Rules, grants : SUBSET Grants]

\* Past the insertion, a grant's request still knows its row.
OwnRow(c) == gid[c] \in Grants /\ grants[gid[c]].state # "none"

\* What a request holds at each of its stages.
Stage(c) ==
  /\ pc[c] = "idle" => todo[c] = {} /\ dev[c] = None /\ gid[c] = None
  /\ pc[c] = "insert" =>
       /\ gid[c] \in Grants /\ grants[gid[c]].state = "none"
       /\ kind[c] = "grant" /\ dev[c] \in Devices /\ todo[c] = {}
  /\ pc[c] \in {"lock", "rules", "grants"} => dev[c] \in todo[c]
  /\ pc[c] \in {"grants", "write"} => gathered[c] \in Contents
  /\ pc[c] = "write" => dev[c] \in Devices
  /\ (kind[c] = "grant" /\ pc[c] \in {"begin", "lock", "rules", "grants"}) =>
       OwnRow(c) /\ todo[c] = {grants[gid[c]].device}
  /\ (kind[c] = "grant" /\ pc[c] = "write") =>
       OwnRow(c) /\ todo[c] = {} /\ dev[c] = grants[gid[c]].device

\* A row once written has a device, and only then an answer.
Rows ==
  \A g \in Grants : IF grants[g].state = "none" THEN awaited[g] = None
                    ELSE grants[g].device \in Devices

Requests ==
  /\ \A c \in Clients : Stage(c)
  /\ \A c, o \in Clients : (gid[c] # None /\ gid[c] = gid[o]) => c = o
  /\ Rows

\* From the lock to the commit, the row is held.
Held == \A c \in Clients : pc[c] \in {"rules", "grants", "write"} => lock[dev[c]] = c

Owed(d) == \E c \in Clients : d \in todo[c]

Writing(c, d) == pc[c] = "write" /\ dev[c] = d

Accurate ==
  \A d \in Devices : \A c \in Clients :
    Writing(c, d) => Owed(d) \/ gathered[c].grants = Live(d)

CaughtUp ==
  \A d \in Devices :
    \/ d \in missed \/ Owed(d)
    \/ \E c \in Clients : Writing(c, d)
    \/ Newest(d).grants = Live(d)

\* A grant's own request gathers it.
OwnGathered ==
  \A c \in Clients : \A d \in Devices :
    (Writing(c, d) /\ kind[c] = "grant" /\ gid[c] \in Live(d)) => gid[c] \in gathered[c].grants

Since ==
  \A d \in Devices : \A g \in Live(d) :
    awaited[g] # None =>
      /\ \A u \in 1..Len(versions[d]) : u >= awaited[g] => g \in versions[d][u].grants
      /\ \A c \in Clients : Writing(c, d) => g \in gathered[c].grants

MacInSync ==
  \A d \in Devices :
    /\ (mem[d] # None /\ sync[d].stage # "etag") => files[d].cur = mem[d]
    /\ sync[d].stage \in {"asked", "unchanged"} => sync[d].version = mem[d]
    /\ sync[d].stage \notin {"none", "asked"} => sync[d].version # None
    /\ sync[d].stage = "etag" => files[d].cur = sync[d].version

Core == TypeOK /\ Requests /\ Held

IInv == Core /\ Accurate /\ CaughtUp /\ OwnGathered /\ Since /\ MacInSync

-----------------------------------------------------------------------------
(* The initial states.                                                      *)
LEMMA InitIInv == ASSUME PolicyAssumption, Init PROVE IInv
<1>1. TypeOK
  BY DEF PolicyAssumption, Init, TypeOK, Types, NamesAVersion, Stages, Files, Known
<1>2. Requests /\ Held
  BY DEF PolicyAssumption, Init, Requests, Stage, Rows, Held
<1>3. \A d \in Devices : Live(d) = {} /\ Newest(d).grants = {}
  BY DEF Init, Live, Newest
<1>4. Accurate /\ CaughtUp /\ OwnGathered /\ Since
  BY <1>3 DEF Init, Accurate, CaughtUp, OwnGathered, Since, Writing
<1>5. MacInSync
  BY DEF Init, MacInSync
<1> QED BY <1>1, <1>2, <1>4, <1>5 DEF Core, IInv

-----------------------------------------------------------------------------
(* The steps.                                                               *)
MacStep(d) == SyncStep(d) \/ Lose(d) \/ PowerLoss(d)

LEMMA MacSteps ==
  ASSUME NEW d \in Devices, MacStep(d)
  PROVE  UNCHANGED <<database, request, missed>>
BY DEF MacStep, SyncStep, Lose, PowerLoss, SyncAsk, SyncAnswer, Unchanged, PromoteToLkg,
       WriteCurrent, WriteEtag, database, request

\* One request's step.
ClientStep(c) ==
  \/ \E d \in Devices : GrantOverride(c, d) \/ PublishRules(c, d)
  \/ \E g \in Grants : RevokeOverride(c, g)
  \/ \E r \in Rules : SaveRules(c, r)
  \/ \E d \in Devices : \E v \in DOMAIN versions[d] : RestoreVersion(c, d, v)
  \/ RecompileHorizons(c)
  \/ PublishStep(c)

LEMMA ClientSteps ==
  ASSUME NEW c \in Clients, ClientStep(c)
  PROVE  UNCHANGED <<mac, applied>>
BY DEF ClientStep, GrantOverride, PublishRules, RevokeOverride, SaveRules, RestoreVersion,
       RecompileHorizons, PublishStep, InsertOverride, Begin, Lock, GatherRules, GatherGrants,
       Write

LEMMA Steps ==
  ASSUME [Next]_vars
  PROVE  \/ \E c \in Clients : ClientStep(c)
         \/ ApiCrash
         \/ \E d \in Devices : MacStep(d)
         \/ UNCHANGED vars
BY DEF Next, ClientStep, MacStep

-----------------------------------------------------------------------------
(* Types.                                                                   *)
LEMMA GatheredIsContents ==
  ASSUME TypeOK, Requests, NEW c \in Clients, Write(c)
  PROVE  /\ dev[c] \in Devices /\ gathered[c] \in Contents
         /\ versions[dev[c]] \in Seq(Contents) /\ Len(versions[dev[c]]) > 0
         /\ Version(c) \in Nat
<1>1. /\ dev[c] \in Devices /\ gathered[c] \in Contents
      /\ versions[dev[c]] \in Seq(Contents) /\ Len(versions[dev[c]]) > 0
  BY DEF TypeOK, Types, NamesAVersion, Requests, Stage, Write, Contents
<1>2. Len(versions[dev[c]]) \in Nat
  BY <1>1
<1>3. Version(c) = Len(versions[dev[c]]) \/ Version(c) = Len(versions[dev[c]]) + 1
  BY DEF Version
<1>4. Version(c) \in Nat
  BY <1>2, <1>3
<1> QED BY <1>1, <1>4

\* What a publication does to the versions of a device.
LEMMA Appended ==
  ASSUME TypeOK, Requests, NEW c \in Clients, Write(c), NEW d \in Devices
  PROVE  /\ versions'[d] \in Seq(Contents)
         /\ Len(versions[d]) <= Len(versions'[d])
         /\ \A u \in 1..Len(versions[d]) : versions'[d][u] = versions[d][u]
         /\ d # dev[c] => versions'[d] = versions[d]
         /\ d = dev[c] => Len(versions'[d]) = Version(c)
         /\ d = dev[c] => versions'[d][Len(versions'[d])] = gathered[c]
         /\ \A u \in 1..Len(versions'[d]) :
              u \in 1..Len(versions[d]) \/ (d = dev[c] /\ versions'[d][u] = gathered[c])
<1> versions[d] \in Seq(Contents) /\ gathered[c] \in Contents /\ dev[c] \in Devices
  BY GatheredIsContents DEF TypeOK, Types, Contents
<1>1. CASE d = dev[c] /\ Changed(c)
  <2>1. versions'[d] = Append(versions[d], gathered[c])
    BY <1>1 DEF Write, TypeOK, Types
  <2> QED BY <1>1, <2>1, AppendProperties DEF Version
<1>2. CASE ~(d = dev[c] /\ Changed(c))
  <2>1. versions'[d] = versions[d]
    BY <1>2 DEF Write, TypeOK, Types
  <2>2. d = dev[c] => Len(versions[d]) = Version(c) /\ Newest(d) = gathered[c]
    BY <1>2 DEF Version, Changed, TypeOK, NamesAVersion
  <2> QED BY <2>1, <2>2 DEF Newest
<1> QED BY <1>1, <1>2

LEMMA TypesNext ==
  ASSUME PolicyAssumption, TypeOK, Requests, [Next]_vars PROVE Types'
<1> USE DEF Types, Stages
<1> TypeOK /\ Types BY DEF TypeOK
<1>1. ASSUME NEW c \in Clients, NEW d \in Devices, GrantOverride(c, d) PROVE Types'
  <2>1. gid' \in [Clients -> Grants \cup {None}] /\ dev' \in [Clients -> Devices \cup {None}]
    BY <1>1 DEF GrantOverride
  <2>2. /\ pc' \in [Clients -> {"idle", "insert", "begin", "lock", "rules", "grants", "write"}]
        /\ kind' \in [Clients -> {"grant", "revoke", "publish", "restore", "calendar", None}]
    BY <1>1 DEF GrantOverride, Arrives
  <2> QED BY <1>1, <2>1, <2>2 DEF GrantOverride, database, mac
<1>2. ASSUME NEW c \in Clients, NEW d \in Devices, PublishRules(c, d) PROVE Types'
  BY <1>2 DEF PublishRules, Arrives, ThenPublish, database, mac
<1>3. ASSUME NEW c \in Clients, NEW g \in Grants, RevokeOverride(c, g) PROVE Types'
  <2> grants[g].device \in Devices
    BY <1>3 DEF RevokeOverride, Requests, Rows
  <2>1. grants' \in [Grants -> [state : {"none", "live", "revoked"}, device : Devices \cup {None}]]
    <3>1. grants[g] \in [state : {"none", "live", "revoked"}, device : Devices \cup {None}]
      OBVIOUS
    <3> DEFINE row == [grants[g] EXCEPT !.state = "revoked"]
    <3>2. row \in [state : {"none", "live", "revoked"}, device : Devices \cup {None}]
      BY <3>1
    <3>3. grants' = [grants EXCEPT ![g] = row]
      BY <1>3 DEF RevokeOverride
    <3> HIDE DEF row
    <3> QED BY <3>2, <3>3
  <2>2. /\ pc' \in [Clients -> {"idle", "insert", "begin", "lock", "rules", "grants", "write"}]
        /\ kind' \in [Clients -> {"grant", "revoke", "publish", "restore", "calendar", None}]
        /\ todo' \in [Clients -> SUBSET Devices]
    BY <1>3 DEF RevokeOverride, Arrives, ThenPublish
  <2> QED BY <1>3, <2>1, <2>2 DEF RevokeOverride, mac
<1>4. ASSUME NEW c \in Clients, NEW r \in Rules, SaveRules(c, r) PROVE Types'
  BY <1>4 DEF SaveRules, request, mac
<1>5. ASSUME NEW c \in Clients, NEW d \in Devices, NEW v \in DOMAIN versions[d],
             RestoreVersion(c, d, v)
      PROVE  Types'
  <2>1. versions[d][v] \in [rules : Rules, grants : SUBSET Grants]
    <3> versions[d] \in Seq([rules : Rules, grants : SUBSET Grants]) OBVIOUS
    <3> v \in 1..Len(versions[d]) BY <1>5 DEF RestoreVersion
    <3> QED BY ElementOfSeq
  <2> QED BY <1>5, <2>1 DEF RestoreVersion, Arrives, ThenPublish, mac
<1>6. ASSUME NEW c \in Clients, RecompileHorizons(c) PROVE Types'
  BY <1>6 DEF RecompileHorizons, ThenPublish, database, mac
<1>7. ASSUME NEW c \in Clients, InsertOverride(c) PROVE Types'
  <2> gid[c] \in Grants /\ dev[c] \in Devices
    BY <1>7 DEF InsertOverride, Requests, Stage
  <2> QED BY <1>7 DEF InsertOverride, ThenPublish, mac
<1>8. ASSUME NEW c \in Clients, Begin(c) PROVE Types'
  <2>1. PICK d \in todo[c] : dev' = [dev EXCEPT ![c] = d]
    BY <1>8 DEF Begin
  <2>2. d \in Devices
    BY <2>1
  <2> QED BY <1>8, <2>1, <2>2 DEF Begin, database, mac
<1>9. ASSUME NEW c \in Clients, Lock(c) PROVE Types'
  BY <1>9 DEF Lock, mac
<1>10. ASSUME NEW c \in Clients, GatherRules(c) PROVE Types'
  BY <1>10 DEF GatherRules, database, mac
<1>11. ASSUME NEW c \in Clients, GatherGrants(c) PROVE Types'
  <2>1. gathered[c] \in [rules : Rules, grants : SUBSET Grants]
    BY <1>11 DEF GatherGrants, Requests, Stage, Contents
  <2>2. gathered' \in [Clients -> [rules : Rules, grants : SUBSET Grants] \cup {None}]
    BY <1>11, <2>1 DEF GatherGrants, Live
  <2> QED BY <1>11, <2>2 DEF GatherGrants, database, mac
<1>12. ASSUME NEW c \in Clients, Write(c) PROVE Types'
  <2>1. versions' \in [Devices -> Seq([rules : Rules, grants : SUBSET Grants])]
    BY <1>12, Appended DEF Write, Contents
  <2>2. awaited' \in [Grants -> Nat \cup {None}]
    <3> Version(c) \in Nat
      BY <1>12, GatheredIsContents
    <3> QED BY <1>12 DEF Write
  <2> QED BY <1>12, <2>1, <2>2 DEF Write, mac
<1>13. CASE ApiCrash
  <2>1. missed' \subseteq Devices
    BY <1>13 DEF ApiCrash
  <2> QED BY <1>13, <2>1 DEF ApiCrash, mac
<1>14. ASSUME NEW d \in Devices, MacStep(d) PROVE Types'
  <2>1. UNCHANGED <<database, request, missed>>
    BY <1>14, MacSteps
  <2> DEFINE Exchange == [stage : Stages, version : Nat \cup {None}]
  <2>f. /\ files[d] \in Files /\ sync[d] \in [stage : Stages, version : Nat \cup {None}]
        /\ \A f \in Files : [files EXCEPT ![d] = f] \in [Devices -> Files]
    OBVIOUS
  <2>2. CASE SyncAsk(d)
    <3>1. Recall(d) \in Nat \cup {None}
      BY <2>f DEF Recall, Files
    <3>2. /\ mem' \in [Devices -> Nat \cup {None}]
          /\ sync' \in [Devices -> [stage : Stages, version : Nat \cup {None}]]
      BY <2>2, <3>1 DEF SyncAsk
    <3>3. UNCHANGED <<applied, files>>
      BY <2>2 DEF SyncAsk
    <3> QED BY <2>1, <3>2, <3>3 DEF database, request
  <2>3. CASE SyncAnswer(d)
    <3> Len(versions[d]) \in Nat OBVIOUS
    <3> QED BY <2>1, <2>3 DEF SyncAnswer, database, request
  <2>4. CASE Unchanged(d)
    BY <2>1, <2>4 DEF Unchanged, database, request
  <2>5. CASE PromoteToLkg(d)
    <3> DEFINE f == [files[d] EXCEPT !.lkg = IF files[d].cur = None THEN @ ELSE files[d].cur]
    <3>1. f \in Files
      BY <2>f DEF Files
    <3>2. files' = [files EXCEPT ![d] = f]
      BY <2>5 DEF PromoteToLkg
    <3>3. files' \in [Devices -> Files]
      BY <3>1, <3>2, <2>f
    <3> DEFINE x == [sync[d] EXCEPT !.stage = "current"]
    <3>4. x \in Exchange
      BY <2>f
    <3>5. sync' = [sync EXCEPT ![d] = x]
      BY <2>5 DEF PromoteToLkg
    <3>6. sync' \in [Devices -> Exchange]
      BY <3>4, <3>5
    <3>7. UNCHANGED <<applied, mem>>
      BY <2>5 DEF PromoteToLkg
    <3> QED BY <2>1, <3>3, <3>6, <3>7 DEF database, request
  <2>6. CASE WriteCurrent(d)
    <3> DEFINE f == [files[d] EXCEPT !.cur = sync[d].version]
    <3>1. f \in Files
      BY <2>f DEF Files
    <3>2. files' = [files EXCEPT ![d] = f]
      BY <2>6 DEF WriteCurrent
    <3>3. files' \in [Devices -> Files]
      BY <3>1, <3>2, <2>f
    <3> DEFINE x == [sync[d] EXCEPT !.stage = "etag"]
    <3>4. x \in Exchange
      BY <2>f
    <3>5. sync' = [sync EXCEPT ![d] = x]
      BY <2>6 DEF WriteCurrent
    <3>6. sync' \in [Devices -> Exchange]
      BY <3>4, <3>5
    <3>7. UNCHANGED <<applied, mem>>
      BY <2>6 DEF WriteCurrent
    <3> QED BY <2>1, <3>3, <3>6, <3>7 DEF database, request
  <2>7. CASE WriteEtag(d)
    <3> DEFINE f == [files[d] EXCEPT !.etag = sync[d].version]
    <3>1. f \in Files
      BY <2>f DEF Files
    <3>2. files' = [files EXCEPT ![d] = f]
      BY <2>7 DEF WriteEtag
    <3>3. files' \in [Devices -> Files]
      BY <3>1, <3>2, <2>f
    <3> QED BY <2>1, <2>7, <3>3 DEF WriteEtag, database, request
  <2>8. CASE Lose(d)
    BY <2>1, <2>8 DEF Lose, database, request
  <2>9. CASE PowerLoss(d)
    <3> DEFINE f == [files[d] EXCEPT !.cur = Bad]
    <3>1. f \in Files
      BY <2>f DEF Files
    <3>2. files' = files \/ files' = [files EXCEPT ![d] = f]
      BY <2>9 DEF PowerLoss
    <3>3. files' \in [Devices -> Files]
      BY <3>1, <3>2, <2>f
    <3> QED BY <2>1, <2>9, <3>3 DEF PowerLoss, database, request
  <2> QED BY <1>14, <2>2, <2>3, <2>4, <2>5, <2>6, <2>7, <2>8, <2>9 DEF MacStep, SyncStep
<1>15. CASE UNCHANGED vars
  BY <1>15 DEF vars, database, request, mac
<1> QED
  BY <1>1, <1>2, <1>3, <1>4, <1>5, <1>6, <1>7, <1>8, <1>9, <1>10, <1>11, <1>12, <1>13, <1>14,
     <1>15, Steps DEF ClientStep, PublishStep

\* What a step leaves alone it leaves well.
LEMMA StillKnown ==
  ASSUME NamesAVersion, Requests, UNCHANGED <<versions, mac, applied, awaited>>,
         \A g \in Grants : grants'[g].device # grants[g].device => grants[g].state = "none"
  PROVE  NamesAVersion'
<1>1. \A g \in Grants : awaited[g] # None => grants'[g].device = grants[g].device
  BY DEF Requests, Rows
<1> QED BY <1>1 DEF NamesAVersion, Known, mac

LEMMA NamesNext ==
  ASSUME PolicyAssumption, TypeOK, Requests, [Next]_vars PROVE NamesAVersion'
<1> USE DEF Known
<1> NamesAVersion BY DEF TypeOK
<1>1. ASSUME NEW c \in Clients, ClientStep(c), ~InsertOverride(c), ~Write(c),
             \A g \in Grants : ~RevokeOverride(c, g)
      PROVE  NamesAVersion'
  <2>1. UNCHANGED <<versions, grants, awaited>>
    BY <1>1 DEF ClientStep, GrantOverride, PublishRules, SaveRules, RestoreVersion,
                RecompileHorizons, PublishStep, Begin, Lock, GatherRules, GatherGrants,
                database, request
  <2> QED BY <1>1, <2>1, ClientSteps, StillKnown
<1>2. ASSUME NEW c \in Clients, InsertOverride(c) PROVE NamesAVersion'
  <2>1. gid[c] \in Grants /\ grants[gid[c]].state = "none"
    BY <1>2 DEF InsertOverride, Requests, Stage
  <2>2. \A g \in Grants : g # gid[c] => grants'[g] = grants[g]
    BY <1>2 DEF InsertOverride, TypeOK, Types
  <2>3. UNCHANGED <<versions, mac, applied, awaited>>
    BY <1>2 DEF InsertOverride
  <2> QED BY <2>1, <2>2, <2>3, StillKnown
<1>3. ASSUME NEW c \in Clients, NEW h \in Grants, RevokeOverride(c, h) PROVE NamesAVersion'
  <2>1. \A g \in Grants : grants'[g].device = grants[g].device
    BY <1>3 DEF RevokeOverride, TypeOK, Types
  <2>2. UNCHANGED <<versions, mac, applied, awaited>>
    BY <1>3 DEF RevokeOverride
  <2> QED BY <2>1, <2>2, StillKnown
<1>4. ASSUME NEW c \in Clients, Write(c) PROVE NamesAVersion'
  <2>1. UNCHANGED <<grants, applied, mac>>
    BY <1>4 DEF Write
  <2>2. \A d \in Devices : Len(versions'[d]) \in Nat /\ Len(versions[d]) <= Len(versions'[d])
    BY <1>4, Appended
  <2>3. \A d \in Devices : Len(versions[d]) \in Nat
    BY DEF TypeOK, Types
  <2>4. ASSUME NEW g \in Grants, awaited'[g] # None PROVE awaited'[g] \in Known(grants[g].device)'
    <3>1. CASE kind[c] = "grant" /\ g = gid[c]
      <4>1. grants[g].device = dev[c] /\ dev[c] \in Devices
        BY <1>4, <3>1 DEF Write, Requests, Stage
      <4>2. awaited'[g] = Version(c)
        BY <1>4, <3>1 DEF Write, TypeOK, Types
      <4>3. Version(c) = Len(versions'[dev[c]]) /\ Len(versions'[dev[c]]) \in Nat
        BY <1>4, <4>1, Appended
      <4>4. Len(versions'[dev[c]]) > 0
        BY <4>1, <2>2, <2>3 DEF NamesAVersion
      <4> QED BY <2>1, <4>1, <4>2, <4>3, <4>4
    <3>2. CASE ~(kind[c] = "grant" /\ g = gid[c])
      <4>1. awaited'[g] = awaited[g]
        BY <1>4, <3>2 DEF Write, TypeOK, Types
      <4>2. grants[g].device \in Devices
        BY <2>4, <4>1 DEF Requests, Rows
      <4> QED BY <2>1, <2>2, <2>3, <2>4, <4>1, <4>2 DEF NamesAVersion
    <3> QED BY <3>1, <3>2
  <2> QED BY <2>1, <2>2, <2>3, <2>4 DEF NamesAVersion, mac
<1>5. CASE ApiCrash
  <2>1. UNCHANGED <<versions, mac, applied, awaited, grants>>
    BY <1>5 DEF ApiCrash
  <2> QED BY <2>1, StillKnown
<1>6. ASSUME NEW d \in Devices, MacStep(d) PROVE NamesAVersion'
  <2>1. UNCHANGED <<database, request, missed>>
    BY <1>6, MacSteps
  <2> USE DEF TypeOK, Types, NamesAVersion, database, request
  <2>2. CASE SyncAsk(d)
    BY <2>1, <2>2 DEF SyncAsk, Recall
  <2>3. CASE SyncAnswer(d)
    BY <2>1, <2>3 DEF SyncAnswer
  <2>4. CASE Unchanged(d)
    BY <2>1, <2>4 DEF Unchanged
  <2>5. CASE PromoteToLkg(d)
    BY <2>1, <2>5 DEF PromoteToLkg, Files
  <2>6. CASE WriteCurrent(d)
    BY <2>1, <2>6 DEF WriteCurrent, Files
  <2>7. CASE WriteEtag(d)
    BY <2>1, <2>7 DEF WriteEtag, Files
  <2>8. CASE Lose(d)
    BY <2>1, <2>8 DEF Lose
  <2>9. CASE PowerLoss(d)
    <3>1. ASSUME NEW e \in Devices
          PROVE  /\ files'[e].cur \in {files[e].cur, Bad}
                 /\ files'[e].lkg = files[e].lkg /\ files'[e].etag = files[e].etag
      <4>1. files'[e] = files[e] \/ files'[e] = [files[e] EXCEPT !.cur = Bad]
        BY <2>9 DEF PowerLoss
      <4>2. files[e] \in Files
        OBVIOUS
      <4> QED BY <4>1, <4>2 DEF Files
    <3>2. \A e \in Devices : mem'[e] \in {mem[e], None} /\ sync'[e].version \in {sync[e].version, None}
      BY <2>9 DEF PowerLoss
    <3>3. UNCHANGED applied
      BY <2>9 DEF PowerLoss
    <3> QED BY <2>1, <3>1, <3>2, <3>3
  <2> QED BY <1>6, <2>2, <2>3, <2>4, <2>5, <2>6, <2>7, <2>8, <2>9 DEF MacStep, SyncStep
<1>7. CASE UNCHANGED vars
  <2>1. UNCHANGED <<versions, mac, applied, awaited, grants>>
    BY <1>7 DEF vars, database, request
  <2> QED BY <2>1, StillKnown
<1> QED BY <1>1, <1>2, <1>3, <1>4, <1>5, <1>6, <1>7, Steps

-----------------------------------------------------------------------------
(* What a request holds.                                                    *)
\* A request that a step leaves alone keeps its stage, if its row does.
LEMMA SameStage ==
  ASSUME NEW o \in Clients, Stage(o),
         pc'[o] = pc[o], kind'[o] = kind[o], gid'[o] = gid[o], todo'[o] = todo[o],
         dev'[o] = dev[o], gathered'[o] = gathered[o],
         gid[o] \in Grants => grants'[gid[o]].state = grants[gid[o]].state \/
                              (grants[gid[o]].state # "none" /\ grants'[gid[o]].state # "none"),
         gid[o] \in Grants => grants'[gid[o]].device = grants[gid[o]].device
  PROVE  Stage(o)'
BY DEF Stage, OwnRow

LEMMA RequestsNext ==
  ASSUME PolicyAssumption, TypeOK, Requests, [Next]_vars PROVE Requests'
<1> Types BY DEF TypeOK
<1> USE DEF Requests
<1>1. ASSUME NEW c \in Clients, NEW d \in Devices, GrantOverride(c, d) PROVE Requests'
  <2> USE <1>1 DEF GrantOverride, Arrives, database, Types
  <2>1. ASSUME NEW o \in Clients, o # c PROVE Stage(o)'
    BY <2>1, SameStage
  <2>2. PICK g \in Grants : /\ grants[g].state = "none" /\ \A o \in Clients : gid[o] # g
                            /\ gid' = [gid EXCEPT ![c] = g]
    OBVIOUS
  <2>3. Stage(c)'
    BY <2>2 DEF Stage
  <2>4. \A a, b \in Clients : (gid'[a] # None /\ gid'[a] = gid'[b]) => a = b
    BY <2>2
  <2>5. Rows'
    BY DEF Rows
  <2> QED BY <2>1, <2>3, <2>4, <2>5
<1>2. ASSUME NEW c \in Clients, NEW ds \in SUBSET Devices, pc[c] = "idle",
             \E k \in {"revoke", "publish", "restore", "calendar"} : kind' = [kind EXCEPT ![c] = k],
             ThenPublish(c, ds), UNCHANGED <<gid, dev, gathered, awaited>>,
             \A g \in Grants : /\ grants'[g].device = grants[g].device
                               /\ grants'[g].state = "none" <=> grants[g].state = "none"
      PROVE  Requests'
  <2> USE <1>2 DEF ThenPublish, Types
  <2>1. ASSUME NEW o \in Clients, o # c PROVE Stage(o)'
    BY <2>1, SameStage
  <2>2. Stage(c)'
    BY DEF Stage
  <2>3. Rows'
    BY DEF Rows
  <2> QED BY <2>1, <2>2, <2>3
<1>3. ASSUME NEW c \in Clients, NEW g \in Grants, RevokeOverride(c, g) PROVE Requests'
  <2>1. grants[g].device \in Devices
    BY <1>3 DEF RevokeOverride, Rows
  <2>2. \A h \in Grants : /\ grants'[h].device = grants[h].device
                          /\ grants'[h].state = "none" <=> grants[h].state = "none"
    BY <1>3 DEF RevokeOverride, Types
  <2>3. pc[c] = "idle" /\ kind' = [kind EXCEPT ![c] = "revoke"]
    BY <1>3 DEF RevokeOverride, Arrives
  <2>4. ThenPublish(c, {grants[g].device}) /\ UNCHANGED <<gid, dev, gathered, awaited>>
    BY <1>3 DEF RevokeOverride
  <2> QED BY <1>2, <2>1, <2>2, <2>3, <2>4
<1>4. ASSUME NEW c \in Clients, NEW r \in Rules, SaveRules(c, r) PROVE Requests'
  BY <1>4 DEF SaveRules, request, Stage, OwnRow, Rows
<1>5. ASSUME NEW c \in Clients, NEW d \in Devices,
             PublishRules(c, d) \/ \E v \in DOMAIN versions[d] : RestoreVersion(c, d, v)
      PROVE  Requests'
  <2>1. /\ pc[c] = "idle" /\ \E k \in {"publish", "restore"} : kind' = [kind EXCEPT ![c] = k]
        /\ ThenPublish(c, {d}) /\ UNCHANGED <<grants, gid, dev, gathered, awaited>>
    BY <1>5 DEF PublishRules, RestoreVersion, Arrives, database
  <2> QED BY <1>2, <2>1
<1>6. ASSUME NEW c \in Clients, RecompileHorizons(c) PROVE Requests'
  <2>1. /\ pc[c] = "idle" /\ kind' = [kind EXCEPT ![c] = "calendar"]
        /\ ThenPublish(c, Devices) /\ UNCHANGED <<grants, gid, dev, gathered, awaited>>
    BY <1>6 DEF RecompileHorizons, database
  <2> QED BY <1>2, <2>1
<1>7. ASSUME NEW c \in Clients, InsertOverride(c) PROVE Requests'
  <2> USE <1>7 DEF InsertOverride, ThenPublish, Types
  <2>1. /\ gid[c] \in Grants /\ grants[gid[c]].state = "none" /\ kind[c] = "grant"
        /\ dev[c] \in Devices
    BY DEF Stage
  <2>2. ASSUME NEW o \in Clients, o # c PROVE Stage(o)'
    <3>1. gid[o] \in Grants => gid[o] # gid[c]
      BY <2>1, <2>2 DEF PolicyAssumption
    <3> QED BY <2>2, <3>1, SameStage
  <2>3. Stage(c)'
    BY <2>1 DEF Stage, OwnRow
  <2>4. Rows'
    BY <2>1 DEF Rows
  <2> QED BY <2>2, <2>3, <2>4
<1>8. ASSUME NEW c \in Clients, Begin(c) \/ Lock(c) \/ GatherRules(c) \/ GatherGrants(c)
      PROVE  Requests'
  <2> USE DEF Types
  <2>1. /\ UNCHANGED <<grants, awaited, gid, kind>>
        /\ \A o \in Clients \ {c} :
             /\ pc'[o] = pc[o] /\ todo'[o] = todo[o] /\ dev'[o] = dev[o]
             /\ gathered'[o] = gathered[o]
    BY <1>8 DEF Begin, Lock, GatherRules, GatherGrants, database
  <2>2. ASSUME NEW o \in Clients, o # c PROVE Stage(o)'
    BY <2>1, <2>2, SameStage
  <2>3. ASSUME Begin(c) PROVE Stage(c)'
    BY <2>3 DEF Begin, Stage, OwnRow, database
  <2>4. ASSUME Lock(c) PROVE Stage(c)'
    BY <2>4 DEF Lock, Stage, OwnRow
  <2>5. ASSUME GatherRules(c) PROVE Stage(c)'
    BY <2>5 DEF GatherRules, Stage, OwnRow, database, Contents
  <2>6. ASSUME GatherGrants(c) PROVE Stage(c)'
    <3>1. Stage(c) /\ Live(dev[c]) \in SUBSET Grants /\ gathered[c] \in Contents
      BY <2>6 DEF GatherGrants, Live, Stage
    <3>2. gathered'[c] \in Contents
      BY <2>6, <3>1 DEF GatherGrants, Contents
    <3>3. pc'[c] = "write" /\ todo'[c] = todo[c] \ {dev[c]} /\ dev[c] \in todo[c]
      BY <2>6, <3>1 DEF GatherGrants, Stage
    <3>4. UNCHANGED <<grants, kind, gid, dev>>
      BY <2>6 DEF GatherGrants, database
    <3>5. kind[c] = "grant" => OwnRow(c) /\ todo[c] = {grants[gid[c]].device}
      BY <2>6, <3>1 DEF GatherGrants, Stage
    <3> QED BY <3>2, <3>3, <3>4, <3>5 DEF Stage, OwnRow
  <2>7. Rows'
    BY <2>1 DEF Rows
  <2>8. Stage(c)'
    BY <1>8, <2>3, <2>4, <2>5, <2>6
  <2> QED BY <2>1, <2>2, <2>7, <2>8
<1>9. ASSUME NEW c \in Clients, Write(c) PROVE Requests'
  <2> USE <1>9 DEF Write, Types
  <2>1. ASSUME NEW o \in Clients, o # c PROVE Stage(o)'
    BY <2>1, SameStage
  <2>2. Stage(c)'
    BY DEF Stage, OwnRow
  <2>3. Rows'
    BY DEF Stage, OwnRow, Rows
  <2> QED BY <2>1, <2>2, <2>3
<1>10. CASE ApiCrash
  BY <1>10 DEF ApiCrash, Stage, Rows, Types
<1>11. ASSUME UNCHANGED <<database, request>> PROVE Requests'
  BY <1>11 DEF database, request, Stage, OwnRow, Rows
<1>12. CASE UNCHANGED vars
  BY <1>11, <1>12 DEF vars
<1> QED
  BY <1>1, <1>3, <1>4, <1>5, <1>6, <1>7, <1>8, <1>9, <1>10, <1>11, <1>12, Steps, MacSteps
     DEF ClientStep, PublishStep

LEMMA HeldNext ==
  ASSUME PolicyAssumption, TypeOK, Requests, Held, [Next]_vars PROVE Held'
<1> Types BY DEF TypeOK
<1> USE DEF Held, Types
<1>1. ASSUME NEW c \in Clients, UNCHANGED lock, pc'[c] \in {"idle", "insert", "begin", "lock"},
             \A o \in Clients \ {c} : pc'[o] = pc[o] /\ dev'[o] = dev[o]
      PROVE  Held'
  BY <1>1
<1>2. ASSUME NEW c \in Clients, NEW d \in Devices, GrantOverride(c, d) PROVE Held'
  BY <1>1, <1>2 DEF GrantOverride, Arrives, database
<1>3. ASSUME NEW c \in Clients, NEW g \in Grants, RevokeOverride(c, g) PROVE Held'
  BY <1>1, <1>3 DEF RevokeOverride, Arrives, ThenPublish
<1>4. ASSUME NEW c \in Clients, NEW d \in Devices,
             PublishRules(c, d) \/ \E v \in DOMAIN versions[d] : RestoreVersion(c, d, v)
      PROVE  Held'
  BY <1>1, <1>4 DEF PublishRules, RestoreVersion, Arrives, ThenPublish, database
<1>s. ASSUME NEW c \in Clients, NEW r \in Rules, SaveRules(c, r) PROVE Held'
  BY <1>s DEF SaveRules, request
<1>5. ASSUME NEW c \in Clients, RecompileHorizons(c) \/ InsertOverride(c) PROVE Held'
  BY <1>1, <1>5 DEF RecompileHorizons, InsertOverride, ThenPublish, database
<1>6. ASSUME NEW c \in Clients, Begin(c) PROVE Held'
  BY <1>1, <1>6 DEF Begin, database
<1>7. ASSUME NEW c \in Clients, Lock(c) PROVE Held'
  <2>1. dev[c] \in Devices
    BY <1>7 DEF Lock, Requests, Stage
  <2>2. \A o \in Clients \ {c} : pc[o] \in {"rules", "grants", "write"} => dev[o] # dev[c]
    BY <1>7 DEF Lock, PolicyAssumption
  <2> QED BY <1>7, <2>1, <2>2 DEF Lock
<1>8. ASSUME NEW c \in Clients, GatherRules(c) \/ GatherGrants(c) PROVE Held'
  BY <1>8 DEF GatherRules, GatherGrants, database
<1>9. ASSUME NEW c \in Clients, Write(c) PROVE Held'
  BY <1>9 DEF Write
<1>10. CASE ApiCrash
  BY <1>10 DEF ApiCrash
<1>11. ASSUME UNCHANGED <<database, request>> PROVE Held'
  BY <1>11 DEF database, request
<1>12. CASE UNCHANGED vars
  BY <1>11, <1>12 DEF vars
<1> QED
  BY <1>2, <1>3, <1>4, <1>5, <1>6, <1>7, <1>8, <1>9, <1>10, <1>11, <1>12, <1>s, Steps, MacSteps
     DEF ClientStep, PublishStep

-----------------------------------------------------------------------------
(* What is gathered and what is written.                                    *)
Passed == Accurate /\ CaughtUp /\ OwnGathered /\ Since

\* A step that gathers no grants and writes no version; what it changes among
\* the live grants, it owes.
Owes(c) ==
  /\ pc[c] # "write" /\ pc'[c] # "write"
  /\ UNCHANGED <<versions, missed, awaited>>
  /\ \A o \in Clients \ {c} :
       /\ pc'[o] = pc[o] /\ kind'[o] = kind[o] /\ gid'[o] = gid[o] /\ dev'[o] = dev[o]
       /\ gathered'[o] = gathered[o]
  /\ \A o \in Clients : todo[o] \subseteq todo'[o]
  /\ \A g \in Grants : /\ grants'[g] # grants[g] => \E o \in Clients : grants'[g].device \in todo'[o]
                       /\ grants[g].state # "none" => grants'[g].device = grants[g].device
                       /\ grants[g].state = "revoked" => grants'[g].state = "revoked"

LEMMA OwesSteps ==
  ASSUME PolicyAssumption, TypeOK, Requests, NEW c \in Clients,
         ClientStep(c), ~GatherGrants(c), ~Write(c), pc'[c] # pc[c]
  PROVE  Owes(c)
<1> Types BY DEF TypeOK
<1> USE DEF Owes, Types
<1>1. ASSUME NEW d \in Devices, GrantOverride(c, d) PROVE Owes(c)
  BY <1>1 DEF GrantOverride, Arrives, database
<1>2. ASSUME NEW d \in Devices,
             PublishRules(c, d) \/ \E v \in DOMAIN versions[d] : RestoreVersion(c, d, v)
      PROVE  Owes(c)
  BY <1>2 DEF PublishRules, RestoreVersion, Arrives, ThenPublish, database, Requests, Stage
<1>3. ASSUME NEW g \in Grants, RevokeOverride(c, g) PROVE Owes(c)
  <2>1. \A h \in Grants : h # g => grants'[h] = grants[h]
    BY <1>3 DEF RevokeOverride
  <2>2. grants'[g].device = grants[g].device /\ grants'[g].state = "revoked"
    <3>1. grants[g] \in [state : {"none", "live", "revoked"}, device : Devices \cup {None}]
      OBVIOUS
    <3>2. grants'[g] = [grants[g] EXCEPT !.state = "revoked"]
      BY <1>3 DEF RevokeOverride
    <3> QED BY <3>1, <3>2
  <2>3. pc[c] = "idle" /\ pc'[c] = "begin" /\ todo[c] = {} /\ todo' = [todo EXCEPT ![c] = {grants[g].device}]
    BY <1>3 DEF RevokeOverride, Arrives, ThenPublish, Requests, Stage
  <2>4. grants[g].device \in todo'[c]
    BY <2>3
  <2> QED BY <1>3, <2>1, <2>2, <2>3, <2>4 DEF RevokeOverride, Arrives, ThenPublish
<1>4. ASSUME NEW r \in Rules, SaveRules(c, r) PROVE FALSE
  BY <1>4 DEF SaveRules, request
<1>5. CASE RecompileHorizons(c)
  BY <1>5 DEF RecompileHorizons, ThenPublish, database, Requests, Stage
<1>6. CASE InsertOverride(c)
  <2>1. /\ gid[c] \in Grants /\ dev[c] \in Devices /\ todo[c] = {}
        /\ grants[gid[c]].state = "none"
    BY <1>6 DEF InsertOverride, Requests, Stage
  <2>2. \A h \in Grants : h # gid[c] => grants'[h] = grants[h]
    BY <1>6 DEF InsertOverride
  <2>3. grants'[gid[c]].device = dev[c]
    BY <1>6, <2>1 DEF InsertOverride
  <2>4. dev[c] \in todo'[c]
    BY <1>6 DEF InsertOverride, ThenPublish
  <2> QED BY <1>6, <2>1, <2>2, <2>3, <2>4 DEF InsertOverride, ThenPublish
<1>7. CASE Begin(c) \/ Lock(c) \/ GatherRules(c)
  BY <1>7 DEF Begin, Lock, GatherRules, database
<1> QED BY <1>1, <1>2, <1>3, <1>4, <1>5, <1>6, <1>7 DEF ClientStep, PublishStep

LEMMA AfterOwes ==
  ASSUME TypeOK, Requests, Passed, NEW c \in Clients, Owes(c)
  PROVE  Passed'
<1> USE DEF Owes
<1>1. \A d \in Devices : Owed(d) => Owed(d)'
  BY DEF Owed
<1>2. \A d \in Devices : Live(d)' = Live(d) \/ Owed(d)'
  <2> SUFFICES ASSUME NEW d \in Devices, ~Owed(d)' PROVE Live(d)' = Live(d)
    OBVIOUS
  <2>1. ASSUME NEW g \in Grants PROVE g \in Live(d)' <=> g \in Live(d)
    <3>1. CASE grants'[g] = grants[g]
      BY <3>1 DEF Live
    <3>2. CASE grants'[g] # grants[g]
      <4>1. grants'[g].device # d
        BY <3>2 DEF Owed
      <4>2. grants[g].state = "live" => grants[g].device # d
        BY <4>1
      <4> QED BY <4>1, <4>2 DEF Live
    <3> QED BY <3>1, <3>2
  <2> QED BY <2>1 DEF Live
<1>3. \A d \in Devices : \A o \in Clients : Writing(o, d)' <=> Writing(o, d)
  BY DEF Writing
<1>4. \A d \in Devices : \A o \in Clients : Writing(o, d) => o # c /\ gathered'[o] = gathered[o]
  BY DEF Writing
<1>5. Accurate'
  BY <1>1, <1>2, <1>3, <1>4 DEF Passed, Accurate
<1>6. CaughtUp'
  BY <1>1, <1>2, <1>3 DEF Passed, CaughtUp, Newest
<1>7. ASSUME NEW d \in Devices, NEW g \in Live(d)', grants[g].state # "none" PROVE g \in Live(d)
  BY <1>7 DEF Live, TypeOK, Types
<1>8. OwnGathered'
  <2> SUFFICES ASSUME NEW o \in Clients, NEW d \in Devices, Writing(o, d)', kind'[o] = "grant",
                      gid'[o] \in Live(d)'
               PROVE  gid'[o] \in gathered'[o].grants
    BY DEF OwnGathered
  <2>1. Writing(o, d) /\ o # c
    BY <1>3, <1>4
  <2>2. kind[o] = "grant" /\ gid'[o] = gid[o] /\ gathered'[o] = gathered[o]
    BY <2>1
  <2>3. grants[gid[o]].state # "none"
    BY <2>1, <2>2 DEF Writing, Requests, Stage, OwnRow
  <2>4. gid[o] \in Live(d)
    BY <1>7, <2>2, <2>3
  <2> QED BY <2>1, <2>2, <2>4 DEF Passed, OwnGathered
<1>9. Since'
  <2> SUFFICES ASSUME NEW d \in Devices, NEW g \in Live(d)', awaited'[g] # None
               PROVE  /\ \A u \in 1..Len(versions'[d]) : u >= awaited'[g] => g \in versions'[d][u].grants
                      /\ \A o \in Clients : Writing(o, d)' => g \in gathered'[o].grants
    BY DEF Since
  <2>1. g \in Live(d)
    BY <1>7 DEF Requests, Rows, Live
  <2> QED BY <2>1, <1>3, <1>4 DEF Passed, Since
<1> QED BY <1>5, <1>6, <1>8, <1>9 DEF Passed

LEMMA AfterGather ==
  ASSUME TypeOK, Requests, Held, Passed, NEW c \in Clients, GatherGrants(c)
  PROVE  Passed'
<1> Types BY DEF TypeOK
<1> USE DEF Types
<1>1. /\ pc[c] = "grants" /\ dev[c] \in todo[c] /\ dev[c] \in Devices
      /\ gathered[c] \in Contents
  BY DEF GatherGrants, Requests, Stage
<1>2. gathered'[c].grants = Live(dev[c])
  BY <1>1 DEF GatherGrants, Contents
<1>3. /\ UNCHANGED <<versions, missed, awaited, grants, kind, gid, dev, lock>>
      /\ \A o \in Clients \ {c} : pc'[o] = pc[o] /\ todo'[o] = todo[o] /\ gathered'[o] = gathered[o]
      /\ pc'[c] = "write" /\ todo'[c] = todo[c] \ {dev[c]}
  BY <1>1 DEF GatherGrants, database
<1>4. \A d \in Devices : Live(d)' = Live(d)
  BY <1>3 DEF Live
<1>5. \A d \in Devices : d # dev[c] => (Owed(d)' <=> Owed(d))
  BY <1>3 DEF Owed
\* Nobody else is about to write to this device.
<1>6. ASSUME NEW o \in Clients, NEW d \in Devices, Writing(o, d)'
      PROVE  (o = c /\ d = dev[c]) \/ (o # c /\ d # dev[c] /\ Writing(o, d))
  <2>1. CASE o = c
    BY <1>3, <1>6, <2>1 DEF Writing
  <2>2. CASE o # c
    <3>1. Writing(o, d)
      BY <1>3, <1>6, <2>2 DEF Writing
    <3>2. lock[d] = o
      BY <3>1 DEF Writing, Held
    <3>3. lock[dev[c]] = c
      BY <1>1 DEF Held
    <3> QED BY <2>2, <3>1, <3>2, <3>3
  <2> QED BY <2>1, <2>2
<1>7. Accurate'
  <2> SUFFICES ASSUME NEW d \in Devices, NEW o \in Clients, Writing(o, d)'
               PROVE  Owed(d)' \/ gathered'[o].grants = Live(d)'
    BY DEF Accurate
  <2>1. CASE o = c /\ d = dev[c]
    BY <1>2, <1>4, <2>1
  <2>2. CASE o # c /\ d # dev[c] /\ Writing(o, d)
    BY <1>3, <1>4, <1>5, <2>2 DEF Passed, Accurate
  <2> QED BY <1>6, <2>1, <2>2
<1>8. CaughtUp'
  <2> SUFFICES ASSUME NEW d \in Devices
               PROVE  \/ d \in missed' \/ Owed(d)' \/ \E o \in Clients : Writing(o, d)'
                      \/ Newest(d).grants' = Live(d)'
    BY DEF CaughtUp
  <2>1. CASE d = dev[c]
    BY <1>3, <2>1 DEF Writing
  <2>2. CASE d # dev[c]
    <3>1. \A o \in Clients : Writing(o, d) => Writing(o, d)'
      BY <1>1, <1>3 DEF Writing
    <3> QED BY <1>3, <1>4, <1>5, <2>2, <3>1 DEF Passed, CaughtUp, Newest
  <2> QED BY <2>1, <2>2
<1>9. OwnGathered'
  <2> SUFFICES ASSUME NEW o \in Clients, NEW d \in Devices, Writing(o, d)', kind'[o] = "grant",
                      gid'[o] \in Live(d)'
               PROVE  gid'[o] \in gathered'[o].grants
    BY DEF OwnGathered
  <2>1. CASE o = c /\ d = dev[c]
    BY <1>2, <1>3, <1>4, <2>1
  <2>2. CASE o # c /\ d # dev[c] /\ Writing(o, d)
    BY <1>3, <1>4, <2>2 DEF Passed, OwnGathered
  <2> QED BY <1>6, <2>1, <2>2
<1>10. Since'
  <2> SUFFICES ASSUME NEW d \in Devices, NEW g \in Live(d)', awaited'[g] # None
               PROVE  /\ \A u \in 1..Len(versions'[d]) : u >= awaited'[g] => g \in versions'[d][u].grants
                      /\ \A o \in Clients : Writing(o, d)' => g \in gathered'[o].grants
    BY DEF Since
  <2>1. g \in Live(d) /\ awaited[g] # None
    BY <1>3, <1>4
  <2>2. \A u \in 1..Len(versions'[d]) : u >= awaited'[g] => g \in versions'[d][u].grants
    BY <1>3, <2>1 DEF Passed, Since
  <2>3. ASSUME NEW o \in Clients, Writing(o, d)' PROVE g \in gathered'[o].grants
    <3>1. CASE o = c /\ d = dev[c]
      BY <1>2, <2>1, <3>1
    <3>2. CASE o # c /\ d # dev[c] /\ Writing(o, d)
      BY <1>3, <2>1, <3>2 DEF Passed, Since
    <3> QED BY <1>6, <2>3, <3>1, <3>2
  <2> QED BY <2>2, <2>3
<1> QED BY <1>7, <1>8, <1>9, <1>10 DEF Passed

LEMMA AfterWrite ==
  ASSUME TypeOK, Requests, Held, Passed, NEW c \in Clients, Write(c)
  PROVE  Passed'
<1> Types BY DEF TypeOK
<1> USE DEF Types
<1>1. /\ dev[c] \in Devices /\ gathered[c] \in Contents
      /\ versions[dev[c]] \in Seq(Contents) /\ Len(versions[dev[c]]) > 0 /\ Version(c) \in Nat
  BY GatheredIsContents
<1>2. /\ UNCHANGED <<grants, todo>>
      /\ pc[c] = "write" /\ pc'[c] # "write" /\ missed' = missed \ {dev[c]}
      /\ \A o \in Clients \ {c} : /\ pc'[o] = pc[o] /\ kind'[o] = kind[o] /\ gid'[o] = gid[o]
                                  /\ dev'[o] = dev[o] /\ gathered'[o] = gathered[o]
  BY DEF Write
<1>3. \A d \in Devices : Live(d)' = Live(d) /\ (Owed(d)' <=> Owed(d))
  BY <1>2 DEF Live, Owed
\* Nobody else was about to write to this device.
<1>4. ASSUME NEW o \in Clients, NEW d \in Devices, Writing(o, d)'
      PROVE  o # c /\ d # dev[c] /\ Writing(o, d)
  <2>1. o # c /\ Writing(o, d)
    BY <1>2, <1>4 DEF Writing
  <2>2. lock[d] = o /\ lock[dev[c]] = c
    BY <1>2, <2>1 DEF Writing, Held
  <2> QED BY <2>1, <2>2
<1>5. Accurate'
  BY <1>2, <1>3, <1>4 DEF Passed, Accurate
<1>6. CaughtUp'
  <2> SUFFICES ASSUME NEW d \in Devices, ~Owed(d)', d \notin missed',
                      \A o \in Clients : ~Writing(o, d)'
               PROVE  Newest(d).grants' = Live(d)'
    BY DEF CaughtUp
  <2>1. CASE d = dev[c]
    <3>1. gathered[c].grants = Live(d)
      BY <1>2, <1>3, <2>1 DEF Passed, Accurate, Writing
    <3>2. versions'[d][Len(versions'[d])] = gathered[c]
      BY <2>1, Appended
    <3> QED BY <1>3, <3>1, <3>2 DEF Newest
  <2>2. CASE d # dev[c]
    <3>1. \A o \in Clients : ~Writing(o, d)
      BY <1>2, <2>2 DEF Writing
    <3>2. versions'[d] = versions[d]
      BY <2>2, Appended
    <3> QED BY <1>2, <1>3, <2>2, <3>1, <3>2 DEF Passed, CaughtUp, Newest
  <2> QED BY <2>1, <2>2
<1>7. OwnGathered'
  BY <1>2, <1>3, <1>4 DEF Passed, OwnGathered
<1>8. Since'
  <2> SUFFICES ASSUME NEW d \in Devices, NEW g \in Live(d), awaited'[g] # None
               PROVE  /\ \A u \in 1..Len(versions'[d]) : u >= awaited'[g] => g \in versions'[d][u].grants
                      /\ \A o \in Clients : Writing(o, d)' => g \in gathered'[o].grants
    BY <1>3 DEF Since
  <2>1. g \in Grants /\ grants[g].device = d
    BY DEF Live
  <2>2. CASE kind[c] = "grant" /\ g = gid[c]
    <3>1. d = dev[c]
      BY <1>2, <2>1, <2>2 DEF Requests, Stage
    <3>2. g \in gathered[c].grants
      BY <1>2, <2>2, <3>1 DEF Passed, OwnGathered, Writing
    <3>3. awaited'[g] = Version(c)
      BY <2>1, <2>2 DEF Write
    <3>4. Len(versions'[d]) = Version(c) /\ versions'[d][Version(c)] = gathered[c]
      BY <3>1, Appended
    <3>5. \A u \in 1..Len(versions'[d]) : u >= awaited'[g] => u = Version(c)
      BY <1>1, <3>3, <3>4
    <3> QED BY <1>4, <3>1, <3>2, <3>4, <3>5
  <2>3. CASE ~(kind[c] = "grant" /\ g = gid[c])
    <3>1. awaited'[g] = awaited[g]
      BY <2>1, <2>3 DEF Write
    <3>2. /\ \A u \in 1..Len(versions[d]) : u >= awaited[g] => g \in versions[d][u].grants
          /\ \A o \in Clients : Writing(o, d) => g \in gathered[o].grants
      BY <3>1 DEF Passed, Since
    <3>3. d = dev[c] => g \in gathered[c].grants
      BY <1>2, <3>2 DEF Writing
    <3>4. \A u \in 1..Len(versions'[d]) : u >= awaited'[g] => g \in versions'[d][u].grants
      BY <3>1, <3>2, <3>3, Appended
    <3>5. \A o \in Clients : Writing(o, d)' => g \in gathered'[o].grants
      BY <1>2, <1>4, <3>2
    <3> QED BY <3>4, <3>5
  <2> QED BY <2>2, <2>3
<1> QED BY <1>5, <1>6, <1>7, <1>8 DEF Passed

LEMMA PassedNext ==
  ASSUME PolicyAssumption, TypeOK, Requests, Held, Passed, [Next]_vars PROVE Passed'
<1>1. ASSUME UNCHANGED <<grants, versions, awaited, missed, pc, kind, gid, todo, dev, gathered>>
      PROVE  Passed'
  <2>1. \A d \in Devices : Live(d)' = Live(d) /\ (Owed(d)' <=> Owed(d)) /\ Newest(d)' = Newest(d)
    BY <1>1 DEF Live, Owed, Newest
  <2>2. \A d \in Devices : \A c \in Clients : Writing(c, d)' <=> Writing(c, d)
    BY <1>1 DEF Writing
  <2>3. Accurate'
    BY <1>1, <2>1, <2>2 DEF Passed, Accurate
  <2>4. CaughtUp'
    BY <1>1, <2>1, <2>2 DEF Passed, CaughtUp
  <2>5. OwnGathered'
    BY <1>1, <2>1, <2>2 DEF Passed, OwnGathered
  <2>6. Since'
    BY <1>1, <2>1, <2>2 DEF Passed, Since
  <2> QED BY <2>3, <2>4, <2>5, <2>6 DEF Passed
<1>2. ASSUME NEW c \in Clients, ClientStep(c) PROVE Passed'
  <2>1. CASE GatherGrants(c)
    BY <2>1, AfterGather
  <2>2. CASE Write(c)
    BY <2>2, AfterWrite
  <2>3. CASE \E r \in Rules : SaveRules(c, r)
    BY <1>1, <2>3 DEF SaveRules, request
  <2>4. CASE ~GatherGrants(c) /\ ~Write(c) /\ ~\E r \in Rules : SaveRules(c, r)
    <3>1. pc'[c] # pc[c]
      BY <1>2, <2>4 DEF ClientStep, PublishStep, GrantOverride, PublishRules, RevokeOverride,
            RestoreVersion, RecompileHorizons, InsertOverride, Begin, Lock, GatherRules,
            Arrives, ThenPublish, TypeOK, Types
    <3> QED BY <1>2, <2>4, <3>1, OwesSteps, AfterOwes
  <2> QED BY <2>1, <2>2, <2>3, <2>4
<1>3. CASE ApiCrash
  <2>1. \A d \in Devices : Live(d)' = Live(d) /\ Newest(d)' = Newest(d)
    BY <1>3 DEF ApiCrash, Live, Newest
  <2>2. \A d \in Devices : \A c \in Clients : ~Writing(c, d)'
    BY <1>3 DEF ApiCrash, Writing
  <2>3. \A d \in Devices :
          d \in missed \/ Owed(d) \/ (\E c \in Clients : Writing(c, d)) => d \in missed'
    <3> SUFFICES ASSUME NEW d \in Devices, NEW c \in Clients,
                        d \in missed \/ d \in todo[c] \/ Writing(c, d)
                 PROVE  d \in missed'
      BY <1>3 DEF Owed, ApiCrash
    <3>1. d \in missed \/ d \in todo[c] \cup ({dev[c]} \ {None})
      BY DEF Writing, PolicyAssumption
    <3> QED BY <1>3, <3>1 DEF ApiCrash
  <2>4. Accurate' /\ OwnGathered'
    BY <2>2 DEF Accurate, OwnGathered
  <2>5. CaughtUp'
    BY <2>1, <2>3 DEF Passed, CaughtUp
  <2>6. Since'
    BY <1>3, <2>1, <2>2 DEF Passed, Since, ApiCrash
  <2> QED BY <2>4, <2>5, <2>6 DEF Passed
<1>4. ASSUME NEW d \in Devices, MacStep(d) PROVE Passed'
  BY <1>1, <1>4, MacSteps DEF database, request
<1>5. CASE UNCHANGED vars
  BY <1>1, <1>5 DEF vars, database, request
<1> QED BY <1>2, <1>3, <1>4, <1>5, Steps

-----------------------------------------------------------------------------
(* The Mac.                                                                 *)
LEMMA MacInSyncNext ==
  ASSUME PolicyAssumption, TypeOK, MacInSync, [Next]_vars PROVE MacInSync'
<1> Types /\ NamesAVersion BY DEF TypeOK
<1> USE DEF MacInSync
<1>1. ASSUME UNCHANGED mac PROVE MacInSync'
  BY <1>1 DEF mac
<1>2. ASSUME NEW d \in Devices, MacStep(d) PROVE MacInSync'
  <2>1. CASE SyncAsk(d)
    <3>1. Recall(d) # None => files[d].cur = Recall(d)
      BY <2>1 DEF Recall, Good, SyncAsk
    <3> QED BY <2>1, <3>1 DEF SyncAsk, Types
  <2>2. CASE SyncAnswer(d)
    <3>1. Len(versions[d]) \in Nat /\ Len(versions[d]) # None
      BY DEF PolicyAssumption
    <3>2. sync'[d].stage \in {"unchanged", "changed"} /\ sync'[d].version = Len(versions[d])
      BY <2>2 DEF SyncAnswer, Types
    <3>3. sync'[d].stage = "unchanged" => sync'[d].version = mem[d]
      BY <2>2, <3>2 DEF SyncAnswer, Types, IsUnchanged
    <3>4. UNCHANGED <<mem, files>> /\ \A e \in Devices : e # d => sync'[e] = sync[e]
      BY <2>2 DEF SyncAnswer, Types
    <3>5. sync[d].stage = "asked"
      BY <2>2 DEF SyncAnswer, Types
    <3> QED BY <3>1, <3>2, <3>3, <3>4, <3>5
  <2>3. CASE Unchanged(d)
    BY <2>3 DEF Unchanged, Types
  <2>4. CASE PromoteToLkg(d)
    <3>1. \A e \in Devices : files'[e].cur = files[e].cur
      BY <2>4 DEF PromoteToLkg, Types, Files
    <3>2. /\ sync'[d].stage = "current" /\ sync'[d].version = sync[d].version
          /\ \A e \in Devices : e # d => sync'[e] = sync[e]
      BY <2>4 DEF PromoteToLkg, Types
    <3>3. UNCHANGED mem /\ sync[d].stage = "changed"
      BY <2>4 DEF PromoteToLkg, Types
    <3> QED BY <3>1, <3>2, <3>3
  <2>5. CASE WriteCurrent(d)
    <3>1. /\ files'[d].cur = sync[d].version
          /\ \A e \in Devices : e # d => files'[e].cur = files[e].cur
      BY <2>5 DEF WriteCurrent, Types, Files
    <3>2. /\ sync'[d].stage = "etag" /\ sync'[d].version = sync[d].version
          /\ \A e \in Devices : e # d => sync'[e] = sync[e]
      BY <2>5 DEF WriteCurrent, Types
    <3>3. UNCHANGED mem /\ sync[d].stage = "current"
      BY <2>5 DEF WriteCurrent, Types
    <3> QED BY <3>1, <3>2, <3>3
  <2>6. CASE WriteEtag(d)
    <3>1. \A e \in Devices : files'[e].cur = files[e].cur
      BY <2>6 DEF WriteEtag, Types, Files
    <3> QED BY <2>6, <3>1 DEF WriteEtag, Types
  <2>7. CASE Lose(d)
    BY <2>7 DEF Lose, Types
  <2>8. CASE PowerLoss(d)
    <3>1. \A e \in Devices : e # d => files'[e].cur = files[e].cur
      BY <2>8 DEF PowerLoss, Types
    <3> QED BY <2>8, <3>1 DEF PowerLoss, Types
  <2> QED BY <1>2, <2>1, <2>2, <2>3, <2>4, <2>5, <2>6, <2>7, <2>8 DEF MacStep, SyncStep
<1>3. CASE ApiCrash
  BY <1>1, <1>3 DEF ApiCrash
<1>4. CASE UNCHANGED vars
  BY <1>1, <1>4 DEF vars
<1> QED BY <1>1, <1>2, <1>3, <1>4, ClientSteps, Steps

-----------------------------------------------------------------------------
(* The theorems.                                                            *)
LEMMA Inductive ==
  ASSUME PolicyAssumption, IInv, [Next]_vars PROVE IInv'
BY TypesNext, NamesNext, RequestsNext, HeldNext, PassedNext, MacInSyncNext
   DEF IInv, Core, Passed, TypeOK

LEMMA Invariant == Spec => []IInv
<1>1. Init => IInv
  BY PolicyAssumption, InitIInv
<1>2. IInv /\ [Next]_vars => IInv'
  BY PolicyAssumption, Inductive
<1> QED BY <1>1, <1>2, PTL DEF Spec

(* Whoever holds a version number, a file, the daemon, the server or the    *)
(* parent's browser, holds one that the device has.                         *)
THEOREM TypesAreRight == Spec => []TypeOK
<1>1. IInv => TypeOK
  BY DEF IInv, Core
<1> QED BY <1>1, Invariant, PTL

(* Publications that overlap lose no grant and no revocation (publish.ts,   *)
(* lines 40 to 126: the lock, then the gathering).                          *)
THEOREM NothingIsForgotten == Spec => []NewestIsCurrent
<1>1. IInv => NewestIsCurrent
  BY DEF IInv, CaughtUp, NewestIsCurrent, Owed, Writing
<1> QED BY <1>1, Invariant, PTL

(* "Applied" is true when a parent reads it (grant-progress.ts): the Mac    *)
(* that reports the awaited version, or a later one, enforces the grant.    *)
THEOREM AppliedIsTrue == Spec => []AppliedMeansApplied
<1>1. ASSUME IInv PROVE AppliedMeansApplied
  <2> SUFFICES ASSUME NEW d \in Devices, NEW g \in Live(d), sync[d].stage = "asked",
                      sync[d].version # None, awaited[g] # None, sync[d].version >= awaited[g]
               PROVE  Enforced(d) # None /\ g \in versions[d][Enforced(d)].grants
    BY DEF AppliedMeansApplied
  <2> USE <1>1 DEF IInv
  <2>1. files[d].cur = sync[d].version
    BY DEF MacInSync
  <2>2. sync[d].version \in 1..Len(versions[d])
    BY DEF Core, TypeOK, NamesAVersion, Known
  <2>3. Enforced(d) = sync[d].version
    BY <2>1, <2>2, PolicyAssumption DEF Enforced, Good, PolicyAssumption
  <2> QED BY <2>2, <2>3 DEF Since
<1>2. IInv => AppliedMeansApplied
  BY <1>1
<1> QED BY <1>2, Invariant, PTL

=============================================================================
