# Home Parent Control: a verification project

TLA+ specifications of the bedtime agent and its control plane, the TLC
configurations that check them, and proofs that TLAPS checks. Every definition is
translated from the code under `src/`; `PROJECT.json` names the lines of each one.

## 1. The system

A daemon on the child's Mac (`enforcerd`) locks the screen, and finally shuts the
Mac down, while a policy says it is bedtime. It never touches the network. A second
daemon (`hpc-sync`) talks to the control plane: it enrols, fetches policies, rotates
its credential, and carries what the Mac recorded to the server. A supervisor
installs new versions and lets them soak in shadow mode. A "deadfall" job locks the
Mac at precomputed instants when `enforcerd` is dead. The control plane (Hono on
Postgres) compiles a policy per device, stores events, projects them into reports
and tracks the devices' health; parents use a web application on top of it.

### Inventory

| Component | State | Operations | Hard behaviour | What makes it correct |
|---|---|---|---|---|
| Bedtime predicate (`BedtimePredicate.swift`, `ZonedTime.swift`; `lib/restriction.ts`, its double on the server) | none | `evaluate`, `restrictionAt` | windows past midnight, overrides on either side of it, overlaps, two implementations | what the tables say is what is enforced; the server's answer is the Mac's; what time brings on was announced |
| Ladder and `enforcerd` (`Ladder.swift`, `HPCEnforcer/main.swift`, `PolicyStore`, `KillSwitch`, `ShadowMode`) | ladder memory, pending warning; reads the policy files, the kill switch and the soak marker | one tick a minute; start | sleep, restarts, policies swapped, files damaged, time corrected, between any two ticks | every restricted tick locks; no shutdown without notice and grace, nor twice, nor in a loop; nothing the policy does not demand |
| Trusted time (`TrustedClock`, `TimeBasis`) | anchors and high-water mark on disk | `resolve` | three clocks that disagree, reboots | only its effect is modelled |
| Credentials (`enroll.ts`, `credential.ts`, `agent.ts`, `parent-devices.ts`, `parent-setup.ts`; `SyncDaemon+Enrolment`, `Client`) | devices, API keys, codes; credential and halted flag on the Mac | enrol, re-issue, sync, rotate, close overlap, revoke, decommission, report | handlers overlap, answers are lost, either side dies half-way | a device stays with its Mac; an ended device is dead; an agent removes itself only when told; decommissioning reaches it |
| Telemetry (`Spool`, `SpoolReader`, `Queue`, `QueuePolicy`, `events.ts`) | spool files, SQLite queue, `events` table | append, rotate, ingest, unlink, evict, flush, store, acknowledge | writers in other processes, crashes between steps, lost answers, a full queue | nothing lost, enforcement records last to go, the queue empties |
| Sync daemon (`SyncDaemon.swift`, `Cadence`, `DesiredReconciler`) | cadence, tick state, policy ETag | tick | partial failures, order of the steps of a tick | in the modules of what each step does |
| Supervisor, shadow mode (`HPCSupervisor`, `SupervisorPolicy`) | last good version, quarantine, soak marker | install, roll back, promote | power loss during an install, crash loops, sleep | a version that hangs is replaced, one that works is not; installing ends |
| Deadfall (`HPCDeadfall`, `DeadfallSchedule`) | rendered schedule | run | enforcer hung or slow | not modelled but for its writing |
| Compiler (`policy/compile.ts`, `gather.ts`, `canonical.ts`) | none of its own; reads schedules, grants, exceptions, holidays | compile, hash; recompile every 24 h since boot | relaxations that end at midnight, 06:00 or with a window; documents evaluated long after they were compiled | the Mac enforces what the tables say; no version without a cause |
| Policy publication and delivery (`publish.ts`, `parent-overrides.ts`, `parent-rules.ts`, `sync.ts`; `SyncDaemon.applyPolicy`, `SyncDaemon+PolicyEtag`) | policy versions, overrides, drafts; current, last-known-good and etag files | grant, revoke, edit, publish, restore, recompile; ask, answer, apply | concurrent publications, a pool of connections, crashes between write and publication, etags that outlive a file | the newest version holds every live grant; "applied" is true; a grant reaches the Mac |
| Rules page (`rules/page.tsx`, `publish-target.ts`, `parent-rules.ts`) | a tab's rules, draft, Mac and review; windows, limits, versions | pick, edit, save, review, publish, restore | tabs over one another, answers that arrive late, the clock between review and click | a Mac's rules never go back; what bites at once was confirmed |
| Health of a Mac (`sync.ts`, `jobs/liveness.ts`) | the device's row, intervals, gap and boot rows | check in, judge, notify, reclassify | check-ins that overlap, sweeps that overlap, restarts at any statement | one story per device; a phone is buzzed in time and for a reason; a gap is told as it was |
| Projection (`jobs/project.ts`, `jobs/prune.ts`, `jobs/index.ts`) | watermark, hourly and daily sums, spans, unlocks | scan, recompute an hour, roll up, prune | late commits, two passes, delete then insert | what the watermark passed is counted; sessions are as the Mac lived them; the watermark goes on |
| History (`lib/history.ts`) | none; reads the log, the spans | present a window of rows | rows explained by later ones, on other pages; clocks set wrong | boots and ends are told once and as they were; pages agree; misuse is red |
| Accounts, other pages, deployment | library tables, none | sign-in, read-only pages | little of their own | not modelled |

How they meet: `enforcerd` reads the files `hpc-sync` and the supervisor write, and
nothing else; it appends to the spool `hpc-sync` drains; `hpc-sync` and the server
exchange `/enroll`, `/sync`, `/credential/rotate` and `/events`; parents' clicks and
the jobs change the rows those handlers read, between their awaits.

The hazards, each at its line with the property that watches it or the reason none
does, are the list `hazards` of `PROJECT.json`.

## 2. Modules

On the Mac:

* **`BedtimePredicate.tla`** (no state): `Evaluate(doc, t)` as `evaluate` computes it:
  yesterday's and today's spans, overrides applied, the covering span that ends last,
  the warnings whose moment has come. A local day has a constant length.
* **`Enforcer.tla`**: one action per tick outcome (`TickKillSwitch`, `TickFailOpen`,
  `TickShadow`, `TickAct`), each the whole of `Enforcer.tick` for that outcome, with
  `LadderStep` for `Ladder.step`; `Restart`; and one action for each thing that may
  happen between ticks: `ApplyPolicy`, `DamagePolicy`, `SetKillSwitch`,
  `ClearKillSwitch`, `InstallShadow`, `PromoteIfDue`, `Rollback`, `CorrectClock`,
  `Sleep`. The predicate is a CONSTANT operator, so proofs hold for any rules;
  `MCEnforcer` binds it to `BedtimePredicate!Evaluate`. `last` and `hist` are history:
  what the last tick saw and did, and what the run of restricted ticks has been.
* **`Telemetry.tla`**: writers (`OpenToWrite`, `FinishWrite`: the two halves of
  `Spool.append`), the daemon's tick in its order (`Drain`, `Ingest`, `Unlink`,
  `Evict`, `WriteReceipt`, `Send`, `Acknowledge`, `EndTick`), the server (`Serve`),
  and `Lose`, `Restart`, `NewDay`, `SetClock`. The queue is the SQLite table: a function from
  rowids to rows, with the `AUTOINCREMENT` counter `serial`. `refused`, `evicted` and
  `dropped` are history; `dropped` are the events that an error the agent swallows has cost:
  a line whose write failed (`Spool.append`'s `try?`), every line of a segment that cannot be
  read as text, which parses to nothing and is unlinked all the same (`SpoolReader.swift:96`,
  `:145-146`), and a row of the daemon's own whose `try? queue.enqueue` failed.
* **`Supervisor.tla`**: the supervisor's tick cut where its process may die (`Decide`,
  which is `SupervisorPolicy.step`, then `GiveUp`, `Install`, `RecordLastGood`,
  `EnterShadow`, `Kickstart`, `EndTick`; a quiet tick is one step), the two daemons it
  watches (`EnforcerTick`; `Stage` and `SyncTick`, a download within `hpc-sync`'s tick and the
  end of that tick; `Hang`, `SyncCrash`), `Restart`, and trusted time, which goes on in `Sleep`
  while the daemons' timers (`wait`) do not. Nothing makes `SyncTick` happen in time:
  `hpc-sync` writes its health file when its tick is over (`SyncDaemon.swift:293`), and a tick
  may hang on a request or a download without a timeout (`:541`). `HeldUp` is a tick that has
  lasted longer than `SyncGap`. Versions are ordered numbers. `calm` and `woke` are history.

Between Mac and server:

* **`Credentials.tla`**: both sides of every credential call. The agent has one
  call at a time; a call occupies a slot in the server, where each step is one
  statement or one transaction of the handler. `Send`, `Tick` and the `Get...`
  actions are the daemon; `Enrol...`, `Sync...`, `Rotate...`, `Report` the handlers;
  `NewCode`, `Click`, `ReissueCode`, `EndDevice` the parent; `Close...` the nightly
  job; `Abandon`, `Restart`, `Pass` the environment. `ended` is history.
* **`Binding.tla`** is what a parent may rely on of all that, with nothing said of codes,
  keys, rotations, lost answers or retries: a device belongs to the first Mac that enrols
  as it, for good, and an agent removes itself only after a device of that Mac was
  decommissioned. `Credentials!ImplementsBinding` is `Binding!Spec` under the refinement
  mapping `owner` ← `dev[d].mac`, `retired` ← the history of endings, `removed` ← `gone`.
* **`Policy.tla`**: requests, several at once, cut at their awaits: `GrantOverride` (the
  caps are read) and `InsertOverride`, `RevokeOverride`, `SaveRules`, `PublishRules`,
  `RestoreVersion`, the nightly `RecompileHorizons`; each then publishes for its devices in
  `Begin` (takes a pooled connection), `Lock` (`FOR UPDATE`), `GatherRules` and
  `GatherGrants` (on further connections, as `gatherCompilerInput` does not use the
  transaction's), `Write` (compare, insert, commit). The Mac's exchange is `SyncAsk`,
  `SyncAnswer`, then `Unchanged` or `PromoteToLkg`, `WriteCurrent`, `WriteEtag`, the files
  one at a time. `ApiCrash`, `PowerLoss`, `Lose` are faults. A version's content is the
  draft rules and the set of live grants, which is all the properties tell apart;
  `missed` is history: the devices a crash left without their publication.
* **`Health.tla`**: a Mac's power, network and agents (`Boot`, `PowerOff`, `SleepOrWake`,
  `Network`, `Trouble`, `StopAgent`, `StartAgent`, `Deliver`), so that verdicts can be held
  against what happened; a check-in in its two statements (`SyncRecord`, with `PowerOn` and
  `Gap`, then `SyncUpdate`), several at once; the sweep of the liveness job (`Judge`, which
  is `decide`, `OpenInterval`, `WriteDevice`, `Finish`, which notifies and reclassifies);
  the parent's `Away`; `Crash`, `Recover`. `past`, `boots`, `synced`, `outages`, `cut`,
  `overlapped` and `marked` are history.

On the server and in the browser:

* **`Compiler.tla`** (extends `BedtimePredicate`): `CompilePolicy(at)` as `compilePolicy`
  computes it from the tables: live grants, exceptions and library holidays inside the
  horizon, each as an override with its expiry; `Content` is what the hash covers. Actions:
  the handlers that write the tables and publish (`GrantOverride`, `RevokeOverride`,
  `UpsertException`), `RecompileHorizons`, `Restart`, `Tick`. Publication is one step and
  the Mac holds the newest document: how documents travel is `Policy`'s subject.
* **`Restriction.tla`** (extends `BedtimePredicate`): `RestrictionAt(doc, at)`, the server's
  own answer to "was this moment restricted?", enforced or watched.
* **`Rules.tla`**: tabs on the rules page (`Pick`, `Edit`, `Discard`, the clicks, `Arrive`
  for an answer of an earlier pick), and their handlers cut at their awaits: the two reads of
  `handleRules`, `AskDiff` and `AnswerDiff`, `ReadExisting` and `ReplaceWindows` of a save,
  `CheckTightening` before and `GatherAndCompile`, `WriteVersion` of a publication under the
  row lock; `SaveLimits`; `Recompile` for everybody else's publications. `write` in a document
  is history: the number of the write it was compiled after.
* **`Projection.tla`**: transactions of `POST /events`, which begin and commit in any order
  (`Begin`, `Commit`), with events of any age, and ahead of the server's clock by up to
  `Ahead`: the route stores `ts` as it was sent (`events.ts:152-156`), a line may lie in the
  spool for ever and an audit row 90 days in the queue; a pass over the events (`Scan`, then
  per hour `ReadBucket`, `ClearUsage`, `WriteUsage`, `ClearSpans`, `WriteSpans`,
  `WriteUnlocks`, then `Advance`, `RollUp`), run by the forward and by the nightly timer
  (`Reproject`) under one mutex; `Prune`, `Tick`, `Crash`. `late`, `ordered`, `torn` are
  history: events committed behind a scan, whether transitions arrived in order, and the tables
  and hours a pass died in between its delete and its insert. An hour is read again on account
  of whatever arrives in it, however late, and then holds only what raw rows are left:
  `Outlived(e, h)` says that this may have happened to `e` in hour `h`, as an event of `h`
  arrived nearly as long after `e` as `e` is kept. Sums except such events; spans except
  transitions before which one is that old (`Undisturbed`), unlocks those whose predecessor is
  (`Remembered`).
* **`History.tla`**: one night in a Mac's life (boots, launches, clean and enforced shutdowns,
  power cuts, sleeps, stops, uninstalls, unlocking, a clock set wrong, measured and corrected,
  policies applied) and the rows it leaves. A boot's moment is said twice, and neither time
  exactly: a launch sends `kern.boottime`, which moves with the clock (`boot + error`), and the
  server stamps `power_on`, once it has seen the uptime drop, with trusted time less the uptime
  (`boot + slept`); `Present` is one row's turn in `presentHistory`'s loop,
  `Presented` a page, `Context` what `loadHistory` passes of the rows before it. `life` is
  history.

How the modules compose: `Compiler` and `Restriction` extend `BedtimePredicate`, so that
documents are evaluated by the very definition `MCEnforcer` gives `Enforcer`, and
`MCCompiler` holds the server's answer against the Mac's. `Enforcer.ApplyPolicy` is
what `Policy`'s `WriteCurrent` looks like from the enforcer. `Rules` and `Policy` share
publication: `Policy` has the pool, grants and delivery, `Rules` the review and the page.
`Projection` turns `Telemetry`'s stored events into the spans `History` reads, and `Health`
writes the rows of gaps and boots `History` tells; `Supervisor` and `Enforcer`
share the soak marker, `Credentials` and `Telemetry` the daemon's tick. These are
composed by agreement on the shared file or table, not by one large state.

`MC...` modules give the small instances; the modules named after a component and ending in
`Proofs` hold the proofs: `Enforcer`, `Policy`, `Rules`, `Health`, `Credentials`, `Supervisor`,
`Projection` and `Telemetry` have one. Operators named `Mut...` are mistakes that the
properties must catch; no specification uses them.

## 3. What the runs show

`CHECK_DEADLOCK FALSE` is set everywhere because the bounds on time, clicks, keys, lines and
faults stop the models.

| Run | Shows | Bounds |
|---|---|---|
| `ordinary_nights` | Warned for this very bedtime, escalated in time, no warning twice, a second night within a day only locks | one policy, two nights, every tick spacing of 2 to 4, restarts, every warning outcome, a correction of 4. A unit is about 20 s: ticks every 3 units more or less one, a day of 24, a grace of 5 |
| `kill_switch_damage_soak` | Every tick locks exactly when the policy held demands it; nothing acts under a kill switch or in shadow; no shutdown unwarned, before its grace or twice, whatever is swapped | three policies (one extended, one free), damaged and missing files, a sleep, two expiries of the kill switch, one soak, one night |
| `credential_life` | The overlap is honoured, a revoked device is dead, every key and code is accounted for; decommissioning reaches the Mac | one Mac, one device, two codes, three keys, three units of time, one lost call |
| `enrolment_race` | `Credentials` implements `Binding` | two Macs, one code (with a second one a late code breaks it, see `NoSpareWayIn` below), overlapping handlers, one lost call, one crash |
| `telemetry` | Nothing is lost but by an error that is swallowed, nor doubled in the queue, eviction takes what it must in the right order and settles, and the queue empties | two lines and one sample against a cap of two (so that it overflows), batches of two, one poisoned event, one failed step (swallowed or not) or lost message, one restart, two days, a clock set ahead |
| `supervisor` | A version that works is never given up, but just after a wake or while `hpc-sync` alone is held up in a tick; the daemons are never restarted twice within a cooldown; a hung version is replaced while the last good one is cached; installing ends | two versions, the second flawed or not; one fault of any kind: sleep, supervisor crash, failed, damaged or half-failed installation, correction. A unit is the 60 s tick; stale after 1 (of 5), cooldown 4 (of 10), so that two stale looks still fit into a cooldown; `hpc-sync` waits 2 units at most (`SyncGap`: its pause of 300 s and a tick of the usual length), one more than stale, and may then be held up for as long as it likes |
| `compiler` | The Mac restricts exactly when the tables say so of the instant; the server's second implementation agrees; what begins was announced; a new version has a cause | Thursday to Saturday with a school-night, a weekend and an afternoon window; a unit is 3 h, 06:00 is 2; a horizon of 2 days (of 21), so that it moves past a day and a document is older than a day; a holiday, one exception of each effect, one grant, one restart, the timer at any phase |
| `policy_delivery` | No publication forgets a grant, "applied" is true, a grant reaches the Mac | one Mac, two requests at once with the nightly job among them, a pool of three (one to spare), two rule sets, one grant, two requests, one fault: API crash, power loss with or without the current file, lost message |
| `health` | Intervals are one story, what was told was so, a silence is noticed in time | seven units of three minutes, three changes of the Mac (a mark or a restart of the API costs two), two check-ins in flight; healthy within 1, unexpected after 3, too long after 6 (of 36 h, so that both kinds of silence fit), a window of expected use with a hole in it |
| `projection` | Every event the watermark passed is counted, and sessions are as they were, unless the hour may have been read again when raw rows of it were gone; the projector catches up | three recordings of up to three events (two samples and an enforcement record; a session over three hours; a lock and its unlock within one hour), batches and a scan limit of two, so that equal instants fill a batch; both passes, the prune, one restart at any statement, four hours; samples are kept two hours, enforcement records three, events arrive after any number of them |
| `history` | Boots and ends are told as they were where the rows say a boot's moment exactly, pages agree where they say boots in order, misuse is told | eight units of one night, two boots, shutdowns, stops, launches, check-ins and unlocks, one of everything else, a clock a unit ahead or behind, every cut of the time into two pages. `SameBoot` is one unit, so that a clock set wrong, or a sleep, makes another boot of the same |
| `rules` | A Mac's rules never go back; a window about to start is not published unasked | two tabs (one picks Macs and changes limits, the other discards and restores; both edit, save, review, publish), two Macs, two times, two limits, a unit of time, four clicks |

Why these bounds suffice: every property relates at most two of anything (two nights,
two Macs, two keys of a device, two tabs, two passes, one row and one answer), each failure
happens at most once in a violation's shortest trace, and each property has a mutant, a
plausible bug, which the same bounds catch. The three properties named for a whole
(`KeysAndCodes`, `ToldTruly`, `SessionAsItWas` and their like) are conjunctions of the type
invariant and of parts that are stated and commented one by one in their modules.

Six properties are liveness. `DecommissionReaches` assumes that an agent's step, once
possible, happens (a LaunchDaemon that launchd keeps alive), that a handler in the
server finishes, that the nightly job runs and that time passes; strong fairness where
the model lets one of several be served at a time, which is a restriction of the model
and not of Postgres. Nothing is assumed of parents' clicks, losses or restarts. `Drains`
assumes that a writer between open and write finishes, that the daemon's tick goes on, that
the server answers, and that a daemon with something to send does not skip the flush for
ever (strong fairness of `Send`: the heartbeat before it sometimes succeeds).
`FlawedReplaced` assumes that the supervisor and the daemons that are not hung tick and
that time passes, which launchd and `DispatchSource` timers see to; nothing is assumed
of what is staged. `Settles` holds by the bounds on failures and the quarantine, under the
same specification. `GrantReaches` assumes that a request's
next step, once possible, happens (strong fairness of the row lock: Postgres serves those
who wait for a row in turn), that the scheduler starts the recompilation again and again
(`lib/scheduler.ts`), and that the Mac goes on asking (`Cadence`'s ceiling of 300 s).
Nothing is assumed of parents or faults; after a crash of the API it is the recompilation
that brings the grant to the Mac. `CatchesUp` assumes that a pass under way runs on, and
that the forward pass, whose timer fires every five minutes, finds the mutex free again and
again (strong fairness: a nightly pass, once a day, may hold it at any one firing).

### Disagreements between the code and its words

Each of these configurations has TLC find its properties violated, by what the code does. They
are kept beside the project and are not among the regular runs, all of which pass; to repeat
one, run TLC on the module its name begins with (`MCDamagedWhileRunning`, `MCPoolExhausted` on
`MCPolicy`; `MCDailyShrinks`, `MCLateAudit` on `MCProjection`; `MCRenewsOnTheClock` on
`MCCredentials`; `MCUnsignedPolicies` on `MCEnforcer`; `MCHealthClaims` on `Health`). Where a
configuration lists several properties, TLC stops at the first: leave one in at a time.

| Configuration | Property | What happens |
|---|---|---|
| `MCEnforcerClaims` | `WarnedForThisBoundary` | a warning delivered for a bedtime the Mac then slept through unlocks the *next* bedtime's shutdown (`Ladder.swift:148`, says `:58` "during this episode") |
| | `GraceOfThisWindow` | after sleep from one bedtime into the next the grace counts from the first (`Ladder.swift:196`) |
| | `RelocksEveryTick` | after a backward correction re-locking pauses (`Ladder.swift:227`, says `:10`) |
| | `ShadowComputesShutdown` | a soak never computes the shutdown it should (`HPCEnforcer/main.swift:111`, says `ShadowMode.swift:4`) |
| `MCUnsignedPolicies` | `KnownGoodSurvives` | two unsigned policies replace both files (`SyncDaemon.swift:425`, says `:421-423`) |
| `MCCompilerClaims` | `NightOff` | a night the calendar calls off is restricted again from midnight (`compile.ts:81`, against `parent-overrides.ts:266-270`) |
| | `LastWordStands` | a second exception for a day does not replace the first: the key's `NULL`s are distinct (`parent-rules.ts:660`, says `:655-660`) |
| | `GrantRelaxes` | a grant made after midnight is for the coming night and relaxes nothing of this one (`parent-overrides.ts:85`, says `:96-98`) |
| | `NoBedtimeNoWatch` | the grant that called a night off runs out with the night, so the watch after it is held against the Mac (`restriction.ts:96`, says `:128`) |
| | `DueFromItsMoment` | warnings due the evening before a just-after-midnight bedtime are late (`BedtimePredicate.swift:58`, says `:100`) |
| | `OverlapNeverLess` | a later-ending `warn_only` window switches off an overlapping lock (`BedtimePredicate.swift:85`, says `:83-84`) |
| `MCCredentialsClaims` | `OverlapHonoured` | the nightly job clears the row's pointer whatever it has become, so a rotation that commits between the job's select and its update loses its overlap (`credential.ts:169`) |
| | `EndedStaysEnded` | a retried code revives an ended device (`enroll.ts:201`), and a sync that read `enrolled` overwrites an ending (`sync.ts:187`) |
| | `NeverStranded` | a Mac that loses one rotation's answer is refused during the overlap and locked out after it (`credential.ts:82`, says `:78-79`) |
| | `RetiredMeansGone` | a crash between the last report and the removal leaves an agent nobody can reach (`SyncDaemon.swift:693`) |
| | `NoOrphanKey` | a rotation that dies after its mint leaves a live key (`credential.ts:98`) |
| | `RevokedIsDead` | a revocation disables the keys it read before its transaction (`parent-devices.ts:402`) |
| | `NoSpareWayIn` | a code re-issued while its device enrols is a way into an enrolled device (`parent-setup.ts:201`); a second Mac that uses it takes the device over, and `ImplementsBinding` fails too (`enroll.ts` only raises a tripwire at a changed hardware UUID) |
| | `OneMacOneRegistration` | two enrolments of one Mac that overlap leave it registered as two live devices (`enroll.ts:245`, says `:231-235`) |
| `MCCredentialsWaits` | `DecommissionAlwaysReaches` | a device revoked first never hears of its decommissioning (`parent-devices.ts:355`) |
| | `RevokedMacIsSetUpAgain` | a revoked Mac never sends its new code (`SyncDaemon.swift:228`) |
| `MCRenewsOnTheClock` | `RenewsOnTheClock` | an enrolled credential has no `rotate_after` (`enroll.ts:316`, says `SyncDaemon.swift:280`) |
| `MCTelemetryClaims` | `NothingLost` | a line written to a segment already read is deleted with it (`Spool.swift:37`; `SpoolReader.swift:25-26` says "no interleaving") |
| | `StoredOnce` | a crash between enqueue and unlink stores events twice, under ids seeded by another `bootId` (`SpoolReader.swift:118`, says `:114-116` and `EventID.swift:47-49`) |
| | `AuditsLast` | rows are stamped by the Mac's clock and aged by trusted time, so a clock set far back evicts enforcement records unsent (`Queue.swift:118`, says ADR 0015:48-51) |
| `MCSupervisorClaims` | `HealthyNeverRolledBack` | a version that dies before its first tick is taken for its predecessor, which may be quarantined for it (`HPCSupervisor/main.swift:270`) |
| | `SleepIsNotDeath` | health is aged by trusted time, which counts sleep, and `hpc-sync`'s timer does not: after a wake a version that works looks stale twice and is rolled back (`SupervisorPolicy.swift:263`; `v-series.md:514-516` says it "never downgrades a healthy agent") |
| | `SlowIsNotDeath` | `hpc-sync` writes its health file at the end of a tick, which a slow request or download may hold up for longer than two looks: it is taken for dead and its version rolled back (`SyncDaemon.swift:293`, `:541`). That these two are the only ways is what `HealthyNeverRolledBack` says
| | `LastGoodKept` | pruning keeps the last-good version read before the installation and may delete the new one (`HPCSupervisor/main.swift:106`, says `:238`) |
| | `TargetHasSoaked` | an upgrade during a soak makes an unsoaked version last good (`:79`, says `:96`) |
| | `KnownBadStaysOff` | after a failed rollback the next upgrade makes a quarantined version last good, and the next rollback installs it (`:79`, says `DesiredReconciler.swift:104`) |
| `MCPoolExhausted` | `Answered` | as many publications as the pool has connections hold one each and wait for another one (`publish.ts:54`) |
| `MCPolicyClaims` | `CapHolds` | two clicks at once pass a cap of one (`parent-overrides.ts:87`, says `:72-74`) |
| | `DraftNeedsPublish` | a grant, or the nightly job, publishes the draft nobody published (`gather.ts:48`, against `parent-rules.ts:154-158`) |
| | `AlwaysAPolicy` | a bad current file replaces the good last-known-good one before the new file is there (`SyncDaemon.swift:425`, says `:422-424`) |
| `MCDamagedWhileRunning` | `GrantReaches` | a current file that goes bad under a running daemon is never replaced: it goes on reporting its etag and is told "unchanged" (`SyncDaemon+PolicyEtag.swift:37`, says `:22-23` of a restart) |
| `MCRulesClaims` | `WhatWasReviewed` | what is published is compiled anew, of whatever the draft is by then (`publish.ts:54`; `page.tsx:581` says "This is what the Mac will obey") |
| | `HasTheseRules` | a page loaded before another tab published shows its old windows and says that the Mac has them (`page.tsx:301`) |
| | `ReplacedWholesale` | two saves at once both insert: the second deletes only what it had seen, and the set holds the windows of both (`parent-rules.ts:188`, which says "Replace wholesale") |
| | `WarningsSurvive` | a page that reads windows before a save and warnings after it shows none, and saving it loses them (`parent-rules.ts:53`) |
| | `RefusedCanConfirm` | a publication refused because time has passed since the review leaves a review that asks for no confirmation, so there is nothing to confirm (`parent-rules.ts:428`, says `:392`) |
| | `RelaxationNeverAsks` | every save gives every window a new id, so a window that soon starts is new whatever was edited (`parent-rules.ts:347`, says `:320`) |
| | `BitesAtOnceIsAsked` | a bedtime moved to a moment just past is, for the check, a day away (`parent-rules.ts:385`, says `:317-322`) |
| `MCLateAudit` | `NothingEvaporates` | an enforcement record, or anything from the spool, that arrives when the samples of its hour are pruned has the hour read again: its sums are deleted and there is nothing to sum (`project.ts:250`, `:325`; `prune.ts:40-41` says that a device with a wrong clock "must not be able to [...] delete them early", and the sums are what is kept of the rows) |
| `MCDailyShrinks` | `DailyKeepsDay` | the roll-up starts three days ago to the minute and overwrites the day it starts in with the rest of it, so every stored day shrinks to its last hours (`project.ts:491`; `prune.ts:20` calls it "the long-term summary; deliberately never pruned") |
| `MCHealthClaims` | `RebootIsNotSleep` | a boot inside a gap is told as sleep once the Mac has been awake for longer since than before (`sync.ts:254`, says `:244`) |
| | `MachineWasOff` | a Mac that only slept reports a boot time that has moved into its silence, which is rewritten as "off" (`liveness.ts:374`, says `:380`) |
| | `NotArmedAtStart` | a Mac last seen in the window before is an unexpected silence as soon as the next one opens (`liveness.ts:186`, says `:182`) |
| `MCHistoryClaims` | `BootToldOnce` | the agent starts again with the clock set wrong, or the Mac slept before the server saw its uptime drop: the same boot is told twice, and a restart as a shutdown and a boot (`BootTime.swift:9-10`, `DeviceState.swift:133`; `history.ts` says "boots within two minutes of each other are one boot") |
| | `PagesAgreeOnBoots` | boots said out of order, as by a clock put back between two launches: a page starts from the latest boot before it (`history.ts:677`) where the whole goes on from the last one told, and shows a boot where the whole shows a restart |
| | `RemovedOnce` | of a removed Mac every page that ends while it is off says "removed" there (`history.ts:467`, says `:463`) |
| | `OffIsNotUse` | a power cut nobody saw the session end of: the span runs on into the night and counts as use (`history.ts:519`, says `:506`) |
| | `OffWhenItWas` | a restart of `hpc-sync` alone and a power cut after it: the Mac is told off from the restart on, while it was in use (`history.ts:270`, says `:267`) |

Where a passing run states a property that one of these violates, its instance leaves
out exactly the circumstance the violation needs: `Concurrent` (handlers that overlap
or die half-way), `Pool` (a connection to spare), a sleep (`ordinary_nights` has none),
`OneWordPerDay` (one exception per day), `SlowWriters` (a writer still between open and write
when its segment is read), a second writer, a clock that is behind, or a still-born version.
A wake, a tick that is held up, a swallowed error, an event that arrives after its hour was
pruned and a boot whose rows misjudge its moment do happen in the passing runs: there the
property says what still holds.

Seen while reading, and not modelled: the supervisor watches `com.hpc.enforcer` while the
job is `com.hpc.enforcerd` (`HPCSupervisor/main.swift:37`).

## 4. What is proved

`EnforcerProofs.tla`, for every set of documents, every predicate, every lead, gap,
sleep, correction and horizon, from three assumptions of `Enforcer.tla`:
`ConstantsAssumption` (constants have their types), `TimerAssumption` (a tick never
comes earlier than the re-lock throttle allows: a 60 s timer against 60 - 5 s) and
`EvaluationAssumption` (the predicate answers with a window or none, and warnings).

| Theorem | States |
|---|---|
| `Inductive` | `IInv` always holds |
| `Typed` | `TypeOK` |
| `NoUnwarnedShutdown` | `ShutdownWarned` |
| `GraceRespected` | `ShutdownAfterGrace` |
| `OneShutdown` | `OneShutdownPerEpisode` |
| `ShutdownsAreLawful` | `ShutdownLawful`, the three together |
| `Lawful` | `ActsOnlyWhenLawful` (an action property) |
| `BedtimeHeld`, `BreakerHeld` | `BedtimeHolds`, `BreakerHolds`, if trusted time is never corrected backwards |
| `Escalated` | `EscalatesInTime` |
| `WarnedOnce` | `NoWarningTwice`, if every policy announces one bedtime at a time (`OneAtATime`) |

The argument. None of the invariants is inductive: whether a shutdown was warned of
depends on `warningsDelivered`, which the ladder keeps, while the property speaks of
what a human saw. `IInv` adds `Agreement`: the ladder's memory (deliveries, the episode's
start, `shutdownIssued`, the outcome pending from the last tick) agrees with the history
of the ticks. Lemmas say what each part of `Ladder.step` does to the memory
(`FoldFacts`, `EndFacts`, `UnrestrictedFacts`, `StartFacts`, `InsideFacts`, gathered in
`StepFacts`); `NextIInv` has one step per action. `Lawful` adds that a soak lasts no
longer than it was begun for, `BedtimeHeld` that the last lock is never in the future,
`BreakerHeld` that the breaker remembers every run of the last day; the last two fail
once time may jump back, hence their hypothesis `Corrections = {}`. `Escalated` needs `Noted`:
what a human has seen in this run the ladder knows, or is about to be told by the next tick.
`WarnedOnce` needs `Remembered`: a warning put up is of the boundary the ladder remembers, or of
one that is past or before it. `OneAtATime` says that while a bedtime is being announced none is
in force and no earlier one is announced. TLC finds it true of every policy of `MCEnforcer`, and
`NoWarningTwice` false without it: where a long lead of a late window (16 to 20, lead 6) runs
across a short window (12 to 13), the end of the short one clears what was attempted, and the
late one is announced again (`Ladder.swift`'s `attempted` is kept for one boundary).

`PolicyProofs.tla`, for any number of Macs, concurrent requests, connections, rule sets,
grants, crashes and power losses, from `PolicyAssumption` of `Policy.tla` (there is a
connection; `None` and `Bad` are no versions and no ids):

| Theorem | States |
|---|---|
| `TypesAreRight` | `TypeOK`, which also says that every version number anybody holds is one the device has |
| `NothingIsForgotten` | `NewestIsCurrent` |
| `AppliedIsTrue` | `AppliedMeansApplied` |

The argument. A device is owed a publication while it is in some request's `todo`, which
it leaves when the grants are gathered; from the lock to the commit only one request is at
a device (`Held`). So whoever gathers last sees every change that was written and writes
last: a request about to write holds the live grants unless somebody is still owed
(`Accurate`), and so does the newest version unless somebody is owed or writing
(`CaughtUp`). For "applied": from the version a grant's answer named on, every version has
the grant (`OwnGathered`, `Since`), and the version a daemon remembers is the one in its
current file (`MacInSync`), which `Recall` establishes after a power loss. `Inductive` has one
step per part of the invariant, and under it one per kind of step.

`RulesProofs.tla`, for any number of tabs and Macs, any rules and limits, any habits of the
parents, from `RulesAssumption` of `Rules.tla` (constants have their types, `None` is no
Mac and no tab):

| Theorem | States |
|---|---|
| `RulesInvariant` | `IInv` always holds |
| `RulesTypesAreRight` | `TypeOK` |
| `RulesNeverGoBack` | `NeverGoesBack` |
| `AskedFirst` | `UnaskedOnlyInARace` (an action property) |

The argument. Whoever is about to insert a version holds the device's row (`Holder`), and
compiled no earlier than the newest version was (`Order`). That alone leaves a document of
the *same* write; two compilations after one write say the same (`SameWrite`), and
`publishPolicy` inserts nothing that says the same, so what is inserted is of a later write.
Neither the review nor the check before the lock is needed for it.

`AskedFirst` is about what may happen between the check and the insertion, when other tabs
save, restore and publish and the nightly job runs. A save gives every window a new row, and a
row that is gone never returns (`ReadAll`: what a save has not read was written later than all it
has). So the tables either still say what was checked, or never will again (`Seen`,
`Overtaken`); a version compiled in between has every row that the newest one shares with the
tables (`Follows`), so it is tightened by no more than that one was (`NoTighter`); and what was
checked tightens no version that may still come before it (`Judged`).

`HealthProofs.tla`, for any thresholds, windows of expected use, number of check-ins handled
at once, restarts and length of time, from `HealthAssumption` of `Health.tla` (thresholds are
numbers, and in the order the code has them):

| Theorem | States |
|---|---|
| `HealthInvariant` | `IInv` always holds |
| `OneStoryAlways` | `OneStory` |
| `NoticedAlways` | `NoticedInTime` |
| `ToldTrulyAlways` | `ToldTruly`: `TypeOK`, `ToldIsSilent`, `ToldAsItWas`, `OffIsOff` |

The argument. `OneStory` says nothing of a sweep that is under way; `Phase` does: once the
open interval is closed nothing is open, then one interval is, of the state judged and of
this moment, then the device row agrees with it. No time passes inside a sweep, so the
interval it opens lies behind every other (`Apart`). A check-in may change what was judged
in between, but never the row's state, and a device it made known stays known (`Enrolled`),
so a transition never ends in a state without an interval. After a restart inside a
transition the row and the intervals may disagree until the next one (`cut`): that it closes
everything that is open, and not the newest only, is what makes the story one again.

`NoticedAlways` needs `Noticed`: while the API was never down every moment has its sweep, and
what the last sweep found red is in the open interval and told, what it found amber is there
since `Armed` at the latest and told once it has lasted an hour. Judging the next moment keeps
that, as a stop excuses only a silence the agent has not come back from by then.

`ToldTrulyAlways` needs `Truth`, in four parts. What the Mac reports is its life: its uptime is
the time it was on since its last boot (`Lived`), and the device row has the uptime of the last
check-in (`Seen`), as has every check-in being handled of this unit (`Reporting`). From two
uptimes and the moments between, `recordGap` finds exactly how long the Mac slept if no boot lies
between (`UpBetween`), and `recordPowerOn` finds a boot if the second is the smaller; a row that
is booked stays true, since the Mac's past only grows (`Booked`). A handler books before it
stores that it heard, so a crash between the two books again: once more only after such a cut or
an overlap, hence the last line of `ToldAsItWas`. A told interval had none of the check-ins that
would have ended it, as the sweep that told it judged a row that was never older than what was
synced (`Hushed`). And while the Mac has never slept the boot time that a check-in reports is
its last boot, so that what the sweep rewrote as off had a boot in it, and every silence the last
boot lies in is rewritten by the first sweep after a check-in has told of it (`Owned`). Proving
it corrected the property twice: two marks of different lengths are told apart by when they were
made (the history variable `marked`), and a gap is told as "unreported" also after a sleep
shorter than `AsleepMin`, which no instance with `AsleepMin = 1` shows.

`CredentialsProofs.tla`, for any Macs, devices, codes, keys, calls in flight, lost answers,
restarts of the daemons, lifetimes of codes and overlaps, from `CredentialsAssumption` and
`NoneAssumption` of `Credentials.tla` (codes and keys are numbered in the order they are
made, `None` is no row). All but two of the theorems have one hypothesis, `~Concurrent`: no
handler begins while another is between two of its statements, and none outlives its call.
Without it `KeysAndCodes` and `RevokedIsDead` are false, see `MCCredentialsClaims` above.
`ImplementsBinding` fails for one reason only, a late code: `LateCode` is the step that issues
a code for a device which a Mac has enrolled as since the parent's click found it pending
(`parent-setup.ts:201`). `BindingBarLateCodes` says so of all interleavings, given-up calls and
handlers that die half-way, and the other two follow from it, or from its invariant, as their
hypotheses leave no room for a late code:

| Theorem | States |
|---|---|
| `CredentialsInvariant` | `IInv` always holds, if `~Concurrent` |
| `KeysAndCodesAlways` | `KeysAndCodes`, if `~Concurrent` |
| `OverlapIsHonoured` | `OverlapHonoured`, if `~Concurrent` |
| `RevokedIsDeadAlways` | `RevokedIsDead`, if `~Concurrent` |
| `BindingBarLateCodes` | every run without a `LateCode` is a run of `Binding`, overlapping handlers or not |
| `BindingOfOneCode` | `ImplementsBinding`, with one code (as in `enrolment_race`), overlapping handlers or not |
| `BindingImplemented` | `ImplementsBinding`, with any codes, if `~Concurrent` |

The argument, first without overlap. Keys are numbered, so "a key the device had by then" is a
comparison with the number minted by then (`upto`); a key belongs to one device for ever, and a
device to the first Mac that enrolled as it, which nothing takes back (`Grows`). A Mac
therefore only ever holds, or is about to be told, keys of a device of its own (`Given`), which
survives every step, so a late or repeated answer does no harm. Every key that is on is on its
device's row, over, or in a rotation's hand (`Placed`), so a revocation, which turns off the
row's keys, leaves none; a rotation in progress excludes the revocation, as handlers do not
overlap (`Alone`), and what a handler has read is still so when it writes (`Handling`). An
unspent code belongs to a pending device and is its only one (`Invites`), so a code that enrols
binds a device nobody had, and one that is retried goes back to the Mac that spent it.
`StepIInv` cites one lemma per action; `HandlerFrame`, `AgentFrame` and `ParentFrame` say once
what a step of the server, of a daemon and of a parent leaves alone.

With overlap little of what a handler has read is still so when it writes, and that little is
enough (`OInv`): a key belongs to the device it was minted for (`Of`) and the device to its Mac
(`Own`), so a rotation that commits late, even over another one, puts only keys of that device
on its row; a code that is claimed is one handler's until it commits (`Single`), and neither a
re-issue nor an ending forgets it, as the claim holds its row. Without late codes a device has
one code, and is of the Mac that spent it or nobody's (`OwnCode`): an enrolment that commits
therefore finds no other Mac there, and a re-issue finds its own. A call that nobody waits for
any more is still being worked on, so only those waited for fit their daemon (`OwnCall`).
`StepOInv` and `StepBinds` cite one lemma per action, `ServerFrame` and `DaemonFrame` say what
a step of either side leaves alone.

`SupervisorProofs.tla`, for any versions, thresholds, sleeps, faults and length of time, from
`SupervisorAssumption` of `Supervisor.tla`; for the last theorem also
`CodesThresholds`: no version is still-born, at least two crashes are asked for, what `hpc-sync`
waits between two ticks, with a tick of the usual length (`SyncGap`), is less than a cooldown and
than the looks that make it stale, and the crash window with all corrections of the clock is less
than a cooldown. It bounds no tick: how long one may take is the property's exception.

| Theorem | States |
|---|---|
| `TypesHold` | `TypeOK` |
| `KicksApartAlways` | `KicksApart` (an action property) |
| `HealthyKept` | `HealthyNeverRolledBack` (an action property), under `CodesThresholds`: a rollback is of a flawed version, or just after a wake, or while `hpc-sync` is held up in a tick and alone looks dead |

The code's thresholds, in units of its 60 s tick, meet `CodesThresholds`: stale after 5, a crash
window of 5, three crashes, a cooldown of 10, two looks, a wait of 6 at most; for clocks that
are set back by less than 300 s in all. With `StillBorn` the theorem is false
(`MCSupervisorClaims`).
The argument. `KicksApart` needs only `Calm`: the supervisor remembers no choice longer ago than
it is, unless it started since, and a start forbids choices for a cooldown. For `HealthyKept`: who
looks stale or seems to crash on a version that works does so since a restart of the daemons, a
start of the supervisor or a wake (`Recent`); else its file is no older than the waking time since
its last tick (`Fresh`), so that, not held up, it is stale for fewer looks in a row than are asked
for, and `enforcerd`, whose tick is short, never is (`Counted`); and every crash
remembered but one lies so soon after a restart that the cooldown outlasts the crash window
(`Lone`). Trying to prove it showed that
the ages of remembered things fall below zero by as much as *all* corrections together, not by
one: `TypeOK` said the latter.

`ProjectionProofs.tla`, for any recording, batch size, scan limit, retentions, restarts and
length of time, and whatever the age of what arrives, from `ProjectionAssumption` of
`Projection.tla`. Of the retentions that asks one thing, that the projector is not behind for as
long as raw rows are kept (`Lag < SampleKept`, `Lag < AuditKept`: a pass every five minutes
against 90 and 400 days); `assertRetentionInvariant` (`config.ts:103`) is not needed, as what it
bounds, the age of a queued sample, bounds neither audit rows nor the spool:

| Theorem | States |
|---|---|
| `TypesHold` | `TypeOK` |
| `SeenCounted` | `SeenIsCounted`: what the watermark has passed is counted, unless it committed behind a scan, a pass died in its hour, or, for a sum, it is `Outlived` |
| `SessionKept` | `SessionAsItWas`: of `Undisturbed` transitions every one has its span, of `Remembered` ones every unlock is listed |

The argument. A scan ends at a stamp below which it left nothing out, as a batch, all of one
stamp, fits into it (`Grouped`). A pass that re-reads an hour finds all its events still there
but the outlived ones (`Complete`): what makes it read the hour is an event not yet seen or a
trailing one, and an event pruned by then is older than it by what makes it outlived (`Stored`,
`Caught`). So what lies between the watermark and the pass's stamp is counted or its hour is
still to come (`Covered`), and of an hour that a dead pass left empty some event is still to be
seen, or the nightly pass is to come (`Mended`). For the session, what is true at rest is true
of what the pass has done so far (`Drawing`): a transition that was stamped before the scan
ended is in the pass's rows (`InRows`) and has its span, or its hour is still to come
(`DrawnUp`); a span misses only transitions the forward pass has still to come to (`Waits`),
although the end of the hour was read before the old spans were deleted (`ReadAhead`); while
transitions arrive in order, nothing lies unseen between two that a pass holds (`InOrder`), so
that the one it takes for the one before is it (`BeforeIs`), and the last one before an hour is
stored when the hour is read if it is not outlived. `Drawing` was checked by TLC on four sets
of constants before it was proved, which is how two things came to light: the deletion and the
insertion of spans must be two steps, as they are two statements, and an unlock is found only
if the state before it is `Remembered`. A largest and a smallest element of a finite set are
taken by the well-foundedness of `<` on the naturals, not by induction.

`TelemetryProofs.tla`, for any caps, ages, batch sizes, failed steps, lost answers, restarts and
clocks, from `TelemetryAssumption` of `Telemetry.tla`:

| Theorem | States |
|---|---|
| `TypesHold` | `Shape`, the types, which need no hypothesis |
| `Settled` | `EvictionSettles`, a part of `EvictsRightly`, which needs none either |
| `RightlyEvicted` | `EvictsRightly` (an action property), if the Mac's clock is not behind trusted time |
| `NothingElseIsLost` | `Kept`, with one writer that no read overtakes (`OneWriter`): nothing is lost but what an error that is swallowed has cost (`dropped`) |

Each hypothesis excludes a circumstance in which the property is false: a clock behind and a
slow writer are in `MCTelemetryClaims`; a second writer (the deadfall) is a hazard at
`Spool.swift:37`. The argument. A line is written to a file that is still there and makes it
longer, or dropped (`InHand`); a segment is unlinked only when its events are queued or dropped
(`Course`); rowids are given out once (`Shape`) and so are ids, since a file holds a number
once (`Spooled`, `Unique`); what is acknowledged is stored or refused (`Course`). So an event
that was known stays known (`KnownGrows`). An eviction by count leaves its target or fewer,
with room for the receipt (`Roomy`), and with an honest clock no row is younger than it says
(`Honest`).

Model-checked only: the predicate, the compiler, the server's second predicate and history
(their properties quantify over calendars, or over what folds and sequences say);
`WarnedForThisBoundary` (it is about a concrete predicate, and false of some);
the keys of credentials with overlapping handlers, and telemetry with slow or second
writers, where the properties are false; and liveness
(`DecommissionReaches`, `Drains`, `FlawedReplaced`, `Settles`, `GrantReaches`, `CatchesUp`),
which this prover cannot do (fairness, ENABLED).

## 5. Not modelled

* Accounts, sign-in and the claim of a fresh installation by its first account
  (`bootstrap.ts`, `signup-gate.ts`): they rest on a library's tables and transactions, which
  are not in the repository.
* Zone rules and DST: days have equal length, an hour of the night is the same each day.
* The vote of the trusted clock's witnesses: arithmetic over three clocks; the enforcer's
  module has its effect, a correction. The deadfall's schedule: a rendering of entries for
  launchd; its run reads one file's age once.
* The byte cap and single spool lines that do not parse; 413 and malformed-batch answers to
  `/events`; the signature of a policy (a file is good or not); scopes and rate limits;
  row-lock deadlocks, which Postgres breaks; the system calls behind lock, warn and shut down.
* Tripwires and the soak report of a heartbeat (they compare fields of one request with one
  row and store the outcome), the suggested poll interval, cadence and back-off: no property
  here depends on when, only on whether, the Mac asks again.
* Clock errors and sleeps of less than two minutes, which history ignores; the rows it only
  words (`asleep`, `timezone_changed`, `network_time_off`), launches of agents older than
  0.2.0; the reports' sums, today's page and the grants' progress, which are read-only queries
  over tables modelled elsewhere; the rest of the web application, which renders what the
  parent API answers and keeps no state the server does not hold.

`PROJECT.json` gives each component's status.

## 6. What would come next

1. A register per device that the Mac reads, possibly late, as the abstract specification of
   `Policy`.
2. `Deadfall` composed with `Enforcer` and `Supervisor`: somebody locks within a bounded time
   whatever dies.
3. The trusted clock's vote as pure operators checked against a reference, with its result
   refining `CorrectClock` of `Enforcer`.
