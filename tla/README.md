# A TLA+ model of browser-fetch

`browser-fetch` is a gateway in front of one long-lived Chrome: clients ask it for rendered
pages (`/fetch`), drive interactive sessions (`/session/*`), and record and replay macros
(`/macro/*`) that a human approves on a separate admin listener. This directory holds TLA+
modules translated from its Go source, the configurations that model-check them with TLC, and
theorems about them whose proofs TLAPS checks. Paths below are relative to the repository.

## 1. Inventory

| component | state it keeps | operations | talks to |
|---|---|---|---|
| Scheduler (`internal/scheduler/scheduler.go`) | map of hosts (token, last navigation), calls in flight by key, global slot channel, counters | `Do`, `hostState`/`pruneLocked`, `mark`, `Snapshot` | called by `handleFetch`; runs `Manager.Fetch` |
| Tab pool (`internal/browser/pool.go`) | idle tabs, created/busy/retired counters, page list, wake-up channel | `acquire`, `release`, `retire`, `park`, `newPage`, `closeAll` | Chrome; `Manager.Fetch`, sessions |
| Browser manager (`internal/browser/browser.go`, `settle.go`, `session_tab.go`, `screenshot.go`) | current pool and websocket URL, connection state, assists, capture slots | `currentPool`, `Probe`, `Fetch`, `Acquire`, settle loop, capture | Chrome, pool |
| Sessions (`internal/session/session.go`, `download.go`) | open sessions; per session tab, `lastUsed`, `assertedAt`, `hold`, `closing`, evidence log | `Open`, `Run`, `Close`, `Reap`, `SetHold`, typing gate | pool, macro replay, HTTP handlers |
| Macro store (`internal/macro/macro.go`, `editable.go`) | macro files, orphan files, agent-editable sites | `Put`, `Update`, `Approve`, `Revoke`, `Delete`, orphan operations, `AgentPut`, `AgentUpdate`, `Enable`, `Disable` | agent handlers, admin band |
| Macro recording and resume (`internal/server/macro.go`, `internal/macro/recorder.go`) | live recordings by macro id, resume channels by macro id | record start/stop, `WaitResume`, resume | sessions, store |
| Macro replay (`internal/macro/replay.go`) | position in the step list | `Run`, `runStep`, `runPause`, `runType`, ... | sessions, secrets, resume |
| Admin band (`internal/server/admin.go`) | replay ring (25), audit ring (50) | approve, revoke, edit, delete, orphans, sites | macro store |
| Fetch requests (`internal/server/fetch.go`) | none of its own | `handleFetch`, `classify`, `finishFetch` | scheduler, captures, request ring |
| HTTP surface (`internal/server/server.go`, `session.go`) | none of its own | routing by token class, `decodeAction`, the reaper's ticker | everything above |
| Screenshots (`internal/screenshot/*.go`, `internal/server/screenshot.go`) | frozen captures by id and owner, bytes held | `Add`, `Get`, `reapLocked`, `Split` | `/fetch`, `/fetch/screenshot`, the sessions' reaper |
| History (`internal/history/history.go`, `internal/server/history.go`) | two query slots, private copies of the database | `Query`, `copySnapshot`, `copyBounded`, `readSnapshot` | Chrome's SQLite files |
| Request ring (`internal/reqlog/reqlog.go`) | ring of the last entries | `Add`, `Recent` | `/fetch`, `/debug` |
| Configuration, URL guard, challenge detection, secrets, metrics, logging, CDP proxy | none that changes | pure functions or I/O | - |

What is hard here, and which part must be correct against it:

* **Scheduler**: three waits in a row (host token, cooldown, global slot), each racing with the
  caller's context, with releases deferred in reverse order; coalescing with a leader that can
  fail; a host map that is pruned while in use. Correct: at most one navigation per host, the
  cap, the gap, no leak, single flight, everybody returns.
* **Tab pool**: capacity is reserved before Chrome creates a tab and comes back along five
  paths; a send under the mutex; wake-ups by closing a channel; tabs and the allocator die at
  any time. Correct: exact accounting, no shared tab, no lost wake-up, the send never blocks,
  no page left in an idle tab.
* **Manager**: the pool is replaced when Chrome restarts while calls ask for it, wait in it and
  hold its tabs; a screenshot changes its tab and takes a slot and has a dozen ways to return.
  Correct: generations only advance, each gets its leases back, no tab outlives its allocator or
  keeps the metrics of a screenshot, no slot and no assist is left behind.
* **Sessions**: the limit is checked and the session inserted in two critical sections; the
  reaper and `Close` race with actions in flight; typing is gated by an assertion that ages.
* **Macro store**: what an approval certifies must be what is replayed; the agent's checks and
  writes are not one critical section; files and memory can disagree after a failed write.
* **Recording and resume**: check-then-insert on maps keyed by macro id, channels closed outside
  the lock.
* **Fetch requests**: requests of several credential classes share one navigation; what one caller
  is told comes from an error of another; captures expire while they are stored and read. Correct:
  who can read which capture and for how long, exact byte accounting, an answer that is about the
  caller's own request.
* **History**: a database and its sidecars are copied one after the other while SQLite writes,
  makes and removes them. Correct: a copy that is let through is a state the files were in, within
  its limit, and nothing stays behind.
* **Request ring**: it wraps, and requests end in another order than they began.

`PROJECT.json` lists these hazards at their lines.

## 2. Plan

All of it is done, in this order; the proofs are described in section 6.

1. `PacedHosts`, `Scheduler`: the order and rate of navigations, which every fetch depends on.
2. `TabPool`: what every fetch and session leases.
3. `Manager`: the generations of the pool, the attempts of a fetch, assists and capture slots.
4. `Sessions`: the life of a session on a leased tab, its evidence log and typing gate.
5. `EditableSites`, `MacroStore`: what an approval means.
6. `Recordings`, `Replays`: the two callers of sessions that outlive a request.
7. `HistoryCopy`: the copy of a database that Chrome is writing.
8. `Flights`: what `Do` promises about results, which `Scheduler` implements.
9. `FetchGate`: `handleFetch` with the capture store and the request ring, composed with the
   promise of 8 instead of with the whole scheduler.

10. `TabLeases`: what the pools promise, which `TabPool`, the generations of `Manager` and the
    sessions of `Sessions` keep.

Worth doing next: the sessions of `Recordings` and `Replays` as sessions of `Sessions`, by an
abstract promise of sessions in the manner of `TabLeases`.

## 3. Modules

Conventions. A call of an operation is an element of a constant set, and the objects it makes
(calls, hostStates, tabs, sessions, recordings, channels) are named after it, so that two objects
under one key are two names. A program counter per call says where its goroutine is; a critical
section is one step, a `select` one action per branch, a deferred function an action of its own.
Clocks are ages that stop growing where no comparison of the code can tell them apart. Variables
marked "history" are read by properties only. An operator named `X_y` after a definition `X` is a
mutant: a plausible mistake in `X`, used to show that a property can fail, and no part of the
specification. `MC*` modules give the constants values for TLC.

### PacedHosts
The abstract promise of the scheduler's package comment: at most `Cap` hosts are active, a host
is active once, and between the end of one navigation and the start of the next of the same
host at least `Gap` units pass.

### Flights
The other promise of `Do`, about results: the calls of one key share one flight at a time, a flight
ends with one outcome, and a caller gets that outcome or the error of its own context. It has no
hosts, no slots and no clock, so that what is built on `Do` can be checked against it.

### Scheduler (`internal/scheduler/scheduler.go`)
One element of `Reqs` is one call of `Do`; `pc` is its position, from step 1 (coalesce) to the
deferred releases. Two hostStates of one host are two names, which is what makes pruning
interesting. The branch of a select that loses to the context is `WaitCanceled`. `Tick` is the
clock; the ages stop at `IdleCap` and `UnusedCap`. A hostState that was never navigated (zero
`lastAt`) has the greatest age, for which `hostWait` returns 0 as well. `Scheduler` is shown to
implement `PacedHosts` (`PacedSpec`) and `Flights` (`FlightsSpec`; `Promise` maps a call's
position to its phase there).

### TabLeases
The promise of the pools to fetches and sessions: a tab is idle in its pool or with one caller, a
pool has at most `Size` tabs, a new one is made only while there is room, and a tab that is given
back goes to the pool it came from or is gone. Waiting, wake-ups, Chrome and errors are not in it.
`TabPool`, `Manager` and `Sessions` each say `Lending == INSTANCE TabLeases WITH ...` and
`LendingSpec`: `TabPool` is one pool whose idle tabs are what is in the channel `free`; in `Manager`
each generation is a pool, so that a lease of an old generation cannot come back to a new one; in
`Sessions` a session holds its tab from the lease in `Open` until the tab is idle again or retired.
So the reduced pools of `Manager` and `Sessions` and the detailed one keep the same promise.

### TabPool (`internal/browser/pool.go`)
One element of `Users` is one `acquire` followed by one `release`; a tab is named after the user
that created it. Chrome's part is external: creations, parks and tabs fail (`NewPageFails`,
`ParkFails`, `TabDies`), and the allocator ends (`AllocEnds`). The channel `changed` is the set of
users that wait on a channel nobody has closed yet.

### Manager (`internal/browser/browser.go`, `settle.go`, `session_tab.go`, `screenshot.go`)
One element of `Shots`, `Pages` or `Leases` is one call: `Fetch` with or without a screenshot, or
`Acquire` with the release it returns. `chrome` is the websocket identity of the Chrome that runs;
`Restart` gives it the next. A generation of the pool is named after the identity it is attached
to, generation 0 being the pool of `New`, and `stopped` says whose allocator is gone, its tabs with
it. poolMu is held from `LockPool` to `Attach` or `DiscoverFails`; `seen` is the answer in between.
`release` is one step with the outcomes `TabPool` shows it has; `acquire` is one too, except that
the creation of a tab is a wait of its own (`ReserveTab`, then `NewPage` or `NewPageFails`), because
`newPage` asks Chrome three things under the allocator's context and looks at no other; `Works` is
Chrome's part, and every command may fail whether or not the tab is at fault. `Judge` is
`isFatalTabErr`, which reads the text of an error and may call any error fatal. A tab is a pair of
its generation and of its page id, which starts again at 1 with each generation, because `assists`
is keyed by the id alone. What settle reads of a page is reduced to its three outcomes.

### Sessions (`internal/session/session.go`)
One element of `Opens` is one call of `Open` and the session it makes; `stage` follows it from
there to the return of its tab. One element of `Acts` is one call of `Run`. The reaper keeps `m.mu`
while it looks at one session after the other (`ReadHold`, `ReadLastUsed`), which excludes `Open`,
`Get` and `Close` (`ManagerUnlocked`) but not `Run`. The pool is reduced to what `TabPool` shows
of it: idle tabs that nobody else has. A page is blank or a site; `Drive` is the person at the
browser, or the page itself, who takes the tab of a live session to another page at any time. The
history variable `returned` lists the calls of a session in the order they came back, whole, so that
`EvidenceIsComplete` can say which of them the trimmed log keeps: the newest, in that order.

### EditableSites, MacroStore (`internal/macro/editable.go`, `macro.go`)
`EditableSites` is the registry of sites whose drafts the agent may edit, in memory and on disk.
`MacroStore` EXTENDS it with the macro files and the parked drafts. A call is a stopped recording
or a request of the agent, with a step for the unlocked looks and one for the critical section;
the operator's actions are one critical section each, except `PromoteOrphan`, which has two files
to change. Every write can fail and `Restart` can come between any two steps. A step list is a
sequence of the kinds that `validate` tells apart.

### Recordings (`internal/server/macro.go`, `internal/macro/recorder.go`)
record/start is `CheckId`, `Lease`, `Installed` or `InstallFails`, and `Insert`; `Capture` is a
call of the page's binding, heard by every listener ever put on that tab; `AddEvent` is one turn of
the drain; record/stop is `TakeRecording`, `Draft`, `Store`, `Release` and `CloseSession`. `Reap`
takes any open session that is not held: idle time is left out, so a session may always be idle
for too long.

### Replays (`internal/server/macro.go`, `internal/macro/replay.go`)
macro/replay is `Read`, `CheckGrant`, `OpenSession` and a `RunAct`, `ActFails` or `Pause` per step;
a pause ends by `Signaled` or `TimesOut`, and a signaled one passes `ResumeAssert`, which looks at
the session only if the pause is "guarded" by a `resume_assert`; `End` is the deferred close.
macro/resume is `FindWaiter` and `CloseChannel`, because the channel is closed outside of the lock. `Edit`, `Approve` and
`Grant` stand for all that `MacroStore` lets happen to a macro meanwhile. A channel is named
`<<replay, step>>`.

### HistoryCopy (`internal/history/history.go`, `internal/server/history.go`)
One element of `Calls` is one request to the history endpoints: a slot or 429, the checks, up to
`MaxTries` attempts. An attempt opens, copies and closes one file after the other (`Open`,
`ReadBlock`, `EndOfFile`), then looks at each of them again (`Verify`), then reads the copy
(`Rows`); `Fails` is any error on the way. Names lead to inodes, an inode has blocks and a stamp:
what `os.SameFile`, the size and the modification time let the code compare. Chrome and SQLite are
external: `WriteBlock`, `Create` and `Remove` are what they may do to the profile, with the rule
that a database never has a write-ahead log and a rollback journal at once. Without that rule TLC
finds `CopyExisted` violated (one sidecar is removed and the other made between the looks at
them), so the copy relies on it. Three simplifications: `Lstat`, `Open` and `Stat` of a
file are one step (the code compares the two and fails if another inode is met); every
write changes the stamp, so a write that changes neither size nor time, on a file system with
coarse times, is out of the model; and a kill of the gateway, which leaves the private directory
behind, is too.

### FetchGate (`internal/server/fetch.go`, `internal/screenshot/store.go`, `internal/reqlog/reqlog.go`)
One element of `Reqs` is one request: the work it asks for, whether it is well-formed and allowed,
whether it wants pictures, and the class of its token. `Unauthorized`, `TurnDown`, `Call`,
`Wait`, `Fail`, `Succeed`, `AddCapture`, `RefuseCapture` and `FinishFetch` are the handler from the route to
the ring entry. `Do == INSTANCE Flights` is composed by conjunction: `Call` and `Wait` are steps of
`Flights`, and the rest of the module reads its `out`. `KeyOf` is the dedupe key, `Classify` is
`classify`: of the context errors the model keeps apart a client that left ("canceled"), a deadline
of a caller ("expired"), a deadline of the navigation itself ("late": `NavTimeout`, browser.go:284,
or that of the probe, the read or the capture) and a worker that died under it ("lost"), although
"canceled" and "lost" are one Go error and so are "expired" and "late". A capture is named after
the request that stored it. The steps of the store reap first, as the code does (`Live`, `LiveBytes`); expired captures stay in the map until somebody
reaps. The ring has its buffer, its next slot and its count; the history variable `log` is
what `FinishFetch` recorded, which `RecentIsTheLast` compares with the requests that were answered.

## 4. Runs

| run | what it shows | bounds, and why they are enough |
|---|---|---|
| `SchedPacing` | `HostExclusion`, `NothingLeaks`, `StatsAddUp`, the refinements of `PacedHosts` and of `Flights`, `EveryCallReturns` | 3 requests for two pages of one host (one page twice, so that coalescing happens), 2 slots, a gap of 1: a follower, a queue of two at the token; contexts may end at any time. A jitter of 1 adds nothing to a wait, one host never contends for the slots, and the host map does not reach its bound: cooldowns of several lengths (a jitter of 2, twice the time, passes too), contended slots and any host map are in the proofs, the bound in `SchedPrune` |
| `SchedPrune` | violated: `HostExclusion` | one host the map knows, two requests for a new one, bound 1 |
| `FetchGate` | `ReadableExactly`, `StoreAccounts`, `ToldWhatHappened`, `RecentIsTheLast`, `FullOnlyOfTheLiving` | 3 requests: a picture of a page, then one of the same page for the same or for another class or of a page twice as large, then one of the latter two, text, or a request that is turned away; 2 captures, 3 units of room and captures that live one tick, so that either limit is met while captures expire; a ring of 2, so that it wraps; contexts are cancelled or expire, navigations are late by their own deadline, workers die |
| `TabPool` | `Accounting`, `NoLostWakeup`, `FreeTabsAreBlank`, the refinement of `TabLeases`, `EveryUserFinishes` | 3 users of 1 tab: one holds it, two wait for the capacity it gives back along any of its paths |
| `Manager` | `OnlyAttachedTabsLive`, `GenerationsAccount`, `IdleTabsAreReset`, `NoStaleAssist`, `GenerationsAdvance`, `EveryCallReturns` | 2 screenshots and a session, 1 capture slot, 1 tab per generation, 1 retry, 2 Chromes: a slot, the lock and a tab are all contended, and a restart can come between any two steps. A fetch without a screenshot is a screenshot with fewer steps; adding one (`MCPages == {p1}`) gives 6.8 million states in which the safety properties hold too, too many for the liveness property |
| `Sessions` | `OneSessionPerTab`, `EvidenceIsComplete`, `TypingIsGated`, `TabsComeBack` | 2 opens for 1 tab and a limit of 1, so that they pass the limit together and the pool decides; one session may be held and let go at will; pairs of overlapping actions of the kinds click, exact and landmark assertion, password; a log of 1 record of 2, so that it is trimmed; an assertion lives 2 ticks |
| `SessionBlank` | violated: `FreeTabsAreBlank` | 1 session, 1 click |
| `MacroStore` | `ApprovedIsValid`, `RevocationLasts`, `ApprovalCertifies`, `ApprovalIsNotReplaced`, `ParkedIsKept` | 1 macro of 1 site, 2 calls at once, lists of up to 2 steps: macros do not interact except through the registry and the one mutex, and two calls are what it takes for a check and a write to be torn apart |
| `MacroFrozen` | violated: `FrozenToAgent` | the same |
| `Recordings` | `DraftIsWhatWasDone`, `StoppedOnce`, `StopReleases` | 2 starts (two ids in one session, or one id in two), 2 stops, channels of 1, 3 events: one event can be queued when another is dropped and a third is recorded; two navigations and a blank page fit |
| `Replays` | `RunsWhatWasApproved`, `ResumedByHuman`, `LeasedIsClosed` | 2 replays of one macro, in a session of its own and in a client's, 2 resumes, three lists: a pause with a `resume_assert` first, a pause without one last, and one that is only valid as a draft |
| `HistoryCopy` | `CopyExisted`, `SpaceIsBounded`, `EveryCallAnswered` | a query and a list of the sources for 1 slot, 3 files over 2 inodes, a database alone or with a log, 2 writes, 2 tries, room for 4 blocks: a name can come back with another inode or with the same one, a file can grow past the limit under the copy, and two attempts can be spoilt. Two copiers at once, which the 2 slots of the code allow, are in the proof of `SpaceIsBounded`, for any number of slots |

Every module has a type invariant `TypeOK`, except the abstract ones and `FetchGate`, whose type
invariant `GateTypeOK` stands with its proofs. The type invariants are proved (section 6) rather
than listed in the runs, and so are `SingleFlight`, `SlotsMatch`, `ReturnNeverBlocks`,
`NoSharedTab` and `GivenSurvives`, which other properties rest on.

Deadlock is not checked where all calls may have ended and nothing else can happen (`TabPool`,
`Manager`, `Recordings`, `Replays`, `HistoryCopy`); in the other modules the clock or the
operator can always take a step. Symmetry is used for calls that differ in nothing, and only in
runs without a liveness property: resumes and stops are such calls.

What the three violated runs show:

* `SchedPrune`. `hostState` prunes (scheduler.go:185) before it marks the entry it has just made as
  used (187). With more hosts than the bound, the entry itself is pruned, the next request for that
  host makes another one with a token of its own, and both navigate. With at most 1024 hosts this
  cannot happen (section 6).
* `SessionBlank`. `close` parks the tab and gives it back while actions on it are in flight; one of
  them navigates the parked tab, and the pool leases it out with that page.
* `MacroFrozen`. `AgentUpdate` looks at the stamp without the lock and writes under it; an approval
  in between is undone by the agent.

## 5. Fairness

Five runs check liveness; all others use specifications without fairness.

* `Scheduler!FairSpec` (`EveryCallReturns`): the clock advances, and a call of `Do` that can take a
  step takes one, except that `fn` need not return: the property is that every call returns, or
  waits while somebody's `fn` runs. As each call runs `fn` once, all calls return if all
  navigations do. No context is obliged to end and nobody is obliged to call.
* `TabPool!FairSpec` (`EveryUserFinishes`): the same for the steps of one acquire and release.
  A lease need not be given back, since a held session is not reaped, and Chrome need not answer
  `newPage`, which has no timeout (pool.go:206, 223, 235); it fails when the allocator ends. The
  property is that every acquire ends or somebody is in one of these two waits: the pool itself
  keeps nobody waiting. Parking has a timeout (pool.go:163).
* `Manager!FairSpec` (`EveryCallReturns`): the same for the steps of one fetch or lease; the
  discovery, navigations, captures and the reset of the metrics have timeouts (browser.go:154, 284,
  293, screenshot.go:35), `newPage` has none and a session may be held. The context of a fetch ends
  (fetch.go:82 gives it a deadline), that of a session's request need not (session.go:38 of
  `internal/server`). A fetch then returns or is itself in `newPage` of the attached generation; a
  session is opened and given back, or somebody is in one of the two waits. Nobody is obliged to
  restart Chrome or to close the manager.
* `Sessions!FairSpec` (`TabsComeBack`): the clock, the reaper's ticker
  (`sessionsReaper` of `internal/server/server.go`), the goroutines of `close` and of `Run`, whose
  action context is bounded. Open waits for a mutex that the reaper takes again and again; Go's
  `sync.Mutex` hands itself to a waiter that has starved, hence strong fairness there and nowhere
  else. Clients owe nothing: they may forget a session.
* `HistoryCopy!FairSpec` (`EveryCallAnswered`): a request that was let in goes on, because no
  operation on a local file blocks for ever. Its context does not have to end, its client does not
  have to wait, and Chrome may spoil every copy: it is the third try that ends the call.

## 6. Proofs

TLAPS proves the following for every value of the constants, from the named assumptions of the
modules, which only say what kinds of values the constants are.

| module | theorems | argument |
|---|---|---|
| `SchedulerProofs` | `SchedulerTyped`, `NothingLeaksHolds`, `SingleFlightHolds`, `StatsAddUpHolds`, `SchedulerKeepsItsPromise`; under `HostsFit`, `HostExclusionHolds` and `SchedulerPaces` | the channels are tied to the deferred releases of the calls; a counter of a host is the number of calls at the positions it counts, and a step moves one call between two positions (`Sums`); what a call has returned is its leader's outcome or its context's error (`OutInv`), so every step is one of `Flights` or a stutter; under `HostsFit` every hostState that a call has looked up is the map's entry for its host (pruning breaks this), and a host has rested at least the age that the scheduler computes from |
| `TabPoolProofs` | `PoolTyped`, `AccountingHolds`, `ReturnNeverBlocksHolds`, `NoLostWakeupHolds`, `NoSharedTabHolds`, `FreeTabsAreBlankHolds`, `TabPoolLends` | the users are counted in the phases that account for a tab; only some phases hold one; who navigates a tab is its only user, so one that was parked stays blank until it is leased (`BlankInv`). For the refinement: the tabs that exist are no more than the free ones and the users that hold one, which `created` counts together with the one being made, so there is room when it is made (`RoomForNewPage`) |
| `ManagerProofs` | `ManagerTyped`, `OnlyAttachedTabsLiveHolds`, `GenerationsAccountHolds`, `IdleTabsAreResetHolds`, `NoStaleAssistHolds`, `SlotsMatchHolds`, `GenerationsAdvanceHolds`, `GenerationsLend` | who asks Chrome holds poolMu, so the answer in hand is not older than the pool (`LockInv`); a generation that is used is stopped or attached (`HomeInv`); a tab has one holder and a new one a new id (`ShareInv`), so a tab with metrics is held by a screenshot that will still reset or retire it (`ResetInv`). For the refinement: a tab names its generation, so a step that moves it leaves the others' tabs alone (`OthersKeepTabs`), and `AccountInv` gives the room for a new one (`RoomForTab`) |
| `SessionsProofs` | `SessionsTyped`, `OneSessionPerTabHolds`, `TypingIsGatedHolds`, `EvidenceIsCompleteHolds`, `SessionsLease` | sessions between lease and return have different tabs, none of them idle (`TabsLeased`), and an injection into the tabs bounds their number; the age of `assertedAt` is the age of some recorded exact assertion of that session or at its cap; the log is the end of the list of the calls that came back, each once, and stays so when that list grows by one and the log is trimmed (`GrownList`). For the refinement: a tab that a session drives is not idle, so it comes back once |
| `MacroStoreProofs` | `StoreTyped`, `ApprovedIsValidHolds`, `ApprovalCertifiesHolds`, `ApprovalIsNotReplacedHolds`, `ParkedIsKeptHolds`, `RevocationLastsHolds` | what is stored is at least a valid draft and what is approved is valid; while `PromoteOrphan` holds the lock between its two files, the parked draft is the stored macro; a revoked site is granted neither in memory nor on disk |
| `RecordingsProofs` | `RecordingsTyped`, `StoppedOnceHolds`, `StopReleasesHolds`, `DraftIsWhatWasDoneHolds` | a recording in the map was taken by no stop and one that was taken is not inserted again; from the step that takes the hold off, the session is let go, closed or shared. The draft: the steps are at every instant what the events that were heard and have left the queue come to (`Tracks`, with `Added` as one more event), and what was heard stays heard |
| `ReplaysProofs` | `ReplaysTyped`, `RunsWhatWasApprovedHolds`, `ResumedByHumanHolds`, `LeasedIsClosedHolds`, `GivenSurvivesHolds` | what ran is the start of the list that was read; that list was certified when it was read, or the replay is a test; a closed channel was found by a resume that has closed it, and a pause that was passed has its channel closed; a replay opens and closes its own session only |
| `EndpointProofs`: `HistoryCopy` | `HistoryTyped`, `SpaceIsBoundedHolds`, `CopyExistedHolds` | what a call has on disk is what the attempt has copied, which `Fits` bounds; stamps are never reused, so what is copied of a file that is intact is what the file is; when the last file is copied, either the files are the copy, or it is History alone and was so at an instant (`Alone`: a sidecar that came and went is the case that needs the rule on sidecars), or a file that is still to be verified has changed and the check of it fails (`Settled`) |
| `EndpointProofs`: `FetchGate` | `GateTyped`, `ToldWhatHappenedHolds`, `StoreAccountsHolds`, `ReadableExactlyHolds`, `FullOnlyOfTheLivingHolds`, `RecentIsTheLastHolds` | of `Flights` only this is used: a caller is on a flight of its key and leaves with its leader's outcome or its own context's error (`CallsInv`), and a key with pictures names one class (`KeyTellsClass`). The bytes are counted as a set of tiles, so that what a step adds or reaps is a disjoint union (`BytesAdd`); a capture in the map is one that a caller was told of, and the unexpired ones are all there (`HeldInv`). The k-th last entry is k slots before the next one (`RingInv`), which the arithmetic of `Add` and `Recent` keeps at the wrap; who got past the route and was answered has its one entry (`LogInv`) |

`HostsFit` is `Cardinality(Hosts) <= MaxHosts`: the host map never outgrows its bound. `SchedPrune`
shows that exclusion is false without it. The other invariants of the scheduler do not need it.

Every invariant, action property and refinement that a passing run checks is stated by one of these
theorems. No run lists the type invariants, five of the invariants above, or the refinement of
`TabLeases` by `Manager` and `Sessions`: `ReturnNeverBlocks` of the pool follows from its
accounting, `NoSharedTab` is why `LendingSpec` holds, `SlotsMatch` is part of why `EveryCallReturns` does,
`SingleFlight` is what lets `Scheduler` implement `Flights`, and `GivenSurvives` says of a client's
session what `LeasedIsClosed` says of a replay's own.

Each proof has an inductive invariant with the three facts that make it one: `IInv`, or `PacingInv`
of the scheduler, `PoolInv`, `Typed` of the sessions, `DraftInv`, `TypeInv` and `SnapInv` of the
history, `GateInv`, `CaptureInv` and `RingInv` of the fetches. Action properties and refinements
follow from it step by step: every step is one of the abstract module or a stutter.

Only model-checked: liveness (`EveryCallReturns` twice, `EveryUserFinishes`, `TabsComeBack`,
`EveryCallAnswered`), which the prover has no rules for. `DraftIsWhatWasDone` and the byte count of
`FetchGate` would each be a fold, and need induction; they are stated without one: a draft is the
sequence of the positions whose step is kept (`ComesTo`), bytes are the elements of a set.

## 7. Disagreements met while modelling that have no run of their own

Each was read in the code; none is a property of a run.

* Sessions: `Open` tests the limit (session.go:135) and inserts (152) in two critical sections, so
  calls that overlap exceed MaxSessions ("caps concurrently open sessions", 47).
* Sessions: `pendingType` is tested (252) and never set, so a screenshot can be taken in the middle
  of typing (docs/l1-design.md: "never mid-typing").
* Sessions: docs/l1-design.md says that primitives go through the scheduler's pacing; only
  `handleFetch` (fetch.go:100) uses it. It also says that failed assertions capture a screenshot;
  `Run` records the error only.
* Sessions: the selector form of `wait` derives its context from the tab (session.go:693), so a
  client that goes away does not end it.
* Scheduler: a coalesced follower with a live context gets its leader's `context.Canceled`
  (scheduler.go:101), and `classify` (fetch.go:202-206) takes that for a worker that was lost. In the
  same way it can be answered 504 because its leader's deadline passed, not its own
  (`ToldWhatHappened` allows that, and the deadline of the navigation itself, and nothing else).
* History: `copySnapshot` cannot see a write that leaves inode, size and modification time as they
  were, and a database that had both a log and a journal could be copied torn (section 3).
* Macro store: the operator approves an id (admin.go:455); a draft that the agent edits between the
  review and the click is approved unseen (docs/macros.md: "after human review of the exact step
  list").
* Macro store: a second draft of one id is parked over the first (macro.go:314), although drafts
  "must not be silently discarded" (300) and "the human's clicks are never lost"
  (docs/macros.md:30). A recording is parked because its id is taken, so a second take of that id is
  the usual case. `ParkedIsKept` follows which draft is parked, and `ParkedOver` is the one
  disjunct that allows this; without it TLC finds a trace of two stopped recordings of one id.
* Macro store: the registry of sites is empty in memory after one read that failed
  (editable.go:55), and the next `Enable` saves it over the file; memory and file differ after a
  save that failed (33). The registry file is `agent-editable-sites.json`, which is also the file
  of a macro with that id.
* Browser: `isFatalTabErr` (browser.go:432-437) looks for words like "websocket" in the text of an
  error, and the text of a `ChallengeError` holds the URL: a challenge on a page with such a word
  in its URL retires the tab and is not retried. `Judge` has this as any error being fatal.
* Browser: `newPage` (pool.go:206, 223, 235) runs under the allocator's context, without a timeout,
  and looks at no other: while Chrome does not answer, a fetch that has to create its tab waits past
  its deadline, with its host token and its slot, although `RequestTimeout` "bounds a whole /fetch
  call including queue wait" (internal/config/config.go:52). `EveryCallReturns` of `Manager`
  excepts this wait and no other wait of a fetch.
* Browser: assists are keyed by a page id that restarts with each generation. While a fetch of the
  old generation still waits, one of the new can have the same id: either replaces and removes the
  other's entry, and /healthz then misses a challenge that waits. `NoStaleAssist` holds all the
  same. The old fetch notices its dead tab within one poll of 500 ms, so the window is short.
* Recording: the hold of a session is one flag (216, 219). With two recordings in one session, the
  stop of one with close_session false lets the reaper take the session of the other
  (docs/macros.md: it "is held open (not idle-reaped) while the human drives").
* Recording: two starts of one id can both pass the test (server/macro.go:95) before either inserts
  (161). The recording that is replaced cannot be stopped: its drain and hold stay.
* Recording: if the draft cannot be stored, record/stop returns (213) without taking the hold off
  (216), and the reaper skips the session from then on.
* Recording: events that are queued when record/stop cancels the drain (198) are dropped. The
  capture script and the listener stay on the tab (session_tab.go:63); they hear the next lessee
  of the tab until the channel is full, and a drain that still runs records it. This is in
  `Recordings` (`Capture` asks only that the session was open once).
* Recording: a submit is recorded as a click without candidates of its own when the event has no
  element (recorder.go:205), which `runClick` (replay.go:309) refuses.
* Resume: two calls can find one channel and both close it (server/macro.go:636); the second
  panics (`CloseChannel` has this as "panicked"). macro_test.go:119 expects a stale resume to be
  answered 404. Two paused replays of one macro share an entry of `resumes`: the second takes it
  over (599), and the first one's deferred delete (603) removes the second's, which then cannot be
  resumed and times out. `ResumedByHuman` holds all the same.

## 8. Not modelled, and why

* What the pages contain, selectors, ladders of candidates, settle heuristics, challenge markers,
  URL guard, configuration: functions of strings, or of Chrome; unit tests reach them.
* The cutting of a picture into tiles and their encoding (`internal/screenshot/image.go`), and the
  segment numbers within a capture: functions of one picture. `FetchGate` has their size.
* Routing by token class beyond /fetch, decoding of requests, statuses of errors: functions of one
  request. The session handlers decode a call of `session.Manager` and encode its result.
* Secrets, metrics, logging, the CDP proxy, the client and the commands: input and output.
* SQLite, the filesystem below rename, Chrome itself: external; the modules have their failures.
* `Manager.Probe` and `Health`, which only report; the two rings of the admin band, which its pages
  show. What the SQL over a finished copy of the history returns is SQLite's.
