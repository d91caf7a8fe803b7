# DegenView: TLA+ specifications and proofs

DegenView is a desktop program for market charts, alerts and portfolios. Most of it draws and
computes. The parts modelled here are those where the order of things decides whether the user
loses something: **iCloud Sync** (a worker thread, the app thread, a Swift bridge, Apple's sync
engine, other Macs), **price alerts** (two processes that share a database and a lock), the **MCP
server** (calls from other programs that the app thread runs between frames) and **self-update**
(a program that replaces itself). The directory holds models of them, the TLC configurations that
check the models on small instances, and machine-checked proofs of what holds for every instance.
Paths are relative to the repository's copy in `src/` (`src/src/sync/core.rs` is `SyncCore`).

Contents: 1 the system, 2 the modules, 3 from code to model, 4 the runs, 5 fairness, 6 the proofs,
7 where code and documentation differ, 8 what is not modelled, 9 the plan.

## 1. The system

### Inventory

| Component | State it keeps | Operations | What is hard | What makes it correct |
|---|---|---|---|---|
| Sync core (`sync/core.rs`) | uploads under way, `fetch_in_flight`, `initial_fetch_done`, `unapplied`, `pending_state`, `stale_seen`, `send_hold_until_ms` | `start`, `stop`, `pump`, `tick`, `poll`, `request_sync`, `handle` (11 events), `remote_applied` | answers that arrive after the edit they carried was superseded; checkpoints against batches not applied; crashes between any two steps | nothing edited anywhere is lost; a checkpoint covers only what was applied; one upload for an entity at a time; deletes wait for the catch-up |
| Sync store (`store/sync.rs`) | `sync_entity`, `sync_outbox`, `sync_inbox`, `sync_conflict`, `sync_device`, state row | queue, acknowledge, fail, release, link, tombstone, reconcile | the row of the outbox is replaced while its predecessor is on its way (`seq`) | what differs from the cloud is queued or found by the next reconcile |
| Apply layer (`sync/apply.rs`, `sync/merge.rs`) | none of its own | apply a record or a deletion in one transaction; merge three ways or by stamp | a fetched version that is older than what is held; merges repeated by both Macs | both Macs compute the same; an addition is never lost; an edit beats a delete |
| Sync host (`host/sync_host.rs`) | queue of fetched batches, back-off, the worker and its channel | `tick` applies in order, the worker's timers, `apply_while_ui_is_idle` | two threads may apply; a batch that cannot be saved | order of batches; exactly the applied ones are acknowledged |
| Bridge (`native/swift/Coordinator.swift`) | engine, staged changes | run commands one by one, emit events in order | a send that throws leaves changes staged and perhaps saved; the account may change at any time | no answer is invented; every staged change is answered or fails as a whole |
| Accounts, first merge (`sync/account.rs`, `sync/initial.rs`) | bound account, join pending, inbox | enable, disable, confirm, resolve a change, join, decline, delete the zone | the account changes between staging and sending; a choice is carried out after the state it was made in | data never moves between accounts without a choice; nothing fetched is passed over |
| Alerts (`model/alert_engine.rs`, `host/alert_runtime.rs`, `host/alert_host.rs`) | snapshot with its history, command queue, file lease | evaluate quotes, apply commands, save and acknowledge, hand the lease over | two processes may own the runtime; a save may fail; either may die | a crossing fires once; a command is applied once and never lost |
| Webhooks (`store/webhook.rs`, `service/webhook_delivery.rs`) | delivery rows keyed by trigger and endpoint | claim, send once, finish | a crash between claim and finish | one trigger reaches one endpoint at most once |
| MCP server (`mcp/`, `host/mcp_host.rs`) | bounded queue of requests, a switch per request, generation, permissions, remembered request ids | call, take at a frame, run, answer; permit, start, stop | time-outs, callers that leave and a stop, each racing the app that takes the request up; retries | what is refused never runs; a retry places no second order; every call ends |
| Self-update (`service/self_update/`, `host/update_host.rs`) | three files (app, new, previous), offer, job queue, armed relaunch | check, install, restart, call a quit off, relaunch, clean up | a crash or a failed rename inside the swap; answers that cross a change of channel | a program that starts is always there; one process has the database |
| Paper trading (`model/paper_engine.rs`) | accounts, orders, fills, positions | submit, modify, cancel, process a quote | brackets and one-cancels-the-other orders | cash and positions agree with the fills |
| Quotes (`service/watchlist_quotes/engine.rs`, `service/work_queue.rs`) | needs per window, back-off per source, rejected symbols | plan, fetch, bisect, apply, age | an outcome that arrives after the plan changed | every needed market is asked for; a failing source waits alone |
| Portfolio, live data, Pine, replay, drawings, interface | see `PROJECT.json` | | data-heavy, or one thread | |

### How the parts interact

    app thread --edits--> store <--- worker thread (SyncCore) ---cmds--> bridge ---> iCloud zone
        |                              ^     |                             |           ^
        |<------- fetched batches -----+-----+                             |           |
        +-------- acknowledgements --> chan <---------- events -----------+      other Macs

The worker handles one message of its channel at a time; every handler ends in `pump`, which
stages what is due. Batches it fetches are applied by the app thread, which acknowledges each
through the same channel; when no frame is drawn for `UI_IDLE` the worker applies them itself.
The bridge runs one command at a time and emits all the events of a command before the next. The
user's choices about accounts wait for the app thread's next tick. A crash loses everything except
the store and the checkpoint in it.

    MCP client --> server thread --queue--> app thread (one frame) --> paper account
                        ^------------ answer -----+

    app process ----\                      /---- agent process (login item)
                     >-- lease, database -<
      commands -----/                      \---- webhooks

    app --check--> GitHub;  app --stage, swap--> files;  app --exit--> helper --open--> new app

These three touch sync at few points, and there the modules leave the choice open: an alert that
arrives by sync is one more command in the alerts' queue, and an update ends the process like any
other end, which the sync modules allow at every step (`Crash`).

## 2. The modules

| Module | What it is |
|---|---|
| `SyncStore` | What one Mac stores about one entity (row, `sync_entity`, `sync_outbox`) and every operation on it, as functions from record to record; the stamps, the three-way merge and the apply rules. |
| `SyncMac` | One Mac's whole data path as a state machine over `SyncStore`: core, app thread, bridge and zone, one action for each handler, timer and command. |
| `FetchOrder` | Abstract: pages are saved in order, each once, and a position never passes one that is not saved. |
| `ApplyQueue` | The two threads that apply fetched batches, their hand-over, retries and acknowledgements. Implements `FetchOrder`. |
| `SyncSession` | Whose data goes where: accounts and their switches, every choice of the settings page, `start` and `stop`, the first merge and the deletion of the zone, over a data path reduced to sets. |
| `Alerts` | The alert runtime in app and agent: lease, command queue, quotes, triggers, history, webhook claims. |
| `CallOnce` | Abstract: a tool call runs at most once, and a call that is told it was refused has not run and never will. |
| `McpBridge` | Tool calls between server thread and app thread, up to the paper order they place and the memory of request ids. Implements `CallOnce`. |
| `SelfUpdate` | Checks and channels, the job queue, staging and the two renames, the quit a restart asks for, the relaunch helper. |
| `MC...` | Model values for TLC, one module for each that is run. |
| `SyncMacProofs`, `SyncMergeProofs`, `ApplyQueueProofs`, `SyncSessionProofs`, `SyncPositionProofs`, `AlertsProofs`, `McpBridgeProofs`, `SelfUpdateProofs` | The inductive invariants and the theorems of section 6. |

`SyncMac`, `ApplyQueue` and `SyncSession` describe the same program at three cuts. `SyncMac` has the
data path in full, with one step of the app thread for a batch and one account. `ApplyQueue` opens
that step up into two threads, and `SyncSession` opens up what `SyncMac` takes as given: that the
account is the bound one and sync is switched on. What one takes for granted another one checks:
batches in order (`InOrder`), no data of another account (`NoCrossing`).

Definitions named as mistakes (`DueTwice`, `FlushStateEarly`, `RequeueBehind`, ...) are no part of
the models: each stands before the definition it deviates from, as the change that must break the
property the mutant list of `PROJECT.json` pairs it with.

## 3. From code to model

### SyncMac

*Data.* A payload is the set of entries it holds and stands for its own hash (`synced_hash` is the
payload). An entity is a watchlist or settings object (`Combining`: merged three ways) or any other
simple kind (last writer wins). A stored record joins the entity's row in the data table, its
`sync_entity` row and its single `sync_outbox` row (`op = "none"` when there is none). Time is the
clock reading an edit is stamped with; `next_attempt_ms` is only `now`, `later` or `merging`.
A record of the zone has a version counter in place of its change tag.

*State.* `store` and `ckpt` are on disk. `inflight` to `staleSeen` are the fields of `SyncCore` of
the same names; `toApply` is the host's queue of batches; `cmds` and `chan` are the two channels;
`engine` and `staged` are the bridge's; `cloud` is the zone. `left` bounds what users, other Macs
and the environment still do, and nothing else depends on it.

*Actions.*

| Code | Action |
|---|---|
| `start` and the account check that finds the bound account | `Launch(away)`; away: no fetch was recorded for `STALE_AFTER_MS`, whatever the checkpoint is |
| `tick`, `request_sync`, `poll` | `Tick`, `RequestSync`, `Poll`; overdue: `FETCH_STUCK_MS` has passed |
| `on_fetched`, `on_state`, `on_fetch_complete`, `on_error`, `restart_from_scratch` | `OnFetched`, `OnState`, `OnFetchComplete`, `OnError`, `OnExpired` |
| `remote_applied` | `OnApplied` |
| `on_sent`, `on_failure`, `on_conflict` | `OnSent` (with `OnSaved`, `OnFailure`, `OnConflict` for each result) |
| `on_send_failed` | `OnSendFailed` |
| `apply_in_order`, `apply_batch` | `Apply`; a batch that cannot be saved stays first, which is no step |
| `track_documents` and the triggers behind an edit | `Edit`; `OldBuildWrites` is a build that queues nothing |
| `Coordinator.start`, `fetch`, `stage`/`send` | `EngineStart`, `EngineFetch`, `EngineFetchFails`, `EngineExpires`, `EngineSend`, `EngineSendThrows` |
| the end of the process | `Crash` |
| another Mac | `PeerSaves`, `PeerDeletes` |

`Pump` is part of every handler that calls it, with what the handler made of the store as its
arguments; `FlushState` likewise. Nothing the code does in one handler is split over two steps.

*What is assumed of Apple's engine* (it is not in the repository; the model follows
`Coordinator.swift`, the documented use of it, and `sync/mock.rs`):
a save needs the change tag of the version it replaces, a delete needs none; a fetch lists every
record changed since the engine's position, one that starts from nothing lists what exists and no
deletions; state updates follow the pages they cover; the engine may or may not list again what it
sent itself (`told`); an expired position stays expired until the engine is started anew.

*Assumption `Prompt`.* With `Prompt = TRUE` the worker handles the answer to an upload only when no
fetched batch waits at the host. It is the usual case, since the app thread applies on every frame,
and it is what `NothingMissed`, `NoEntryLost`, `DeletionsNoticed` and `Converges` are checked under. It is
not guaranteed by the code; section 7 says what happens without it. The run `owndeletes` and all the
proofs do without it.

### ApplyQueue

A page is one `Fetched` event; its batch, if there is anything to apply, has the page's number as its
id. `effects` is the list under the host's lock, `left` and `done` of a thread are what it holds
outside the lock, `position` is the checkpoint on disk, `Held` is `CHECKPOINT_HELD`.

| Code | Action |
|---|---|
| `on_fetched`, `on_state`, `remote_applied` (each with its `flush_state`) | `OnFetched`, `OnState`, `RemoteApplied` |
| `SyncHost::tick`: user actions, take the effects, `apply_in_order`, tell the worker, end | `BeginTick`, `TakeEffects`, `AppApplies`, `Tell`, `EndTick` |
| `apply_while_ui_is_idle`: take, apply, acknowledge, `requeue` | `TakeWhileIdle`, `WorkerApplies`, `Acknowledge`, `PutBack` |
| `UI_IDLE` and `apply_backoff` run out | `BecomeIdle`, `RetryDue` |

`SlowFrames = FALSE` says that one `tick` ends before `UI_IDLE` (3 s) is over. With
`waiting <- app.left \o worker.left \o effects` the module implements `FetchOrder` (`InOrder`).

### SyncSession

`db` is `sync_state` and the collections as sets; an item is local or not and linked (known to be in
the zone) or not. `core`, `host`, `bridge` are the fields of `SyncCore`, of what the host shares
under its lock, and of the `Coordinator`. `user` remembers what the user agreed to, asked for and
declined, and what came out of turn (`late`); the code does not read it, the properties do.

| Code | Action |
|---|---|
| the messages of `run_worker`: start, stop, restart, clear the pause, delete, applied, the time-out; the bridge's events | the disjuncts of `Handles`, each a `Handle...` |
| `tick` and `poll` of the core | `Ticks`, `Polls` |
| a button of the settings page (`act`) | `Choose(c)`, for what the page offers in the phase it shows (`Offered`) |
| `SyncHost::tick`: the choice (`run`: enable, disable, `confirm_account`, `resolve_account_change`, `finish_join`, delete), the effects, the end of a deletion | `Tick` |
| `Coordinator.run`: start, account check, stage and send, fetch, delete the zone, stop, and their failures | the disjuncts of `BridgeRuns` |
| the account changes; another Mac saves; a new item; the process ends | `Switch`, `PeerSaves`, `Create`, `Crash` |

One constant names what the model can leave out: `Interrupted`, FALSE in the run: the account changes
while `stage` waits for the answer to its account check. The rest happens as in the code, whatever is
under way: a choice is carried out by the next tick, and a fetch or a deletion that the bridge reaches
after the account changed runs under the account signed in then (a command remembers the account it was
sent for; only `stage` compares it). `user.late` notes, for the properties, where that separates an act
from what it was meant for: "data" when the user answers which account to use while a message, a batch
or a fetch is under way (`UnderWay`), when the first merge is carried out twice, and when a fetch runs
under another account than it was sent for; "deletion" when an account is bound while the request to
empty a zone waits for the core. `NothingPassed` and `Settles` hold unless data was late, `OnlyAsked`
unless the deletion was late or overtaken at the bridge, and `NoCrossing` always. Without the exceptions
they break: section 7 has each case.

### Alerts

A price is `far` from the target, from where it can cross it, or `near`: on the target or past it.
The rule is the same for both directions. A process's tick is cut where another process or a crash
can be seen: at each command, at the judging, at the save.

| Code | Action |
|---|---|
| `AlertRuntime::tick`: take the queue, `drain_commands`, evaluate and claim webhooks, `save_if_dirty` | `AgentTicks` and `AppTicks`, then `DrainOne`, `Judge`, `Save` or `SaveFails` |
| `claim_webhook_delivery`, `finish_webhook_delivery` | in `Judge`; `Send` |
| `poll_alerts`: give the lease up, read what the owner saved | `AppYields`, `AppReads` |
| `run_alert_agent`, `AlertHost::load` | `AgentStarts`, `OpenApp` |
| the editor's save, an edit by the MCP server (`plan_update_alert`), delete, clear, pause | `Commit`, `Ask` |
| the switch for this Mac; the login item is disabled; a process ends | `Switch`, `Disable`, `Crash` |

Constants for what the model can leave out: `Unseen` (the agent stops with a save that the app has not
read), `Unsaved` (the app gives the lease up after a failed save), `Lagging` (a new owner judges a
quote older than the last owner's).

### McpBridge

A call is a record of its client, its request id (`key`) and the order it places. `switch` is the
atomic of three positions that the caller and the app compete for.

| Code | Action |
|---|---|
| `run_tool`; `call`: queue it, time out and wait for the grace, hear the answer; the caller leaves (`CancelOnDrop`) | `Arrive`; `Queues`, `TimesOut`, `Hears`; `Leaves` |
| `tick_mcp`: take at most `REQUESTS_PER_FRAME` | `Frame` |
| `Request::run`: still wanted, start or refuse | `Start`, `Refuse` |
| `place_paper_order` with `recall`, `remember`, `forget` | `Place`, `PlacedBefore`, `Fails` |
| permissions, switching the server on and off, its join; a reset of the account | `Permit`, `Switches`, `Joined`; `Resets` |

`Slow` lets a command run longer than `STARTED_GRACE`; `Recreates` lets the user delete the newest
paper account and make another, which uses its order ids again. With `fate` read from the switch the
module implements `CallOnce` (`Truthful`).

### SelfUpdate

The files are three: the app where the user keeps it, `new` and `old` in the staging folder. Versions
are numbers. A bundle (macOS) and an executable (Windows, Linux) differ in one point, a rename
onto a copy already there, which either fails or replaces it; the model allows both.

| Code | Action |
|---|---|
| `tick`, `check_now`, `set_channel`, `install`; the answers of the queue | `Tick`, `CheckNow`, `SetChannel`, `Install`; `Answer` |
| `prepare` with `cleanup_stale` and `keep_only_copy`; `prepare_in` | `Clear`; `Unpack` |
| `restart_with` and `swap_paths`: first rename, second rename, a second request | `Restart`, `PutInPlace`, `RestartAgain` |
| quit, unsaved scripts, the question, its answers | `Quit`, `Edit`, `AskClose`, `Proceed`, `Cancel` |
| start, clean-up, end, crash, the helper | `Open`, `CleanUp`, `Gone`, `Crash`, `Relaunch`, `GiveUp` |
| a release; the user puts the previous copy back | `Publish`; `PutBack` |

`LateCleanup`, `SecondCopy` and `CloseWhileAsked` are FALSE in the run: the clean-up of a start may run
after its first download, the user may open the app twice, the tab that asks about the quit may be
closed meanwhile (section 7).

## 4. The runs

A passing run has no violation in any reachable state of its instance. The states are distinct ones.

| Run | Question | States |
|---|---|---|
| `merge` | Two Macs edit one watchlist twice each. Does every edit that a fetch will not bring again reach this Mac, is an entry ever lost on either side, can two uploads of an entity be under way? (`TypeOK`, `OneUpload`, `NothingMissed`, `NoEntryLost`) | 0.77 M |
| `deletions` | The other Mac deletes, this one is away for long: is each deletion noticed? (`DeletionsNoticed`) | 0.49 M |
| `owndeletes` | Both delete, the worker handles any event while a batch waits: do deletes wait for a fetch, the checkpoint for the app thread, and is the count of batches exact? (`DeletesWaitForFetch`, `CheckpointAfterApply`, `Counted`) | 0.70 M |
| `converges` | A fetch that is stuck, interrupted or expired, a refused record, a send whose answer is lost, and a crash at any point: is anything of a watchlist missed, and do this Mac and the cloud agree for good in the end? (`NothingMissed`, `Converges`) | 0.18 M |
| `converges_lww` | The same for a template (the last writer wins) with two clock readings, a crash and one write of an old build that queued nothing. (`NothingMissed`, `Converges`) | 0.09 M |
| `order` | App thread and worker both apply, writes fail, the program crashes: are three pages saved in order, each once, and is each acknowledged? (`TypeOK`, `InOrder`, `EachAcknowledged`) | 0.12 M |
| `session` | Two accounts, three choices of the settings page carried out whatever is under way, a switch, a failing request or a crash: does data stay with its account? Unless something came out of turn: is anything fetched passed over, is a zone emptied unasked, does sync come to rest? (`TypeOK`, `NoCrossing`, `NothingPassed`, `OnlyAsked`, `Settles`) | 0.50 M |
| `owners` | App and agent hand the lease back and forth: is a command or a trigger lost, does one fire twice, is a crossing missed, is every command applied in the end? (`TypeOK`, `NoneLost`, `FiresOnce`, `ArmedWhenFar`, `HistoryKept`, `Drained`) | 0.44 M |
| `update` | Is there always an app, and the previous one until the new one has started? Does one process run, does a restart called off stay off, is what is offered right, and is the newest release offered? (`TypeOK`, `OneCopyLeft`, `PreviousKept`, `OneDatabase`, `ArmedWhileQuitting`, `OfferFits`, `Noticed`) | 0.04 M |
| `calls` | A call, its retry, and a call under the same request id for another order: does the bridge implement `CallOnce`, is one order placed and named rightly, does only what is wanted start, does every call end? (`TypeOK`, `PlacedOnce`, `Truthful`, `StartsWanted`, `NamesItsOrder`, `EachEnds`, `Served`) | 0.20 M |
| `restored`, `takeover` | The two disagreements of section 7 that have a run: TLC finds a violation. | |

*Bounds of `SyncMac`.* One entity, one or two entries, this Mac, and one device that stands for all
others: a third Mac adds no behaviour that a second save of the peer does not. `MaxQueue`: fetches are
asked for and commands are run while fewer than two messages wait (one in the two liveness runs),
which is enough for a command or an answer to be overtaken by edits, crashes and further events.
`MaxEdits`, `MaxRemote`, `MaxCrashes`, `MaxFaults`, `MaxOld` bound users, peer, crashes, faults and
writes of an old build; two edits on each side are what it takes to supersede an upload, refuse it,
merge it and refuse the merge.

*Bounds of the others.* `order`: three pages, so that one is applied, one waits behind it and one
arrives; two failed writes, so that a retry fails as well. `session`: three choices are what it takes to
turn sync on, join and answer an account change; one item is
enough, since the properties compare sets item by item. Beyond the run, the same five properties hold with two
switches and no troubles (1.3 M states), and the safety properties with a fourth choice as well (8.5 M).
`owners`: one alert (alerts share only the snapshot and the queue), two commands and two quotes, so
that a command can come between crossing and save, and one fault. `update`: three versions, of which
one is a candidate, so that both channels have something newer; three troubles are what a swap
whose undo fails and a crash cost. `calls`: a queue of two and frames that take one request, so that
both limits are met by three calls; one change by the user.

*What the properties are about.* `NothingMissed` and `DeletionsNoticed` speak of versions that no fetch will
bring again (`Covered`): a weaker reading ("eventually") would hide a skipped change behind the next one.
`NoEntryLost` is checked where users only add, so that any disappearance is the program's doing.
`FiresOnce` counts by the saved history between two commands about the alert. `NothingPassed` is about
the position the next start will use, not about what memory holds.

*Deadlock* is checked where the system never stops. `session` and `calls` may stop, one waiting for its
user, the other when its finitely many calls have ended, and say so.

## 5. Fairness

`SyncMac`: weak fairness of `Handlers`, `Bridge` and `Apply`: the worker, the bridge and the app thread are
loops that take the next message. Of `Tick`, `RetryDue` and `HoldOver`: the worker ticks every second and
the clock passes `next_attempt_ms` and `send_hold_until_ms`. Of `Launch(FALSE)`: the user starts the program
again. Strong fairness of `RequestSync(FALSE)`, the pass every `RECONCILE_INTERVAL`: in the code its
timer is only a clock, but in the model it also needs room in `cmds` (`MaxQueue`), which comes and goes.

`ApplyQueue`: weak fairness of every step of the two threads and of the two clocks; a first frame is drawn,
later frames need not be. `SyncSession`: of `Handles`, `BridgeRuns`, `Tick` and the core's two timers.
`Alerts`: of the frames of the app, the loop of the agent and each step of a tick once begun; the system need
not start the agent, so `Drained` assumes that a process stays. `SelfUpdate`: of the worker's
queue, the clean-up and the second rename; strong for `Tick`, since frames go on and the check that
fell due waits for one that finds no install under way. `McpBridge`: of what the server's thread does with
calls it has (time-outs, answers, calls dropped by a stop) and of what the app has begun or has
asked a frame for.

Nowhere is fairness assumed of edits, choices, faults, crashes, switches, callers or other Macs.

## 6. The proofs

`tlapm` proves every obligation of the eight `...Proofs` modules, for any value of the constants, from
the named assumptions of the modules (`StoreAssumption`, `MacAssumption`, `QueueAssumption`,
`SessionAssumption`, `AlertsAssumption`, `BridgeAssumption`, `SelfUpdateAssumption`: finite sets where
something is counted, bounds that are numbers) and from what the column "given" says. A theorem about a
constant that is given as FALSE says nothing about the behaviours of section 7 that need it.

| Module | Theorem | Given | Meaning |
|---|---|---|---|
| `SyncMacProofs` | `Typed`, `NeverTwoUploads`, `AllCounted`, `CheckpointSafe` | | `TypeOK`; `OneUpload`: no two uploads of one entity under way; `Counted`: `unapplied` counts exactly the batches that wait and the acknowledgements on their way; `CheckpointAfterApply`: a checkpoint is saved only when nothing fetched is unapplied |
| `SyncMacProofs` | `DeletesGated` | `"fetch" \notin Faults` | `DeletesWaitForFetch`: no delete is handed to the bridge before a fetch has run to its end |
| `SyncMacProofs` | `DeletionsCaughtUp`; `DeletionsSeen` | `OthersDelete`: `Me \notin Deleters`, `Faults` of "away", "stuck", "fetch" and "record" only, no more entities than `StaleLimit`; the first also `[][CatchesUp]_vars`, the second `"away" \notin Faults` | `DeletionsNoticed`: a deletion made elsewhere that no fetch will bring again has been applied, or the row is still to be uploaded |
| `SyncMacProofs` | `MergeSymmetric`, `MergeKeepsAdded`, `BeatsTotal` | | the merge is the same from both sides, keeps what was added, drops what was removed; of two stamps exactly one wins |
| `SyncMergeProofs` | `EntriesKept` | `Deleters = {}`, `Reuse = FALSE`, `Prompt = TRUE`, `Faults` of "stuck", "fetch" and "record" only; `[]FewRefusals` | `NoEntryLost`: where users only add entries, none disappears from this Mac or from the cloud |
| `SyncMergeProofs` | `CoveredIsHeld`; `NothingIsMissed` | the same, and `[]OlderHasNoMore`; for the second also `Combining = Entity` | of a combining entity, a version that no fetch will bring again is what this Mac holds, or an upload is still to be made; `NothingMissed` |
| `ApplyQueueProofs` | `Typed`; `Implements` | `Implements`: `SlowFrames = FALSE` | `TypeOK`; `Spec => InOrder`, the refinement of `FetchOrder` |
| `SyncSessionProofs` | `Typed`; `DataStaysHome` | `DataStaysHome`: `Interrupted = FALSE` | `TypeOK`; `NoCrossing`, whatever comes out of turn |
| `SyncPositionProofs` | `OnlyIfAsked`; `NothingIsPassed` | | `OnlyAsked`: a zone is emptied only if the user asked for it while bound to it, unless the request was overtaken by a change of account; `NothingPassed`: unless data came out of turn, a position for the next start is one of the bound account and has passed only what is on this Mac, waits for the first merge or was declined |
| `AlertsProofs` | `Typed`, `StaysArmed`; `NoCommandLost`, `NoTriggerLost`; `FiresOnlyOnce` | the middle two: `Unseen = FALSE`, `Unsaved = FALSE`; the last: `Lagging = FALSE` | `TypeOK`, `ArmedWhenFar`; `NoneLost`, `HistoryKept`; `FiresOnce` |
| `McpBridgeProofs` | `Typed`, `OnlyWanted`; `Implements`; `NamesOwnOrder`, `PlacesOnce` | `Slow = FALSE`; `Recreates = FALSE`, and for `PlacesOnce` no more request ids than `MemoryLimit` | `TypeOK`, `StartsWanted`; `Truthful`, the refinement of `CallOnce`; `NamesItsOrder`, `PlacedOnce` |
| `SelfUpdateProofs` | `Typed`, `OffersFit`; `OnlyWhileQuitting`; `NeverTwo`; `CopyLeft`, `PreviousCopyKept` | `CloseWhileAsked = FALSE`; `SecondCopy = FALSE`; both `SecondCopy` and `LateCleanup` FALSE | `TypeOK`, `OfferFits`; `ArmedWhileQuitting`; `OneDatabase`; `OneCopyLeft`, `PreviousKept` |

*The arguments.* Each module has an inductive invariant, a conjunction of named parts, one lemma for
each action or group of actions, and theorems that read the properties off it.

- `SyncMac`: `Inv == TypeOK /\ Counted /\ OneUpload`. `OneUpload` is inductive by itself: each handler passes
  `Pump` a part of the uploads under way, and `Pump` adds one for each entity that has none. `TypeOK` is
  not: `OnApplied` takes one from `unapplied`, which stays a natural number only because an
  acknowledgement in the channel means that a batch was counted, which is `Counted`. `AcksTail`,
  `AcksAppend` and `AcksOthers` say how the channel's changes move that number. `CheckpointSafe` follows:
  only `OnState`, `OnFetchComplete` and `OnApplied` move the checkpoint forward, they do so when their
  count is zero, and by `Counted` the queue is then empty.
- `SyncMac`, deletes: `Gate` follows the gate through its three forms: when `caughtUp` is set or a checkpoint is
  pending, a fetch has completed or its report is in the channel; and every checkpoint in the channel has a
  report behind it (`Paged`), which is what an interrupted fetch breaks. `PumpDeletes` says that `Pump` lets a
  delete through only with the gate open.
- `SyncMac`, deletions made elsewhere: again a position is a promise. Of the checkpoint on disk, the one that waits to
  be saved, those on their way in both directions and the engine's own, `Heedful` says two things: it has not
  overtaken the cloud, and a deletion that it has reached is owed (`Owed`). Owed means one of three: the
  entity is not synced, or a catch-up that is about to end has not listed it (`Noted`); a deletion mark waits at the
  host (`MarkWaits`); one comes among the events before the position (`MarkComes`). In each case nothing behind it
  syncs the entity again (`Silent`), and with nothing under way only the first is left: a row that is not synced
  and still there shows as an upload to be made (`HeedsNotices`). A saved checkpoint may not count on a mark in
  memory, except one in the batch of a catch-up, which `flush_state` does not wait for. The lemmas `OwedStill`, `OwedEmitted`, `OwedTaken` and `OwedApplied`
  carry what is owed through the channel and the host. `Orderly` says what makes that true: rows that are missing
  are not queued, only upserts are under way (`Going`), each known to all three parts (`Paired`), and an engine
  without a position lists everything before anything else happens (`Fresh`).
  `OthersDelete` is where the property is about deletions made elsewhere at all, and leaves out the expired checkpoints
  behind *Catch-up* and *Listing overtaken* in section 7. `Prompt` may be either. `CatchesUp` says of a Mac that may be away for too long that neither a
  crash nor a lost connection cuts the listing short that follows: *Catch-up cut short* is what happens otherwise,
  and after a lost connection the position is past deletions that only the next fetch looks for. TLC checked
  the invariant before it was proved, with all four faults (3.3 million states).
- `SyncMac`, entries: that a merge loses nothing is clear only of one merge (`MergeKeepsAdded`); `NoEntryLost` is
  about versions that overtake one another: a batch that waits while an upload is refused, an answer behind a
  page that already has its record, a base that the row has outgrown. `Merging` says, of every combining entity,
  that what both sides are known to have (`Agreed`: the synced value and the base) is in the row and in the cloud, and
  that the row has all of the version whose change tag it holds (`Sound`); that every version on its way lies
  between that and the cloud's (`Fits`), and that the ways are sorted, batches before events and each way oldest
  first (`Sorted`): so applying one leaves those behind it applicable (`WaysLearned`). Of uploads it says that
  each holds no more than its row (`Asked`), that one which would be accepted has all that the cloud holds
  (`Ready`), and that the core's list, the commands and the answers agree, one for an entity (`Paired`).
  `FewRefusals` says that no edit is refused so often that the code stops merging it: beyond that the
  property breaks (section 7, *Merge attempts* and *Ignored merge*). Absences, expired checkpoints and sends that fail as a
  whole are left out of the theorem: there the core may list an entity's upload twice or forget one, `Paired` no
  longer holds, and small runs (one entity, one such fault) find nothing lost.
- `SyncMac`, nothing missed: a position is a promise that what it has passed need not be fetched again, and it is
  handed around: the engine moves on, reports it, the core keeps it until the app thread has applied what came before,
  saves it, and the next engine starts from it. `Accounted` says of each of these five kinds of positions what it
  owes (`Covers`): a version of an entity that it has passed is in the row, or is in a batch or an event *before* the
  report of that position (`Passed`, `Safe`; a saved checkpoint may count on neither, since a crash takes both),
  or the row waits to be uploaded and no answer on its way is about an older version, so that the
  upload cannot be dropped without what the cloud holds (`Insists`). It needs `Merging` beneath: that what is on its
  way is sorted is why the first batch may be judged by the cloud's record, and that an accepted upload held
  everything is why `EngineSend` may move the engine past it (`SendAccounted`). `Known` says that what is synced is
  in the cloud. `OlderHasNoMore` is what the apply layer takes for granted when it ignores a record of a
  lower revision than the row's: that such a record has nothing the row lacks. It holds in every state of `merge`; with a
  third edit it does not, and then the property breaks too (section 7, *Ignored change*).
- `ApplyQueue`: `OneHolder` (one of the two threads holds batches: the worker takes none while a tick is
  on its way, which is where `SlowFrames` enters) makes the batches one queue, so that a thread's step is a
  `Save` of the first that waits. `Accounted` (every page brought is saved or unacknowledged, only saved
  ones are acknowledged, a page that lost something holds the checkpoint) makes `flush_state` an `Advance`.
- `SyncSession`: `NoCrossing` is not inductive. What can reach a zone is what is staged; what is staged was
  queued under the account the core is bound to. So `Safe` says of every place data can be in that the user
  agreed to it for the account it will be sent to: the outbox (`Owed`), the commands (`Sound`) and the
  stage (`Staged`). What the user agreed to only grows (`Grows`).
- `SyncSession`, positions: `NothingPassed` speaks of the disk, but a position travels: the engine reaches it
  at `bridge.at`, it goes through the mail as `state`, waits in `pending` until the batches before it are
  applied, and is then saved. `Right` says of each of these places that what the position has passed is on
  this Mac, or ahead of it on the same way: in a batch that waits (`OnMac`) or in a `fetched` message before
  the `state` (`Before`, `Fetched`). It needs an exact count of the batches (`Counted`: the checkpoint is
  released only when none is left), that what is linked, and so no longer fetched, is here (`Linked`), and
  where each start and fetch among the commands will leave the engine (`Steady`). A restart on its way
  suspends part of it (`Loose`), since the user's choice has by then emptied the database behind the core's
  back; `Asking` says when such a choice may come. `Placed` puts this together for a state, and the invariant is
  that data was late or `Asking` and `Placed` hold: once late, always late, so each step is proved
  under the assumption that what it does is in turn, and in turn means what the binding
  needs: nothing under way that belongs to the binding before. Each handler `Keeps` or `Does`, each choice is
  one lemma (`RunEnable` ... `RunResolve`), and `Took` and `Finished` are the rest of a tick.
- `SyncSession`, deletions: `Wanted` says of every request to empty a zone, from the page over the mail to the
  commands, that the user asked for it while bound to the account it will be checked against. The
  invariant is that a deletion was late or `Wanted` holds; it needs nothing of the argument about positions. What
  it leaves open, the account that changes once the command is sent, is what `OvertakenAtBridge` says.
- `Alerts`: `Owned` (the owner's memory agrees with the database, and so does the app's as long as the agent
  does not own the lease: the commands it holds to acknowledge are still queued) and `Numbered`
  (commands are numbered by `count`). The lease changes hands only at rest, so a new owner starts from
  what was saved: the point where `Unseen` and `Unsaved` enter.
  `FiresOnce` needs none of that. `Once` holds of every snapshot by itself, saved, in memory, or lost
  later: an alert was set going by a command the snapshot contains (`Known`), and one that fired since
  then has fired for good or cannot fire again for the last quote (`Spent`). A snapshot that loses a
  trigger forgets with it that the alert was spent, so it stays consistent (and the webhook may go out
  again: section 7). Only a quote older than the last one breaks `Spent`, which is `Lagging`.
- `McpBridge`: `Callers` (what a caller has heard agrees with the switch), `Requests` (a request is in one
  place, and only the first one of a frame can be started), `Hand` (the app acts on what it judged; a
  stop waits for all calls). For the orders also `Records` (ids go up, so that a record and an order
  with its id belong together) and `Kept` (each order placed under a request id has its record).
- `SelfUpdate`: `Offers`, `Steadily` (a restart is armed only inside a quit), `Alone` (one process lives, and a
  helper waits for no other), `Kept` (what may be missing of the three files at each point of the swap, and
  that what is set aside has started once).

*Only model-checked.* `NothingMissed` of an entity where the last writer wins, and with expired checkpoints and
sends that fail; `DeletionsNoticed` beyond `OthersDelete` and `CatchesUp` (the run `deletions` has a crash in the middle of a
catch-up, of one entity); `Converges`, `EachAcknowledged`, `Settles`,
`Drained`, `Noticed`, `EachEnds` and `Served`: liveness under fairness is out of the prover's reach, and so is
induction over data, which is why counting is done with bijections and finite sets.

## 7. Where code and documentation differ

Two have a run, which TLC ends with a violation:

1. `restored` - *a restored row is deleted after all*. `apply_simple` writes a fetched record over a
   row deleted here but leaves the queued delete, and `pump` sends it. The script branch cancels it.
   `docs/icloud-sync.md:271`: "if the stale Mac changed the item, the item comes back everywhere".
2. `takeover` - *the app saves an old snapshot over the agent's*. The app reads what the agent saved only
   when it gives the lease up and while another process holds it. An agent that saves and ends before
   the app's next look leaves the lease free; the app takes it and goes on from memory. Commands
   acknowledged in between are lost, against "Applies every queued command exactly once".

The others were seen while modelling. Each is behind a constant that the runs leave off, or concerns a
property that no run checks, so that the passing runs say what holds besides. To see one, change the
configuration as the table says; TLC then reports the violation. The first four about `SyncSession` are
among the behaviours of its run, whose properties name them as their exceptions.

| What happens | Configuration | Change |
|---|---|---|
| *Stale apply.* A version that was fetched and one that came with a conflict both wait. The first batch merges and releases the edit, the edit is uploaded and acknowledged, and the second batch, now older, passes every check of `apply_simple` and puts the old version back. | `SyncMac_merge` | `Item = {x}`, `Prompt = FALSE`, one edit on each side; `NoStaleApply` |
| *Early delete.* `flush_state` opens the gate for deletes at the first checkpoint, which may belong to the first page of a fetch that is then interrupted. | `SyncMac_owndeletes` | two entities, `Deleters = {1}`, `Faults = {"fetch"}`, `Prompt = TRUE`, `MaxRemote = 2`, `MaxCrashes = 0`, `MaxFaults = 1` |
| *Merge base.* An upload that is found to have landed is acknowledged without `set_base_payload`; `on_sent` explains why that matters. | `SyncMac_merge` | `Item = {x}`, one edit on each side; `BaseIsSynced` |
| *Catch-up.* That the checkpoint was dropped is on disk, that deletions must be looked for is not. A crash in between and they are never noticed. | `SyncMac_deletions` | `Faults = {"expired"}` |
| *Catch-up cut short.* The same after a long absence: a page of the listing moves the checkpoint, with the time of the fetch, past the deletions that it does not name. A crash before the listing has ended, or before the batch of what it found missing is applied (`flush_state` runs before that batch is counted), and they are never noticed. | `SyncMac_deletions` | `Entity = {template, watchlist}`, `MaxEdits = 0`, `MaxRemote = 3`, `MaxCrashes = 2` (20 steps) |
| *Listing overtaken.* The checkpoint expired, and an upload sent before the restart conflicts. Its batch, with the version of the conflict, waits at the host while the record is deleted elsewhere and the listing ends: the entity is not synced yet, so it is not missed. Then the batch is applied, and the row stays though deleted. | `SyncMac_deletions` | `Faults = {"expired"}`, `MaxCrashes = 0`, `MaxRemote = 3`, `MaxQueue = 3` (16 steps) |
| *Own upload taken for deleted.* During a catch-up whose fetch is interrupted after a page, an upload made in between is not listed by the engine that sent it; when the next fetch completes, it is synced and was not seen, so the row is deleted here though nobody deleted it. | `SyncMac_deletions` | `Entity = {template, watchlist}`, `Deleters = {}`, `Faults = {"away", "fetch"}`, `MaxRemote = 1`, `MaxCrashes = 0`, `MaxFaults = 2`; `NothingMissed` |
| *Echo.* A deletion waits at the host; the record is created again with the same content, the echo check of `admit` drops it, then the deletion is applied. | `SyncMac_deletions` | `NothingMissed` |
| *Merge attempts.* `MAX_MERGE_ATTEMPTS` is compared with a counter that every failed upload increments, so five passing failures before the first conflict leave no merge at all. The passing runs stay below that number. | `SyncMac_merge` | `Me = 2`, `Peer = 1`, `Faults = {"record"}`, `MaxFaults = 5` |
| *Ignored merge.* A Mac edits offline three times while another Mac saves the same content once: fetched, it is linked, and the row counts as unchanged though its upload is still queued, with the higher revision of the three edits. The other Mac then adds an entry, with a lower revision. The upload conflicts, the apply layer is to merge, but `merged_value` takes the record for an older one and ignores it, and the acknowledgement sends the upload again: to no end but `MAX_MERGE_ATTEMPTS`, after which it is saved over the other Mac's entry. | `SyncMac_merge` | `Item` of three, `MaxEdits = 3`; only `NoEntryLost` (36 steps) |
| *Ignored change.* As before a Mac edits offline three times and another Mac saves the same content once; here the upload comes first, conflicts, is found to have landed and is acknowledged, but the row keeps revision 3 where the cloud has 1. The other Mac adds an entry at revision 2: fetched, it is ignored as older, the checkpoint passes it and nothing is queued, so this Mac does not get it before the next edit of either side. | `SyncMac_merge` | `Item` of three, `MaxEdits = 3`; only `NothingMissed` (19 steps) |
| *Two appliers.* A tick longer than `UI_IDLE` lets the worker apply newer batches before older ones; `docs/icloud-sync.md:79`: "an older batch is never applied after a newer one". | `ApplyQueue_order` | `SlowFrames = TRUE` |
| *Overtaken deletion.* `delete_cloud_data` checks the account, but `DeleteZone` carries none and `deleteZone` asks for none. If the account changes before the bridge gets to the command, the zone of the account then signed in is emptied, without its user having been asked. `core.rs:335`: "Only ever the account this database is bound to: never whichever one happens to be signed in." | `SyncSession_session` | `AlwaysAsked` for `OnlyAsked` (12 steps) |
| *Bound before the deletion.* The request waits for the worker while the user binds another account; the core finds that one bound and signed in, and has its zone emptied. | `SyncSession_session` | `EmptiesAsAsked` without its last disjunct (15 steps) |
| *Late acknowledgement.* A batch of one account is applied and its position is pending when the account changes and the user answers "use" or "merge". The next tick carries that out before the worker has handled the acknowledgement; `flush_state` then saves the old account's position with the new one as its owner, and the restart that the choice asked for starts the engine from it. A fetch that still waits at the bridge does the same when the user goes to another account and back, which forgets what this Mac had of the first: it is carried out before the engine is started anew, from where that was, and the next start passes over what was thrown away. `core.rs:294`: "The checkpoint is only valid for the account it was saved under". | `SyncSession_session` | `PositionFits` for `NothingPassed` (16 steps) |
| *Fetched for another account.* A fetch sent under one account is reached after another has signed in: `fetch` asks for no account, and `on_fetched` looks neither at the pause nor at the account, so that the items of the new account come into the database bound to the old one, before the user has chosen (`account.rs:2`: "data never moves between accounts without the user choosing how; any other account is a pause, not a sync"). They do not go into another zone (`NoCrossing`). If the user then takes the new account's data, what had come is thrown away and the position reached is kept: this Mac and the account never agree. | `SyncSession_session` | `Settles` without its last disjunct (30 steps) |
| *Replaced twice.* The choice to take the account's items is carried out again after the merge, while the page still offers it, and throws away what the first one brought. | `SyncSession_session` | `Account = {a}`, `MaxChoices = 4`, no switches and troubles; `NothingGone` (23 steps) |
| *Stage race.* The account changes between the account check of `stage` and the adding of the changes. | `SyncSession_session` | `Interrupted = TRUE`; only `NoCrossing` (9 steps) |
| *Webhook twice.* The owner ends after a webhook was sent and before the save: the next owner fires the crossing again, under another trigger id. | `Alerts_takeover` | `Unseen = FALSE`; `SentOnce` |
| *Failed save.* The app gives up the lease after a save that failed, and the next owner starts from before it. | `Alerts_owners` | `Unsaved = TRUE` |
| *Lagging quote.* A new owner whose quote book is older than the last owner's fires on a quote judged before. | `Alerts_owners` | `Lagging = TRUE` |
| *Clean-up.* The clean-up that a start queues runs on another thread than the first download. | `SelfUpdate_update` | `LateCleanup = TRUE` |
| *Second copy.* The user opens the app while it runs or restarts (`docs/reviews/auto-update-code-review.md` names it). | `SelfUpdate_update` | `SecondCopy = TRUE` |
| *Armed later.* Closing Pine Studio while it asks about the quit replaces the reason of the open question; the relaunch stays armed though the quit is off. | `SelfUpdate_update` | `CloseWhileAsked = TRUE` |
| *Refused but run.* A command that runs longer than the grace is reported as "the request was not applied". | `McpBridge_calls` | `Slow = TRUE` |
| *Another's order.* The newest paper account is deleted and another made, which counts ids from the snapshot: a remembered id names a new order. | `McpBridge_calls` | `Recreates = TRUE` and a third call under another key |
| *Evicted.* A request id is forgotten after 512 others, or at a restart; the tool's text promises that a retry "cannot place it twice". | `McpBridge_calls` | `MemoryLimit = 1` and two keys |

Seen in the code, and outside the properties: `initial_fetch_done` survives `stop` and a new binding;
Keep Local Only sends `Stop` without `ClearPause`, so that enabling sync again shows a prompt that nothing
answers; Don't Sync drops the inbox but keeps the binding and the checkpoint; the MCP audit log's `clear_activity`
after a failed flush writes old rows after the "cleared" marker.

## 8. What is not modelled

*Of the modelled components.*

- `SyncCore`: pauses for network and quota, `Blocked` rows and their repair, rows `Held` after a mass delete,
  the `STAGE_BATCH` limit of 100 rows, errors of the store other than a batch that is not saved, validation and
  quarantine of records of newer builds, categories that are switched off.
- Apply layer: layouts, scripts, alerts, portfolios and paper accounts, which have rules of their own, and
  conflict copies. The merge's order of entries, its treatment of duplicates and its field-by-field rules:
  `Merge3` is a merge of sets. JSON, projection and record encoding: pure conversions.
- `SyncSession`: deletions by other Macs and of the zone's records one by one, failing uploads (`SyncMac` has them),
  `FETCH_STUCK`, `CloudDelete::Failed`, the stash and the backup of a first merge, device identity.
- `Alerts`: notifications and their retry, settings, alerts found to be the same, the limit of alerts, catch-up
  after sleep, Pine and percentage conditions, rejected commands, the unseen counter.
- `McpBridge`: reading tools and dry runs (they change nothing), tools of several bridge calls, the client's
  cancellation by id (a call that leaves), the HTTP deadline (longer than time-out and grace together), rate
  limits, authentication, the audit log.
- `SelfUpdate`: what is downloaded and how it is verified, the lookup of the target, the intervals between
  checks, repainting.

*Components left out.* Portfolio, live data, Pine, replay and undo, charts, drawings and the interface are
computations over data or run on one thread, and unit tests reach them; most of the repository's
lines are there. Paper trading and quotes have an order of events worth a model and are in the plan.
`PROJECT.json` gives the reason for each.

## 9. Plan

Done: `SyncStore` and `SyncMac`; `ApplyQueue` with `FetchOrder`; `SyncSession`; `Alerts`; `SelfUpdate`; `McpBridge` with
`CallOnce`; proofs for each. Left, in this order:

1. `NoEntryLost` and `NothingMissed` also with sends that fail as a whole and where the last writer wins;
   `DeletionsNoticed` also where this Mac deletes too.
2. `SyncMerge`: entry lists with order and duplicates and settings by key, against a reference definition over
   all small inputs; symmetry, and three Macs that come to agree.
3. `PaperEngine`: orders, brackets, fills; cash and positions against the fills.
4. `QuoteEngine`: needs, back-off, bisecting, outcomes that arrive after the plan changed.
5. Network and quota pauses and `Held` rows in `SyncMac`.

Runs are few on purpose, one for each question: a new module takes over a run by folding two of
`SyncMac`'s before it adds one.
