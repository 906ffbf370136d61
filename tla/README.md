# PI-agentteam: TLA+ models, model checks and proofs

PI-agentteam lets a leader `pi` process work with teammates, each a `pi`
process of its own in a tmux pane. The processes never talk to each other
directly: they share a directory of JSON files per team (`team.json`,
`inboxes/<member>.json`, `outbox.json`, `runtime.json`, ...), each file
written under a file lock. Inside one process JavaScript is single-threaded
and the file system calls are synchronous. So two things interleave:

- between processes, the locked sections and the plain reads of those files;
- within a process, what runs on either side of an `await`: timers, file
  watchers and the hooks of the native session.

Everything below is modelled at that grain: *a locked update of a file, or a
read of one, is a step; two of them are two steps.*

## 1. Inventory

Paths are relative to `src/`.

| Component | State | Operations | Hard parts | What makes it correct |
|---|---|---|---|---|
| Durable outbox (`state/outboxStore.ts`, `core/outboxModel.ts`, `app/effectRunner.ts`, `runtime/outboxMaintenance.ts`) | `outbox.json`: effects with status, attempts, claim, dependencies | enqueue, claim, execute, mark done, mark failed, recover | runs of several processes, claims that lapse, crashes between applying and marking | order of dependent effects, one run per valid claim, honest and final outcomes, everything is settled |
| Bridge delivery (`adapters/bridge/delivery.ts`, `runtime/bridge*.ts`, `runtime/deliveryRequestService.ts`, `runtime/workerFsm.ts`, `state/deliveryStore.ts`, `state/bridgeStore.ts`) | `runtime.json` (requests, leases), member status in `team.json`, mailbox, pump and hooks | request, pump, submit, agent start/end, lease heartbeat, maintenance | an awaited send between two locked updates, stale copies, expiry, worker restarts | every message reaches its worker, no unexplained second prompt, records that match what happened |
| Message sending (`app/messageApplication.ts`, `app/messageRouting.ts`, `core/messagePolicy.ts`) | the outbox, and what the sender is told | plan effects, run them one after the other, answer | an effect that fails at first is done later by maintenance, when nobody follows it up | a recipient of a message that asks for a wake is woken |
| Message receiving (`app/messageReceiveApplication.ts`) | `readAt` of mailbox entries | receive, mark read | a read races the pump | a message read is not prompted |
| Leader signals (`runtime/leaderMailboxSignalRuntime.ts`, `runtime/leaderAttention.ts`, `state/leaderProjectionStore.ts`, `state/leaderAttentionStore.ts`) | `runtime.json` (projection, attention), throttle and projected set in memory | sync: claim, project, mark; claim, wake, mark; reset | crash between send and mark, two leader processes, claims that lapse, marks that check no claim, throttle in memory | each message shown, and once unless there is a cause; attention only for what is shown |
| Task board (`core/taskReducer.ts`, `app/task*.ts`, `state/taskStore.ts`) | tasks, owners, blockers, events in `team.json` | create, assign, block, unblock, close, report | reports checked on a stale copy, removed owners | only an owner reports, blocked tasks stay gated |
| Team store and merge (`state/teamStore.ts`, `state/merge.ts`, `adapters/runtime/session.ts`) | `team.json` with revision and tombstones | read, locked update, save of a copy, merge, delete | a save of an old copy over newer changes | what is known of a team is forgotten in few, known ways; no number is given twice |
| Validation, quarantine, migration (`state/validation.ts`, `state/taskHistoryMigration.ts`) | `team.json`, `inboxes/*.json` and `outbox.json`, of earlier versions too; quarantine records | convert legacy notes and effects, check each file, set the directory aside | runs before every operation, outside the lock, in every process; several files; a file that cannot be read is invalid | nothing lost or doubled by converting, no team set aside because another process was converting it |
| Mailbox (`state/mailboxStore.ts`) | `inboxes/<member>.json` | push, peek, mark delivered, mark read | sender and reader at once; failing reads and writes | each id once, marks never undone |
| Locks (`state/fsStore.ts`, `state/runtimeStore.ts`) | lock files | acquire, time out, clear stale, release | crashes in a section, a stale holder that comes back | mutual exclusion, every caller gets an answer |
| Console `/team` (`teamPanel.ts`, `teamPanel/`, `commands/team.ts`, `commands/teamActions.ts`), session binding (`state/sessionBinding.ts`, `session.ts`) | the panel's copy of the teams, its focus, indices and menu; the session's context file and a cache of two seconds | open, keys, menu, confirm, refresh; recover, remove, delete, clean up; derive, remember and forget the session's team | everything shown is old while other sessions go on; a row is kept in up to three fields; a cache nobody else can invalidate | what is marked is on the screen, what is removed is what was marked, the team opened is the session's |
| Worker spawn (`tools/workerSpawnService.ts`), session start (`hooks/session.ts`), team lifecycle (`tools/teamService.ts`, `commands/teamActions.ts`), tmux adapter (`tmux/`) | members, panes and their labels, sessions, lease, request and effect of the initial task | reserve, split, bind, wait, ask for the task, commit, roll back; attach, start and stop the bridge; remove, delete, clean up | some ten awaits in one call; a step that fails half-way; everything is found by the worker's name, which is used again | no pane nobody knows of, the right worker named, its task given, and once |
| Outbox diagnostics, task history read model, prompt building, tool guard, drawing of the panel, registration, configuration | files or nothing | format, check, draw | none between processes | not modelled: sequential, stateless or pure I/O |

`PROJECT.json` lists the components with their state, and, under `hazards`,
every place found where this code can go wrong in a way a test would hardly
reach, with the properties that watch it.

## 2. Plan

Done, in this order:

1. **Outbox**: detailed model, abstract life of an effect, refinement; proved.
2. **BridgeDelivery** over **DeliveryStore** and **WorkerFsm**; its safety
   properties proved.
3. **MessageSend** over **Outbox**; proved, first that it uses the outbox as
   `Outbox` allows, then its own invariants.
4. **TaskBoard**; proved.
5. **LeaderSignals**, projection and attention by several leader sessions;
   proved.
6. **MailboxFile** over **AtomicMailbox**, the lock every other module takes for
   granted, at the example of a mailbox; proved with its refinement.
7. **TeamFile**, validation, migration, merge, refresh; proved.
8. **Workers**, spawn with rollback, sessions, panel; proved.
9. **TeamPanel**, the console and the session's own team; proved.

Left: the hazards without a property, each with its reason in `PROJECT.json`,
and the parts of section 7.

Runs are grouped by instance, not by property: a run checks all that is to be
asked of one instance.

## 3. Modules

| Module | What it models |
|---|---|
| `Outbox` | `outbox.json` and the runs (`runOutboxOnce`) of several processes over it. One action per store operation and per step of a run. |
| `EffectLifecycle` | what the outbox promises for one effect: absent, pending, done or failed, applied only while pending (abstract specification) |
| `OutboxRefinement` | the mapping of `Outbox` to one `EffectLifecycle` per effect |
| `OutboxProofs` | theorems about `Outbox` and their TLAPS proofs |
| `DeliveryStore` | `state/deliveryStore.ts` and the transition table of `runtime/deliveryRequestService.ts`, as operators on the request store |
| `WorkerFsm` | `runtime/workerFsm.ts`: the status each event leads to |
| `BridgeDelivery` | senders, the pump, the hooks of the worker's session, lease and heartbeat, crashes and restarts, composed over those two |
| `MessageSend` | calls of `agentteam_send`, over an instance of `Outbox` whose runs are the calls and the maintenance passes |
| `TaskBoard` | calls of `agentteam_task` by leader and workers, removal of members, saves of old copies of the team |
| `LeaderSignals` | syncs of several leader sessions over the projection and attention stores |
| `AtomicMailbox` | what a mailbox promises: it only grows, by messages and marks (abstract specification) |
| `MailboxFile` | `withFileLock`, `readJsonFile` and `writeJsonFile` step by step, under the mailbox operations; refines `AtomicMailbox` |
| `TeamFile` | `team.json`, `outbox.json` and a mailbox of one team: migration and validation without a lock, then the operation; any read may fail, under a lock too |
| `Workers` | calls of `agentteam_spawn` for one name, how the initial task reaches the worker, the sessions in the panes with their pumps, messages, saves of old copies of the team, the panel |
| `TeamPanel` | the console `/team` of one session, its keys, menu and deeds, and which team is the session's, while other sessions create, take over and delete teams |
| `BridgeDeliveryProofs`, `MessageSendProofs`, `TaskBoardProofs`, `MailboxFileProofs`, `WorkersProofs`, `TeamFileProofs` | theorems about those modules, with their inductive invariants and proofs |
| `LeaderProofs` | the same for `LeaderSignals` and `TeamPanel`, what a leader is shown. It extends both, which is why the names of the second's specification begin with `Panel` |
| `MC*` | instances for TLC |

`TypeOK` says what the variables of a module hold. It is a theorem wherever
there is a module of proofs.

### Outbox

| TLA+ | code |
|---|---|
| `store[e]` | an entry of `effects` in `outbox.json`; `absent` before it is enqueued |
| `claim`, `lapsed` | the claim and whether its `expiresAt` passed |
| `waiting` | `nextAttemptAt` lies ahead (backoff) |
| `run[r]` | one call of `runOutboxOnce`: what it claimed, the effect in its handler |
| `applied` | history: how often a handler changed the world for the effect |
| `lapsedEver` | history: did a claim on the effect ever lapse while in use |
| `Enqueue` | `enqueueOutboxEffect`, which keeps a settled effect as it is |
| `SelectedClaim`, `MaintenanceClaim` | the two callers of `runOutboxOnce`: a command's own effect, or the maintenance sweep |
| `MarkedDone`, `MarkedFailed` | the marks, fenced by the claim id |
| `MarkDoneThrows`, `Abort` | `markDone` throws into the catch block; the process dies or `markFailed` throws |

Time is not a number: a claim may lapse, a backoff may elapse, as steps.

### BridgeDelivery

| TLA+ | code |
|---|---|
| `store` | the `delivery` section of `runtime.json`; `lapsed` and `due` stand for the expiry of the claim and of the request |
| `lease`, `leaseFresh` | the `bridge` section: the lease of the worker's incarnation, and its expiry |
| `status` | the member's `status` in `team.json` |
| `inbox`, `delivered`, `read` | the worker's mailbox, `deliveredAt` and `readAt` |
| `sender[s]` | `requestWorkerDelivery`: the copy of the team it read (`seen`), then one step per locked update |
| `pump` | `pumpBridgeOnceUnlocked`, one step per locked update or read; `sending` is the `await` |
| `worker.hook` | the hook that runs: `agent_start` in three steps, `agent_end` in two, shutdown in two |
| `agent` | the native session: no turn, a prompt accepted, a turn running |
| `prompted`, `trouble` | history: how often a message was in a prompt; which faults happened |

Within the worker's process only the `await` of the send lets a hook in
(`Free`); between the processes everything interleaves. `agent_start` may come
before the send returns. A request that gets due while the pump could serve it
is excluded (`PumpCanServe`): the pump runs every 15 s, a request lives 5 min.
`ReceiveMessages` is `agentteam_receive` called by the worker in its turn: any
set of unread messages is marked delivered, and read if the call says so.

### MessageSend

| TLA+ | code |
|---|---|
| `Sends` | the inputs of `agentteam_send`: sender, `to`, type, task |
| `Recipients`, `Permitted` | `resolveMessageRecipients`, `canSendMessageType` with the gate of the task |
| `SendEffects`, `Mail`, `Ref`, `Wake`, `Event` | effects by what their idempotency key is made of; `SendDependsOn` their `dependsOn` |
| `call[c]` | one call: the recipient and the effect it is at, whether its own run reported that effect done |
| `Execute`, `DeliverTo`, `Delivered`, `Answer` | the frame of `executeSendMessageApplication` and its loop |
| `EnqueueEffect`, `ClaimEffect`, `RunEffect`, `UseResult` | `enqueueOutboxEffect`, `runSelectedOutboxEffects`, and what it reads from the store afterwards |
| `After` | what `deliverMessageToRecipient` goes on with, by effect and success |
| `store`, `run`, ... | the outbox; calls and maintenance passes take their steps by the actions of `Outbox` |
| `told` | history: whom the sender was told it sent to |

A wake is what it asks for; what a delivery request leads to is BridgeDelivery.

### TaskBoard

| TLA+ | code |
|---|---|
| `team` | `team.json`: members, tasks, reports, history; ids are positions, as the counters are part of the file |
| `team.panes`, `tmux` | the state of tmux the recorded pane bindings agree with, and the present one |
| `Begin` | `ensureTeamForSession` (read, reconcile panes) and what the command checks on that copy (`Checked`) |
| `Save` | `updateTeamState(name, () => team)`, where reconciling changed the copy |
| `Commit` | the locked update: `Accepted` is what it checks again, `Committed` what it makes of the team |
| `MailReport`, `LinkReport` | the mail to the leader about a report, then `updateTaskReport` with the id of the mail |
| `RemoveMember`, `EndMember` | `removeSelectedMember`: its locked update, then the end of session and pane |
| `mails`, `overwritten` | history: mail enqueued; whether a save replaced a change its copy did not have |

Read and update of one call are synchronous in one process, so a process has
one call between them at a time; other processes come in between.

### LeaderSignals

| TLA+ | code |
|---|---|
| `mail` | the leader's mailbox |
| `projection`, `attention` | the sections `leaderProjection` and `leaderAttention` of `runtime.json`; `lapsed` stands for `claimExpiresAt` |
| `pc`, `todo` | one call of `runMailboxSync`: the unread messages it found, and the step it is at |
| `seen`, `throttled` | `projectedMailboxIds` and `LAST_ATTENTION_BY_TEAM`, in memory, gone with the process |
| `SessionStart`, `HookSync`, `PanelSync` | what begins a sync: the start of a session, a hook or the file watcher, the panel (which forgets `seen` and the throttle first) |
| `Look` ... `MarkLeaderAttention` | `projectUnreadMailboxItem` and `requestLeaderAttentionForProjectedMessage`, one step per locked update |
| `excuses` | history: claims of a message that lapsed, and marks that threw |

A sync is synchronous: other processes interleave, other hooks do not.

### AtomicMailbox and MailboxFile

| TLA+ | code |
|---|---|
| `file` | `inboxes/<member>.json`, replaced by a rename: ids and marks |
| `lock`, `old` | the lock file's creator; its mtime is five minutes ago |
| `Open`, `StatLock`, `RemoveStaleLock`, `TimeOut` | the loop of `withFileLock` with `clearStaleLock`, which looks and removes in two steps |
| `ReadFile`, `ReadFileFails` | `readJsonFile`, to which every error is an empty file |
| `WriteFile`, `Release` | `writeJsonFile`, and the `finally` that removes whatever lock is there |
| `acked` | history: what calls that returned did, until a lock gets old or a read fails |

### TeamFile

| TLA+ | code |
|---|---|
| `file` | `team.json`: leader, legacy notes, rows of history with the counters they are numbered by, cleanup notes |
| `outbox` | pending effects; `note` and `triage` are the legacy kinds |
| `LookState` ... `SaveState` | `migrateLegacyPersistedStateBeforeValidation`: two reads, two writes, no lock |
| `InTurn` | the loops over notes and effects in their order, which decides the numbers of the rows |
| `CheckState`, `ListInboxes`, `CheckInbox`, `CheckOutbox` | `validatePersistedTeamDir`: one file after the other, each of which may fail to be read (`...Fails`); `reasons` is what it has found |
| `QuarantineTeamDir`, `NothingToQuarantine` | the rest of `validateOrQuarantineTeam`, and which operations go on after it |
| `inbox` | a mailbox: not there, created and still empty, there, of an unsupported shape |
| `Read`, `PanesLeaveIt`, `PanesCallForIt` | the copy an operation reads, and the `await` on tmux that decides whether it is written back |
| `Acquire`, `AcquireFails`, `Commit` | `updateTeamState` and `writeTeamState` under the lock, with the read there, which may fail; `MergeTeamStates` is `mergeTeamStates` |
| `AcquireOutbox`, `ReadOutbox`, `ReadOutboxFails`, `Enqueue` | `updateOutboxStore`: under its lock everything is validated once more (operation `append`), then read, then written |
| `OpenInbox`, `FillInbox`, `PushMailboxMessage`, `RemoveMailbox` | `ensureMailboxFile` in its two steps, an append, the end of `removeSelectedMember` |
| `DeleteTeamState` | `deleteTeamState`, which takes the lock files along |
| `Known`, `Seen` | what the files, and a process between its two writes, say of the team |

### Workers

| TLA+ | code |
|---|---|
| `member` | the member of the name in `team.json`: the call that reserved it, its pane, its `bootPrompt` |
| `effect`, `lease` | the initial task's effect in `outbox.json`, `by` its claim; the lease in `runtime.json`; both found by the name |
| `request` | the name's delivery requests: the pending one at `None`, and what the session in each pane has claimed |
| `run[x]` | a runner between the claim of the effect and its mark: `requestWorkerDelivery`, a step per write |
| `panes`, `labelled`, `session` | tmux: panes, those labelled, and the `pi` session in each |
| `call[c]` | one `agentteam_spawn`, a step per stretch between two awaits |
| `Reserve` ... `Commit` | `spawnWorkerMember` in its order; `RollBack` is `rollbackFailedWorkerSpawn` |
| `RunInitial`, `Maintenance`, `RunSetsBoot`, `RunRequests`, `RunEnds` | the effect claimed by the call or by maintenance, the `bootPrompt` written, the request made, the `bootPrompt` written again and the mark |
| `PumpReads`, `Submit`, `MarkSubmitted`, `RecordSubmitted`, `SendThrows` | `pumpBridgeOnceUnlocked`: what the prompt is made of, the claim and the send, `markDeliverySubmitted`, `recordBridgeSubmitted`, which clears the `bootPrompt`, the catch |
| `Attach`, `StartBridge`, `Stop`, `Dies` | `session_start` with its binding, `session_shutdown`, or no hook at all |
| `ReadTeam`, `SaveTeam` | `ensureTeamForSession` of any session: the copy it read is written back after tmux was asked |
| `RemoveMember`, `DeleteSelectedTeam`, `CleanupAll` | the panel and the cleanup command |
| `orphaned`, `again`, `given` | history: calls that lost their worker; tasks something was left to bring once more when they were given; how often a task was given |

Spawn and panel run in the leader's process; what has no `await` in it is one
step. A prompt has the task of a pending request and the member's `bootPrompt`
(`workerTurnPrompt.ts:95`), so both are tracked. The claim and the call of the
send have nothing between them that another process could see but a heartbeat,
and are one step; from the send to the mark, from there to the clearing of the
`bootPrompt`, and between the writes of `requestWorkerDelivery`, everybody
else may go on. Which of several pending requests is the oldest, whether the
worker is busy and how many attempts an effect has are left open.

### TeamPanel

| TLA+ | code |
|---|---|
| `teams`, `leads`, `members` | the team files: which there are, newest first (`listTeams`), which name this session as leader, their teammates |
| `file`, `cache` | the session's context file; `sessionContextCache`, where `fresh` is "less than two seconds old" |
| `Ensured` | `ensureAttachedSessionContext`: cache, file, or the newest team that names the session |
| `at` | the loop of the command: nothing open, the panel, or a dialog with `result` |
| `data` | `loadPanelData` when it was called last, for the team `teamName`; tasks, messages and panes by number |
| `panel` | `TeamPanelState`: `selected`, `index`, `alias` are `selectedIndex`, the index of each section, and the three legacy ones |
| `Normalize`, `SyncActiveIndex`, `SyncSelectedIndex`, `ClampPanelStateToData` | the functions of these names in `viewModel.ts` |
| `Tab` ... `MenuCancel`, `Done` | one action per key, by the mode it is handled in (`input.ts`) |
| `Only` | a list filtered: the teams a session leads, the teams or members that are left |
| `WindowStart`, `Marked` | `windowSlice`, and the row the list draws its pointer at |
| `RemoveSelectedMember` ... `RecoverTeam` | `handlePanelResult` with what it calls, and the panel opened anew (`Reopen`) |
| `ExecuteCreateTeam`, `HookAsks` | the same session outside the panel |
| `Other*`, `MemberComesOrGoes`, `CacheExpires` | other sessions, and time |
| `aim` | history: what the screen named when the menu was opened |

A key, and a deed after its dialog, is handled without an `await` that matters,
and is one step; what others do comes between any two.

## 4. Runs

| Run | Instance | Shows |
|---|---|---|
| `outbox` | a pair of effects, one depends on the other; two runs, two attempts, two faults, fairness | order (`DependencyOrder`), honesty (`DoneMeansApplied`, `FailedMeansExhausted`), exclusion and no causeless repetition (`SoleRunUntilLapse`, `RepeatedOnlyAfterLapseOrRetry`), finality, the refinement of `EffectLifecycle`, and `SettledUnlessDependencyFailed` |
| `bridge_two` | two senders, two messages, a turn of the user, no fault | what is recorded submitted was prompted, requests join, `PromptIsWelcome` |
| `bridge_faults` | one message, two incarnations, one fault, fairness | a second prompt has a cause, requests move as allowed, and a message is missed only for one of the named causes |
| `send` | three messages: a question of a worker to another about a task, one to a stranger, one by a non-owner; a caller that repeats them, one maintenance run, one attempt, one fault, fairness | `SentMeansAskedFor`, `WakeFollowsMail`, `SentIsSettled`, and each step is one `Outbox` allows |
| `board` | leader and one worker with processes, one more member, one task, four events begun, one pane change | the history tells the board, a report tells its moment, a reporter did own the task, mail and reports name each other, closed stays closed, a task is left with somebody who is gone only by a late assignment or a late save (`StrandedOnlyByLateAssignment`) |
| `signals` | two leader sessions, two messages that want attention, one fault, fairness | `SignalsTellTheTruth`, no causeless repetition (`RepeatedOnlyForCause`), and unread mail is signalled in the end (`MailIsSignalled`) |
| `mailbox` | two processes, two messages, one mark, one crash, one fault, fairness | the lock excludes until one is old (`SoleHolderUntilOld`), nothing a call answered is lost (`AckedIsKept`), the refinement of `AtomicMailbox`, and every call ends |
| `team` | two sessions, a legacy team with a note of each sort and up to two legacy effects, a mailbox, three operations, one crash or failing read | history stays indexed, what is known is forgotten in the named ways only, quarantine has a cause |
| `workers` | two spawns of one name; one fault, one use of the panel, one message, two of these together; saves of old copies whenever a pane is gone | `OrphanHasCause`, `GivenTwiceForCause`, `SpawnedIsNamed` |
| `panel` | two teams, two names of teammates, one row of each other list, room for one row; the panel read three times, three deeds of others, of hooks or of time | the marked row is on the screen (`SelectionOnScreen`), `RemovedAsShown`, `OpensOnItsOwnTeam` |
| `board_facts`, `workers_asked` | small | the disagreements of section 6 |

The runs take from seconds to two and a half minutes with two TLC workers; the
largest, `workers`, has 3.5 million states.

**Bounds.** `MaxAttempts` is the code's own limit, made small; two attempts
show a retry and exhaustion. Two runs are enough for an effect to be claimed,
lapse and be claimed again while the first goes on. `MaxFaults` counts lapses,
crashes and throwing marks; two let a run lose its claim and the next one crash.
`MaxRequests` bounds the requests made in a behaviour (three in `bridge_two`,
where two senders with a message each request, join and request again); `MaxIncarnations` the starts of the worker's
process; `MaxTurns` the turns the user starts himself: these are in
`bridge_two`, and left out of `bridge_faults` to keep it small. One message and
two incarnations already reach every restart hazard; two senders and two
messages are needed only where requests join. In `send` one caller suffices, as it
starts again while maintenance, which is another claimant of the same effects,
still runs what its last call left; one attempt, as a handler that fails at
once is what a call gives up on, and retries are in `outbox`. A message to
several recipients is the loop over them, which this instance enters once. `MaxEvents` bounds the events calls begin
to make: four are a task, its assignment, a change of owner and a report, or
two reports on one task, with removals and the second event of a creation on
top. One pane change is enough for every process to hold an old copy.
In `signals` two sessions show every race over a claim, and two messages that
the throttle of the first gives the second up. In `mailbox` one crash leaves a
lock behind and one fault stalls a holder or fails a read; together they are
what the two guards `aged` and `misread` are about. `MaxOps` is three in
`team`: a process can be in a migration while another deletes the team and
creates it again. The one fault is a crash or a failing read of any file, found
by its validation or under a lock. The operation `log`, a locked update alone,
is left out of the instance, as `dismiss` is one with more after it. In
`workers` two calls let a second spawn meet what the first left; `MaxEvents`
lets two things go wrong together: a failure and a use of the panel, either and
a message. With one event of a kind, a second of the same (two uses of the panel,
two failures) is left to the theorems. In `panel` two teams let one be
shown and another be the session's; two rows in a list with room for one make
every move of the mark a move of the window; three readings are an opening, a
refresh and the opening after a deed. Deadlock is checked everywhere but in
`team`, `workers` and `panel`, where operations, calls and openings are used up.

**Fairness.** Outbox: a started run goes on, an abandoned claim lapses and a
backoff elapses because time passes. Nothing says that a handler succeeds, and
the specifications assume nothing of maintenance: there is no timer for it, only
hooks and commands call it (`hooks/session.ts:33`, `hooks/agent.ts:23`, `:33`,
`hooks/context.ts:30`, `commands/team.ts:54`), so an idle team retries nothing;
the bridge's interval of 15 s (`runtime/bridgeController.ts:132`) heartbeats and
pumps. `SettledUnlessDependencyFailed` and `SentIsSettled` therefore have
`MaintenanceIsCalled` as their antecedent: if hooks and commands keep calling
maintenance as long as it has something to do, then all is settled. Sending: a
call that began goes on; time as for the outbox. Bridge: a
sender's started call goes on; the worker is started and restarted; heartbeat
interval and watchers call the pump again and again (weak fairness), hooks get
their turn although the pump competes with them (strong fairness, as the event
queue serves them in order); a turn ends in the end. No fairness on faults.
Leader
signals: a sync that began goes on, a session that runs has further hooks,
abandoned claims lapse; nothing is assumed of sessions being started or of the
panel. Mailbox: a process in a call goes on, and its clock reaches
`LOCK_TIMEOUT_MS` however often it finds the lock taken (strong fairness of
`TimeOut`). No liveness is stated of the board, the team's files and the
spawning of workers, whose calls wait for nothing but the lock and for tmux,
nor of the panel, which waits for its user.

## 5. Proofs

Every safety property of the runs is a theorem, for all values of the
constants. None of the invariants is inductive alone. Each module of proofs
defines an inductive invariant (`IInv`, and `PanelIInv` of the console), proves
that it holds initially and that every action keeps it, one lemma per action,
and draws the properties from it. Each was checked by TLC on the
instances of section 4 before it was proved. What follows is what each of them
adds, and why.

**Assumptions.** Nothing is assumed but what the modules declare: bounds are
natural numbers, `MaxAttempts`, the number of requests and that of incarnations
positive; names of people, `None`, `Nobody`, `NoTask`, `NoRun` and fields of a
mark are different things; a team is none of these; the screen has room for a
row; `None` is no entry of the menu either; the process that runs maintenance is
no spawn call (`RunnersAssumption`); there is some input of a send, and
it has a sender who is a member, one of the three types and a task of the team
or none (`SendsType`). Sets of effects, processes, messages and calls may be infinite.

**Outbox.** A claim is on pending effects only (`StoreShape`), a run works on
at most one effect of those it claimed (`RunShape`), what a run is about to
execute has its dependencies done (`WorkIsReady`), a run about to mark done has
applied its effect (`MarkDoneIsEarned`), a run at work holds the claim or the
claim once lapsed (`WorkerHoldsClaim`), and an effect not applied yet is not
counted as repeated (`AppliedIsNotRepeated`). `DependencyOrder` survives
because `done` is final, and `done` is final because marks are fenced by claim
ids and by the terminal check. `Refinement` maps every step to one of
`EffectLifecycle` or a stutter, for each effect.

**MessageSend.** Two layers. `CallShape`, which speaks of calls alone, is enough
to see that every step is one of `Outbox` (`ImplementsOutbox`); so what is
proved of `Outbox` holds of the outbox the calls use. On top of it, `Progress`
says what a call has brought about by the time it is at an effect, from which
`SentMeansAskedFor` and `WakeFollowsMail` follow: effects enqueued stay, `done`
was applied, and a wake depends on its mail.

**BridgeDelivery.** The pump checks a request in one locked section and writes
in another. `OwnClaim` says that a request found with the claim of the pump's
own incarnation is that of its prompt, however late; `PumpShape` and
`RequestShape` what the pump's variables and a request look like at each point;
`PromptOfPump` that the prompt's messages are new while it is composed and
prompted once it went out. Hence `SubmittedWasPrompted`. As long as nothing
takes a claim back, a claim is of the present incarnation (`OnlyOwnClaims`) and
a message is in one request (`OneRequestEach`): hence no second prompt without
cause, and `PendingRequestsJoin`. `PromptIsWelcome` and `MovesAsAllowed` are
action properties drawn from the same invariant.

**TaskBoard.** A call may write a copy it read long ago, so what is said of the
team is said of each copy (`Sound`, `CopiesAreSound`): history replays to the
board, reports tell their moment, tables are dense, owners come from
assignments. The core is that every locked update of a sound team, whatever
call makes it and however old what it checked, makes a sound team. What no
single copy can promise holds as long as no save overwrote a change: a report
on its way was checked against an owner the history names (`ReporterOnceOwned`),
mails and reports name each other (`MailsOnTheWay`, `MailNamesItsReport`).
That a task may be left with a worker who is gone is a real gap of `assign`,
whose new owner is looked up before the lock is taken; `StrandedLate` shows it
is the only one besides the save of an old copy: a removal gives back every
task to be done (`RemovedStrands`), a creation looks up the owner under the
lock (`CreateStrands`), no other command changes an owner (`CommitStrands`),
and only the leader comes to commit one (`CommitsArePrivileged`, a second
invariant next to `IInv`).

**LeaderSignals.** What a session is about to mark, or believes projected, did
take place (`Witnessed`). That nothing is repeated without cause is a counting
argument (`ShowBudget`, `WakeBudget`): shows so far, sessions that are about to
show, and one for a claim that is free are at most one more than the excuses.
A claim moves one unit from the free claim to a session, a show from the
session to the shows; a lapse or a mark that throws brings its own excuse.

**MailboxFile.** Until a lock file gets old, whoever is in the section created
the lock file that is there (`Exclusive`); this needs that nobody is about to
remove one (`AgeIsSeen`). So a copy read in the section still is the file when
it is written (`CopyIsCurrent`), a write is a step of `AtomicMailbox`, and it
keeps what earlier calls were answered for.

**Workers.** A call that is not recorded as having lost its worker has the
member it reserved, with its pane from the binding on (`KeepsItsMember`), and
the pane of a member, or of the copy of one that may be written back, is that of
its own call or of a recorded one (`PaneOfMember`): hence a pane is somebody's.
A task is in up to six places, and `Comes` says what of them may still bring it:
its call, its effect and whoever runs that, a sender, a copy of the team, a
request or a pump that has not sent. Two places are excused, and only between a
send and the end of that pump: the request claimed for the prompt (`SentFor`)
and the member's `bootPrompt`, which that pump is about to clear; whoever reads
the latter then is recorded (`ReadLate`). A task that was given, and not while
something else had it, has nothing that `Comes` (`UsedUp`); whatever ends the
pump otherwise (a send that throws, a claim that lapsed, the end of the session)
is recorded as a cause. `RunsOfCalls` says a call runs the effect in one step of
its own only, so its task comes while it does.

**TeamFile.** Validation takes no lock, and other processes write between its
reads, its two writes and its checks. Still what it achieves lasts: once the
team is not legacy and no legacy effect is pending, neither comes back, because
every copy that is written later was read later (`CopiesFit`), and how far a
process has come, with no read failed and no reason found, says how far the
files are converted (`Reached`). So a check finds nothing of an earlier version
that another process was still to convert, only what no version converts, or a
file that could not be read: `QuarantinedForCause`. What is recorded in the
present version, facts and effects, is recorded only where nothing is left to
convert, so no process that converts has read any of it (`FactsAreLater`); who
holds the lock of `team.json` has read every fact there is, and who holds that
of `outbox.json` every new effect (`EffectsAreRead`), unless the read under the
lock failed (`misread`). In that case `updateTeamState` leaves the file alone
and only a creation overwrites it, and an enqueue writes an outbox with its own
effect alone: two of the ways of `MayForget`. Hence a conversion keeps all its
copy said, and `ForgottenOnlyByStaleCopies`. `HistoryIsIndexed` is said of every
copy a process carries, as any of them may be written. That a list is converted
one entry after the other (`InTurn`) needs an argument of its own, without
induction over an operator: the stages of a conversion exist, and the first
stage that broke a promise would have had a predecessor that broke it
(`NoFirst`, `StagesExist`).

**TeamPanel.** The code keeps the mark of a list in up to three places, which
keys, clamping and drawing read by different rules. `Fits` says that, whichever
of them counts (`Cursor`), the mark is on a row of its list or at the first
place of an empty one, for every list the panel can turn to, not only the one in
focus: hence turning to another needs no clamping, and `SelectionOnScreen`
follows with `WindowShowsCursor`. `ClampFits` is why a refresh, or opening,
restores it from any state. `MenuFits` says of every entry of an open menu that
it is about the team or row the screen named then: hence what is asked, what the
dialog hears, and `RemovedAsShown`. For `OpensOnItsOwnTeam`, `EnsuredIs` says
that the session's team is led by it or comes from the fresh cache, and
`DeletedTeamsKeep` that a team deleted was not led, or the cache is cleared. What
a list filtered with `Only` holds (`OnlyIs`) is proved as for the conversions of
`TeamFile`, by the stages there are.

**Only model-checked.** All liveness (`SettledUnlessDependencyFailed`,
`MissedOnlyForKnownCause`, `SentIsSettled`, `MailIsSignalled`, `CallsEnd`), which
is out of this prover's reach, as is ENABLED. Also the pure functions behind the actions are proved about only as far
as the invariants need them.

## 6. Where the code differs from what it says

- `board_facts`: whoever finds a pane moved or gone saves the whole copy of the
  team it read (`adapters/runtime/session.ts:70`, `:116`, `:167`,
  `teamPanel/dataSource.ts:25`). A change the leader committed in between is
  undone, along with its history; ids of tasks and reports are given again.
  `README.md:188` says that only the leader changes these facts.
- `workers_asked`: the effect that asks for a worker's initial task is keyed by
  team and name (`tools/workerSpawnService.ts:112`), and a finished effect is
  kept. A worker removed and spawned again under its name gets no task, though
  the call says it was requested.

The models show more of the kind, which no run singles out; the properties
state them as the causes, or the exceptions, they allow:

- Bridge. A request that expires while its worker is in a long turn is asked
  for by nobody again (`runtime/bridgeDeliveryPump.ts:189`).
  `guardedTransition` checks outside the lock and writes inside it, so an
  expired request may become submitted
  (`runtime/deliveryRequestService.ts:77`). `agent_start` marks all messages of
  the request delivered, those that joined after the prompt included
  (`runtime/bridgeLifecycle.ts:38`). `requestWorkerDelivery` saves a status
  computed from an old copy, and `running` written over a turn that ended stays.
  A stopping session removes the lease of a newer one
  (`runtime/bridgeLease.ts:173`).
- Sending. When the mail fails at its first try, the call gives up on the
  recipient; maintenance delivers the mail, and nobody wakes the recipient
  (`app/messageApplication.ts:267`).
- Board. Who owns a task is checked on the copy only: the report of a former
  owner is recorded (`app/taskReportWorkflow.ts:53`). A removed owner leaves a
  task open with its `blockedBy`, neither assignable by message nor unblockable.
- Leader signals. Attention that the throttle holds back is recorded `skipped`,
  which is final (`runtime/leaderMailboxSignalRuntime.ts:286`): the exception
  in `MailIsSignalled`.
- Lock. Two processes wait for an old lock; the slower removes the new lock of
  the faster (`state/fsStore.ts:24`). Hence `aged` in the properties.
- Team files. Migration and quarantine run unlocked on every access
  (`state/validation.ts:560`, `:580`): an enqueue, or a locked update, in
  between is overwritten; a crash between the two writes loses what was
  converted; a team deleted while another session saves it is there again.
  `MayForget` lists these ways. Under a lock too a failing read is an empty
  file: a creation then overwrites `team.json` (`state/teamStore.ts:147`), an
  enqueue forgets all other effects (`state/outboxStore.ts:106`). One failing
  read in a validation sets the whole team aside, and so does a mailbox that
  another process has just created and not filled (`state/mailboxStore.ts:18`)
  or removed after it was listed (`commands/teamActions.ts:47`).
- Workers. A tmux command that fails after the split leaves a pane with no
  label, which not even the cleanup command finds. Binding and roll back act on
  whatever member has the name by then. The initial task is in the effect, in a
  request and in the member's `bootPrompt`, and a prompt takes it from both of
  the latter: the last commit of a spawn writes the `bootPrompt` again after the
  pump gave the task and cleared it, a sender or a refresh with an old copy
  brings it back, a sender reads it after the send and before it is cleared
  (`adapters/bridge/delivery.ts:125`), or the claim lapses during the send: the
  task is given twice (`GivenTwiceForCause` lists the ways). A request or effect
  of a removed worker goes to the next of the name.
- Session's team. Whoever takes a team over or deletes it cannot invalidate the
  cache of the session that led it, which goes on with that team for up to two
  seconds (`state/sessionBinding.ts:174`): the exception in `OpensOnItsOwnTeam`.

## 7. Not modelled

Of the bridge: the `bridgeWork*` display fields, two processes of one worker at
a time (Workers has them, in terms of the task they are given), `paneLost`. Of receiving: reading back reports. Of the board: who exactly
blocks a task, texts. Of the signals: what the message says. Of the mailbox:
its removal with its member (TeamFile has it, in terms of whether the mailbox can
be read). Of the team's files: members and tasks (a merge only ever meets a team
just created, which has none but the leader), which shapes of a file are
unsupported (`unsupported` stands for all of a mailbox, `triage` for all of
`outbox.json`), more than one mailbox. Of workers: panels in a second leader process,
context file and cache of a worker's binding (a session is bound if and only if
the team has the member), the member's status (WorkerFsm and BridgeDelivery have
it). Of the panel: what is drawn, the scroll offset of the details, the copy
that opening it may write back (TeamFile has that). Of sending: an instance with
several recipients at once is too large together with faults and fairness.

Not modelled at all, as `PROJECT.json` says with reasons: outbox diagnostics,
the read model of the task history, prompt building, the tool guard,
registration and configuration. They are sequential, stateless or pure I/O:
formatting, tables and wiring, over state other modules have.

Run `tlc -config X.cfg M` for a run of section 4 and `tlapm M.tla` for the
proofs in a module of section 5.
