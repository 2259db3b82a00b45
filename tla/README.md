# Formal models of yoloswe

This directory holds TLA+ models of the concurrent cores of this repository, the
TLC configurations that check them on small instances, and proofs, checked by
TLAPS, of what holds for every instance. Every definition is a translation of
the Go code; the file, lines and symbol it stands for are listed in `map` of
`PROJECT.json`, and the hazards each property is aimed at under `hazards`.

Contents

1. What the repository consists of
2. The modules
3. What the runs check
4. What is proved
5. Disagreements between code and documentation
6. Properties that do not hold, and are not checked
7. What is not modelled
8. Plan

## 1. What the repository consists of

yoloswe is a collection of Go programs that put coding agents (Claude, Codex and
others, each a subprocess with a line protocol) to work: in a terminal
interface, from an issue tracker, on pull requests, on broken CI. What the
programs have in common is the shape of their core: one owner of a table of
work, keyed by an ID (a session, an issue, a pull request), and goroutines or
subprocesses that do the work and report back later, when the owner's table may
already be about something else. The models are about that shape.

| Component | State it keeps | Operations | Talks to | What is hard | What makes it correct |
|---|---|---|---|---|---|
| **bramble session manager, TUI** (`bramble/session/manager.go`) | sessions by ID, status, CLI session ID, a follow-up channel per ID, contexts, the store | start, resume (with rehydration), follow up, complete, stop, delete, close | UI goroutines (calls), runners (calls), the store (files) | several goroutines per ID; status, channel and store change under different locks; deferred clean-up outlives the status | one turn loop per session; an active status has a goroutine; the channel found is the one read; what is stored is final and current; stops and closes are noticed |
| **bramble session manager, tmux** (`manager.go`, `tmux_runner.go`, `pane_idle.go`) | tracked windows, pane text, confirmation counters | monitor, revive, reconcile after a restart | tmux | idleness is guessed from text that may be older than the turn | a turn ends once, and only if it ended |
| **bramble notifier and delegator** (`delivery.go`, `delegator_tools.go`) | claims on notifications, the parent's status | claim, check, paste, mark running, Enter, undo | tmux, the manager, other processes through the store | status read two round trips before the paste; several managers notify one parent | a notification is delivered once and to an idle parent |
| **symphony orchestrator** (`symphony/orchestrator`) | running, claimed, retry entries, timers, cancel functions, all by issue | poll, reconcile, dispatch, worker exit, retry, shutdown | tracker, workers (channels), timers, workspaces | answers of workers, timers and polls arrive after their issue has been given up or dispatched again | limits; one worker per workspace; no lost retry, no leaked claim |
| **symphony workspace, agent client, tracker, config, HTTP** | directories, a codex process, none | create, remove, turn, list | the orchestrator | process protocols | as a service of the orchestrator |
| **jiradozer team mode** (`jiradozer/orchestrator.go`, `discovery.go`) | seen set, queue, active table, failure counts, released set, preserved worktrees | poll, start, wait, clean up, restart by exec | tracker, `wt`, subprocesses, signals | two goroutines and one waiter per child over one mutex taken many times; exec in the middle of anything | limit, one agent per worktree, label and worktree outlive the agent, no issue lost, no endless retries |
| **jiradozer workflow** (`workflow.go`, `state.go`) | phase, comment cursor, labels | plan, build, validate, ship, review | tracker | comments and labels change between steps | phases advance only when approved |
| **jiradozer leases and gc** (`lease.go`, `gc.go`, `runlog.go`) | lease files | acquire, renew, collect | file system | two processes | nothing in use is collected |
| **prdozer** (`watcher.go`, `orchestrator.go`) | counters per pull request, on disk | tick: snapshot, decide, act, save | GitHub, agents | acts before it saves | an action is not repeated without end |
| **medivac** (`engine`, `issue`) | CI failures and their status, on disk | scan, fix, review, merge, verify | GitHub, agents | parallel fixes, saves between phases | a status follows what happened |
| **multiagent** (`orchestrator`, `agent`, `checkpoint`) | logical turn, phases, checkpoint file | turn events, phases, resume | agent processes | events of background tasks out of order | a turn ends when, and only when, all of it has |
| **agent-cli-wrapper, claude** | turns, waiters, suppressed completions | send, wait, interrupt, wake-up | CLI process | completion before, during, after a wait | each waiter wakes with its turn's result |
| **agent-cli-wrapper, codex, acp, cursor, agy** | threads, pending requests | as above | CLI processes | as above | as above |
| **agent-cli-wrapper, protocol and helpers** | none | encode, decode, log | – | – | data |
| **bramble hub and control** (`bramble/hub`, `bramble/control`) | machines, pending requests, subscriptions | register, request, reply, time out | sockets | reply, time-out and disconnection race | a request ends once |
| **bramble terminal interface and helpers** | views | – | session manager | one event loop | – |
| **bramble meeting bot, replay, analysis** | – | read logs | – | – | – |
| **wt** | git worktrees | create, remove, merge, an undo list | git | a failure half-way | undone in reverse |
| **yoloswe** | builder and reviewer turns | loop | claude session | sequential | – |
| **fleet, voice, notify, logging, cliapp** | – | – | – | – | – |

Modelled are both halves of bramble's session manager with its notifier,
symphony's orchestrator, jiradozer's team mode and the workflow of one issue, the
turns of a claude session and the consumer of its events in multiagent, the link
between bramble's hub and an agent, and prdozer's watcher. They own the most state, have the most actors on
it, and are the code on which the others depend or which they resemble (the other
CLI clients resemble the claude one, medivac resembles prdozer). `components` in
`PROJECT.json` says of each what of it is modelled.

The components share no memory across programs. Within bramble, the notifier and
the hub call the session manager's exported methods, which is how the models'
callers act; jiradozer calls `wt` and the tracker, symphony calls the tracker and
its workspaces, prdozer calls GitHub and an agent, and all these appear in the
models as the outcomes the calls may have. `LogicalTurn` sits on top of
`ClaudeTurns`: its session passes events on in the order that `ClaudeTurns` takes
apart, one prompt at a time. A child of `JiradozerTeam` is a process that runs
`JiradozerWorkflow`, whose ends (done, failed, killed) are its outcomes there. The two
halves of the session manager exclude each other: a process runs in tmux mode or in TUI mode.

## 2. The modules

| Module | Models | Instantiated by |
|---|---|---|
| `SessionManager` | the TUI session manager, one session ID | `MCSessionManager`, two configurations |
| `SessionManagerProofs` | theorems about it | – |
| `TmuxSession` | one session in tmux mode: the window, the monitor with its idle detection, the notifier's hints and other writers, Close, restart and reconciliation | `MCTmux`, one |
| `TmuxProofs` | theorems about it | – |
| `SymphonyOrchestrator` | symphony's event loop, ticks, workers, timers | `MCSymphony`, two |
| `SymphonyProofs` | theorems about it | – |
| `JiradozerTeam` | discovery, the loop, children, restart | `MCJiradozer`, two |
| `JiradozerProofs` | theorems about it | – |
| `ClaudeTurns` | the turns of a claude session: callers, read loop, wake-ups and their safety timer | `MCClaude`, one |
| `Promises` | the rendezvous that the turn manager implements | an instance in `ClaudeTurns` |
| `ClaudeProofs` | theorems about it: the refinement and the safety of turns | – |
| `LogicalTurn` | a prompt with background tasks: when its turn is over, and how | `MCLogical`, one |
| `AgentLink` | the hub, one agent that dials in, the requests and subscriptions of browser tabs | `MCLink`, one |
| `LinkProofs` | a theorem about it | – |
| `PRWatcher` | prdozer's ticks on one pull request | `MCWatcher`, one |
| `WatcherProofs` | theorems about it | – |
| `JiradozerWorkflow` | the workflow of one issue: phases, reviews, comments, labels | `MCWorkflow`, one |
| `WorkflowProofs` | theorems about it | – |

Each `MC` module extends its component and only names the small sets the
configurations choose from. `Env` (session manager, symphony, jiradozer) is the set
of things the environment is allowed to do. The safety properties of the session manager
and of symphony hold for all of it; where a property does not survive something, its
configuration leaves that out, and section 6 says why. The other modules have
`Scenarios` instead: a scenario is a budget, how often each event of the environment
may happen, chosen in the initial state and used up in `left`, so that one run covers
many small environments that would be too many to explore in combination. Operators under a comment that starts
with "Mutant" are not part of a specification: each is a plausible mistake in the
definition that follows it, used to see that a property would notice.

### SessionManager

Every map of the `Manager` is keyed by session ID and no critical section spans
two IDs, so the module is about one ID. Go identities become sets: `Run` for
`runSession` goroutines (each with its context and the channel it makes), `Obj`
for `*Session` values (a rehydrated session is a new value), `Caller` for
goroutines inside the exported API.

| Variable | In the code |
|---|---|
| `registered` | `m.sessions[id]` |
| `status`, `cliID`, `ctxOf` | `session.Status`, `session.CLISessionID # ""`, `session.ctx`/`session.cancel` |
| `owner`, `pc` | the argument and the program counter of `runSession` |
| `cancelled`, `mgrClosed` | contexts that are done: a run's, the manager's |
| `followUp`, `inbox`, `closed` | `m.followUpChans[id]`; what a channel buffers; whether it is closed |
| `snap`, `store` | `persistSession`'s copy taken under the lock; the file |
| `call` | what a caller looked up and has not used yet |
| `panicked` | the process died |
| `overlap`, `writer` | history: pairs of runs of which the first had not returned when the second was started; the run whose record is on disk |

A step is what the code does between two points where another goroutine can be
seen: a critical section, a channel operation, a call that blocks. Every exported call
begins with `Find`, its look at `m.sessions`, and goes on one lock at a time:
`SendFollowUp` with `SendChecks` (the status), `SendLookup` (the channel) and `Send`
(outside all locks); `CompleteSession` with `CompleteChecks` and `CloseChannel`;
`StopSession` with `StopChecks` and `Cancel`. `ResumeSession` is `Find`, or `ResumeMisses` and
`Rehydrate` (`RehydrateFails`) when the map has no entry, and then `ResumeClaims` or
`ResumeRefused`, the critical section of `session.mu`; nothing in it waits for the
clean-up of the run before. `DeleteSession` drops the entry and `DeleteRecord` the file.
`updateSessionStatus` is `UpdateStatus` with its rule that a terminal status is
left only for another terminal one. A start that fails persists the failure, or returns
without (a session type that the switch does not know). The loop that `runSession` idles
in is a select: `IdleStopped`, `IdleFollowUp`, `IdleCompleted`, and `IdleChildEvent` for
a delegator. The deferred clean-up is `CleanUp`, `Snapshot`, `Save`; a `Save` may fail
and leave the old record. `Restart` is a crash or an exit at any moment: only `store`
survives it.

### SymphonyOrchestrator

One goroutine owns all scheduling state and handles one event at a time, so a
handler is one action. `o[i]` is the record of what its maps hold for issue `i`:
the running entry, the cancel function, the claim, the retry entry, the timer,
the last generation, timers armed and fires that wait in the channel. The k-th
worker dispatched for an issue is `<<i, k>>`, an identity the code does not have
(its messages carry the issue only) and the properties need. A tick is a
goroutine in three steps (`Reconcile`, `FetchCandidates`, handed over to
`HandleTick`), each reading the tracker as it is then. `HandleTick` is all of
`handleTickResult`: stalls, reconciliation in the order of the actions, clean-up
of workspaces, then the dispatch loop, where `Dispatchable` is every set of
issues that the loop may end up dispatching whatever the priorities are: sets
that respect both limits and could not be larger. `HandleRetryFired` is the
whole handler, with the tracker's answer taken in it, since the loop waits for it.
A tracker's reply may leave issues out (`"silent"`): a poll and a worker then go
on with what they have.
A worker looks for its workspace (`CreateWorkspace`), makes it if it is not there
(`MkdirWorkspace`) and runs the hook for a new one (`AfterCreateHook`), launches the agent,
runs turns and asks the tracker between them; each may fail, and each may be cut short by a
cancelled context or take no notice of it. When the hook fails, by itself or because its context
was cancelled, `HookFails` removes the directory, which another worker of the issue may be using by
then; `robbers` is history, for each worker those who did that to it.

### JiradozerTeam

`disc` and `seen` are `Discovery`'s, `main`, `pending` and `failCount` belong to
`RunWithDiscovery`, and `slot`, `freed`, `failures`, `released`, `preserved` to the
`Orchestrator` under `o.mu`. `ch` is the sequence of subprocesses ever launched,
each with the place its waiting goroutine has reached. `Start` is five steps,
because four calls in it can fail or take long: `Reserve` (the placeholder),
`NewWorktree` with the lock label, `Launch`, `Claim`, `Install`. A waiter is
`Reap`, `Record`, `CleanUp`, `Delete`, the order of the code. A poll is `List`
(the tracker), `ReadActive`, `Rebuild` and the sends on the channel, received by
`Receive`. `TakeSnapshot` and `Exec` are the exec restart, in a goroutine of its
own; a child that is not in the snapshot is `lost`, which means that no process
waits for it, not that it ends. Poll and waiter take `o.mu` several times, and
these are exactly the points at which the model lets others in.

### TmuxSession

One session in tmux mode. The window is not bramble's: people type into it, the
process in it ends when it likes, and it outlives bramble. `agent` is what the CLI
really does and `pane` what its screen shows; `Repaint` brings the second up to the
first. `notes` counts completion hooks under way, `composer` is what stands in the
prompt line (a draft, hints, an input), `origin` is history: whose write began the
present turn, and whether a hook called it over (`"reported"`) or a restart took it over
with a record that calls the session idle (`"adopted"`).

| Variable | In the code |
|---|---|
| `status`, `epoch`, `inMap`, `outputs`, `cancelled` | `Session.Status`, `turnEpoch`, `m.sessions`, `m.outputs`, the session's context |
| `mon` | the program counter and locals of the loop of `runSession` or of `monitorTrackedTmuxWindow` |
| `tracker` | `paneIdleTracker` |
| `writer`, `claimed` | the notifier's workers and control requests between two tmux calls; `pendingNudge` |
| `mgr`, `listed`, `store` | how far Close is; what it listed; the session's file |

A tick of the monitor is `TickReads`, `Poll`, `Apply`, `CheckWindow`, with the
status read in the first, the pane in the second and the transition made in the
third. `PersistEnd`, `Drop`, `Deferred` are the ends, `AdoptedStops` the one of a
session found after a restart. A hint is `Hint` (the parent's status), `ClaimNudge`,
`Look` (the pane), `Paste`, `MarkRunning`, `Enter` with the undo; a control request
leaves out the first three. `CloseLists`, `ClosePersists` and `CloseCancels` are
`Close`, `Restarts` is `reconcileTmuxSessions`.

Assumptions. An agent repaints between two polls, so at most one poll sees an
outdated pane: polls are seconds apart. A pane always shows one of the two: one that cannot
be judged would only reset a streak (`pane_idle.go:390`, `:415`), and a pane that stays so
would leave a session's status to the hooks for as long. A streak is cut when it passes the
number of confirmations, where the code counts on without looking. `persistSession`
is one step. Unless a scenario has `"overlap"`, no tick falls between the mark of a
write and its Enter or into Close, and the writes of two writers do not interleave in
the last two steps: those windows are milliseconds wide, and what they do is in the
scenarios that have the overlap, for the properties that survive it.
`TmuxExitOnQuit`, which also kills the windows, is false in the runs, its default; the
theorems hold for both. A worker of the notifier is not a control client (`WritersDiffer`).

### ClaudeTurns, Promises

One `claude.Session`. `handleResult` takes and releases `Session.mu` several times, and each
stretch between two releases is an action of the read loop (`rl.pc` is its place, the
rest of `rl` its locals): `ReadResult`, `ConsumeTransient`, `SnapshotWakeup`,
`ReadTurnNumber`, `TakeUsage`, `Suppress` or `CheckLimits`, `ReadLoopCompletes`,
`ReadLoopAnnounces`. The safety timer's goroutine is `TimerFires`, `TimerTakesOver`,
`TimerCompletes`, `TimerAnnounces` with its state in `cb`. `timer` is what
`wakeupState.timer` points at. A goroutine that takes a suppressed completion over drops that
pointer without stopping what it points at, so a timer may run on that nothing can stop,
and its goroutine may meet another one; these are in `strays`, with the same steps
(`StrayFires`, `StrayTakesOver`, `StrayCompletes`, `StrayAnnounces`). A caller is
`SendMessage`, `WaitForTurn`, `CancelWait`; a waiter's channel is `caller[c].on`, the turn it waits for. The CLI
takes prompts in order, prints a result for each wave, may schedule wake-ups and
continues by itself when one is due, or not.

Wall-clock durations are left out: the timer may fire at any time while it is
armed. Costs are one per result. `Emit` after `Stop` is dropped; that a
channel may be closed between the check and the send is outside this model.
`completions`, `answers`, `abandoned` and `cb.stale` are history; the last says that a
timer's goroutine has ended a wait other than its own. `Distinct` names
what the code relies on to tell a continuation from an answer: the callers
take turns, and no turn ended with a wake-up of its own to come. Without
`"overlap"` a prompt is sent when the session owes nobody a result, which is how
every caller in the repository uses it.

`Promises` is the rendezvous in the abstract: promises that are kept once, callers
that wait for one, and `Keep`, which releases its waiters in the step that keeps it.
`ClaudeTurns` instantiates it with the recorded results as what is kept and the
registered waiters as those who wait; `ResultsArePromises` says that every behaviour
of the session is one of it, which excludes the lost wake-up between `WaitForTurn`'s
look and its registration.

### LogicalTurn

One `Execute` of `ClaudeProvider` on that session. `Apply` is
`logicalTurnState.Apply` with one operator per kind of event, `LogicalTurnDone`,
`Outcome` and `TerminalOutcome` are its verdicts; `TakeEvent`, `StreamEnds`,
`GraceExpires`, `ContextEnds` are the arms of the select in `consumeTurnEvents`,
with `Rearm` after each event; `Retry` is `runRetryLoop`. The session below is coarse here:
`EndWave` is all of `handleResult`, since only one prompt is out.

What is assumed of the CLI: one continuation for each notification that finds it
parked; a task's update and notification, and its call and start, come in the same
wave, though in either order and perhaps twice; a refusal comes in the wave of its
call or of a later one. The events channel does not fill. `HasLiveTasks` has no
caller and is left out. `last` and the `Early` mark are history. A retry is not
combined with wake-ups.

### AgentLink

Three connections that the agent dials one after the other, the hub's machine for
each, and browser tabs. `conn[k]` is both ends of a connection with the machine's
`pending` and `sinks`; `down` and `up` carry requests and replies in order; `hand` is the
reply `readLoop` holds between taking its caller from `pending` and sending to it.
Every request is handled by the agent in a goroutine of its own (`handler`), and every
subscription is a poll loop (`polls`) which `subs` can name and cancel. `tab[b]` is a
`browserBridge` with the request its `handle` waits for.

`Add`, `Remove`, `ReadError`, `ServeEnds` and `Dial` are the life of a connection, with the
hub's and the agent's ends noticing a broken one separately; `Dial` waits for the
handlers of the connection before, as `Serve` does. A tab uses one `sub_id`
throughout, and all tabs the same. The last of the three connections is not dropped.
The frames themselves are data and left out, but for the one that says the pane
failed. The limit of sixteen requests at a time is not reached. `Timeout` gives
up the request and the sink in one step. Other requests than subscriptions go the
same way through `request` and have no state at the ends.

### PRWatcher

One babysat pull request. `disk` is the saved `State`, `mem` the state a tick works
on, `snap` what it saw, `pr` what GitHub has. `Look` loads, takes the snapshot, scores it
(`Expired`, `Charged`, `Scored`) and takes the `Decision`; `PolishEnds`, `PolishFails`,
`Merge` and `Rework` act; `Record` records the snapshot, applies the failure streak and
the merge brake, and saves, or does not: a failed save or a crash there loses the
tick's state after it has acted. `hist` counts what really happened, saved or not,
and is history. People edit the pull request at any time, also while a tick
acts on what it saw before.

Left out: watch mode and the orchestrator over several pull requests (each has its own
state file), dry runs, the text of reports, when a cooldown ends (it may at any time),
pending checks, IDs of failed runs (folded into `red`), and the cap of 500 on
remembered comments. `LookAt` is a look at a given snapshot; `Look` chooses it. A round that succeeds may leave threads and checks in any state; one
that fails may push and leaves the rest to the edits.

### JiradozerWorkflow

One issue, and one workflow at a time for it: team mode sees to that.

| Variable | In the code |
|---|---|
| `issue` | the labels and the comments the tracker has |
| `planFile` | `.jiradozer/plan.md` in the worktree, which outlives the process |
| `wf` | the `Workflow`: `state`, `phaseLabels`, the labels last seen, `lastCommentAt`, `botCommentIDs`, `redoCount`, `approveAll`, the plan and the feedback |
| `todo` | the calls that the handler under way still makes, in its order |
| `cfg` | what of the configuration matters: automatic approval, skipped phases, steps with rounds |
| `hist` | what has really happened; history |

The code is sequential, so what interleaves with it is the tracker: people write
between any two of its calls, each call may fail or be carried out and its reply
lost, and the process may die between any two. A handler therefore puts its calls
into `todo` and each call is an action: `Complete` and `Completed` are the two edits of
`completePhase`, `Enter` is `enterPhase`, `Refresh` is `refreshLabels`, `Skip` one turn of
the loop of `skipCompletedOrConfiguredPhases`, `Sweep` and `Unmark` are
`cleanupStalePhaseLabels`, `Agent` is a session of an agent, `Capture` what becomes of its
output, `Post`, `Waiting` and `Tell` are the comments, and `ToReview` is
`transitionToReview`. `Boundary` is what `handlePhaseBoundary` calls. `Poll` and
`AutoReview` take a comment and decide with it (`Accept`, `Redo`). A time is a place in
the list of comments. `Start` is `Run` up to its loop, of a first workflow or
of one after a crash or a failure; then only the tracker and `planFile` are left.

Left out: the issue's column, which is written and never read; the text of
comments, beyond whether it approves; resuming an agent's session, which changes what
the agent knows and nothing here; rounds that run a command. An agent's retries are
inside `Agent`. A redo reopens only its own phase, so the branches of `reopenPhaseOnRedo`
for later phases are never taken (TLC finds no state in which a later phase has
been entered). People comment while an agent works, before a comment of the workflow
or in a review; at other moments the workflow cannot tell it from one of these. A
poll that cannot fetch is one that comes later.

## 3. What the runs check

All runs are breadth-first and exhaustive within their bounds. A property named here
that is a conjunction has its parts, each with its own comment, right above it in the module.

| Run | Instance | Checks | Shows |
|---|---|---|---|
| `SessionAll` | 2 runs, 2 objects, 2 callers, everything in `Env` | `TypeOK`, `OneLoopPerSession`, `SessionIsServed`, `StoreIsRight` | the critical section of `ResumeSession` is enough to keep two goroutines off one session, whatever else happens; an active session has a goroutine that `StopSession` reaches and a channel it reads, and the file is final and current, but for what an overlap of two runs does to them |
| `SessionLive` | 2 runs, 1 object, 1 caller, `Env` empty, fairness | `FollowUpServed`, `RunsEnd` | stop and Close are noticed wherever a run is, also while it is being resumed; a follow-up that was accepted is answered. A second caller would take 4.7 million states, too many for a liveness check |
| `SymphonyOne` | 1 issue, 3 dispatches, 2 turns, 1 change, stalls, a tracker that leaves issues out | `TypeOK`, `MapsAgree`, `NoStrayWorker`, `WorkspaceKept` | the loop's maps agree with each other, with the timers and with the goroutines, when late answers of older workers meet younger ones, and only a hook killed late takes a workspace away |
| `SymphonyTwo` | 2 issues, one blocking the other, 1 slot, errors, a silent tracker and stop, fairness | `RunningWithinLimit`, `RetryResolved` | polls and retries compete for the slot and keep the limit; a retry ends |
| `JiraOne` | 1 issue, 2 slots, 2 children, failures, hangs, stop, restart | `TypeOK`, `OneChildPerTree`, `TreeKept`, `LabelHeld` | with a slot to spare, only the bookkeeping keeps a second agent out of the worktree, and it does |
| `JiraTwo` | 2 issues, 1 slot, 2 children, errors of the tracker, stop, fairness | `WithinLimit`, `IssuesSettle`, `LoopIsWoken` | the queue and its token; failed issues return and shipped ones do not; a signal ends everything |
| `TmuxAll` | 2 notifier workers, 1 client, 15 scenarios over 3 agents, fairness | `DeliveriesAgree`, `RecordKept`, `SessionIsFollowed` | hooks that are early, late or lost, panes read too soon, writes that fail and people at the keyboard: what bramble believes of the agent becomes right, hints do not pile up, and a session's end is recorded once, over restarts too |
| `ClaudeAll` | 2 callers, 2 or 3 turns, up to 3 wake-ups, 6 scenarios, fairness | `OwnAnswer`, `ReportedOnce`, `SuppressionHolds`, `ResultsArePromises`, `AskReturns` | every caller gets the result of its own prompt, once and whole, however continuation, safety timer, cancellation and error meet |
| `LogicalAll` | 2 tasks, 6 scenarios, fairness | `OutcomeIsTrue`, `GraceIsOwed`, `TurnEnds` | with task messages out of order, repeated or missing, a turn ends, not before its work does, and with the outcome it had |
| `LinkAll` | 2 tabs, 3 connections, 6 scenarios, fairness | `StreamsAgree`, `LinkRecovers` | a tab told that it is subscribed has a poll loop, one that has withdrawn has none; requests end and a machine comes back when connections drop and are replaced |
| `WatchAll` | 1 pull request, 4 settings, 6 scenarios, failures up to 2, rounds without improvement up to 1, 3 commits | `CountersKept`, `BrakesHold`, `FeedbackReachesAgent` | acting before saving, with saves lost: every brake still stops what it is there to stop, up to one more for each lost save |
| `WorkflowAll` | 3 settings, 5 scenarios, 1 redo, fairness | `WorkHasBasis`, `LabelsTell`, `FeedbackIsFresh`, `LabelsSettle`, `CommentAnswered` | work rests on what a person or a setting accepted, over crashes and failed calls too; the labels say what a later run needs; no comment is taken for an answer to work it was written before |

**Bounds and why they are enough.** The hazards are about two generations of
something under one key: the run that is ending and the one that starts, the
terminated worker and its successor, the child that is cleaned up and the next
one, a connection and the one that replaces it, a turn and the turn after it. Two
of them meet with two runs, dispatches, children or connections; a third lets a
message of the first reach a successor of the second, which `SymphonyOne`, `LinkAll`
and the scenario of three turns in `ClaudeAll` have room for. A second caller, writer or tab is what
makes a lookup stale. A second issue is what makes a slot scarce, and the queue
and its token matter from there on; a second task is what can be out while the first
one's end is told. `MaxChanges` and `MaxMoves` bound what people do
in the tracker: one change makes an issue leave the active states, two bring it
back. Counters (`MaxTurns`, `MaxBudget`, failure caps, `MaxFlat`, `MaxCommits`) are at the smallest values
that have both a next attempt and a last one. A workflow meets one crash, up to three
calls that go wrong and two comments: two of them tell the latest from an earlier one, and the
second answers what the first one set off. The confirmations of pane idleness
are those of the code. What a bound or a spent scenario stops is a dispatch, a
launch, a move or an event of the environment, so a bounded behaviour is a prefix of
a real one with a quiet environment; the liveness properties except what only the
bound kept from happening (`o[i].count = MaxDispatch`, `Len(ch) = MaxChild`).

**Deadlock** is not checked: all these programs stop (after `Close`, a signal, a
merge, or when every run, dispatch, child or prompt the bounds allow has ended), and a state
without successors is then right. The liveness properties say what must have
happened by then.

**Fairness.** Go schedules every goroutine that can run, so each goroutine's
steps are weakly fair. Some things need more thought.

- A `select` picks among ready arms at random, so an arm that is ready again and
  again is taken in the end: strong fairness on `IdleStopped`, `SlotFreed`,
  `LoopStops`, `Receive`, `SeesCancel` and on `HandleRetryFired`, which other events of the loop
  may overtake but not for ever.
- A turn of an agent ends, with or without success: the runners give it a
  time-out or a context, and the agent's process can be killed. The same goes for
  a child of jiradozer, whose workflow ends when its reviews are answered, and
  which is killed a while after a signal. A model without this would only say
  that a program waits for an agent that never ends. In `TmuxSession` nothing
  of the kind is assumed: nobody waits for the agent there.
- The CLI of `ClaudeTurns` answers what it is asked, but need not continue a turn
  it scheduled a wake-up for: the safety timer is there for that, and fires. In
  `LogicalTurn` a task may hang when the scenario says so.
- A completion hook's request arrives if it was sent, a pane is repainted, and a
  broken connection is noticed at both ends (the keep-alives). `AgentLink` does not
  assume that a request's time-out comes: `RequestEnds` holds without it.
- `JiradozerWorkflow` goes on while its process runs, and a poll of the comments
  succeeds in the end (it is repeated for ever). That a review is answered is not assumed.
- Users, tabs, the tracker, GitHub, crashes, signals and errors are never obliged
  to happen. `PRWatcher` has no liveness property: whether a pull request gets
  merged is not prdozer's to promise.

Symmetry is used in safety runs over sets that occur in no ordered position; no
run with a temporal property uses it.

## 4. What is proved

`SessionManagerProofs` proves, for every `Run`, `Obj`, `Caller` and every `Env`
that `SessionConstants` admits (`None` is not one of the identities):

- `TypeCorrect`: `Spec => []TypeOK`;
- `OneLoop`: `Spec => []OneLoopPerSession`.

The invariant that both follow from is

    IInv == TypeOK /\ LiveOwner /\ LoopActive /\ CallHolds /\ OneLoopPerSession

`OneLoopPerSession` is not inductive by itself. `ResumeClaims` starts a run on a
session whose status is terminal, so one has to know that a session with a run
in its turn loop is not in a terminal status: that is `LoopActive`. Its
preservation is where the code's argument is: every terminal status is written by
the run itself, in the step in which it leaves the loop, and (from
`OneLoopPerSession`) the session has no other run in its loop whose status that
might be. `LiveOwner` says that a run that has not returned has a session with a
real status, and `CallHolds` that what a caller has looked up exists. Restarts
and deletes preserve it because a deleted session's value stays in the memory of its
goroutine and a restart ends all goroutines. Fairness is not used.

The proof has a lemma per kind of step (a run's, a caller's, the rest), with one
case per action.

What a session promises its user is proved for the same constants, with no assumption on
the environment:

- `Served`: `Spec => []SessionIsServed`;
- `RecordIsRight`: `Spec => []StoreIsRight`.

A resume may overlap the clean-up of the run before it. The properties name that overlap
and what it breaks (the follow-up channel of a run that overlapped another, and a
record taken by a run that another was started beside), and the theorems say that
nothing else does: not restarts, deletions, failed starts or failed saves. On top of `IInv`
come two invariants. `SInv` has `LoopIsStoppable` and `NoZombieSession`, and what keeps them:
two runs at work are in `overlap` (`LiveOverlap`), of two runs of one session it is the
later one that is in its loop (`LoopIsLater`), a session's context is of a run of its own
(`ContextIsOwn`), and a run has its channel in the map from the moment it installs it
(`TurnIsReachable`), because only a run's own clean-up, a completion that closes the
channel, or another run could have taken it out. `RInv` follows a record to the disk: a
run that has left its loop left a terminal status and carries that status with it, unless
it was overtaken (`TornIsTerminal`), and the run whose record is on disk has returned
(`WriterIsDone`), so that a save by it cannot come later. A failed save leaves an
older record, of a run for which the same was true.

`SymphonyProofs` proves, for every finite `Issue`, every `MaxDispatch`,
`MaxTurns`, `MaxConcurrent`, state limit and `Env` that `SymphonyConstants` admits,
and with `NoneIsAbsent` (`None` is not an issue, an entry or a tracker snapshot):

- `TypeCorrect`: `Spec => []TypeOK`;
- `EntriesAgree`: `Spec => []MapsAgree`, which is `RetryExcludesRun /\ ClaimIsHeld /\
  RetryHasTimer`;
- `NoStray`: `Spec => []NoStrayWorker`;
- `WithinLimit`: `Spec => []RunningWithinLimit`;
- `Workspaces`: `Spec => []WorkspaceKept`.

All five follow from one invariant,

    IInv == TypeOK /\ EntryInv /\ WorkerInv /\ DirInv /\ RunningWithinLimit

`EntryInv` is about one issue's maps: running and waiting for a retry exclude each
other, each is claimed and a claim has one of them, the running entry's worker is
the one whose cancel function is stored, and a retry's generation is armed or in the
channel. It is inductive without the workers, which is the point of a single
event-loop goroutine: an exit that arrives for an issue that is no longer running
is dropped, and a fire of an old generation is too. `WorkerInv` ties the goroutines
to it: the k-th worker exists exactly when k were dispatched, and one that
still works is *covered*, told to stop or the one in the running entry. The lemmas
about the operations show that each takes an entry to one that satisfies
`EntryOK` and covers what was covered (`Keeps`; `Follows` when a worker may be
dispatched), and then a handler is a function of entries that `StartedOK` lifts to
the workers. `DirInv` says that a worker past the creation of its workspace has it,
was told to stop, or lost it to a worker that had been told to stop and whose hook failed
after that (`robbers`). Reconciliation cancels before it removes; and `HookFails` can
take the directory only from another worker of its issue, of which one at most is in the
running map: when the one that keeps it is, the one whose hook fails is not, and so was
cancelled (`Covers`).
`RunningWithinLimit` is inductive, as a poll's dispatch loop counts what it has
dispatched itself and a retry looks at the slots in the step in which it dispatches.

`JiradozerProofs` proves, for every finite `Issue`, all limits and every `Env` that
`TeamConstants` admits, with `NoneIsAbsent` (`None` is not a number, a snapshot or an
outcome):

- `TypeCorrect`: `Spec => []TypeOK`;
- `OneChild`: `Spec => []OneChildPerTree`;
- `Limited`: `Spec => []WithinLimit`;
- `Trees`: `Spec => []TreeKept`;
- `Labels`: `Spec => []LabelHeld`, with the further assumption that
  `"claimError"` is not in `Env`: a label that could not be set is not held;
- `Settled`: `Spec => [](ShippedOnce /\ QueuedOnce /\ FailuresCapped)`, for `MaxMoves = 0`
  and without `"restart"`;
- `Settle`: `Spec => []IssuesSettle`, for the same and without `"cleanupError"`.

The invariant is

    IInv == TypeOK /\ SlotInv /\ ChildInv /\ MainInv /\ SnapInv

`ChildInv` says where each subprocess is in the tables: one that is waited for
holds its issue's slot until the very step that deletes it, one that is being
started is the last launched and the loop holds the placeholder for it, and one
that is past `Wait` has been reaped. `MainInv` is the loop's side, with the
placeholder and with the fact that makes `max_concurrent` hold: the count that
the loop has read before it tries the queue may be old, but only the loop itself
reserves slots, so it can only be too high. `SlotInv` bounds the occupied slots;
tracked subprocesses map to them injectively, which gives `WithinLimit`. `SnapInv`
says that what an exec restart gathers stays adoptable until it is used: the
subprocesses in it are of the issues they are filed under, though some may have
ended and others started since. A running subprocess that is adopted was tracked
before, because a process restarts once and only a restart loses anybody: so its
worktree is there. `LabelInv` adds that an issue about to be launched carries the
label.

`SettleInv` is about where an issue is between its emission and its end: in a poll's
list, in the queue, in the loop's hands, in a slot, and in one of them only
(`OncePlaced`). While it is in any, Discovery suppresses it, either because it is in
`seen` or because the tracker does not list it (`Suppressed`). `ShipInv` says that
this outlasts the success of a child, because `record` does not put a shipped issue into
`released`; `GivenUp`, that it outlasts the last failure allowed. `PollInv` says that
a poll that has listed the tracker holds all that is listed, so the `seen` that it
rebuilds does not forget an issue that is suppressed. This is what fails when people
move issues (`QueuedOnce` in section 6) or the parent is replaced, which starts with an
empty `seen`. `Succession` says that the children of one issue follow one another.
`LabelEnds` gives the part of `IssuesSettle` about labels.

`ClaudeProofs` proves, for any callers, limits and scenarios that `ScenarioAssumption`
and `LimitAssumption` admit:

- `Implements`: `Spec => ResultsArePromises`, the refinement of `Promises`;
- `Typed`: `Spec => [](TypeOK /\ AnnouncedIsRecorded /\ SuppressionIsTimed)`;
- `AnsweredRight`: `Spec => []OwnAnswer`;
- `HeldBack`: `Spec => []SuppressionHolds`;
- `Reports`: `Spec => []ReportedOnce`.

For the refinement the invariant is `Waiting`: turns are numbered from one, `results` has an entry for
each, a caller that has sent has a turn to ask for, and one that waits, waits for a turn
that has no result. With it every step maps to one of `Promises` or to none.
`WaitForTurn` finds a result (no step of `Promises`: the caller never slept) or
goes to sleep on one that is not there (`Wait`); `CancelWait` is `Leave`; and
`CompleteTurn`, called by the read loop or by the timer, is `Keep`, because it wakes
exactly those who wait for the turn it records, whatever the turn number it is
called with. Everything else leaves results and callers alone.

The safety of turns comes in layers. Each rests on the one before, and holds under the
condition that the properties it is for have themselves:

- `AnyInv` holds whatever callers and CLI do: the types, the numbers of turns in every
  local of the read loop and of the timer's goroutine, and that a suppressed completion
  has a timer or a goroutine of one (`Timed`). `Astray` says of the timers nothing points at
  that they come from a goroutine that ended a wait other than its own.
- `SerialInv` holds where prompts do not overlap. At most one prompt is unanswered, and
  the result in the pipe, the one in the read loop's hands and the turn number that
  `handleResult` reads in a later critical section are of the current turn, or of one in
  `abandoned`, which ended with a wake-up to come (`Own`, `Pipe`). `OwnAnswer` follows.
- `LinkedInv` holds where, in addition, no turn ended before a wake-up of its own
  (`Distinct`). A turn is a chain of waves, each but the last with a wake-up in it
  (`Chain`); the completion is held back exactly while the chain goes on, and passes
  either to the read loop or to the timer's goroutine, never to both (`Completing`); a goroutine
  whose timer fired for an earlier wave has the wrong wake-up in its hands and does
  nothing (`Late`).
- `CountedInv` is the conservation of cost: what has been reported, what the read loop
  holds, what is held back with the suppressed completion and what the timer's
  goroutine took over add up to what the session has spent.

`Reported` is a sum over turns, a recursive function. That it grows by what one
completion reports is shown by taking the least number for which it would not.

`LinkProofs` proves, for any `Tab` and `Scenarios`, of which the module assumes nothing:

- `Agrees`: `Spec => []StreamsAgree`.

The invariant, `LinkInv`, follows a request. A connection's `nextID` gives out each
number once, to a tab as a prefix of its stream's key or to a request (`Apart`,
`Given`); a request is in one place (in `down`, with a goroutine, or answered:
in `up`, in `readLoop`'s hand, in the tab's channel), and so is answered once (`Once`); and what is under way
under a tab's number or key is the tab's own (`Matched`), which is why a late request of
another tab cannot touch its stream although all tabs use one `sub_id`. `Polling` says
that there is one poll loop for each key and that `subs` names it. With these, the agent
has done what the tab asked for from the moment its goroutine has the answer
(`Done`, `Streaming`). `Good` keeps out tabs that timed out, whose requests are still under
way when the next is sent, and connections whose agent no longer serves them.

`WatcherProofs` proves, for all limits, settings and scenarios that `WatcherConstants`
admits:

- `WatcherTypes`: `Spec => []TypeOK`;
- `WatcherBrakesHold`: `Spec => []BrakesHold`;
- `WatcherCountersKept`: `Spec => []CountersKept`;
- `WatcherHeedsFeedback`: `Spec => []FeedbackReachesAgent`.

A tick acts first and saves afterwards, so what has happened (`hist`) is compared
with what is saved (`disk`) and with what the tick works on (`mem`), like two
ledgers: each brake has a part of the invariant that says by how much they may
differ (`TriesInv`, `FlatInv`, `IdleInv`, `OnceInv`, `ScopeInv`). The
difference is one for each lost tick, and one more for the tick under way (`Open`, or
`Acted` for what is counted when the agent returns), because it may yet be lost. A
brake reads what was saved, and so is late by this difference at most. `Marks` says that
`mem` differs from `disk` only if the tick is dirty: a tick that is not saved, because
nothing marked it, loses nothing. `GivenInv` says the same of comments: those
remembered as seen were in the snapshot of a round that was started, or are excused.

`WorkflowProofs` proves, for all settings and scenarios that `WorkflowConstants` admits:

- `Inductive`: `Spec => []IInv`, the invariant below;
- `HasBasis`: `Spec => []WorkHasBasis`;
- `Tells`: `Spec => []LabelsTell`;
- `Fresh`: `Spec => []FeedbackIsFresh`;
- `Settles`: `Spec => []LabelsSettle`.

Most of the argument is about `todo`. `TodoInv` says which calls may be pending in which
step, and in which order (`Allowed`, for any two at any distance): no call is added
after a review, none precedes a boundary that belongs after it, and the calls about a phase
concern phases that are past. The rest of `IInv` says what the labels, `plan.md` and the
memory of a run have in common before the next of these calls: what a done label stands
for (`BasisInv`), that the plan in memory and on disk is the last (`PlanInv`), that feedback is
counted from after the work and that every comment of the workflow from there on is known
as its own, or lost its reply (`FreshInv`). `DoneInv`, `CalmInv` and `ClosingInv` hold while
nobody sets labels, no call has failed, or none has failed since the last approval. A handler
that skips several phases adds the calls of all of them, and the lemmas `Popped` and `Joined` take
lists of calls apart and put them together. `LastOf` is what `Latest` needs: a non-empty
set of places in the list of comments has a greatest.

`TmuxProofs` proves, for any `Worker` and `Client` that `WritersDiffer` keeps apart and any
scenarios over the three agents:

- `TmuxInvariant`: `Spec => []IInv`, the invariant below;
- `RecordIsKept`: `Spec => RecordKept`;
- `DeliveriesDoAgree`: `Spec => DeliveriesAgree`.

`IInv` has four parts. `Shape` is `TypeOK` in full, and what a process that is down has not.
`RecordInv` is about the three who write the session's record, the monitor, its deferred
function and `Close`: an end that is recorded is the session's own for as long as one of
them may write again (`Final`), none is left once the record is deleted
(`Deleted`), and while one is left that bramble started, the output is in memory
(`Output`). That is why the deferred function must not write after a natural
end, and why `Close` writes what it listed and no more. `TurnInv` is about the two who may
mark a session idle without being told: the poll and the undo of a failed Enter. A streak of the turn's
own epoch is at most one poll long while the agent works, because only a pane not yet
repainted can show it idle, and then the next poll cannot see an outdated one
(`Streak`); every CLI needs two confirmations or more, so the poll decides nothing
(`Decided`). A write undoes only a turn it started itself, and then no other is at work (`Undoable`),
because a session that reads idle has no marked turn at work (`Believed`). `HintInv` says that the claim has one holder and
that a holder about to paste has seen an empty composer. `TurnInv`, and the last part of
`RecordKept`, speak of scenarios without `"overlap"`; `RecordedEndIsFinal` and `OneHint`
hold in all.

While looking for `TurnInv`, TLC refuted an earlier form of `MarkedTurnNotEnded`, which
section 6 tells of.

**Only model-checked.** Every liveness property (`FollowUpServed`, `RunsEnd`,
`RetryResolved`, `LoopIsWoken`, `SessionIsFollowed`, `AskReturns`, `TurnEnds`, `LinkRecovers`,
`CommentAnswered`): TLAPS proves neither ENABLED nor fairness. Further `OutcomeIsTrue` and
`GraceIsOwed` of `LogicalTurn`, which section 8 plans for.

The library's induction theorems take an operator as a parameter and are out of reach;
an argument over numbers that needs one goes by a least counterexample instead, as in
the sum and the last comment above. Recursion in the modules proved about is by
recursive functions.

## 5. Disagreements between code and documentation

- *prdozer*, comments of a round that failed (`prdozer/watcher.go:1169`).
  `recordSnapshot` takes the comments of the snapshot for seen whatever became of
  the action. When the polish round fails, stalls or meets a fault of the
  provider, they are not new on the next tick; a pull request that nobody has formally
  requested changes on is then mergeable, and is merged with the comments
  unanswered. `prdozer/watcher_test.go:872` says "never merge while reviewer
  feedback is outstanding". `FeedbackReachesAgent`, which does hold and is checked, is
  the weaker promise: every comment was at least in the snapshot of a round that was
  started.
- *jiradozer*, `completePhase` (`jiradozer/workflow.go:877`). Its comment says that a
  done label that could not be written leaves the phase to be retried and does not
  advance; the workflow advances, and the next `handlePhaseBoundary` tries
  the label again. `LabelsSettle` is what comes of that: at a last approval every such
  label has been repaired or the attempt has failed once more.

Section 6 has others.

## 6. Properties that do not hold, and are not checked

They are defined next to the others, or are those with a wider `Env` or scenario, and
each was seen to fail in TLC. They are listed because a reader would ask.

| Property | Fails with | Because |
|---|---|---|
| `NoPanic` | a follow-up and a completion of one idle session | `SendFollowUp` finds the channel under a lock and sends without it; `CompleteSession` closes the channel in between; the send panics (`bramble/session/manager.go:3097`) |
| `IdleIsReachable` without its last exception | a resume that overlaps the clean-up of the run before | a stopped session is terminal, and can be resumed, before its goroutine has run its deferred clean-up, which deletes the follow-up channel by session ID, and so the channel of the new run: no follow-up reaches it (`manager.go:2137`) |
| `StoredIsTerminal`, `StoreIsCurrent` without the overlap | the same | the old run's `persistSession` copies the status the new run has by then (`manager.go:2153`); and of two runs that save, the older may do so last |
| `NoZombieSession` without its last exception | the same, and a restart | the record that the overlap made active is read back after the restart: the session reads as running with nobody behind it, and cannot be resumed, though `rehydrateSession` takes stored sessions to be terminal (`manager.go:1198`) |
| `LoopIsRegistered` | `"delete"` | `DeleteSession` accepts an idle session (`manager.go:3148`), whose goroutine goes on without an entry and writes the deleted record back when it ends |
| `OneLoopPerID` | `"restart"` and two callers | two resumes of a session that is only in the store rehydrate it twice: two `*Session` values, each resumed once (`manager.go:1104`) |
| `FollowUpServed` | `"delegator"` | child events are drained before the select looks at follow-ups (`manager.go:2398`) |
| `WrittenTurnNotEnded` | a `"send"` to a session that reads running (`OneSend` in `MCTmux`) | the write starts a turn without a new epoch, so the streak of idle polls of the turn before goes on and marks the working session idle (`pane_idle.go:371`, `manager.go:2837`) |
| `MarkedTurnNotEnded` after a restart | a `"send"` while Close is under way, a restart, and an Enter that fails | Close has recorded the session as idle; a write accepted after that starts a turn; the restart adopts the session as idle, although its agent works, and the undo of a later write that marked it running puts it back to idle (`bramble/session/manager.go:717`, `:925`). The property counts such a turn as `"adopted"` |
| `WorkspaceKept` without its exception | an issue that changes state and back while the hook of its first worker runs | the cancelled hook fails and `CreateForIssue` removes the directory (`symphony/workspace/workspace.go:49-52`), which the worker dispatched meanwhile found and uses |
| `OneWorkerPerIssue` | an issue that changes state | an issue that leaves its active states and returns is dispatched while its cancelled worker is still at work in the same workspace (`symphony/orchestrator/state.go:273`) |
| `StallBacksOff` | `"stall"` | the handler that schedules the back-off of a stalled issue releases its claim, so the dispatch loop of the same call dispatches it at once, as a first attempt, and drops the retry (`state.go:51`) |
| `WorkersWithinLimit` | an issue that changes state | slots are counted from the running map, which a terminated worker has left (`dispatch.go:105`) |
| `NoPhantomRetry` | an issue that changes state | a normal exit schedules a continuation even if the issue was terminated (`state.go:142`); at most the retry finds an inactive issue and is released |
| `StateLimitKept` | a state limit of one | a retry looks at the slots only (`state.go:251`), `shouldDispatch` at the state's limit too (`dispatch.go:112`) |
| `SeenIsJustified` | one issue whose child fails | a poll reads the active issues, then drains the released ones; when a failed child's clean-up falls between, the issue is put back into the seen set, and is neither active nor released any more: no later poll emits it (`jiradozer/discovery.go:151`) |
| `OneAgentPerTree` | `"restart"` | an exec between `Launch` and `Install` leaves an agent the new process does not know, and a later start of the same issue uses the same worktree |
| `PreservedKept` | `"startError"` | a start that reuses a preserved worktree and then fails removes it with force (`orchestrator.go:564`, `:584`) |
| `QueuedOnce` | `MaxMoves > 0` | an issue that leaves the filter while it is queued is dropped from the seen set, and queued again when it is back |
| `NoContinuationCame` | a turn with two wake-ups (`Chained` in `MCClaude`) | a timer that has started its goroutine is not stopped by `Stop()`; when the goroutine gets the lock after the continuation has suppressed the turn anew, it ends that second wait (`agent-cli-wrapper/claude/session.go:1356`) |
| `TimerIsCurrent` without `cb.stale` | the same turn, and one more prompt | that goroutine also drops the pointer to the timer armed for the second wait, without stopping it (`session.go:1362`); it goes off in a later turn, against the comment in `SendMessage`: "A safety timer for Turn N must not fire after Turn N+1 has started" |
| `OwnAnswer`, `ReportedOnce`, `SuppressionHolds` | `"overlap"` | a prompt sent while another is out takes over the turn number the first one's result is filed under; they except it |
| `ExitAfterSuccess` | `Gone` in `MCLogical` | `readLoop` returns at the end of its input without closing the events channel (`session.go:591`), while `turn_state.go:20-27` has a turn end at once and well; what comes is the grace deadline, if a wave had completed, or nothing before the context ends |
| `ClosedTabLeaksNothing` | `"timeout"`, `"reject"` (`Late` and `Again` in `MCLink`) | a subscribe that timed out is acted on nevertheless, and a second subscribe that is refused makes the hub forget the stream the first one still has; neither is withdrawn when the tab closes (`bramble/hub/stream.go:17`) |
| `TornDown` | `"drop"` (`Drops`) | a handler that subscribes after `closeAll` starts a poll loop nobody cancels (`bramble/control/transport.go:76`) |

In `JiradozerWorkflow`, the properties leave room for the following; each has been
followed in the model.

- A redo of a phase that a person meanwhile labelled done goes on to the next phase
  without `enterPhase`: that phase runs with no in-progress label
  (`jiradozer/workflow.go:899`). `LabelsTell` speaks of untouched labels.
- When the last phases are skipped, the workflow is done without the last repair, and
  a label that an earlier failed call left behind stays (`workflow.go:790`).
  `LabelsSettle` speaks of an end by an approval, or by a build without changes.
- A waiting comment that was written, but whose reply was lost, is not known as the workflow's
  own, is then found as feedback, and is worth a redo. `FeedbackIsFresh` excepts it.
- A build without changes labels validate and ship done, which have not run
  (the code calls it evidence that there is nothing to do). `WorkHasBasis` counts them as accepted.
- Of several comments the latest decides, and comments on a build made before
  the result of the pull request's step is posted are passed over. `CommentAnswered` speaks
  of the wait, and of comments after the posted result.
- When the plan's done label could not be written and the process then dies, the next
  run plans again, and a build that is labelled done is not repeated for the new plan.

Noted while reading, in code the models leave out: a plan that could not be written to
disk leaves an older one for a later run (`jiradozer/workflow.go`, `PersistPlan`); a round stopped by the stall
guard has its push never charged to the commit budget, as its action is
`needs_human` (`prdozer/watcher.go`, `pushedCommits`; `PRWatcher` counts it in
`hist.free`); remembered comment IDs are cut at 500, after which old
ones are new again (`prdozer/state.go:314`); the merge command names no head commit, so
it merges what was pushed after the tick looked (`watcher.go:1075`); `Stop` and the
end of the CLI's output complete no turn, and a caller of `Ask` then waits for its
context (`claude/session.go:526`); `emit` may send on the channel that `Stop` closes
(`session.go:1580`).

## 7. What is not modelled

- *Session manager*: the creation of windows and prompts; titles, progress, output
  buffers and observers; worktree deletion; the names of models; several
  sessions at a time (no critical section spans two).
- *Notifier and delegator*: how a hint finds its parent, the delegator's tools.
- *Symphony*: token and rate-limit accounting, agent updates (they refresh
  timestamps, and the model lets a stall be found or not at will), configuration
  reload, the HTTP snapshot. The priorities among candidates are left open.
- *Jiradozer*: configuration reload, `Cancel` (no caller), dry runs, the status
  channel, the log tailer beyond the decision to cancel a child. A restored child
  is not signalled when the parent is interrupted; the model lets it end by itself.
- *Claude session*: starting the process, permissions and the control protocol,
  text and tool accumulators, recording. *Multiagent*: the planner, sub-agents, checkpoints,
  the other providers.
- *Hub*: enrolment and authentication, other control methods, frames, several machines.
- *prdozer*: what section 2 lists, leases, dispatch to hosts, notifications.
- *jiradozer workflow*: what section 2 lists, and the local tracker behind `serve`.
- *medivac*: stateful, and planned below. *Leases and gc*: files of two processes.
- *Clients of other CLIs*: they repeat the claude client's structure with other
  encodings.
- *Terminal interface*: one event loop with one thread, whose state is views; what
  it does to sessions are the callers of `SessionManager` and the writers of
  `TmuxSession`. *wt*: sequences of git commands, which appear as outcomes.
- *Protocols, logs, replay, analysis, meeting bot, voice, fleet, tools*: data and
  input and output with no state machine of their own. Together with the interface they are
  most of the lines of the repository, which is why the map covers a small part of them.

## 8. Plan

Two of the safety properties that the runs check are not yet theorems:

1. `LogicalTurn`: `OutcomeIsTrue` and `GraceIsOwed`. They are checked in environments that
   fail in one way each; the theorem needs a hypothesis that says which failures may come
   together, and an invariant that ties the grace timer and `st` to the messages in `queue`.

And more can be modelled, in the order of what matters most:

2. the abstract workflow that `JiradozerWorkflow` implements (a phase is accepted once
   the one before it is), and the refinement, whose invariant is `WorkHasBasis`;
3. `MedivacEngine`: act, then save, as in prdozer, with fixes in parallel;
4. leases of jiradozer and prdozer, files that two processes write;
5. checkpoints of multiagent, and what a resumed mission repeats.
