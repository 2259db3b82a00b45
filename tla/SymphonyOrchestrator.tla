------------------------ MODULE SymphonyOrchestrator ------------------------
(***************************************************************************)
(* The symphony daemon: one event loop (symphony/orchestrator) that owns   *)
(* all scheduling state, and around it the goroutines it starts: the poll  *)
(* tick that reads the tracker, the workers that run agents, and the retry *)
(* timers.  They answer through channels, so each answer is about a past   *)
(* that the loop may have left behind: a worker of an issue that has been  *)
(* terminated and dispatched again, a tick whose snapshot is old, a timer  *)
(* that fired before it was stopped.                                       *)
(*                                                                         *)
(* The loop keys all its maps by issue ID; o[i] holds the entries of issue *)
(* i.  The k-th goroutine dispatched for issue i is the worker <<i, k>>, an *)
(* identity the code does not have: its messages carry the issue only.     *)
(***************************************************************************)
EXTENDS Integers, FiniteSets

CONSTANTS Issue,
          None,
          BlockedBy,      \* the blockers of an issue
          MaxConcurrent,  \* cfg.MaxConcurrentAgents
          StateLimit,     \* cfg.MaxConcurrentByState, on active states
          MaxTurns,       \* cfg.MaxTurns
          MaxDispatch,    \* bound: dispatches of one issue
          MaxChanges,     \* bound: changes of the tracker's states
          Env             \* what may happen, a subset of:
                          \*   "stall"  an agent is silent past the stall timeout
                          \*   "error"  a call to the tracker fails
                          \*   "silent" its reply leaves out an issue asked for
                          \*   "stop"   the daemon is told to shut down

ActiveStates == {"todo", "progress"}
TrackerStates == ActiveStates \cup {"inactive", "terminal"}

ASSUME SymphonyConstants ==
    /\ IsFiniteSet(Issue)
    /\ BlockedBy \in [Issue -> SUBSET Issue]
    /\ MaxConcurrent \in Nat /\ MaxTurns \in Nat \ {0}
    /\ MaxDispatch \in Nat /\ MaxChanges \in Nat
    /\ StateLimit \in [ActiveStates -> Nat]
    /\ Env \subseteq {"stall", "error", "silent", "stop"}

VARIABLES
    o,        \* the loop's entries for each issue, see Entry
    tick,     \* the poll tick in flight
    worker,   \* the worker goroutines
    dirs,     \* issues whose workspace directory exists
    tracker,  \* the state of each issue in the tracker
    changes,  \* how many times the tracker's states have changed
    phase     \* "up", "stopping" (the root context is cancelled), "down"

vars == <<o, tick, worker, dirs, tracker, changes, phase>>

Worker == Issue \X (1..MaxDispatch)
-----------------------------------------------------------------------------
(* The loop's entries for one issue. *)

Run   == [attempt : Nat, state : ActiveStates, inc : Nat]
Retry == [attempt : Nat, gen : Nat]

\* None is Go's absent map entry, and no value a map holds.
ASSUME NoneIsAbsent ==
    None \notin Issue \cup Run \cup Retry \cup [Issue -> TrackerStates]

Entry == [run     : Run \cup {None},    \* running[id]; inc is the worker's k
          cancel  : Nat,                \* workerCancels[id]: whose, 0 if absent
          claimed : BOOLEAN,            \* id \in claimed
          retry   : Retry \cup {None},  \* retryAttempts[id]
          timer   : Nat,                \* retryTimerMap[id]: generation, or 0
          gen     : Nat,                \* the last generation used for id
          armed   : SUBSET Nat,         \* timers of id that may still fire
          fired   : SUBSET Nat,         \* fires of id waiting in retryTimers
          killed  : SUBSET Nat,         \* workers of id whose context is cancelled
          count   : Nat]                \* dispatches of id so far

NoEntry == [run |-> None, cancel |-> 0, claimed |-> FALSE, retry |-> None,
            timer |-> 0, gen |-> 0, armed |-> {}, fired |-> {}, killed |-> {},
            count |-> 0]

IsRunning(e) == e.run # None
IsRetrying(e) == e.retry # None

\* Mutant: a timer that carries the generation before its own.
ScheduleOldGeneration(e, attempt) ==
    LET g == e.gen + 1 IN
    [e EXCEPT !.retry = [attempt |-> attempt, gen |-> g],
              !.timer = g, !.gen = g, !.armed = (@ \ {e.timer}) \cup {e.gen}]

\* scheduleRetry: the timer in the map is stopped, the entry replaced.
Schedule(e, attempt) ==
    LET g == e.gen + 1 IN
    [e EXCEPT !.retry = [attempt |-> attempt, gen |-> g],
              !.timer = g, !.gen = g, !.armed = (@ \ {e.timer}) \cup {g}]

Release(e) == [e EXCEPT !.claimed = FALSE]

\* Mutant: the cancel function is dropped and not called.
ForgetUncancelled(e) == [e EXCEPT !.run = None, !.cancel = 0]

\* The running entry and the cancel function go together.
Forget(e) == [e EXCEPT !.run = None, !.cancel = 0,
                       !.killed = @ \cup ({e.cancel} \ {0})]

\* terminateRunning.
Terminate(e) == IF IsRunning(e) THEN Release(Forget(e)) ELSE e

\* Mutant: the retry entry is kept.
DispatchKeepsRetry(e, attempt, state) ==
    [e EXCEPT !.run = [attempt |-> attempt, state |-> state, inc |-> e.count + 1],
              !.cancel = e.count + 1, !.claimed = TRUE, !.count = e.count + 1]

\* dispatchIssue; the retry entry goes, its timer stays.
Dispatch(e, attempt, state) ==
    [e EXCEPT !.run = [attempt |-> attempt, state |-> state, inc |-> e.count + 1],
              !.cancel = e.count + 1, !.claimed = TRUE, !.retry = None,
              !.count = e.count + 1]

\* Mutant: giving up keeps the claim.
RetryOrKeep(e, attempt) == IF attempt > MaxTurns THEN e ELSE Schedule(e, attempt)

\* What the failure and continuation caps share.
RetryOrRelease(e, attempt) ==
    IF attempt > MaxTurns THEN Release(e) ELSE Schedule(e, attempt)
-----------------------------------------------------------------------------
NoTick == [at |-> "idle", ids |-> {}, stalled |-> {}, seen |-> None, cands |-> None]

Tick == [at : {"idle", "reconcile", "fetch", "ready"},
         ids : SUBSET Issue,        \* the snapshot's; then those answered for
         stalled : SUBSET Issue,
         seen : [Issue -> TrackerStates] \cup {None},
         cands : [Issue -> TrackerStates] \cup {None}]

WorkerPcs == {"unborn", "create", "mkdir", "hook", "launch", "turn", "refresh",
              "exit", "done"}
Reasons == {"normal", "inactive", "canceled", "failed"}

TypeOK ==
    /\ o \in [Issue -> Entry]
    /\ tick \in Tick
    /\ worker \in [Worker -> [pc : WorkerPcs, turn : Nat,
                               reason : Reasons \cup {None}, robbers : SUBSET Nat]]
    /\ dirs \subseteq Issue
    /\ tracker \in [Issue -> TrackerStates]
    /\ changes \in Nat
    /\ phase \in {"up", "stopping", "down"}

Init ==
    /\ o = [i \in Issue |-> NoEntry]
    /\ tick = NoTick
    /\ worker = [w \in Worker |-> [pc |-> "unborn", turn |-> 0, reason |-> None,
                                   robbers |-> {}]]
    /\ dirs = {}
    /\ tracker = [i \in Issue |-> "todo"]
    /\ changes = 0
    /\ phase = "up"
-----------------------------------------------------------------------------
(* Capacity and eligibility. *)

RunningIn(es) == {i \in Issue : IsRunning(es[i])}
RunningInState(es, s) == {i \in RunningIn(es) : es[i].run.state = s}

SlotsFor(es) == MaxConcurrent - Cardinality(RunningIn(es))

\* shouldDispatch, but for the two limits; "states" is what the tracker said.
Eligible(es, states, i) ==
    /\ ~IsRunning(es[i]) /\ ~es[i].claimed
    /\ states[i] \in ActiveStates
    /\ states[i] = "todo" => \A b \in BlockedBy[i] : states[b] = "terminal"
    /\ es[i].count < MaxDispatch

\* Mutant: the slots are counted once, not after each dispatch.
FitsUncounted(es, states, D) == D = {} \/ SlotsFor(es) > 0

\* D respects the limits shouldDispatch checks before each dispatch.
Fits(es, states, D) ==
    /\ D = {} \/ Cardinality(D) <= SlotsFor(es)
    /\ \A s \in ActiveStates :
         LET new == {i \in D : states[i] = s} IN
         new = {} \/ Cardinality(new) + Cardinality(RunningInState(es, s)) <= StateLimit[s]

\* The loop over the sorted candidates stops for want of capacity only.  Which
\* candidates come first is the priorities' business, so any order is possible.
Dispatchable(es, states) ==
    LET all == {i \in Issue : Eligible(es, states, i)} IN
    {D \in SUBSET all : /\ Fits(es, states, D)
                        /\ \A i \in all \ D : ~Fits(es, states, D \cup {i})}

\* go o.runWorker, for every worker dispatched between es and es2.
Started(es2) ==
    [w \in Worker |-> IF worker[w].pc = "unborn" /\ w[2] <= es2[w[1]].count
                      THEN [worker[w] EXCEPT !.pc = "create", !.turn = 1]
                      ELSE worker[w]]
-----------------------------------------------------------------------------
(* The poll tick: a goroutine that reconciles a snapshot of the running    *)
(* map against the tracker and fetches candidates.                         *)

\* The ticker, a refresh request or the start of Run; one tick at a time.
StartTick ==
    /\ phase # "down" /\ tick.at = "idle"
    /\ tick' = [NoTick EXCEPT !.at = "reconcile", !.ids = RunningIn(o)]
    /\ UNCHANGED <<o, worker, dirs, tracker, changes, phase>>

\* Stall detection on the snapshot, then one call for the states of its issues;
\* those the reply leaves out get no action.
Reconcile ==
    /\ tick.at = "reconcile"
    /\ \E stalled \in IF "stall" \in Env THEN SUBSET tick.ids ELSE {{}},
          answered \in IF "silent" \in Env THEN SUBSET tick.ids ELSE {tick.ids} :
       \E seen \in IF answered = {} THEN {None}
                   ELSE {tracker} \cup (IF "error" \in Env THEN {None} ELSE {}) :
          tick' = [tick EXCEPT !.at = "fetch", !.ids = answered,
                               !.stalled = stalled, !.seen = seen]
    /\ UNCHANGED <<o, worker, dirs, tracker, changes, phase>>

FetchCandidates ==
    /\ tick.at = "fetch"
    /\ \E cands \in {tracker} \cup (IF "error" \in Env THEN {None} ELSE {}) :
          tick' = [tick EXCEPT !.at = "ready", !.cands = cands]
    /\ UNCHANGED <<o, worker, dirs, tracker, changes, phase>>

\* The reconcile actions for issue i, in their order: the stall, then what the
\* tracker said.  An action finds the issue's current entry, whoever's it is.
Stalled(i) == i \in tick.stalled /\ IsRunning(o[i])

\* Mutant: a state that is neither active nor terminal is recorded like any other.
ReconciledInactive(i) ==
    LET e == IF i \in tick.stalled /\ IsRunning(o[i])
             THEN Schedule(Terminate(o[i]), 1) ELSE o[i]
        s == IF i \in tick.ids /\ tick.seen # None THEN tick.seen[i] ELSE "unseen" IN
    IF s = "terminal" THEN Terminate(e)
    ELSE IF s # "unseen" /\ IsRunning(e) THEN [e EXCEPT !.run.state = s]
    ELSE e

Reconciled(i) ==
    LET e == IF Stalled(i) THEN Schedule(Terminate(o[i]), 1) ELSE o[i]
        s == IF i \in tick.ids /\ tick.seen # None THEN tick.seen[i] ELSE "unseen" IN
    IF s \in {"inactive", "terminal"} THEN Terminate(e)
    ELSE IF s \in ActiveStates /\ IsRunning(e) THEN [e EXCEPT !.run.state = s]
    ELSE e

\* Mutant: every terminal issue the poll sees loses its directory, as at startup.
CleanedBySweep == {i \in Issue : tick.cands # None /\ tick.cands[i] = "terminal"}

\* Only an entry the terminal state itself terminates has its workspace removed.
Cleaned == {i \in tick.ids : /\ tick.seen # None /\ tick.seen[i] = "terminal"
                             /\ IsRunning(o[i]) /\ ~Stalled(i)}

HandleTick ==
    /\ phase # "down" /\ tick.at = "ready"
    /\ LET es == [i \in Issue |-> Reconciled(i)] IN
       \E D \in IF tick.cands = None THEN {{}} ELSE Dispatchable(es, tick.cands) :
          o' = [i \in Issue |-> IF i \in D THEN Dispatch(es[i], 0, tick.cands[i])
                                           ELSE es[i]]
    /\ worker' = Started(o')
    /\ dirs' = dirs \ Cleaned
    /\ tick' = NoTick
    /\ UNCHANGED <<tracker, changes, phase>>
-----------------------------------------------------------------------------
(* Retry timers. *)

Fire(i) ==
    /\ \E g \in o[i].armed :
          o' = [o EXCEPT ![i].armed = @ \ {g}, ![i].fired = @ \cup {g}]
    /\ UNCHANGED <<tick, worker, dirs, tracker, changes, phase>>

\* The generation tells a fire of the present entry from a stale one.
Current(e, g) == IsRetrying(e) /\ e.retry.gen = g

\* Mutant: after a tracker error the entry is put back and no timer is set.
AfterRetryUntimed(i, e, a) ==
    IF a > MaxTurns THEN {Release(e)}
    ELSE (IF "error" \in Env
          THEN {[e EXCEPT !.retry = [attempt |-> a + 1, gen |-> e.gen]]} ELSE {}) \cup
         (IF tracker[i] \notin ActiveStates THEN {Release(e)}
          ELSE IF SlotsFor(o) <= 0 THEN {Schedule(e, a + 1)}
          ELSE IF e.count < MaxDispatch THEN {Dispatch(e, a, tracker[i])}
          ELSE {})

\* What a current retry of attempt a becomes.  The loop waits for the tracker's
\* answer, so nothing of its own changes meanwhile.  The state limits and the
\* blockers are not consulted.
AfterRetry(i, e, a) ==
    IF a > MaxTurns THEN {Release(e)}
    ELSE (IF "error" \in Env THEN {Schedule(e, a + 1)} ELSE {}) \cup
         (IF tracker[i] \notin ActiveStates THEN {Release(e)}
          ELSE IF SlotsFor(o) <= 0 THEN {Schedule(e, a + 1)}
          ELSE IF e.count < MaxDispatch THEN {Dispatch(e, a, tracker[i])}
          ELSE {})

\* handleRetryFired.
HandleRetryFired(i) ==
    /\ phase # "down"
    /\ \E g \in o[i].fired :
         LET e == [o[i] EXCEPT !.fired = @ \ {g}] IN
         IF Current(o[i], g)
         THEN \E new \in AfterRetry(i, [e EXCEPT !.retry = None, !.timer = 0],
                                   o[i].retry.attempt) :
                o' = [o EXCEPT ![i] = new]
         ELSE o' = [o EXCEPT ![i] = e]
    /\ worker' = Started(o')
    /\ UNCHANGED <<tick, dirs, tracker, changes, phase>>
-----------------------------------------------------------------------------
(* Workers. *)

Cancelled(w) == phase # "up" \/ w[2] \in o[w[1]].killed

Step(w, from, to) ==
    /\ worker[w].pc = from
    /\ worker' = [worker EXCEPT ![w].pc = to]
    /\ UNCHANGED <<o, tick, tracker, changes, phase>>

Exit(w, from, reason) ==
    /\ worker[w].pc = from
    /\ worker' = [worker EXCEPT ![w] = [@ EXCEPT !.pc = "exit", !.reason = reason,
                                                 !.turn = 0, !.robbers = {}]]
    /\ UNCHANGED <<o, tick, tracker, changes, phase>>

\* CreateForIssue looks for the directory, which is used as it is found; a path
\* that cannot be used fails the worker.
CreateWorkspace(w) ==
    /\ IF w[1] \in dirs THEN Step(w, "create", "launch") ELSE Step(w, "create", "mkdir")
       \/ Exit(w, "create", "failed")
    /\ UNCHANGED dirs

\* A missing one is made, unless that fails; it may be there by now.
MkdirWorkspace(w) ==
    \/ Step(w, "mkdir", "hook") /\ dirs' = dirs \cup {w[1]}
    \/ Exit(w, "mkdir", "failed") /\ UNCHANGED dirs

HasWorkspace(w) == worker[w].pc \in {"hook", "launch", "turn", "refresh"}

\* CreateForIssue removes the directory when its hook fails, whoever uses it by now:
\* "robbers" keeps, for each worker that may go on, those who did that to it.
HookFails(w) ==
    /\ worker[w].pc = "hook"
    /\ worker' = [v \in Worker |->
          IF v = w THEN [worker[v] EXCEPT !.pc = "exit", !.reason = "failed",
                                         !.turn = 0, !.robbers = {}]
          ELSE IF v[1] = w[1] /\ HasWorkspace(v) /\ ~Cancelled(v)
               THEN [worker[v] EXCEPT !.robbers = @ \cup {w[2]}] ELSE worker[v]]
    /\ dirs' = dirs \ {w[1]}
    /\ UNCHANGED <<o, tick, tracker, changes, phase>>

\* The after_create hook, if there is one, may fail by itself, by its timeout or by
\* the worker's context.
AfterCreateHook(w) == (Step(w, "hook", "launch") /\ UNCHANGED dirs) \/ HookFails(w)

\* The before_run hook, the prompt and the agent's start may fail.
Launch(w) ==
    /\ Step(w, "launch", "turn") \/ Exit(w, "launch", "failed")
    /\ UNCHANGED dirs

\* RunTurn returns: completed, failed or timed out, or cancelled, by the context
\* or by the agent.
RunTurn(w) ==
    /\ \/ Step(w, "turn", "refresh")
       \/ Exit(w, "turn", "failed")
       \/ Exit(w, "turn", "canceled")
    /\ UNCHANGED dirs

\* Between turns the worker asks the tracker whether to go on.  A reply without the
\* issue leaves it the state it had, which was active: it was dispatched in it, or
\* has gone on in it.
Refresh(w) ==
    LET active == tracker[w[1]] \in ActiveStates \/ "silent" \in Env IN
    /\ \/ ("error" \in Env \/ Cancelled(w)) /\ Exit(w, "refresh", "failed")
       \/ tracker[w[1]] \notin ActiveStates /\ Exit(w, "refresh", "inactive")
       \/ active /\ worker[w].turn >= MaxTurns /\ Exit(w, "refresh", "normal")
       \/ /\ active /\ worker[w].turn < MaxTurns /\ worker[w].pc = "refresh"
          /\ worker' = [worker EXCEPT ![w].pc = "turn", ![w].turn = @ + 1]
          /\ UNCHANGED <<o, tick, tracker, changes, phase>>
    /\ UNCHANGED dirs

\* handleWorkerExit: the entry it removes and the context it cancels are those of
\* the issue, not of the worker that exited.
AfterExit(e, reason) ==
    LET f == IF IsRunning(e) THEN Forget(e) ELSE e IN
    CASE reason = "normal" -> RetryOrRelease(f, IF IsRunning(e) THEN e.run.attempt + 1 ELSE 1)
      [] reason \in {"inactive", "canceled"} -> Release(f)
      [] reason = "failed" -> IF IsRunning(e) THEN RetryOrRelease(f, e.run.attempt + 1)
                                              ELSE f

HandleWorkerExit(w) ==
    /\ phase # "down" /\ worker[w].pc = "exit"
    /\ o' = [o EXCEPT ![w[1]] = AfterExit(@, worker[w].reason)]
    /\ worker' = [worker EXCEPT ![w] = [@ EXCEPT !.pc = "done", !.reason = None]]
    /\ UNCHANGED <<tick, dirs, tracker, changes, phase>>
-----------------------------------------------------------------------------
(* The world. *)

ChangeState(i) ==
    /\ changes < MaxChanges
    /\ \E s \in TrackerStates \ {tracker[i]} : tracker' = [tracker EXCEPT ![i] = s]
    /\ changes' = changes + 1
    /\ UNCHANGED <<o, tick, worker, dirs, phase>>

\* Every context derives from the one that is cancelled here; the loop may still
\* pick other events before it sees it.
CancelRoot ==
    /\ "stop" \in Env /\ phase = "up"
    /\ phase' = "stopping"
    /\ UNCHANGED <<o, tick, worker, dirs, tracker, changes>>

\* The loop returns; exits are no longer read, but find room in the channel.
LoopReturns ==
    /\ phase = "stopping"
    /\ phase' = "down"
    /\ UNCHANGED <<o, tick, worker, dirs, tracker, changes>>
-----------------------------------------------------------------------------
WorkerStep(w) ==
    \/ CreateWorkspace(w) \/ MkdirWorkspace(w) \/ AfterCreateHook(w)
    \/ Launch(w) \/ RunTurn(w) \/ Refresh(w)

TickStep == StartTick \/ Reconcile \/ FetchCandidates \/ HandleTick

Next ==
    \/ TickStep
    \/ \E i \in Issue : Fire(i) \/ HandleRetryFired(i) \/ ChangeState(i)
    \/ \E w \in Worker : WorkerStep(w) \/ HandleWorkerExit(w)
    \/ CancelRoot \/ LoopReturns

\* Goroutines run, timers fire and channels are drained; turns end (they have a
\* timeout).  Nothing makes the tracker change or the daemon stop.
Fairness ==
    /\ WF_vars(TickStep) /\ WF_vars(LoopReturns)
    /\ \A i \in Issue : WF_vars(Fire(i)) /\ SF_vars(HandleRetryFired(i))
    /\ \A w \in Worker : WF_vars(WorkerStep(w)) /\ WF_vars(HandleWorkerExit(w))

Spec == Init /\ [][Next]_vars
FairSpec == Spec /\ Fairness
-----------------------------------------------------------------------------
(* Properties. *)

Working(w) ==
    worker[w].pc \in {"create", "mkdir", "hook", "launch", "turn", "refresh"}

\* An issue is running or waiting for a retry, never both: a retry that fires
\* does not start a second worker beside the first.
RetryExcludesRun == \A i \in Issue : ~(IsRunning(o[i]) /\ IsRetrying(o[i]))

\* Whatever is running is claimed, and whatever is claimed is running or waiting
\* for a retry: a leaked claim would hide its issue from shouldDispatch for ever.
ClaimIsHeld ==
    \A i \in Issue : /\ IsRunning(o[i]) => o[i].claimed
                     /\ o[i].claimed => IsRunning(o[i]) \/ IsRetrying(o[i])

\* A retry entry has a timer that will fire, or has fired, with its generation:
\* stopping, replacing and ignoring timers never strands a retry.
RetryHasTimer ==
    \A i \in Issue : IsRetrying(o[i]) => o[i].retry.gen \in o[i].armed \cup o[i].fired

\* The maps the loop keeps for an issue agree with each other and with its timers.
MapsAgree == RetryExcludesRun /\ ClaimIsHeld /\ RetryHasTimer

\* A worker the loop has no entry for has been told to stop: every worker whose
\* context lives is the one in the running map, with its own cancel function.
NoStrayWorker ==
    \A w \in Worker : Working(w) /\ ~Cancelled(w) =>
       LET e == o[w[1]] IN IsRunning(e) /\ e.run.inc = w[2] /\ e.cancel = w[2]

\* The running map never exceeds max_concurrent_agents, by polls and by retries.
RunningWithinLimit == Cardinality(RunningIn(o)) <= MaxConcurrent

\* An agent that may go on working has its workspace: no clean-up removes the
\* directory of an issue that was dispatched again.  The one thing that does is the
\* failing after_create hook of another worker of the issue that was told to stop.
WorkspaceKept ==
    \A w \in Worker : HasWorkspace(w) /\ ~Cancelled(w) =>
        \/ w[1] \in dirs
        \/ worker[w].robbers \cap o[w[1]].killed # {}

\* A scheduled retry is dispatched, released or replaced until it is, unless the
\* loop returns (or the bound on dispatches keeps the model from it).
RetryResolved ==
    \A i \in Issue : IsRetrying(o[i]) ~>
       ~IsRetrying(o[i]) \/ phase = "down" \/ o[i].count = MaxDispatch

\* README: each issue gets its own workspace, agents run in isolation.
OneWorkerPerIssue ==
    \A v, w \in Worker : Working(v) /\ Working(w) /\ v[1] = w[1] => v = w

\* Agents at work, and not just entries of the running map, keep to the limit.
WorkersWithinLimit == Cardinality({w \in Worker : Working(w)}) <= MaxConcurrent

\* An issue that was terminated gets no retry from its worker's late exit.
NoPhantomRetry == \A i \in Issue : IsRetrying(o[i]) => o[i].claimed

\* An issue terminated as stalled waits for its back-off.
StallBacksOff ==
    [][\A i \in Issue : HandleTick /\ Stalled(i) => IsRetrying(o'[i])]_vars

\* A dispatch, by poll or by retry, keeps to the limit of the issue's state.
StateLimitKept ==
    \A s \in ActiveStates : Cardinality(RunningInState(o, s)) <= StateLimit[s]
=============================================================================
