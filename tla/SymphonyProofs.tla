--------------------------- MODULE SymphonyProofs ---------------------------
(* What holds of SymphonyOrchestrator for any number of issues, dispatches,  *)
(* turns and slots, and whatever the environment is allowed to do.           *)
EXTENDS SymphonyOrchestrator, FiniteSetTheorems, TLAPS

\* The maps the loop keeps for one issue agree with each other and with its
\* timers.
EntryOK(e) ==
    /\ e \in Entry
    /\ ~(IsRunning(e) /\ IsRetrying(e))
    /\ IsRunning(e) => e.claimed /\ e.run.inc = e.cancel /\ e.cancel \in 1..e.count
    /\ e.claimed => IsRunning(e) \/ IsRetrying(e)
    /\ IsRetrying(e) => e.retry.gen \in e.armed \cup e.fired

\* Worker k of an issue is accounted for in e: it has been told to stop, or it is
\* the one in the running map.
Covers(e, k) == k \in e.killed \/ (IsRunning(e) /\ e.cancel = k)

\* A step of the loop that takes e to f forgets no worker, and starts at most one.
Keeps(e, f) ==
    /\ \A k \in Nat : Covers(e, k) => Covers(f, k)
    /\ e.killed \subseteq f.killed
    /\ f.count = e.count

Follows(e, f) ==
    /\ \A k \in Nat : Covers(e, k) => Covers(f, k)
    /\ e.killed \subseteq f.killed
    /\ f.count = e.count \/ (f.count = e.count + 1 /\ Covers(f, f.count))

\* The goroutines agree with the loop's account of them.
WorkerOK(w) ==
    LET e == o[w[1]] IN
    /\ worker[w].pc = "unborn" <=> w[2] > e.count
    /\ Working(w) => Covers(e, w[2])
    /\ worker[w].pc = "exit" => worker[w].reason \in Reasons

\* A worker past its creation that has not been told to stop has its directory,
\* unless the failed hook of one that has took it.
DirOK(w) == HasWorkspace(w) /\ ~Cancelled(w) =>
               w[1] \in dirs \/ worker[w].robbers \cap o[w[1]].killed # {}

WType == [pc : WorkerPcs, turn : Nat, reason : Reasons \cup {None}, robbers : SUBSET Nat]

EntryInv  == \A i \in Issue : EntryOK(o[i])
WorkerInv == \A w \in Worker : WorkerOK(w)
DirInv    == \A w \in Worker : DirOK(w)

IInv == TypeOK /\ EntryInv /\ WorkerInv /\ DirInv /\ RunningWithinLimit
-----------------------------------------------------------------------------
(* The operations on an entry. *)

\* None is neither a running nor a retry entry.
LEMMA NoneType == None \notin Run /\ None \notin Retry /\ None \notin [Issue -> TrackerStates]
  BY NoneIsAbsent

\* An entry that is not running, whatever its claim says.
Resting(e) ==
    /\ e \in Entry /\ ~IsRunning(e)
    /\ IsRetrying(e) => e.retry.gen \in e.armed \cup e.fired

\* scheduleRetry replaces a retry and its timer, for an issue that is not running.
LEMMA ScheduleOK ==
  ASSUME NEW e \in Entry, ~IsRunning(e), NEW a \in Nat
  PROVE  LET f == Schedule(e, a) IN
         EntryOK(f) /\ ~IsRunning(f) /\ IsRetrying(f) /\ Keeps(e, f)
  <1> DEFINE f == Schedule(e, a)
  <1>1. f \in Entry
    <2> DEFINE g == e.gen + 1
    <2>1. g \in Nat /\ (e.armed \ {e.timer}) \cup {g} \in SUBSET Nat
      BY DEF Entry
    <2>2. [attempt |-> a, gen |-> g] \in Retry
      BY <2>1 DEF Retry
    <2> HIDE DEF g
    <2>3. [e EXCEPT !.retry = [attempt |-> a, gen |-> g], !.timer = g, !.gen = g,
                    !.armed = (@ \ {e.timer}) \cup {g}] \in Entry
      BY <2>1, <2>2 DEF Entry
    <2> QED
      BY <2>3 DEF g, Schedule
  <1>2. f.run = e.run /\ f.count = e.count /\ f.killed = e.killed /\ f.cancel = e.cancel
        /\ f.retry = [attempt |-> a, gen |-> e.gen + 1] /\ e.gen + 1 \in f.armed
    BY DEF Schedule, Entry
  <1>3. f.retry \in Retry
    BY <1>2 DEF Entry, Retry
  <1> QED
    BY <1>1, <1>2, <1>3, NoneType DEF EntryOK, IsRunning, IsRetrying, Keeps, Covers

\* Releasing the claim of a resting entry makes it consistent.
LEMMA ReleaseOK ==
  ASSUME NEW e, Resting(e)
  PROVE  LET f == Release(e) IN
         EntryOK(f) /\ ~IsRunning(f) /\ f.retry = e.retry /\ Keeps(e, f)
  <1> DEFINE f == Release(e)
  <1>1. f \in Entry
    BY DEF Resting, Release, Entry
  <1>2. f.run = e.run /\ ~f.claimed /\ f.retry = e.retry /\ f.count = e.count
        /\ f.armed = e.armed /\ f.fired = e.fired /\ f.killed = e.killed
        /\ f.cancel = e.cancel
    BY DEF Resting, Release, Entry
  <1> QED
    BY <1>1, <1>2 DEF Resting, EntryOK, IsRunning, IsRetrying, Keeps, Covers

\* Removing the running entry tells its worker to stop.
LEMMA ForgetOK ==
  ASSUME NEW e, EntryOK(e), IsRunning(e)
  PROVE  LET f == Forget(e) IN Resting(f) /\ ~IsRetrying(f) /\ Keeps(e, f)
  <1> DEFINE f == Forget(e)
  <1>1. e \in Entry /\ e.killed \cup ({e.cancel} \ {0}) \in SUBSET Nat
    BY DEF EntryOK, Entry
  <1>2. f \in Entry
    BY <1>1 DEF Entry, Forget
  <1>3. f.run = None /\ f.retry = e.retry /\ f.count = e.count
        /\ f.killed = e.killed \cup ({e.cancel} \ {0})
    BY <1>1 DEF Entry, Forget
  <1>4. e.cancel # 0 /\ ~IsRetrying(e)
    BY DEF EntryOK, Entry
  <1> QED
    BY <1>2, <1>3, <1>4 DEF Resting, IsRunning, IsRetrying, Keeps, Covers

\* terminateRunning leaves an issue that is not running, its worker told to stop.
LEMMA TerminateOK ==
  ASSUME NEW e, EntryOK(e)
  PROVE  LET f == Terminate(e) IN EntryOK(f) /\ ~IsRunning(f) /\ Keeps(e, f)
  <1>1. CASE ~IsRunning(e)
    BY <1>1 DEF Terminate, Keeps, Covers
  <1>2. CASE IsRunning(e)
    <2>1. Resting(Forget(e)) /\ Keeps(e, Forget(e))
      BY <1>2, ForgetOK
    <2> QED
      BY <1>2, <2>1, ReleaseOK DEF Terminate, Keeps
  <1> QED
    BY <1>1, <1>2

\* The caps of retries and continuations end in a retry or a release.
LEMMA RetryOrReleaseOK ==
  ASSUME NEW e, Resting(e), NEW a \in Nat
  PROVE  LET f == RetryOrRelease(e, a) IN EntryOK(f) /\ ~IsRunning(f) /\ Keeps(e, f)
  BY ScheduleOK, ReleaseOK DEF RetryOrRelease, Resting

\* dispatchIssue starts the next worker of an issue that is not running.
LEMMA DispatchOK ==
  ASSUME NEW e, Resting(e), NEW a \in Nat, NEW s \in ActiveStates
  PROVE  LET f == Dispatch(e, a, s) IN EntryOK(f) /\ Follows(e, f)
  <1> DEFINE f == Dispatch(e, a, s)
  <1>1. f \in Entry
    <2>1. e \in Entry /\ e.count + 1 \in Nat
      BY DEF Resting, Entry
    <2>2. [attempt |-> a, state |-> s, inc |-> e.count + 1] \in Run
      BY <2>1 DEF Run
    <2> QED
      BY <2>1, <2>2 DEF Entry, Dispatch
  <1>2. f.run = [attempt |-> a, state |-> s, inc |-> e.count + 1] /\ f.claimed
        /\ f.cancel = e.count + 1 /\ f.count = e.count + 1 /\ f.retry = None
        /\ f.killed = e.killed /\ e.count \in Nat
    BY DEF Resting, Dispatch, Entry
  <1>3. f.run \in Run
    BY <1>2 DEF Run
  <1> QED
    BY <1>1, <1>2, <1>3, NoneType
       DEF Resting, EntryOK, IsRunning, IsRetrying, Follows, Covers

\* An entry that rests is consistent but for its claim.
LEMMA RestingEntry ==
  ASSUME NEW e, EntryOK(e), ~IsRunning(e)
  PROVE  Resting(e)
  BY DEF EntryOK, Resting

\* handleWorkerExit: whatever the reason, and whoever's entry it finds.
LEMMA AfterExitOK ==
  ASSUME NEW e, EntryOK(e), NEW reason \in Reasons
  PROVE  EntryOK(AfterExit(e, reason)) /\ ~IsRunning(AfterExit(e, reason))
         /\ Keeps(e, AfterExit(e, reason))
  <1> DEFINE f == IF IsRunning(e) THEN Forget(e) ELSE e
             a == IF IsRunning(e) THEN e.run.attempt + 1 ELSE 1
  <1>1. Resting(f) /\ Keeps(e, f)
    BY ForgetOK, RestingEntry DEF Keeps
  <1>2. a \in Nat
    BY DEF EntryOK, Entry, IsRunning, Run
  <1>3. LET h == Release(f) IN EntryOK(h) /\ ~IsRunning(h) /\ Keeps(e, h)
    BY <1>1, ReleaseOK DEF Keeps
  <1>4. LET h == RetryOrRelease(f, a) IN EntryOK(h) /\ ~IsRunning(h) /\ Keeps(e, h)
    BY <1>1, <1>2, RetryOrReleaseOK DEF Keeps
  <1>5. CASE reason = "normal"
    BY <1>4, <1>5 DEF AfterExit
  <1>6. CASE reason \in {"inactive", "canceled"}
    BY <1>3, <1>6 DEF AfterExit
  <1>7. CASE reason = "failed" /\ IsRunning(e)
    BY <1>4, <1>7 DEF AfterExit
  <1>8. CASE reason = "failed" /\ ~IsRunning(e)
    BY <1>8 DEF AfterExit, Keeps
  <1> QED
    BY <1>5, <1>6, <1>7, <1>8 DEF Reasons

\* Reconciliation: an issue is terminated, rescheduled or given its new state, but
\* never started; one whose workspace is removed is not running afterwards.
LEMMA ReconciledOK ==
  ASSUME NEW i \in Issue, EntryOK(o[i])
  PROVE  /\ EntryOK(Reconciled(i)) /\ Keeps(o[i], Reconciled(i))
         /\ IsRunning(Reconciled(i)) => IsRunning(o[i]) /\ i \notin Cleaned
  <1> DEFINE e == IF Stalled(i) THEN Schedule(Terminate(o[i]), 1) ELSE o[i]
             s == IF i \in tick.ids /\ tick.seen # None THEN tick.seen[i] ELSE "unseen"
  <1>1. EntryOK(e) /\ Keeps(o[i], e) /\ (IsRunning(e) => IsRunning(o[i]) /\ ~Stalled(i))
    <2>1. CASE Stalled(i)
      <3>1. EntryOK(Terminate(o[i])) /\ ~IsRunning(Terminate(o[i]))
            /\ Keeps(o[i], Terminate(o[i])) /\ Terminate(o[i]) \in Entry
        BY TerminateOK DEF EntryOK
      <3> QED
        BY <2>1, <3>1, ScheduleOK DEF Keeps
    <2>2. CASE ~Stalled(i)
      BY <2>2 DEF Keeps
    <2> QED
      BY <2>1, <2>2
  <1>2. CASE s \in {"inactive", "terminal"}
    <2>1. Reconciled(i) = Terminate(e)
      BY <1>2 DEF Reconciled
    <2> QED
      BY <1>1, <2>1, TerminateOK DEF Keeps
  <1>3. CASE s \in ActiveStates /\ IsRunning(e)
    <2> DEFINE f == [e EXCEPT !.run.state = s]
    <2>1. Reconciled(i) = f
      BY <1>3 DEF Reconciled, ActiveStates
    <2>2. e \in Entry /\ e.run \in Run
      BY <1>1, <1>3 DEF EntryOK, Entry, IsRunning
    <2>3. [e.run EXCEPT !.state = s] \in Run
      BY <1>3, <2>2 DEF Run
    <2>4. f \in Entry
      BY <2>2, <2>3 DEF Entry
    <2>5. f.run \in Run /\ f.run.inc = e.run.inc /\ f.claimed = e.claimed
          /\ f.cancel = e.cancel /\ f.count = e.count /\ f.retry = e.retry
          /\ f.armed = e.armed /\ f.fired = e.fired /\ f.killed = e.killed
      BY <2>2, <2>3 DEF Entry, Run
    <2>6. EntryOK(f) /\ Keeps(o[i], f)
      BY <1>1, <1>3, <2>4, <2>5, NoneType DEF EntryOK, Keeps, Covers, IsRunning, IsRetrying
    <2>7. i \notin Cleaned
      BY <1>3 DEF Cleaned, ActiveStates
    <2> QED
      BY <1>1, <1>3, <2>1, <2>6, <2>7
  <1>4. CASE s \notin {"inactive", "terminal"} /\ ~(s \in ActiveStates /\ IsRunning(e))
    <2>1. Reconciled(i) = e
      BY <1>4 DEF Reconciled
    <2>2. i \notin Cleaned
      BY <1>4 DEF Cleaned
    <2> QED
      BY <1>1, <2>1, <2>2
  <1> QED
    BY <1>2, <1>3, <1>4

\* handleRetryFired: the retry it takes out is dispatched, rescheduled or released.
LEMMA AfterRetryOK ==
  ASSUME NEW i \in Issue, EntryOK(o[i]), IsRetrying(o[i]), NEW g \in Nat,
         NEW new \in AfterRetry(i, [o[i] EXCEPT !.fired = @ \ {g}, !.retry = None, !.timer = 0],
                                o[i].retry.attempt)
  PROVE  EntryOK(new) /\ Follows(o[i], new) /\ (IsRunning(new) => ~(SlotsFor(o) <= 0))
  <1> DEFINE e == [o[i] EXCEPT !.fired = @ \ {g}, !.retry = None, !.timer = 0]
             a == o[i].retry.attempt
  <1>1. o[i] \in Entry /\ a \in Nat
    BY DEF EntryOK, Entry, IsRetrying, Retry
  <1>2. e \in Entry
    BY <1>1 DEF Entry
  <1>3. e.run = o[i].run /\ e.retry = None /\ e.count = o[i].count
        /\ e.cancel = o[i].cancel /\ e.killed = o[i].killed
    BY <1>1 DEF Entry
  <1>4. Resting(e) /\ Keeps(o[i], e)
    BY <1>2, <1>3 DEF EntryOK, Resting, IsRunning, IsRetrying, Keeps, Covers
  <1>5. CASE new = Release(e)
    BY <1>4, <1>5, ReleaseOK DEF Keeps, Follows
  <1>6. CASE new = Schedule(e, a + 1)
    <2>1. EntryOK(new) /\ ~IsRunning(new) /\ Keeps(e, new)
      BY <1>1, <1>2, <1>4, <1>6, ScheduleOK DEF Resting
    <2> QED
      BY <1>4, <2>1 DEF Keeps, Follows
  <1>7. CASE new = Dispatch(e, a, tracker[i]) /\ tracker[i] \in ActiveStates
             /\ ~(SlotsFor(o) <= 0)
    <2>1. EntryOK(new) /\ Follows(e, new)
      BY <1>1, <1>4, <1>7, DispatchOK
    <2> QED
      BY <1>3, <1>4, <1>7, <2>1 DEF Keeps, Follows
  <1> QED
    BY <1>5, <1>6, <1>7 DEF AfterRetry
-----------------------------------------------------------------------------
(* Steps. *)

\* The first state satisfies the inductive invariant.
THEOREM InitInv == Init => IInv
  <1> SUFFICES ASSUME Init PROVE IInv
    OBVIOUS
  <1> USE DEF Init
  <1>1. NoEntry \in Entry /\ NoEntry.run = None /\ NoEntry.retry = None
        /\ ~NoEntry.claimed /\ NoEntry.count = 0
    BY DEF NoEntry, Entry
  <1>2. EntryInv
    BY <1>1, NoneType DEF EntryInv, EntryOK, IsRunning, IsRetrying
  <1>3. TypeOK
    BY <1>1 DEF TypeOK, Tick, NoTick, WorkerPcs, TrackerStates, ActiveStates
  <1>4. WorkerInv /\ DirInv
    BY <1>1 DEF WorkerInv, WorkerOK, DirInv, DirOK, Working, HasWorkspace, Worker
  <1>5. RunningIn(o) = {}
    BY <1>1 DEF RunningIn, IsRunning
  <1>6. RunningWithinLimit
    <2> HIDE DEF Init
    <2>1. Cardinality(RunningIn(o)) = 0
      BY <1>5, FS_EmptySet
    <2>2. 0 <= MaxConcurrent
      BY SymphonyConstants
    <2> QED
      BY <2>1, <2>2 DEF RunningWithinLimit
  <1> QED
    BY <1>2, <1>3, <1>4, <1>6 DEF IInv

\* A goroutine that the loop starts.
LEMMA CreateType ==
  ASSUME NEW v \in WType
  PROVE  LET u == [v EXCEPT !.pc = "create", !.turn = 1] IN
         /\ u \in WType
         /\ u.pc = "create"
  BY DEF WType, WorkerPcs

\* When the loop takes every entry forward and starts the workers it dispatched,
\* each new worker is the one in its issue's entry and no old one is forgotten.
LEMMA StartedOK ==
  ASSUME TypeOK, WorkerInv, EntryInv, worker' = Started(o'),
         \A i \in Issue : EntryOK(o'[i]) /\ Follows(o[i], o'[i])
  PROVE  /\ worker' \in [Worker -> WType]
         /\ WorkerInv'
         /\ \A w \in Worker : HasWorkspace(w)' => worker'[w] = worker[w]
  <1>1. ASSUME NEW w \in Worker
        PROVE  /\ worker'[w] \in WType
               /\ WorkerOK(w)'
               /\ worker'[w] = worker[w] \/ worker'[w].pc = "create"
    <2>1. PICK i \in Issue, k \in 1..MaxDispatch : w = <<i, k>> /\ w[1] = i /\ w[2] = k
      BY DEF Worker
    <2>2. worker[w] \in WType
      BY DEF TypeOK, WType
    <2>3. o[i].count \in Nat /\ o'[i].count \in Nat /\ k \in Nat
      BY SymphonyConstants DEF EntryInv, EntryOK, Entry
    <2>4. CASE worker[w].pc = "unborn" /\ k <= o'[i].count
      <3>1. worker'[w] = [worker[w] EXCEPT !.pc = "create", !.turn = 1]
        BY <2>1, <2>4 DEF Started
      <3>2. worker'[w].pc = "create"
            /\ worker'[w] \in WType
        BY <2>2, <3>1, CreateType
      <3>3. k > o[i].count
        BY <2>1, <2>4 DEF WorkerInv, WorkerOK
      <3>4. Covers(o'[i], k)
        BY <2>1, <2>3, <2>4, <3>3 DEF Follows
      <3> QED
        BY <2>1, <2>3, <2>4, <3>2, <3>4 DEF WorkerOK, Working, Covers, IsRunning
    <2>5. CASE ~(worker[w].pc = "unborn" /\ k <= o'[i].count)
      <3>1. worker'[w] = worker[w]
        BY <2>1, <2>5 DEF Started
      <3>2. worker[w].pc = "unborn" <=> k > o[i].count
        BY <2>1 DEF WorkerInv, WorkerOK
      <3>3. worker[w].pc = "unborn" <=> k > o'[i].count
        BY <2>3, <2>5, <3>2 DEF Follows
      <3>4. Working(w) => Covers(o'[i], k)
        BY <2>1, <2>3 DEF WorkerInv, WorkerOK, Follows
      <3>5. worker[w].pc = "exit" => worker[w].reason \in Reasons
        BY DEF WorkerInv, WorkerOK
      <3> QED
        BY <2>1, <2>2, <3>1, <3>3, <3>4, <3>5 DEF WorkerOK, Working, Covers, IsRunning
    <2> QED
      BY <2>4, <2>5
  <1> QED
    BY <1>1 DEF WorkerInv, Started, HasWorkspace

\* The running map is finite, and stays within the limit while it does not grow.
LEMMA FiniteRunning ==
  ASSUME NEW es
  PROVE  IsFiniteSet(RunningIn(es)) /\ Cardinality(RunningIn(es)) \in Nat
  BY RunningIn(es) \in SUBSET Issue, FS_Subset, FS_CardinalityType, SymphonyConstants
     DEF RunningIn

LEMMA LimitKept ==
  ASSUME RunningWithinLimit, RunningIn(o') \subseteq RunningIn(o)
  PROVE  RunningWithinLimit'
  <1>1. Cardinality(RunningIn(o')) <= Cardinality(RunningIn(o))
    BY FiniteRunning, FS_Subset
  <1>2. Cardinality(RunningIn(o')) \in Nat /\ Cardinality(RunningIn(o)) \in Nat
    BY FiniteRunning
  <1> QED
    BY <1>1, <1>2, SymphonyConstants DEF RunningWithinLimit

\* The tick goroutine, the world and the end of the loop leave entries, workers and
\* directories alone.
LEMMA QuietInv ==
  ASSUME IInv,
         \/ StartTick \/ Reconcile \/ FetchCandidates
         \/ \E i \in Issue : ChangeState(i)
         \/ CancelRoot \/ LoopReturns
  PROVE  IInv'
  <1>1. UNCHANGED <<o, worker, dirs>>
    BY DEF StartTick, Reconcile, FetchCandidates, ChangeState, CancelRoot, LoopReturns
  <1>2. EntryInv' /\ WorkerInv' /\ RunningWithinLimit'
    BY <1>1 DEF IInv, EntryInv, WorkerInv, WorkerOK, Working, RunningWithinLimit
  <1>4. phase' = "up" => phase = "up"
    BY DEF StartTick, Reconcile, FetchCandidates, ChangeState, CancelRoot, LoopReturns
  <1>5. DirInv'
    BY <1>1, <1>4 DEF IInv, DirInv, DirOK, HasWorkspace, Cancelled
  <1>3. TypeOK'
    <2> USE DEF IInv, TypeOK
    <2>1. CASE StartTick
      BY <2>1 DEF StartTick, NoTick, Tick, RunningIn
    <2>2. CASE Reconcile
      <3>1. PICK stalled \in IF "stall" \in Env THEN SUBSET tick.ids ELSE {{}},
                 answered \in IF "silent" \in Env THEN SUBSET tick.ids ELSE {tick.ids},
                 seen \in {tracker, None} :
              tick' = [tick EXCEPT !.at = "fetch", !.ids = answered,
                                   !.stalled = stalled, !.seen = seen]
        BY <2>2 DEF Reconcile
      <3>2. /\ stalled \in SUBSET Issue /\ answered \in SUBSET Issue
            /\ seen \in [Issue -> TrackerStates] \cup {None}
        BY <3>1 DEF Tick
      <3> QED
        BY <2>2, <3>1, <3>2 DEF Reconcile, Tick
    <2>3. CASE FetchCandidates
      <3>1. PICK cands \in {tracker} \cup (IF "error" \in Env THEN {None} ELSE {}) :
              tick' = [tick EXCEPT !.at = "ready", !.cands = cands]
        BY <2>3 DEF FetchCandidates
      <3>2. cands \in [Issue -> TrackerStates] \cup {None}
        BY <3>1
      <3> QED
        BY <2>3, <3>1, <3>2 DEF FetchCandidates, Tick
    <2>4. CASE \E i \in Issue : ChangeState(i)
      BY <2>4 DEF ChangeState
    <2>5. CASE CancelRoot \/ LoopReturns
      BY <2>5 DEF CancelRoot, LoopReturns
    <2> QED
      BY <2>1, <2>2, <2>3, <2>4, <2>5
  <1> QED
    BY <1>2, <1>3, <1>5 DEF IInv

\* A timer that fires moves its generation from one set to the other.
LEMMA FireInv ==
  ASSUME IInv, NEW i \in Issue, Fire(i)
  PROVE  IInv'
  <1>1. PICK g \in o[i].armed :
          o' = [o EXCEPT ![i].armed = @ \ {g}, ![i].fired = @ \cup {g}]
    BY DEF Fire
  <1> DEFINE f == [o[i] EXCEPT !.armed = @ \ {g}, !.fired = @ \cup {g}]
  <1>2. o[i] \in Entry /\ g \in Nat /\ EntryOK(o[i])
    BY DEF IInv, EntryInv, EntryOK, Entry
  <1>3. o' = [o EXCEPT ![i] = f]
    BY <1>1, <1>2 DEF Entry
  <1>4. f \in Entry
    BY <1>2 DEF Entry
  <1>5. f.armed = o[i].armed \ {g} /\ f.fired = o[i].fired \cup {g} /\ f.run = o[i].run
        /\ f.claimed = o[i].claimed /\ f.cancel = o[i].cancel /\ f.count = o[i].count
        /\ f.retry = o[i].retry /\ f.killed = o[i].killed
    BY <1>2 DEF Entry
  <1>6. EntryOK(f)
    BY <1>2, <1>4, <1>5 DEF EntryOK, IsRunning, IsRetrying
  <1>7. \A j \in Issue : /\ EntryOK(o'[j]) /\ o'[j] \in Entry
                         /\ o'[j].killed = o[j].killed /\ o'[j].count = o[j].count
                         /\ o'[j].run = o[j].run /\ o'[j].cancel = o[j].cancel
    BY <1>2, <1>3, <1>4, <1>5, <1>6 DEF IInv, TypeOK, EntryInv
  <1>8. UNCHANGED <<tick, worker, dirs, tracker, changes, phase>>
    BY DEF Fire
  <1>9. TypeOK' /\ EntryInv'
    BY <1>3, <1>4, <1>7, <1>8 DEF IInv, TypeOK, EntryInv
  <1>10. WorkerInv' /\ DirInv'
    BY <1>7, <1>8 DEF IInv, WorkerInv, WorkerOK, Working, Covers, IsRunning, DirInv,
       DirOK, HasWorkspace, Cancelled, Worker
  <1>11. RunningIn(o') = RunningIn(o)
    BY <1>7 DEF RunningIn, IsRunning
  <1> QED
    BY <1>9, <1>10, <1>11, LimitKept DEF IInv
\* The directories a handler leaves alone go on serving the workers.
LEMMA DirKept ==
  ASSUME TypeOK, DirInv, UNCHANGED <<dirs, phase>>,
         \A i \in Issue : o[i].killed \subseteq o'[i].killed,
         \A w \in Worker : HasWorkspace(w)' => worker'[w] = worker[w]
  PROVE  DirInv'
  BY DEF DirInv, DirOK, HasWorkspace, Cancelled, Worker

\* A retry that fires.
LEMMA RetryInv ==
  ASSUME IInv, NEW i \in Issue, HandleRetryFired(i)
  PROVE  IInv'
  <1>1. PICK g \in o[i].fired :
          LET e == [o[i] EXCEPT !.fired = @ \ {g}] IN
          IF Current(o[i], g)
          THEN \E new \in AfterRetry(i, [e EXCEPT !.retry = None, !.timer = 0],
                                     o[i].retry.attempt) :
                 o' = [o EXCEPT ![i] = new]
          ELSE o' = [o EXCEPT ![i] = e]
    BY DEF HandleRetryFired
  <1> DEFINE e == [o[i] EXCEPT !.fired = @ \ {g}]
  <1>2. o[i] \in Entry /\ EntryOK(o[i]) /\ g \in Nat
    BY DEF IInv, EntryInv, EntryOK, Entry
  <1>3. PICK f : /\ o' = [o EXCEPT ![i] = f]
                 /\ EntryOK(f) /\ Follows(o[i], f)
                 /\ IsRunning(f) => IsRunning(o[i]) \/ ~(SlotsFor(o) <= 0)
    <2>1. CASE Current(o[i], g)
      <3>1. [e EXCEPT !.retry = None, !.timer = 0]
              = [o[i] EXCEPT !.fired = @ \ {g}, !.retry = None, !.timer = 0]
        BY <1>2 DEF Entry
      <3>2. PICK new \in AfterRetry(i, [o[i] EXCEPT !.fired = @ \ {g}, !.retry = None,
                                                    !.timer = 0], o[i].retry.attempt) :
              o' = [o EXCEPT ![i] = new]
        BY <1>1, <2>1, <3>1
      <3> QED
        BY <1>2, <2>1, <3>2, AfterRetryOK DEF Current
    <2>2. CASE ~Current(o[i], g)
      <3>1. e \in Entry /\ e.fired = o[i].fired \ {g} /\ e.run = o[i].run
            /\ e.retry = o[i].retry /\ e.claimed = o[i].claimed /\ e.armed = o[i].armed
            /\ e.cancel = o[i].cancel /\ e.count = o[i].count /\ e.killed = o[i].killed
        BY <1>2 DEF Entry
      <3>2. EntryOK(e) /\ Follows(o[i], e) /\ (IsRunning(e) => IsRunning(o[i]))
        BY <1>2, <2>2, <3>1 DEF EntryOK, Follows, Covers, IsRunning, IsRetrying, Current
      <3> QED
        BY <1>1, <2>2, <3>2
    <2> QED
      BY <2>1, <2>2
  <1>4. o'[i] = f /\ \A j \in Issue \ {i} : o'[j] = o[j]
    BY <1>3 DEF IInv, TypeOK
  <1>5. \A j \in Issue : EntryOK(o'[j]) /\ Follows(o[j], o'[j])
    BY <1>3, <1>4 DEF IInv, EntryInv, Follows
  <1>6. worker' = Started(o') /\ UNCHANGED <<tick, dirs, tracker, changes, phase>>
    BY DEF HandleRetryFired
  <1>7. EntryInv' /\ o' \in [Issue -> Entry]
    BY <1>3, <1>5 DEF IInv, TypeOK, EntryInv, EntryOK
  <1>8. WorkerInv' /\ DirInv' /\ TypeOK'
    BY <1>5, <1>6, <1>7, StartedOK, DirKept DEF IInv, TypeOK, WType, Follows
  <1>9. RunningWithinLimit'
    <2>1. CASE IsRunning(f) => IsRunning(o[i])
      BY <1>4, <2>1, LimitKept DEF IInv, RunningIn
    <2>2. CASE ~(SlotsFor(o) <= 0)
      <3>1. RunningIn(o') \subseteq RunningIn(o) \cup {i}
        BY <1>4 DEF RunningIn
      <3>2. /\ IsFiniteSet(RunningIn(o) \cup {i})
            /\ Cardinality(RunningIn(o) \cup {i}) <= Cardinality(RunningIn(o)) + 1
        <4>1. IsFiniteSet(RunningIn(o)) /\ Cardinality(RunningIn(o)) \in Nat
          BY FiniteRunning
        <4>2. Cardinality(RunningIn(o) \cup {i})
                = IF i \in RunningIn(o) THEN Cardinality(RunningIn(o))
                                        ELSE Cardinality(RunningIn(o)) + 1
          BY <4>1, FS_AddElement
        <4> QED
          BY <4>1, <4>2, FS_AddElement
      <3>3. Cardinality(RunningIn(o')) <= Cardinality(RunningIn(o) \cup {i})
        BY <3>1, <3>2, FS_Subset
      <3>4. /\ Cardinality(RunningIn(o')) \in Nat /\ Cardinality(RunningIn(o)) \in Nat
            /\ Cardinality(RunningIn(o) \cup {i}) \in Nat
        BY <3>2, FiniteRunning, FS_CardinalityType
      <3>5. Cardinality(RunningIn(o)) < MaxConcurrent
        BY <2>2, <3>4, SymphonyConstants DEF SlotsFor
      <3> QED
        BY <3>2, <3>3, <3>4, <3>5, SymphonyConstants DEF RunningWithinLimit
    <2> QED
      BY <1>3, <2>1, <2>2
  <1> QED
    BY <1>7, <1>8, <1>9 DEF IInv
\* A poll's results: every entry is reconciled, and those of D dispatched.
LEMMA TickInv ==
  ASSUME IInv, HandleTick
  PROVE  IInv'
  <1> DEFINE es == [i \in Issue |-> Reconciled(i)]
  <1>1. PICK D \in IF tick.cands = None THEN {{}} ELSE Dispatchable(es, tick.cands) :
          o' = [i \in Issue |-> IF i \in D THEN Dispatch(es[i], 0, tick.cands[i]) ELSE es[i]]
    BY DEF HandleTick
  <1>2. \A i \in Issue : /\ EntryOK(es[i]) /\ Keeps(o[i], es[i])
                         /\ IsRunning(es[i]) => IsRunning(o[i]) /\ i \notin Cleaned
    BY ReconciledOK DEF IInv, EntryInv
  <1>3. /\ \A i \in D : i \in Issue /\ ~IsRunning(es[i]) /\ tick.cands[i] \in ActiveStates
        /\ D = {} \/ Cardinality(D) <= SlotsFor(es)
    <2>1. CASE tick.cands = None
      BY <1>1, <2>1
    <2>2. CASE tick.cands # None
      BY <1>1, <2>2 DEF Dispatchable, Eligible, Fits
    <2> QED
      BY <2>1, <2>2
  <1> HIDE DEF es
  <1>4. \A i \in Issue : /\ EntryOK(o'[i]) /\ Follows(o[i], o'[i])
                         /\ es[i].killed \subseteq o'[i].killed
                         /\ IsRunning(o'[i]) => IsRunning(es[i]) \/ i \in D
    <2> SUFFICES ASSUME NEW i \in Issue
                 PROVE  /\ EntryOK(o'[i]) /\ Follows(o[i], o'[i])
                        /\ es[i].killed \subseteq o'[i].killed
                        /\ IsRunning(o'[i]) => IsRunning(es[i]) \/ i \in D
      OBVIOUS
    <2>1. CASE i \in D
      <3>1. Resting(es[i])
        BY <1>2, <1>3, <2>1, RestingEntry
      <3>2. EntryOK(o'[i]) /\ Follows(es[i], o'[i])
        BY <1>1, <1>3, <2>1, <3>1, DispatchOK
      <3> QED
        BY <1>2, <2>1, <3>2 DEF Keeps, Follows
    <2>2. CASE i \notin D
      BY <1>1, <1>2, <2>2 DEF Keeps, Follows
    <2> QED
      BY <2>1, <2>2
  <1>5. /\ worker' = Started(o') /\ tick' = NoTick /\ dirs' = dirs \ Cleaned
        /\ UNCHANGED <<tracker, changes, phase>>
    BY DEF HandleTick
  <1>6. EntryInv' /\ o' \in [Issue -> Entry]
    BY <1>1, <1>4 DEF EntryInv, EntryOK
  <1>7. TypeOK' /\ WorkerInv'
    BY <1>4, <1>5, <1>6, StartedOK DEF IInv, TypeOK, WType, NoTick, Tick
  <1>8. ASSUME NEW w \in Worker, HasWorkspace(w)'
        PROVE  DirOK(w)'
    <2>1. PICK i \in Issue, k \in Nat : w[1] = i /\ w[2] = k
      BY SymphonyConstants DEF Worker
    <2>2. worker'[w] = worker[w]
      BY <1>4, <1>5, <1>8, StartedOK DEF IInv
    <2>3. CASE i \in Cleaned
      <3>1. Covers(o[i], k)
        BY <1>8, <2>1, <2>2 DEF IInv, WorkerInv, WorkerOK, Working, HasWorkspace
      <3>2. Covers(es[i], k) /\ ~IsRunning(es[i])
        BY <1>2, <2>3, <3>1 DEF Keeps
      <3> QED
        BY <1>4, <2>1, <3>2 DEF Covers, DirOK, Cancelled
    <2>4. CASE i \notin Cleaned
      <3>1. i \in Issue /\ o[i].killed \subseteq o'[i].killed
        BY <1>4, <2>1 DEF Worker, Follows
      <3>2. DirOK(w) /\ HasWorkspace(w)
        BY <1>8, <2>2 DEF IInv, DirInv, HasWorkspace
      <3> QED
        BY <1>5, <2>1, <2>2, <2>4, <3>1, <3>2 DEF DirOK, HasWorkspace, Cancelled
    <2> QED
      BY <2>3, <2>4
  <1>9. RunningWithinLimit'
    <2>1. RunningIn(o') \subseteq RunningIn(es) \cup D /\ RunningIn(es) \subseteq RunningIn(o)
      BY <1>2, <1>3, <1>4 DEF RunningIn
    <2>2. CASE D = {}
      BY <2>1, <2>2, LimitKept DEF IInv
    <2>3. CASE D # {}
      <3> DEFINE R == RunningIn(es)
      <3>1. IsFiniteSet(R) /\ Cardinality(R) \in Nat
        BY FiniteRunning
      <3>2. IsFiniteSet(D) /\ Cardinality(D) \in Nat
        BY <1>3, D \in SUBSET Issue, FS_Subset, FS_CardinalityType, SymphonyConstants
      <3>3. IsFiniteSet(R \cap D) /\ Cardinality(R \cap D) \in Nat
        BY <3>1, R \cap D \in SUBSET R, FS_Subset, FS_CardinalityType
      <3>4. Cardinality(D) <= MaxConcurrent - Cardinality(R)
        BY <1>3, <2>3 DEF SlotsFor
      <3> HIDE DEF R
      <3>5. IsFiniteSet(R \cup D)
            /\ Cardinality(R \cup D) = Cardinality(R) + Cardinality(D) - Cardinality(R \cap D)
        BY <3>1, <3>2, FS_Union
      <3>6. Cardinality(R \cup D) <= MaxConcurrent
        BY <3>1, <3>2, <3>3, <3>4, <3>5, SymphonyConstants
      <3>7. Cardinality(RunningIn(o')) <= Cardinality(R \cup D)
        BY <2>1, <3>5, FS_Subset DEF R
      <3>8. Cardinality(RunningIn(o')) \in Nat /\ Cardinality(R \cup D) \in Nat
        BY <3>5, FiniteRunning, FS_CardinalityType
      <3> QED
        BY <3>6, <3>7, <3>8, SymphonyConstants DEF RunningWithinLimit
    <2> QED
      BY <2>2, <2>3
  <1>10. DirInv'
    BY <1>8 DEF DirInv, DirOK, HasWorkspace
  <1> QED
    BY <1>6, <1>7, <1>9, <1>10 DEF IInv
\* What a worker does by itself: it stays a worker of its issue until it is done,
\* and has a directory once it is past its creation.
LEMMA WorkerStepInv ==
  ASSUME IInv, NEW w \in Worker, WorkerStep(w), ~HookFails(w)
  PROVE  IInv'
  <1>1. PICK i \in Issue, k \in 1..MaxDispatch : w = <<i, k>> /\ w[1] = i /\ w[2] = k
    BY DEF Worker
  <1>2. worker \in [Worker -> WType] /\ worker[w] \in WType
    BY DEF IInv, TypeOK, WType
  <1>3. /\ UNCHANGED <<o, tick, tracker, changes, phase>>
        /\ Working(w)
    BY DEF WorkerStep, CreateWorkspace, MkdirWorkspace, AfterCreateHook, HookFails, Launch,
           RunTurn, Refresh, Step, Exit, Working
  <1>4. \E v \in WType : /\ worker' = [worker EXCEPT ![w] = v]
                         /\ v.pc \in {"mkdir", "hook", "launch", "turn", "refresh", "exit"}
                         /\ v.pc = "exit" => v.reason \in Reasons
                         /\ v.robbers = worker[w].robbers \/ v.pc = "exit"
    <2>1. CASE \E from \in WorkerPcs, to \in {"mkdir", "hook", "launch", "turn", "refresh"} :
                 Step(w, from, to)
      <3>1. PICK to \in {"mkdir", "hook", "launch", "turn", "refresh"} :
              worker' = [worker EXCEPT ![w].pc = to]
        BY <2>1 DEF Step
      <3>2. [worker[w] EXCEPT !.pc = to] \in WType
        BY <1>2 DEF WType, WorkerPcs
      <3>3. /\ [worker[w] EXCEPT !.pc = to].pc = to
            /\ [worker[w] EXCEPT !.pc = to].robbers = worker[w].robbers
        BY <1>2 DEF WType
      <3> QED
        BY <1>2, <3>1, <3>2, <3>3
    <2>2. CASE \E from \in WorkerPcs, reason \in Reasons : Exit(w, from, reason)
      <3>1. PICK reason \in Reasons :
              worker' = [worker EXCEPT ![w] = [@ EXCEPT !.pc = "exit", !.reason = reason,
                                                        !.turn = 0, !.robbers = {}]]
        BY <2>2 DEF Exit
      <3> DEFINE v == [worker[w] EXCEPT !.pc = "exit", !.reason = reason, !.turn = 0,
                                           !.robbers = {}]
      <3>2. v \in WType
        BY <1>2 DEF WType, WorkerPcs
      <3>3. v.pc = "exit" /\ v.reason = reason
        BY <1>2 DEF WType
      <3> QED
        BY <1>2, <3>1, <3>2, <3>3
    <2>3. CASE worker' = [worker EXCEPT ![w].pc = "turn", ![w].turn = @ + 1]
      <3> DEFINE v == [worker[w] EXCEPT !.pc = "turn", !.turn = @ + 1]
      <3>1. worker' = [worker EXCEPT ![w] = v]
        BY <1>2, <2>3 DEF WType
      <3>2. v \in WType
        <4>1. worker[w].turn + 1 \in Nat
          BY <1>2 DEF WType
        <4> QED
          BY <1>2, <4>1 DEF WType, WorkerPcs
      <3>3. v.pc = "turn" /\ v.robbers = worker[w].robbers
        BY <1>2 DEF WType
      <3> QED
        BY <3>1, <3>2, <3>3
    <2> QED
      BY <2>1, <2>2, <2>3
         DEF WorkerStep, CreateWorkspace, MkdirWorkspace, AfterCreateHook, HookFails, Launch,
             RunTurn, Refresh, WorkerPcs, Reasons
  <1>5. PICK v \in WType : /\ worker' = [worker EXCEPT ![w] = v]
                           /\ v.pc \in {"mkdir", "hook", "launch", "turn", "refresh", "exit"}
                           /\ v.pc = "exit" => v.reason \in Reasons
                           /\ v.robbers = worker[w].robbers \/ v.pc = "exit"
    BY <1>4
  <1>6. worker'[w] = v /\ \A x \in Worker \ {w} : worker'[x] = worker[x]
    BY <1>2, <1>5
  <1>7. dirs \subseteq dirs' /\ dirs' \subseteq Issue
        /\ (HasWorkspace(w)' /\ ~HasWorkspace(w) => i \in dirs')
    <2>1. CASE CreateWorkspace(w)
      <3>1. CASE Step(w, "create", "launch") /\ i \in dirs
        BY <1>1, <2>1, <3>1 DEF IInv, TypeOK, CreateWorkspace
      <3>2. CASE Step(w, "create", "mkdir")
        <4>1. worker'[w].pc = "mkdir"
          BY <1>2, <3>2 DEF Step, WType
        <4> QED
          BY <2>1, <4>1 DEF IInv, TypeOK, CreateWorkspace, HasWorkspace
      <3>3. CASE Exit(w, "create", "failed")
        <4>1. worker'[w].pc = "exit"
          BY <1>2, <3>3 DEF Exit, WType
        <4> QED
          BY <2>1, <4>1 DEF IInv, TypeOK, CreateWorkspace, HasWorkspace
      <3> QED
        BY <1>1, <2>1, <3>1, <3>2, <3>3 DEF CreateWorkspace
    <2>2. CASE MkdirWorkspace(w)
      <3>1. CASE dirs' = dirs \cup {w[1]}
        BY <1>1, <3>1 DEF IInv, TypeOK
      <3>2. CASE Exit(w, "mkdir", "failed") /\ UNCHANGED dirs
        <4>1. worker'[w].pc = "exit"
          BY <1>2, <3>2 DEF Exit, WType
        <4> QED
          BY <3>2, <4>1 DEF IInv, TypeOK, HasWorkspace
      <3> QED
        BY <2>2, <3>1, <3>2 DEF MkdirWorkspace
    <2>3. CASE AfterCreateHook(w) \/ Launch(w) \/ RunTurn(w) \/ Refresh(w)
      <3>1. HasWorkspace(w) /\ UNCHANGED dirs
        BY <2>3 DEF AfterCreateHook, HookFails, Launch, RunTurn, Refresh, Step, Exit,
                    HasWorkspace
      <3> QED
        BY <3>1 DEF IInv, TypeOK
    <2> QED
      BY <2>1, <2>2, <2>3 DEF WorkerStep
  <1>8. TypeOK' /\ EntryInv' /\ RunningWithinLimit'
    BY <1>2, <1>3, <1>5, <1>7 DEF IInv, TypeOK, WType, EntryInv, RunningWithinLimit
  <1>9. WorkerInv'
    BY <1>3, <1>5, <1>6 DEF IInv, WorkerInv, WorkerOK, Working, Covers, IsRunning
  <1>10. DirInv'
    <2> SUFFICES ASSUME NEW x \in Worker PROVE DirOK(x)'
      BY DEF DirInv
    <2>1. DirOK(x)
      BY DEF IInv, DirInv
    <2>2. CASE x # w
      BY <1>3, <1>6, <1>7, <2>1, <2>2 DEF DirOK, HasWorkspace, Cancelled
    <2>3. CASE x = w /\ HasWorkspace(w)
      BY <1>3, <1>5, <1>6, <1>7, <2>1, <2>3 DEF DirOK, HasWorkspace, Cancelled
    <2>4. CASE x = w /\ ~HasWorkspace(w)
      BY <1>1, <1>7, <2>4 DEF DirOK, HasWorkspace
    <2> QED
      BY <2>2, <2>3, <2>4
  <1> QED
    BY <1>8, <1>9, <1>10 DEF IInv

\* A failed hook takes the directory from whoever has it: from a worker that may go
\* on only if its own was told to stop, as the two cannot both be in the running map.
LEMMA HookFailsInv ==
  ASSUME IInv, NEW w \in Worker, HookFails(w)
  PROVE  IInv'
  <1>1. PICK i \in Issue, k \in 1..MaxDispatch : w = <<i, k>> /\ w[1] = i /\ w[2] = k
    BY DEF Worker
  <1>2. worker \in [Worker -> WType] /\ worker[w] \in WType /\ k \in Nat
    BY <1>1, SymphonyConstants DEF IInv, TypeOK, WType
  <1>3. /\ UNCHANGED <<o, tick, tracker, changes, phase>>
        /\ dirs' = dirs \ {i} /\ worker[w].pc = "hook"
    BY <1>1 DEF HookFails
  <1>4. ASSUME NEW x \in Worker
        PROVE  /\ worker'[x] \in WType
               /\ x = w => worker'[x].pc = "exit" /\ worker'[x].reason = "failed"
               /\ x # w => /\ worker'[x].pc = worker[x].pc
                           /\ worker'[x].reason = worker[x].reason
                           /\ worker'[x].robbers =
                                IF x[1] = i /\ HasWorkspace(x) /\ ~Cancelled(x)
                                THEN worker[x].robbers \cup {k} ELSE worker[x].robbers
    <2>1. worker[x] \in WType
      BY <1>2
    <2>2. CASE x = w
      <3>1. worker'[x] = [worker[x] EXCEPT !.pc = "exit", !.reason = "failed",
                                         !.turn = 0, !.robbers = {}]
        BY <2>2 DEF HookFails
      <3>2. 0 \in Nat /\ "failed" \in Reasons /\ "exit" \in WorkerPcs
        BY DEF Reasons, WorkerPcs
      <3>3. worker'[x] \in WType
        BY <2>1, <3>1, <3>2 DEF WType
      <3>4. worker'[x].pc = "exit" /\ worker'[x].reason = "failed"
        BY <2>1, <3>1 DEF WType
      <3> QED
        BY <2>2, <3>3, <3>4
    <2>3. CASE x # w /\ x[1] = i /\ HasWorkspace(x) /\ ~Cancelled(x)
      <3>1. worker'[x] = [worker[x] EXCEPT !.robbers = @ \cup {k}]
        BY <1>1, <2>3 DEF HookFails
      <3> QED
        BY <1>2, <2>1, <2>3, <3>1 DEF WType
    <2>4. CASE x # w /\ ~(x[1] = i /\ HasWorkspace(x) /\ ~Cancelled(x))
      <3>1. worker'[x] = worker[x]
        BY <1>1, <2>4 DEF HookFails
      <3> QED
        BY <2>1, <2>4, <3>1
    <2> QED
      BY <2>2, <2>3, <2>4
  <1>5. worker' \in [Worker -> WType]
    BY <1>4 DEF HookFails
  <1>6. TypeOK' /\ EntryInv' /\ RunningWithinLimit'
    BY <1>3, <1>5 DEF IInv, TypeOK, WType, EntryInv, RunningWithinLimit
  <1>7. WorkerInv'
    <2> SUFFICES ASSUME NEW x \in Worker PROVE WorkerOK(x)'
      BY DEF WorkerInv
    <2>1. WorkerOK(x)
      BY DEF IInv, WorkerInv
    <2> QED
      BY <1>3, <1>4, <2>1 DEF WorkerOK, Working, Covers, IsRunning, Reasons
  <1>8. DirInv'
    <2> SUFFICES ASSUME NEW x \in Worker, HasWorkspace(x)', ~Cancelled(x)'
                 PROVE  x[1] \in dirs' \/ worker'[x].robbers \cap o'[x[1]].killed # {}
      BY DEF DirInv, DirOK
    <2>1. x # w /\ HasWorkspace(x) /\ ~Cancelled(x) /\ DirOK(x)
      BY <1>3, <1>4 DEF HasWorkspace, Cancelled, IInv, DirInv
    <2>2. CASE x[1] = i
      <3>1. x[2] # k /\ Covers(o[i], x[2]) /\ Covers(o[i], k)
        BY <1>1, <1>3, <2>1, <2>2 DEF Worker, HasWorkspace, IInv, WorkerInv, WorkerOK, Working
      <3>2. k \in o[i].killed
        BY <2>1, <2>2, <3>1 DEF Covers, Cancelled
      <3> QED
        BY <1>3, <1>4, <2>1, <2>2, <3>2
    <2>3. CASE x[1] # i
      BY <1>3, <1>4, <2>1, <2>3 DEF DirOK
    <2> QED
      BY <2>2, <2>3
  <1> QED
    BY <1>6, <1>7, <1>8 DEF IInv

\* The loop takes note of an exit.
LEMMA ExitInv ==
  ASSUME IInv, NEW w \in Worker, HandleWorkerExit(w)
  PROVE  IInv'
  <1> DEFINE f == AfterExit(o[w[1]], worker[w].reason)
  <1>1. w[1] \in Issue /\ worker[w].reason \in Reasons
    BY DEF Worker, HandleWorkerExit, IInv, WorkerInv, WorkerOK
  <1>2. EntryOK(f) /\ ~IsRunning(f) /\ Keeps(o[w[1]], f)
    BY <1>1, AfterExitOK DEF IInv, EntryInv
  <1>3. /\ o' = [o EXCEPT ![w[1]] = f]
        /\ worker' = [worker EXCEPT ![w] = [@ EXCEPT !.pc = "done", !.reason = None]]
        /\ UNCHANGED <<tick, dirs, tracker, changes, phase>>
        /\ worker[w].pc = "exit"
    BY DEF HandleWorkerExit
  <1> HIDE DEF f
  <1>4. \A i \in Issue : /\ EntryOK(o'[i]) /\ Keeps(o[i], o'[i]) /\ o'[i] \in Entry
                         /\ IsRunning(o'[i]) => IsRunning(o[i])
    BY <1>1, <1>2, <1>3 DEF IInv, TypeOK, EntryInv, EntryOK, Keeps
  <1>5. /\ worker' \in [Worker -> WType]
        /\ worker'[w].pc = "done"
        /\ \A x \in Worker \ {w} : worker'[x] = worker[x]
    BY <1>3 DEF IInv, TypeOK, WType, WorkerPcs
  <1>6. TypeOK' /\ EntryInv'
    BY <1>1, <1>3, <1>4, <1>5 DEF IInv, TypeOK, WType, EntryInv
  <1>7. WorkerInv'
    <2> SUFFICES ASSUME NEW x \in Worker PROVE WorkerOK(x)'
      BY DEF WorkerInv
    <2>1. PICK i \in Issue, k \in Nat : x[1] = i /\ x[2] = k
      BY SymphonyConstants DEF Worker
    <2>2. /\ worker[x].pc = "unborn" <=> k > o[i].count
          /\ Working(x) => Covers(o[i], k)
          /\ worker[x].pc = "exit" => worker[x].reason \in Reasons
      BY <2>1 DEF IInv, WorkerInv, WorkerOK
    <2>3. o'[i].count = o[i].count /\ (Covers(o[i], k) => Covers(o'[i], k))
      BY <1>4, <2>1 DEF Keeps
    <2>4. worker'[x].pc = "unborn" <=> worker[x].pc = "unborn"
      BY <1>3, <1>5
    <2>5. /\ Working(x)' => Working(x)
          /\ worker'[x].pc = "exit" => worker'[x] = worker[x]
      BY <1>5 DEF Working
    <2> QED
      BY <2>1, <2>2, <2>3, <2>4, <2>5 DEF WorkerOK, Covers, IsRunning
  <1>8. DirInv'
    BY <1>3, <1>4, <1>5, DirKept DEF IInv, Keeps, HasWorkspace
  <1>9. RunningWithinLimit'
    BY <1>4, LimitKept DEF IInv, RunningIn
  <1> QED
    BY <1>6, <1>7, <1>8, <1>9 DEF IInv

\* Every step preserves the inductive invariant.
THEOREM StepInv == IInv /\ [Next]_vars => IInv'
  <1> SUFFICES ASSUME IInv, [Next]_vars PROVE IInv'
    OBVIOUS
  <1>1. CASE \/ StartTick \/ Reconcile \/ FetchCandidates
             \/ \E i \in Issue : ChangeState(i)
             \/ CancelRoot \/ LoopReturns
    BY <1>1, QuietInv
  <1>2. CASE HandleTick
    BY <1>2, TickInv
  <1>3. CASE \E i \in Issue : Fire(i) \/ HandleRetryFired(i)
    BY <1>3, FireInv, RetryInv
  <1>4. CASE \E w \in Worker : WorkerStep(w) \/ HandleWorkerExit(w)
    BY <1>4, WorkerStepInv, HookFailsInv, ExitInv
  <1>5. CASE UNCHANGED vars
    BY <1>5 DEF vars, IInv, TypeOK, EntryInv, WorkerInv, WorkerOK, Working, DirInv, DirOK,
       HasWorkspace, Cancelled, RunningWithinLimit
  <1> QED
    BY <1>1, <1>2, <1>3, <1>4, <1>5 DEF Next, TickStep
-----------------------------------------------------------------------------
(* What follows for every behaviour. *)

LEMMA Invariance == Spec => []IInv
  BY InitInv, StepInv, PTL DEF Spec

\* Every reachable state has the declared types, for any number of issues,
\* dispatches and turns.
THEOREM TypeCorrect == Spec => []TypeOK
  BY Invariance, PTL DEF IInv

\* The claimed, running and retry maps and the timers of the event loop agree about
\* every issue, whatever exits, fires and polls arrive late: no issue both runs and
\* waits for a retry, no claim is leaked, and no retry is left without a timer.
THEOREM EntriesAgree == Spec => []MapsAgree
  <1>1. IInv => MapsAgree
    BY DEF IInv, EntryInv, EntryOK, MapsAgree, RetryExcludesRun, ClaimIsHeld, RetryHasTimer
  <1> QED
    BY Invariance, <1>1, PTL

\* A worker that nothing has told to stop is the one the loop knows about.
THEOREM NoStray == Spec => []NoStrayWorker
  <1>1. ASSUME IInv, NEW w \in Worker, Working(w), ~Cancelled(w)
        PROVE  LET e == o[w[1]] IN IsRunning(e) /\ e.run.inc = w[2] /\ e.cancel = w[2]
    <2>1. w[1] \in Issue /\ Covers(o[w[1]], w[2]) /\ EntryOK(o[w[1]])
      BY <1>1 DEF IInv, WorkerInv, WorkerOK, EntryInv, Worker
    <2> QED
      BY <1>1, <2>1 DEF Cancelled, Covers, EntryOK
  <1>2. IInv => NoStrayWorker
    BY <1>1 DEF NoStrayWorker
  <1> QED
    BY Invariance, <1>2, PTL

\* Polls and retries, in whatever order they dispatch, keep the running map within
\* max_concurrent_agents.
THEOREM WithinLimit == Spec => []RunningWithinLimit
  BY Invariance, PTL DEF IInv

\* No reconciliation takes the workspace of an agent that may go on working; only the
\* failed after_create hook of a worker of its issue that was told to stop does.
THEOREM Workspaces == Spec => []WorkspaceKept
  <1>1. IInv => WorkspaceKept
    BY DEF IInv, DirInv, DirOK, WorkspaceKept
  <1> QED
    BY Invariance, <1>1, PTL
=============================================================================
