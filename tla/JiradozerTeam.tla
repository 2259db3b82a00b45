--------------------------- MODULE JiradozerTeam ---------------------------
(***************************************************************************)
(* Jiradozer's team mode: the Discovery goroutine that polls the tracker,  *)
(* the RunWithDiscovery loop that starts one subprocess per issue, each in *)
(* its own worktree, and the goroutine that waits for each subprocess and  *)
(* cleans up behind it.  Around them are the tracker, the people who move  *)
(* issues in and out of the filter, and two signals: one that shuts the    *)
(* parent down and one that makes it exec itself and adopt its children.   *)
(*                                                                         *)
(* A subprocess is a position in the sequence ch, in order of launch; an   *)
(* issue's worktree and branch are named after the issue.  The watchdog    *)
(* and the log tailer are reduced to the decision they may take: to cancel *)
(* a workflow as hung.                                                     *)
(***************************************************************************)
EXTENDS Integers, Sequences, FiniteSets

CONSTANTS Issue,
          None,
          MaxConcurrent,       \* cfg.Source.MaxConcurrent
          MaxRuntimeFailures,
          MaxStartFailures,
          ForceCleanup,        \* --force-cleanup
          MaxChild,            \* bound: subprocesses launched
          MaxMoves,            \* bound: moves of issues by people
          Env                  \* what may happen, a subset of:
                               \*   "startError"   a worktree, log or exec fails
                               \*   "claimError"   the tracker fails to mark a claim
                               \*   "cleanupError" a claim's mark or a worktree is
                               \*                  not removed
                               \*   "hang"         the watchdog finds a child hung
                               \*   "stop"         SIGINT or SIGTERM
                               \*   "restart"      SIGUSR2, once

ASSUME TeamConstants ==
    /\ IsFiniteSet(Issue) /\ None \notin Issue
    /\ MaxConcurrent \in Nat \ {0}
    /\ MaxRuntimeFailures \in Nat \ {0} /\ MaxStartFailures \in Nat \ {0}
    /\ ForceCleanup \in BOOLEAN
    /\ MaxChild \in Nat /\ MaxMoves \in Nat
    /\ Env \subseteq {"startError", "claimError", "cleanupError", "hang", "stop",
                     "restart"}

VARIABLES
    inFilter,   \* the issues ListIssues would return
    label,      \* the issues that carry LockLabel
    moves,      \* moves made so far
    disc,       \* the poll in progress
    seen,       \* Discovery.seen
    main,       \* where RunWithDiscovery is
    pending,    \* its queue of issues that found no slot
    failCount,  \* its failCounts
    slot,       \* Orchestrator.active: None, 0 (a placeholder), or a child
    freed,      \* a token is in slotFreed
    failures,   \* runtimeFailures
    released,   \* releasedForRetry
    tree,       \* an issue's worktree: "none", "fresh", or "used" by an agent
    preserved,  \* Orchestrator.preserved
    ch,         \* the subprocesses, and the goroutine waiting for each
    phase,      \* "up", or "stopping" once the root context is cancelled
    snap,       \* the state an exec restart has gathered and not yet used
    restarted

trackerVars == <<inFilter, label, moves>>
discVars    == <<disc, seen>>
mainVars    == <<main, pending, failCount>>
treeVars    == <<tree, preserved>>
restartVars == <<phase, snap, restarted>>

vars == <<trackerVars, discVars, mainVars, slot, freed, failures, released,
          treeVars, ch, restartVars>>
-----------------------------------------------------------------------------
Slots == Nat \cup {None}

\* "at" is the waiting goroutine's place: not started, in Wait, then through the
\* clean-up; a child whose parent forgot it is "lost".
Child == [issue : Issue, proc : {"running", "exited", "reaped"},
          code : {None, "ok", "err", "sig"}, hung : BOOLEAN, restored : BOOLEAN,
          at : {"start", "wait", "record", "cleanup", "delete", "done", "lost"},
          outcome : {None, "done", "failed", "cancelled"}]

Poll == [at : {"idle", "listed", "locked", "emit"}, listed : SUBSET Issue,
         active : SUBSET Issue, out : SUBSET Issue]

\* "pos" is the position in the queue being tried, 0 for an issue that came from
\* the channel; "full" is what the loop last read of the active count.
Main == [at : {"drain", "select", "worktree", "launch", "claim", "install", "fail",
               "wait", "done"},
         issue : Issue \cup {None}, pos : Nat, full : BOOLEAN]

Snapshot == [slot : [Issue -> Slots], preserved : SUBSET Issue]

ASSUME NoneIsAbsent == None \notin Nat \cup Snapshot \cup {"done", "failed", "cancelled"}

TypeOK ==
    /\ inFilter \subseteq Issue /\ label \subseteq Issue /\ moves \in Nat
    /\ disc \in Poll /\ seen \subseteq Issue
    /\ main \in Main /\ pending \in Seq(Issue) /\ failCount \in [Issue -> Nat]
    /\ slot \in [Issue -> Slots] /\ freed \in BOOLEAN
    /\ failures \in [Issue -> Nat] /\ released \subseteq Issue
    /\ tree \in [Issue -> {"none", "fresh", "used"}] /\ preserved \subseteq Issue
    /\ ch \in Seq(Child)
    /\ phase \in {"up", "stopping"}
    /\ snap \in Snapshot \cup {None} /\ restarted \in BOOLEAN

NoPoll == [at |-> "idle", listed |-> {}, active |-> {}, out |-> {}]
Top(full) == [at |-> "drain", issue |-> None, pos |-> 1, full |-> full]
Nobody == [i \in Issue |-> None]
Zeros == [i \in Issue |-> 0]

Init ==
    /\ inFilter \in SUBSET Issue /\ label = {} /\ moves = 0
    /\ disc = NoPoll /\ seen = {}
    /\ main = Top(FALSE) /\ pending = <<>> /\ failCount = Zeros
    /\ slot = Nobody /\ freed = FALSE /\ failures = Zeros /\ released = {}
    /\ tree = [i \in Issue |-> "none"] /\ preserved = {}
    /\ ch = <<>>
    /\ phase = "up" /\ snap = None /\ restarted = FALSE
-----------------------------------------------------------------------------
(* The tables the two goroutines share, under o.mu. *)

Occupied(s) == {i \in Issue : s[i] # None}
\* Mutant: one too many.
FullLate(s) == Cardinality(Occupied(s)) > MaxConcurrent

Full(s) == Cardinality(Occupied(s)) >= MaxConcurrent

\* Mutant: one attempt too many.
CappedLate == {i \in Issue : failures[i] > MaxRuntimeFailures}

Capped == {i \in Issue : failures[i] >= MaxRuntimeFailures}
ActiveIssueIDs == Occupied(slot) \cup Capped

\* Best effort: the calls made with the loop's context fail once that is cancelled.
ClaimMayFail == "claimError" \in Env \/ phase = "stopping"

Remove(i) == \/ tree' = [tree EXCEPT ![i] = "none"]
             \/ "cleanupError" \in Env /\ UNCHANGED tree

\* Mutant: nobody is told.
UnreserveSilently(i) == slot' = [slot EXCEPT ![i] = None] /\ UNCHANGED freed

Unreserve(i) == slot' = [slot EXCEPT ![i] = None] /\ freed' = TRUE
-----------------------------------------------------------------------------
(* Discovery. *)

List ==
    /\ disc.at = "idle" /\ phase = "up"
    /\ disc' = [NoPoll EXCEPT !.at = "listed", !.listed = inFilter]
    /\ UNCHANGED <<trackerVars, seen, mainVars, slot, freed, failures, released,
                   treeVars, ch, restartVars>>

\* From here to the end of Rebuild the poll holds d.mu; it takes o.mu twice.
ReadActive ==
    /\ disc.at = "listed"
    /\ disc' = [disc EXCEPT !.at = "locked", !.active = ActiveIssueIDs]
    /\ UNCHANGED <<trackerVars, seen, mainVars, slot, freed, failures, released,
                   treeVars, ch, restartVars>>

\* Mutant: only what is active stays suppressed.
RebuildForgets ==
    /\ disc.at = "locked"
    /\ LET new == disc.listed \ (disc.active \cup (seen \ released)) IN
       disc' = IF new = {} THEN NoPoll ELSE [NoPoll EXCEPT !.at = "emit", !.out = new]
    /\ seen' = disc.listed \cap disc.active
    /\ released' = {}
    /\ UNCHANGED <<trackerVars, mainVars, slot, freed, failures, treeVars, ch, restartVars>>

\* The released issues leave seen, which is then rebuilt from what was listed.
Rebuild ==
    /\ disc.at = "locked"
    /\ LET new == disc.listed \ (disc.active \cup (seen \ released)) IN
       disc' = IF new = {} THEN NoPoll ELSE [NoPoll EXCEPT !.at = "emit", !.out = new]
    /\ seen' = disc.listed
    /\ released' = {}
    /\ UNCHANGED <<trackerVars, mainVars, slot, freed, failures, treeVars, ch, restartVars>>
-----------------------------------------------------------------------------
(* RunWithDiscovery. *)

\* Start's first step: the issue is refused, or its slot is reserved.
Reserve(i, pos) ==
    IF slot[i] # None
    THEN /\ main' = [at |-> "fail", issue |-> i, pos |-> pos, full |-> FALSE]
         /\ UNCHANGED slot
    ELSE /\ main' = [at |-> "worktree", issue |-> i, pos |-> pos, full |-> FALSE]
         /\ slot' = [slot EXCEPT ![i] = 0]

\* tryStart returns true: the issue leaves the queue.
Dequeue(s) ==
    IF main.pos = 0
    THEN main' = Top(Full(s)) /\ UNCHANGED pending
    ELSE /\ main' = [Top(Full(s)) EXCEPT !.pos = main.pos]
         /\ pending' = [n \in 1..(Len(pending) - 1) |->
                          IF n < main.pos THEN pending[n] ELSE pending[n + 1]]

\* The loop over the queue, with the count of active issues read before each try.
Drain ==
    /\ main.at = "drain"
    /\ IF main.full \/ main.pos > Len(pending)
       THEN main' = [main EXCEPT !.at = "select"] /\ UNCHANGED slot
       ELSE Reserve(pending[main.pos], main.pos)
    /\ UNCHANGED <<trackerVars, discVars, pending, failCount, freed, failures,
                   released, treeVars, ch, restartVars>>

SlotFreed ==
    /\ main.at = "select" /\ freed
    /\ freed' = FALSE /\ main' = Top(Full(slot))
    /\ UNCHANGED <<trackerVars, discVars, pending, failCount, slot, failures,
                   released, treeVars, ch, restartVars>>

Receive(i) ==
    /\ main.at = "select" /\ disc.at = "emit" /\ i \in disc.out
    /\ disc' = IF disc.out = {i} THEN NoPoll ELSE [disc EXCEPT !.out = @ \ {i}]
    /\ IF Full(slot)
       THEN /\ pending' = Append(pending, i)
            /\ main' = Top(TRUE) /\ UNCHANGED slot
       ELSE Reserve(i, 0) /\ UNCHANGED pending
    /\ UNCHANGED <<trackerVars, seen, failCount, freed, failures, released,
                   treeVars, ch, restartVars>>

\* A new worktree, or the issue's old one, and the label; or an error; or a
\* directory in the way, which is taken for another's claim.
NewWorktree ==
    /\ main.at = "worktree"
    /\ LET i == main.issue IN
       \/ /\ tree' = [tree EXCEPT ![i] = IF @ = "none" THEN "fresh" ELSE @]
          /\ \/ label' = label \cup {i}
             \/ ClaimMayFail /\ UNCHANGED label
          /\ main' = [main EXCEPT !.at = "launch"]
          /\ UNCHANGED <<pending, slot, freed>>
       \/ /\ "startError" \in Env \/ phase = "stopping"
          /\ Unreserve(i) /\ main' = [main EXCEPT !.at = "fail"]
          /\ UNCHANGED <<pending, tree, label>>
       \/ /\ "startError" \in Env
          /\ Unreserve(i) /\ Dequeue(slot')
          /\ UNCHANGED <<tree, label>>
    /\ UNCHANGED <<inFilter, moves, discVars, failCount, failures, released,
                   preserved, ch, restartVars>>

\* The log file and cmd.Start; on an error all of it is rolled back.
Launch ==
    /\ main.at = "launch"
    /\ LET i == main.issue IN
       \/ /\ phase = "up" /\ Len(ch) < MaxChild
          /\ ch' = Append(ch, [issue |-> i, proc |-> "running", code |-> None,
                               hung |-> FALSE, restored |-> FALSE, at |-> "start",
                               outcome |-> None])
          /\ tree' = [tree EXCEPT ![i] = "used"]
          /\ main' = [main EXCEPT !.at = "claim"]
          /\ UNCHANGED <<label, slot, freed>>
       \/ /\ "startError" \in Env \/ phase = "stopping"
          /\ Remove(i)
          /\ \/ label' = label \ {i}
             \/ "cleanupError" \in Env /\ UNCHANGED label
          /\ Unreserve(i) /\ main' = [main EXCEPT !.at = "fail"]
          /\ UNCHANGED ch
    /\ UNCHANGED <<inFilter, moves, discVars, pending, failCount, failures, released,
                   preserved, restartVars>>

\* transitionToInProgress.
Claim ==
    /\ main.at = "claim"
    /\ \/ inFilter' = inFilter \ {main.issue}
       \/ ClaimMayFail /\ UNCHANGED inFilter
    /\ main' = [main EXCEPT !.at = "install"]
    /\ UNCHANGED <<label, moves, discVars, pending, failCount, slot, freed, failures,
                   released, treeVars, ch, restartVars>>

Install ==
    /\ main.at = "install"
    /\ slot' = [slot EXCEPT ![main.issue] = Len(ch)]
    /\ ch' = [ch EXCEPT ![Len(ch)].at = "wait"]
    /\ failCount' = [failCount EXCEPT ![main.issue] = 0]
    /\ Dequeue(slot')
    /\ UNCHANGED <<trackerVars, discVars, freed, failures, released, treeVars, restartVars>>

\* Mutant: the issue stays in the queue, and is tried again at once.
StartFailedKeeps ==
    /\ main.at = "fail"
    /\ main' = Top(Full(slot))
    /\ UNCHANGED <<trackerVars, discVars, pending, failCount, slot, freed, failures,
                   released, treeVars, ch, restartVars>>

\* A start that failed for good: the issue may be emitted again, a few times.
StartFailed ==
    /\ main.at = "fail"
    /\ LET i == main.issue IN
       /\ failCount' = [failCount EXCEPT ![i] = @ + 1]
       /\ IF failCount[i] + 1 < MaxStartFailures
          THEN disc.at # "locked" /\ seen' = seen \ {i}
          ELSE UNCHANGED seen
    /\ Dequeue(slot)
    /\ UNCHANGED <<trackerVars, disc, slot, freed, failures, released, treeVars, ch,
                   restartVars>>

LoopStops ==
    /\ main.at = "select" /\ phase = "stopping"
    /\ main' = [main EXCEPT !.at = "wait"]
    /\ UNCHANGED <<trackerVars, discVars, pending, failCount, slot, freed, failures,
                   released, treeVars, ch, restartVars>>

WaitReturns ==
    /\ main.at = "wait" /\ \A k \in DOMAIN ch : ch[k].at \in {"done", "lost"}
    /\ main' = [main EXCEPT !.at = "done"]
    /\ UNCHANGED <<trackerVars, discVars, pending, failCount, slot, freed, failures,
                   released, treeVars, ch, restartVars>>
-----------------------------------------------------------------------------
(* A subprocess and the goroutine that waits for it. *)

Exits(k) ==
    /\ ch[k].proc = "running"
    /\ \E code \in {"ok", "err"} \cup (IF phase = "stopping" THEN {"sig"} ELSE {}) :
          ch' = [ch EXCEPT ![k].proc = "exited", ![k].code = code]
    /\ UNCHANGED <<trackerVars, discVars, mainVars, slot, freed, failures, released,
                   treeVars, restartVars>>

\* The watchdog; an adopted child has none.
Hangs(k) ==
    /\ "hang" \in Env /\ ch[k].at = "wait" /\ ~ch[k].restored /\ ~ch[k].hung
    /\ ch' = [ch EXCEPT ![k].hung = TRUE]
    /\ UNCHANGED <<trackerVars, discVars, mainVars, slot, freed, failures, released,
                   treeVars, restartVars>>

\* Mutant: an outcome of its own, which the clean-up does not know.
OutcomeHung(c) == IF c.hung THEN "hung" ELSE IF c.code = "ok" THEN "done" ELSE "failed"

\* waitRestored's switch after Wait4, which fails for a child that somebody has
\* waited for already.
OutcomeRestored(c) ==
    IF c.proc = "reaped" THEN "failed"
    ELSE IF c.code = "ok" THEN "done"
    ELSE IF c.code = "sig" THEN "cancelled" ELSE "failed"

\* The switch after cmd.Wait.
Outcome(c) ==
    IF c.restored THEN OutcomeRestored(c)
    ELSE IF c.hung THEN "failed"
    ELSE IF phase = "stopping" THEN "cancelled"
    ELSE IF c.code = "ok" THEN "done" ELSE "failed"

\* Mutant: a child that was told to stop is taken to have stopped.
ReapUnwaited(k) ==
    /\ ch[k].at = "wait" /\ (ch[k].proc # "running" \/ ch[k].hung)
    /\ ch' = [ch EXCEPT ![k] = [@ EXCEPT !.at = "record", !.outcome = Outcome(ch[k])]]
    /\ UNCHANGED <<trackerVars, discVars, mainVars, slot, freed, failures, released,
                   treeVars, restartVars>>

Reap(k) ==
    /\ ch[k].at = "wait" /\ ch[k].proc # "running"
    /\ ch' = [ch EXCEPT ![k] = [@ EXCEPT !.proc = "reaped", !.at = "record",
                                         !.outcome = Outcome(ch[k])]]
    /\ UNCHANGED <<trackerVars, discVars, mainVars, slot, freed, failures, released,
                   treeVars, restartVars>>

\* Mutant: the slot is given back before the clean-up.
RecordFreesSlot(k) ==
    /\ ch[k].at = "record"
    /\ Unreserve(ch[k].issue)
    /\ ch' = [ch EXCEPT ![k].at = "cleanup"]
    /\ UNCHANGED <<trackerVars, discVars, mainVars, failures, released, treeVars, restartVars>>

\* recordRuntimeFailure, recordSuccess.
Record(k) ==
    /\ ch[k].at = "record"
    /\ LET i == ch[k].issue IN
       CASE ch[k].outcome = "failed" ->
              failures' = [failures EXCEPT ![i] = @ + 1] /\ UNCHANGED released
         [] ch[k].outcome = "done" ->
              failures' = [failures EXCEPT ![i] = 0] /\ released' = released \ {i}
         [] ch[k].outcome = "cancelled" -> UNCHANGED <<failures, released>>
    /\ ch' = [ch EXCEPT ![k].at = "cleanup"]
    /\ UNCHANGED <<trackerVars, discVars, mainVars, slot, freed, treeVars, restartVars>>

\* Mutant: the label is taken off a failed run only.
CleanUpKeepsLabel(k) ==
    /\ ch[k].at = "cleanup"
    /\ LET i == ch[k].issue IN
       /\ label' = IF ch[k].outcome = "done" THEN label ELSE label \ {i}
       /\ preserved' = preserved \cup {i}
    /\ ch' = [ch EXCEPT ![k].at = "delete"]
    /\ UNCHANGED <<inFilter, moves, discVars, mainVars, slot, freed, failures,
                   released, tree, restartVars>>

\* cleanup: the label, and the worktree, which is kept unless it may be wiped.
CleanUp(k) ==
    /\ ch[k].at = "cleanup"
    /\ LET i == ch[k].issue IN
       /\ \/ label' = label \ {i}
          \/ "cleanupError" \in Env /\ UNCHANGED label
       /\ IF ch[k].outcome = "done" \/ ~ForceCleanup
          THEN preserved' = preserved \cup {i} /\ UNCHANGED tree
          ELSE Remove(i) /\ UNCHANGED preserved
    /\ ch' = [ch EXCEPT ![k].at = "delete"]
    /\ UNCHANGED <<inFilter, moves, discVars, mainVars, slot, freed, failures,
                   released, restartVars>>

\* Mutant: whatever has ended is released.
DeleteReleases(k) ==
    /\ ch[k].at = "delete"
    /\ Unreserve(ch[k].issue) /\ released' = released \cup {ch[k].issue}
    /\ ch' = [ch EXCEPT ![k].at = "done"]
    /\ UNCHANGED <<trackerVars, discVars, mainVars, failures, treeVars, restartVars>>

\* ... and the slot, with the release for another attempt.
Delete(k) ==
    /\ ch[k].at = "delete"
    /\ LET i == ch[k].issue IN
       /\ Unreserve(i)
       /\ released' = IF ch[k].outcome # "done" /\ i \notin Capped
                      THEN released \cup {i} ELSE released
    /\ ch' = [ch EXCEPT ![k].at = "done"]
    /\ UNCHANGED <<trackerVars, discVars, mainVars, failures, treeVars, restartVars>>
-----------------------------------------------------------------------------
(* People, and signals. *)

Move(i) ==
    /\ moves < MaxMoves
    /\ moves' = moves + 1
    /\ inFilter' = IF i \in inFilter THEN inFilter \ {i} ELSE inFilter \cup {i}
    /\ UNCHANGED <<label, discVars, mainVars, slot, freed, failures, released,
                   treeVars, ch, restartVars>>

Interrupt ==
    /\ "stop" \in Env /\ phase = "up"
    /\ phase' = "stopping"
    /\ UNCHANGED <<trackerVars, discVars, mainVars, slot, freed, failures, released,
                   treeVars, ch, snap, restarted>>

\* execRestart, in the signal goroutine: what is worth keeping is gathered ...
TakeSnapshot ==
    /\ "restart" \in Env /\ ~restarted /\ snap = None /\ phase = "up"
    /\ snap' = [slot |-> [i \in Issue |-> IF slot[i] = 0 THEN None ELSE slot[i]],
                preserved |-> preserved]
    /\ UNCHANGED <<trackerVars, discVars, mainVars, slot, freed, failures, released,
                   treeVars, ch, phase, restarted>>

\* ... and the process replaces itself, goroutines, tables and all.
Adopted(k) == snap.slot[ch[k].issue] = k

Exec ==
    /\ snap # None /\ phase = "up"
    /\ disc' = NoPoll /\ seen' = {}
    /\ main' = Top(FALSE) /\ pending' = <<>> /\ failCount' = Zeros
    /\ slot' = snap.slot /\ freed' = FALSE /\ failures' = Zeros /\ released' = {}
    /\ preserved' = snap.preserved
    /\ ch' = [k \in DOMAIN ch |->
                IF Adopted(k) THEN [ch[k] EXCEPT !.at = "wait", !.restored = TRUE,
                                                 !.outcome = None]
                ELSE IF ch[k].at = "done" THEN ch[k]
                ELSE [ch[k] EXCEPT !.at = "lost"]]
    /\ snap' = None /\ restarted' = TRUE
    /\ UNCHANGED <<trackerVars, tree, phase>>
-----------------------------------------------------------------------------
DiscStep == List \/ ReadActive \/ Rebuild
StartStep == NewWorktree \/ Launch \/ Claim \/ Install \/ StartFailed
LoopStep == Drain \/ LoopStops \/ WaitReturns
WaiterStep(k) == Reap(k) \/ Record(k) \/ CleanUp(k) \/ Delete(k)

Next ==
    \/ DiscStep \/ StartStep \/ LoopStep \/ SlotFreed
    \/ \E i \in Issue : Receive(i) \/ Move(i)
    \/ \E k \in DOMAIN ch : Exits(k) \/ Hangs(k) \/ WaiterStep(k)
    \/ Interrupt \/ TakeSnapshot \/ Exec

\* Goroutines run; select does not pass over an arm for ever; a subprocess ends,
\* its reviews being answered, and one that is told to stop is killed if need be.
Fairness ==
    /\ WF_vars(DiscStep) /\ WF_vars(StartStep) /\ WF_vars(LoopStep)
    /\ SF_vars(SlotFreed) /\ SF_vars(LoopStops)
    /\ \A i \in Issue : SF_vars(Receive(i))
    /\ \A k \in 1..MaxChild : /\ WF_vars(k \in DOMAIN ch /\ Exits(k))
                              /\ WF_vars(k \in DOMAIN ch /\ WaiterStep(k))

Spec == Init /\ [][Next]_vars
FairSpec == Spec /\ Fairness
-----------------------------------------------------------------------------
(* Properties. *)

\* The subprocesses that run, and those of them the parent has not lost track of.
Running == {k \in DOMAIN ch : ch[k].proc = "running"}
Tracked == {k \in Running : ch[k].at # "lost"}
Starting == {main.issue} \ {None}
Queued(i) == \E n \in DOMAIN pending : pending[n] = i

\* No more subprocesses run than max_concurrent allows: the placeholder taken
\* under the lock stands for the child until the child's own entry does.
WithinLimit == Cardinality(Tracked) <= MaxConcurrent

\* Two agents never work in one worktree, however an issue is emitted, queued
\* and emitted again, and whatever was running when the parent restarted.
OneChildPerTree ==
    \A k, l \in Tracked : ch[k].issue = ch[l].issue => k = l

\* ... not even an agent the parent has lost track of.
OneAgentPerTree ==
    \A k, l \in Running : ch[k].issue = ch[l].issue => k = l

\* The worktree of a running agent is never removed, by a failed start or by the
\* clean-up of an earlier run.
TreeKept == \A k \in Tracked : tree[ch[k].issue] = "used"

\* The lock label tells other machines to keep away: it is on the issue as long
\* as an agent works on it, however an earlier run of the issue was cleaned up ...
LabelHeld == \A k \in Tracked : ch[k].issue \in label

\* ... and no way for a start or a run to end leaves it behind.
LabelReleased == label \subseteq Occupied(slot)

\* An issue that fails at every attempt is attempted a bounded number of times.
FailuresCapped == \A i \in Issue : failures[i] <= MaxRuntimeFailures

\* An issue that was shipped, and that nobody has moved, is not started again
\* though the tracker goes on listing it.
ShippedOnce ==
    \A k \in DOMAIN ch : ch[k].outcome = "done" =>
       \A l \in DOMAIN ch : l > k => ch[l].issue # ch[k].issue

\* The queue holds an issue once: what is queued or being started stays
\* suppressed though it is in none of the orchestrator's tables.
QueuedOnce == \A m, n \in DOMAIN pending : pending[m] = pending[n] => m = n

\* What was shipped, queued, given up or released stays so.
IssuesSettle == ShippedOnce /\ QueuedOnce /\ FailuresCapped /\ LabelReleased

\* What is preserved is there.
PreservedKept == \A i \in preserved : tree[i] = "used"

\* Between two polls, an issue that is listed and suppressed is queued, being
\* worked on, waiting to be released, shipped, or given up: no issue is forgotten.
Latest(i) == {k \in DOMAIN ch : ch[k].issue = i /\ \A l \in DOMAIN ch : ch[l].issue = i => l <= k}

SeenIsJustified ==
    disc.at = "idle" =>
      \A i \in seen \cap inFilter :
         \/ i \in Occupied(slot) \cup Starting \cup released \cup Capped
         \/ Queued(i)
         \/ failCount[i] >= MaxStartFailures
         \/ \E k \in Latest(i) : ch[k].outcome = "done"

\* A queued issue gets its turn.
PendingServed ==
    \A i \in Issue : Queued(i) ~> ~Queued(i) \/ phase = "stopping" \/ Len(ch) = MaxChild

\* A signal ends the parent, and not before its children.
ShutdownEnds == phase = "stopping" ~> main.at = "done"

\* The loop is woken for whatever it has to do: its queue, and its end.
LoopIsWoken == PendingServed /\ ShutdownEnds
=============================================================================
