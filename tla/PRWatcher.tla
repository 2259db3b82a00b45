----------------------------- MODULE PRWatcher -----------------------------
(***************************************************************************)
(* prdozer's watcher of one pull request.  A tick loads the saved state,   *)
(* looks at the PR, scores what it sees, has the agent polish it or tries  *)
(* to merge it, and then records and saves.  The PR changes under it; a    *)
(* tick may fail after it has acted, its state not saved.                  *)
(***************************************************************************)
EXTENDS Naturals, FiniteSets

CONSTANTS
    Settings,       \* configurations: merge policy, self_review, merge_rework, a once round
    Scenarios,      \* how often each event happens
    MaxFailures,    \* Backoff.MaxConsecutiveFailures
    MaxFlat,        \* Backoff.MaxRoundsWithoutImprovement
    MaxCommits      \* Backoff.MaxPolishCommits

\* Every brake is on: a limit of 0 turns the brake off (watcher.go:466, :1200, :1362),
\* and there is nothing to say of it then.
ASSUME WatcherConstants ==
    /\ MaxFailures \in Nat \ {0} /\ MaxFlat \in Nat \ {0} /\ MaxCommits \in Nat \ {0}
    /\ \A c \in Settings : c.selfReview \in BOOLEAN /\ c.rework \in BOOLEAN /\ c.once \in BOOLEAN

VARIABLES
    cfg,    \* the configuration of the run
    pr,     \* the pull request on GitHub
    disk,   \* the saved State
    mem,    \* the State of this tick
    snap,   \* what this tick saw of the pull request
    tick,   \* how far the tick is, its action, and whether there is something to save
    run,    \* whether babysit runs, or how it ended
    hist,   \* what has really happened, saved or not
    left    \* what is left of the scenario

vars == <<cfg, pr, disk, mem, snap, tick, run, hist, left>>

Spend(e) == left[e] > 0 /\ left' = [left EXCEPT ![e] = @ - 1]
Keep == UNCHANGED left

NoHealth == [threads |-> 9, red |-> TRUE]   \* BestHealth before anything is seen

\* State, as far as it decides anything.  Heads are numbered, 0 is none.
NewState == [checked |-> FALSE, head |-> 0, base |-> 0, commits |-> 0, comments |-> {}, last |-> "init",
             failures |-> 0, cooldown |-> FALSE, attempts |-> 0, braked |-> 0, mergeErr |-> FALSE,
             reviewed |-> 0, best |-> NoHealth, flat |-> 0, idle |-> 0, added |-> 0, once |-> FALSE]

NewPR == [head |-> 1, base |-> 1, commits |-> 1, state |-> "open", red |-> FALSE, conflict |-> FALSE,
          review |-> "ok", comments |-> {}, threads |-> 1, armed |-> FALSE, readable |-> TRUE]

Init ==
    /\ cfg \in Settings /\ left \in Scenarios
    /\ pr = NewPR /\ snap = NewPR /\ disk = NewState /\ mem = NewState
    /\ tick = [pc |-> "idle", action |-> "init", dirty |-> FALSE]
    /\ run = "on"
    /\ hist = [lost |-> 0, blind |-> 0, tries |-> 0, flat |-> 0, idle |-> 0, onces |-> 0, pushed |-> 0,
               free |-> 0, given |-> {}, excused |-> {}]

-----------------------------------------------------------------------------
(* The changeset: what the snapshot s shows against the state m. *)

BaseMoved(m, s) == m.checked /\ m.base # s.base
NewComments(m, s) == m.checked /\ s.comments \ m.comments # {}
Mergeable(m, s) == s.review = "ok" /\ ~s.red /\ ~s.conflict /\ ~BaseMoved(m, s)

\* Mutant: mergeable is taken for done.
NeedsPolishUnlessMergeable(m, s) ==
    /\ ~Mergeable(m, s)
    /\ NewComments(m, s) \/ s.review = "changes" \/ BaseMoved(m, s) \/ s.red \/ s.conflict

NeedsPolish(m, s) ==
    \/ NewComments(m, s) \/ s.review = "changes"
    \/ ~Mergeable(m, s) /\ (BaseMoved(m, s) \/ s.red \/ s.conflict)

NeedsReview(m, s) ==
    /\ m.checked /\ s.review = "required" /\ ~s.red /\ ~s.conflict
    /\ ~BaseMoved(m, s) /\ ~NewComments(m, s)

NeedsSelfReview(m, s) == cfg.selfReview /\ m.reviewed # s.head

-----------------------------------------------------------------------------
(* Scoring what the tick sees, before it decides. *)

Health(s) == [threads |-> s.threads, red |-> s.red]
Better(h, b) == IF h.red # b.red THEN ~h.red ELSE h.threads < b.threads
Saturated(h) == h.threads = 0 /\ ~h.red

\* expireStaleDivergence: the run ended, and its verdict was on another head.
Stale(m, s) ==
    /\ m.flat # 0 \/ m.best # NoHealth \/ m.idle # 0
    /\ m.last = "needs_human" /\ m.head # 0 /\ m.head # s.head
Expired(m, s) == IF Stale(m, s) THEN [m EXCEPT !.flat = 0, !.best = NoHealth, !.idle = 0] ELSE m

NoAgentRan == {"init", "idle", "merged", "closed", "armed", "needs_human"}

\* Mutant: only a polish round that succeeded is charged for its commits.
ChargedOnSuccess(m, s) ==
    IF m.last # "polished" \/ m.head \in {0, s.head} THEN 0
    ELSE IF s.commits <= m.commits THEN 1 ELSE s.commits - m.commits

\* pushedCommits: what the branch grew by since an agent ran, at least one
\* commit when the head moved.
Charged(m, s) ==
    IF m.last \in NoAgentRan \/ m.head \in {0, s.head} THEN 0
    ELSE IF s.commits <= m.commits THEN 1 ELSE s.commits - m.commits

Improves(m, s) == s.readable /\ Better(Health(s), m.best)

\* recordHealth, with recordPolishWork.
Scored(m, s) ==
    [m EXCEPT !.added = @ + Charged(m, s),
              !.best = IF Improves(m, s) THEN Health(s) ELSE @,
              !.flat = IF Improves(m, s) THEN 0 ELSE IF s.readable /\ m.last = "polished" THEN @ + 1 ELSE @]

\* What makes the scored state worth saving.
ScoreDirty(m, s) ==
    Stale(m, s) \/ m.last = "polished" \/ Charged(m, s) # 0 \/ Improves(Expired(m, s), s)

-----------------------------------------------------------------------------
(* Deciding: decideAndAct up to what it does. *)

Ratcheting(m, s) ==
    /\ m.added >= MaxCommits
    /\ ~(m.added < 2 * MaxCommits /\ ~NeedsPolish(m, s) /\ NeedsSelfReview(m, s))

\* Mutant: a saturated score or an unreviewed head puts off the stop for ever.
DivergingNever(m, s) ==
    /\ m.best # NoHealth /\ s.readable /\ m.flat >= MaxFlat
    /\ ~(Saturated(m.best) \/ NeedsSelfReview(m, s))

Diverging(m, s) ==
    /\ m.best # NoHealth /\ s.readable /\ m.flat >= MaxFlat
    /\ ~(m.flat < 2 * MaxFlat /\ (Saturated(m.best) \/ NeedsSelfReview(m, s)))

Decision(m, s) ==
    LET wanted == NeedsPolish(m, s) \/ NeedsSelfReview(m, s) IN
    CASE s.state # "open" -> s.state
      [] s.state = "open" /\ Mergeable(m, s) /\ ~wanted -> IF cfg.policy = "notify" THEN "needs_human" ELSE "merge"
      [] s.state = "open" /\ ~Mergeable(m, s) /\ NeedsReview(m, s) -> "needs_human"
      [] s.state = "open" /\ ~Mergeable(m, s) /\ ~NeedsReview(m, s) /\ ~wanted -> "idle"
      [] OTHER -> IF Ratcheting(m, s) \/ Diverging(m, s) THEN "needs_human" ELSE "polish"

\* A tick scores the snapshot s it has taken and decides.
LookAt(s) ==
    LET m == Scored(Expired(disk, s), s)  d == Decision(m, s) IN
    /\ snap' = s
    /\ mem' = IF d = "merge" THEN [m EXCEPT !.attempts = @ + 1] ELSE m
    /\ tick' = [pc |-> IF d \in {"merge", "polish"} THEN d ELSE "record", action |-> d,
                dirty |-> ScoreDirty(disk, s) \/ d = "merge"]
    /\ hist' = [hist EXCEPT !.blind = IF s.readable THEN @ ELSE @ + 1,
                            !.flat = IF Improves(Expired(disk, s), s) \/ Stale(disk, s) THEN 0 ELSE @,
                            !.tries = IF d = "merge" THEN @ + 1 ELSE @,
                            !.excused = IF ~disk.checked \/ d = "needs_human" THEN @ \union s.comments ELSE @,
                            !.given = IF d = "polish" THEN @ \union s.comments ELSE @]

\* Tick: load, take a snapshot, score it and decide.
Look ==
    /\ run = "on" /\ tick.pc = "idle" /\ ~disk.cooldown /\ left.looks > 0
    /\ \E s \in {pr} \union (IF left.blind > 0 THEN {[pr EXCEPT !.readable = FALSE]} ELSE {}) :
        /\ LookAt(s)
        /\ left' = [left EXCEPT !.blind = IF s.readable THEN @ ELSE @ - 1, !.looks = @ - 1]
    /\ UNCHANGED <<cfg, pr, disk, run>>

-----------------------------------------------------------------------------
(* Acting. *)

\* What a round may do to the PR: push nothing, a squashed branch or two
\* commits, and leave the threads and the checks in any state.
Rounds == {p \in [head : {pr.head, pr.head + 1}, commits : {pr.commits, pr.commits + 2},
                  threads : 0 .. 1, red : BOOLEAN] :
              /\ p.head = pr.head => p.commits = pr.commits /\ p.red = pr.red
              /\ pr.state # "open" => p.head = pr.head /\ p.threads = pr.threads}

\* Rounds that failed push, and leave the rest to the edits of others.
Pushes == {p \in Rounds : p.threads = pr.threads /\ p.red = pr.red}

Pushed(p) == IF p.head = pr.head THEN 0 ELSE IF p.commits = pr.commits THEN 1 ELSE 2

Worked(p) == [pr EXCEPT !.head = p.head, !.commits = p.commits, !.threads = p.threads, !.red = p.red,
                        !.conflict = IF p.head = pr.head THEN @ ELSE FALSE]

Does(a, m, dirty) ==
    /\ tick' = [pc |-> "record", action |-> a, dirty |-> tick.dirty \/ dirty]
    /\ mem' = m

\* Polishing returned: the once round is owed no more, and the head that was
\* looked at has been reviewed.
PolishEnds(p) ==
    /\ tick.pc = "polish"
    /\ pr' = Worked(p)
    /\ LET m == [mem EXCEPT !.idle = 0, !.once = @ \/ cfg.once,
                            !.reviewed = IF cfg.selfReview THEN snap.head ELSE @] IN
       Does("polished", m, m # mem)
    /\ hist' = [hist EXCEPT !.flat = @ + 1, !.idle = 0,
                            !.pushed = @ + Pushed(p),
                            !.onces = IF cfg.once /\ ~mem.once THEN @ + 1 ELSE @]
    /\ UNCHANGED <<cfg, disk, snap, run, left>>

\* Mutant: an invocation without a result leaves no mark that is saved.
UnmarkedPolishFails(p, rounds, a) ==
    /\ tick.pc = "polish"
    /\ Spend("fail")
    /\ pr' = Worked(p)
    /\ LET i == IF rounds THEN 0 ELSE IF a = "transient" THEN mem.idle ELSE mem.idle + 1
           m == [mem EXCEPT !.idle = i, !.once = @ \/ (rounds /\ cfg.once)]
           stalled == ~rounds /\ a # "transient" /\ i >= 2 * MaxFailures IN
       /\ Does(IF stalled THEN "needs_human" ELSE a, m, m.once # mem.once)
       /\ hist' = [hist EXCEPT !.idle = IF rounds THEN 0 ELSE IF a = "transient" THEN @ ELSE @ + 1,
                               !.pushed = @ + Pushed(p),
                               !.free = IF stalled THEN @ + Pushed(p) ELSE @,
                               !.onces = IF rounds /\ cfg.once /\ ~mem.once THEN @ + 1 ELSE @]
    /\ UNCHANGED <<cfg, disk, snap, run>>

\* Polishing failed, after a round or before any: a fault of the provider
\* (transient), a turn cut off (stalled) or another.  Too many that bring no
\* round end the run.
PolishFails(p, rounds, a) ==
    /\ tick.pc = "polish"
    /\ Spend("fail")
    /\ pr' = Worked(p)
    /\ LET i == IF rounds THEN 0 ELSE IF a = "transient" THEN mem.idle ELSE mem.idle + 1
           m == [mem EXCEPT !.idle = i, !.once = @ \/ (rounds /\ cfg.once)]
           stalled == ~rounds /\ a # "transient" /\ i >= 2 * MaxFailures IN
       /\ Does(IF stalled THEN "needs_human" ELSE a, m, m # mem)
       /\ hist' = [hist EXCEPT !.idle = IF rounds THEN 0 ELSE IF a = "transient" THEN @ ELSE @ + 1,
                               !.pushed = @ + Pushed(p),
                               !.free = IF stalled THEN @ + Pushed(p) ELSE @,
                               !.onces = IF rounds /\ cfg.once /\ ~mem.once THEN @ + 1 ELSE @]
    /\ UNCHANGED <<cfg, disk, snap, run>>

Failed(m) == [m EXCEPT !.mergeErr = TRUE]

\* The merge command and its verification. A queue arms or lands the PR at once,
\* and one that somebody else merged meanwhile is merged; what landed or was armed
\* still counts as failed when the answer is lost.
Merge ==
    /\ tick.pc = "merge"
    /\ LET failed == tick' = [tick EXCEPT !.pc = "rework"] /\ mem' = Failed(mem)
           succeeded(a) == Does(a, [mem EXCEPT !.mergeErr = FALSE], TRUE) /\ Keep IN
       \/ \E a \in IF cfg.policy = "queue" THEN {"armed", "merged"} ELSE {"merged"} :
          /\ pr.state = "open"
          /\ pr' = IF a = "armed" THEN [pr EXCEPT !.armed = TRUE] ELSE [pr EXCEPT !.state = "merged"]
          /\ succeeded(a) \/ (failed /\ Spend("fail"))
       \/ pr.state = "open" /\ failed /\ UNCHANGED pr /\ Spend("fail")
       \/ pr.state = "merged" /\ succeeded("merged") /\ UNCHANGED pr
       \/ pr.state # "open" /\ failed /\ UNCHANGED pr /\ Keep
    /\ UNCHANGED <<cfg, disk, snap, run, hist>>

\* reworkAfterFailedMerge, and how its round ends.
Rework ==
    /\ tick.pc = "rework"
    /\ \/ ~cfg.rework /\ Does("failed", mem, TRUE) /\ UNCHANGED <<pr, hist>>
       \/ /\ cfg.rework
          /\ \E p \in {q \in Rounds : q.threads = pr.threads}, a \in {"reworked", "failed", "stalled", "transient"} :
              /\ pr' = Worked(p)
              /\ hist' = [hist EXCEPT !.pushed = @ + Pushed(p)]
              /\ Does(a, mem, TRUE)
    /\ UNCHANGED <<cfg, disk, snap, run, left>>

-----------------------------------------------------------------------------
(* recordSnapshot and Save. *)

Ends == {"merged", "closed", "needs_human"}
Counted == {"failed", "reworked", "stalled"}

\* The failure streak, and the cooldown it starts.
Streak(m, a) ==
    IF a \in Counted
    THEN [m EXCEPT !.failures = @ + 1, !.cooldown = m.failures + 1 >= MaxFailures]
    ELSE IF a = "transient" THEN m ELSE [m EXCEPT !.failures = 0, !.cooldown = FALSE]

\* Mutant: the merge brake is left to the failure streak.
UnBraked(m, a) == m

\* The merge brake: attempts since the last cooldown it started.
Braked(m, a) ==
    IF ~m.cooldown /\ a \notin Ends /\ m.attempts - m.braked >= MaxFailures
    THEN [m EXCEPT !.cooldown = TRUE, !.braked = m.attempts] ELSE m

Recorded(m, a) ==
    Braked(Streak([m EXCEPT !.checked = TRUE, !.head = snap.head, !.base = snap.base, !.commits = snap.commits,
                            !.comments = @ \union snap.comments, !.last = a], a), a)

\* What makes it worth saving, beside what the tick did.
RecordDirty(m, a) ==
    \/ ~m.checked \/ m.head # snap.head \/ m.base # snap.base \/ m.commits # snap.commits
    \/ ~(snap.comments \subseteq m.comments) \/ m.last # a \/ a \in Counted
    \/ a \notin Counted \union {"transient"} /\ (m.failures # 0 \/ m.cooldown)
    \/ Braked(Streak(m, a), a) # Streak(m, a)

\* A save that fails makes the tick an error, and babysit goes on.
Record ==
    /\ tick.pc = "record"
    /\ LET a == tick.action  m == Recorded(mem, a) IN
       /\ mem' = m
       /\ \/ /\ disk' = IF tick.dirty \/ RecordDirty(mem, a) THEN m ELSE disk
             /\ run' = IF a \in Ends THEN a ELSE run
             /\ hist' = [hist EXCEPT !.tries = IF m.cooldown THEN 0 ELSE @]
             /\ tick' = [tick EXCEPT !.pc = "idle"]
             /\ Keep
          \/ /\ Spend("lose")
             /\ hist' = [hist EXCEPT !.lost = @ + 1, !.free = hist.pushed]
             /\ tick' = [tick EXCEPT !.pc = "idle", !.action = "lost"]
             /\ UNCHANGED <<disk, run>>
    /\ UNCHANGED <<cfg, pr, snap>>

CooldownExpires ==
    /\ disk.cooldown /\ tick.pc = "idle"
    /\ disk' = [disk EXCEPT !.cooldown = FALSE]
    /\ UNCHANGED <<cfg, pr, mem, snap, tick, run, hist, left>>

\* Somebody starts babysit again.
Resume ==
    /\ run = "needs_human"
    /\ Spend("resume")
    /\ run' = "on"
    /\ hist' = [hist EXCEPT !.tries = 0, !.idle = 0]
    /\ UNCHANGED <<cfg, pr, disk, mem, snap, tick>>

-----------------------------------------------------------------------------
(* The rest of the world. *)

Edits == [comment |-> [pr EXCEPT !.comments = @ \union {Cardinality(@) + 1}, !.threads = 1],
          push    |-> [pr EXCEPT !.head = @ + 1, !.commits = @ + 1],
          redden  |-> [pr EXCEPT !.red = TRUE],
          green   |-> [pr EXCEPT !.red = FALSE],
          changes |-> [pr EXCEPT !.review = "changes"],
          require |-> [pr EXCEPT !.review = "required"],
          approve |-> [pr EXCEPT !.review = "ok"],
          base    |-> [pr EXCEPT !.base = @ + 1],
          collide |-> [pr EXCEPT !.conflict = TRUE],
          close   |-> [pr EXCEPT !.state = "closed"]]

Edit(e) ==
    /\ pr.state = "open" /\ pr # Edits[e]
    /\ Spend("edit") /\ e \in left.edits
    /\ pr' = Edits[e]
    /\ UNCHANGED <<cfg, disk, mem, snap, tick, run, hist>>

\* The merge queue lands what was armed, or drops it.
QueueActs ==
    /\ pr.armed /\ pr.state = "open"
    /\ pr' \in {[pr EXCEPT !.armed = FALSE, !.state = "merged"], [pr EXCEPT !.armed = FALSE]}
    /\ UNCHANGED <<cfg, disk, mem, snap, tick, run, hist, left>>

-----------------------------------------------------------------------------

Next ==
    \/ Look \/ Merge \/ Rework \/ Record \/ CooldownExpires \/ Resume \/ QueueActs
    \/ \E p \in Rounds : PolishEnds(p)
    \/ \E p \in Pushes, r \in BOOLEAN, a \in {"failed", "stalled", "transient"} : PolishFails(p, r, a)
    \/ \E e \in DOMAIN Edits : Edit(e)

Spec == Init /\ [][Next]_vars

-----------------------------------------------------------------------------
(* Properties. *)

\* Types: the state, what the tick is at, how the run stands.
TypeOK ==
    /\ run \in {"on"} \union Ends
    /\ tick.pc \in {"idle", "polish", "merge", "rework", "record"} /\ tick.dirty \in BOOLEAN
    /\ \A m \in {disk, mem} : /\ m.head \in Nat /\ m.failures \in Nat /\ m.attempts \in Nat /\ m.added \in Nat
                              /\ m.cooldown \in BOOLEAN /\ m.once \in BOOLEAN
    /\ pr.state \in {"open", "merged", "closed"} /\ pr.review \in {"ok", "required", "changes"}

\* A tick saves its state whenever it differs from what is saved: no counter
\* that one of the brakes reads is changed without marking the state.
NothingUnsaved ==
    TypeOK /\ (tick.pc = "idle" /\ tick.action # "lost" => mem = [disk EXCEPT !.cooldown = mem.cooldown])

\* Between two cooldowns a run makes at most MaxFailures attempts to merge, with
\* polish rounds and queue arming in between or not; a tick that was not saved
\* allows one more.
MergesBraked == hist.tries <= MaxFailures + hist.lost

\* Polish rounds that make the PR no better come to a stop, and so do those
\* that return nothing: twice the limit, and one for each tick that was not
\* saved or could not read the threads.
RoundsStop ==
    /\ hist.flat <= 2 * MaxFlat + hist.lost + hist.blind
    /\ hist.idle <= 2 * MaxFailures + hist.lost

\* A once round is completed once, and again at most for a tick not saved.
OnceIsOnce == hist.onces <= 1 + hist.lost

\* Whatever fails, and in whatever order, the watcher does not go on for ever.
BrakesHold == MergesBraked /\ RoundsStop /\ OnceIsOnce

\* When a tick decides, the scope brake has been charged every commit the
\* agent's rounds pushed, those of the rounds that failed included, but for
\* ticks not saved and the round that ended a run as stalled.
ScopeIsCounted == tick.pc \in {"polish", "merge"} => mem.added + hist.free >= hist.pushed

\* What the brakes count is all there is to count, and is saved.
CountersKept == NothingUnsaved /\ ScopeIsCounted

\* A merge is not tried over feedback no polish round was given, but for what
\* was there on the first tick or was seen by a tick that gave the PR up.
FeedbackReachesAgent == tick.pc = "merge" => snap.comments \subseteq hist.given \union hist.excused

=============================================================================
