--------------------------- MODULE WatcherProofs ---------------------------
(* What holds of PRWatcher for all limits, configurations and scenarios.   *)
EXTENDS PRWatcher, FiniteSetTheorems, TLAPS

Actions == {"init", "idle", "merged", "closed", "armed", "needs_human", "polished", "reworked",
            "failed", "stalled", "transient"}
Healths == [threads : Nat, red : BOOLEAN]
States == [checked : BOOLEAN, head : Nat, base : Nat, commits : Nat, comments : SUBSET Nat, last : Actions,
           failures : Nat, cooldown : BOOLEAN, attempts : Nat, braked : Nat, mergeErr : BOOLEAN,
           reviewed : Nat, best : Healths, flat : Nat, idle : Nat, added : Nat, once : BOOLEAN]
PRs == [head : Nat \ {0}, base : Nat, commits : Nat, state : {"open", "merged", "closed"}, red : BOOLEAN,
        conflict : BOOLEAN, review : {"ok", "required", "changes"}, comments : SUBSET Nat,
        threads : 0..1, armed : BOOLEAN, readable : BOOLEAN]
Histories == [lost : Nat, blind : Nat, tries : Nat, flat : Nat, idle : Nat, onces : Nat, pushed : Nat,
              free : Nat, given : SUBSET Nat, excused : SUBSET Nat]
Pcs == {"idle", "polish", "merge", "rework", "record"}

\* What the variables hold, in full.
Typed ==
    /\ cfg \in Settings
    /\ disk \in States /\ mem \in States /\ pr \in PRs /\ snap \in PRs /\ hist \in Histories
    /\ IsFiniteSet(pr.comments)
    /\ tick \in [pc : Pcs, action : Actions \union {"merge", "polish", "lost"}, dirty : BOOLEAN]
    /\ run \in {"on"} \union Ends

\* Where a tick can be: one that acts or records is of a run that is on, and saw
\* a pull request that has since only grown; and a closed one stays closed.
TickFits ==
    /\ tick.pc # "idle" => run = "on"
    /\ tick.pc = "record" => tick.action \in Actions
    /\ tick.pc \in {"merge", "rework"} => tick.dirty
    /\ disk.head <= pr.head /\ snap.head <= pr.head /\ snap.commits <= pr.commits
    /\ tick.pc # "idle" /\ snap.state # "open" => pr.state # "open"
    /\ tick.pc \in {"polish", "merge", "rework"} => snap.state = "open"

\* What differs from the saved state is marked.
Marks ==
    /\ tick.pc = "idle" /\ tick.action # "lost" => mem = [disk EXCEPT !.cooldown = mem.cooldown]
    /\ tick.pc # "idle" /\ ~tick.dirty => mem = disk

\* One more for the tick under way: should it be lost, hist.lost pays for it.
Open == IF tick.pc = "idle" THEN 0 ELSE 1

\* Likewise for what is counted when the agent returns.
Acted == IF tick.pc = "record" THEN 1 ELSE 0

\* Merge attempts: those since the last cooldown are in what is saved, up to lost ticks.
TriesInv ==
    /\ disk.braked <= disk.attempts /\ mem.braked <= mem.attempts
    /\ hist.tries <= MaxFailures + hist.lost
    /\ hist.tries + disk.braked <= disk.attempts + hist.lost + Open
    /\ run = "on" => \/ hist.tries <= hist.lost + Open
                     \/ disk.attempts < disk.braked + MaxFailures
    /\ tick.pc # "idle" => hist.tries + mem.braked <= mem.attempts + hist.lost

\* Rounds without improvement: the last one is counted by the tick after it.
Uncounted(a) == IF a = "polished" THEN 1 ELSE 0
FlatInv ==
    /\ hist.flat <= 2 * MaxFlat + hist.lost + hist.blind
    /\ hist.flat <= disk.flat + Uncounted(disk.last) + hist.lost + hist.blind + Acted
    /\ tick.pc \notin {"idle", "record"} => hist.flat <= mem.flat + hist.lost + hist.blind
    /\ tick.pc = "record" => hist.flat <= mem.flat + Uncounted(tick.action) + hist.lost + hist.blind
    /\ tick.pc = "polish" => hist.flat < 2 * MaxFlat + hist.lost + hist.blind

\* Invocations that brought no round; the count is also dropped, by a tick that finds
\* a new head after the run was ended, when those of the new run have not begun.
IdleInv ==
    /\ hist.idle <= 2 * MaxFailures + hist.lost
    /\ hist.idle <= disk.idle + hist.lost + Acted
    /\ run = "on" => \/ hist.idle <= hist.lost + Acted
                     \/ disk.idle < 2 * MaxFailures /\ disk.last # "needs_human"
    /\ tick.pc # "idle" => hist.idle <= mem.idle + hist.lost
    /\ tick.pc # "idle" => \/ hist.idle <= hist.lost \/ mem.idle < 2 * MaxFailures
                           \/ tick.pc = "record" /\ tick.action = "needs_human"

\* Once rounds.
Once(m) == IF m.once THEN 1 ELSE 0
OnceInv ==
    /\ hist.onces <= Once(disk) + hist.lost + Acted
    /\ tick.pc # "idle" => hist.onces <= Once(mem) + hist.lost

\* Commits: what is not charged yet will be, by the tick after the round.
ChargedNext == Charged([mem EXCEPT !.last = tick.action, !.head = snap.head, !.commits = snap.commits], pr)
ScopeInv ==
    /\ tick.pc = "idle" => hist.pushed <= disk.added + hist.free + Charged(disk, pr)
    /\ tick.pc \in {"polish", "merge", "rework"} => hist.pushed <= mem.added + hist.free
    /\ tick.pc = "record" => hist.pushed <= mem.added + hist.free + ChargedNext

\* Comments: those remembered as seen were given to the agent or are excused, as
\* long as there is something to merge.
Heeded == hist.given \union hist.excused
GivenInv ==
    /\ pr.state = "open" => disk.comments \subseteq Heeded
    /\ tick.pc # "idle" => mem.comments = disk.comments
    /\ tick.pc # "idle" /\ snap.state = "open" => snap.comments \subseteq Heeded

IInv == Typed /\ TickFits /\ Marks /\ TriesInv /\ FlatInv /\ IdleInv /\ OnceInv /\ ScopeInv /\ GivenInv
-----------------------------------------------------------------------------
(* The operators. *)

\* What a tick charges is a number.
LEMMA ChargedType ==
  ASSUME NEW m \in States, NEW s \in PRs
  PROVE  Charged(m, s) \in Nat
  BY DEF States, PRs, Charged

\* Dropping an old verdict changes the scores only.
LEMMA ExpiredFields ==
  ASSUME NEW m \in States, NEW s \in PRs
  PROVE  /\ Expired(m, s) \in States
         /\ Stale(m, s) => Expired(m, s).flat = 0 /\ Expired(m, s).best = NoHealth /\ Expired(m, s).idle = 0
         /\ ~Stale(m, s) => Expired(m, s) = m
         /\ Expired(m, s) = [m EXCEPT !.flat = Expired(m, s).flat, !.best = Expired(m, s).best,
                                      !.idle = Expired(m, s).idle]
         /\ Charged(Expired(m, s), s) = Charged(m, s)
  BY DEF States, Healths, Expired, NoHealth, Charged

\* Scoring changes three fields.
LEMMA ScoredFields ==
  ASSUME NEW m \in States, NEW s \in PRs
  PROVE  /\ Scored(m, s) \in States
         /\ Scored(m, s) = [m EXCEPT !.added = m.added + Charged(m, s), !.best = Scored(m, s).best,
                                     !.flat = Scored(m, s).flat]
         /\ Scored(m, s).added = m.added + Charged(m, s)
         /\ Improves(m, s) => Scored(m, s).flat = 0 /\ Scored(m, s).best = Health(s)
         /\ ~Improves(m, s) => /\ Scored(m, s).best = m.best
                               /\ Scored(m, s).flat =
                                     IF s.readable THEN m.flat + Uncounted(m.last) ELSE m.flat
  <1>1. Charged(m, s) \in Nat /\ Health(s) \in Healths
    BY ChargedType DEF PRs, Healths, Health
  <1>2. Scored(m, s).added = m.added + Charged(m, s)
    BY DEF Scored, States
  <1>3. Scored(m, s).best = IF Improves(m, s) THEN Health(s) ELSE m.best
    BY DEF Scored, States
  <1>4. Scored(m, s).flat = IF Improves(m, s) THEN 0
                            ELSE IF s.readable /\ m.last = "polished" THEN m.flat + 1 ELSE m.flat
    BY DEF Scored, States
  <1>5. Scored(m, s) = [m EXCEPT !.added = m.added + Charged(m, s), !.best = Scored(m, s).best,
                                 !.flat = Scored(m, s).flat]
    BY <1>2, <1>3, <1>4 DEF Scored, States
  <1>6. m.added + Charged(m, s) \in Nat /\ Scored(m, s).best \in Healths /\ Scored(m, s).flat \in Nat
    BY <1>1, <1>3, <1>4 DEF States
  <1>7. Scored(m, s) \in States
    BY <1>5, <1>6 DEF States
  <1> QED
    BY <1>1, <1>2, <1>3, <1>4, <1>5, <1>7 DEF Uncounted, States

\* A tick that is not marked for its scores has changed none.
LEMMA ScoreMarked ==
  ASSUME NEW m \in States, NEW s \in PRs, ~ScoreDirty(m, s)
  PROVE  Scored(Expired(m, s), s) = m
  <1>1. Expired(m, s) = m /\ Charged(m, s) = 0 /\ ~Improves(m, s) /\ m.last # "polished"
    BY ExpiredFields DEF ScoreDirty
  <1>2. /\ m.added + Charged(m, s) = m.added /\ Scored(m, s).best = m.best
        /\ Scored(m, s).flat = m.flat
    <2>1. Scored(m, s).best = m.best /\ Scored(m, s).flat \in {m.flat, m.flat + Uncounted(m.last)}
      BY <1>1, ScoredFields
    <2> QED
      BY <1>1, <2>1 DEF States, Uncounted
  <1>3. Scored(m, s) = [m EXCEPT !.added = m.added, !.best = m.best, !.flat = m.flat]
    BY <1>2, ScoredFields, ZenonT(40)
  <1> QED
    BY <1>1, <1>3 DEF States

\* The failure streak is two fields.
LEMMA StreakFields ==
  ASSUME NEW m \in States, NEW a \in Actions
  PROVE  /\ Streak(m, a) \in States
         /\ Streak(m, a) = [m EXCEPT !.failures = Streak(m, a).failures, !.cooldown = Streak(m, a).cooldown]
         /\ a \notin Counted /\ (a = "transient" \/ (m.failures = 0 /\ ~m.cooldown)) => Streak(m, a) = m
  <1>1. CASE a \in Counted
    <2> DEFINE n == m.failures + 1
               c == n >= MaxFailures
    <2>1. n \in Nat /\ c \in BOOLEAN
      BY DEF States
    <2>2. Streak(m, a) = [m EXCEPT !.failures = n, !.cooldown = c]
      BY <1>1 DEF Streak, States
    <2> HIDE DEF n, c
    <2> QED
      BY <1>1, <2>1, <2>2 DEF States
  <1>2. CASE a = "transient"
    BY <1>2 DEF States, Streak, Counted
  <1>3. CASE a \notin Counted /\ a # "transient"
    BY <1>3 DEF States, Streak
  <1> QED
    BY <1>1, <1>2, <1>3

\* The brake starts a cooldown when the attempts since the last reach the limit,
\* unless the run ends there.
LEMMA BrakedFields ==
  ASSUME NEW m \in States, NEW a \in Actions
  PROVE  /\ Braked(m, a) \in States
         /\ Braked(m, a) = [m EXCEPT !.cooldown = Braked(m, a).cooldown, !.braked = Braked(m, a).braked]
         /\ Braked(m, a).braked \in {m.braked, m.attempts}
         /\ ~Braked(m, a).cooldown /\ a \notin Ends => m.attempts - m.braked < MaxFailures
         /\ ~Braked(m, a).cooldown => Braked(m, a) = m
  <1> DEFINE stop == ~m.cooldown /\ a \notin Ends /\ m.attempts - m.braked >= MaxFailures
  <1>1. CASE stop
    <2>1. Braked(m, a) = [m EXCEPT !.cooldown = TRUE, !.braked = m.attempts]
      BY <1>1 DEF Braked
    <2> QED
      BY <1>1, <2>1 DEF States
  <1>2. CASE ~stop
    <2>1. Braked(m, a) = m
      BY <1>2 DEF Braked
    <2>2. ~m.cooldown /\ a \notin Ends => m.attempts - m.braked < MaxFailures
      BY <1>2, WatcherConstants DEF States
    <2> QED
      BY <2>1, <2>2 DEF States
  <1> QED
    BY <1>1, <1>2

\* What recordSnapshot leaves: the snapshot, the action and the streaks.
LEMMA RecordedFields ==
  ASSUME NEW m \in States, NEW a \in Actions, snap \in PRs
  PROVE  /\ Recorded(m, a) \in States
         /\ \A f \in {"best", "flat", "idle", "added", "once", "attempts", "reviewed", "mergeErr"} :
               Recorded(m, a)[f] = m[f]
         /\ Recorded(m, a).head = snap.head /\ Recorded(m, a).commits = snap.commits
         /\ Recorded(m, a).last = a /\ Recorded(m, a).checked /\ Recorded(m, a).base = snap.base
         /\ Recorded(m, a).comments = m.comments \union snap.comments
         /\ Recorded(m, a).braked \in {m.braked, m.attempts}
         /\ ~Recorded(m, a).cooldown => Recorded(m, a).braked = m.braked
         /\ ~Recorded(m, a).cooldown /\ a \notin Ends => m.attempts - m.braked < MaxFailures
  <1> DEFINE n == [m EXCEPT !.checked = TRUE, !.head = snap.head, !.base = snap.base, !.commits = snap.commits,
                            !.comments = @ \union snap.comments, !.last = a]
             r == Streak(n, a)
             b == Braked(r, a)
  <1>1. n \in States
    BY DEF States, PRs
  <1>2. /\ \A f \in {"best", "flat", "idle", "added", "once", "attempts", "reviewed", "mergeErr", "braked"} :
             n[f] = m[f]
        /\ n.head = snap.head /\ n.base = snap.base /\ n.commits = snap.commits /\ n.checked /\ n.last = a
        /\ n.comments = m.comments \union snap.comments
    BY DEF States
  <1> HIDE DEF n
  <1>3. r \in States /\ r = [n EXCEPT !.failures = r.failures, !.cooldown = r.cooldown]
    BY <1>1, StreakFields
  <1>4. \A f \in {"best", "flat", "idle", "added", "once", "attempts", "reviewed", "mergeErr", "braked",
                  "head", "base", "commits", "checked", "last", "comments"} : r[f] = n[f]
    BY <1>1, <1>3 DEF States
  <1> HIDE DEF r
  <1>5. /\ b \in States /\ b = [r EXCEPT !.cooldown = b.cooldown, !.braked = b.braked]
        /\ b.braked \in {r.braked, r.attempts}
        /\ ~b.cooldown /\ a \notin Ends => r.attempts - r.braked < MaxFailures
        /\ ~b.cooldown => b = r
    BY <1>3, BrakedFields
  <1>6. \A f \in {"best", "flat", "idle", "added", "once", "attempts", "reviewed", "mergeErr",
                  "head", "base", "commits", "checked", "last", "comments"} : b[f] = r[f]
    BY <1>3, <1>5, ZenonT(40) DEF States
  <1>7. Recorded(m, a) = b
    BY DEF Recorded, n, r
  <1> HIDE DEF b
  <1> QED
    BY <1>2, <1>4, <1>5, <1>6, <1>7

\* A record that is not marked has changed nothing.
LEMMA RecordMarked ==
  ASSUME NEW m \in States, NEW a \in Actions, snap \in PRs, ~RecordDirty(m, a)
  PROVE  Recorded(m, a) = m
  <1>1. /\ m.checked /\ m.head = snap.head /\ m.base = snap.base /\ m.commits = snap.commits
        /\ snap.comments \subseteq m.comments /\ m.last = a /\ a \notin Counted
        /\ a = "transient" \/ (m.failures = 0 /\ ~m.cooldown)
        /\ Braked(Streak(m, a), a) = Streak(m, a)
    BY DEF RecordDirty, Counted
  <1>2. [m EXCEPT !.checked = TRUE, !.head = snap.head, !.base = snap.base, !.commits = snap.commits,
                  !.comments = @ \union snap.comments, !.last = a] = m
    <2>1. m.comments \union snap.comments = m.comments /\ m.checked = TRUE
      BY <1>1 DEF States
    <2> QED
      BY <1>1, <2>1 DEF States
  <1>3. Streak(m, a) = m
    BY <1>1, StreakFields
  <1> QED
    BY <1>1, <1>2, <1>3 DEF Recorded

\* What a decision says of what the tick saw.
LEMMA DecisionMeans ==
  ASSUME NEW m \in States, NEW s \in PRs
  PROVE  /\ Decision(m, s) \in {"merged", "closed", "merge", "needs_human", "idle", "polish"}
         /\ Decision(m, s) \in {"merge", "polish"} => s.state = "open"
         /\ s.state = "open" => Decision(m, s) \in {"merge", "needs_human", "idle", "polish"}
         /\ Decision(m, s) \in {"merge", "idle"} => ~NewComments(m, s)
         /\ Decision(m, s) = "polish" => ~Diverging(m, s)
  <1>1. s.state \in {"open", "merged", "closed"}
    BY DEF PRs
  <1> QED
    BY <1>1 DEF Decision, NeedsPolish

\* A readable tick has a best score, and stops at twice the limit at the latest.
LEMMA PolishBelow ==
  ASSUME NEW m \in States, NEW s \in PRs, s.readable, m.best # NoHealth, ~Diverging(m, s)
  PROVE  m.flat < 2 * MaxFlat
  BY WatcherConstants DEF States, Diverging
LEMMA FirstScore ==
  ASSUME NEW m \in States, NEW s \in PRs, s.readable, ~Improves(m, s)
  PROVE  m.best # NoHealth
  BY DEF States, Healths, PRs, Improves, Better, Health, NoHealth

\* A tick looks at the pull request as it is, but for threads it may fail to read,
\* and scores it; it leaves everything else it works on alone.
LEMMA LookDoes ==
  ASSUME Typed, Look
  PROVE  /\ run = "on" /\ tick.pc = "idle" /\ ~disk.cooldown /\ UNCHANGED <<cfg, pr, disk, run>>
         /\ \E s \in PRs : /\ s.head = pr.head /\ s.commits = pr.commits /\ s.comments = pr.comments
                           /\ s.state = pr.state /\ LookAt(s)
  BY DEF Look, Typed, PRs

\* The state after looking at s: what a tick may change of it before it acts.
Looked(s) ==
    /\ mem' \in States /\ snap' \in PRs /\ snap' = s
    /\ mem'.attempts = disk.attempts + (IF tick'.action = "merge" THEN 1 ELSE 0)
    /\ mem'.braked = disk.braked /\ mem'.once = disk.once /\ mem'.comments = disk.comments
    /\ mem'.last = disk.last /\ mem'.checked = disk.checked
    /\ mem'.added = disk.added + Charged(disk, s)
    /\ mem'.idle = IF Stale(disk, s) THEN 0 ELSE disk.idle
    /\ \/ hist'.flat = 0
       \/ /\ hist'.flat = hist.flat
          /\ mem'.flat = IF s.readable THEN disk.flat + Uncounted(disk.last) ELSE disk.flat
    /\ tick'.action \in {"merged", "closed", "merge", "needs_human", "idle", "polish"}
    /\ tick'.pc = IF tick'.action \in {"merge", "polish"} THEN tick'.action ELSE "record"
    /\ tick'.pc # "record" => s.state = "open"
    /\ tick'.dirty \in BOOLEAN /\ tick' \in [pc : Pcs, action : Actions \union {"merge", "polish", "lost"}, dirty : BOOLEAN]
    /\ tick'.pc = "merge" => tick'.dirty
    /\ ~tick'.dirty => mem' = disk
    /\ tick'.action = "polish" => ~s.readable \/ mem'.flat < 2 * MaxFlat
    /\ s.state = "open" /\ tick'.action \in {"merged", "closed", "merge", "idle"} => ~NewComments(disk, s)

LEMMA LookState ==
  ASSUME Typed, NEW s \in PRs, LookAt(s)
  PROVE  Looked(s)
  <1> DEFINE e == Expired(disk, s)
             m == Scored(e, s)
             d == Decision(m, s)
  <1>1. /\ mem' = IF d = "merge" THEN [m EXCEPT !.attempts = @ + 1] ELSE m
        /\ tick' = [pc |-> IF d \in {"merge", "polish"} THEN d ELSE "record", action |-> d,
                    dirty |-> ScoreDirty(disk, s) \/ d = "merge"]
        /\ hist'.flat = IF Improves(e, s) \/ Stale(disk, s) THEN 0 ELSE hist.flat
        /\ snap' = s
    BY DEF LookAt, Typed, Histories
  <1>2. disk \in States
    BY DEF Typed
  <1>3. /\ e \in States /\ e = [disk EXCEPT !.flat = e.flat, !.best = e.best, !.idle = e.idle]
        /\ Stale(disk, s) => e.flat = 0 /\ e.idle = 0 /\ disk.last = "needs_human"
        /\ ~Stale(disk, s) => e = disk
        /\ Charged(e, s) = Charged(disk, s)
    BY <1>2, ExpiredFields DEF Stale
  <1>4. /\ m \in States
        /\ m = [e EXCEPT !.added = e.added + Charged(e, s), !.best = m.best, !.flat = m.flat]
        /\ Improves(e, s) => m.flat = 0 /\ m.best = Health(s)
        /\ ~Improves(e, s) => m.flat = IF s.readable THEN e.flat + Uncounted(e.last) ELSE e.flat
        /\ ~Improves(e, s) => m.best = e.best
    BY <1>3, ScoredFields, ZenonT(40)
  <1>5. /\ d \in {"merged", "closed", "merge", "needs_human", "idle", "polish"}
        /\ d \in {"merge", "polish"} => s.state = "open"
        /\ s.state = "open" => d \in {"merge", "needs_human", "idle", "polish"}
        /\ d \in {"merge", "idle"} => ~NewComments(m, s)
        /\ d = "polish" => ~Diverging(m, s)
    BY <1>4, DecisionMeans
  <1>6. ~ScoreDirty(disk, s) => m = disk
    BY <1>2, ScoreMarked
  <1>7. d = "polish" => ~s.readable \/ m.flat < 2 * MaxFlat
    <2>1. CASE ~Improves(e, s) /\ s.readable
      BY <2>1, <1>3, <1>4, <1>5, FirstScore, PolishBelow
    <2>2. CASE Improves(e, s)
      BY <2>2, <1>4, WatcherConstants
    <2> QED
      BY <2>1, <2>2
  <1> HIDE DEF d
  <1>8. /\ e.attempts = disk.attempts /\ e.braked = disk.braked /\ e.once = disk.once /\ e.added = disk.added
        /\ e.comments = disk.comments /\ e.last = disk.last /\ e.checked = disk.checked
    BY <1>2, <1>3 DEF States
  <1> HIDE DEF e
  <1>9. /\ m.attempts = e.attempts /\ m.braked = e.braked /\ m.once = e.once /\ m.comments = e.comments
        /\ m.last = e.last /\ m.checked = e.checked /\ m.idle = e.idle /\ m.added = e.added + Charged(e, s)
    BY <1>3, <1>4 DEF States
  <1> HIDE DEF m
  <1>10. /\ mem' \in States /\ mem'.attempts = m.attempts + (IF d = "merge" THEN 1 ELSE 0)
         /\ mem'.braked = m.braked /\ mem'.once = m.once /\ mem'.comments = m.comments
         /\ mem'.last = m.last /\ mem'.checked = m.checked /\ mem'.added = m.added
         /\ mem'.idle = m.idle /\ mem'.flat = m.flat
    BY <1>1, <1>4 DEF States
  <1>11. /\ tick'.action = d /\ tick'.pc = IF d \in {"merge", "polish"} THEN d ELSE "record"
         /\ tick'.dirty = (ScoreDirty(disk, s) \/ d = "merge")
    BY <1>1
  <1>12. \/ hist'.flat = 0
         \/ /\ hist'.flat = hist.flat
            /\ m.flat = IF s.readable THEN disk.flat + Uncounted(disk.last) ELSE disk.flat
    BY <1>1, <1>3, <1>4
  <1>13. NewComments(m, s) = NewComments(disk, s)
    BY <1>8, <1>9 DEF NewComments
  <1>14. mem'.idle = IF Stale(disk, s) THEN 0 ELSE disk.idle
    BY <1>3, <1>9, <1>10
  <1>15. tick' \in [pc : Pcs, action : Actions \union {"merge", "polish", "lost"}, dirty : BOOLEAN]
    BY <1>1, <1>5 DEF Pcs, Actions
  <1>16. ~tick'.dirty => mem' = disk
    BY <1>1, <1>6, <1>11
  <1>17. s.state = "open" /\ tick'.action \in {"merged", "closed", "merge", "idle"} => ~NewComments(disk, s)
    BY <1>5, <1>11, <1>13
  <1>18. /\ mem'.added = disk.added + Charged(disk, s) /\ mem'.braked = disk.braked /\ mem'.once = disk.once
         /\ mem'.comments = disk.comments /\ mem'.last = disk.last /\ mem'.checked = disk.checked
         /\ mem'.attempts = disk.attempts + (IF tick'.action = "merge" THEN 1 ELSE 0)
    BY <1>3, <1>8, <1>9, <1>10, <1>11
  <1> QED
    BY <1>1, <1>5, <1>7, <1>10, <1>11, <1>12, <1>14, <1>15, <1>16, <1>17, <1>18 DEF Looked


\* What is charged next is a number.
LEMMA NextCharge ==
  ASSUME NEW m \in States, NEW a \in Actions, NEW s \in PRs, NEW p \in PRs
  PROVE  Charged([m EXCEPT !.last = a, !.head = s.head, !.commits = s.commits], p) \in Nat
  <1>1. [m EXCEPT !.last = a, !.head = s.head, !.commits = s.commits] \in States
    BY DEF States, PRs
  <1> QED
    BY <1>1, ChargedType

\* What a round may push, and what it leaves alone.
LEMMA RoundFields ==
  ASSUME Typed, NEW p \in Rounds
  PROVE  /\ Worked(p) \in PRs /\ Worked(p).comments = pr.comments /\ Worked(p).state = pr.state
         /\ Worked(p).head = p.head /\ Worked(p).commits = p.commits
         /\ p.head \in {pr.head, pr.head + 1} /\ p.commits \in {pr.commits, pr.commits + 2}
         /\ p.head = pr.head => p.commits = pr.commits
         /\ Pushed(p) \in Nat
  <1>1. /\ p \in [head : {pr.head, pr.head + 1}, commits : {pr.commits, pr.commits + 2},
                  threads : 0 .. 1, red : BOOLEAN]
        /\ p.head = pr.head => p.commits = pr.commits
    BY DEF Rounds
  <1>2. pr \in PRs
    BY DEF Typed
  <1>3. Worked(p) \in PRs
    <2>1. /\ p.head \in Nat \ {0} /\ p.commits \in Nat /\ p.threads \in 0..1 /\ p.red \in BOOLEAN
          /\ (IF p.head = pr.head THEN pr.conflict ELSE FALSE) \in BOOLEAN
      <3>1. /\ p.head \in {pr.head, pr.head + 1} /\ p.commits \in {pr.commits, pr.commits + 2}
            /\ p.threads \in 0..1 /\ p.red \in BOOLEAN
        BY ONLY <1>1
      <3>2. pr.head \in Nat \ {0} /\ pr.commits \in Nat /\ pr.conflict \in BOOLEAN
        BY <1>2 DEF PRs
      <3>3. p.head \in Nat \ {0} /\ p.commits \in Nat
        BY ONLY <3>1, <3>2
      <3>4. (IF p.head = pr.head THEN pr.conflict ELSE FALSE) \in BOOLEAN
        BY ONLY <3>2
      <3> QED
        BY ONLY <3>1, <3>3, <3>4
    <2>2. Worked(p) = [pr EXCEPT !.head = p.head, !.commits = p.commits, !.threads = p.threads, !.red = p.red,
                                 !.conflict = IF p.head = pr.head THEN pr.conflict ELSE FALSE]
      BY DEF Worked
    <2> QED
      BY ONLY <1>2, <2>1, <2>2 DEF PRs
  <1>4. /\ Worked(p).comments = pr.comments /\ Worked(p).state = pr.state
        /\ Worked(p).head = p.head /\ Worked(p).commits = p.commits
    BY <1>2 DEF Worked, PRs
  <1> QED
    BY <1>1, <1>3, <1>4 DEF Pushed

\* What a round pushed will be charged, if what is recorded says that an agent ran.
LEMMA RoundIsCharged ==
  ASSUME Typed, snap.head <= pr.head, snap.commits <= pr.commits, NEW p \in Rounds,
         NEW m \in States, NEW a \in Actions \ NoAgentRan
  PROVE  Pushed(p) <= Charged([m EXCEPT !.last = a, !.head = snap.head, !.commits = snap.commits], Worked(p))
  <1> DEFINE n == [m EXCEPT !.last = a, !.head = snap.head, !.commits = snap.commits]
  <1>1. n.last = a /\ n.head = snap.head /\ n.commits = snap.commits
    BY DEF States
  <1>2. /\ snap.head \in Nat \ {0} /\ pr.head \in Nat /\ snap.commits \in Nat /\ pr.commits \in Nat
    BY DEF Typed, PRs
  <1> HIDE DEF n
  <1> QED
    BY <1>1, <1>2, RoundFields DEF Charged, Pushed
-----------------------------------------------------------------------------
(* Every action preserves the invariant. *)

LEMMA LookInv ==
  ASSUME IInv, Look
  PROVE  IInv'
  <1>1. /\ run = "on" /\ tick.pc = "idle" /\ ~disk.cooldown
        /\ cfg' = cfg /\ pr' = pr /\ disk' = disk /\ run' = run
    BY LookDoes DEF IInv
  <1>2. PICK s \in PRs : /\ s.head = pr.head /\ s.commits = pr.commits /\ s.comments = pr.comments
                         /\ s.state = pr.state /\ LookAt(s)
    BY LookDoes DEF IInv
  <1>0. Looked(s)
    BY <1>2, LookState DEF IInv
  <1> USE <1>0, <1>1, <1>2 DEF Looked
  <1> DEFINE a == tick'.action
  <1>3. Typed /\ disk \in States /\ hist \in Histories
    BY DEF IInv, Typed
  <1>4. /\ hist' \in Histories /\ hist'.lost = hist.lost /\ hist'.idle = hist.idle /\ hist'.onces = hist.onces
        /\ hist'.pushed = hist.pushed /\ hist'.free = hist.free
        /\ hist'.tries = hist.tries + (IF a = "merge" THEN 1 ELSE 0)
        /\ hist'.blind = hist.blind + (IF s.readable THEN 0 ELSE 1)
        /\ hist.given \subseteq hist'.given /\ hist.excused \subseteq hist'.excused
        /\ ~disk.checked \/ a = "needs_human" => s.comments \subseteq hist'.excused
        /\ a = "polish" => s.comments \subseteq hist'.given
    <2> DEFINE d == Decision(Scored(Expired(disk, s), s), s)
               f == Improves(Expired(disk, s), s) \/ Stale(disk, s)
    <2>1. /\ hist' = [hist EXCEPT !.blind = IF s.readable THEN @ ELSE @ + 1,
                                  !.flat = IF f THEN 0 ELSE @,
                                  !.tries = IF d = "merge" THEN @ + 1 ELSE @,
                                  !.excused = IF ~disk.checked \/ d = "needs_human" THEN @ \union s.comments ELSE @,
                                  !.given = IF d = "polish" THEN @ \union s.comments ELSE @]
          /\ a = d
      BY DEF LookAt
    <2>2. s.comments \in SUBSET Nat
      BY DEF PRs
    <2> HIDE DEF d, f
    <2>3. hist' = [hist EXCEPT !.blind = hist'.blind, !.flat = hist'.flat, !.tries = hist'.tries,
                               !.excused = hist'.excused, !.given = hist'.given]
      BY ONLY <1>3, <2>1 DEF Histories
    <2>4. /\ hist'.blind = hist.blind + (IF s.readable THEN 0 ELSE 1)
          /\ hist'.flat = IF f THEN 0 ELSE hist.flat
          /\ hist'.tries = hist.tries + (IF d = "merge" THEN 1 ELSE 0)
          /\ hist'.excused = IF ~disk.checked \/ d = "needs_human" THEN hist.excused \union s.comments ELSE hist.excused
          /\ hist'.given = IF d = "polish" THEN hist.given \union s.comments ELSE hist.given
      BY ONLY <1>3, <2>1 DEF Histories
    <2>5. /\ hist'.blind \in Nat /\ hist'.flat \in Nat /\ hist'.tries \in Nat
          /\ hist'.excused \in SUBSET Nat /\ hist'.given \in SUBSET Nat
      BY ONLY <1>3, <2>2, <2>4 DEF Histories
    <2>6. hist' \in Histories
      BY ONLY <1>3, <2>3, <2>5 DEF Histories
    <2>7. /\ hist'.lost = hist.lost /\ hist'.idle = hist.idle /\ hist'.onces = hist.onces
          /\ hist'.pushed = hist.pushed /\ hist'.free = hist.free
      BY ONLY <1>3, <2>3 DEF Histories
    <2> QED
      BY ONLY <2>1, <2>4, <2>6, <2>7
  <1>5. Typed'
    BY <1>3, <1>4 DEF Typed
  <1>6. TickFits'
    BY <1>3 DEF IInv, TickFits, Typed, PRs, Actions
  <1>7. Marks'
    BY <1>3 DEF Marks
  <1>8. TriesInv'
    BY <1>3, <1>4, WatcherConstants DEF IInv, TriesInv, Open, States, Histories
  <1>9. FlatInv'
    BY <1>3, <1>4, WatcherConstants DEF IInv, FlatInv, Acted, Uncounted, States, Histories
  <1>10. IdleInv'
    BY <1>3, <1>4, WatcherConstants DEF IInv, IdleInv, Acted, Stale, States, Histories
  <1>11. OnceInv'
    BY <1>3, <1>4 DEF IInv, OnceInv, Once, Acted, Histories
  <1>12. ScopeInv'
    <2>1. Charged(disk, s) = Charged(disk, pr)
      BY DEF Charged
    <2>2. tick'.pc = "record" => ChargedNext' \in Nat
      <3>1. CASE tick'.pc = "record"
        <4>1. mem' \in States /\ tick'.action \in Actions /\ snap' \in PRs /\ pr' \in PRs
          BY <1>3, <1>5, <1>6, <3>1 DEF Typed, TickFits
        <4> QED
          BY ONLY <4>1, NextCharge DEF ChargedNext
      <3> QED
        BY <3>1
    <2>3. /\ mem'.added = disk.added + Charged(disk, pr)
          /\ mem'.added \in Nat /\ hist.free \in Nat /\ hist.pushed \in Nat
      BY <1>3, <2>1 DEF States, Histories
    <2>4. hist'.pushed <= mem'.added + hist'.free
      <3>1. hist.pushed <= disk.added + hist.free + Charged(disk, pr)
        BY ONLY IInv, <1>1 DEF IInv, ScopeInv
      <3>2. Charged(disk, pr) \in Nat /\ disk.added \in Nat
        BY <1>3, ChargedType DEF Typed, States
      <3> QED
        BY ONLY <3>1, <3>2, <1>4, <2>3
    <2>5. mem'.added + hist'.free \in Nat /\ hist'.pushed \in Nat /\ tick'.pc # "idle"
      BY <1>4, <2>3
    <2> QED
      BY <2>2, <2>4, <2>5 DEF ScopeInv
  <1>13. GivenInv'
    BY <1>3, <1>4 DEF IInv, GivenInv, Heeded, NewComments
  <1> QED
    BY <1>5, <1>6, <1>7, <1>8, <1>9, <1>10, <1>11, <1>12, <1>13 DEF IInv

\* A polish round that ended.
LEMMA PolishEndsInv ==
  ASSUME IInv, NEW p \in Rounds, PolishEnds(p)
  PROVE  IInv'
  <1>1. /\ tick.pc = "polish" /\ pr' = Worked(p)
        /\ tick'.pc = "record" /\ tick'.action = "polished" /\ tick'.dirty = (tick.dirty \/ mem' # mem)
        /\ mem' = [mem EXCEPT !.idle = 0, !.once = @ \/ cfg.once,
                              !.reviewed = IF cfg.selfReview THEN snap.head ELSE @]
        /\ hist' = [hist EXCEPT !.flat = @ + 1, !.idle = 0, !.pushed = @ + Pushed(p),
                                !.onces = IF cfg.once /\ ~mem.once THEN @ + 1 ELSE @]
        /\ cfg' = cfg /\ disk' = disk /\ snap' = snap /\ run' = run
    BY DEF PolishEnds, Does
  <1>2. Typed /\ disk \in States /\ mem \in States /\ hist \in Histories /\ snap \in PRs /\ cfg.once \in BOOLEAN
    BY WatcherConstants DEF IInv, Typed
  <1>3. /\ Worked(p) \in PRs /\ Worked(p).comments = pr.comments /\ Worked(p).state = pr.state
        /\ Worked(p).head \in {pr.head, pr.head + 1} /\ Worked(p).commits \in {pr.commits, pr.commits + 2}
        /\ Pushed(p) \in Nat
    BY <1>2, RoundFields
  <1>4. /\ mem' \in States /\ mem'.idle = 0 /\ mem'.once = (mem.once \/ cfg.once)
        /\ mem'.attempts = mem.attempts /\ mem'.braked = mem.braked /\ mem'.flat = mem.flat
        /\ mem'.added = mem.added /\ mem'.comments = mem.comments
    BY <1>1, <1>2, ZenonT(40) DEF States, PRs
  <1>5. /\ hist' \in Histories /\ hist'.flat = hist.flat + 1 /\ hist'.idle = 0
        /\ hist'.pushed = hist.pushed + Pushed(p)
        /\ hist'.onces = IF cfg.once /\ ~mem.once THEN hist.onces + 1 ELSE hist.onces
        /\ hist'.lost = hist.lost /\ hist'.blind = hist.blind /\ hist'.tries = hist.tries
        /\ hist'.free = hist.free /\ hist'.given = hist.given /\ hist'.excused = hist.excused
    <2> DEFINE n == IF cfg.once /\ ~mem.once THEN hist.onces + 1 ELSE hist.onces
    <2>1. hist.flat + 1 \in Nat /\ n \in Nat /\ hist.pushed + Pushed(p) \in Nat
      BY <1>2, <1>3 DEF Histories
    <2>2. hist' = [hist EXCEPT !.flat = hist.flat + 1, !.idle = 0, !.pushed = hist.pushed + Pushed(p),
                               !.onces = n]
      BY <1>1
    <2> HIDE DEF n
    <2>3. hist' \in Histories
      BY ONLY <1>2, <2>1, <2>2 DEF Histories
    <2>4. /\ hist'.flat = hist.flat + 1 /\ hist'.idle = 0 /\ hist'.pushed = hist.pushed + Pushed(p)
          /\ hist'.onces = n /\ hist'.lost = hist.lost /\ hist'.blind = hist.blind /\ hist'.tries = hist.tries
          /\ hist'.free = hist.free /\ hist'.given = hist.given /\ hist'.excused = hist.excused
      BY ONLY <1>2, <2>2 DEF Histories
    <2> QED
      BY <2>3, <2>4 DEF n
  <1>6. Typed'
    BY <1>1, <1>2, <1>3, <1>4, <1>5 DEF Typed, PolishEnds, Does, Pcs, Actions
  <1>7. TickFits'
    BY <1>1, <1>2, <1>3 DEF IInv, TickFits, Typed, Actions, PRs, States
  <1>8. Marks'
    BY <1>1, <1>2 DEF IInv, Marks
  <1>9. TriesInv'
    BY <1>1, <1>4, <1>5 DEF IInv, TriesInv, Open
  <1>10. FlatInv'
    <2>1. /\ hist.flat \in Nat /\ hist.lost \in Nat /\ hist.blind \in Nat /\ MaxFlat \in Nat
          /\ disk.flat \in Nat /\ mem.flat \in Nat
      BY <1>2, WatcherConstants DEF States, Histories
    <2>2. /\ hist.flat < 2 * MaxFlat + hist.lost + hist.blind
          /\ hist.flat <= disk.flat + Uncounted(disk.last) + hist.lost + hist.blind
          /\ hist.flat <= mem.flat + hist.lost + hist.blind
      BY ONLY <1>1, <2>1, IInv DEF IInv, FlatInv, Acted, Uncounted
    <2>3. /\ hist'.flat <= 2 * MaxFlat + hist'.lost + hist'.blind
          /\ hist'.flat <= mem'.flat + 1 + hist'.lost + hist'.blind
      BY ONLY <1>4, <1>5, <2>1, <2>2
    <2>4. hist'.flat <= disk'.flat + Uncounted(disk'.last) + hist'.lost + hist'.blind + 1
      BY ONLY <1>1, <1>4, <1>5, <2>1, <2>2 DEF Uncounted
    <2> QED
      BY ONLY <1>1, <2>3, <2>4 DEF FlatInv, Acted, Uncounted
  <1>11. IdleInv'
    BY <1>1, <1>2, <1>4, <1>5, WatcherConstants DEF IInv, IdleInv, Acted, States, Histories
  <1>12. OnceInv'
    BY <1>1, <1>2, <1>4, <1>5 DEF IInv, OnceInv, Once, Acted, States, Histories
  <1>13. ScopeInv'
    <2>1. hist.pushed <= mem.added + hist.free /\ snap.head <= pr.head /\ snap.commits <= pr.commits
      BY <1>1 DEF IInv, ScopeInv, TickFits
    <2>2. ChargedNext' = Charged([mem' EXCEPT !.last = "polished", !.head = snap.head, !.commits = snap.commits],
                                 Worked(p))
      BY <1>1 DEF ChargedNext
    <2>3. Pushed(p) <= ChargedNext' /\ ChargedNext' \in Nat
      BY <1>2, <1>3, <1>4, <2>1, <2>2, RoundIsCharged, NextCharge DEF Actions, NoAgentRan
    <2>4. mem.added \in Nat /\ hist.free \in Nat /\ hist.pushed \in Nat
      BY <1>2 DEF States, Histories
    <2> QED
      BY <1>1, <1>3, <1>4, <1>5, <2>1, <2>3, <2>4 DEF ScopeInv
  <1>14. GivenInv'
    BY <1>1, <1>3, <1>4, <1>5 DEF IInv, GivenInv, Heeded
  <1> QED
    BY <1>6, <1>7, <1>8, <1>9, <1>10, <1>11, <1>12, <1>13, <1>14 DEF IInv

\* A polish that failed, with or without a round.
LEMMA PolishFailsInv ==
  ASSUME IInv, NEW p \in Pushes, NEW rounds \in BOOLEAN, NEW a \in {"failed", "stalled", "transient"},
         PolishFails(p, rounds, a)
  PROVE  IInv'
  <1> DEFINE i == IF rounds THEN 0 ELSE IF a = "transient" THEN mem.idle ELSE mem.idle + 1
             o == mem.once \/ (rounds /\ cfg.once)
             stalled == ~rounds /\ a # "transient" /\ i >= 2 * MaxFailures
             b == IF stalled THEN "needs_human" ELSE a
             hi == IF rounds THEN 0 ELSE IF a = "transient" THEN hist.idle ELSE hist.idle + 1
             hf == IF stalled THEN hist.free + Pushed(p) ELSE hist.free
             ho == IF rounds /\ cfg.once /\ ~mem.once THEN hist.onces + 1 ELSE hist.onces
  <1>1. /\ tick.pc = "polish" /\ pr' = Worked(p)
        /\ tick' = [pc |-> "record", action |-> b, dirty |-> tick.dirty \/ mem' # mem]
        /\ mem' = [mem EXCEPT !.idle = i, !.once = o]
        /\ hist' = [hist EXCEPT !.idle = hi, !.pushed = hist.pushed + Pushed(p), !.free = hf, !.onces = ho]
        /\ cfg' = cfg /\ disk' = disk /\ snap' = snap /\ run' = run
    BY DEF PolishFails, Does
  <1>2. Typed /\ disk \in States /\ mem \in States /\ hist \in Histories /\ snap \in PRs /\ cfg.once \in BOOLEAN
    BY WatcherConstants DEF IInv, Typed
  <1>3. /\ p \in Rounds
        /\ Worked(p) \in PRs /\ Worked(p).comments = pr.comments /\ Worked(p).state = pr.state
        /\ Worked(p).head \in {pr.head, pr.head + 1} /\ Worked(p).commits \in {pr.commits, pr.commits + 2}
        /\ Pushed(p) \in Nat
    BY <1>2, RoundFields DEF Pushes
  <1>4. /\ i \in Nat /\ o \in BOOLEAN /\ hi \in Nat /\ hist.pushed + Pushed(p) \in Nat
        /\ hf \in Nat /\ ho \in Nat /\ b \in Actions
    BY <1>2, <1>3 DEF States, Histories, Actions
  <1>5. /\ disk.idle \in Nat /\ mem.idle \in Nat /\ hist.idle \in Nat /\ hist.lost \in Nat /\ MaxFailures \in Nat \ {0}
        /\ hist.onces \in Nat /\ hist.pushed \in Nat /\ hist.free \in Nat /\ mem.added \in Nat
        /\ mem.once \in BOOLEAN /\ disk.once \in BOOLEAN
    BY <1>2, WatcherConstants DEF States, Histories
  <1>6. /\ b = "needs_human" \/ hi = 0 \/ (hi = hist.idle /\ i = mem.idle) \/ i < 2 * MaxFailures
        /\ hi = 0 \/ (hi = hist.idle /\ i = mem.idle) \/ (hi = hist.idle + 1 /\ i = mem.idle + 1)
    BY <1>5
  <1>7. /\ ho = hist.onces \/ (ho = hist.onces + 1 /\ ~mem.once /\ o)
        /\ mem.once => o
    BY <1>5
  <1>8. (b # "needs_human" /\ hf = hist.free /\ b \in Actions \ NoAgentRan) \/ (b = "needs_human" /\ hf = hist.free + Pushed(p))
    BY <1>4 DEF NoAgentRan
  <1> HIDE DEF i, o, stalled, b, hi, hf, ho
  <1>9. /\ mem' \in States /\ mem'.idle = i /\ mem'.once = o
        /\ mem'.attempts = mem.attempts /\ mem'.braked = mem.braked /\ mem'.flat = mem.flat
        /\ mem'.added = mem.added /\ mem'.comments = mem.comments
    BY <1>1, <1>2, <1>4 DEF States
  <1>10. hist' \in Histories
    BY ONLY <1>1, <1>2, <1>4 DEF Histories
  <1>11. /\ hist'.idle = hi /\ hist'.pushed = hist.pushed + Pushed(p) /\ hist'.free = hf /\ hist'.onces = ho
         /\ hist'.flat = hist.flat /\ hist'.lost = hist.lost /\ hist'.blind = hist.blind
         /\ hist'.tries = hist.tries /\ hist'.given = hist.given /\ hist'.excused = hist.excused
    BY ONLY <1>1, <1>2 DEF Histories
  <1>12. tick'.pc = "record" /\ tick'.action = b /\ tick'.dirty = (tick.dirty \/ mem' # mem)
    BY ONLY <1>1
  <1>13. Typed'
    BY <1>1, <1>2, <1>3, <1>4, <1>9, <1>10, <1>12 DEF Typed, Pcs
  <1>14. TickFits'
    BY <1>1, <1>2, <1>3, <1>4, <1>12 DEF IInv, TickFits, Typed, PRs, States
  <1>15. Marks'
    BY <1>1, <1>12 DEF IInv, Marks
  <1>16. TriesInv'
    BY <1>1, <1>9, <1>11, <1>12 DEF IInv, TriesInv, Open
  <1>17. FlatInv'
    <2>1. /\ hist.flat \in Nat /\ hist.lost \in Nat /\ hist.blind \in Nat /\ MaxFlat \in Nat
          /\ disk.flat \in Nat /\ mem.flat \in Nat
      BY <1>2, WatcherConstants DEF States, Histories
    <2>2. /\ hist.flat <= 2 * MaxFlat + hist.lost + hist.blind
          /\ hist.flat <= disk.flat + Uncounted(disk.last) + hist.lost + hist.blind
          /\ hist.flat <= mem.flat + hist.lost + hist.blind
      BY ONLY <1>1, <2>1, IInv DEF IInv, FlatInv, Acted, Uncounted
    <2>3. hist'.flat <= mem'.flat + Uncounted(tick'.action) + hist'.lost + hist'.blind
      BY ONLY <1>9, <1>11, <2>1, <2>2 DEF Uncounted
    <2>4. hist'.flat <= disk'.flat + Uncounted(disk'.last) + hist'.lost + hist'.blind + 1
      BY ONLY <1>1, <1>11, <2>1, <2>2 DEF Uncounted
    <2>5. hist'.flat <= 2 * MaxFlat + hist'.lost + hist'.blind
      BY ONLY <1>11, <2>2
    <2> QED
      BY ONLY <1>12, <2>3, <2>4, <2>5 DEF FlatInv, Acted
  <1>18. IdleInv'
    <2>1. /\ hist.idle <= 2 * MaxFailures + hist.lost /\ hist.idle <= disk.idle + hist.lost
          /\ hist.idle <= mem.idle + hist.lost
          /\ hist.idle <= hist.lost \/ mem.idle < 2 * MaxFailures
          /\ run = "on" => \/ hist.idle <= hist.lost
                           \/ disk.idle < 2 * MaxFailures /\ disk.last # "needs_human"
      BY ONLY <1>1, <1>5, IInv DEF IInv, IdleInv, Acted
    <2>2. /\ hi <= 2 * MaxFailures + hist.lost /\ hi <= disk.idle + hist.lost + 1 /\ hi <= i + hist.lost
          /\ run = "on" => \/ hi <= hist.lost + 1
                           \/ disk.idle < 2 * MaxFailures /\ disk.last # "needs_human"
      BY ONLY <1>4, <1>5, <1>6, <2>1
    <2>3. hi <= hist.lost \/ i < 2 * MaxFailures \/ b = "needs_human"
      BY ONLY <1>4, <1>5, <1>6, <2>1
    <2> QED
      BY ONLY <1>1, <1>9, <1>11, <1>12, <2>2, <2>3 DEF IdleInv, Acted
  <1>19. OnceInv'
    BY <1>1, <1>5, <1>7, <1>9, <1>11, <1>12 DEF IInv, OnceInv, Once, Acted
  <1>20. ScopeInv'
    <2>1. hist.pushed <= mem.added + hist.free /\ snap.head <= pr.head /\ snap.commits <= pr.commits
      BY <1>1 DEF IInv, ScopeInv, TickFits
    <2>2. ChargedNext' = Charged([mem' EXCEPT !.last = b, !.head = snap.head, !.commits = snap.commits], Worked(p))
      BY <1>1, <1>12 DEF ChargedNext
    <2>3. ChargedNext' \in Nat
      BY <1>2, <1>3, <1>4, <1>9, <2>2, NextCharge
    <2>4. b # "needs_human" => Pushed(p) <= ChargedNext'
      BY <1>2, <1>3, <1>8, <1>9, <2>1, <2>2, RoundIsCharged
    <2> QED
      BY <1>3, <1>5, <1>8, <1>9, <1>11, <1>12, <2>1, <2>3, <2>4 DEF ScopeInv
  <1>21. GivenInv'
    BY <1>1, <1>3, <1>9, <1>11, <1>12 DEF IInv, GivenInv, Heeded
  <1> QED
    BY <1>13, <1>14, <1>15, <1>16, <1>17, <1>18, <1>19, <1>20, <1>21 DEF IInv

\* An attempt to merge, whatever became of it.
LEMMA MergeInv ==
  ASSUME IInv, Merge
  PROVE  IInv'
  <1>1. /\ tick.pc = "merge"
        /\ pr' \in {pr, [pr EXCEPT !.armed = TRUE], [pr EXCEPT !.state = "merged"]}
        /\ mem' \in {[mem EXCEPT !.mergeErr = FALSE], [mem EXCEPT !.mergeErr = TRUE]}
        /\ \/ tick'.pc = "record" /\ tick'.action \in {"armed", "merged"}
           \/ tick'.pc = "rework" /\ tick'.action = tick.action
        /\ tick' \in [pc : Pcs, action : Actions \union {"merge", "polish", "lost"}, dirty : BOOLEAN]
        /\ tick.dirty => tick'.dirty
        /\ cfg' = cfg /\ disk' = disk /\ snap' = snap /\ run' = run /\ hist' = hist
    <2>1. /\ tick \in [pc : Pcs, action : Actions \union {"merge", "polish", "lost"}, dirty : BOOLEAN]
      BY DEF IInv, Typed
    <2>2. /\ tick.pc = "merge"
          /\ pr' \in {pr, [pr EXCEPT !.armed = TRUE], [pr EXCEPT !.state = "merged"]}
          /\ cfg' = cfg /\ disk' = disk /\ snap' = snap /\ run' = run /\ hist' = hist
      BY DEF Merge
    <2>3. \/ tick' = [tick EXCEPT !.pc = "rework"] /\ mem' = Failed(mem)
          \/ \E a \in {"armed", "merged"} : Does(a, [mem EXCEPT !.mergeErr = FALSE], TRUE)
      BY DEF Merge
    <2>4. CASE tick' = [tick EXCEPT !.pc = "rework"] /\ mem' = Failed(mem)
      BY <2>1, <2>2, <2>4 DEF Failed, Pcs
    <2>5. CASE \E a \in {"armed", "merged"} : Does(a, [mem EXCEPT !.mergeErr = FALSE], TRUE)
      BY <2>1, <2>2, <2>5 DEF Does, Pcs, Actions
    <2> QED
      BY <2>3, <2>4, <2>5
  <1>2. Typed /\ disk \in States /\ mem \in States /\ hist \in Histories /\ snap \in PRs /\ pr \in PRs /\ tick.dirty
    BY <1>1 DEF IInv, Typed, TickFits
  <1>3. /\ pr' \in PRs /\ pr'.head = pr.head /\ pr'.commits = pr.commits /\ pr'.comments = pr.comments
        /\ pr'.state \in {pr.state, "merged"}
    BY <1>1, <1>2, ZenonT(40) DEF PRs
  <1>4. /\ mem' \in States /\ mem'.idle = mem.idle /\ mem'.once = mem.once
        /\ mem'.attempts = mem.attempts /\ mem'.braked = mem.braked /\ mem'.flat = mem.flat
        /\ mem'.added = mem.added /\ mem'.comments = mem.comments
    BY <1>1, <1>2, ZenonT(40) DEF States
  <1>5. Typed'
    BY <1>1, <1>2, <1>3, <1>4 DEF Typed
  <1>6. TickFits'
    BY <1>1, <1>2, <1>3 DEF IInv, TickFits, Actions
  <1>7. Marks'
    BY <1>1, <1>2 DEF Marks
  <1>8. TriesInv'
    BY <1>1, <1>4 DEF IInv, TriesInv, Open
  <1>9. FlatInv'
    BY <1>1, <1>2, <1>4 DEF IInv, FlatInv, Acted, Uncounted, States, Histories
  <1>10. IdleInv'
    BY <1>1, <1>2, <1>4 DEF IInv, IdleInv, Acted, States, Histories
  <1>11. OnceInv'
    BY <1>1, <1>2, <1>4 DEF IInv, OnceInv, Once, Acted, Histories
  <1>12. ScopeInv'
    <2>1. hist.pushed <= mem.added + hist.free
      BY <1>1 DEF IInv, ScopeInv
    <2>2. tick'.pc = "record" => ChargedNext' \in Nat
      BY <1>1, <1>2, <1>3, <1>4, NextCharge DEF ChargedNext, Actions
    <2>3. mem.added \in Nat /\ hist.free \in Nat /\ hist.pushed \in Nat
      BY <1>2 DEF States, Histories
    <2> QED
      BY ONLY <1>1, <1>4, <2>1, <2>2, <2>3 DEF ScopeInv
  <1>13. GivenInv'
    BY <1>1, <1>2, <1>3, <1>4 DEF IInv, GivenInv, Heeded, PRs
  <1> QED
    BY <1>5, <1>6, <1>7, <1>8, <1>9, <1>10, <1>11, <1>12, <1>13 DEF IInv

\* A round after a failed merge, or none.
LEMMA ReworkInv ==
  ASSUME IInv, Rework
  PROVE  IInv'
  <1>1. /\ tick.pc = "rework"
        /\ mem' = mem /\ cfg' = cfg /\ disk' = disk /\ snap' = snap /\ run' = run
        /\ \E a \in {"reworked", "failed", "stalled", "transient"} :
              tick' = [pc |-> "record", action |-> a, dirty |-> TRUE]
    BY DEF Rework, Does
  <1>2. \/ pr' = pr /\ hist' = hist
        \/ \E p \in Rounds : pr' = Worked(p) /\ hist' = [hist EXCEPT !.pushed = @ + Pushed(p)]
    BY DEF Rework
  <1>3. Typed /\ disk \in States /\ mem \in States /\ hist \in Histories /\ snap \in PRs /\ pr \in PRs
    BY DEF IInv, Typed
  <1>4. tick'.pc = "record" /\ tick'.action \in Actions \ NoAgentRan /\ tick'.action # "polished" /\ tick'.dirty
    BY <1>1 DEF Actions, NoAgentRan
  <1>5. /\ hist.pushed <= mem.added + hist.free /\ snap.head <= pr.head /\ snap.commits <= pr.commits
        /\ mem.added \in Nat /\ hist.free \in Nat /\ hist.pushed \in Nat
    BY <1>1, <1>3 DEF IInv, ScopeInv, TickFits, States, Histories
  <1>6. /\ pr' \in PRs /\ pr'.comments = pr.comments /\ pr'.state = pr.state
        /\ pr'.head \in {pr.head, pr.head + 1} /\ pr'.commits \in {pr.commits, pr.commits + 2}
        /\ hist' \in Histories /\ hist' = [hist EXCEPT !.pushed = hist'.pushed]
        /\ ChargedNext' \in Nat
        /\ hist'.pushed <= mem.added + hist.free + ChargedNext'
    <2>1. CASE pr' = pr /\ hist' = hist
      <3>1. ChargedNext' \in Nat
        BY <1>1, <1>3, <1>4, <2>1, NextCharge DEF ChargedNext
      <3> QED
        BY <1>3, <1>5, <2>1, <3>1 DEF Histories
    <2>2. ASSUME NEW p \in Rounds, pr' = Worked(p), hist' = [hist EXCEPT !.pushed = @ + Pushed(p)]
          PROVE  /\ pr' \in PRs /\ pr'.comments = pr.comments /\ pr'.state = pr.state
                 /\ pr'.head \in {pr.head, pr.head + 1} /\ pr'.commits \in {pr.commits, pr.commits + 2}
                 /\ hist' \in Histories /\ hist' = [hist EXCEPT !.pushed = hist'.pushed]
                 /\ ChargedNext' \in Nat
                 /\ hist'.pushed <= mem.added + hist.free + ChargedNext'
      <3>1. /\ Worked(p) \in PRs /\ Worked(p).comments = pr.comments /\ Worked(p).state = pr.state
            /\ Worked(p).head \in {pr.head, pr.head + 1} /\ Worked(p).commits \in {pr.commits, pr.commits + 2}
            /\ Pushed(p) \in Nat
        BY <1>3, RoundFields
      <3>2. /\ hist' \in Histories /\ hist' = [hist EXCEPT !.pushed = hist'.pushed]
            /\ hist'.pushed = hist.pushed + Pushed(p)
        BY <1>3, <2>2, <3>1 DEF Histories
      <3>3. ChargedNext' = Charged([mem EXCEPT !.last = tick'.action, !.head = snap.head,
                                               !.commits = snap.commits], Worked(p))
        BY <1>1, <2>2 DEF ChargedNext
      <3>4. ChargedNext' \in Nat /\ Pushed(p) <= ChargedNext'
        BY <1>3, <1>4, <1>5, <3>1, <3>3, RoundIsCharged, NextCharge
      <3> QED
        BY <1>5, <2>2, <3>1, <3>2, <3>4
    <2> QED
      BY <1>2, <2>1, <2>2
  <1>7. /\ hist'.idle = hist.idle /\ hist'.onces = hist.onces /\ hist'.free = hist.free
        /\ hist'.flat = hist.flat /\ hist'.lost = hist.lost /\ hist'.blind = hist.blind
        /\ hist'.tries = hist.tries /\ hist'.given = hist.given /\ hist'.excused = hist.excused
    BY ONLY <1>3, <1>6 DEF Histories
  <1>8. Typed'
    BY <1>1, <1>3, <1>6 DEF Typed, Pcs, Actions
  <1>9. TickFits'
    BY <1>1, <1>3, <1>4, <1>6 DEF IInv, TickFits, PRs, States
  <1>10. Marks'
    BY <1>4 DEF Marks
  <1>11. TriesInv'
    BY <1>1, <1>4, <1>7 DEF IInv, TriesInv, Open
  <1>12. FlatInv'
    BY <1>1, <1>3, <1>4, <1>7 DEF IInv, FlatInv, Acted, Uncounted, States, Histories
  <1>13. IdleInv'
    BY <1>1, <1>3, <1>4, <1>7 DEF IInv, IdleInv, Acted, States, Histories, NoAgentRan
  <1>14. OnceInv'
    BY <1>1, <1>3, <1>4, <1>7 DEF IInv, OnceInv, Once, Acted, Histories
  <1>15. ScopeInv'
    BY <1>1, <1>4, <1>6, <1>7 DEF ScopeInv
  <1>16. GivenInv'
    BY <1>1, <1>4, <1>6, <1>7 DEF IInv, GivenInv, Heeded
  <1> QED
    BY <1>8, <1>9, <1>10, <1>11, <1>12, <1>13, <1>14, <1>15, <1>16 DEF IInv

\* The end of a tick, saved or not.
LEMMA RecordInv ==
  ASSUME IInv, Record
  PROVE  IInv'
  <1> DEFINE a == tick.action
             m == Recorded(mem, a)
  <1>1. /\ tick.pc = "record" /\ mem' = m /\ cfg' = cfg /\ pr' = pr /\ snap' = snap
        /\ tick'.pc = "idle"
    BY DEF Record, IInv, Typed
  <1>2. /\ Typed /\ disk \in States /\ mem \in States /\ hist \in Histories /\ snap \in PRs /\ pr \in PRs
        /\ a \in Actions /\ run = "on" /\ disk.head <= pr.head /\ snap.head <= pr.head
        /\ tick \in [pc : Pcs, action : Actions \union {"merge", "polish", "lost"}, dirty : BOOLEAN]
    BY <1>1 DEF IInv, Typed, TickFits
  <1>3. /\ m \in States /\ m.flat = mem.flat /\ m.idle = mem.idle /\ m.added = mem.added /\ m.once = mem.once
        /\ m.attempts = mem.attempts /\ m.head = snap.head /\ m.commits = snap.commits /\ m.last = a
        /\ m.comments = mem.comments \union snap.comments
        /\ m.braked \in {mem.braked, mem.attempts}
        /\ ~m.cooldown => m.braked = mem.braked
        /\ ~m.cooldown /\ a \notin Ends => mem.attempts - mem.braked < MaxFailures
    BY <1>2, RecordedFields
  <1>4. /\ disk.idle \in Nat /\ mem.idle \in Nat /\ hist.idle \in Nat /\ hist.lost \in Nat /\ MaxFailures \in Nat \ {0}
        /\ hist.onces \in Nat /\ hist.pushed \in Nat /\ hist.free \in Nat /\ mem.added \in Nat /\ hist.tries \in Nat
        /\ mem.attempts \in Nat /\ mem.braked \in Nat /\ disk.attempts \in Nat /\ disk.braked \in Nat
        /\ hist.flat \in Nat /\ hist.blind \in Nat /\ disk.flat \in Nat /\ mem.flat \in Nat /\ MaxFlat \in Nat
        /\ disk.added \in Nat
    BY <1>2, WatcherConstants DEF States, Histories
  <1>5. mem.braked <= mem.attempts /\ disk.braked <= disk.attempts
    BY DEF IInv, TriesInv
  <1>6. \/ /\ disk' = IF tick.dirty \/ RecordDirty(mem, a) THEN m ELSE disk
           /\ run' = IF a \in Ends THEN a ELSE run
           /\ hist' = [hist EXCEPT !.tries = IF m.cooldown THEN 0 ELSE @]
           /\ tick' = [tick EXCEPT !.pc = "idle"]
        \/ /\ hist' = [hist EXCEPT !.lost = @ + 1, !.free = hist.pushed]
           /\ tick' = [tick EXCEPT !.pc = "idle", !.action = "lost"]
           /\ disk' = disk /\ run' = run
    BY DEF Record
  <1> HIDE DEF m
  <1>7. CASE /\ disk' = IF tick.dirty \/ RecordDirty(mem, a) THEN m ELSE disk
             /\ run' = IF a \in Ends THEN a ELSE run
             /\ hist' = [hist EXCEPT !.tries = IF m.cooldown THEN 0 ELSE @]
             /\ tick' = [tick EXCEPT !.pc = "idle"]
    <2>1. disk' = m
      <3>1. CASE ~tick.dirty /\ ~RecordDirty(mem, a)
        BY <1>1, <1>2, <1>7, <3>1, RecordMarked DEF IInv, Marks, m
      <3> QED
        BY <1>7, <3>1
    <2>2. /\ hist' \in Histories /\ hist'.lost = hist.lost /\ hist'.blind = hist.blind /\ hist'.flat = hist.flat
          /\ hist'.idle = hist.idle /\ hist'.onces = hist.onces /\ hist'.pushed = hist.pushed
          /\ hist'.free = hist.free /\ hist'.given = hist.given /\ hist'.excused = hist.excused
          /\ hist'.tries = IF m.cooldown THEN 0 ELSE hist.tries
      BY ONLY <1>2, <1>7 DEF Histories
    <2>3. Typed'
      BY <1>1, <1>2, <1>3, <1>7, <2>1, <2>2 DEF Typed, Pcs, Ends
    <2>4. TickFits'
      BY <1>1, <1>2, <1>3, <2>1 DEF IInv, TickFits
    <2>5. Marks'
      BY <1>1, <1>3, <2>1 DEF Marks, States
    <2>6. TriesInv'
      <3>1. /\ hist.tries <= MaxFailures + hist.lost /\ hist.tries + mem.braked <= mem.attempts + hist.lost
        BY <1>1 DEF IInv, TriesInv
      <3>2. run' = "on" => a \notin Ends
        BY <1>7 DEF Ends
      <3> QED
        BY ONLY <1>1, <1>3, <1>4, <1>5, <2>1, <2>2, <3>1, <3>2 DEF TriesInv, Open
    <2>7. FlatInv'
      <3>1. /\ hist.flat <= 2 * MaxFlat + hist.lost + hist.blind
            /\ hist.flat <= mem.flat + Uncounted(a) + hist.lost + hist.blind
        BY <1>1 DEF IInv, FlatInv
      <3>2. Uncounted(a) \in Nat
        BY DEF Uncounted
      <3> QED
        BY ONLY <1>1, <1>3, <1>4, <2>1, <2>2, <3>1, <3>2 DEF FlatInv, Acted
    <2>8. IdleInv'
      <3>1. /\ hist.idle <= 2 * MaxFailures + hist.lost /\ hist.idle <= mem.idle + hist.lost
            /\ hist.idle <= hist.lost \/ mem.idle < 2 * MaxFailures \/ a = "needs_human"
        BY <1>1 DEF IInv, IdleInv
      <3>2. run' = "on" => a # "needs_human"
        BY <1>7 DEF Ends
      <3> QED
        BY ONLY <1>1, <1>3, <1>4, <2>1, <2>2, <3>1, <3>2 DEF IdleInv, Acted
    <2>9. OnceInv'
      <3>1. hist.onces <= Once(mem) + hist.lost
        BY <1>1 DEF IInv, OnceInv
      <3>2. Once(m) = Once(mem) /\ Once(m) \in Nat
        BY <1>3 DEF Once
      <3> QED
        BY ONLY <1>1, <1>4, <2>1, <2>2, <3>1, <3>2 DEF OnceInv, Acted
    <2>10. ScopeInv'
      <3>1. hist.pushed <= mem.added + hist.free + ChargedNext
        BY <1>1 DEF IInv, ScopeInv
      <3>2. ChargedNext = Charged(m, pr)
        <4>1. /\ [mem EXCEPT !.last = tick.action, !.head = snap.head, !.commits = snap.commits].last = a
              /\ [mem EXCEPT !.last = tick.action, !.head = snap.head, !.commits = snap.commits].head = snap.head
              /\ [mem EXCEPT !.last = tick.action, !.head = snap.head,
                             !.commits = snap.commits].commits = snap.commits
          BY <1>2 DEF States
        <4> QED
          BY ONLY <1>3, <4>1 DEF ChargedNext, Charged
      <3> QED
        BY <1>1, <1>3, <2>1, <2>2, <3>1, <3>2 DEF ScopeInv
    <2>11. GivenInv'
      BY <1>1, <1>3, <2>1, <2>2 DEF IInv, GivenInv, TickFits, Heeded
    <2> QED
      BY <2>3, <2>4, <2>5, <2>6, <2>7, <2>8, <2>9, <2>10, <2>11 DEF IInv
  <1>8. CASE /\ hist' = [hist EXCEPT !.lost = @ + 1, !.free = hist.pushed]
             /\ tick' = [tick EXCEPT !.pc = "idle", !.action = "lost"]
             /\ disk' = disk /\ run' = run
    <2>1. /\ hist' \in Histories /\ hist'.lost = hist.lost + 1 /\ hist'.blind = hist.blind
          /\ hist'.flat = hist.flat /\ hist'.tries = hist.tries
          /\ hist'.idle = hist.idle /\ hist'.onces = hist.onces /\ hist'.pushed = hist.pushed
          /\ hist'.free = hist.pushed /\ hist'.given = hist.given /\ hist'.excused = hist.excused
      <3>1. hist.lost + 1 \in Nat /\ hist.pushed \in Nat
        BY <1>4
      <3>2. hist' \in Histories
        BY ONLY <1>2, <1>8, <3>1 DEF Histories
      <3> QED
        BY ONLY <1>2, <1>8, <3>2 DEF Histories
    <2>2. Typed'
      BY <1>1, <1>2, <1>3, <1>8, <2>1 DEF Typed, Pcs
    <2>3. TickFits'
      BY <1>1, <1>2, <1>8 DEF IInv, TickFits
    <2>4. Marks'
      BY <1>1, <1>2, <1>8 DEF Marks
    <2>5. TriesInv'
      <3>1. /\ hist.tries <= MaxFailures + hist.lost /\ hist.tries + disk.braked <= disk.attempts + hist.lost + 1
            /\ hist.tries <= hist.lost + 1 \/ disk.attempts < disk.braked + MaxFailures
        BY <1>1, <1>2 DEF IInv, TriesInv, Open
      <3> QED
        BY ONLY <1>1, <1>3, <1>4, <1>5, <1>8, <2>1, <3>1 DEF TriesInv, Open
    <2>6. FlatInv'
      <3>1. /\ hist.flat <= 2 * MaxFlat + hist.lost + hist.blind
            /\ hist.flat <= disk.flat + Uncounted(disk.last) + hist.lost + hist.blind + 1
        BY <1>1 DEF IInv, FlatInv, Acted
      <3>2. Uncounted(disk.last) \in Nat
        BY DEF Uncounted
      <3> QED
        BY ONLY <1>1, <1>4, <1>8, <2>1, <3>1, <3>2 DEF FlatInv, Acted
    <2>7. IdleInv'
      <3>1. /\ hist.idle <= 2 * MaxFailures + hist.lost /\ hist.idle <= disk.idle + hist.lost + 1
            /\ \/ hist.idle <= hist.lost + 1
               \/ disk.idle < 2 * MaxFailures /\ disk.last # "needs_human"
        BY ONLY <1>1, <1>2, <1>4, IInv DEF IInv, IdleInv, Acted
      <3> QED
        BY ONLY <1>1, <1>4, <1>8, <2>1, <3>1 DEF IdleInv, Acted
    <2>8. OnceInv'
      <3>1. hist.onces <= Once(disk) + hist.lost + 1 /\ Once(disk) \in Nat
        BY <1>1 DEF IInv, OnceInv, Acted, Once
      <3> QED
        BY ONLY <1>1, <1>4, <1>8, <2>1, <3>1 DEF OnceInv, Acted
    <2>9. ScopeInv'
      <3>1. Charged(disk, pr) \in Nat
        BY <1>2, ChargedType
      <3> QED
        BY <1>1, <1>4, <1>8, <2>1, <3>1 DEF ScopeInv
    <2>10. GivenInv'
      BY <1>1, <1>8, <2>1 DEF IInv, GivenInv, Heeded
    <2> QED
      BY <2>2, <2>3, <2>4, <2>5, <2>6, <2>7, <2>8, <2>9, <2>10 DEF IInv
  <1> QED
    BY <1>6, <1>7, <1>8

\* A cooldown that ends.
LEMMA CooldownInv ==
  ASSUME IInv, CooldownExpires
  PROVE  IInv'
  <1>1. /\ disk.cooldown /\ tick.pc = "idle" /\ disk' = [disk EXCEPT !.cooldown = FALSE]
        /\ UNCHANGED <<cfg, pr, mem, snap, tick, run, hist>>
    BY DEF CooldownExpires
  <1>2. /\ disk \in States /\ mem \in States
    BY DEF IInv, Typed
  <1>3. /\ disk' \in States /\ disk'.head = disk.head /\ disk'.flat = disk.flat /\ disk'.idle = disk.idle
        /\ disk'.once = disk.once /\ disk'.attempts = disk.attempts /\ disk'.braked = disk.braked
        /\ disk'.last = disk.last /\ disk'.added = disk.added /\ disk'.comments = disk.comments
        /\ disk'.commits = disk.commits
        /\ [disk' EXCEPT !.cooldown = mem.cooldown] = [disk EXCEPT !.cooldown = mem.cooldown]
    BY <1>1, <1>2 DEF States
  <1>4. Charged(disk', pr) = Charged(disk, pr)
    BY <1>3 DEF Charged
  <1> QED
    BY <1>1, <1>3, <1>4 DEF IInv, Typed, TickFits, Marks, TriesInv, FlatInv, IdleInv, OnceInv, ScopeInv, GivenInv,
       Open, Acted, Once, Heeded

\* A run started again.
LEMMA ResumeInv ==
  ASSUME IInv, Resume
  PROVE  IInv'
  <1>1. /\ run = "needs_human" /\ run' = "on" /\ hist' = [hist EXCEPT !.tries = 0, !.idle = 0]
        /\ cfg' = cfg /\ pr' = pr /\ disk' = disk /\ mem' = mem /\ snap' = snap /\ tick' = tick
    BY DEF Resume
  <1>2. Typed /\ disk \in States /\ mem \in States /\ hist \in Histories /\ tick.pc = "idle"
    BY <1>1 DEF IInv, Typed, TickFits
  <1>3. /\ hist' \in Histories /\ hist'.tries = 0 /\ hist'.idle = 0 /\ hist'.lost = hist.lost
        /\ hist'.blind = hist.blind /\ hist'.flat = hist.flat /\ hist'.onces = hist.onces
        /\ hist'.pushed = hist.pushed /\ hist'.free = hist.free /\ hist'.given = hist.given
        /\ hist'.excused = hist.excused
    BY <1>1, <1>2 DEF Histories
  <1>4. /\ hist.lost \in Nat /\ MaxFailures \in Nat /\ disk.idle \in Nat /\ disk.attempts \in Nat
        /\ disk.braked \in Nat /\ disk.braked <= disk.attempts
    BY <1>2, WatcherConstants DEF States, Histories, IInv, TriesInv
  <1>5. Typed' /\ TickFits' /\ Marks'
    BY <1>1, <1>2, <1>3 DEF IInv, Typed, TickFits, Marks
  <1>6. TriesInv' /\ IdleInv'
    <2>1. mem.braked <= mem.attempts
      BY DEF IInv, TriesInv
    <2> QED
      BY ONLY <1>1, <1>2, <1>3, <1>4, <2>1 DEF TriesInv, IdleInv, Open, Acted
  <1>7. FlatInv' /\ OnceInv' /\ ScopeInv' /\ GivenInv'
    BY <1>1, <1>2, <1>3 DEF IInv, FlatInv, OnceInv, ScopeInv, GivenInv, Acted, Once, Heeded
  <1> QED
    BY <1>5, <1>6, <1>7 DEF IInv

\* What the rest of the world can do to the pull request.
Grown(p) ==
    /\ p \in PRs /\ IsFiniteSet(p.comments)
    /\ pr.head <= p.head /\ pr.commits <= p.commits
    /\ p.head = pr.head => p.commits = pr.commits

LEMMA QueueGrows ==
  ASSUME Typed, NEW b \in BOOLEAN, NEW s \in {"open", "merged"}
  PROVE  Grown([pr EXCEPT !.armed = b, !.state = s])
  <1> DEFINE p == [pr EXCEPT !.armed = b]  q == [p EXCEPT !.state = s]
  <1>1. pr \in PRs /\ IsFiniteSet(pr.comments)
    BY DEF Typed
  <1>2. p \in PRs /\ p.comments = pr.comments /\ p.head = pr.head /\ p.commits = pr.commits
    BY <1>1 DEF PRs
  <1> HIDE DEF p
  <1>3. q \in PRs /\ q.comments = p.comments /\ q.head = p.head /\ q.commits = p.commits
    BY <1>2 DEF PRs
  <1>4. q = [pr EXCEPT !.armed = b, !.state = s]
    BY DEF p
  <1> HIDE DEF q
  <1>5. pr.head \in Nat /\ pr.commits \in Nat
    BY <1>1 DEF PRs
  <1>6. Grown(q)
    BY ONLY <1>1, <1>2, <1>3, <1>5 DEF Grown
  <1> QED
    BY <1>4, <1>6

LEMMA CommentGrows ==
  ASSUME Typed
  PROVE  Grown([pr EXCEPT !.comments = pr.comments \union {Cardinality(pr.comments) + 1}, !.threads = 1])
  <1> DEFINE c == pr.comments \union {Cardinality(pr.comments) + 1}
  <1>1. pr \in PRs /\ IsFiniteSet(pr.comments) /\ pr.comments \subseteq Nat
    BY DEF Typed, PRs
  <1>2. Cardinality(pr.comments) + 1 \in Nat
    BY <1>1, FS_CardinalityType
  <1>3. c \in SUBSET Nat /\ IsFiniteSet(c)
    BY <1>1, <1>2, FS_AddElement
  <1> HIDE DEF c
  <1>4. 1 \in 0..1
    OBVIOUS
  <1> DEFINE p == [pr EXCEPT !.comments = c]  q == [p EXCEPT !.threads = 1]
  <1>5. p \in PRs /\ p.comments = c /\ p.head = pr.head /\ p.commits = pr.commits
    BY ONLY <1>1, <1>3 DEF PRs
  <1>6. q = [pr EXCEPT !.comments = c, !.threads = 1]
    OBVIOUS
  <1> HIDE DEF p
  <1>7. q \in PRs /\ q.comments = p.comments /\ q.head = p.head /\ q.commits = p.commits
    BY ONLY <1>4, <1>5 DEF PRs
  <1> HIDE DEF q
  <1>8. pr.head \in Nat /\ pr.commits \in Nat
    BY <1>1 DEF PRs
  <1>9. Grown(q)
    BY ONLY <1>3, <1>5, <1>7, <1>8 DEF Grown
  <1> QED
    BY <1>6, <1>9 DEF c

LEMMA PushGrows ==
  ASSUME Typed
  PROVE  Grown([pr EXCEPT !.head = pr.head + 1, !.commits = pr.commits + 1])
  <1>1. pr \in PRs /\ IsFiniteSet(pr.comments)
    BY DEF Typed
  <1>2. pr.head + 1 \in Nat \ {0} /\ pr.commits + 1 \in Nat /\ pr.head <= pr.head + 1
        /\ pr.commits <= pr.commits + 1 /\ pr.head + 1 # pr.head
    BY <1>1 DEF PRs
  <1> QED
    BY ONLY <1>1, <1>2 DEF Grown, PRs

LEMMA TouchGrows ==
  ASSUME Typed, NEW b \in BOOLEAN, NEW r \in {"ok", "required", "changes"}
  PROVE  /\ Grown([pr EXCEPT !.red = b]) /\ Grown([pr EXCEPT !.review = r])
         /\ Grown([pr EXCEPT !.base = pr.base + 1]) /\ Grown([pr EXCEPT !.conflict = b])
         /\ Grown([pr EXCEPT !.state = "closed"])
  <1>1. pr \in PRs /\ IsFiniteSet(pr.comments) /\ pr.base + 1 \in Nat
    BY DEF Typed, PRs
  <1>2. Grown([pr EXCEPT !.red = b])
    BY <1>1 DEF Grown, PRs
  <1>3. Grown([pr EXCEPT !.review = r])
    BY <1>1 DEF Grown, PRs
  <1>4. Grown([pr EXCEPT !.base = pr.base + 1])
    BY ONLY <1>1 DEF Grown, PRs
  <1>5. Grown([pr EXCEPT !.conflict = b])
    BY <1>1 DEF Grown, PRs
  <1>6. Grown([pr EXCEPT !.state = "closed"])
    BY <1>1 DEF Grown, PRs
  <1> QED
    BY <1>2, <1>3, <1>4, <1>5, <1>6

LEMMA WorldFields ==
  ASSUME Typed, QueueActs \/ \E e \in DOMAIN Edits : Edit(e)
  PROVE  Grown(pr') /\ pr.state = "open" /\ UNCHANGED <<cfg, disk, mem, snap, tick, run, hist>>
  <1>1. CASE QueueActs
    <2>1. \/ pr' = [pr EXCEPT !.armed = FALSE, !.state = "merged"]
          \/ pr' = [pr EXCEPT !.armed = FALSE]
      BY <1>1 DEF QueueActs
    <2>2. [pr EXCEPT !.armed = FALSE] = [pr EXCEPT !.armed = FALSE, !.state = "open"]
      BY <1>1 DEF QueueActs, Typed, PRs
    <2>3. Grown(pr')
      BY <2>1, <2>2, QueueGrows
    <2> QED
      BY <1>1, <2>3 DEF QueueActs
  <1>2. ASSUME NEW e \in DOMAIN Edits, Edit(e)
        PROVE  Grown(pr') /\ pr.state = "open" /\ UNCHANGED <<cfg, disk, mem, snap, tick, run, hist>>
    <2>1. pr' = Edits[e] /\ pr.state = "open" /\ UNCHANGED <<cfg, disk, mem, snap, tick, run, hist>>
      BY <1>2 DEF Edit
    <2>2. e \in {"comment", "push", "redden", "green", "changes", "require", "approve", "base", "collide", "close"}
      BY DEF Edits
    <2>3. /\ Edits["comment"] = [pr EXCEPT !.comments = pr.comments \union {Cardinality(pr.comments) + 1}, !.threads = 1]
          /\ Edits["push"] = [pr EXCEPT !.head = pr.head + 1, !.commits = pr.commits + 1]
      BY DEF Edits, Typed, PRs
    <2>4. /\ Edits["redden"] = [pr EXCEPT !.red = TRUE] /\ Edits["green"] = [pr EXCEPT !.red = FALSE]
          /\ Edits["changes"] = [pr EXCEPT !.review = "changes"]
          /\ Edits["require"] = [pr EXCEPT !.review = "required"]
          /\ Edits["approve"] = [pr EXCEPT !.review = "ok"]
          /\ Edits["collide"] = [pr EXCEPT !.conflict = TRUE] /\ Edits["close"] = [pr EXCEPT !.state = "closed"]
      BY DEF Edits
    <2>5. Edits["base"] = [pr EXCEPT !.base = pr.base + 1]
      BY DEF Edits, Typed, PRs
    <2>6. Grown(Edits["comment"]) /\ Grown(Edits["push"])
      BY <2>3, CommentGrows, PushGrows
    <2>7. /\ Grown([pr EXCEPT !.red = TRUE]) /\ Grown([pr EXCEPT !.red = FALSE])
          /\ Grown([pr EXCEPT !.conflict = TRUE]) /\ Grown([pr EXCEPT !.state = "closed"])
          /\ Grown([pr EXCEPT !.base = pr.base + 1])
      BY TouchGrows
    <2>8. \A r \in {"ok", "required", "changes"} : Grown([pr EXCEPT !.review = r])
      BY TouchGrows
    <2>9. Grown(Edits[e])
      BY ONLY <2>2, <2>4, <2>5, <2>6, <2>7, <2>8
    <2> QED
      BY <2>1, <2>9
  <1> QED
    BY <1>1, <1>2

\* What has been pushed is charged at least as much when the branch has grown.
LEMMA ChargedGrows ==
  ASSUME NEW m \in States, NEW p \in PRs, NEW q \in PRs, m.head <= p.head, p.head <= q.head,
         p.commits <= q.commits, q.head = p.head => q.commits = p.commits
  PROVE  Charged(m, p) <= Charged(m, q)
  BY DEF Charged, States, PRs

LEMMA WorldInv ==
  ASSUME IInv, QueueActs \/ \E e \in DOMAIN Edits : Edit(e)
  PROVE  IInv'
  <1>1. /\ pr' \in PRs /\ IsFiniteSet(pr'.comments)
        /\ pr.head <= pr'.head /\ pr.commits <= pr'.commits
        /\ pr'.head = pr.head => pr'.commits = pr.commits
        /\ pr.state = "open"
        /\ UNCHANGED <<cfg, disk, mem, snap, tick, run, hist>>
    BY WorldFields DEF IInv, Grown
  <1>2. /\ disk \in States /\ mem \in States /\ pr \in PRs /\ snap \in PRs
        /\ disk.head <= pr.head /\ snap.head <= pr.head
        /\ tick.pc = "record" => tick.action \in Actions
    BY DEF IInv, Typed, TickFits
  <1>3. Typed'
    BY <1>1 DEF IInv, Typed
  <1>4. TickFits'
    BY <1>1, <1>2 DEF IInv, TickFits, States, PRs
  <1>5. Marks' /\ TriesInv' /\ FlatInv' /\ IdleInv' /\ OnceInv'
    BY <1>1 DEF IInv, Marks, TriesInv, FlatInv, IdleInv, OnceInv, Open, Acted, Once
  <1>6. ScopeInv'
    <2>1. Charged(disk, pr) <= Charged(disk, pr') /\ Charged(disk, pr) \in Nat /\ Charged(disk, pr') \in Nat
      BY <1>1, <1>2, ChargedGrows, ChargedType
    <2>2. CASE tick.pc = "record"
      <3> DEFINE n == [mem EXCEPT !.last = tick.action, !.head = snap.head, !.commits = snap.commits]
      <3>1. n \in States /\ n.head = snap.head
        BY <1>2, <2>2 DEF States, PRs
      <3>2. ChargedNext = Charged(n, pr) /\ ChargedNext' = Charged(n, pr')
        BY <1>1 DEF ChargedNext
      <3> HIDE DEF n
      <3>3. ChargedNext <= ChargedNext' /\ ChargedNext \in Nat /\ ChargedNext' \in Nat
        BY <1>1, <1>2, <3>1, <3>2, ChargedGrows, ChargedType
      <3>4. mem.added + hist.free \in Nat /\ hist.pushed \in Nat
        BY DEF IInv, Typed, States, Histories
      <3> QED
        BY <1>1, <2>2, <3>3, <3>4 DEF IInv, ScopeInv
    <2>3. CASE tick.pc # "record"
      <3>1. disk.added + hist.free \in Nat /\ hist.pushed \in Nat
        BY DEF IInv, Typed, States, Histories
      <3> QED
        BY <1>1, <2>1, <2>3, <3>1 DEF IInv, ScopeInv
    <2> QED
      BY <2>2, <2>3
  <1>7. GivenInv'
    BY <1>1 DEF IInv, GivenInv, Heeded
  <1> QED
    BY <1>3, <1>4, <1>5, <1>6, <1>7 DEF IInv

-----------------------------------------------------------------------------
(* The invariant is inductive. *)

LEMMA InitInv ==
  ASSUME Init
  PROVE  IInv
  <1>1. /\ cfg \in Settings /\ pr = NewPR /\ snap = NewPR /\ disk = NewState /\ mem = NewState
        /\ tick = [pc |-> "idle", action |-> "init", dirty |-> FALSE] /\ run = "on"
        /\ hist = [lost |-> 0, blind |-> 0, tries |-> 0, flat |-> 0, idle |-> 0, onces |-> 0, pushed |-> 0,
                   free |-> 0, given |-> {}, excused |-> {}]
    BY DEF Init
  <1>2. NewState \in States
    BY DEF NewState, States, NoHealth, Healths, Actions
  <1>3. NewPR \in PRs
    BY DEF NewPR, PRs
  <1>4. IsFiniteSet(NewPR.comments)
    BY FS_EmptySet DEF NewPR
  <1>5. hist \in Histories
    BY <1>1 DEF Histories
  <1>6. tick \in [pc : Pcs, action : Actions \union {"merge", "polish", "lost"}, dirty : BOOLEAN]
    BY <1>1 DEF Pcs, Actions
  <1>7. Typed
    BY <1>1, <1>2, <1>3, <1>4, <1>5, <1>6 DEF Typed
  <1>8. MaxFailures \in Nat \ {0} /\ MaxFlat \in Nat \ {0}
    BY WatcherConstants
  <1>9. TickFits /\ Marks /\ TriesInv
    <2>1. /\ disk.head = 0 /\ disk.attempts = 0 /\ disk.braked = 0 /\ mem.attempts = 0 /\ mem.braked = 0
          /\ pr.head = 1 /\ snap.head = 1 /\ pr.commits = 1 /\ snap.commits = 1
          /\ hist.tries = 0 /\ hist.lost = 0 /\ tick.pc = "idle" /\ tick.action = "init"
      BY <1>1 DEF NewState, NewPR
    <2>2. mem = [disk EXCEPT !.cooldown = mem.cooldown]
      BY <1>1 DEF NewState
    <2>3. TriesInv
      BY ONLY <1>8, <2>1 DEF TriesInv, Open
    <2> QED
      BY <2>1, <2>2, <2>3 DEF TickFits, Marks
  <1>10. FlatInv /\ IdleInv /\ OnceInv
    BY <1>1, <1>8 DEF FlatInv, IdleInv, OnceInv, Acted, Once, Uncounted, NewState
  <1>11. Charged(disk, pr) = 0
    BY <1>1 DEF Charged, NewState, NoAgentRan
  <1>12. ScopeInv
    BY <1>1, <1>11 DEF ScopeInv, NewState
  <1>13. GivenInv
    BY <1>1 DEF GivenInv, NewState
  <1> QED
    BY <1>7, <1>9, <1>10, <1>12, <1>13 DEF IInv

\* Every step keeps the invariant.
LEMMA StepInv ==
  ASSUME IInv, [Next]_vars
  PROVE  IInv'
  <1>1. ASSUME NEW p \in Rounds, PolishEnds(p) PROVE IInv'
    BY <1>1, PolishEndsInv
  <1>2. ASSUME NEW p \in Pushes, NEW r \in BOOLEAN, NEW a \in {"failed", "stalled", "transient"},
               PolishFails(p, r, a)
        PROVE  IInv'
    BY <1>2, PolishFailsInv
  <1>3. CASE QueueActs \/ \E e \in DOMAIN Edits : Edit(e)
    BY <1>3, WorldInv
  <1>4. CASE UNCHANGED vars
    BY <1>4 DEF vars, IInv, Typed, TickFits, Marks, TriesInv, FlatInv, IdleInv, OnceInv, ScopeInv, GivenInv,
                Open, Acted, Once, Heeded, ChargedNext
  <1> QED
    BY <1>1, <1>2, <1>3, <1>4, LookInv, MergeInv, ReworkInv, RecordInv, CooldownInv, ResumeInv DEF Next

LEMMA Inductive == Spec => []IInv
  <1>1. Init => IInv
    BY InitInv
  <1>2. IInv /\ [Next]_vars => IInv'
    BY StepInv
  <1> QED
    BY <1>1, <1>2, PTL DEF Spec

-----------------------------------------------------------------------------
(* What holds of every run. *)

LEMMA InvTypes == IInv => TypeOK
  BY DEF IInv, Typed, TypeOK, States, PRs, Pcs, Ends

\* The watcher's state, the tick and the pull request keep their types.
THEOREM WatcherTypes == Spec => []TypeOK
  BY InvTypes, Inductive, PTL

\* Whatever fails, and in whatever order, the brakes hold: merge attempts
\* (countMergeAttempt, mergeBrakeTripped), flat rounds, invocations without a round
\* and the once round, for all limits.
THEOREM WatcherBrakesHold == Spec => []BrakesHold
  <1>1. IInv => BrakesHold
    <2>1. ASSUME IInv PROVE OnceIsOnce
      <3>1. disk.once \in BOOLEAN /\ mem.once \in BOOLEAN /\ hist.onces \in Nat /\ hist.lost \in Nat
        BY <2>1 DEF IInv, Typed, States, Histories
      <3>2. Once(disk) <= 1 /\ Once(disk) \in Nat /\ Once(mem) <= 1 /\ Once(mem) \in Nat
        BY <3>1 DEF Once
      <3>3. CASE tick.pc = "idle"
        BY <2>1, <3>1, <3>2, <3>3 DEF IInv, OnceInv, Acted, OnceIsOnce
      <3>4. CASE tick.pc # "idle"
        BY <2>1, <3>1, <3>2, <3>4 DEF IInv, OnceInv, OnceIsOnce
      <3> QED
        BY <3>3, <3>4
    <2> QED
      BY <2>1 DEF IInv, TriesInv, FlatInv, IdleInv, BrakesHold, MergesBraked, RoundsStop
  <1> QED
    BY <1>1, Inductive, PTL

\* No counter a brake reads is changed without being saved, and the scope brake is
\* charged every commit the agent's rounds pushed (pushedCommits, recordPolishWork).
THEOREM WatcherCountersKept == Spec => []CountersKept
  <1>1. IInv => CountersKept
    <2>1. IInv => TypeOK
      BY InvTypes
    <2>2. IInv => ScopeIsCounted
      <3>1. ASSUME IInv, tick.pc \in {"polish", "merge"} PROVE mem.added + hist.free >= hist.pushed
        <4>1. mem.added \in Nat /\ hist.free \in Nat /\ hist.pushed \in Nat
          BY <3>1 DEF IInv, Typed, States, Histories
        <4> QED
          BY <3>1, <4>1 DEF IInv, ScopeInv
      <3> QED
        BY <3>1 DEF ScopeIsCounted
    <2>3. IInv => NothingUnsaved
      BY <2>1 DEF IInv, Marks, NothingUnsaved
    <2> QED
      BY <2>2, <2>3 DEF CountersKept
  <1> QED
    BY <1>1, Inductive, PTL

\* No merge is tried over a comment that no polish round was given and no tick
\* that gave the pull request up, or the first one, saw.
THEOREM WatcherHeedsFeedback == Spec => []FeedbackReachesAgent
  <1>1. IInv => FeedbackReachesAgent
    BY DEF IInv, TickFits, GivenInv, Heeded, FeedbackReachesAgent
  <1> QED
    BY <1>1, Inductive, PTL
=============================================================================
