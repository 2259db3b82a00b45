------------------------- MODULE JiradozerWorkflow -------------------------
(***************************************************************************)
(* jiradozer's workflow of one issue: plan, build, validate, ship, each    *)
(* followed by a review.  The tracker is the only thing the workflow and   *)
(* people share: comments carry results one way and approvals the other,   *)
(* labels tell how far the issue is, also to a workflow started after a    *)
(* crash.  Between any two tracker calls people write, a call fails or its *)
(* reply is lost, the process dies.  The issue's column on the board, which *)
(* the workflow sets and never reads, is left out.                         *)
(***************************************************************************)
EXTENDS Naturals, Sequences

CONSTANTS
    Settings,       \* configurations: auto_approve, skip_phases, and steps with rounds
    Scenarios,      \* how often each event happens
    MaxRedos        \* Workflow.maxRedos

\* Phases are numbered; a person says one of three things, a scenario counts.
ASSUME WorkflowConstants ==
    /\ Settings \subseteq [auto : SUBSET (1..4), skip : SUBSET (1..4), rounds : SUBSET (1..4)]
    /\ Scenarios \subseteq [starts : Nat, crashes : Nat, faults : Nat, fails : Nat, comments : Nat,
                            labels : Nat, empty : BOOLEAN, marks : SUBSET (1..4),
                            says : SUBSET {"approve", "approve all", "redo"}]
    /\ MaxRedos \in Nat

VARIABLES
    cfg,    \* the configuration
    issue,  \* the issue on the tracker: its labels and comments
    planFile,   \* the plan in the worktree, none yet or the n-th there was
    wf,     \* the Workflow in memory
    todo,   \* the calls the current step or transition still makes, in order
    run,    \* whether the process runs
    hist,   \* what has really happened
    left    \* what is left of the scenario

vars == <<cfg, issue, planFile, wf, todo, run, hist, left>>

Phase == 1..4       \* phaseTable: plan, build, validate, ship
Work == <<"planning", "building", "validating", "shipping">>
Review == <<"plan_review", "build_review", "validate_review", "ship_review">>
AtReview(s) == \E p \in Phase : s = Review[p]
ReviewOf(s) == CHOOSE p \in Phase : s = Review[p]

\* phaseForStep: 0 for a review and an end.
PhaseOf(s) == IF s = "creating_pr" THEN 2
              ELSE IF \E p \in Phase : s = Work[p] THEN CHOOSE p \in Phase : s = Work[p] ELSE 0
StepAfter(s) == IF s = "building" THEN "creating_pr" ELSE Review[PhaseOf(s)]
Approved(p) == IF p = 4 THEN "done" ELSE Work[p + 1]

Now(i) == Len(i.comments) + 1       \* times are places in the list of comments
Said(i, c) == [i EXCEPT !.comments = Append(@, c)]

NewHist == [begun |-> {}, accepted |-> {}, touched |-> {}, finished |-> 0, result |-> 0,
            plans |-> 0, lost |-> {}, misread |-> FALSE, calm |-> TRUE, closing |-> FALSE]

\* NewWorkflow, with the labels that came with the issue.
NewWorkflow(i) ==
    [step |-> "planning", phases |-> [p \in Phase |-> "new"], seen |-> i.labels, feedback |-> 0,
     since |-> 0, bot |-> {}, redos |-> [p \in Phase |-> 0], all |-> FALSE, plan |-> 0]

NewIssue == [labels |-> [doing |-> {}, done |-> {}, skip |-> {}], comments |-> <<>>]

Init ==
    /\ cfg \in Settings /\ left \in Scenarios
    /\ issue = NewIssue /\ planFile = 0 /\ wf = NewWorkflow(NewIssue)
    /\ todo = <<>> /\ run = "off" /\ hist = NewHist

-----------------------------------------------------------------------------
(* Calls of the tracker. *)

\* A call is answered, fails, or is carried out and its answer lost.
Replies == {"ok", "failed", "lost"}
Fault(r) ==
    IF r = "ok" THEN UNCHANGED left
    ELSE left.faults > 0 /\ left' = [left EXCEPT !.faults = @ - 1]
Applied(r, i) == IF r = "failed" THEN issue ELSE i
Marked(h, r) == [h EXCEPT !.calm = @ /\ r = "ok", !.closing = @ /\ r = "ok"]

Op(name, p) == [op |-> name, p |-> p]
Calls(name) == run = "on" /\ todo # <<>> /\ Head(todo).op = name
Rest == Tail(todo)

Labelled(kind, p) == [issue EXCEPT !.labels[kind] = @ \union {p}]
Unlabelled(kind, p) == [issue EXCEPT !.labels[kind] = @ \ {p}]

-----------------------------------------------------------------------------
(* Phase labels. *)

\* Mutant: the done label of the phase that begins is written with the others.
CompletesOneMore(n) == [p \in 1..(n + 1) |-> Op("complete", p)]

\* completePriorPhases: those of the first n phases that are not done.
Completes(n) == [p \in 1..n |-> Op("complete", p)]

\* What handlePhaseBoundary calls on arriving at step s.
Boundary(s) ==
    IF s = "done" THEN Completes(4) \o <<Op("sweep", 0)>>
    ELSE Completes(PhaseOf(s) - 1) \o <<Op("refresh", 0), Op("skip", 0), Op("enter", 0)>>

\* Mutant: the in-progress label is removed before the done label is added.
CompletionReversed == <<"doing", "done">>

\* completePhase edits one label and then the other.
Completion == <<"done", "doing">>
Edited(kind, p) == IF kind = "done" THEN Labelled("done", p) ELSE Unlabelled("doing", p)

\* Mutant: it goes on although the first label could not be written.
ConfirmedAnyway(r) == TRUE

\* It goes on only when the first is confirmed,
Confirmed(r) == r = "ok"

Complete ==
    /\ Calls("complete")
    /\ LET p == Head(todo).p IN
       IF wf.phases[p] = "done" THEN todo' = Rest /\ UNCHANGED <<issue, left, hist>>
       ELSE \E r \in Replies :
            /\ Fault(r) /\ hist' = Marked(hist, r) /\ issue' = Applied(r, Edited(Completion[1], p))
            /\ todo' = IF Confirmed(r) THEN <<Op("completed", p)>> \o Rest ELSE Rest
    /\ UNCHANGED <<cfg, planFile, wf, run>>

\* and the phase is done whether the second is or not.
Completed ==
    /\ Calls("completed")
    /\ \E r \in Replies :
        /\ Fault(r) /\ hist' = Marked(hist, r)
        /\ issue' = Applied(r, Edited(Completion[2], Head(todo).p))
    /\ wf' = [wf EXCEPT !.phases[Head(todo).p] = "done"]
    /\ todo' = Rest /\ UNCHANGED <<cfg, planFile, run>>

\* enterPhase, of the phase of the current step if it has one.
Enter ==
    /\ Calls("enter") /\ todo' = Rest
    /\ LET p == PhaseOf(wf.step) IN
       IF p = 0 \/ wf.phases[p] # "new" THEN UNCHANGED <<issue, wf, left, hist>>
       ELSE \E r \in Replies :
            /\ Fault(r) /\ hist' = Marked(hist, r) /\ issue' = Applied(r, Labelled("doing", p))
            /\ wf' = IF r = "ok" THEN [wf EXCEPT !.phases[p] = "doing"] ELSE wf
    /\ UNCHANGED <<cfg, planFile, run>>

\* refreshLabels: what it cannot fetch stays as it was last seen.
Refresh ==
    /\ Calls("refresh") /\ todo' = Rest
    /\ \E r \in {"ok", "failed"} :
        /\ Fault(r) /\ hist' = Marked(hist, r)
        /\ wf' = IF r = "ok" THEN [wf EXCEPT !.seen = issue.labels] ELSE wf
    /\ UNCHANGED <<cfg, issue, planFile, run>>

\* Phases to skip: those the configuration or the command line names, and
\* those with a skip label when the labels were last seen.
Skipped == cfg.skip \union wf.seen.skip

\* Mutant: the plan is not read back when its phase is skipped.
SkippedBlind(w, p) == [w EXCEPT !.phases[p] = "done", !.step = Approved(p), !.feedback = 0]

\* One phase skipped: on to the next, with the plan of an earlier run.
SkippedOver(w, p) ==
    [w EXCEPT !.phases[p] = "done", !.step = Approved(p), !.feedback = 0,
              !.plan = IF p = 1 /\ @ = 0 THEN planFile ELSE @]

\* skipCompletedOrConfiguredPhases, one turn of its loop.
Skip ==
    /\ Calls("skip")
    /\ LET p == PhaseOf(wf.step)
           stale == p \in wf.seen.doing \/ wf.phases[p] = "doing" IN
       IF p \notin wf.seen.done \union Skipped
       THEN todo' = Rest /\ UNCHANGED <<issue, wf, left, hist>>
       ELSE \E r \in IF stale THEN Replies ELSE {"ok"} :
            /\ Fault(r)
            /\ issue' = IF stale THEN Applied(r, Unlabelled("doing", p)) ELSE issue
            /\ wf' = SkippedOver(wf, p) /\ todo' = todo
            /\ hist' = Marked([hist EXCEPT !.accepted = @ \union (Skipped \intersect {p})], r)
    /\ UNCHANGED <<cfg, planFile, run>>

\* What cleanupStalePhaseLabels goes through.
Sweeps == [p \in Phase |-> Op("unmark", p)]

\* cleanupStalePhaseLabels, at the end: reading the labels,
Sweep ==
    /\ Calls("sweep")
    /\ \E r \in {"ok", "failed"} :
        /\ Fault(r) /\ hist' = Marked(hist, r)
        /\ wf' = IF r = "ok" THEN [wf EXCEPT !.seen = issue.labels] ELSE wf
    /\ todo' = Sweeps \o Rest
    /\ UNCHANGED <<cfg, issue, planFile, run>>

\* and removing each that a phase done should not have.
Unmark ==
    /\ Calls("unmark") /\ todo' = Rest
    /\ LET p == Head(todo).p IN
       IF wf.phases[p] # "done" \/ p \notin wf.seen.doing THEN UNCHANGED <<issue, left, hist>>
       ELSE \E r \in Replies :
            /\ Fault(r) /\ hist' = Marked(hist, r)
            /\ issue' = Applied(r, Unlabelled("doing", p))
    /\ UNCHANGED <<cfg, planFile, wf, run>>

-----------------------------------------------------------------------------
(* Work: the step of an agent and what is posted about it. *)

\* Run: an agent's session, the plan file and the comments, in the order of
\* runStep, or of runStepRounds with two rounds.
Makes(s) ==
    IF s # "creating_pr" /\ PhaseOf(s) \in cfg.rounds
    THEN <<Op("agent", 1), Op("post", 0), Op("agent", 2), Op("post", 1), Op("capture", 0), Op("review", 0)>>
    ELSE <<Op("agent", 1), Op("capture", 0), Op("post", 1), Op("review", 0)>>

\* Mutant: the time of the last comment survives into the next step.
BegunUnreset(w) == [w EXCEPT !.bot = {}, !.feedback = 0]

Begun(w) == [w EXCEPT !.since = 0, !.bot = {}, !.feedback = 0]

\* A step with work begins: it takes the feedback.
Begin ==
    /\ run = "on" /\ todo = <<>> /\ PhaseOf(wf.step) # 0
    /\ wf' = Begun(wf) /\ todo' = Makes(wf.step)
    /\ hist' = [hist EXCEPT !.begun = @ \union {PhaseOf(wf.step)}, !.result = 0, !.finished = 0,
                            !.accepted = @ \ {PhaseOf(wf.step)}]
    /\ UNCHANGED <<cfg, issue, planFile, run, left>>

Fails == [wf EXCEPT !.step = "failed"]

\* The agent ends its session, or fails and with it the workflow.
Agent ==
    /\ Calls("agent")
    /\ \/ /\ todo' = Rest /\ hist' = [hist EXCEPT !.finished = Len(issue.comments)]
          /\ UNCHANGED <<wf, left>>
       \/ /\ left.fails > 0 /\ left' = [left EXCEPT !.fails = @ - 1]
          /\ wf' = Fails /\ todo' = <<>> /\ UNCHANGED hist
    /\ UNCHANGED <<cfg, issue, planFile, run>>

\* captureOutput; a build that changed nothing ends the workflow there.
Capture ==
    /\ Calls("capture")
    /\ IF wf.step = "planning"
       THEN /\ hist' = [hist EXCEPT !.plans = @ + 1] /\ planFile' = hist.plans + 1
            /\ wf' = [wf EXCEPT !.plan = hist.plans + 1] /\ todo' = Rest
       ELSE /\ UNCHANGED planFile
            /\ \/ todo' = Rest /\ UNCHANGED <<wf, hist>>
               \/ /\ wf.step = "building" /\ left.empty
                  /\ wf' = [wf EXCEPT !.step = "done"]
                  /\ todo' = <<Op("tell", 0)>> \o Boundary("done")
                  /\ hist' = [hist EXCEPT !.accepted = Phase, !.closing = TRUE]
    /\ UNCHANGED <<cfg, issue, run, left>>

\* The comment that a build without changes posts.
Tell ==
    /\ Calls("tell") /\ todo' = Rest
    /\ \E r \in Replies :
        Fault(r) /\ hist' = Marked(hist, r) /\ issue' = Applied(r, Said(issue, "bot"))
    /\ UNCHANGED <<cfg, planFile, wf, run>>

\* PostStepComment, PostRoundComment: feedback counts from the last of them on.
\* A comment that cannot be rendered ends the workflow.
Post ==
    /\ Calls("post")
    /\ \/ /\ todo' = Rest
          /\ \E r \in Replies :
                LET last == r = "ok" /\ Head(todo).p = 1  n == Len(issue.comments) + 1 IN
                /\ Fault(r) /\ issue' = Applied(r, Said(issue, "bot"))
                /\ wf' = [wf EXCEPT !.bot = IF r = "ok" THEN @ \union {n} ELSE @,
                                    !.since = IF last THEN n ELSE @]
                /\ hist' = Marked([hist EXCEPT !.result = IF last THEN n ELSE @], r)
       \/ /\ left.fails > 0 /\ left' = [left EXCEPT !.fails = @ - 1]
          /\ wf' = Fails /\ todo' = <<>> /\ UNCHANGED <<issue, hist>>
    /\ UNCHANGED <<cfg, planFile, run>>

\* shouldAutoApprove
AutoApproves(w, s) == w.all \/ ReviewOf(s) \in cfg.auto

\* transitionToReview up to the waiting comment; after a build it leads to
\* the step that creates the pull request.
ToReview ==
    /\ Calls("review")
    /\ LET s == StepAfter(wf.step) IN
       /\ wf' = [wf EXCEPT !.step = s]
       /\ todo' = IF AtReview(s) /\ ~AutoApproves(wf, s) THEN <<Op("waiting", 0)>> ELSE Rest
    /\ UNCHANGED <<cfg, issue, planFile, run, hist, left>>

\* Mutant: feedback counts from the waiting comment on.
SinceWaiting(w, n, r, i) == IF r = "ok" THEN n ELSE Now(i)

\* Where the poll starts, after a waiting comment at n.
Since(w, n, r, i) == IF w.since # 0 THEN w.since ELSE IF r = "ok" THEN n ELSE Now(i)

\* PostWaitingComment and what follows it in transitionToReview.
Waiting ==
    /\ Calls("waiting") /\ todo' = Rest
    /\ \E r \in Replies :
        LET n == Len(issue.comments) + 1 IN
        /\ Fault(r) /\ issue' = Applied(r, Said(issue, "bot"))
        /\ wf' = [wf EXCEPT !.bot = IF r = "ok" THEN @ \union {n} ELSE @, !.since = Since(wf, n, r, issue')]
        /\ hist' = Marked([hist EXCEPT !.lost = IF r = "lost" THEN @ \union {n} ELSE @], r)
    /\ UNCHANGED <<cfg, planFile, run>>

-----------------------------------------------------------------------------
(* Reviews. *)

\* latestFeedbackComment among the comments from time t on, 0 for none.
Heard(t, bot) == {k \in 1..Len(issue.comments) : k >= t /\ k \notin bot}
Latest(t, bot) == IF Heard(t, bot) = {} THEN 0
                  ELSE CHOOSE k \in Heard(t, bot) : \A j \in Heard(t, bot) : j <= k

Approvals == {"approve", "approve all"}

\* applyReviewApproval, and the automatic approval: w is past the review of p.
Accept(w, p) ==
    /\ wf' = [w EXCEPT !.step = Approved(p), !.feedback = 0]
    /\ todo' = Boundary(Approved(p))

\* tryRedo, with reopenPhaseOnRedo: of the phases from p on only p was entered.
Redo(w, p) ==
    IF w.redos[p] >= MaxRedos
    THEN wf' = [w EXCEPT !.step = "failed", !.all = FALSE, !.redos[p] = @ + 1] /\ todo' = <<>>
    ELSE /\ wf' = [w EXCEPT !.step = Work[p], !.all = FALSE, !.redos[p] = @ + 1,
                            !.phases = [q \in Phase |-> IF q >= p THEN "new" ELSE @[q]]]
         /\ todo' = <<Op("enter", 0), Op("refresh", 0), Op("skip", 0)>>

\* handleReviewFeedback: comment k decides the review of p.
Handle(w, p, k) ==
    LET said == issue.comments[k] IN
    IF said \in Approvals
    THEN Accept([w EXCEPT !.all = @ \/ said = "approve all"], p)
    ELSE Redo([w EXCEPT !.feedback = k], p)

\* What handling k shows of the workflow's view of the comments.
Answered(h, p, k) ==
    [h EXCEPT !.misread = @ \/ k <= h.finished \/ (issue.comments[k] = "bot" /\ k \notin h.lost),
              !.accepted = IF issue.comments[k] \in Approvals THEN @ \union {p} ELSE @,
              !.closing = issue.comments[k] \in Approvals /\ p = 4]

\* PollForFeedback finds a comment.
Poll ==
    /\ run = "on" /\ todo = <<>> /\ AtReview(wf.step) /\ ~AutoApproves(wf, wf.step)
    /\ LET p == ReviewOf(wf.step)  k == Latest(wf.since, wf.bot) IN
       k # 0 /\ Handle([wf EXCEPT !.since = k], p, k) /\ hist' = Answered(hist, p, k)
    /\ UNCHANGED <<cfg, issue, planFile, run, left>>

\* runReview without waiting: it looks once, and a failure to look is no objection.
AutoReview ==
    /\ run = "on" /\ todo = <<>> /\ AtReview(wf.step) /\ AutoApproves(wf, wf.step)
    /\ \E r \in {"ok", "failed"} :
        LET p == ReviewOf(wf.step)
            w == [wf EXCEPT !.since = IF @ = 0 THEN Now(issue) ELSE @]
            k == IF r = "ok" THEN Latest(w.since, w.bot) ELSE 0 IN
        /\ Fault(r)
        /\ IF k # 0 THEN Handle(w, p, k) /\ hist' = Marked(Answered(hist, p, k), r)
           ELSE Accept(w, p) /\ hist' = Marked([hist EXCEPT !.accepted = @ \union {p}, !.closing = p = 4], r)
    /\ UNCHANGED <<cfg, issue, planFile, run>>

-----------------------------------------------------------------------------
(* The process and the people. *)

Ended == todo = <<>> /\ wf.step \in {"done", "failed"}

\* Mutant: the labels of an earlier run are not looked at.
FirstAnew == <<Op("enter", 0)>>

\* Run, up to its loop.
First == <<Op("refresh", 0), Op("skip", 0), Op("enter", 0)>>

\* A workflow is started for the issue, the first or after one that died or
\* failed; it returns at once when it cannot read the tracker's states.
Start ==
    /\ run = "off" \/ (Ended /\ wf.step = "failed")
    /\ left.starts > 0
    /\ \/ /\ left' = [left EXCEPT !.starts = @ - 1]
          /\ run' = "on" /\ wf' = NewWorkflow(issue) /\ todo' = First
       \/ /\ left.faults > 0 /\ left' = [left EXCEPT !.starts = @ - 1, !.faults = @ - 1]
          /\ run' = "off" /\ wf' = NewWorkflow(NewIssue) /\ UNCHANGED todo
    /\ UNCHANGED <<cfg, issue, planFile, hist>>

Before(ops) == run = "on" /\ todo # <<>> /\ Head(todo).op \in ops

Crash ==
    /\ run = "on" /\ ~Ended /\ left.crashes > 0
    /\ todo # <<>> => Head(todo).op # "review"
    /\ left' = [left EXCEPT !.crashes = @ - 1]
    /\ run' = "off" /\ wf' = NewWorkflow(NewIssue) /\ todo' = <<>>
    /\ hist' = [hist EXCEPT !.closing = FALSE]
    /\ UNCHANGED <<cfg, issue, planFile>>

\* A person comments, at any moment that the workflow can tell from others: while
\* an agent works, before a comment of its own, or in a review.
Comment ==
    /\ Before({"agent", "post", "waiting"}) \/ (run = "on" /\ todo = <<>> /\ AtReview(wf.step))
    /\ left.comments > 0
    /\ \E c \in left.says :
        issue' = Said(issue, c) /\ left' = [left EXCEPT !.comments = @ - 1]
    /\ UNCHANGED <<cfg, planFile, wf, todo, run, hist>>

\* A person marks a phase as done, clears the mark, or asks to skip it.
Label ==
    /\ ~Ended /\ left.labels > 0 /\ left' = [left EXCEPT !.labels = @ - 1]
    /\ \E p \in left.marks : 
        /\ \E i \in {Labelled("done", p), Unlabelled("done", p), Labelled("skip", p)} : issue' = i
        /\ issue' # issue /\ hist' = [hist EXCEPT !.touched = @ \union {p}]
    /\ UNCHANGED <<cfg, planFile, wf, todo, run>>

Works ==
    \/ Complete \/ Completed \/ Enter \/ Refresh \/ Skip \/ Sweep \/ Unmark
    \/ Begin \/ Agent \/ Capture \/ Tell \/ Post \/ ToReview \/ Waiting \/ Poll \/ AutoReview

Next == Works \/ Start \/ Crash \/ Comment \/ Label

\* The process goes on while it runs; a poll's fetch succeeds in the end.
Spec == Init /\ [][Next]_vars /\ WF_vars(Works)

-----------------------------------------------------------------------------
(* Properties. *)

TypeOK ==
    /\ wf.step \in {Work[p] : p \in Phase} \union {Review[p] : p \in Phase} \union {"creating_pr", "done", "failed"}
    /\ wf.phases \in [Phase -> {"new", "doing", "done"}]
    /\ wf.seen \in [doing : SUBSET Phase, done : SUBSET Phase, skip : SUBSET Phase]
    /\ issue.labels \in [doing : SUBSET Phase, done : SUBSET Phase, skip : SUBSET Phase]
    /\ run \in {"on", "off"} /\ wf.since \in 0..Now(issue)
    /\ wf.bot \subseteq 1..Len(issue.comments) /\ wf.feedback \in 0..Len(issue.comments)

Working(p) == run = "on" /\ todo # <<>> /\ Head(todo).op = "agent" /\ PhaseOf(wf.step) = p

\* An agent works on a phase only when every phase before it has been accepted,
\* that is its last result approved, or is skipped, or a person has set its
\* labels; and it builds the last plan there was.  That holds in every run, also
\* one started after a crash from labels and plan.md (workflow.go:768-816).
WorkHasBasis ==
    /\ TypeOK
    /\ \A p \in Phase : Working(p) => 1..(p - 1) \subseteq hist.accepted \union hist.touched
    /\ Working(2) /\ wf.step = "building" => wf.plan = hist.plans

\* The labels tell the truth at every moment, so that a run started after a
\* crash neither drops nor repeats what they stand for: done is only on a phase
\* whose last result was accepted, and with no failed call and nobody else's labels
\* a phase that was begun has one of the two (workflow.go:869-881).
LabelsTell ==
    /\ issue.labels.done \subseteq hist.accepted \union hist.touched
    /\ hist.calm /\ hist.touched = {} => hist.begun \subseteq issue.labels.doing \union issue.labels.done

\* A review is decided by a person's comment written after the work under
\* review was finished, whatever calls failed meanwhile: no old approval and no
\* comment of the workflow's own, except a waiting comment whose reply was lost.
FeedbackIsFresh == ~hist.misread

\* Reaching the end through a last approval repairs what earlier calls failed to
\* do: every phase that was not skipped is labelled done, none in progress
\* (handlePhaseBoundary, workflow.go:699-712).
LabelsSettle ==
    Ended /\ wf.step = "done" /\ hist.closing /\ hist.touched = {} =>
        /\ issue.labels.doing = {}
        /\ Phase \subseteq issue.labels.done \union cfg.skip

Waits == run = "on" /\ todo = <<>> /\ AtReview(wf.step) /\ ~AutoApproves(wf, wf.step)
Owed(k) ==
    /\ Waits /\ hist.result # 0 /\ k \in hist.result..Len(issue.comments) /\ issue.comments[k] # "bot"

\* A comment that a person writes after the result has been posted ends the
\* wait, also one written before the waiting comment (workflow.go:1010-1014).
CommentAnswered == (\E k \in 1..Len(issue.comments) : Owed(k)) ~> ~Waits
=============================================================================
