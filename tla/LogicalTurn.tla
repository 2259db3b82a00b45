---------------------------- MODULE LogicalTurn ----------------------------
(***************************************************************************)
(* One prompt given to the claude CLI by ClaudeProvider.Execute, and the   *)
(* goroutine that decides when the work it started is over                 *)
(* (consumeTurnEvents over logicalTurnState).  The CLI prints a result at  *)
(* the end of every wave of work; background tasks outlive a wave, and     *)
(* each one's end makes the CLI continue with another.  The session passes *)
(* the events on and suppresses the end of a wave that scheduled a wakeup  *)
(* (ClaudeTurns has the details of that; Execute sends no second prompt    *)
(* meanwhile, so here the handling of a result is one step).               *)
(***************************************************************************)
EXTENDS Naturals, Sequences, FiniteSets

CONSTANTS
    Task,       \* background tasks; each stands for its tool_use as well
    Scenarios   \* how often each event of the environment happens

Events == {"task", "refuse", "fail", "hang", "error", "resultError", "wakeup", "noWakeup",
           "reorder", "update", "ctx", "exit", "closes", "retry"}

ASSUME ScenarioAssumption == Scenarios \subseteq [Events -> Nat]

VARIABLES
    phase,    \* the CLI: "working", "parked" between waves, "exited"
    task,     \* what has become of each task, and what was printed of it
    wakeup,   \* the latest wakeup scheduled, the one waited for, one that is to come
    queue,    \* Session.events
    closed,   \* the events channel is closed
    st,       \* logicalTurnState
    grace,    \* the grace timer: "off", "armed"
    ret,      \* what consumeTurnEvents returned
    last,     \* history: the latest verdict printed: a result's, or "failed" for a task's failure
    left      \* what is left of the scenario's budget

vars == <<phase, task, wakeup, queue, closed, st, grace, ret, last, left>>
cli == <<phase, task, wakeup, last>>
loop == <<st, grace, ret>>

Fresh == [result |-> "none", complete |-> FALSE, succeeded |-> FALSE, err |-> FALSE,
          live |-> {}, terminal |-> {}, cancelled |-> {}, finished |-> {}, mapped |-> {},
          blocks |-> {}, forced |-> FALSE, failed |-> FALSE]

NoWakeup == [next |-> 0, latest |-> 0, tool |-> 0, active |-> FALSE, fired |-> FALSE, due |-> FALSE]

Spend(e) == left[e] > 0 /\ left' = [left EXCEPT ![e] = @ - 1]
Ev(k) == [kind |-> k, t |-> 0, what |-> ""]
Early == [Ev("complete") EXCEPT !.what = "early"]  \* the event is like any; the mark is history

Init ==
    /\ left \in Scenarios
    /\ phase = "working"
    /\ task = [t \in Task |-> [use |-> FALSE, kept |-> FALSE, refused |-> FALSE, begun |-> FALSE,
                               end |-> "none", noted |-> FALSE, updated |-> FALSE]]
    /\ wakeup = NoWakeup
    /\ queue = <<>> /\ closed = FALSE
    /\ st = Fresh /\ grace = "off" /\ ret = "none" /\ last = "none"

-----------------------------------------------------------------------------
(* The CLI and the session's read loop: what arrives in Events(). *)

Emits(e) == queue' = Append(queue, e)
Known(t) == task[t].use \/ task[t].begun

\* The assistant calls a tool that runs in the background.
UseTool(t) ==
    /\ phase = "working" /\ ~task[t].use
    /\ IF task[t].begun THEN UNCHANGED left ELSE Spend("task")
    /\ task' = [task EXCEPT ![t].use = TRUE]
    /\ Emits([Ev("use") EXCEPT !.t = t])
    /\ UNCHANGED <<phase, wakeup, last, closed, loop>>

\* Mutant: the refusal does not say of which call.
RefuseToolNameless(t) ==
    /\ phase = "working" /\ task[t].use /\ ~task[t].begun /\ ~task[t].refused
    /\ task[t].end = "none" /\ ~task[t].kept /\ Spend("refuse")
    /\ task' = [task EXCEPT ![t].refused = TRUE]
    /\ Emits(Ev("refused"))
    /\ UNCHANGED <<phase, wakeup, last, closed, loop>>

\* The tool call is refused or cancelled: an error result, in the same wave, and no task.
RefuseTool(t) ==
    /\ phase = "working" /\ task[t].use /\ ~task[t].begun /\ ~task[t].refused
    /\ task[t].end = "none" /\ ~task[t].kept /\ Spend("refuse")
    /\ task' = [task EXCEPT ![t].refused = TRUE]
    /\ Emits([Ev("refused") EXCEPT !.t = t])
    /\ UNCHANGED <<phase, wakeup, last, closed, loop>>

\* The task starts; with "reorder" the message overtakes the tool call, or is
\* overtaken by the task's end.
StartTask(t) ==
    /\ phase # "exited" /\ ~task[t].begun /\ ~task[t].refused
    /\ \/ task[t].use /\ task[t].end = "none" /\ UNCHANGED left
       \/ task[t].use /\ task[t].end # "none" /\ Spend("reorder")
       \/ ~task[t].use /\ phase = "working" /\ left["task"] > 0 /\ left["reorder"] > 0
          /\ left' = [left EXCEPT !["task"] = @ - 1, !["reorder"] = @ - 1]
    /\ task' = [task EXCEPT ![t].begun = TRUE]
    /\ Emits([Ev("started") EXCEPT !.t = t])
    /\ UNCHANGED <<phase, wakeup, last, closed, loop>>

EndTask(t) ==
    /\ phase # "exited" /\ Known(t) /\ ~task[t].refused /\ task[t].end = "none"
    /\ task[t].begun \/ left["reorder"] > 0
    /\ \E s \in {"completed", "failed"} :
        /\ s = "failed" => Spend("fail")
        /\ s = "completed" => UNCHANGED left
        /\ task' = [task EXCEPT ![t].end = s]
    /\ UNCHANGED <<phase, wakeup, last, queue, closed, loop>>

\* The notification makes a parked CLI continue; a working one takes it in.
NotifyTask(t) ==
    /\ phase # "exited" /\ task[t].end # "none" /\ ~task[t].noted
    /\ task[t].use
    /\ task' = [task EXCEPT ![t].noted = TRUE]
    /\ phase' = "working"
    /\ last' = IF task[t].end = "failed" THEN "failed" ELSE last
    /\ Emits([Ev("notified") EXCEPT !.t = t, !.what = task[t].end])
    /\ UNCHANGED <<wakeup, closed, loop, left>>

UpdateTask(t) ==
    /\ phase # "exited" /\ task[t].end # "none" /\ ~task[t].updated /\ Spend("update")
    /\ task[t].use
    /\ task[t].noted => phase = "working"
    /\ task' = [task EXCEPT ![t].updated = TRUE]
    /\ last' = IF task[t].end = "failed" THEN "failed" ELSE last
    /\ Emits([Ev("updated") EXCEPT !.t = t, !.what = task[t].end])
    /\ UNCHANGED <<phase, wakeup, closed, loop>>

ScheduleWakeup ==
    /\ phase = "working" /\ ~wakeup.due /\ Spend("wakeup")
    /\ wakeup' = [wakeup EXCEPT !.next = @ + 1, !.latest = wakeup.next + 1, !.due = TRUE]
    /\ UNCHANGED <<phase, task, last, queue, closed, loop>>

WakeupDue ==
    /\ phase = "parked" /\ wakeup.due
    /\ \/ left["noWakeup"] = 0
       \/ left["noWakeup"] > 0 /\ wakeup.fired
    /\ phase' = "working"
    /\ wakeup' = [wakeup EXCEPT !.due = FALSE]
    /\ UNCHANGED <<task, last, queue, closed, loop, left>>

\* handleResult: the result always, the end of the turn unless the wave
\* scheduled a new wakeup or the safety timer has ended the turn.
EndWave ==
    /\ phase = "working"
    /\ \A t \in Task : (task[t].begun => task[t].use) /\ (task[t].updated => task[t].noted)
    /\ \E r \in {"ok", "error"} :
        /\ r = "error" => Spend("resultError")
        /\ r = "ok" => UNCHANGED left
        /\ last' = r
        /\ LET suppress == /\ r = "ok" /\ wakeup.latest # 0
                           /\ ~(wakeup.active /\ wakeup.latest = wakeup.tool)
               result == [Ev("result") EXCEPT !.what = r]
           IN  IF wakeup.fired
               THEN /\ queue' = Append(queue, result)
                    /\ wakeup' = [wakeup EXCEPT !.fired = FALSE, !.active = FALSE]
               ELSE IF suppress
               THEN /\ queue' = Append(queue, result)
                    /\ wakeup' = [wakeup EXCEPT !.tool = wakeup.latest, !.active = TRUE]
               ELSE /\ queue' = queue \o <<result, IF wakeup.due THEN Early ELSE Ev("complete")>>
                    /\ wakeup' = [wakeup EXCEPT !.active = FALSE]
    /\ phase' = "parked"
    /\ task' = [t \in Task |-> [task[t] EXCEPT !.kept = task[t].use]]
    /\ UNCHANGED <<closed, loop>>

\* completeWakeupSuppressedTurn
SafetyTimerFires ==
    /\ wakeup.active
    /\ wakeup' = [wakeup EXCEPT !.active = FALSE, !.fired = TRUE]
    /\ Emits([Ev("complete") EXCEPT !.what = "timed out"])
    /\ UNCHANGED <<phase, task, last, closed, loop, left>>

\* A line that does not parse becomes an error event.
BadLine ==
    /\ phase # "exited" /\ Spend("error")
    /\ Emits(Ev("error"))
    /\ UNCHANGED <<cli, closed, loop>>

\* The CLI exits.  Whether the channel is then closed depends on who owns the
\* session: its own read loop only returns.
CliExits ==
    /\ phase # "exited" /\ Spend("exit")
    /\ phase' = "exited"
    /\ closed' = (left["closes"] > 0)
    /\ wakeup' = IF left["closes"] > 0 THEN [wakeup EXCEPT !.active = FALSE] ELSE wakeup
    /\ UNCHANGED <<task, last, queue, loop>>

-----------------------------------------------------------------------------
(* logicalTurnState *)

\* Mutant: the wave's completion holds though the CLI goes on.
InvalidatedNot(s) == s

\* invalidateForContinuation: a task ended after the wave's result; the CLI
\* goes on, so that result is not the last.
Invalidated(s) ==
    IF s.result = "none" THEN s ELSE [s EXCEPT !.result = "none", !.complete = FALSE]

\* A terminal event of a task, of either kind.
TaskOver(s, t, what, finishes) ==
    Invalidated([s EXCEPT !.terminal = @ \cup {t}, !.live = @ \ {t},
                          !.finished = IF finishes THEN @ \cup {t} ELSE @,
                          !.failed = @ \/ what = "failed"])

\* Mutant: a start that its end has overtaken makes the task live.
ApplyStartedLate(s, t) == [s EXCEPT !.mapped = @ \cup {t}, !.live = @ \cup {t}]

ApplyStarted(s, t) ==
    IF t \in s.terminal
    THEN [s EXCEPT !.mapped = @ \cup {t}, !.finished = @ \cup {t}]
    ELSE [s EXCEPT !.mapped = @ \cup {t}, !.live = @ \cup {t}]

\* A result begins a new completion: the end of an earlier wave does not count.
ApplyResult(s, r) ==
    [s EXCEPT !.result = r, !.complete = FALSE, !.err = (r = "error"),
              !.succeeded = @ \/ r = "ok"]

Apply(s, e) ==
    CASE e.kind = "use" -> [s EXCEPT !.blocks = @ \cup {e.t}]
      [] e.kind = "refused" -> [s EXCEPT !.cancelled = @ \cup {e.t}]
      [] e.kind = "started" -> ApplyStarted(s, e.t)
      [] e.kind = "notified" -> TaskOver(s, e.t, e.what, TRUE)
      [] e.kind = "updated" -> TaskOver(s, e.t, e.what, e.t \in s.mapped)
      [] e.kind = "result" -> ApplyResult(s, e.what)
      [] e.kind = "complete" -> [s EXCEPT !.complete = TRUE, !.forced = @ \/ e.what = "timed out"]
      [] e.kind = "error" -> [s EXCEPT !.err = TRUE]

\* hasUncancelledBgToolUse
Gated(s) == s.blocks \ (s.cancelled \cup s.finished) # {}

\* Mutant: a task is enough reported by its start, the tool call is not looked at.
DoneUngated(s) == s.forced \/ (s.result # "none" /\ s.complete /\ s.live = {})

LogicalTurnDone(s) ==
    s.forced \/ (s.result # "none" /\ s.complete /\ s.live = {} /\ ~Gated(s))

-----------------------------------------------------------------------------
(* consumeTurnEvents *)

Outcome(s) == IF s.err THEN "error" ELSE IF s.result = "ok" THEN "success" ELSE "unfinished"

\* Mutant: the stream's end counts as success whatever the tasks did.
AnyOutcome(s) ==
    IF s.err THEN "error" ELSE IF s.result = "ok" \/ s.succeeded THEN "success" ELSE "unfinished"

\* ToTerminalTurnResult: at the end of the stream an earlier success holds,
\* unless a task failed.
TerminalOutcome(s) ==
    IF s.err THEN "error"
    ELSE IF s.result = "ok" \/ (~s.failed /\ s.succeeded) THEN "success"
    ELSE IF s.failed THEN "error"
    ELSE "unfinished"

\* Mutant: a deadline that was once armed is left armed.
RearmStays(s) == IF s.complete THEN "armed" ELSE grace

\* rearmGrace: a completed wave that is still gated has a deadline.
Rearm(s) == IF s.complete THEN "armed" ELSE "off"

\* An event is taken and applied; the deadline follows the wave.
Consume ==
    /\ queue # <<>> /\ queue' = Tail(queue)
    /\ st' = Apply(st, Head(queue))
    /\ IF LogicalTurnDone(st')
       THEN ret' = Outcome(st') /\ grace' = "off"
       ELSE UNCHANGED ret /\ grace' = Rearm(st')

TakeEvent ==
    /\ ret = "none" /\ Consume
    /\ UNCHANGED <<cli, closed, left>>

StreamEnds ==
    /\ ret = "none" /\ queue = <<>> /\ closed
    /\ ret' = TerminalOutcome(st) /\ grace' = "off"
    /\ UNCHANGED <<cli, queue, closed, st, left>>

\* Mutant: the deadline that took an event instead is not armed again.
GraceExpiresOnce ==
    /\ ret = "none" /\ grace = "armed"
    /\ \/ /\ st.err \/ queue = <<>>
          /\ ret' = IF st.err THEN "error" ELSE IF closed THEN TerminalOutcome(st) ELSE "transient"
          /\ grace' = "off" /\ UNCHANGED <<st, queue>>
       \/ /\ ~st.err /\ queue # <<>> /\ queue' = Tail(queue)
          /\ st' = Apply(st, Head(queue)) /\ grace' = "off"
          /\ ret' = IF LogicalTurnDone(st') THEN Outcome(st') ELSE ret
    /\ UNCHANGED <<cli, closed, left>>

\* The deadline: an error is returned; an event that is there goes first; else
\* the stall is transient and the session can be resumed.
GraceExpires ==
    /\ ret = "none" /\ grace = "armed"
    /\ \/ /\ st.err \/ queue = <<>>
          /\ ret' = IF st.err THEN "error" ELSE IF closed THEN TerminalOutcome(st) ELSE "transient"
          /\ grace' = "off" /\ UNCHANGED <<st, queue>>
       \/ ~st.err /\ Consume
    /\ UNCHANGED <<cli, closed, left>>

ContextEnds ==
    /\ ret = "none" /\ Spend("ctx")
    /\ ret' = "cancelled" /\ grace' = "off"
    /\ UNCHANGED <<cli, queue, closed, st>>

\* runRetryLoop asks again, on the same session and with a new state, when the
\* turn ended well and its last tool result is an error.
Retry ==
    /\ ret \in {"success", "unfinished"} /\ phase # "exited" /\ ~closed /\ Spend("retry")
    /\ phase' = "working"
    /\ wakeup' = [wakeup EXCEPT !.active = FALSE, !.fired = FALSE, !.latest = 0]
    /\ st' = Fresh /\ grace' = "off" /\ ret' = "none"
    /\ UNCHANGED <<task, last, queue, closed>>

-----------------------------------------------------------------------------

CliTask(t) == \/ UseTool(t) \/ RefuseTool(t) \/ StartTask(t) \/ EndTask(t)
              \/ NotifyTask(t) \/ UpdateTask(t)
Cli == \/ \E t \in Task : CliTask(t)
       \/ ScheduleWakeup \/ WakeupDue \/ EndWave \/ SafetyTimerFires \/ BadLine \/ CliExits
Loop == TakeEvent \/ StreamEnds \/ GraceExpires \/ ContextEnds \/ Retry

Next == Cli \/ Loop

Spec == Init /\ [][Next]_vars

\* The loop runs and its deadline comes; the CLI ends its waves, and its tasks
\* unless they hang; the safety timer fires.
Fairness ==
    /\ WF_vars(TakeEvent) /\ WF_vars(StreamEnds) /\ WF_vars(GraceExpires)
    /\ WF_vars(EndWave) /\ WF_vars(SafetyTimerFires)
    /\ \A t \in Task : /\ WF_vars(NotifyTask(t)) /\ WF_vars(UseTool(t) /\ task[t].begun)
                       /\ WF_vars(EndTask(t) /\ left["hang"] = 0)

FairSpec == Spec /\ Fairness

-----------------------------------------------------------------------------
(* Properties *)

\* Every variable holds a value of its kind, and every event names a task.
TypeOK ==
    /\ phase \in {"working", "parked", "exited"}
    /\ task \in [Task -> [use : BOOLEAN, kept : BOOLEAN, refused : BOOLEAN, begun : BOOLEAN,
                          end : {"none", "completed", "failed"},
                          noted : BOOLEAN, updated : BOOLEAN]]
    /\ wakeup \in [next : Nat, latest : Nat, tool : Nat,
                    active : BOOLEAN, fired : BOOLEAN, due : BOOLEAN]
    /\ \A i \in 1..Len(queue) :
         queue[i].kind \in {"use", "refused", "started", "notified", "updated"} => queue[i].t \in Task
    /\ st \in [result : {"none", "ok", "error"}, complete : BOOLEAN, succeeded : BOOLEAN, err : BOOLEAN,
                live : SUBSET Task, terminal : SUBSET Task, cancelled : SUBSET Task,
                finished : SUBSET Task, mapped : SUBSET Task, blocks : SUBSET Task,
                forced : BOOLEAN, failed : BOOLEAN]
    /\ closed \in BOOLEAN /\ grace \in {"off", "armed"}
    /\ ret \in {"none", "success", "error", "unfinished", "transient", "cancelled"}
    /\ last \in {"none", "ok", "error", "failed"}

Outstanding(t) == Known(t) /\ ~task[t].refused /\ ~task[t].noted

\* The turn returns as done, neither by the safety timer nor by the end of the
\* stream, nor because the continuation of a task has ended its wait for a wakeup.
ReturnsDone == /\ ret = "none" /\ ret' = "success" /\ queue # <<>> /\ Head(queue) # Early
               /\ ~st'.forced

\* A turn that is done leaves no background task behind: each was refused or has
\* ended and been heard of, however its messages were ordered (turn_state.go:203).
DoneIsQuiet ==
    [][ReturnsDone =>
        \A t \in Task : Known(t) => task[t].refused \/ task[t].noted \/ task[t].updated]_vars

\* When a turn is done the CLI has stopped and nothing of it is left in the
\* channel for the next turn to take as its own: the end of a wave before a
\* continuation is not taken for the last (turn_state.go:236-243).
NothingLeftOver ==
    [][ReturnsDone =>
        /\ phase # "working"
        /\ \A i \in 1..Len(queue') : queue'[i].kind \in {"error", "updated", "started"}]_vars

\* A turn that is done is over, for its tasks, for the CLI and for the channel.
DoneIsOver == DoneIsQuiet /\ NothingLeftOver

\* Success is told only when the CLI's last word was a good result: neither a
\* failed result nor a failed task came after it (turn_state.go:56-64).
SuccessIsEarned ==
    [][ret = "none" /\ ret' = "success" /\ ~st'.forced => last = "ok"]_vars

\* What a turn returns as done is over and as good as it says.
OutcomeIsTrue == DoneIsOver /\ SuccessIsEarned

\* A turn is given back as a transient stall only while a background task of
\* it is really out (claude_provider.go:195-211).
StallIsOwed ==
    [][ret = "none" /\ ret' = "transient" => \E t \in Task : Outstanding(t)]_vars

\* While the turn runs its deadline is armed exactly when a completed wave is
\* being held back (rearmGrace, claude_provider.go:138-144).
DeadlineIsForWave == ret = "none" => (grace = "armed" <=> st.complete)

\* The grace deadline runs while it should, and ends only what is stuck.
GraceIsOwed == [](TypeOK /\ DeadlineIsForWave) /\ StallIsOwed

\* A CLI that exits after a successful wave makes the turn a success
\* (turn_state.go:20-27, for a stream that the exit is taken to close).
ExitAfterSuccess == phase = "exited" /\ last = "ok" /\ ret = "none" ~> ret = "success"

\* A turn ends, whatever its tasks do, if the CLI does end its waves or its
\* stream is closed.
TurnEnds == ret = "none" ~> ret # "none"
=============================================================================
