---------------------------- MODULE ClaudeTurns ----------------------------
(***************************************************************************)
(* The turns of one claude.Session: callers that send a prompt and wait    *)
(* for the end of their turn, the read loop that handles what the CLI      *)
(* prints, and the safety timer of ScheduleWakeup.  A turn whose agent     *)
(* scheduled a wakeup is not over when its result is printed: the session  *)
(* suppresses the completion until the CLI continues on its own.           *)
(* handleResult takes and releases Session.mu several times; each stretch  *)
(* between two releases is an action.                                      *)
(***************************************************************************)
EXTENDS Naturals, Sequences, FiniteSets

CONSTANTS
    Caller,     \* goroutines that call Ask
    MaxTurns,   \* config.MaxTurns, 0 for no limit
    MaxBudget,  \* config.MaxBudgetUSD in results, each result costing one; 0 for no limit
    Scenarios   \* how often each event of the environment happens

Events == {"turn", "wakeup", "synthetic", "fail", "cancel",
           "overlap", "writeError", "stop"}

ASSUME ScenarioAssumption == Scenarios \subseteq [Events -> Nat]
ASSUME LimitAssumption == MaxTurns \in Nat /\ MaxBudget \in Nat

VARIABLES
    cur,        \* turnManager.currentTurnNumber
    lastWakeup, \* of each turn, the latest ScheduleWakeup block, 0 for none
    results,    \* turnManager.completedResults
    caller,     \* the callers; a caller that waits is in completionWaiters
    pending,    \* the turns of pendingTransientErrors
    wake,       \* wakeupState without its timer
    timer,      \* the safety timer: the result it would complete the turn with
    cost,       \* cumulativeCostUSD
    rl,         \* the read loop and the locals of handleResult
    cb,         \* the goroutine of a safety timer that has fired; history: whether one
                \* ended another wait than its own, or overtook this one
    strays,     \* timers that still run with nothing pointing at them, and the
                \* goroutines of timers that fired while cb was under way
    stopping,   \* Session.stopping, with done closed
    prompts, cli, out,  \* the CLI: its stdin, itself, its stdout
    completions,        \* history: how often each turn completed, and was announced
    answers,            \* history: the turn a caller asked, and the one it was answered with
    abandoned,          \* history: turns that ended, or saw a later turn begin, before their wakeup
    left        \* what is left of the scenario's budget

vars == <<cur, lastWakeup, results, caller, pending, wake, timer, cost, rl, cb, strays,
          stopping, prompts, cli, out, completions, answers, abandoned, left>>
env == <<prompts, cli, out>>

NoTimer == [turn |-> 0, usage |-> 0, wakeup |-> 0, at |-> 0]
NoWake == [active |-> FALSE, fired |-> FALSE, turn |-> 0, tool |-> 0, usage |-> 0]
Reading == [pc |-> "read", of |-> 0, err |-> FALSE, n |-> 0,
            suppressed |-> FALSE, turn |-> 0, tool |-> 0, usage |-> 0, counted |-> FALSE]
Idle == [pc |-> "idle", mine |-> 0, on |-> 0]
Quiet == [turn |-> 0, scheduled |-> FALSE, failing |-> FALSE, wakeups |-> {}, next |-> 1]

Turns == DOMAIN lastWakeup
Spend(e) == left[e] > 0 /\ left' = [left EXCEPT ![e] = @ - 1]

Init ==
    /\ left \in Scenarios
    /\ cur = 0
    /\ lastWakeup = [t \in 1 .. left["turn"] |-> 0]
    /\ results = [t \in 1 .. left["turn"] |-> [done |-> FALSE, of |-> 0, usage |-> 0,
                                         err |-> FALSE, late |-> FALSE]]
    /\ caller = [c \in Caller |-> Idle]
    /\ pending = {}
    /\ wake = NoWake /\ timer = NoTimer /\ cost = 0
    /\ rl = Reading
    /\ cb = [pc |-> "off", turn |-> 0, usage |-> 0, wakeup |-> 0, stale |-> FALSE]
    /\ strays = {}
    /\ stopping = FALSE
    /\ prompts = <<>> /\ cli = Quiet /\ out = <<>>
    /\ completions = [t \in 1 .. left["turn"] |-> [done |-> 0, told |-> 0, usage |-> 0]]
    /\ answers = {} /\ abandoned = {}

-----------------------------------------------------------------------------
(* The CLI. *)

CliTakes ==
    /\ cli.turn = 0 /\ prompts # <<>> /\ ~stopping
    /\ cli' = [cli EXCEPT !.turn = Head(prompts), !.scheduled = FALSE, !.failing = FALSE]
    /\ prompts' = Tail(prompts)
    /\ UNCHANGED <<cur, lastWakeup, results, caller, pending, wake, timer, cost,
                   rl, cb, strays, stopping, out, completions, answers, abandoned, left>>

\* A scheduled wakeup comes due and the CLI continues the turn by itself.
CliContinues ==
    /\ cli.turn = 0 /\ prompts = <<>> /\ ~stopping
    /\ \E t \in cli.wakeups :
        cli' = [cli EXCEPT !.turn = t, !.scheduled = FALSE, !.failing = FALSE,
                           !.wakeups = @ \ {t}]
    /\ UNCHANGED <<cur, lastWakeup, results, caller, pending, wake, timer, cost,
                   rl, cb, strays, stopping, prompts, out, completions, answers, abandoned,
                   left>>

CliSchedules ==
    /\ cli.turn # 0 /\ ~cli.scheduled /\ ~cli.failing /\ ~stopping /\ Spend("wakeup")
    /\ cli' = [cli EXCEPT !.scheduled = TRUE, !.wakeups = @ \cup {cli.turn}, !.next = @ + 1]
    /\ out' = Append(out, [kind |-> "wakeup", id |-> cli.next, of |-> cli.turn, err |-> FALSE])
    /\ UNCHANGED <<cur, lastWakeup, results, caller, pending, wake, timer, cost,
                   rl, cb, strays, stopping, prompts, completions, answers, abandoned>>

\* The API failed: the CLI prints a synthetic assistant message, then a result.
CliApiError ==
    /\ cli.turn # 0 /\ ~cli.scheduled /\ ~cli.failing /\ ~stopping /\ Spend("synthetic")
    /\ cli' = [cli EXCEPT !.failing = TRUE]
    /\ out' = Append(out, [kind |-> "synthetic", id |-> 0, of |-> cli.turn, err |-> TRUE])
    /\ UNCHANGED <<cur, lastWakeup, results, caller, pending, wake, timer, cost,
                   rl, cb, strays, stopping, prompts, completions, answers, abandoned>>

CliResult ==
    /\ cli.turn # 0 /\ ~stopping
    /\ \E err \in BOOLEAN :
        /\ IF err THEN Spend("fail") ELSE UNCHANGED left
        /\ out' = Append(out, [kind |-> "result", id |-> 0, of |-> cli.turn, err |-> err])
    /\ cli' = [cli EXCEPT !.turn = 0]
    /\ UNCHANGED <<cur, lastWakeup, results, caller, pending, wake, timer, cost,
                   rl, cb, strays, stopping, prompts, completions, answers, abandoned>>

-----------------------------------------------------------------------------
(* The callers: Ask is SendMessage, then WaitForTurn. *)

Outstanding == \E c \in Caller : caller[c].pc # "idle"

\* Without "overlap" a caller sends when nobody waits and the CLI owes nothing.
Serial == /\ ~Outstanding /\ prompts = <<>> /\ out = <<>> /\ cli.turn = 0
          /\ rl.pc \in {"read", "announce"}
MaySend == Serial \/ left["overlap"] > 0

\* Mutant: SendMessage does not clear the suppression of the previous turn.
ResetKeeps == UNCHANGED <<wake, timer>>

\* wakeupState.reset
Reset == wake' = NoWake /\ timer' = NoTimer

SendMessage(c) ==
    /\ caller[c].pc = "idle" /\ cur < Cardinality(Turns)
    /\ MaySend
    /\ ~stopping /\ pending = {}
    /\ cur' = cur + 1
    /\ Reset
    /\ abandoned' = abandoned \cup cli.wakeups
    /\ \/ /\ prompts' = Append(prompts, cur + 1)
          /\ caller' = [caller EXCEPT ![c] = [pc |-> "sent", mine |-> cur + 1, on |-> 0]]
          /\ UNCHANGED left
       \/ Spend("writeError") /\ UNCHANGED <<prompts, caller>>
    /\ UNCHANGED <<lastWakeup, results, pending, cost, rl, cb, strays, stopping, cli, out,
                   completions, answers>>

Answered(c, t) ==
    /\ caller' = [caller EXCEPT ![c] = Idle]
    /\ answers' = answers \cup {[asked |-> caller[c].mine, of |-> results[t].of]}

\* Mutant: the waiter registers without looking for a result that came first.
WaitForTurnBlind(c) ==
    /\ caller[c].pc = "sent"
    /\ caller' = [caller EXCEPT ![c] = [@ EXCEPT !.pc = "waiting", !.on = cur]]
    /\ UNCHANGED answers
    /\ UNCHANGED <<cur, lastWakeup, results, pending, wake, timer, cost, rl, cb, strays,
                   stopping, env, completions, abandoned, left>>

\* Mutant: any result that is there is taken for the turn's.
WaitForTurnAny(c) ==
    /\ caller[c].pc = "sent"
    /\ \E t \in 1 .. cur :
        IF results[t].done
        THEN Answered(c, t)
        ELSE /\ caller' = [caller EXCEPT ![c] = [@ EXCEPT !.pc = "waiting", !.on = cur]]
             /\ UNCHANGED answers
    /\ UNCHANGED <<cur, lastWakeup, results, pending, wake, timer, cost, rl, cb, strays,
                   stopping, env, completions, abandoned, left>>

\* The result may have come first; otherwise register, under one lock.
WaitForTurn(c) ==
    /\ caller[c].pc = "sent"
    /\ IF results[cur].done
       THEN Answered(c, cur)
       ELSE /\ caller' = [caller EXCEPT ![c] = [@ EXCEPT !.pc = "waiting", !.on = cur]]
            /\ UNCHANGED answers
    /\ UNCHANGED <<cur, lastWakeup, results, pending, wake, timer, cost, rl, cb, strays,
                   stopping, env, completions, abandoned, left>>

\* The caller's context ends; it takes its channel out of completionWaiters.
CancelWait(c) ==
    /\ caller[c].pc = "waiting" /\ Spend("cancel")
    /\ caller' = [caller EXCEPT ![c] = Idle]
    /\ UNCHANGED <<cur, lastWakeup, results, pending, wake, timer, cost, rl, cb, strays,
                   stopping, env, completions, answers, abandoned>>

Stop ==
    /\ ~stopping /\ Spend("stop")
    /\ stopping' = TRUE
    /\ Reset
    /\ UNCHANGED <<cur, lastWakeup, results, caller, pending, cost, rl, cb, strays, env,
                   completions, answers, abandoned>>

-----------------------------------------------------------------------------
(* The end of a turn. *)

\* turnManager.CompleteTurn: cache the result, then wake everyone who waits.
CompleteTurn(t, result) ==
    /\ results' = [results EXCEPT ![t] = result]
    /\ caller' = [c \in Caller |-> IF caller[c].pc = "waiting" /\ caller[c].on = t
                                   THEN Idle ELSE caller[c]]
    /\ answers' = answers \cup
        {[asked |-> caller[c].mine, of |-> result.of] :
            c \in {d \in Caller : caller[d].pc = "waiting" /\ caller[d].on = t}}
    /\ completions' = [completions EXCEPT ![t].done = @ + 1, ![t].usage = @ + result.usage]

\* emit of the TurnCompleteEvent; dropped when the session is stopping.
Announce(t) ==
    completions' = IF stopping THEN completions
                   ELSE [completions EXCEPT ![t].told = @ + 1]

-----------------------------------------------------------------------------
(* The read loop. *)

ReadWakeup ==
    /\ rl.pc = "read" /\ out # <<>> /\ Head(out).kind = "wakeup" /\ ~stopping
    /\ out' = Tail(out)
    /\ lastWakeup' = [lastWakeup EXCEPT ![cur] = Head(out).id]
    /\ UNCHANGED <<cur, results, caller, pending, wake, timer, cost, rl, cb, strays, stopping,
                   prompts, cli, completions, answers, abandoned, left>>

\* Mutant: the error is filed under the turn to come.
ReadSyntheticAhead ==
    /\ rl.pc = "read" /\ out # <<>> /\ Head(out).kind = "synthetic" /\ ~stopping
    /\ out' = Tail(out)
    /\ rl' = [rl EXCEPT !.pc = "synthetic", !.n = cur + 1]
    /\ UNCHANGED <<cur, lastWakeup, results, caller, pending, wake, timer, cost, cb, strays,
                   stopping, prompts, cli, completions, answers, abandoned, left>>

\* handleAssistant reads the turn number before it takes the lock.
ReadSynthetic ==
    /\ rl.pc = "read" /\ out # <<>> /\ Head(out).kind = "synthetic" /\ ~stopping
    /\ out' = Tail(out)
    /\ rl' = [rl EXCEPT !.pc = "synthetic", !.n = cur]
    /\ UNCHANGED <<cur, lastWakeup, results, caller, pending, wake, timer, cost, cb, strays,
                   stopping, prompts, cli, completions, answers, abandoned, left>>

RecordTransient ==
    /\ rl.pc = "synthetic"
    /\ pending' = pending \cup {rl.n}
    /\ rl' = Reading
    /\ UNCHANGED <<cur, lastWakeup, results, caller, wake, timer, cost, cb, strays, stopping,
                   env, completions, answers, abandoned, left>>

ReadResult ==
    /\ rl.pc = "read" /\ out # <<>> /\ Head(out).kind = "result" /\ ~stopping
    /\ out' = Tail(out)
    /\ rl' = [rl EXCEPT !.pc = "consume", !.of = Head(out).of, !.err = Head(out).err, !.n = cur]
    /\ UNCHANGED <<cur, lastWakeup, results, caller, pending, wake, timer, cost, cb, strays,
                   stopping, prompts, cli, completions, answers, abandoned, left>>

\* Mutant: the transient error is looked at and not taken out.
ConsumeTransientKeeps ==
    /\ rl.pc = "consume"
    /\ rl' = [rl EXCEPT !.pc = "snapshot", !.err = @ \/ rl.n \in pending]
    /\ UNCHANGED pending
    /\ UNCHANGED <<cur, lastWakeup, results, caller, wake, timer, cost, cb, strays, stopping,
                   env, completions, answers, abandoned, left>>

ConsumeTransient ==
    /\ rl.pc = "consume"
    /\ rl' = [rl EXCEPT !.pc = "snapshot", !.err = @ \/ rl.n \in pending]
    /\ pending' = pending \ {rl.n}
    /\ UNCHANGED <<cur, lastWakeup, results, caller, wake, timer, cost, cb, strays, stopping,
                   env, completions, answers, abandoned, left>>

\* Mutant: the suppression stays active while the lock is released.
SnapshotKeepsActive ==
    /\ rl.pc = "snapshot"
    /\ timer' = NoTimer
    /\ wake' = [wake EXCEPT !.fired = FALSE]
    /\ rl' = IF wake.fired THEN Reading
             ELSE [rl EXCEPT !.pc = "number", !.suppressed = wake.active,
                             !.turn = wake.turn, !.tool = wake.tool]
    /\ UNCHANGED <<cur, lastWakeup, results, caller, pending, cost, cb, strays, stopping,
                   env, completions, answers, abandoned, left>>

\* Stop the timer, end the suppression and remember it; a turn the timer has
\* completed is not completed again.
SnapshotWakeup ==
    /\ rl.pc = "snapshot"
    /\ timer' = NoTimer
    /\ wake' = [wake EXCEPT !.fired = FALSE, !.active = FALSE]
    /\ rl' = IF wake.fired THEN Reading
             ELSE [rl EXCEPT !.pc = "number", !.suppressed = wake.active,
                             !.turn = wake.turn, !.tool = wake.tool]
    /\ abandoned' = IF wake.fired /\ lastWakeup[cur] # wake.tool
                    THEN abandoned \cup {wake.turn} ELSE abandoned
    /\ UNCHANGED <<cur, lastWakeup, results, caller, pending, cost, cb, strays, stopping,
                   env, completions, answers, left>>

ReadTurnNumber ==
    /\ rl.pc = "number"
    /\ rl' = [rl EXCEPT !.pc = "usage", !.n = cur]
    /\ UNCHANGED <<cur, lastWakeup, results, caller, pending, wake, timer, cost, cb, strays,
                   stopping, env, completions, answers, abandoned, left>>

MaxTurnsReached == MaxTurns > 0 /\ rl.n >= MaxTurns

\* Mutant: any wakeup of the turn suppresses, the one already waited for too.
SuppressesAgain == ~rl.err /\ ~MaxTurnsReached /\ lastWakeup[rl.n] # 0

\* Mutant: a continuation always completes the turn.
SuppressesOnce == ~rl.err /\ ~MaxTurnsReached /\ lastWakeup[rl.n] # 0 /\ ~rl.suppressed

\* The latest wakeup is one that this turn was not yet suppressed for.
Suppresses ==
    /\ ~rl.err /\ ~MaxTurnsReached
    /\ lastWakeup[rl.n] # 0
    /\ ~(rl.suppressed /\ lastWakeup[rl.n] = rl.tool)

\* result.TurnNumber: a continuation completes the turn that was suppressed.
ResultTurn == IF rl.suppressed THEN rl.turn ELSE rl.n

\* Mutant: the usage of earlier waves is read and left where it is.
TakeUsageTwice ==
    /\ rl.pc = "usage"
    /\ rl' = [rl EXCEPT !.pc = IF Suppresses THEN "suppress" ELSE "limits",
                        !.usage = 1 + wake.usage]
    /\ UNCHANGED wake
    /\ UNCHANGED <<cur, lastWakeup, results, caller, pending, timer, cost, cb, strays, stopping,
                   env, completions, answers, abandoned, left>>

TakeUsage ==
    /\ rl.pc = "usage"
    /\ wake' = [wake EXCEPT !.usage = 0]
    /\ rl' = [rl EXCEPT !.pc = IF Suppresses THEN "suppress" ELSE "limits",
                        !.usage = 1 + wake.usage]
    /\ UNCHANGED <<cur, lastWakeup, results, caller, pending, timer, cost, cb, strays, stopping,
                   env, completions, answers, abandoned, left>>

OverBudget(c) == MaxBudget > 0 /\ c >= MaxBudget

\* Mutant: the turn is suppressed with no timer behind it.
SuppressUntimed ==
    /\ rl.pc = "suppress"
    /\ cost' = cost + 1
    /\ wake' = [wake EXCEPT !.turn = IF @ = 0 THEN rl.n ELSE @, !.tool = lastWakeup[rl.n],
                            !.usage = @ + rl.usage, !.active = TRUE]
    /\ rl' = Reading
    /\ UNCHANGED timer
    /\ UNCHANGED <<cur, lastWakeup, results, caller, pending, cb, strays, stopping, env,
                   completions, answers, abandoned, left>>

\* Wait for the continuation, with the safety timer behind it; over budget the
\* turn completes after all.
Suppress ==
    /\ rl.pc = "suppress"
    /\ cost' = cost + 1
    /\ LET first == IF wake.turn = 0 THEN rl.n ELSE wake.turn
       IN  IF OverBudget(cost + 1)
           THEN /\ wake' = [wake EXCEPT !.turn = first, !.tool = 0, !.usage = 0, !.active = FALSE]
                /\ rl' = [rl EXCEPT !.pc = "limits", !.counted = TRUE]
                /\ UNCHANGED timer
           ELSE /\ wake' = [wake EXCEPT !.turn = first, !.tool = lastWakeup[rl.n],
                                        !.usage = @ + rl.usage, !.active = TRUE]
                /\ timer' = [turn |-> ResultTurn, usage |-> rl.usage,
                            wakeup |-> lastWakeup[rl.n], at |-> cost + 1]
                /\ rl' = Reading
    /\ UNCHANGED <<cur, lastWakeup, results, caller, pending, cb, strays, stopping, env,
                   completions, answers, abandoned, left>>

CheckLimits ==
    /\ rl.pc = "limits"
    /\ cost' = IF rl.counted THEN cost ELSE cost + 1
    /\ rl' = [rl EXCEPT !.pc = "complete",
                        !.err = @ \/ MaxTurnsReached \/ OverBudget(cost')]
    /\ UNCHANGED <<cur, lastWakeup, results, caller, pending, wake, timer, cb, strays, stopping,
                   env, completions, answers, abandoned, left>>

\* Mutant: the event goes out before the result is recorded.
ReadLoopAnnouncesFirst ==
    /\ rl.pc = "complete"
    /\ Announce(ResultTurn)
    /\ rl' = [rl EXCEPT !.pc = "announce"]
    /\ UNCHANGED <<results, caller, answers, cur, lastWakeup, pending, wake, timer, cost,
                   cb, strays, stopping, env, left, abandoned>>

ReadLoopCompletes ==
    /\ rl.pc = "complete"
    /\ CompleteTurn(ResultTurn, [done |-> TRUE, of |-> rl.of, usage |-> rl.usage, err |-> rl.err,
                              late |-> FALSE])
    /\ rl' = [rl EXCEPT !.pc = "announce"]
    /\ abandoned' = IF rl.err /\ lastWakeup[rl.n] # 0 THEN abandoned \cup {ResultTurn}
                    ELSE abandoned
    /\ UNCHANGED <<cur, lastWakeup, pending, wake, timer, cost, cb, strays, stopping, env,
                   left>>

ReadLoopAnnounces ==
    /\ rl.pc = "announce"
    /\ Announce(ResultTurn)
    /\ rl' = Reading
    /\ UNCHANGED <<cur, lastWakeup, results, caller, pending, wake, timer, cost, cb, strays,
                   stopping, env, answers, abandoned, left>>

-----------------------------------------------------------------------------
(* The safety timer.  Stopping it does not stop a goroutine it has started. *)

Stray(pc, t) == [pc |-> pc, turn |-> t.turn, usage |-> t.usage, wakeup |-> t.wakeup, at |-> t.at]

TimerFires ==
    /\ timer # NoTimer
    /\ timer' = NoTimer
    /\ IF cb.pc = "off"
       THEN /\ cb' = [cb EXCEPT !.pc = "lock", !.turn = timer.turn, !.usage = timer.usage,
                                !.wakeup = timer.wakeup]
            /\ UNCHANGED strays
       ELSE strays' = strays \cup {Stray("lock", timer)} /\ UNCHANGED cb
    /\ UNCHANGED <<cur, lastWakeup, results, caller, pending, wake, cost, rl, stopping,
                   env, completions, answers, abandoned, left>>

\* The pointer to a timer is dropped and the timer not stopped: one that was armed
\* again meanwhile goes on.
TakeOver ==
    /\ wake' = [wake EXCEPT !.active = FALSE, !.fired = TRUE, !.usage = 0]
    /\ timer' = NoTimer
Orphans == IF timer = NoTimer THEN {} ELSE {Stray("armed", timer)}

TimerTakesOver ==
    /\ cb.pc = "lock"
    /\ IF wake.active
       THEN /\ TakeOver
            /\ cb' = [cb EXCEPT !.pc = "complete",
                                !.stale = @ \/ cb.wakeup # wake.tool \/ timer # NoTimer]
            /\ strays' = strays \cup Orphans
       ELSE cb' = [cb EXCEPT !.pc = "off"] /\ UNCHANGED <<wake, timer, strays>>
    /\ UNCHANGED <<cur, lastWakeup, results, caller, pending, cost, rl, stopping, env,
                   completions, answers, abandoned, left>>

TimerCompletes ==
    /\ cb.pc = "complete"
    /\ CompleteTurn(cb.turn, [done |-> TRUE, of |-> cb.turn, usage |-> cb.usage,
                              err |-> FALSE, late |-> TRUE])
    /\ cb' = [cb EXCEPT !.pc = "announce"]
    /\ UNCHANGED <<cur, lastWakeup, pending, wake, timer, cost, rl, strays, stopping, env,
                   abandoned, left>>

TimerAnnounces ==
    /\ cb.pc = "announce"
    /\ Announce(cb.turn)
    /\ cb' = [cb EXCEPT !.pc = "off"]
    /\ UNCHANGED <<cur, lastWakeup, results, caller, pending, wake, timer, cost, rl, strays,
                   stopping, env, answers, abandoned, left>>

StrayFires(s) ==
    /\ s.pc = "armed"
    /\ strays' = (strays \ {s}) \cup {[s EXCEPT !.pc = "lock"]}
    /\ UNCHANGED <<cur, lastWakeup, results, caller, pending, wake, timer, cost, rl, cb,
                   stopping, env, completions, answers, abandoned, left>>

StrayTakesOver(s) ==
    /\ s.pc = "lock"
    /\ IF wake.active
       THEN /\ TakeOver
            /\ cb' = [cb EXCEPT !.stale = TRUE]
            /\ strays' = (strays \ {s}) \cup {[s EXCEPT !.pc = "complete"]} \cup Orphans
       ELSE strays' = strays \ {s} /\ UNCHANGED <<wake, timer, cb>>
    /\ UNCHANGED <<cur, lastWakeup, results, caller, pending, cost, rl, stopping, env,
                   completions, answers, abandoned, left>>

StrayCompletes(s) ==
    /\ s.pc = "complete"
    /\ CompleteTurn(s.turn, [done |-> TRUE, of |-> s.turn, usage |-> s.usage,
                             err |-> FALSE, late |-> TRUE])
    /\ strays' = (strays \ {s}) \cup {[s EXCEPT !.pc = "announce"]}
    /\ UNCHANGED <<cur, lastWakeup, pending, wake, timer, cost, rl, cb, stopping, env,
                   abandoned, left>>

StrayAnnounces(s) ==
    /\ s.pc = "announce"
    /\ Announce(s.turn)
    /\ strays' = strays \ {s}
    /\ UNCHANGED <<cur, lastWakeup, results, caller, pending, wake, timer, cost, rl, cb,
                   stopping, env, answers, abandoned, left>>

-----------------------------------------------------------------------------

Cli == CliTakes \/ CliContinues \/ CliSchedules \/ CliApiError \/ CliResult
Ask(c) == SendMessage(c) \/ WaitForTurn(c) \/ CancelWait(c)
ReadLoop ==
    \/ ReadWakeup \/ ReadSynthetic \/ RecordTransient
    \/ ReadResult \/ ConsumeTransient \/ SnapshotWakeup \/ ReadTurnNumber \/ TakeUsage
    \/ Suppress \/ CheckLimits \/ ReadLoopCompletes \/ ReadLoopAnnounces
Strays ==
    \E s \in strays :
        StrayFires(s) \/ StrayTakesOver(s) \/ StrayCompletes(s) \/ StrayAnnounces(s)
SafetyTimer ==
    \/ TimerFires \/ TimerTakesOver \/ TimerCompletes \/ TimerAnnounces
    \/ Strays

Next == Cli \/ (\E c \in Caller : Ask(c)) \/ Stop \/ ReadLoop \/ SafetyTimer

Spec == Init /\ [][Next]_vars

\* The goroutines run, the timer fires, and the CLI answers what it is asked;
\* it need not continue a turn it scheduled a wakeup for.
Fairness ==
    /\ WF_vars(CliTakes) /\ WF_vars(CliResult)
    /\ WF_vars(ReadLoop) /\ WF_vars(SafetyTimer)
    /\ \A c \in Caller : WF_vars(WaitForTurn(c))

FairSpec == Spec /\ Fairness

-----------------------------------------------------------------------------
(* Properties. *)

TypeOK ==
    /\ cur \in 0 .. Cardinality(Turns)
    /\ \A c \in Caller : /\ caller[c].pc \in {"idle", "sent", "waiting"}
                          /\ caller[c].mine \in 0 .. cur /\ caller[c].on \in 0 .. cur
    /\ pending \subseteq 1 .. cur
    /\ wake.turn \in 0 .. cur /\ timer.turn \in 0 .. cur /\ cb.turn \in 0 .. cur
    /\ rl.pc \in {"read", "synthetic", "consume", "snapshot", "number", "usage",
                  "suppress", "limits", "complete", "announce"}
    /\ cb.pc \in {"off", "lock", "complete", "announce"}
    /\ \A s \in strays : /\ s.pc \in {"armed", "lock", "complete", "announce"}
                          /\ s.turn \in 0 .. cur

Overlaps == left["overlap"] > 0

\* Turns follow one another and none ended before a wakeup of its own: what the
\* CLI prints can then be told apart.
Distinct == ~Overlaps /\ ~stopping /\ abandoned = {} /\ ~cb.stale

\* The turn manager as a rendezvous: a result is a promise kept, and whoever
\* waits is in completionWaiters of its turn.
Recorded == {t \in Turns : results[t].done}
WaitsFor == [c \in Caller |-> IF caller[c].pc = "waiting" THEN caller[c].on ELSE 0]
P == INSTANCE Promises WITH kept <- Recorded, waits <- WaitsFor, None <- 0

\* The turn manager implements Promises: a result that came first is found, one
\* that comes later wakes its waiters as it is recorded, and none is lost
\* between the two critical sections (turn.go, WaitForTurn and CompleteTurn).
ResultsArePromises == P!Spec

\* Whoever sees a TurnCompleteEvent finds the turn's result recorded
\* (session.go, the ordering finalizeTurn is commented with).
AnnouncedIsRecorded == \A t \in Turns : completions[t].told > 0 => results[t].done

\* Callers that take turns are answered with the result of their own prompt.
\* The exception is a turn that began while an earlier one still had a wakeup
\* scheduled: the session cannot tell its late continuation apart.
OwnAnswer ==
    \A a \in answers : a.asked # a.of => Overlaps \/ a.of \in abandoned

\* Nor does a turn complete twice, by its continuation and by the safety timer
\* (session.go, handleResult on timerFired and on active).
CompletedOnce ==
    Distinct => \A t \in Turns : completions[t].done <= 1

AtRest == /\ rl.pc = "read" /\ cb.pc = "off" /\ out = <<>> /\ prompts = <<>>
          /\ cli.turn = 0 /\ ~wake.active /\ ~stopping

Reported ==
    LET sum[t \in 0 .. cur] == IF t = 0 THEN 0 ELSE sum[t - 1] + completions[t].usage
    IN  sum[cur]

\* What the callers are told a logical turn cost adds up, over all the waves of
\* a chain of wakeups, to what the session has spent.
UsageReported ==
    AtRest /\ Distinct => Reported = cost

\* A turn is reported once, as a whole, and after it is recorded.
ReportedOnce == TypeOK /\ AnnouncedIsRecorded /\ CompletedOnce /\ UsageReported

\* A suppressed turn always has a timer behind it, or the goroutine of one.
SuppressionIsTimed ==
    wake.active => timer # NoTimer \/ cb.pc = "lock" \/ \E s \in strays : s.pc = "lock"

\* The session waits only while the CLI still owes it something, a turn is
\* not suppressed a second time for the same wakeup.
SuppressionIsOwed ==
    wake.active /\ Distinct =>
        cli.wakeups # {} \/ cli.turn # 0 \/ out # <<>> \/ rl.pc # "read"

\* A turn that succeeded, and not by the timer, has no wakeup to come.
NotOverEarly ==
    \A t \in Turns :
        results[t].done /\ ~results[t].err /\ ~results[t].late /\ Distinct
            => t \notin cli.wakeups

\* A prompt is refused for a transient error only until the result that
\* follows the error is handled (session.go, ErrPendingTransientResult).
RefusalEnds ==
    pending # {} /\ ~Overlaps /\ ~stopping =>
        cli.turn # 0 \/ out # <<>> \/ rl.pc = "consume"

\* The timer a later prompt or result can stop is never that of an earlier turn
\* (session.go, SendMessage: "A safety timer for Turn N must not fire after Turn
\* N+1 has started").  One that runs on out of their reach was orphaned by the
\* goroutine of an earlier timer, which ended the wait for another wakeup.
TimerIsCurrent ==
    ~Overlaps =>
        /\ timer.turn \in {0, cur}
        /\ \A s \in strays : s.pc = "armed" => s.turn = cur \/ cb.stale

\* A completion is held back as long as there is something to wait for and
\* somebody to end it, and nothing of a wave outlives it.
SuppressionHolds ==
    SuppressionIsTimed /\ SuppressionIsOwed /\ NotOverEarly /\ RefusalEnds /\ TimerIsCurrent

\* The timer completes a turn only when no continuation came (session.go,
\* completeWakeupSuppressedTurn): never one suppressed again for a later wakeup.
NoContinuationCame == ~cb.stale

\* Every Ask returns, also when the CLI never continues a suppressed turn:
\* the safety timer completes it.
AskReturns ==
    \A c \in Caller :
        caller[c].pc = "waiting" /\ ~Overlaps
            ~> caller[c].pc # "waiting" \/ stopping \/ cb.stale
=============================================================================
