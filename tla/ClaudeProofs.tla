---------------------------- MODULE ClaudeProofs ----------------------------
(***************************************************************************)
(* The turns of a claude session, for any callers, limits and scenarios.   *)
(* The turn manager implements Promises.  Then three inductive invariants, *)
(* each under the assumption of the properties it is for: AnyInv whatever  *)
(* callers and CLI do, SerialInv where prompts do not overlap, LinkedInv   *)
(* and CountedInv where turns follow one another.                          *)
(***************************************************************************)
EXTENDS ClaudeTurns, FiniteSetTheorems, TLAPS

\* The turns are numbered from one; a caller that waits, waits for one of them
\* that has no result yet.
Waiting ==
    /\ \E n \in Nat : Turns = 1 .. n /\ cur \in 0 .. n
    /\ DOMAIN results = Turns
    /\ caller \in [Caller -> [pc : {"idle", "sent", "waiting"}, mine : Nat, on : Nat]]
    /\ \A c \in Caller : /\ caller[c].pc = "sent" => cur \in Turns
                         /\ caller[c].pc = "waiting" => /\ caller[c].on \in Turns
                                                        /\ ~results[caller[c].on].done

\* What Waiting and the mapping to Promises look at.
watched == <<cur, Turns, results, caller>>

\* A session starts with nothing sent and nothing recorded.
LEMMA WaitingInit == Init => Waiting /\ P!Init
<1> SUFFICES ASSUME Init PROVE Waiting /\ P!Init
  OBVIOUS
<1>1. PICK sc \in Scenarios : left = sc
  BY DEF Init
<1>2. left["turn"] \in Nat
  BY <1>1, ScenarioAssumption DEF Events
<1>3. Turns = 1 .. left["turn"] /\ DOMAIN results = Turns
  BY DEF Init, Turns
<1>4. \A t \in Turns : ~results[t].done
  BY <1>3 DEF Init
<1>5. Waiting
  BY <1>2, <1>3 DEF Init, Waiting, Idle
<1>6. P!Init
  BY <1>4 DEF Init, P!Init, Recorded, WaitsFor, Idle
<1> QED BY <1>5, <1>6

\* A step that touches no turn and no caller is a stutter of Promises.
LEMMA Stutters ==
    Waiting /\ UNCHANGED watched => Waiting' /\ UNCHANGED <<Recorded, WaitsFor>>
BY DEF Waiting, watched, Recorded, WaitsFor

\* SendMessage numbers a turn and releases nobody.
LEMMA SendStep ==
    ASSUME NEW c \in Caller, Waiting, SendMessage(c)
    PROVE  Waiting' /\ UNCHANGED <<Recorded, WaitsFor>>
<1>1. PICK n \in Nat : Turns = 1 .. n /\ cur \in 0 .. n
  BY DEF Waiting
<1>2. Cardinality(Turns) = n
  BY <1>1, FS_Interval, Z3
<1>3. /\ cur' = cur + 1 /\ cur' \in 1 .. n
      /\ UNCHANGED <<Turns, results>>
      /\ caller[c].pc = "idle"
      /\ \/ UNCHANGED caller
         \/ caller' = [caller EXCEPT ![c] = [pc |-> "sent", mine |-> cur + 1, on |-> 0]]
  BY <1>1, <1>2 DEF SendMessage, Turns
<1>4. Waiting'
  <2>1. Turns' = 1 .. n /\ cur' \in 0 .. n /\ DOMAIN results' = Turns' /\ cur' \in Turns'
    BY <1>1, <1>3 DEF Waiting
  <2>2. caller' \in [Caller -> [pc : {"idle", "sent", "waiting"}, mine : Nat, on : Nat]]
    BY <1>1, <1>3 DEF Waiting
  <2>3. \A d \in Caller : caller'[d] = caller[d] \/ caller'[d].pc = "sent"
    BY <1>3 DEF Waiting
  <2> QED BY <1>3, <2>1, <2>2, <2>3 DEF Waiting
<1>5. UNCHANGED <<Recorded, WaitsFor>>
  <2>1. Recorded' = Recorded
    BY <1>3 DEF Recorded
  <2>2. \A d \in Caller : caller'[d].pc = "waiting" <=> caller[d].pc = "waiting"
    BY <1>3 DEF Waiting
  <2>3. \A d \in Caller : caller'[d].pc = "waiting" => caller'[d].on = caller[d].on
    <3> SUFFICES ASSUME NEW d \in Caller, caller'[d].pc = "waiting" PROVE caller'[d].on = caller[d].on
      OBVIOUS
    <3>1. DOMAIN caller = Caller
      BY DEF Waiting
    <3>2. CASE d = c
      BY <2>2, <1>3, <3>2
    <3>3. CASE d # c
      BY <1>3, <3>1, <3>3
    <3> QED BY <3>2, <3>3
  <2>4. WaitsFor' = WaitsFor
    BY <2>2, <2>3 DEF WaitsFor
  <2> QED BY <2>1, <2>4
<1> QED BY <1>4, <1>5

\* WaitForTurn returns a result that is there, or goes to sleep on one that is not.
LEMMA WaitStep ==
    ASSUME NEW c \in Caller, Waiting, WaitForTurn(c)
    PROVE  Waiting' /\ [P!Next]_<<Recorded, WaitsFor>>
<1>1. UNCHANGED <<cur, Turns, results>> /\ caller[c].pc = "sent" /\ cur \in Turns
  BY DEF WaitForTurn, Turns, Waiting
<1>2. CASE results[cur].done
  <2>1. caller' = [caller EXCEPT ![c] = Idle]
    BY <1>2 DEF WaitForTurn, Answered
  <2>2. Waiting'
    BY <1>1, <2>1 DEF Waiting, Idle
  <2>3. UNCHANGED <<Recorded, WaitsFor>>
    BY <1>1, <2>1 DEF Waiting, Recorded, WaitsFor, Idle
  <2> QED BY <2>2, <2>3
<1>3. CASE ~results[cur].done
  <2>1. caller' = [caller EXCEPT ![c] = [@ EXCEPT !.pc = "waiting", !.on = cur]]
    BY <1>3 DEF WaitForTurn
  <2>2. cur \in Nat /\ cur # 0
    BY <1>1 DEF Waiting
  <2>3. Waiting'
    BY <1>1, <1>3, <2>1, <2>2 DEF Waiting
  <2>4. /\ WaitsFor[c] = 0 /\ WaitsFor'[c] = cur /\ cur \notin Recorded
        /\ WaitsFor' = [WaitsFor EXCEPT ![c] = WaitsFor'[c]]
        /\ UNCHANGED Recorded
    BY <1>1, <1>3, <2>1 DEF Waiting, Recorded, WaitsFor
  <2> QED BY <2>2, <2>3, <2>4 DEF P!Next, P!Wait
<1> QED BY <1>2, <1>3

\* A caller whose context ends takes itself out.
LEMMA CancelStep ==
    ASSUME NEW c \in Caller, Waiting, CancelWait(c)
    PROVE  Waiting' /\ [P!Next]_<<Recorded, WaitsFor>>
<1>1. /\ UNCHANGED <<cur, Turns, results>> /\ caller[c].pc = "waiting"
      /\ caller' = [caller EXCEPT ![c] = Idle]
  BY DEF CancelWait, Turns
<1>2. Waiting'
  BY <1>1 DEF Waiting, Idle
<1>3. WaitsFor[c] # 0 /\ WaitsFor' = [WaitsFor EXCEPT ![c] = 0] /\ UNCHANGED Recorded
  <2>1. caller[c].on \in Turns /\ 0 \notin Turns
    BY <1>1 DEF Waiting
  <2> QED BY <1>1, <2>1 DEF Waiting, Recorded, WaitsFor, Idle
<1> QED BY <1>2, <1>3 DEF P!Next, P!Leave

\* CompleteTurn records a result and wakes exactly those who wait for it; a turn
\* number that is none of the session's finds nobody waiting.
LEMMA CompleteStep ==
    ASSUME NEW t, NEW result, result.done, Waiting,
           CompleteTurn(t, result), UNCHANGED <<cur, Turns>>
    PROVE  Waiting' /\ [P!Next]_<<Recorded, WaitsFor>>
<1>1. results' = [results EXCEPT ![t] = result]
  BY DEF CompleteTurn
<1>2. caller' = [c \in Caller |-> IF caller[c].pc = "waiting" /\ caller[c].on = t
                                  THEN Idle ELSE caller[c]]
  BY DEF CompleteTurn
<1>3. DOMAIN results' = Turns
  BY <1>1 DEF Waiting
<1>4. \A u \in Turns : results'[u] = IF u = t THEN result ELSE results[u]
  BY <1>1 DEF Waiting
<1>5. Waiting'
  BY <1>2, <1>3, <1>4 DEF Waiting, Idle
<1>6. Recorded' = Recorded \cup (Turns \cap {t})
  BY <1>4 DEF Recorded
<1>7. WaitsFor' = [c \in Caller |-> IF WaitsFor[c] \in Recorded' THEN 0 ELSE WaitsFor[c]]
  <2>1. 0 \notin Turns
    BY DEF Waiting
  <2>2. ASSUME NEW c \in Caller
        PROVE  WaitsFor'[c] = IF WaitsFor[c] \in Recorded' THEN 0 ELSE WaitsFor[c]
    BY <1>2, <1>6, <2>1 DEF Waiting, WaitsFor, Recorded, Idle
  <2> QED BY <2>2 DEF WaitsFor
<1>8. P!Keep
  BY <1>6, <1>7 DEF P!Keep
<1> QED BY <1>5, <1>8 DEF P!Next

\* Every step of the session keeps Waiting and is a step of Promises or none.
LEMMA WaitingStep ==
    ASSUME Waiting, [Next]_vars
    PROVE  Waiting' /\ [P!Next]_<<Recorded, WaitsFor>>
<1>1. ASSUME Cli PROVE UNCHANGED watched
  BY <1>1 DEF Cli, CliTakes, CliContinues, CliSchedules, CliApiError, CliResult, watched, Turns
<1>2. ASSUME NEW c \in Caller, Ask(c) PROVE Waiting' /\ [P!Next]_<<Recorded, WaitsFor>>
  BY <1>2, SendStep, WaitStep, CancelStep DEF Ask
<1>3. ASSUME Stop PROVE UNCHANGED watched
  BY <1>3 DEF Stop, watched, Turns
<1>4. ASSUME ReadWakeup \/ ReadSynthetic \/ RecordTransient \/ ReadResult \/ ConsumeTransient
             \/ SnapshotWakeup \/ ReadTurnNumber \/ TakeUsage \/ Suppress \/ CheckLimits
             \/ ReadLoopAnnounces
      PROVE  UNCHANGED watched
  <2>1. ASSUME ReadWakeup PROVE UNCHANGED watched
    BY <2>1 DEF ReadWakeup, watched, Turns
  <2>2. ASSUME ~ReadWakeup PROVE UNCHANGED watched
    BY <1>4, <2>2 DEF ReadSynthetic, RecordTransient, ReadResult, ConsumeTransient,
       SnapshotWakeup, ReadTurnNumber, TakeUsage, Suppress, CheckLimits, ReadLoopAnnounces,
       watched, Turns
  <2> QED BY <2>1, <2>2
<1>5. ASSUME ReadLoopCompletes PROVE Waiting' /\ [P!Next]_<<Recorded, WaitsFor>>
  <2> DEFINE r == [done |-> TRUE, of |-> rl.of, usage |-> rl.usage, err |-> rl.err, late |-> FALSE]
  <2>1. CompleteTurn(ResultTurn, r) /\ UNCHANGED <<cur, Turns>> /\ r.done
    BY <1>5 DEF ReadLoopCompletes, Turns
  <2> QED BY <2>1, CompleteStep
<1>6. ASSUME TimerCompletes PROVE Waiting' /\ [P!Next]_<<Recorded, WaitsFor>>
  <2> DEFINE r == [done |-> TRUE, of |-> cb.turn, usage |-> cb.usage, err |-> FALSE, late |-> TRUE]
  <2>1. CompleteTurn(cb.turn, r) /\ UNCHANGED <<cur, Turns>> /\ r.done
    BY <1>6 DEF TimerCompletes, Turns
  <2> QED BY <2>1, CompleteStep
<1>7. ASSUME TimerFires \/ TimerTakesOver \/ TimerAnnounces PROVE UNCHANGED watched
  BY <1>7 DEF TimerFires, TimerTakesOver, TimerAnnounces, watched, Turns
<1>8. ASSUME NEW s \in strays, StrayCompletes(s)
      PROVE  Waiting' /\ [P!Next]_<<Recorded, WaitsFor>>
  <2> DEFINE r == [done |-> TRUE, of |-> s.turn, usage |-> s.usage, err |-> FALSE, late |-> TRUE]
  <2>1. CompleteTurn(s.turn, r) /\ UNCHANGED <<cur, Turns>> /\ r.done
    BY <1>8 DEF StrayCompletes, Turns
  <2> QED BY <2>1, CompleteStep
<1>9. ASSUME NEW s \in strays, StrayFires(s) \/ StrayTakesOver(s) \/ StrayAnnounces(s)
      PROVE  UNCHANGED watched
  BY <1>9 DEF StrayFires, StrayTakesOver, StrayAnnounces, watched, Turns
<1>10. ASSUME UNCHANGED vars PROVE UNCHANGED watched
  BY <1>10 DEF vars, watched, Turns
<1> QED
  BY <1>1, <1>2, <1>3, <1>4, <1>5, <1>6, <1>7, <1>8, <1>9, <1>10, Stutters
  DEF Next, ReadLoop, SafetyTimer, Strays

\* The turn manager implements Promises.
THEOREM Implements == Spec => ResultsArePromises
<1>1. Spec => []Waiting
  BY WaitingInit, WaitingStep, PTL DEF Spec
<1>2. Spec => [][P!Next]_<<Recorded, WaitsFor>>
  BY <1>1, WaitingStep, PTL DEF Spec
<1> QED BY <1>1, <1>2, WaitingInit, PTL DEF Spec, ResultsArePromises, P!Spec
-----------------------------------------------------------------------------
(* What holds whatever callers and CLI do, prompts that overlap included.     *)

RlPcs == {"read", "synthetic", "consume", "snapshot", "number", "usage",
          "suppress", "limits", "complete", "announce"}

Item == [kind : {"wakeup", "synthetic", "result"}, id : Nat, of : Nat, err : BOOLEAN]

Wake == [active : BOOLEAN, fired : BOOLEAN, turn : Nat, tool : Nat, usage : Nat]
Timer == [turn : Nat, usage : Nat, wakeup : Nat, at : Nat]
Loop == [pc : RlPcs, of : Nat, err : BOOLEAN, n : Nat, suppressed : BOOLEAN,
         turn : Nat, tool : Nat, usage : Nat, counted : BOOLEAN]
Callback == [pc : {"off", "lock", "complete", "announce"}, turn : Nat, usage : Nat,
             wakeup : Nat, stale : BOOLEAN]
StrayTimer == [pc : {"armed", "lock", "complete", "announce"}, turn : Nat, usage : Nat,
               wakeup : Nat, at : Nat]
Agent == [turn : Nat, scheduled : BOOLEAN, failing : BOOLEAN, wakeups : SUBSET Nat, next : Nat]

\* Every variable is of its kind.
Shape ==
    /\ lastWakeup \in [Turns -> Nat]
    /\ results \in [Turns -> [done : BOOLEAN, of : Nat, usage : Nat, err : BOOLEAN, late : BOOLEAN]]
    /\ completions \in [Turns -> [done : Nat, told : Nat, usage : Nat]]
    /\ wake \in Wake /\ timer \in Timer /\ rl \in Loop /\ cb \in Callback /\ cli \in Agent
    /\ cost \in Nat /\ stopping \in BOOLEAN
    /\ prompts \in Seq(Nat) /\ out \in Seq(Item)
    /\ left \in [Events -> Nat]

Busy == rl.pc \notin {"read", "announce"}

\* No number is ahead of the current turn's.
Bounded ==
    /\ \A c \in Caller : caller[c].mine <= cur /\ caller[c].on <= cur
    /\ pending \subseteq 1 .. cur
    /\ wake.turn <= cur /\ timer.turn <= cur /\ cb.turn <= cur
    /\ rl.n <= cur /\ rl.turn <= cur
    /\ Busy => rl.n > 0
    /\ \A i \in 1 .. Len(prompts) : prompts[i] \in 1 .. cur
    /\ cli.turn <= cur /\ cli.wakeups \subseteq 1 .. cur
    /\ \A i \in 1 .. Len(out) : out[i].of \in 1 .. cur

\* What is about to be announced is recorded.
Told ==
    /\ AnnouncedIsRecorded
    /\ rl.pc = "announce" /\ ResultTurn \in Turns => results[ResultTurn].done
    /\ cb.pc = "announce" /\ cb.turn \in Turns => results[cb.turn].done

\* From the look at the suppression to the decision on the next, there is none.
Deciding == rl.pc \in {"number", "usage", "suppress", "limits", "complete"}

Timed ==
    /\ SuppressionIsTimed
    /\ timer # NoTimer => wake.active
    /\ Deciding \/ rl.pc = "announce" => ~wake.active
    /\ rl.pc = "suppress" => lastWakeup[rl.n] # 0

\* A turn that was not begun has no trace.
Untouched ==
    \A t \in Turns : t > cur => /\ lastWakeup[t] = 0 /\ ~results[t].done
                                /\ completions[t].done = 0 /\ completions[t].usage = 0

\* A wakeup that is printed and not yet read is newer than all that were.
Newer(id) ==
    /\ \A t \in Turns : lastWakeup[t] < id
    /\ wake.tool < id /\ timer.wakeup < id /\ cb.wakeup < id

Numbered ==
    /\ Newer(cli.next)
    /\ \A i \in 1 .. Len(out) : out[i].kind = "wakeup" => out[i].id < cli.next /\ Newer(out[i].id)
    /\ \A i, j \in 1 .. Len(out) :
          i < j /\ out[i].kind = "wakeup" /\ out[j].kind = "wakeup" => out[i].id < out[j].id

\* In what the CLI prints a wakeup or an API error is followed by the result of
\* its wave, which the CLI is still working on when it is the last.
Printed ==
    /\ \A i \in 1 .. Len(out) : i < Len(out) /\ out[i].kind # "result" => out[i + 1].kind = "result"
    /\ out # <<>> /\ cli.turn = 0 => out[Len(out)].kind = "result"
    /\ cli.turn # 0 => ~(cli.scheduled /\ cli.failing)
    /\ out # <<>> /\ cli.turn # 0 => /\ out[Len(out)].kind = "wakeup" <=> cli.scheduled
                                     /\ out[Len(out)].kind = "synthetic" <=> cli.failing

\* A stray is bound for a turn that has begun, announces what is recorded, and,
\* if it runs on or does more than wait for the lock, comes from a goroutine that
\* ended another wait than its own.
Astray ==
    /\ strays \subseteq StrayTimer
    /\ \A s \in strays : /\ s.turn <= cur
                          /\ (s.pc = "announce" /\ s.turn \in Turns => results[s.turn].done)
                          /\ (s.pc # "lock" => cb.stale)

AnyInv == /\ Waiting /\ Shape /\ Bounded /\ Told /\ Timed /\ Astray
          /\ Untouched /\ Numbered /\ Printed
-----------------------------------------------------------------------------
(* What holds where prompts do not overlap: all that is under way belongs to  *)
(* the current turn, or to one that was left with a wakeup to come.           *)

\* A result has been read and is not yet disposed of.
Handling == rl.pc = "consume" \/ rl.pc = "snapshot" \/ Deciding

Ours == {cur} \cup abandoned

\* The callers, and those the results are for.
Own ==
    /\ \A c \in Caller : caller[c].pc # "idle" =>
          caller[c].mine = cur /\ (caller[c].pc = "waiting" => caller[c].on = cur)
    /\ \A t \in Turns : results[t].done => results[t].of = t \/ results[t].of \in abandoned
    /\ \A a \in answers : a.asked # a.of => a.of \in abandoned

\* The pipe from the prompt to the read loop.
Pipe ==
    /\ prompts # <<>> => /\ Len(prompts) = 1 /\ prompts[1] = cur
                         /\ out = <<>> /\ cli.turn = 0 /\ ~Busy
    /\ cli.turn # 0 => cli.turn \in Ours
    /\ cli.wakeups \subseteq Ours
    /\ \A i \in 1 .. Len(out) : out[i].of \in Ours
    /\ Handling => rl.of \in Ours
    /\ Busy => rl.n = cur

\* The suppression and its timer.
Held ==
    /\ wake.turn \in {0, cur} /\ (wake.active => wake.turn = cur)
    /\ timer.turn \in {0, cur}
    /\ Deciding /\ rl.suppressed => rl.turn = cur

\* A pending transient error has its result to come.
Refusing ==
    /\ pending \subseteq {cur}
    /\ pending # {} => cli.turn # 0 \/ out # <<>> \/ rl.pc = "consume"
    /\ rl.pc = "synthetic" => cli.turn # 0 \/ out # <<>>

InOrder == Own /\ Pipe /\ Held /\ Refusing
SerialInv == ~Overlaps => InOrder
-----------------------------------------------------------------------------
(* What holds where turns follow one another: a turn is a chain of waves, all *)
(* but the last with a wakeup in it.                                          *)

\* The latest wakeup read is one the turn was not yet suppressed for.
Fresh == cur > 0 /\ lastWakeup[cur] # wake.tool

\* The CLI has something to say about the turn.
More == out # <<>> \/ cli.turn # 0 \/ cli.wakeups # {}

\* The turn is completed, or the safety timer's goroutine is about to.
Over == cur > 0 /\ (results[cur].done \/ (cb.pc = "complete" /\ cb.turn = cur))

\* The wave that result i ends has a wakeup in it.
Announced(i) == IF i = 1 THEN Fresh /\ ~Handling ELSE out[i - 1].kind = "wakeup"

Chain ==
    /\ prompts # <<>> => cli.wakeups = {} /\ ~Over
    /\ \A i \in 1 .. Len(out) : out[i].kind = "result" =>
          (Announced(i) <=> i < Len(out) \/ cli.turn # 0 \/ cli.wakeups # {})
    /\ cli.turn # 0 => /\ cli.scheduled <=> cli.wakeups # {}
                       /\ out = <<>> => (cli.scheduled <=> Fresh /\ ~Handling)
    /\ Handling => (Fresh <=> More)
    /\ ~Handling /\ out = <<>> /\ cli.turn = 0 => ~Fresh
    /\ Fresh /\ ~Handling /\ out # <<>> => out[1].kind = "result"
    /\ cur > 0 => wake.tool <= lastWakeup[cur]

\* Suppressed, then fired or not: who is to complete the turn.
Completing ==
    /\ wake.active => /\ cur > 0 /\ ~Over /\ ~wake.fired /\ wake.tool # 0
                      /\ rl.pc \in {"read", "synthetic"} => More
    /\ wake.fired => /\ Over /\ ~wake.active /\ ~Deciding /\ rl.pc # "announce"
                     /\ results[cur].done => results[cur].late
    /\ Over /\ ~wake.fired => ~More /\ ~Busy
    /\ ~wake.active /\ ~Over /\ ~Deciding => wake.tool = 0
    /\ cb.pc = "complete" => cb.turn \in 1 .. cur /\ ~results[cb.turn].done
    /\ \A t \in Turns : completions[t].done = IF results[t].done THEN 1 ELSE 0

\* The locals of handleResult.
Decides ==
    /\ Deciding /\ ~rl.counted => wake.tool = IF rl.suppressed THEN rl.tool ELSE 0
    /\ Deciding /\ rl.counted => /\ rl.pc \in {"limits", "complete"} /\ lastWakeup[rl.n] # 0
                                 /\ IF rl.pc = "limits" THEN OverBudget(cost) ELSE rl.err
    /\ ~Deciding /\ rl.pc # "announce" => ~rl.counted
    /\ rl.pc = "suppress" => Fresh
    /\ rl.pc = "limits" /\ ~rl.counted => ~Fresh \/ rl.err \/ MaxTurnsReached
    /\ rl.pc = "complete" => ~Fresh \/ rl.err

\* The goroutine of a timer that fired before this suppression.
Late ==
    /\ timer # NoTimer => timer.usage = wake.usage /\ timer.wakeup = wake.tool /\ timer.turn = cur
    /\ cb.pc = "lock" /\ cur > 0 /\ lastWakeup[cur] # 0 =>
          /\ cb.wakeup <= lastWakeup[cur]
          /\ cb.wakeup = lastWakeup[cur] => wake.tool = cb.wakeup
    /\ cb.pc = "lock" /\ wake.active /\ cb.wakeup = wake.tool =>
          cb.usage = wake.usage /\ cb.turn = cur
    /\ rl.pc \in {"suppress", "limits", "complete"} => rl.usage > 0
    /\ ~wake.active /\ rl.pc \notin {"number", "usage"} => wake.usage = 0

\* What the read loop has counted, or is about to, and not yet reported.
InHand ==
    IF rl.pc = "suppress" \/ (rl.pc = "limits" /\ ~rl.counted) THEN rl.usage - 1
    ELSE IF rl.pc \in {"limits", "complete"} THEN rl.usage ELSE 0

\* What the timer's goroutine is about to report.
InTimer == IF cb.pc = "complete" THEN cb.usage ELSE 0

Counted == Reported + InHand + wake.usage + InTimer = cost

Linked == Chain /\ Completing /\ Decides /\ Late
LinkedInv == Distinct => Linked
CountedInv == Distinct => Counted
-----------------------------------------------------------------------------
(* What the steps do, field by field.                                         *)

\* The fields of the records.
LEMMA Fields ==
    ASSUME Shape
    PROVE  /\ wake.active \in BOOLEAN /\ wake.fired \in BOOLEAN
           /\ wake.turn \in Nat /\ wake.tool \in Nat /\ wake.usage \in Nat
           /\ timer.turn \in Nat /\ timer.usage \in Nat /\ timer.wakeup \in Nat
           /\ timer.at \in Nat
           /\ rl.pc \in RlPcs /\ rl.of \in Nat /\ rl.err \in BOOLEAN /\ rl.n \in Nat
           /\ rl.suppressed \in BOOLEAN /\ rl.turn \in Nat /\ rl.tool \in Nat
           /\ rl.usage \in Nat /\ rl.counted \in BOOLEAN
           /\ cb.pc \in {"off", "lock", "complete", "announce"} /\ cb.turn \in Nat
           /\ cb.usage \in Nat /\ cb.wakeup \in Nat /\ cb.stale \in BOOLEAN
           /\ cli.turn \in Nat /\ cli.scheduled \in BOOLEAN /\ cli.failing \in BOOLEAN
           /\ cli.wakeups \in SUBSET Nat /\ cli.next \in Nat
<1>1. wake \in Wake /\ timer \in Timer /\ rl \in Loop /\ cb \in Callback /\ cli \in Agent
  BY DEF Shape
<1>2. /\ wake.active \in BOOLEAN /\ wake.fired \in BOOLEAN
      /\ wake.turn \in Nat /\ wake.tool \in Nat /\ wake.usage \in Nat
  BY <1>1 DEF Wake
<1>3. timer.turn \in Nat /\ timer.usage \in Nat /\ timer.wakeup \in Nat /\ timer.at \in Nat
  BY <1>1 DEF Timer
<1>4. /\ rl.pc \in RlPcs /\ rl.of \in Nat /\ rl.err \in BOOLEAN /\ rl.n \in Nat
      /\ rl.suppressed \in BOOLEAN /\ rl.turn \in Nat /\ rl.tool \in Nat
      /\ rl.usage \in Nat /\ rl.counted \in BOOLEAN
  BY <1>1 DEF Loop
<1>5. /\ cb.pc \in {"off", "lock", "complete", "announce"} /\ cb.turn \in Nat
      /\ cb.usage \in Nat /\ cb.wakeup \in Nat /\ cb.stale \in BOOLEAN
  BY <1>1 DEF Callback
<1>6. /\ cli.turn \in Nat /\ cli.scheduled \in BOOLEAN /\ cli.failing \in BOOLEAN
      /\ cli.wakeups \in SUBSET Nat /\ cli.next \in Nat
  BY <1>1 DEF Agent
<1> QED BY <1>2, <1>3, <1>4, <1>5, <1>6

\* One more thing printed.
LEMMA Appended ==
    ASSUME NEW S, NEW s \in Seq(S), NEW m \in S, NEW o, o = Append(s, m)
    PROVE  /\ o \in Seq(S) /\ Len(o) = Len(s) + 1 /\ o # <<>> /\ o[Len(o)] = m
           /\ \A i \in 1 .. Len(s) : o[i] = s[i]
OBVIOUS

\* One thing read.
LEMMA Shifted ==
    ASSUME NEW S, NEW s \in Seq(S), s # <<>>, NEW o, o = Tail(s)
    PROVE  /\ o \in Seq(S) /\ Len(o) = Len(s) - 1 /\ Len(s) \in Nat /\ Len(s) > 0
           /\ \A i \in 1 .. Len(o) : o[i] = s[i + 1] /\ i + 1 \in 1 .. Len(s)
           /\ Head(s) = s[1] /\ s[1] \in S /\ 1 \in 1 .. Len(s)
OBVIOUS

\* A sequence is empty when its length is zero.
LEMMA Empty == ASSUME NEW S, NEW s \in Seq(S) PROVE (s = <<>>) <=> (Len(s) = 0)
OBVIOUS

\* What no step of the CLI touches.
Session == <<cur, lastWakeup, results, caller, pending, wake, timer, cost, rl, cb, strays,
             stopping, completions, answers, abandoned>>

\* A prompt is taken.
LEMMA CliTakesDoes ==
    ASSUME Shape, CliTakes
    PROVE  /\ UNCHANGED <<Session, out, left>>
           /\ prompts # <<>> /\ cli.turn = 0 /\ prompts' = Tail(prompts)
           /\ cli' \in Agent /\ cli'.turn = prompts[1] /\ prompts[1] \in Nat
           /\ cli'.scheduled = FALSE /\ cli'.failing = FALSE
           /\ cli'.wakeups = cli.wakeups /\ cli'.next = cli.next
<1>1. /\ UNCHANGED <<Session, out, left>>
      /\ prompts # <<>> /\ cli.turn = 0 /\ prompts' = Tail(prompts) /\ ~stopping
      /\ cli' = [cli EXCEPT !.turn = Head(prompts), !.scheduled = FALSE, !.failing = FALSE]
  BY DEF CliTakes, Session
<1>2. Head(prompts) \in Nat /\ Head(prompts) = prompts[1] /\ cli \in Agent
  BY <1>1, Shifted DEF Shape
<1>3. /\ cli' \in Agent /\ cli'.turn = Head(prompts)
      /\ cli'.scheduled = FALSE /\ cli'.failing = FALSE
      /\ cli'.wakeups = cli.wakeups /\ cli'.next = cli.next
  BY <1>1, <1>2 DEF Agent
<1> QED BY <1>1, <1>2, <1>3

\* A wakeup comes due.
LEMMA CliContinuesDoes ==
    ASSUME Shape, CliContinues
    PROVE  /\ UNCHANGED <<Session, out, left, prompts>>
           /\ prompts = <<>> /\ cli.turn = 0
           /\ cli' \in Agent /\ cli'.turn \in cli.wakeups
           /\ cli'.scheduled = FALSE /\ cli'.failing = FALSE
           /\ cli'.wakeups = cli.wakeups \ {cli'.turn} /\ cli'.next = cli.next
<1>1. /\ UNCHANGED <<Session, out, left, prompts>>
      /\ prompts = <<>> /\ cli.turn = 0
  BY DEF CliContinues, Session
<1>2. PICK t \in cli.wakeups :
          cli' = [cli EXCEPT !.turn = t, !.scheduled = FALSE, !.failing = FALSE,
                             !.wakeups = cli.wakeups \ {t}]
  BY DEF CliContinues
<1>3. cli \in Agent /\ t \in Nat /\ cli.wakeups \ {t} \in SUBSET Nat
  BY Fields DEF Shape
<1>4. /\ cli' \in Agent /\ cli'.turn = t
      /\ cli'.scheduled = FALSE /\ cli'.failing = FALSE
      /\ cli'.wakeups = cli.wakeups \ {t} /\ cli'.next = cli.next
  BY <1>2, <1>3 DEF Agent
<1> QED BY <1>1, <1>4

\* What is printed.
Prints(m) == out' = Append(out, m) /\ m \in Item /\ m.of = cli.turn /\ cli.turn # 0

LEMMA CliSchedulesDoes ==
    ASSUME Shape, CliSchedules
    PROVE  /\ UNCHANGED <<Session, prompts>>
           /\ ~cli.scheduled /\ ~cli.failing
           /\ left' \in [Events -> Nat] /\ left'["overlap"] = left["overlap"]
           /\ cli' \in Agent /\ cli'.turn = cli.turn /\ cli'.scheduled = TRUE
           /\ cli'.failing = cli.failing /\ cli'.next = cli.next + 1
           /\ cli'.wakeups = cli.wakeups \cup {cli.turn}
           /\ \E m : Prints(m) /\ m.kind = "wakeup" /\ m.id = cli.next
<1> DEFINE m == [kind |-> "wakeup", id |-> cli.next, of |-> cli.turn, err |-> FALSE]
<1>1. /\ UNCHANGED <<Session, prompts>> /\ cli.turn # 0 /\ ~cli.scheduled /\ ~cli.failing
      /\ cli' = [cli EXCEPT !.scheduled = TRUE, !.wakeups = cli.wakeups \cup {cli.turn},
                            !.next = cli.next + 1]
      /\ out' = Append(out, m) /\ Spend("wakeup")
  BY DEF CliSchedules, Session
<1>2. cli \in Agent /\ cli.wakeups \cup {cli.turn} \in SUBSET Nat /\ cli.next + 1 \in Nat
  <2>1. cli \in Agent /\ cli.turn \in Nat /\ cli.wakeups \in SUBSET Nat /\ cli.next \in Nat
    BY DEF Shape, Agent
  <2> QED BY <2>1
<1>3. m \in Item
  BY Fields DEF Item
<1>4. left' \in [Events -> Nat] /\ left'["overlap"] = left["overlap"]
  BY <1>1 DEF Spend, Shape, Events
<1>5. Prints(m) /\ m.kind = "wakeup" /\ m.id = cli.next
  BY <1>1, <1>3 DEF Prints
<1> HIDE DEF m
<1>6. /\ cli' \in Agent /\ cli'.turn = cli.turn /\ cli'.scheduled = TRUE
      /\ cli'.failing = cli.failing /\ cli'.next = cli.next + 1
      /\ cli'.wakeups = cli.wakeups \cup {cli.turn}
  BY <1>1, <1>2 DEF Agent
<1> QED BY <1>1, <1>4, <1>5, <1>6

LEMMA CliApiErrorDoes ==
    ASSUME Shape, CliApiError
    PROVE  /\ UNCHANGED <<Session, prompts>>
           /\ ~cli.scheduled /\ ~cli.failing
           /\ left' \in [Events -> Nat] /\ left'["overlap"] = left["overlap"]
           /\ cli' \in Agent /\ cli'.turn = cli.turn /\ cli'.scheduled = cli.scheduled
           /\ cli'.failing = TRUE /\ cli'.next = cli.next /\ cli'.wakeups = cli.wakeups
           /\ \E m : Prints(m) /\ m.kind = "synthetic"
<1> DEFINE m == [kind |-> "synthetic", id |-> 0, of |-> cli.turn, err |-> TRUE]
<1>1. /\ UNCHANGED <<Session, prompts>> /\ cli.turn # 0 /\ ~cli.scheduled /\ ~cli.failing
      /\ cli' = [cli EXCEPT !.failing = TRUE]
      /\ out' = Append(out, m) /\ Spend("synthetic")
  BY DEF CliApiError, Session
<1>2. cli \in Agent
  BY DEF Shape
<1>3. m \in Item
  BY Fields DEF Item
<1>4. left' \in [Events -> Nat] /\ left'["overlap"] = left["overlap"]
  BY <1>1 DEF Spend, Shape, Events
<1>5. Prints(m) /\ m.kind = "synthetic"
  BY <1>1, <1>3 DEF Prints
<1> HIDE DEF m
<1>6. /\ cli' \in Agent /\ cli'.turn = cli.turn /\ cli'.scheduled = cli.scheduled
      /\ cli'.failing = TRUE /\ cli'.next = cli.next /\ cli'.wakeups = cli.wakeups
  BY <1>1, <1>2 DEF Agent
<1> QED BY <1>1, <1>4, <1>5, <1>6

LEMMA CliResultDoes ==
    ASSUME Shape, CliResult
    PROVE  /\ UNCHANGED <<Session, prompts>>
           /\ left' \in [Events -> Nat] /\ left'["overlap"] = left["overlap"]
           /\ cli' \in Agent /\ cli'.turn = 0 /\ cli'.scheduled = cli.scheduled
           /\ cli'.failing = cli.failing /\ cli'.next = cli.next /\ cli'.wakeups = cli.wakeups
           /\ \E m : Prints(m) /\ m.kind = "result"
<1>1. PICK err \in BOOLEAN :
         /\ IF err THEN Spend("fail") ELSE UNCHANGED left
         /\ out' = Append(out, [kind |-> "result", id |-> 0, of |-> cli.turn, err |-> err])
  BY DEF CliResult
<1> DEFINE m == [kind |-> "result", id |-> 0, of |-> cli.turn, err |-> err]
<1>2. /\ UNCHANGED <<Session, prompts>> /\ cli.turn # 0
      /\ cli' = [cli EXCEPT !.turn = 0]
  BY DEF CliResult, Session
<1>3. cli \in Agent
  BY DEF Shape
<1>4. m \in Item
  BY Fields DEF Item
<1>5. left' \in [Events -> Nat] /\ left'["overlap"] = left["overlap"]
  BY <1>1 DEF Spend, Shape, Events
<1>6. Prints(m) /\ m.kind = "result"
  BY <1>1, <1>2, <1>4 DEF Prints
<1> HIDE DEF m
<1>7. /\ cli' \in Agent /\ cli'.turn = 0 /\ cli'.scheduled = cli.scheduled
      /\ cli'.failing = cli.failing /\ cli'.next = cli.next /\ cli'.wakeups = cli.wakeups
  BY <1>2, <1>3 DEF Agent
<1> QED BY <1>2, <1>5, <1>6, <1>7

\* The read loop takes the next thing the CLI printed.
Reads(kind) ==
    /\ rl.pc = "read" /\ out # <<>> /\ out[1].kind = kind /\ out[1] \in Item
    /\ ~stopping /\ out' = Tail(out)
    /\ UNCHANGED <<cur, results, caller, pending, wake, timer, cost, cb, strays, stopping,
                   prompts,
                   cli, completions, answers, abandoned, left>>

LEMMA ReadWakeupDoes ==
    ASSUME Shape, ReadWakeup
    PROVE  /\ Reads("wakeup") /\ rl' = rl
           /\ lastWakeup' = [lastWakeup EXCEPT ![cur] = out[1].id]
<1>1. out # <<>> /\ out \in Seq(Item)
  BY DEF ReadWakeup, Shape
<1>2. Head(out) = out[1] /\ out[1] \in Item
  BY <1>1, Shifted
<1> QED BY <1>2 DEF ReadWakeup, Reads

LEMMA ReadSyntheticDoes ==
    ASSUME Shape, ReadSynthetic, cur \in Nat
    PROVE  /\ Reads("synthetic") /\ UNCHANGED lastWakeup
           /\ rl' \in Loop /\ rl'.pc = "synthetic" /\ rl'.n = cur
           /\ rl'.suppressed = rl.suppressed /\ rl'.turn = rl.turn /\ rl'.counted = rl.counted
<1>1. out # <<>> /\ out \in Seq(Item)
  BY DEF ReadSynthetic, Shape
<1>2. Head(out) = out[1] /\ out[1] \in Item
  BY <1>1, Shifted
<1>3. rl' = [rl EXCEPT !.pc = "synthetic", !.n = cur] /\ rl \in Loop
  BY DEF ReadSynthetic, Shape
<1>4. /\ rl' \in Loop /\ rl'.pc = "synthetic" /\ rl'.n = cur
      /\ rl'.suppressed = rl.suppressed /\ rl'.turn = rl.turn /\ rl'.counted = rl.counted
  BY <1>3 DEF Loop, RlPcs
<1> QED BY <1>2, <1>4 DEF ReadSynthetic, Reads

LEMMA ReadResultDoes ==
    ASSUME Shape, ReadResult, cur \in Nat
    PROVE  /\ Reads("result") /\ UNCHANGED lastWakeup
           /\ rl' \in Loop /\ rl'.pc = "consume" /\ rl'.n = cur /\ rl'.of = out[1].of
           /\ rl'.suppressed = rl.suppressed /\ rl'.turn = rl.turn /\ rl'.counted = rl.counted
<1>1. out # <<>> /\ out \in Seq(Item)
  BY DEF ReadResult, Shape
<1>2. Head(out) = out[1] /\ out[1] \in Item
  BY <1>1, Shifted
<1>3. out[1].of \in Nat /\ out[1].err \in BOOLEAN
  BY <1>2 DEF Item
<1>4. /\ rl' = [rl EXCEPT !.pc = "consume", !.of = out[1].of, !.err = out[1].err, !.n = cur]
      /\ rl \in Loop
  BY <1>2 DEF ReadResult, Shape
<1>5. /\ rl' \in Loop /\ rl'.pc = "consume" /\ rl'.n = cur /\ rl'.of = out[1].of
      /\ rl'.suppressed = rl.suppressed /\ rl'.turn = rl.turn /\ rl'.counted = rl.counted
  BY <1>3, <1>4 DEF Loop, RlPcs
<1> QED BY <1>2, <1>5 DEF ReadResult, Reads

\* The read loop waits for the next thing.
LEMMA ReadingIs ==
    /\ Reading \in Loop /\ Reading.pc = "read" /\ Reading.n = 0 /\ Reading.of = 0
    /\ ~Reading.suppressed /\ Reading.turn = 0 /\ ~Reading.counted /\ Reading.usage = 0
BY DEF Reading, Loop, RlPcs

\* What a step within handleResult keeps of the locals.
Keeps == /\ rl' \in Loop /\ rl'.of = rl.of /\ rl'.suppressed = rl.suppressed /\ rl'.turn = rl.turn
         /\ rl'.tool = rl.tool /\ rl'.n = rl.n

LEMMA ConsumeTransientDoes ==
    ASSUME Shape, ConsumeTransient
    PROVE  /\ rl.pc = "consume" /\ rl'.pc = "snapshot" /\ Keeps
           /\ pending' = pending \ {rl.n} /\ rl'.counted = rl.counted
           /\ UNCHANGED <<cur, lastWakeup, results, caller, wake, timer, cost, cb, strays,
                          stopping,
                          env, completions, answers, abandoned, left>>
<1>1. PICK e \in BOOLEAN : rl' = [rl EXCEPT !.pc = "snapshot", !.err = e]
  BY Fields DEF ConsumeTransient
<1>2. rl \in Loop
  BY DEF Shape
<1>3. Keeps /\ rl'.pc = "snapshot" /\ rl'.counted = rl.counted
  BY <1>1, <1>2 DEF Loop, RlPcs, Keeps
<1> QED BY <1>3 DEF ConsumeTransient

\* The look at the suppression finds the timer's goroutine has been there ...
Swallows ==
    /\ rl.pc = "snapshot" /\ wake.fired /\ rl' = Reading
    /\ timer' = NoTimer /\ wake' \in Wake /\ ~wake'.active /\ ~wake'.fired
    /\ wake'.turn = wake.turn /\ wake'.tool = wake.tool /\ wake'.usage = wake.usage
    /\ abandoned' = IF lastWakeup[cur] # wake.tool THEN abandoned \cup {wake.turn} ELSE abandoned

\* ... or ends it and goes on.
Ends ==
    /\ rl.pc = "snapshot" /\ ~wake.fired /\ abandoned' = abandoned
    /\ rl' \in Loop /\ rl'.pc = "number" /\ rl'.of = rl.of /\ rl'.n = rl.n
    /\ rl'.suppressed = wake.active /\ rl'.turn = wake.turn /\ rl'.tool = wake.tool
    /\ rl'.counted = rl.counted
    /\ timer' = NoTimer /\ wake' \in Wake /\ ~wake'.active /\ ~wake'.fired
    /\ wake'.turn = wake.turn /\ wake'.tool = wake.tool /\ wake'.usage = wake.usage

LEMMA SnapshotDoes ==
    ASSUME Shape, SnapshotWakeup
    PROVE  /\ UNCHANGED <<cur, lastWakeup, results, caller, pending, cost, cb, strays, stopping,
                          env, completions, answers, left>>
           /\ Swallows \/ Ends
<1>1. UNCHANGED <<cur, lastWakeup, results, caller, pending, cost, cb, strays, stopping,
                  env, completions, answers, left>>
  BY DEF SnapshotWakeup
<1>2. wake' = [wake EXCEPT !.fired = FALSE, !.active = FALSE] /\ wake \in Wake
  BY DEF SnapshotWakeup, Shape
<1>3. /\ wake' \in Wake /\ ~wake'.active /\ ~wake'.fired
      /\ wake'.turn = wake.turn /\ wake'.tool = wake.tool /\ wake'.usage = wake.usage
  BY <1>2 DEF Wake
<1>4. CASE wake.fired
  BY <1>1, <1>3, <1>4 DEF SnapshotWakeup, Swallows
<1>5. CASE ~wake.fired
  <2>1. PICK s \in BOOLEAN, n \in Nat, m \in Nat :
           /\ rl' = [rl EXCEPT !.pc = "number", !.suppressed = s, !.turn = n, !.tool = m]
           /\ s = wake.active /\ n = wake.turn /\ m = wake.tool
    BY <1>5, Fields DEF SnapshotWakeup
  <2>2. rl \in Loop
    BY DEF Shape
  <2>3. /\ rl' \in Loop /\ rl'.pc = "number" /\ rl'.of = rl.of /\ rl'.n = rl.n
        /\ rl'.suppressed = s /\ rl'.turn = n /\ rl'.tool = m /\ rl'.counted = rl.counted
    BY <2>1, <2>2 DEF Loop, RlPcs
  <2> QED BY <1>1, <1>3, <1>5, <2>1, <2>3 DEF SnapshotWakeup, Ends
<1> QED BY <1>1, <1>4, <1>5

LEMMA ReadTurnNumberDoes ==
    ASSUME Shape, ReadTurnNumber, cur \in Nat
    PROVE  /\ rl.pc = "number" /\ rl' \in Loop /\ rl'.pc = "usage" /\ rl'.n = cur
           /\ rl'.of = rl.of /\ rl'.suppressed = rl.suppressed /\ rl'.turn = rl.turn
           /\ rl'.tool = rl.tool /\ rl'.counted = rl.counted
           /\ UNCHANGED <<cur, lastWakeup, results, caller, pending, wake, timer, cost, cb,
                          strays,
                          stopping, env, completions, answers, abandoned, left>>
<1>1. rl' = [rl EXCEPT !.pc = "usage", !.n = cur] /\ rl \in Loop
  BY DEF ReadTurnNumber, Shape
<1>2. /\ rl' \in Loop /\ rl'.pc = "usage" /\ rl'.n = cur
      /\ rl'.of = rl.of /\ rl'.suppressed = rl.suppressed /\ rl'.turn = rl.turn
      /\ rl'.tool = rl.tool /\ rl'.counted = rl.counted
  BY <1>1 DEF Loop, RlPcs
<1> QED BY <1>2 DEF ReadTurnNumber

LEMMA TakeUsageDoes ==
    ASSUME Shape, TakeUsage
    PROVE  /\ rl.pc = "usage" /\ Keeps /\ rl'.counted = rl.counted /\ rl'.err = rl.err
           /\ rl'.pc = (IF Suppresses THEN "suppress" ELSE "limits")
           /\ rl'.usage = 1 + wake.usage
           /\ wake' \in Wake /\ wake'.active = wake.active /\ wake'.fired = wake.fired
           /\ wake'.turn = wake.turn /\ wake'.tool = wake.tool /\ wake'.usage = 0
           /\ UNCHANGED <<cur, lastWakeup, results, caller, pending, timer, cost, cb, strays,
                          stopping,
                          env, completions, answers, abandoned, left>>
<1> DEFINE p == IF Suppresses THEN "suppress" ELSE "limits"
<1>0. PICK q \in {"suppress", "limits"} : q = p
  <2> HIDE DEF Suppresses
  <2> QED OBVIOUS
<1>7. rl' = [rl EXCEPT !.pc = p, !.usage = 1 + wake.usage]
  BY Zenon DEF TakeUsage
<1> HIDE DEF p
<1>1. PICK k \in Nat : k = 1 + wake.usage
  BY Fields
<1>5. rl' = [rl EXCEPT !.pc = q, !.usage = k]
  BY <1>0, <1>1, <1>7
<1>2. rl \in Loop /\ wake \in Wake /\ wake' = [wake EXCEPT !.usage = 0]
  BY DEF TakeUsage, Shape
<1>3. Keeps /\ rl'.counted = rl.counted /\ rl'.err = rl.err /\ rl'.pc = q /\ rl'.usage = k
  BY <1>5, <1>2 DEF Loop, RlPcs, Keeps
<1>4. /\ wake' \in Wake /\ wake'.active = wake.active /\ wake'.fired = wake.fired
      /\ wake'.turn = wake.turn /\ wake'.tool = wake.tool /\ wake'.usage = 0
  BY <1>2 DEF Wake
<1>6. rl'.pc = (IF Suppresses THEN "suppress" ELSE "limits")
  BY <1>0, <1>3 DEF p
<1> QED BY <1>1, <1>3, <1>4, <1>6 DEF TakeUsage

\* The turn a suppression holds back.
First == IF wake.turn = 0 THEN rl.n ELSE wake.turn

\* Over budget the turn ends after all ...
GivesUp ==
    /\ OverBudget(cost + 1) /\ UNCHANGED timer
    /\ Keeps /\ rl'.pc = "limits" /\ rl'.counted = TRUE /\ rl'.usage = rl.usage
    /\ wake' \in Wake /\ ~wake'.active /\ wake'.fired = wake.fired
    /\ wake'.turn = First /\ wake'.tool = 0 /\ wake'.usage = 0

\* ... otherwise it waits for the wakeup.
Waits ==
    /\ rl' = Reading
    /\ timer' \in Timer /\ timer'.turn = ResultTurn /\ timer'.usage = rl.usage
    /\ timer'.wakeup = lastWakeup[rl.n]
    /\ wake' \in Wake /\ wake'.active /\ wake'.fired = wake.fired
    /\ wake'.turn = First /\ wake'.tool = lastWakeup[rl.n]
    /\ wake'.usage = wake.usage + rl.usage

LEMMA SuppressDoes ==
    ASSUME Shape, Suppress, lastWakeup[rl.n] \in Nat
    PROVE  /\ rl.pc = "suppress" /\ cost' = cost + 1
           /\ UNCHANGED <<cur, lastWakeup, results, caller, pending, cb, strays, stopping, env,
                          completions, answers, abandoned, left>>
           /\ GivesUp \/ Waits
<1>1. /\ rl.pc = "suppress" /\ cost' = cost + 1
      /\ UNCHANGED <<cur, lastWakeup, results, caller, pending, cb, strays, stopping, env,
                     completions, answers, abandoned, left>>
  BY DEF Suppress
<1>2. First \in Nat /\ ResultTurn \in Nat /\ rl \in Loop /\ wake \in Wake /\ timer \in Timer
  BY Fields DEF First, ResultTurn, Shape
<1>3. CASE OverBudget(cost + 1)
  <2>1. /\ wake' = [wake EXCEPT !.turn = First, !.tool = 0, !.usage = 0, !.active = FALSE]
        /\ rl' = [rl EXCEPT !.pc = "limits", !.counted = TRUE] /\ UNCHANGED timer
    BY <1>3 DEF Suppress, First
  <2>2. Keeps /\ rl'.pc = "limits" /\ rl'.counted = TRUE /\ rl'.usage = rl.usage
    BY <1>2, <2>1 DEF Loop, RlPcs, Keeps
  <2>3. /\ wake' \in Wake /\ ~wake'.active /\ wake'.fired = wake.fired
        /\ wake'.turn = First /\ wake'.tool = 0 /\ wake'.usage = 0
    BY <1>2, <2>1 DEF Wake
  <2> QED BY <1>1, <1>3, <2>1, <2>2, <2>3 DEF GivesUp
<1>4. CASE ~OverBudget(cost + 1)
  <2>1. PICK k \in Nat : k = wake.usage + rl.usage
    BY Fields
  <2>2. /\ wake' = [wake EXCEPT !.turn = First, !.tool = lastWakeup[rl.n], !.usage = k,
                                !.active = TRUE]
        /\ timer' = [turn |-> ResultTurn, usage |-> rl.usage, wakeup |-> lastWakeup[rl.n],
                      at |-> cost + 1]
        /\ rl' = Reading
    BY <1>4, <2>1 DEF Suppress, First
  <2>3. /\ wake' \in Wake /\ wake'.active /\ wake'.fired = wake.fired
        /\ wake'.turn = First /\ wake'.tool = lastWakeup[rl.n] /\ wake'.usage = k
    BY <1>2, <2>2 DEF Wake
  <2>4. /\ timer' \in Timer /\ timer'.turn = ResultTurn /\ timer'.usage = rl.usage
        /\ timer'.wakeup = lastWakeup[rl.n]
    <3>1. cost + 1 \in Nat
      BY DEF Shape
    <3> QED BY <1>2, <2>2, <3>1, Fields DEF Timer
  <2> QED BY <1>1, <2>1, <2>2, <2>3, <2>4 DEF Waits
<1> QED BY <1>3, <1>4

LEMMA CheckLimitsDoes ==
    ASSUME Shape, CheckLimits
    PROVE  /\ rl.pc = "limits" /\ rl'.pc = "complete" /\ Keeps
           /\ rl'.counted = rl.counted /\ rl'.usage = rl.usage
           /\ cost' = (IF rl.counted THEN cost ELSE cost + 1)
           /\ rl'.err = (rl.err \/ MaxTurnsReached \/ OverBudget(cost'))
           /\ UNCHANGED <<cur, lastWakeup, results, caller, pending, wake, timer, cb, strays,
                          stopping,
                          env, completions, answers, abandoned, left>>
<1>1. PICK e \in BOOLEAN : /\ e = (rl.err \/ MaxTurnsReached \/ OverBudget(cost'))
                           /\ rl' = [rl EXCEPT !.pc = "complete", !.err = e]
  BY Fields DEF CheckLimits
<1>2. rl \in Loop
  BY DEF Shape
<1>3. /\ Keeps /\ rl'.pc = "complete" /\ rl'.counted = rl.counted /\ rl'.usage = rl.usage
      /\ rl'.err = e
  BY <1>1, <1>2 DEF Loop, RlPcs, Keeps
<1> QED BY <1>1, <1>3 DEF CheckLimits

\* A turn is completed with a result: no other turn is touched.
Completes(t, result) ==
    /\ \A u \in Turns \ {t} : results'[u] = results[u] /\ completions'[u] = completions[u]
    /\ t \in Turns => /\ results'[t] = result
                      /\ completions'[t].done = completions[t].done + 1
                      /\ completions'[t].told = completions[t].told
                      /\ completions'[t].usage = completions[t].usage + result.usage
    /\ caller' = [c \in Caller |-> IF caller[c].pc = "waiting" /\ caller[c].on = t
                                   THEN Idle ELSE caller[c]]
    /\ \A a \in answers' \ answers : \E c \in Caller :
          /\ caller[c].pc = "waiting" /\ caller[c].on = t
          /\ a.asked = caller[c].mine /\ a.of = result.of

Result == [done : BOOLEAN, of : Nat, usage : Nat, err : BOOLEAN, late : BOOLEAN]

LEMMA CompletesDoes ==
    ASSUME Shape, NEW t \in Nat, NEW result \in Result, CompleteTurn(t, result), Turns' = Turns
    PROVE  /\ Completes(t, result)
           /\ results' \in [Turns -> Result]
           /\ completions' \in [Turns -> [done : Nat, told : Nat, usage : Nat]]
<1>1. /\ results' = [results EXCEPT ![t] = result]
      /\ completions' = [completions EXCEPT ![t].done = @ + 1, ![t].usage = @ + result.usage]
  BY DEF CompleteTurn
<1>2. results \in [Turns -> Result]
  BY DEF Shape, Result
<1>3. completions \in [Turns -> [done : Nat, told : Nat, usage : Nat]] /\ result.usage \in Nat
  BY DEF Shape, Result
<1>4. results' \in [Turns -> Result]
  BY <1>1, <1>2
<1>5. completions' \in [Turns -> [done : Nat, told : Nat, usage : Nat]]
  <2>1. completions' \in [Turns -> [done : Nat, told : Nat, usage : Nat]]
           \/ t \in Turns
    BY <1>1, <1>3
  <2>2. ASSUME t \in Turns
        PROVE  completions' \in [Turns -> [done : Nat, told : Nat, usage : Nat]]
    <3> DEFINE w == [completions[t] EXCEPT !.done = @ + 1, !.usage = @ + result.usage]
    <3>1. completions' = [completions EXCEPT ![t] = w]
      BY <1>1, <1>3, <2>2
    <3>2. w \in [done : Nat, told : Nat, usage : Nat]
      <4>1. completions[t] \in [done : Nat, told : Nat, usage : Nat]
        BY <1>3, <2>2
      <4>2. completions[t].done + 1 \in Nat /\ completions[t].usage + result.usage \in Nat
        BY <1>3, <4>1
      <4> QED BY <4>1, <4>2
    <3> HIDE DEF w
    <3> QED BY <1>3, <3>1, <3>2
  <2> QED BY <2>1, <2>2
<1>6. \A u \in Turns \ {t} : results'[u] = results[u] /\ completions'[u] = completions[u]
  BY <1>1, <1>2, <1>3
<1>7. ASSUME t \in Turns
      PROVE  /\ results'[t] = result
             /\ completions'[t].done = completions[t].done + 1
             /\ completions'[t].told = completions[t].told
             /\ completions'[t].usage = completions[t].usage + result.usage
  BY <1>1, <1>2, <1>3, <1>7
<1>8. caller' = [c \in Caller |-> IF caller[c].pc = "waiting" /\ caller[c].on = t
                                  THEN Idle ELSE caller[c]]
  BY DEF CompleteTurn
<1>9. \A a \in answers' \ answers : \E c \in Caller :
          /\ caller[c].pc = "waiting" /\ caller[c].on = t
          /\ a.asked = caller[c].mine /\ a.of = result.of
  <2>1. answers' = answers \cup
          {[asked |-> caller[c].mine, of |-> result.of] :
              c \in {d \in Caller : caller[d].pc = "waiting" /\ caller[d].on = t}}
    BY DEF CompleteTurn
  <2> QED BY <2>1
<1> QED BY <1>4, <1>5, <1>6, <1>7, <1>8, <1>9 DEF Completes

LoopResult == [done |-> TRUE, of |-> rl.of, usage |-> rl.usage, err |-> rl.err, late |-> FALSE]

LEMMA LoopCompletesDoes ==
    ASSUME Shape, ReadLoopCompletes
    PROVE  /\ rl.pc = "complete" /\ Keeps /\ rl'.pc = "announce" /\ rl'.counted = rl.counted
           /\ Completes(ResultTurn, LoopResult)
           /\ results' \in [Turns -> Result]
           /\ completions' \in [Turns -> [done : Nat, told : Nat, usage : Nat]]
           /\ LoopResult.done /\ LoopResult.of = rl.of /\ LoopResult.usage = rl.usage
           /\ LoopResult.err = rl.err
           /\ abandoned' = (IF rl.err /\ lastWakeup[rl.n] # 0 THEN abandoned \cup {ResultTurn}
                            ELSE abandoned)
           /\ UNCHANGED <<cur, lastWakeup, pending, wake, timer, cost, cb, strays, stopping,
                          env, left>>
<1>1. /\ rl' = [rl EXCEPT !.pc = "announce"] /\ CompleteTurn(ResultTurn, LoopResult)
      /\ rl.pc = "complete" /\ Turns' = Turns
      /\ UNCHANGED <<cur, lastWakeup, pending, wake, timer, cost, cb, strays, stopping, env,
                     left>>
      /\ abandoned' = (IF rl.err /\ lastWakeup[rl.n] # 0 THEN abandoned \cup {ResultTurn}
                       ELSE abandoned)
  BY DEF ReadLoopCompletes, LoopResult, Turns
<1>2. LoopResult \in Result /\ ResultTurn \in Nat /\ rl \in Loop
  BY Fields DEF LoopResult, Result, ResultTurn, Shape
<1>3. Keeps /\ rl'.pc = "announce" /\ rl'.counted = rl.counted
  BY <1>1, <1>2 DEF Loop, RlPcs, Keeps
<1>4. /\ LoopResult.done /\ LoopResult.of = rl.of /\ LoopResult.usage = rl.usage
      /\ LoopResult.err = rl.err
  BY DEF LoopResult
<1>5. /\ Completes(ResultTurn, LoopResult) /\ results' \in [Turns -> Result]
      /\ completions' \in [Turns -> [done : Nat, told : Nat, usage : Nat]]
  BY <1>1, <1>2, CompletesDoes
<1> QED BY <1>1, <1>3, <1>4, <1>5

LateResult == [done |-> TRUE, of |-> cb.turn, usage |-> cb.usage, err |-> FALSE, late |-> TRUE]

LEMMA TimerCompletesDoes ==
    ASSUME Shape, TimerCompletes
    PROVE  /\ cb.pc = "complete" /\ cb' \in Callback /\ cb'.pc = "announce"
           /\ cb'.turn = cb.turn /\ cb'.wakeup = cb.wakeup /\ cb'.stale = cb.stale
           /\ Completes(cb.turn, LateResult)
           /\ results' \in [Turns -> Result]
           /\ completions' \in [Turns -> [done : Nat, told : Nat, usage : Nat]]
           /\ LateResult.done /\ LateResult.of = cb.turn /\ LateResult.usage = cb.usage
           /\ LateResult.late
           /\ UNCHANGED <<cur, lastWakeup, pending, wake, timer, cost, rl, strays, stopping,
                          env,
                          abandoned, left>>
<1>1. /\ cb' = [cb EXCEPT !.pc = "announce"] /\ CompleteTurn(cb.turn, LateResult)
      /\ cb.pc = "complete" /\ Turns' = Turns
      /\ UNCHANGED <<cur, lastWakeup, pending, wake, timer, cost, rl, strays, stopping, env,
                     abandoned, left>>
  BY DEF TimerCompletes, LateResult, Turns
<1>2. LateResult \in Result /\ cb.turn \in Nat /\ cb \in Callback
  BY Fields DEF LateResult, Result, Shape
<1>3. /\ cb' \in Callback /\ cb'.pc = "announce"
      /\ cb'.turn = cb.turn /\ cb'.wakeup = cb.wakeup /\ cb'.stale = cb.stale
  BY <1>1, <1>2 DEF Callback
<1>4. /\ LateResult.done /\ LateResult.of = cb.turn /\ LateResult.usage = cb.usage
      /\ LateResult.late
  BY DEF LateResult
<1>5. /\ Completes(cb.turn, LateResult) /\ results' \in [Turns -> Result]
      /\ completions' \in [Turns -> [done : Nat, told : Nat, usage : Nat]]
  BY <1>1, <1>2, CompletesDoes
<1> QED BY <1>1, <1>3, <1>4, <1>5

\* An announcement counts for one turn, or is dropped.
Announces(t) ==
    /\ completions' \in [Turns -> [done : Nat, told : Nat, usage : Nat]]
    /\ \A u \in Turns : /\ completions'[u].done = completions[u].done
                        /\ completions'[u].usage = completions[u].usage
                        /\ u # t => completions'[u].told = completions[u].told

LEMMA AnnouncesDoes ==
    ASSUME Shape, NEW t, Announce(t)
    PROVE  Announces(t)
<1>1. completions \in [Turns -> [done : Nat, told : Nat, usage : Nat]]
  BY DEF Shape
<1>2. CASE stopping
  BY <1>1, <1>2 DEF Announce, Announces
<1>3. CASE ~stopping
  <2>1. completions' = [completions EXCEPT ![t].told = @ + 1]
    BY <1>3 DEF Announce
  <2>2. \A u \in Turns : /\ completions'[u].done = completions[u].done
                         /\ completions'[u].usage = completions[u].usage
                         /\ u # t => completions'[u].told = completions[u].told
    BY <1>1, <2>1
  <2>3. completions' \in [Turns -> [done : Nat, told : Nat, usage : Nat]]
    <3> DEFINE w == [completions[t] EXCEPT !.told = @ + 1]
    <3>1. completions' = [completions EXCEPT ![t] = w]
      BY <1>1, <2>1
    <3>2. t \in Turns => w \in [done : Nat, told : Nat, usage : Nat]
      BY <1>1
    <3> HIDE DEF w
    <3> QED BY <1>1, <3>1, <3>2
  <2> QED BY <2>2, <2>3 DEF Announces
<1> QED BY <1>2, <1>3

LEMMA TimerFiresDoes ==
    ASSUME Shape, TimerFires
    PROVE  /\ timer # NoTimer /\ timer' = NoTimer
           /\ \/ /\ cb.pc = "off" /\ UNCHANGED strays
                 /\ cb' \in Callback /\ cb'.pc = "lock" /\ cb'.turn = timer.turn
                 /\ cb'.usage = timer.usage /\ cb'.wakeup = timer.wakeup /\ cb'.stale = cb.stale
              \/ UNCHANGED cb /\ strays' = strays \cup {Stray("lock", timer)}
           /\ UNCHANGED <<cur, lastWakeup, results, caller, pending, wake, cost, rl, stopping,
                          env, completions, answers, abandoned, left>>
<1>1. CASE cb.pc = "off"
  <2>1. PICK a \in Nat, b \in Nat, c \in Nat :
           /\ a = timer.turn /\ b = timer.usage /\ c = timer.wakeup
           /\ cb' = [cb EXCEPT !.pc = "lock", !.turn = a, !.usage = b, !.wakeup = c]
    BY <1>1, Fields DEF TimerFires
  <2>2. cb \in Callback
    BY DEF Shape
  <2>3. /\ cb' \in Callback /\ cb'.pc = "lock" /\ cb'.turn = a
        /\ cb'.usage = b /\ cb'.wakeup = c /\ cb'.stale = cb.stale
    BY <2>1, <2>2 DEF Callback
  <2> QED BY <1>1, <2>1, <2>3 DEF TimerFires
<1>2. CASE cb.pc # "off"
  BY <1>2 DEF TimerFires
<1> QED BY <1>1, <1>2

\* The timer's goroutine finds the turn still held back, or not.
TakesOver ==
    /\ wake.active /\ wake' \in Wake /\ ~wake'.active /\ wake'.fired = TRUE /\ wake'.usage = 0
    /\ wake'.turn = wake.turn /\ wake'.tool = wake.tool /\ timer' = NoTimer
    /\ cb' \in Callback /\ cb'.pc = "complete" /\ cb'.turn = cb.turn /\ cb'.usage = cb.usage
    /\ cb'.wakeup = cb.wakeup
    /\ cb'.stale = (cb.stale \/ cb.wakeup # wake.tool \/ timer # NoTimer)
    /\ strays' = strays \cup Orphans

LooksAway ==
    /\ ~wake.active /\ UNCHANGED <<wake, timer, strays>>
    /\ cb' \in Callback /\ cb'.pc = "off" /\ cb'.turn = cb.turn /\ cb'.usage = cb.usage
    /\ cb'.wakeup = cb.wakeup /\ cb'.stale = cb.stale

\* Whoever takes over, the suppression ends.
LEMMA TakeOverDoes ==
    ASSUME Shape, TakeOver
    PROVE  /\ wake' \in Wake /\ ~wake'.active /\ wake'.fired = TRUE /\ wake'.usage = 0
           /\ wake'.turn = wake.turn /\ wake'.tool = wake.tool /\ timer' = NoTimer
<1>1. /\ wake' = [wake EXCEPT !.active = FALSE, !.fired = TRUE, !.usage = 0]
      /\ timer' = NoTimer /\ wake \in Wake
  BY DEF TakeOver, Shape
<1> QED BY <1>1 DEF Wake

LEMMA TimerTakesOverDoes ==
    ASSUME Shape, TimerTakesOver
    PROVE  /\ cb.pc = "lock" /\ (TakesOver \/ LooksAway)
           /\ UNCHANGED <<cur, lastWakeup, results, caller, pending, cost, rl, stopping, env,
                          completions, answers, abandoned, left>>
<1>1. /\ cb.pc = "lock" /\ cb \in Callback
      /\ UNCHANGED <<cur, lastWakeup, results, caller, pending, cost, rl, stopping, env,
                     completions, answers, abandoned, left>>
  BY DEF TimerTakesOver, Shape
<1>2. CASE wake.active
  <2>1. PICK b \in BOOLEAN :
           /\ b = (cb.stale \/ cb.wakeup # wake.tool \/ timer # NoTimer)
           /\ cb' = [cb EXCEPT !.pc = "complete", !.stale = b]
    BY <1>2, Fields DEF TimerTakesOver
  <2>2. TakeOver /\ strays' = strays \cup Orphans
    BY <1>2 DEF TimerTakesOver
  <2>3. /\ cb' \in Callback /\ cb'.pc = "complete" /\ cb'.turn = cb.turn /\ cb'.usage = cb.usage
        /\ cb'.wakeup = cb.wakeup /\ cb'.stale = b
    BY <1>1, <2>1 DEF Callback
  <2> QED BY <1>1, <1>2, <2>1, <2>2, <2>3, TakeOverDoes DEF TakesOver
<1>3. CASE ~wake.active
  <2>1. cb' = [cb EXCEPT !.pc = "off"] /\ UNCHANGED <<wake, timer, strays>>
    BY <1>3 DEF TimerTakesOver
  <2>2. /\ cb' \in Callback /\ cb'.pc = "off" /\ cb'.turn = cb.turn /\ cb'.usage = cb.usage
        /\ cb'.wakeup = cb.wakeup /\ cb'.stale = cb.stale
    BY <1>1, <2>1 DEF Callback
  <2> QED BY <1>1, <1>3, <2>1, <2>2 DEF LooksAway
<1> QED BY <1>2, <1>3

\* What strays leave alone.
Elsewhere == <<cur, lastWakeup, pending, cost, rl, stopping, env, abandoned, left>>

\* A stray fires, or finds nothing to do.
StrayWaits(s) ==
    /\ UNCHANGED <<results, caller, completions, answers, wake, timer, cb>>
    /\ \/ s.pc = "armed" /\ strays' = (strays \ {s}) \cup {[s EXCEPT !.pc = "lock"]}
       \/ s.pc = "lock" /\ ~wake.active /\ strays' = strays \ {s}

\* A stray ends the wait.
StrayTakes(s) ==
    /\ UNCHANGED <<results, caller, completions, answers>> /\ wake.active /\ s.pc = "lock"
    /\ wake' \in Wake /\ ~wake'.active /\ wake'.fired = TRUE /\ wake'.usage = 0
    /\ wake'.turn = wake.turn /\ wake'.tool = wake.tool /\ timer' = NoTimer
    /\ cb' \in Callback /\ cb'.pc = cb.pc /\ cb'.turn = cb.turn /\ cb'.usage = cb.usage
    /\ cb'.wakeup = cb.wakeup /\ cb'.stale
    /\ strays' = (strays \ {s}) \cup {[s EXCEPT !.pc = "complete"]} \cup Orphans

StrayResult(s) == [done |-> TRUE, of |-> s.turn, usage |-> s.usage, err |-> FALSE, late |-> TRUE]

\* A stray completes its turn.
StrayEnds(s) ==
    /\ UNCHANGED <<wake, timer, cb>> /\ s.pc = "complete"
    /\ strays' = (strays \ {s}) \cup {[s EXCEPT !.pc = "announce"]}
    /\ Completes(s.turn, StrayResult(s))
    /\ results' \in [Turns -> Result]
    /\ completions' \in [Turns -> [done : Nat, told : Nat, usage : Nat]]

\* A stray announces it and is gone.
StrayTells(s) ==
    /\ UNCHANGED <<results, caller, answers, wake, timer, cb>> /\ s.pc = "announce"
    /\ strays' = strays \ {s} /\ Announces(s.turn)

LEMMA StrayDoes ==
    ASSUME Shape, strays \subseteq StrayTimer, Strays
    PROVE  \E s \in strays : /\ UNCHANGED Elsewhere
                             /\ StrayWaits(s) \/ StrayTakes(s) \/ StrayEnds(s) \/ StrayTells(s)
<1>1. PICK s \in strays :
         StrayFires(s) \/ StrayTakesOver(s) \/ StrayCompletes(s) \/ StrayAnnounces(s)
  BY DEF Strays
<1>2. UNCHANGED Elsewhere
  BY <1>1 DEF StrayFires, StrayTakesOver, StrayCompletes, StrayAnnounces, Elsewhere
<1>3. CASE StrayFires(s)
  BY <1>1, <1>2, <1>3 DEF StrayFires, StrayWaits
<1>4. CASE StrayTakesOver(s) /\ ~wake.active
  BY <1>1, <1>2, <1>4 DEF StrayTakesOver, StrayWaits
<1>5. CASE StrayTakesOver(s) /\ wake.active
  <2>1. /\ TakeOver /\ cb' = [cb EXCEPT !.stale = TRUE] /\ cb \in Callback
        /\ s.pc = "lock" /\ UNCHANGED <<results, caller, completions, answers>>
        /\ strays' = (strays \ {s}) \cup {[s EXCEPT !.pc = "complete"]} \cup Orphans
    BY <1>5 DEF StrayTakesOver, Shape
  <2>2. /\ cb' \in Callback /\ cb'.pc = cb.pc /\ cb'.turn = cb.turn /\ cb'.usage = cb.usage
        /\ cb'.wakeup = cb.wakeup /\ cb'.stale
    BY <2>1 DEF Callback
  <2> QED BY <1>1, <1>2, <1>5, <2>1, <2>2, TakeOverDoes DEF StrayTakes
<1>6. CASE StrayCompletes(s)
  <2>1. /\ CompleteTurn(s.turn, StrayResult(s)) /\ Turns' = Turns /\ s.pc = "complete"
        /\ strays' = (strays \ {s}) \cup {[s EXCEPT !.pc = "announce"]}
        /\ UNCHANGED <<wake, timer, cb>>
    BY <1>6 DEF StrayCompletes, StrayResult, Turns
  <2>2. StrayResult(s) \in Result /\ s.turn \in Nat
    BY <1>1 DEF StrayResult, Result, StrayTimer
  <2>3. /\ Completes(s.turn, StrayResult(s)) /\ results' \in [Turns -> Result]
        /\ completions' \in [Turns -> [done : Nat, told : Nat, usage : Nat]]
    BY <2>1, <2>2, CompletesDoes
  <2> QED BY <1>1, <1>2, <2>1, <2>3 DEF StrayEnds
<1>7. CASE StrayAnnounces(s)
  <2>1. Announces(s.turn)
    BY <1>7, AnnouncesDoes DEF StrayAnnounces
  <2> QED BY <1>1, <1>2, <1>7, <2>1 DEF StrayAnnounces, StrayTells
<1> QED BY <1>1, <1>2, <1>3, <1>4, <1>5, <1>6, <1>7

LEMMA TimerAnnouncesDoes ==
    ASSUME Shape, TimerAnnounces
    PROVE  /\ cb.pc = "announce" /\ Announces(cb.turn)
           /\ cb' \in Callback /\ cb'.pc = "off" /\ cb'.turn = cb.turn
           /\ cb'.wakeup = cb.wakeup /\ cb'.stale = cb.stale
           /\ UNCHANGED <<cur, lastWakeup, results, caller, pending, wake, timer, cost, rl,
                          strays,
                          stopping, env, answers, abandoned, left>>
<1>1. cb' = [cb EXCEPT !.pc = "off"] /\ cb \in Callback
  BY DEF TimerAnnounces, Shape
<1>2. /\ cb' \in Callback /\ cb'.pc = "off" /\ cb'.turn = cb.turn
      /\ cb'.wakeup = cb.wakeup /\ cb'.stale = cb.stale
  BY <1>1 DEF Callback
<1>3. Announces(cb.turn)
  BY AnnouncesDoes DEF TimerAnnounces
<1> QED BY <1>2, <1>3 DEF TimerAnnounces

\* No suppression, and no timer.
LEMMA ResetIs ==
    /\ NoWake \in Wake /\ ~NoWake.active /\ ~NoWake.fired /\ NoWake.turn = 0
    /\ NoWake.tool = 0 /\ NoWake.usage = 0
    /\ NoTimer \in Timer /\ NoTimer.turn = 0 /\ NoTimer.usage = 0 /\ NoTimer.wakeup = 0
BY DEF NoWake, NoTimer, Wake, Timer
-----------------------------------------------------------------------------
(* Every step preserves what holds whatever happens.                          *)

\* The turns have numbers, and the session's steps create none.
LEMMA Numbers ==
    ASSUME Waiting
    PROVE  /\ cur \in Nat /\ (cur > 0 => cur \in Turns)
           /\ Turns \subseteq Nat \ {0}
           /\ \A t \in Nat : t > 0 /\ t <= cur => t \in Turns
BY DEF Waiting

LEMMA SameTurns ==
    ASSUME Shape, Waiting, Next
    PROVE  Turns' = Turns
<1>1. ASSUME ReadWakeup PROVE Turns' = Turns
  BY <1>1 DEF ReadWakeup, Turns
<1>2. ASSUME UNCHANGED lastWakeup PROVE Turns' = Turns
  BY <1>2 DEF Turns
<1>3. ReadWakeup \/ UNCHANGED lastWakeup
  BY DEF Next, Cli, CliTakes, CliContinues, CliSchedules, CliApiError, CliResult, Ask,
     SendMessage, WaitForTurn, CancelWait, Stop, ReadLoop, ReadSynthetic, RecordTransient,
     ReadResult, ConsumeTransient, SnapshotWakeup, ReadTurnNumber, TakeUsage, Suppress,
     CheckLimits, ReadLoopCompletes, ReadLoopAnnounces, SafetyTimer, TimerFires,
     TimerTakesOver, TimerCompletes, TimerAnnounces, Strays, StrayFires, StrayTakesOver,
     StrayCompletes, StrayAnnounces
<1> QED BY <1>1, <1>2, <1>3

Rest == Shape /\ Bounded /\ Told /\ Timed /\ Untouched /\ Numbered /\ Printed

\* What Told, Timed, Untouched and the session's part of Bounded look at.
Inside == <<cur, lastWakeup, results, caller, pending, wake, timer, rl, cb, strays,
            completions>>

LEMMA InsideKept ==
    ASSUME Told, Timed, Untouched, UNCHANGED Inside, Turns' = Turns
    PROVE  Told' /\ Timed' /\ Untouched'
<1>1. Told'
  BY DEF Told, Inside, AnnouncedIsRecorded, ResultTurn
<1>2. Timed'
  BY DEF Timed, Inside, SuppressionIsTimed, Deciding
<1>3. Untouched'
  BY DEF Untouched, Inside
<1> QED BY <1>1, <1>2, <1>3

\* What the CLI takes up: nothing is printed.
LEMMA CliStarts ==
    ASSUME AnyInv, CliTakes \/ CliContinues, Turns' = Turns
    PROVE  Rest'
<1>1. /\ UNCHANGED <<Session, out, left>> /\ cli.turn = 0
      /\ cli' \in Agent /\ cli'.turn > 0 /\ cli'.turn <= cur
      /\ cli'.scheduled = FALSE /\ cli'.failing = FALSE
      /\ cli'.wakeups \subseteq cli.wakeups /\ cli'.next = cli.next
      /\ prompts' \in Seq(Nat)
      /\ \A i \in 1 .. Len(prompts') : prompts'[i] \in 1 .. cur
  <2>1. CASE CliTakes
    <3>1. /\ prompts # <<>> /\ prompts \in Seq(Nat) /\ prompts' = Tail(prompts)
          /\ UNCHANGED <<Session, out, left>> /\ cli.turn = 0
          /\ cli' \in Agent /\ cli'.turn = prompts[1]
          /\ cli'.scheduled = FALSE /\ cli'.failing = FALSE
          /\ cli'.wakeups = cli.wakeups /\ cli'.next = cli.next
      BY <2>1, CliTakesDoes DEF AnyInv, Shape
    <3>2. /\ prompts' \in Seq(Nat) /\ Len(prompts') = Len(prompts) - 1 /\ 1 \in 1 .. Len(prompts)
          /\ \A i \in 1 .. Len(prompts') : prompts'[i] = prompts[i + 1] /\ i + 1 \in 1 .. Len(prompts)
      BY <3>1, Shifted
    <3>3. \A i \in 1 .. Len(prompts) : prompts[i] \in 1 .. cur
      BY DEF AnyInv, Bounded
    <3>4. prompts[1] > 0 /\ prompts[1] <= cur
      BY <3>2, <3>3, Numbers DEF AnyInv
    <3> QED BY <3>1, <3>2, <3>3, <3>4
  <2>2. CASE CliContinues
    <3>1. /\ UNCHANGED <<Session, out, left, prompts>> /\ cli.turn = 0
          /\ cli' \in Agent /\ cli'.turn \in cli.wakeups
          /\ cli'.scheduled = FALSE /\ cli'.failing = FALSE
          /\ cli'.wakeups = cli.wakeups \ {cli'.turn} /\ cli'.next = cli.next
      BY <2>2, CliContinuesDoes DEF AnyInv
    <3>2. cli.wakeups \subseteq 1 .. cur /\ cur \in Nat
      BY Numbers DEF AnyInv, Bounded
    <3> QED BY <3>1, <3>2 DEF AnyInv, Shape, Bounded
  <2> QED BY <2>1, <2>2
<1>2. Shape'
  BY <1>1 DEF AnyInv, Shape, Session
<1>3. Bounded'
  BY <1>1 DEF AnyInv, Bounded, Session, Busy
<1>4. Told' /\ Timed' /\ Untouched'
  BY <1>1, InsideKept DEF AnyInv, Session, Inside
<1>5. Numbered'
  BY <1>1 DEF AnyInv, Numbered, Newer, Session
<1>6. Printed'
  BY <1>1 DEF AnyInv, Printed
<1> QED BY <1>2, <1>3, <1>4, <1>5, <1>6 DEF Rest

\* What the CLI prints.
LEMMA CliPrints ==
    ASSUME AnyInv, CliSchedules \/ CliApiError \/ CliResult, Turns' = Turns
    PROVE  Rest'
<1>1. /\ UNCHANGED <<Session, prompts>> /\ left' \in [Events -> Nat] /\ cli' \in Agent
      /\ cli'.turn \in {0, cli.turn}
  BY CliSchedulesDoes, CliApiErrorDoes, CliResultDoes DEF AnyInv
<1>0. cli.next \in Nat
  BY Fields DEF AnyInv
<1>2. /\ cli'.wakeups \subseteq cli.wakeups \cup {cli.turn}
      /\ cli.next <= cli'.next
  <2>1. CASE CliSchedules
    BY <1>0, <2>1, CliSchedulesDoes DEF AnyInv
  <2>2. CASE CliApiError
    BY <1>0, <2>2, CliApiErrorDoes DEF AnyInv
  <2>3. CASE CliResult
    BY <1>0, <2>3, CliResultDoes DEF AnyInv
  <2> QED BY <2>1, <2>2, <2>3
<1>3. PICK m : /\ Prints(m)
               /\ m.kind = "wakeup" => cli.next < cli'.next /\ m.id = cli.next
               /\ \/ m.kind = "wakeup" /\ cli'.turn # 0 /\ cli'.scheduled /\ ~cli'.failing
                                       /\ ~cli.scheduled /\ ~cli.failing
                  \/ m.kind = "synthetic" /\ cli'.turn # 0 /\ ~cli'.scheduled /\ cli'.failing
                                          /\ ~cli.scheduled /\ ~cli.failing
                  \/ m.kind = "result" /\ cli'.turn = 0
  <2>1. CASE CliSchedules
    <3>1. PICK m : Prints(m) /\ m.kind = "wakeup" /\ m.id = cli.next
      BY <2>1, CliSchedulesDoes DEF AnyInv
    <3>2. cli'.next = cli.next + 1 /\ cli'.turn # 0
      BY <2>1, <3>1, CliSchedulesDoes DEF AnyInv, Prints
    <3>3. cli'.scheduled /\ ~cli'.failing /\ ~cli.scheduled /\ ~cli.failing
      BY <2>1, CliSchedulesDoes DEF AnyInv
    <3> QED BY <1>0, <3>1, <3>2, <3>3
  <2>2. CASE CliApiError
    BY <2>2, CliApiErrorDoes DEF AnyInv, Prints
  <2>3. CASE CliResult
    BY <2>3, CliResultDoes DEF AnyInv, Prints
  <2> QED BY <2>1, <2>2, <2>3
<1>4. /\ out \in Seq(Item) /\ cur \in Nat /\ cli.turn \in Nat /\ cli.turn > 0 /\ cli.turn <= cur
      /\ cli.next \in Nat
  BY <1>3, Fields, Numbers DEF AnyInv, Shape, Bounded, Prints
<1>5. /\ out' \in Seq(Item) /\ Len(out') = Len(out) + 1 /\ out' # <<>> /\ out'[Len(out')] = m
      /\ \A i \in 1 .. Len(out) : out'[i] = out[i]
      /\ Len(out) \in Nat /\ (out = <<>> <=> Len(out) = 0)
  BY <1>3, <1>4, Appended DEF Prints
<1>6. Shape'
  BY <1>1, <1>5 DEF AnyInv, Shape, Session
<1>7. Bounded'
  <2>1. \A i \in 1 .. Len(out') : out'[i].of \in 1 .. cur
    BY <1>3, <1>4, <1>5 DEF AnyInv, Bounded, Prints
  <2> QED BY <1>1, <1>2, <1>4, <2>1 DEF AnyInv, Bounded, Session, Busy
<1>8. Told' /\ Timed' /\ Untouched'
  BY <1>1, InsideKept DEF AnyInv, Session, Inside
<1>9. Numbered'
  <2>1. cli'.next \in Nat /\ (\A t \in Turns : lastWakeup[t] \in Nat)
        /\ wake.tool \in Nat /\ timer.wakeup \in Nat /\ cb.wakeup \in Nat
    BY <1>6, Fields DEF AnyInv, Shape, Agent
  <2>2. Newer(cli.next)
    BY DEF AnyInv, Numbered
  <2>3. Newer(cli'.next)
    BY <1>2, <1>4, <2>1, <2>2 DEF Newer
  <2>4. \A i \in 1 .. Len(out) : out[i].id \in Nat
    <3>1. \A i \in 1 .. Len(out) : out[i] \in Item
      BY <1>4
    <3> QED BY <3>1 DEF Item
  <2>5. \A i \in 1 .. Len(out') : out'[i].kind = "wakeup" => out'[i].id < cli'.next /\ Newer(out'[i].id)
    <3> TAKE i \in 1 .. Len(out')
    <3>1. CASE i \in 1 .. Len(out)
      BY <3>1, <1>2, <1>4, <1>5, <2>1, <2>4 DEF AnyInv, Numbered
    <3>2. CASE i = Len(out')
      BY <3>2, <1>3, <1>5, <2>2
    <3> QED BY <3>1, <3>2, <1>5
  <2>6. \A i, j \in 1 .. Len(out') :
          i < j /\ out'[i].kind = "wakeup" /\ out'[j].kind = "wakeup" => out'[i].id < out'[j].id
    <3> TAKE i, j \in 1 .. Len(out')
    <3> HAVE i < j /\ out'[i].kind = "wakeup" /\ out'[j].kind = "wakeup"
    <3>1. i \in 1 .. Len(out) /\ out'[i] = out[i]
      BY <1>5
    <3>2. CASE j \in 1 .. Len(out)
      BY <3>1, <3>2, <1>5 DEF AnyInv, Numbered
    <3>3. CASE j = Len(out')
      BY <3>1, <3>3, <1>3, <1>5 DEF AnyInv, Numbered
    <3> QED BY <3>2, <3>3, <1>5
  <2> HIDE DEF Newer
  <2>7. \A k : Newer(k) => Newer(k)'
    BY <1>1 DEF Newer, Session
  <2> QED BY <2>3, <2>5, <2>6, <1>1 DEF Numbered, Newer, Session
<1>10. Printed'
  <2>1. \A i \in 1 .. Len(out') :
           i < Len(out') /\ out'[i].kind # "result" => out'[i + 1].kind = "result"
    <3> TAKE i \in 1 .. Len(out')
    <3> HAVE i < Len(out') /\ out'[i].kind # "result"
    <3>1. i \in 1 .. Len(out) /\ out'[i] = out[i] /\ i + 1 \in 1 .. Len(out')
      BY <1>5
    <3>2. CASE i < Len(out)
      <4>1. i + 1 \in 1 .. Len(out) /\ out'[i + 1] = out[i + 1]
        BY <3>1, <3>2, <1>5
      <4> QED BY <3>1, <3>2, <4>1 DEF AnyInv, Printed
    <3>3. CASE i = Len(out)
      <4>1. out[Len(out)].kind # "result" /\ out # <<>>
        BY <3>1, <3>3, <1>5
      <4>2. out[Len(out)].kind \in {"wakeup", "synthetic"}
        <5>1. out[Len(out)] \in Item
          BY <3>1, <3>3, <1>4
        <5> QED BY <4>1, <5>1 DEF Item
      <4>3. m.kind = "result"
        BY <4>1, <4>2, <1>3, <1>4 DEF AnyInv, Printed
      <4> QED BY <4>3, <3>3, <1>5
    <3> QED BY <3>1, <3>2, <3>3, <1>5
  <2>2. cli'.turn = 0 => out'[Len(out')].kind = "result"
    BY <1>3, <1>5
  <2>3. cli'.turn # 0 => /\ ~(cli'.scheduled /\ cli'.failing)
                         /\ (out'[Len(out')].kind = "wakeup" <=> cli'.scheduled)
                         /\ (out'[Len(out')].kind = "synthetic" <=> cli'.failing)
    BY <1>3, <1>5
  <2> QED BY <2>1, <2>2, <2>3 DEF Printed
<1> QED BY <1>6, <1>7, <1>8, <1>9, <1>10 DEF Rest

\* No wakeup is newer than the ones printed, unless it is one of those.
LEMMA NewerKept ==
    ASSUME Shape, Numbered, UNCHANGED <<out, cli, lastWakeup>>, Turns' = Turns,
           wake'.tool \in {0, wake.tool} \cup {lastWakeup[t] : t \in Turns},
           timer'.wakeup \in {0, timer.wakeup} \cup {lastWakeup[t] : t \in Turns},
           cb'.wakeup \in {cb.wakeup, timer.wakeup}
    PROVE  Numbered'
<1>1. \A k \in Nat : Newer(k) => Newer(k)'
  <2> TAKE k \in Nat
  <2> HAVE Newer(k)
  <2>1. \A t \in Turns : lastWakeup[t] < k
    BY DEF Newer
  <2>2. wake.tool < k /\ timer.wakeup < k /\ cb.wakeup < k /\ 0 < k
    BY Fields DEF Newer
  <2>3. wake'.tool < k /\ timer'.wakeup < k /\ cb'.wakeup < k
    BY <2>1, <2>2
  <2> QED BY <2>1, <2>3 DEF Newer
<1>2. cli.next \in Nat /\ \A i \in 1 .. Len(out) : out[i].id \in Nat
  <2>1. \A i \in 1 .. Len(out) : out[i] \in Item
    BY DEF Shape
  <2> QED BY <2>1, Fields DEF Item
<1> HIDE DEF Newer
<1> QED BY <1>1, <1>2 DEF Numbered

\* SendMessage begins a turn.
LEMMA SendDoes ==
    ASSUME Waiting, NEW c \in Caller, SendMessage(c)
    PROVE  /\ cur' = cur + 1 /\ cur + 1 \in Turns /\ wake' = NoWake /\ timer' = NoTimer
           /\ caller[c].pc = "idle" /\ MaySend /\ ~stopping /\ pending = {}
           /\ abandoned' = abandoned \cup cli.wakeups
           /\ UNCHANGED <<lastWakeup, results, pending, cost, rl, cb, strays, stopping, cli,
                          out,
                          completions, answers>>
           /\ \/ /\ prompts' = Append(prompts, cur + 1) /\ UNCHANGED left
                 /\ caller' = [caller EXCEPT ![c] = [pc |-> "sent", mine |-> cur + 1, on |-> 0]]
              \/ Spend("writeError") /\ UNCHANGED <<prompts, caller>>
<1>1. PICK n \in Nat : Turns = 1 .. n /\ cur \in 0 .. n
  BY DEF Waiting
<1>2. Cardinality(Turns) = n
  BY <1>1, FS_Interval, Z3
<1>3. cur < Cardinality(Turns)
  BY DEF SendMessage
<1> QED BY <1>1, <1>2, <1>3 DEF SendMessage, Reset

LEMMA SendAny ==
    ASSUME AnyInv, NEW c \in Caller, SendMessage(c), Turns' = Turns
    PROVE  Rest'
<1>1. /\ cur' = cur + 1 /\ wake' = NoWake /\ timer' = NoTimer /\ pending = {}
      /\ cur \in Nat
      /\ UNCHANGED <<lastWakeup, results, pending, cost, rl, cb, strays, stopping, cli, out,
                     completions, answers>>
  BY SendDoes, Numbers DEF AnyInv
<1>2. /\ prompts' \in Seq(Nat) /\ left' \in [Events -> Nat]
      /\ \A i \in 1 .. Len(prompts') : prompts'[i] \in 1 .. (cur + 1)
      /\ \A d \in Caller : caller'[d].mine <= cur + 1 /\ caller'[d].on <= cur + 1
  <2>0. /\ prompts \in Seq(Nat) /\ cur \in Nat
        /\ \A i \in 1 .. Len(prompts) : prompts[i] \in 1 .. cur
        /\ caller \in [Caller -> [pc : {"idle", "sent", "waiting"}, mine : Nat, on : Nat]]
        /\ \A d \in Caller : caller[d].mine <= cur /\ caller[d].on <= cur
        /\ left \in [Events -> Nat]
    BY Numbers DEF AnyInv, Waiting, Shape, Bounded
  <2>1. CASE prompts' = Append(prompts, cur + 1) /\ UNCHANGED left
             /\ caller' = [caller EXCEPT ![c] = [pc |-> "sent", mine |-> cur + 1, on |-> 0]]
    <3>1. /\ prompts' \in Seq(Nat) /\ Len(prompts') = Len(prompts) + 1
          /\ prompts'[Len(prompts')] = cur + 1
          /\ \A i \in 1 .. Len(prompts) : prompts'[i] = prompts[i]
      BY <2>0, <2>1, Appended
    <3>2. \A i \in 1 .. Len(prompts') : prompts'[i] \in 1 .. (cur + 1)
      <4> TAKE i \in 1 .. Len(prompts')
      <4>1. Len(prompts) \in Nat
        BY <2>0
      <4>2. i \in 1 .. Len(prompts) \/ i = Len(prompts')
        BY <3>1, <4>1
      <4>3. CASE i \in 1 .. Len(prompts)
        <5>1. prompts[i] \in 1 .. cur
          BY <2>0, <4>3
        <5> QED BY <2>0, <3>1, <4>3, <5>1
      <4> QED BY <2>0, <3>1, <4>2, <4>3
    <3> QED BY <2>0, <2>1, <3>1, <3>2
  <2>2. CASE Spend("writeError") /\ UNCHANGED <<prompts, caller>>
    <3>1. left' \in [Events -> Nat]
      BY <2>0, <2>2 DEF Spend, Events
    <3> QED BY <2>0, <2>2, <3>1
  <2> QED BY <2>1, <2>2, SendDoes DEF AnyInv
<1>3. Shape'
  BY <1>1, <1>2, ResetIs DEF AnyInv, Shape
<1>4. Bounded'
  <2>1. wake'.turn <= cur' /\ timer'.turn <= cur' /\ pending' \subseteq 1 .. cur'
    BY <1>1, ResetIs
  <2>2. /\ cb.turn <= cur /\ rl.n <= cur /\ rl.turn <= cur /\ cli.turn <= cur
        /\ cb.turn \in Nat /\ rl.n \in Nat /\ rl.turn \in Nat /\ cli.turn \in Nat
    BY Fields DEF AnyInv, Bounded
  <2>3. cb'.turn <= cur' /\ rl'.n <= cur' /\ rl'.turn <= cur' /\ cli'.turn <= cur'
    BY <1>1, <2>2
  <2>4. cli'.wakeups \subseteq 1 .. cur' /\ \A i \in 1 .. Len(out') : out'[i].of \in 1 .. cur'
    BY <1>1 DEF AnyInv, Bounded
  <2>5. Busy' => rl'.n > 0
    BY <1>1 DEF AnyInv, Bounded, Busy
  <2> QED BY <1>1, <1>2, <2>1, <2>3, <2>4, <2>5 DEF Bounded
<1>5. Told'
  BY <1>1 DEF AnyInv, Told, AnnouncedIsRecorded, ResultTurn
<1>6. Timed'
  BY <1>1, ResetIs DEF AnyInv, Timed, SuppressionIsTimed, Deciding
<1>7. Untouched'
  BY <1>1, Numbers DEF AnyInv, Untouched
<1>8. Numbered'
  BY <1>1, ResetIs, NewerKept DEF AnyInv
<1>9. Printed'
  BY <1>1 DEF AnyInv, Printed
<1> QED BY <1>3, <1>4, <1>5, <1>6, <1>7, <1>8, <1>9 DEF Rest

\* What neither a caller that waits nor one that gives up touches.
Machine == <<cur, lastWakeup, results, pending, wake, timer, cost, rl, cb, strays, stopping,
             env,
             completions, abandoned>>

LEMMA WaitDoes ==
    ASSUME Shape, Waiting, NEW c \in Caller, WaitForTurn(c) \/ CancelWait(c)
    PROVE  /\ UNCHANGED Machine /\ left' \in [Events -> Nat] /\ left'["overlap"] = left["overlap"]
           /\ \A d \in Caller \ {c} : caller'[d] = caller[d]
           /\ caller[c].pc # "idle"
           /\ \/ caller'[c] = Idle
              \/ /\ caller'[c].pc = "waiting" /\ caller'[c].mine = caller[c].mine
                 /\ caller'[c].on = cur
           /\ \A a \in answers' \ answers :
                 a.asked = caller[c].mine /\ cur \in Turns /\ results[cur].done /\ a.of = results[cur].of
<1>1. caller \in [Caller -> [pc : {"idle", "sent", "waiting"}, mine : Nat, on : Nat]]
  BY DEF Waiting
<1>2. CASE WaitForTurn(c)
  <2>1. CASE results[cur].done
    BY <1>1, <1>2, <2>1 DEF WaitForTurn, Answered, Machine, Shape, Waiting
  <2>2. CASE ~results[cur].done
    <3>1. /\ caller' = [caller EXCEPT ![c] = [caller[c] EXCEPT !.pc = "waiting", !.on = cur]]
          /\ UNCHANGED <<Machine, left, answers>> /\ caller[c].pc # "idle"
      BY <1>2, <2>2 DEF WaitForTurn, Machine
    <3>2. /\ caller'[c].pc = "waiting" /\ caller'[c].mine = caller[c].mine /\ caller'[c].on = cur
          /\ \A d \in Caller \ {c} : caller'[d] = caller[d]
      BY <1>1, <3>1
    <3> QED BY <3>1, <3>2 DEF Shape
  <2> QED BY <2>1, <2>2
<1>3. CASE CancelWait(c)
  <2>1. left' \in [Events -> Nat] /\ left'["overlap"] = left["overlap"]
    BY <1>3 DEF CancelWait, Spend, Shape, Events
  <2> QED BY <1>1, <1>3, <2>1 DEF CancelWait, Machine
<1> QED BY <1>2, <1>3

LEMMA WaitAny ==
    ASSUME AnyInv, NEW c \in Caller, WaitForTurn(c) \/ CancelWait(c), Turns' = Turns
    PROVE  Rest'
<1>1. /\ UNCHANGED Machine /\ left' \in [Events -> Nat] /\ cur \in Nat
      /\ \A d \in Caller \ {c} : caller'[d] = caller[d]
      /\ caller'[c] = Idle \/ (caller'[c].mine = caller[c].mine /\ caller'[c].on = cur)
  BY WaitDoes, Numbers DEF AnyInv
<1>2. Shape'
  BY <1>1 DEF AnyInv, Shape, Machine, env
<1>3. Bounded'
  BY <1>1 DEF AnyInv, Bounded, Busy, Machine, env, Idle
<1>4. Told' /\ Timed' /\ Untouched'
  BY <1>1 DEF AnyInv, Told, AnnouncedIsRecorded, ResultTurn, Timed, SuppressionIsTimed,
     Deciding, Untouched, Machine
<1>5. Numbered' /\ Printed'
  BY <1>1 DEF AnyInv, Numbered, Newer, Printed, Machine, env
<1> QED BY <1>2, <1>3, <1>4, <1>5 DEF Rest

LEMMA StopDoes ==
    ASSUME Shape, Stop
    PROVE  /\ stopping' = TRUE /\ wake' = NoWake /\ timer' = NoTimer
           /\ left' \in [Events -> Nat] /\ left'["overlap"] = left["overlap"]
           /\ UNCHANGED <<cur, lastWakeup, results, caller, pending, cost, rl, cb, strays, env,
                          completions, answers, abandoned>>
BY DEF Stop, Reset, Spend, Shape, Events

LEMMA StopAny ==
    ASSUME AnyInv, Stop, Turns' = Turns
    PROVE  Rest'
<1>1. /\ stopping' = TRUE /\ wake' = NoWake /\ timer' = NoTimer /\ left' \in [Events -> Nat]
      /\ UNCHANGED <<cur, lastWakeup, results, caller, pending, cost, rl, cb, strays, env,
                     completions, answers, abandoned>>
      /\ cur \in Nat
  BY StopDoes, Numbers DEF AnyInv
<1>2. Shape'
  BY <1>1, ResetIs DEF AnyInv, Shape, env
<1>3. Bounded'
  BY <1>1, ResetIs DEF AnyInv, Bounded, Busy, env
<1>4. Told' /\ Timed' /\ Untouched'
  BY <1>1, ResetIs DEF AnyInv, Told, AnnouncedIsRecorded, ResultTurn, Timed, SuppressionIsTimed,
     Deciding, Untouched
<1>5. Numbered'
  BY <1>1, ResetIs, NewerKept DEF AnyInv, env
<1>6. Printed'
  BY <1>1 DEF AnyInv, Printed, env
<1> QED BY <1>2, <1>3, <1>4, <1>5, <1>6 DEF Rest

\* The read loop takes the first thing printed off.
LEMMA Shortened ==
    ASSUME Shape, Bounded, Numbered, Printed, Turns' = Turns,
           out # <<>>, out' = Tail(out), UNCHANGED <<cur, cli, wake, timer, cb, strays>>,
           lastWakeup' \in [Turns -> Nat],
           \A t \in Turns : \/ lastWakeup'[t] = lastWakeup[t]
                            \/ out[1].kind = "wakeup" /\ lastWakeup'[t] = out[1].id
    PROVE  /\ out' \in Seq(Item) /\ Numbered' /\ Printed'
           /\ \A i \in 1 .. Len(out') : out'[i].of \in 1 .. cur
<1>1. /\ out' \in Seq(Item) /\ Len(out') = Len(out) - 1 /\ Len(out) \in Nat /\ Len(out) > 0
      /\ \A i \in 1 .. Len(out') : out'[i] = out[i + 1] /\ i + 1 \in 1 .. Len(out)
      /\ 1 \in 1 .. Len(out)
  BY Shifted DEF Shape
<1>2. \A i \in 1 .. Len(out') : out'[i].of \in 1 .. cur
  BY <1>1 DEF Bounded
<1>3. (out' = <<>>) <=> (Len(out') = 0)
  BY <1>1, Empty
<1>4. Printed'
  <2>1. ASSUME out' # <<>> PROVE out'[Len(out')] = out[Len(out)]
    <3>1. Len(out') \in 1 .. Len(out') /\ Len(out') + 1 = Len(out)
      BY <1>1, <1>3, <2>1
    <3> QED BY <1>1, <3>1
  <2>2. \A i \in 1 .. Len(out') :
           i < Len(out') /\ out'[i].kind # "result" => out'[i + 1].kind = "result"
    <3> TAKE i \in 1 .. Len(out')
    <3> HAVE i < Len(out') /\ out'[i].kind # "result"
    <3>1. i + 1 \in 1 .. Len(out') /\ i + 1 < Len(out)
      BY <1>1
    <3>2. /\ out'[i] = out[i + 1] /\ i + 1 \in 1 .. Len(out)
          /\ out'[i + 1] = out[(i + 1) + 1]
      BY <1>1, <3>1
    <3> QED BY <3>1, <3>2 DEF Printed
  <2> QED BY <2>1, <2>2 DEF Printed
<1>5. Numbered'
  <2> DEFINE Still(k) == /\ \A t \in Turns : lastWakeup'[t] < k
                         /\ wake.tool < k /\ timer.wakeup < k /\ cb.wakeup < k
  <2>1. /\ \A i \in 1 .. Len(out) : out[i] \in Item
        /\ \A i \in 1 .. Len(out) : out[i].id \in Nat
    <3>1. \A i \in 1 .. Len(out) : out[i] \in Item
      BY DEF Shape
    <3> QED BY <3>1 DEF Item
  <2>2. \A k \in Nat : Newer(k) /\ (out[1].kind = "wakeup" => out[1].id < k) => Still(k)
    BY DEF Newer
  <2> HIDE DEF Newer, Still
  <2>3. Still(cli.next) /\ cli.next \in Nat
    <3>1. cli.next \in Nat
      BY Fields
    <3> QED BY <1>1, <2>2, <3>1 DEF Numbered
  <2>4. \A i \in 1 .. Len(out') : out'[i].kind = "wakeup" =>
           out'[i].id < cli.next /\ Still(out'[i].id)
    <3> TAKE i \in 1 .. Len(out')
    <3> HAVE out'[i].kind = "wakeup"
    <3>1. out'[i] = out[i + 1] /\ i + 1 \in 1 .. Len(out) /\ 1 < i + 1
      BY <1>1
    <3>2. out[i + 1].id < cli.next /\ Newer(out[i + 1].id)
      BY <3>1 DEF Numbered
    <3>3. out[1].kind = "wakeup" => out[1].id < out[i + 1].id
      BY <1>1, <3>1 DEF Numbered
    <3>4. Still(out[i + 1].id)
      BY <3>1, <3>2, <3>3, <2>1, <2>2
    <3> QED BY <3>1, <3>2, <3>4
  <2>5. \A i, j \in 1 .. Len(out') :
          i < j /\ out'[i].kind = "wakeup" /\ out'[j].kind = "wakeup" => out'[i].id < out'[j].id
    <3> TAKE i, j \in 1 .. Len(out')
    <3> HAVE i < j /\ out'[i].kind = "wakeup" /\ out'[j].kind = "wakeup"
    <3>1. /\ out'[i] = out[i + 1] /\ i + 1 \in 1 .. Len(out)
          /\ out'[j] = out[j + 1] /\ j + 1 \in 1 .. Len(out) /\ i + 1 < j + 1
      BY <1>1
    <3> QED BY <3>1 DEF Numbered
  <2> QED BY <2>3, <2>4, <2>5 DEF Numbered, Newer, Still
<1> QED BY <1>1, <1>2, <1>4, <1>5

LEMMA ReadAny ==
    ASSUME AnyInv, ReadWakeup \/ ReadSynthetic \/ ReadResult, Turns' = Turns
    PROVE  Rest'
<1>1. cur \in Nat /\ (cur > 0 => cur \in Turns) /\ Turns \subseteq Nat \ {0}
  BY Numbers DEF AnyInv
<1>2. PICK kind : Reads(kind) /\ (ReadWakeup => kind = "wakeup")
  <2>1. CASE ReadWakeup
    BY <2>1, ReadWakeupDoes DEF AnyInv
  <2>2. CASE ~ReadWakeup
    BY <1>1, <2>2, ReadSyntheticDoes, ReadResultDoes DEF AnyInv
  <2> QED BY <2>1, <2>2
<1>3. /\ out # <<>> /\ out' = Tail(out) /\ out[1] \in Item /\ ~stopping
      /\ UNCHANGED <<cur, results, caller, pending, wake, timer, cost, cb, strays, stopping,
                     prompts,
                     cli, completions, answers, abandoned, left>>
      /\ rl.pc = "read" /\ (ReadWakeup => out[1].kind = "wakeup")
  BY <1>2 DEF Reads
<1>4. cur > 0
  <2>1. 1 \in 1 .. Len(out)
    BY <1>3, Shifted DEF AnyInv, Shape
  <2>2. out[1].of \in 1 .. cur
    BY <2>1 DEF AnyInv, Bounded
  <2> QED BY <1>1, <2>2
<1>5. /\ lastWakeup' \in [Turns -> Nat]
      /\ \A t \in Turns : t # cur => lastWakeup'[t] = lastWakeup[t]
      /\ \A t \in Turns : \/ lastWakeup'[t] = lastWakeup[t]
                          \/ out[1].kind = "wakeup" /\ lastWakeup'[t] = out[1].id
  <2>1. CASE ReadWakeup
    <3>1. lastWakeup' = [lastWakeup EXCEPT ![cur] = out[1].id]
      BY <2>1, ReadWakeupDoes DEF AnyInv
    <3>2. out[1].id \in Nat /\ lastWakeup \in [Turns -> Nat]
      BY <1>3 DEF Item, AnyInv, Shape
    <3> QED BY <2>1, <1>3, <3>1, <3>2
  <2>2. CASE ~ReadWakeup
    <3>1. UNCHANGED lastWakeup
      BY <1>1, <2>2, ReadSyntheticDoes, ReadResultDoes DEF AnyInv
    <3> QED BY <3>1 DEF AnyInv, Shape
  <2> QED BY <2>1, <2>2
<1>6. /\ rl' \in Loop /\ rl'.pc \in {"read", "synthetic", "consume"}
      /\ rl'.n <= cur /\ rl'.turn = rl.turn /\ (rl'.pc # "read" => rl'.n = cur)
  <2>1. CASE ReadWakeup
    BY <2>1, <1>3, ReadWakeupDoes DEF AnyInv, Shape, Bounded
  <2>2. CASE ~ReadWakeup
    BY <1>1, <2>2, ReadSyntheticDoes, ReadResultDoes DEF AnyInv
  <2> QED BY <2>1, <2>2
<1>7. /\ out' \in Seq(Item) /\ Numbered' /\ Printed'
      /\ \A i \in 1 .. Len(out') : out'[i].of \in 1 .. cur
  BY <1>3, <1>5, Shortened DEF AnyInv
<1>8. Shape'
  BY <1>3, <1>5, <1>6, <1>7 DEF AnyInv, Shape
<1>9. Bounded'
  <2>1. Busy' => rl'.n > 0
    BY <1>4, <1>6 DEF Busy
  <2>2. rl'.turn <= cur'
    BY <1>3, <1>6 DEF AnyInv, Bounded
  <2> QED BY <1>3, <1>6, <1>7, <2>1, <2>2 DEF AnyInv, Bounded
<1>10. Told'
  BY <1>3, <1>6 DEF AnyInv, Told, AnnouncedIsRecorded
<1>11. Timed'
  BY <1>3, <1>6 DEF AnyInv, Timed, SuppressionIsTimed, Deciding
<1>12. Untouched'
  BY <1>1, <1>3, <1>5 DEF AnyInv, Untouched
<1> QED BY <1>7, <1>8, <1>9, <1>10, <1>11, <1>12 DEF Rest

\* A synthetic message is filed under the turn it was read in.
LEMMA RecordTransientDoes ==
    ASSUME Shape, RecordTransient
    PROVE  /\ rl.pc = "synthetic" /\ rl' = Reading /\ pending' = pending \cup {rl.n}
           /\ UNCHANGED <<cur, lastWakeup, results, caller, wake, timer, cost, cb, strays,
                          stopping,
                          env, completions, answers, abandoned, left>>
BY DEF RecordTransient

\* The steps of handleResult up to the decision.
LEMMA HandleAny ==
    ASSUME AnyInv, Turns' = Turns,
           RecordTransient \/ ConsumeTransient \/ SnapshotWakeup \/ ReadTurnNumber \/ TakeUsage
           \/ CheckLimits
    PROVE  Rest'
<1>1. cur \in Nat /\ rl.n \in Nat /\ rl.turn \in Nat /\ wake.turn \in Nat
  BY Numbers, Fields DEF AnyInv
<1>2. /\ UNCHANGED <<cur, lastWakeup, results, caller, cb, strays, stopping, env, completions,
                     answers, left>>
      /\ cost' \in Nat /\ rl.pc # "announce" /\ rl'.pc # "announce" /\ Busy
  <2>1. CASE RecordTransient
    BY <2>1, RecordTransientDoes, ReadingIs DEF AnyInv, Shape, Busy
  <2>2. CASE ConsumeTransient
    BY <2>2, ConsumeTransientDoes DEF AnyInv, Shape, Busy
  <2>3. CASE SnapshotWakeup
    BY <2>3, SnapshotDoes, ReadingIs DEF AnyInv, Shape, Busy, Swallows, Ends
  <2>4. CASE ReadTurnNumber
    BY <1>1, <2>4, ReadTurnNumberDoes DEF AnyInv, Shape, Busy
  <2>5. CASE TakeUsage
    BY <2>5, TakeUsageDoes DEF AnyInv, Shape, Busy
  <2>6. CASE CheckLimits
    BY <2>6, CheckLimitsDoes DEF AnyInv, Shape, Busy
  <2> QED BY <2>1, <2>2, <2>3, <2>4, <2>5, <2>6
<1>3. 0 < rl.n /\ rl.n <= cur /\ rl.turn <= cur /\ wake.turn <= cur /\ timer.turn <= cur
  BY <1>1, <1>2 DEF AnyInv, Bounded
<1>4. /\ rl' \in Loop /\ rl'.turn <= cur /\ rl'.n <= cur /\ (Busy' => rl'.n > 0)
  <2>1. CASE RecordTransient
    BY <1>1, <2>1, RecordTransientDoes, ReadingIs DEF AnyInv, Busy
  <2>2. CASE ConsumeTransient
    BY <1>3, <2>2, ConsumeTransientDoes DEF AnyInv, Keeps
  <2>3. CASE SnapshotWakeup
    BY <1>1, <1>3, <2>3, SnapshotDoes, ReadingIs DEF AnyInv, Swallows, Ends, Busy
  <2>4. CASE ReadTurnNumber
    BY <1>1, <1>3, <2>4, ReadTurnNumberDoes DEF AnyInv
  <2>5. CASE TakeUsage
    BY <1>3, <2>5, TakeUsageDoes DEF AnyInv, Keeps
  <2>6. CASE CheckLimits
    BY <1>3, <2>6, CheckLimitsDoes DEF AnyInv, Keeps
  <2> QED BY <2>1, <2>2, <2>3, <2>4, <2>5, <2>6
<1>5. /\ wake' \in Wake /\ wake'.turn = wake.turn /\ wake'.tool = wake.tool
      /\ timer' \in {timer, NoTimer}
      /\ wake'.active => wake.active /\ timer' = timer
      /\ timer' # NoTimer => wake'.active = wake.active
  <2>0. wake \in Wake
    BY DEF AnyInv, Shape
  <2>1. CASE SnapshotWakeup
    BY <2>1, SnapshotDoes DEF AnyInv, Swallows, Ends
  <2>2. CASE TakeUsage
    BY <2>2, TakeUsageDoes DEF AnyInv
  <2>3. CASE ~SnapshotWakeup /\ ~TakeUsage
    BY <1>1, <2>0, <2>3, RecordTransientDoes, ConsumeTransientDoes, ReadTurnNumberDoes,
       CheckLimitsDoes DEF AnyInv
  <2> QED BY <2>1, <2>2, <2>3
<1>6. pending' \subseteq pending \cup {rl.n}
  <2>1. CASE RecordTransient
    BY <2>1, RecordTransientDoes DEF AnyInv
  <2>2. CASE ConsumeTransient
    BY <2>2, ConsumeTransientDoes DEF AnyInv
  <2>3. CASE ~RecordTransient /\ ~ConsumeTransient
    BY <1>1, <2>3, SnapshotDoes, TakeUsageDoes, ReadTurnNumberDoes,
       CheckLimitsDoes DEF AnyInv
  <2> QED BY <2>1, <2>2, <2>3
<1>7. /\ Deciding' => ~wake'.active
      /\ rl'.pc = "suppress" => lastWakeup[rl'.n] # 0
  <2>1. CASE RecordTransient
    BY <2>1, RecordTransientDoes, ReadingIs DEF AnyInv, Deciding
  <2>2. CASE ConsumeTransient
    BY <2>2, ConsumeTransientDoes DEF AnyInv, Deciding
  <2>3. CASE SnapshotWakeup
    BY <2>3, SnapshotDoes, ReadingIs DEF AnyInv, Deciding, Swallows, Ends
  <2>4. CASE ReadTurnNumber
    BY <1>1, <2>4, ReadTurnNumberDoes DEF AnyInv, Deciding, Timed
  <2>5. CASE TakeUsage
    BY <2>5, TakeUsageDoes DEF AnyInv, Deciding, Timed, Keeps, Suppresses
  <2>6. CASE CheckLimits
    BY <2>6, CheckLimitsDoes DEF AnyInv, Deciding, Timed
  <2> QED BY <2>1, <2>2, <2>3, <2>4, <2>5, <2>6
<1>8. Shape'
  BY <1>2, <1>4, <1>5, ResetIs DEF AnyInv, Shape, env
<1>9. Bounded'
  <2>1. pending' \subseteq 1 .. cur
    BY <1>1, <1>3, <1>6 DEF AnyInv, Bounded
  <2>2. timer'.turn <= cur
    BY <1>1, <1>3, <1>5, ResetIs
  <2> QED BY <1>2, <1>3, <1>4, <1>5, <2>1, <2>2 DEF AnyInv, Bounded, env
<1>10. Told'
  BY <1>2 DEF AnyInv, Told, AnnouncedIsRecorded
<1>11. Timed'
  BY <1>2, <1>5, <1>7 DEF AnyInv, Timed, SuppressionIsTimed
<1>12. Untouched'
  BY <1>2 DEF AnyInv, Untouched
<1>13. Numbered'
  BY <1>2, <1>5, ResetIs, NewerKept DEF AnyInv, env
<1>14. Printed'
  BY <1>2 DEF AnyInv, Printed, env
<1> QED BY <1>8, <1>9, <1>10, <1>11, <1>12, <1>13, <1>14 DEF Rest

LEMMA SuppressAny ==
    ASSUME AnyInv, Suppress, Turns' = Turns
    PROVE  Rest'
<1>1. cur \in Nat /\ rl.n \in Nat /\ rl.turn \in Nat /\ wake.turn \in Nat /\ wake.tool \in Nat
      /\ rl \in Loop /\ cost \in Nat
  BY Numbers, Fields DEF AnyInv, Shape
<1>2. rl.pc = "suppress"
  BY DEF Suppress
<1>3. 0 < rl.n /\ rl.n <= cur /\ rl.turn <= cur /\ wake.turn <= cur /\ timer.turn <= cur
      /\ First <= cur /\ ResultTurn <= cur
  BY <1>1, <1>2 DEF AnyInv, Bounded, Busy, First, ResultTurn
<1>4. rl.n \in Turns /\ lastWakeup[rl.n] \in Nat /\ lastWakeup[rl.n] # 0
  BY <1>1, <1>2, <1>3, Numbers DEF AnyInv, Shape, Timed
<1>5. /\ cost' = cost + 1
      /\ UNCHANGED <<cur, lastWakeup, results, caller, pending, cb, strays, stopping, env,
                     completions, answers, abandoned, left>>
      /\ GivesUp \/ Waits
  BY <1>4, SuppressDoes DEF AnyInv
<1>6. /\ wake' \in Wake /\ timer' \in Timer /\ rl' \in Loop /\ cost' \in Nat
      /\ wake'.turn <= cur /\ timer'.turn <= cur /\ rl'.n <= cur /\ rl'.turn <= cur
      /\ Busy' => rl'.n > 0
  <2>1. CASE GivesUp
    BY <2>1, <1>1, <1>3, <1>5 DEF GivesUp, Keeps, AnyInv, Shape
  <2>2. CASE Waits
    BY <2>2, <1>1, <1>3, <1>5, ReadingIs DEF Waits, Busy
  <2> QED BY <1>5, <2>1, <2>2
<1>7. /\ wake'.tool \in {0, lastWakeup[rl.n]}
      /\ timer'.wakeup \in {timer.wakeup, lastWakeup[rl.n]}
      /\ wake'.active => timer' # NoTimer
      /\ timer' # NoTimer => wake'.active
      /\ Deciding' \/ rl'.pc = "announce" => ~wake'.active
      /\ rl'.pc \notin {"suppress", "announce"}
  <2>1. CASE GivesUp
    <3>1. timer = NoTimer
      BY <1>2 DEF AnyInv, Timed, Deciding
    <3> QED BY <2>1, <3>1 DEF GivesUp
  <2>2. CASE Waits
    <3>1. timer'.wakeup # 0
      BY <1>4, <2>2 DEF Waits
    <3> QED BY <2>2, <3>1, ReadingIs, ResetIs DEF Waits, Deciding
  <2> QED BY <1>5, <2>1, <2>2
<1>8. Shape'
  BY <1>5, <1>6 DEF AnyInv, Shape, env
<1>9. Bounded'
  BY <1>5, <1>6 DEF AnyInv, Bounded, env
<1>10. Told'
  BY <1>5, <1>7 DEF AnyInv, Told, AnnouncedIsRecorded
<1>11. Timed'
  BY <1>7 DEF Timed, SuppressionIsTimed
<1>12. Untouched'
  BY <1>5 DEF AnyInv, Untouched
<1>13. Numbered'
  <2>1. lastWakeup[rl.n] \in {lastWakeup[t] : t \in Turns}
    BY <1>4
  <2> QED BY <1>5, <1>7, <2>1, NewerKept DEF AnyInv, env
<1>14. Printed'
  BY <1>5 DEF AnyInv, Printed, env
<1> QED BY <1>8, <1>9, <1>10, <1>11, <1>12, <1>13, <1>14 DEF Rest

\* Completing a turn, from the read loop, from the timer or from a stray.
LEMMA CompleteAny ==
    ASSUME AnyInv, NEW t \in Nat, t <= cur, NEW result, result.done, Completes(t, result),
           Waiting',
           results' \in [Turns -> Result],
           completions' \in [Turns -> [done : Nat, told : Nat, usage : Nat]],
           UNCHANGED <<cur, lastWakeup, pending, wake, timer, cost, stopping, env, left>>,
           \A s \in strays : s.pc = "lock" => s \in strays',
           \/ UNCHANGED <<cb, rl>>
           \/ /\ UNCHANGED cb /\ rl' \in Loop /\ rl.pc = "complete" /\ rl'.pc = "announce" /\ Keeps
              /\ t = ResultTurn
           \/ /\ UNCHANGED rl /\ cb' \in Callback /\ cb.pc = "complete" /\ cb'.pc = "announce"
              /\ cb'.turn = cb.turn /\ cb'.wakeup = cb.wakeup /\ t = cb.turn
    PROVE  Rest'
<1>0. Turns' = Turns
  BY DEF Turns
<1>1. cur \in Nat /\ Turns \subseteq Nat
  BY Numbers DEF AnyInv
<1>2. \A u \in Turns : /\ results[u].done => results'[u].done
                       /\ u # t => results'[u] = results[u] /\ completions'[u] = completions[u]
                       /\ u = t => results'[u].done
  BY DEF Completes
<1>3. \A u \in Turns : completions'[u].told = completions[u].told
  <2> TAKE u \in Turns
  <2>1. CASE u = t
    BY <2>1 DEF Completes
  <2>2. CASE u # t
    BY <1>2, <2>2
  <2> QED BY <2>1, <2>2
<1>4. rl' \in Loop /\ cb' \in Callback
  BY DEF AnyInv, Shape
<1>5. Shape'
  BY <1>0, <1>4 DEF AnyInv, Shape, env, Result
<1>6. Bounded'
  <2>1. \A d \in Caller : caller'[d] \in {Idle, caller[d]}
    BY DEF Completes
  <2>2. \A d \in Caller : caller'[d].mine <= cur /\ caller'[d].on <= cur
    BY <1>1, <2>1 DEF AnyInv, Bounded, Idle
  <2>3. rl'.n <= cur /\ rl'.turn <= cur /\ (Busy' => rl'.n > 0) /\ cb'.turn <= cur
    BY DEF AnyInv, Bounded, Keeps, Busy
  <2> QED BY <2>2, <2>3 DEF AnyInv, Bounded, env
<1>7. Told'
  <2>1. AnnouncedIsRecorded'
    BY <1>0, <1>2, <1>3 DEF AnyInv, Told, AnnouncedIsRecorded
  <2>2. rl'.pc = "announce" /\ ResultTurn' \in Turns => results'[ResultTurn'].done
    <3>1. ResultTurn' = ResultTurn
      BY DEF Keeps, ResultTurn
    <3> QED BY <1>2, <3>1 DEF AnyInv, Told
  <2>3. cb'.pc = "announce" /\ cb'.turn \in Turns => results'[cb'.turn].done
    BY <1>2 DEF AnyInv, Told
  <2> QED BY <1>0, <2>1, <2>2, <2>3 DEF Told
<1>8. Timed'
  <2>1. SuppressionIsTimed'
    <3>1. cb'.pc = "lock" <=> cb.pc = "lock"
      OBVIOUS
    <3> QED BY <3>1 DEF AnyInv, Timed, SuppressionIsTimed
  <2>2. /\ Deciding' \/ rl'.pc = "announce" => ~wake'.active
        /\ rl'.pc = "suppress" => lastWakeup'[rl'.n] # 0
    BY DEF AnyInv, Timed, Deciding
  <2> QED BY <2>1, <2>2 DEF AnyInv, Timed
<1>9. Untouched'
  BY <1>0, <1>1, <1>2 DEF AnyInv, Untouched
<1>10. Numbered'
  <2>1. cb'.wakeup = cb.wakeup
    OBVIOUS
  <2> QED BY <1>0, <2>1, NewerKept DEF AnyInv, env
<1>11. Printed'
  BY DEF AnyInv, Printed, env
<1> QED BY <1>5, <1>6, <1>7, <1>8, <1>9, <1>10, <1>11 DEF Rest

\* Announcing one.
LEMMA AnnounceAny ==
    ASSUME AnyInv, NEW t, Announces(t), Turns' = Turns,
           UNCHANGED <<cur, lastWakeup, results, caller, pending, wake, timer, cost, stopping,
                       env, answers, abandoned, left>>,
           \A s \in strays : s.pc = "lock" => s \in strays',
           \/ UNCHANGED <<cb, rl>> /\ (t \in Turns => results[t].done)
           \/ UNCHANGED cb /\ rl.pc = "announce" /\ rl' = Reading /\ t = ResultTurn
           \/ /\ UNCHANGED rl /\ cb' \in Callback /\ cb.pc = "announce" /\ cb'.pc = "off"
              /\ cb'.turn = cb.turn /\ cb'.wakeup = cb.wakeup /\ t = cb.turn
    PROVE  Rest'
<1>1. cur \in Nat
  BY Numbers DEF AnyInv
<1>2. t \in Turns => results[t].done
  BY DEF AnyInv, Told
<1>3. Shape'
  BY ReadingIs DEF AnyInv, Shape, Announces, env
<1>4. Bounded'
  BY <1>1, ReadingIs DEF AnyInv, Bounded, Busy, env
<1>5. Told'
  <2>1. AnnouncedIsRecorded'
    BY <1>2 DEF AnyInv, Told, AnnouncedIsRecorded, Announces
  <2> QED BY <2>1, ReadingIs DEF AnyInv, Told, ResultTurn
<1>6. Timed'
  BY ReadingIs DEF AnyInv, Timed, SuppressionIsTimed, Deciding
<1>7. Untouched'
  BY DEF AnyInv, Untouched, Announces
<1>8. Numbered'
  BY NewerKept DEF AnyInv, env
<1>9. Printed'
  BY DEF AnyInv, Printed, env
<1> QED BY <1>3, <1>4, <1>5, <1>6, <1>7, <1>8, <1>9 DEF Rest

\* The timer's goroutine starts, and takes over or looks away.
LEMMA TimerAny ==
    ASSUME AnyInv, TimerFires \/ TimerTakesOver, Turns' = Turns
    PROVE  Rest'
<1>1. cur \in Nat
  BY Numbers DEF AnyInv
<1>2. UNCHANGED <<cur, lastWakeup, results, caller, pending, cost, rl, stopping,
                  env, completions, answers, abandoned, left>>
  BY TimerFiresDoes, TimerTakesOverDoes DEF AnyInv
<1>3. /\ wake' \in Wake /\ timer' \in {timer, NoTimer} /\ cb' \in Callback
      /\ wake'.turn = wake.turn /\ wake'.tool = wake.tool
      /\ cb'.turn \in {cb.turn, timer.turn} /\ cb'.wakeup \in {cb.wakeup, timer.wakeup}
      /\ cb'.pc = "announce" => cb' = cb
      /\ wake'.active => /\ wake.active
                         /\ cb'.pc = "lock" \/ \E s \in strays' : s.pc = "lock"
      /\ timer' # NoTimer => timer # NoTimer /\ wake' = wake
  <2>1. CASE TimerFires
    <3>1. Stray("lock", timer).pc = "lock"
      BY DEF Stray
    <3> QED BY <2>1, <3>1, TimerFiresDoes DEF AnyInv, Shape
  <2>2. CASE TimerTakesOver
    <3>1. TakesOver \/ LooksAway
      BY <2>2, TimerTakesOverDoes DEF AnyInv
    <3> QED BY <3>1 DEF TakesOver, LooksAway, AnyInv, Shape
  <2> QED BY <2>1, <2>2
<1>4. Shape'
  BY <1>2, <1>3, ResetIs DEF AnyInv, Shape, env
<1>5. Bounded'
  <2>1. wake'.turn <= cur /\ timer'.turn <= cur /\ cb'.turn <= cur
    BY <1>1, <1>3, ResetIs DEF AnyInv, Bounded
  <2> QED BY <1>2, <2>1 DEF AnyInv, Bounded, Busy, env
<1>6. Told'
  BY <1>2, <1>3 DEF AnyInv, Told, AnnouncedIsRecorded, ResultTurn
<1>7. Timed'
  BY <1>2, <1>3 DEF AnyInv, Timed, SuppressionIsTimed, Deciding
<1>8. Untouched'
  BY <1>2 DEF AnyInv, Untouched
<1>9. Numbered'
  BY <1>2, <1>3, ResetIs, NewerKept DEF AnyInv, env
<1>10. Printed'
  BY <1>2 DEF AnyInv, Printed, env
<1> QED BY <1>4, <1>5, <1>6, <1>7, <1>8, <1>9, <1>10 DEF Rest

\* A stray fires, takes over, completes or announces.
LEMMA StrayAny ==
    ASSUME AnyInv, Strays, Waiting', Turns' = Turns
    PROVE  Rest'
<1>1. PICK s \in strays : /\ UNCHANGED Elsewhere
                          /\ StrayWaits(s) \/ StrayTakes(s) \/ StrayEnds(s) \/ StrayTells(s)
  BY StrayDoes DEF AnyInv, Astray
<1>2. /\ s \in StrayTimer /\ s.turn \in Nat /\ s.turn <= cur /\ cur \in Nat
      /\ s.pc = "announce" /\ s.turn \in Turns => results[s.turn].done
  BY Numbers DEF AnyInv, Astray, StrayTimer
<1>3. CASE StrayWaits(s)
  <2>1. UNCHANGED <<cur, lastWakeup, results, caller, pending, wake, timer, cost, rl, cb, stopping,
                    env, completions, answers, abandoned, left>>
    BY <1>1, <1>3 DEF Elsewhere, StrayWaits
  <2>2. Timed'
    <3>1. wake.active => \A x \in strays : x.pc = "lock" => x \in strays'
      BY <1>3 DEF StrayWaits
    <3> QED BY <2>1, <3>1 DEF AnyInv, Timed, SuppressionIsTimed, Deciding
  <2>3. Shape' /\ Bounded' /\ Told' /\ Untouched' /\ Numbered' /\ Printed'
    BY <2>1 DEF AnyInv, Shape, Bounded, Busy, Told, AnnouncedIsRecorded, ResultTurn, Untouched,
       Numbered, Newer, Printed, env
  <2> QED BY <2>2, <2>3 DEF Rest
<1>4. CASE StrayTakes(s)
  <2>1. /\ UNCHANGED <<cur, lastWakeup, results, caller, pending, cost, rl, stopping,
                       env, completions, answers, abandoned, left>>
        /\ wake' \in Wake /\ ~wake'.active /\ wake'.turn = wake.turn /\ wake'.tool = wake.tool
        /\ timer' = NoTimer
        /\ cb' \in Callback /\ cb'.pc = cb.pc /\ cb'.turn = cb.turn /\ cb'.wakeup = cb.wakeup
    BY <1>1, <1>4 DEF Elsewhere, StrayTakes
  <2>2. Shape'
    BY <2>1, ResetIs DEF AnyInv, Shape, env
  <2>3. Bounded'
    <3>1. wake'.turn <= cur /\ timer'.turn <= cur /\ cb'.turn <= cur
      BY <1>2, <2>1, ResetIs DEF AnyInv, Bounded
    <3> QED BY <2>1, <3>1 DEF AnyInv, Bounded, Busy, env
  <2>4. Told' /\ Timed' /\ Untouched'
    BY <2>1 DEF AnyInv, Told, AnnouncedIsRecorded, ResultTurn, Timed, SuppressionIsTimed,
       Deciding, Untouched
  <2>5. Numbered'
    BY <2>1, ResetIs, NewerKept DEF AnyInv, env
  <2>6. Printed'
    BY <2>1 DEF AnyInv, Printed, env
  <2> QED BY <2>2, <2>3, <2>4, <2>5, <2>6 DEF Rest
<1>5. CASE StrayEnds(s)
  <2>1. /\ Completes(s.turn, StrayResult(s)) /\ StrayResult(s).done
        /\ UNCHANGED <<cur, lastWakeup, pending, wake, timer, cost, stopping, env, left, cb, rl>>
        /\ \A x \in strays : x.pc = "lock" => x \in strays'
        /\ results' \in [Turns -> Result]
        /\ completions' \in [Turns -> [done : Nat, told : Nat, usage : Nat]]
    BY <1>1, <1>5 DEF Elsewhere, StrayEnds, StrayResult
  <2> QED BY <1>2, <2>1, CompleteAny
<1>6. CASE StrayTells(s)
  <2>1. /\ Announces(s.turn) /\ s.pc = "announce"
        /\ UNCHANGED <<cur, lastWakeup, results, caller, pending, wake, timer, cost, stopping,
                       env, answers, abandoned, left, cb, rl>>
        /\ \A x \in strays : x.pc = "lock" => x \in strays'
    BY <1>1, <1>6 DEF Elsewhere, StrayTells
  <2> QED BY <1>2, <2>1, AnnounceAny
<1> QED BY <1>1, <1>3, <1>4, <1>5, <1>6

\* No step takes a result back, a turn number back or a stale wait back.
Grows ==
    /\ cur <= cur' /\ (cb.stale => cb'.stale)
    /\ \A t \in Turns : results[t].done => results'[t].done

\* A timer that nothing points at any more is as sound as it was.
LEMMA OrphanIs ==
    ASSUME AnyInv, NEW pc \in {"armed", "lock"}
    PROVE  /\ Stray(pc, timer) \in StrayTimer /\ Stray(pc, timer).turn <= cur
           /\ Stray(pc, timer).pc = pc
<1>1. /\ timer.turn \in Nat /\ timer.usage \in Nat /\ timer.wakeup \in Nat /\ timer.at \in Nat
      /\ timer.turn <= cur
  BY Fields DEF AnyInv, Bounded
<1> QED BY <1>1 DEF Stray, StrayTimer

\* Where the strays of a step come from.
LEMMA AstrayKept ==
    ASSUME AnyInv, Grows, Turns' = Turns, cur \in Nat, cur' \in Nat,
           \A x \in strays' :
              \/ x \in strays
              \/ x = Stray("lock", timer)
              \/ x = Stray("armed", timer) /\ cb'.stale
              \/ \E s \in strays : /\ x = [s EXCEPT !.pc = x.pc] /\ x \in StrayTimer
                                   /\ x.pc = "announce" /\ s.turn \in Turns => results'[s.turn].done
                                   /\ x.pc # "lock" => cb'.stale
    PROVE  Astray'
<1> SUFFICES ASSUME NEW x \in strays'
             PROVE  /\ x \in StrayTimer /\ x.turn <= cur'
                    /\ x.pc = "announce" /\ x.turn \in Turns => results'[x.turn].done
                    /\ x.pc # "lock" => cb'.stale
  BY DEF Astray
<1>1. CASE x \in strays
  <2>1. /\ x \in StrayTimer /\ x.turn <= cur /\ x.turn \in Nat
        /\ x.pc = "announce" /\ x.turn \in Turns => results[x.turn].done
        /\ x.pc # "lock" => cb.stale
    BY <1>1 DEF AnyInv, Astray, StrayTimer
  <2>2. x.turn <= cur'
    BY <2>1 DEF Grows
  <2> QED BY <2>1, <2>2 DEF Grows
<1>2. CASE x = Stray("lock", timer) \/ (x = Stray("armed", timer) /\ cb'.stale)
  <2>1. /\ x \in StrayTimer /\ x.turn <= cur /\ x.pc \in {"lock", "armed"}
        /\ x.pc = "armed" => cb'.stale
    BY <1>2, OrphanIs
  <2>2. x.turn \in Nat
    BY <2>1 DEF StrayTimer
  <2>3. x.turn <= cur'
    BY <2>1, <2>2 DEF Grows
  <2> QED BY <2>1, <2>3
<1>3. ASSUME NEW s \in strays, x = [s EXCEPT !.pc = x.pc], x \in StrayTimer,
             x.pc = "announce" /\ s.turn \in Turns => results'[s.turn].done,
             x.pc # "lock" => cb'.stale
      PROVE  /\ x \in StrayTimer /\ x.turn <= cur'
             /\ x.pc = "announce" /\ x.turn \in Turns => results'[x.turn].done
             /\ x.pc # "lock" => cb'.stale
  <2>1. s \in StrayTimer /\ s.turn <= cur
    BY DEF AnyInv, Astray
  <2>2. x.turn = s.turn /\ s.turn \in Nat
    BY <1>3, <2>1 DEF StrayTimer
  <2>3. x.turn <= cur'
    BY <2>1, <2>2 DEF Grows
  <2> QED BY <1>3, <2>2, <2>3
<1> QED BY <1>1, <1>2, <1>3

LEMMA AstrayStep ==
    ASSUME AnyInv, Next, Turns' = Turns
    PROVE  Astray'
<1>0. cur \in Nat
  BY Numbers DEF AnyInv
<1>1. ASSUME UNCHANGED <<cur, results, cb, strays>> PROVE Astray'
  BY <1>1 DEF AnyInv, Astray
<1>2. ASSUME Grows, UNCHANGED strays, cur' \in Nat PROVE Astray'
  BY <1>0, <1>2, AstrayKept
<1>3. CASE Cli \/ Stop
  BY <1>1, <1>3 DEF Cli, CliTakes, CliContinues, CliSchedules, CliApiError, CliResult, Stop
<1>4. ASSUME NEW c \in Caller, Ask(c) PROVE Astray'
  <2>1. CASE SendMessage(c)
    <3>1. cur' = cur + 1 /\ UNCHANGED <<results, cb, strays>>
      BY <2>1, SendDoes DEF AnyInv
    <3> QED BY <1>0, <1>2, <3>1 DEF Grows
  <2>2. CASE WaitForTurn(c) \/ CancelWait(c)
    BY <1>1, <2>2 DEF WaitForTurn, CancelWait
  <2> QED BY <1>4, <2>1, <2>2 DEF Ask
<1>5. CASE ReadLoop
  <2>1. CASE ReadLoopCompletes
    <3>1. /\ Completes(ResultTurn, LoopResult) /\ LoopResult.done
          /\ UNCHANGED <<cur, cb, strays>>
      BY <2>1, LoopCompletesDoes DEF AnyInv
    <3>2. Grows
      BY <1>0, <3>1 DEF Grows, Completes
    <3> QED BY <1>0, <1>2, <3>1, <3>2
  <2>2. CASE ~ReadLoopCompletes
    BY <1>1, <1>5, <2>2 DEF ReadLoop, ReadWakeup, ReadSynthetic, RecordTransient, ReadResult,
       ConsumeTransient, SnapshotWakeup, ReadTurnNumber, TakeUsage, Suppress, CheckLimits,
       ReadLoopAnnounces
  <2> QED BY <2>1, <2>2
<1>6. CASE TimerFires
  <2>1. /\ cb'.stale = cb.stale /\ UNCHANGED <<cur, results>>
        /\ strays' \subseteq strays \cup {Stray("lock", timer)}
    BY <1>6, TimerFiresDoes DEF AnyInv
  <2>2. Grows
    BY <1>0, <2>1 DEF Grows
  <2> QED BY <1>0, <2>1, <2>2, AstrayKept
<1>7. CASE TimerTakesOver
  <2>1. /\ UNCHANGED <<cur, results>> /\ (cb.stale => cb'.stale)
        /\ \A x \in strays' : x \in strays \/ (x = Stray("armed", timer) /\ cb'.stale)
    BY <1>7, TimerTakesOverDoes DEF AnyInv, TakesOver, LooksAway, Orphans
  <2>2. Grows
    BY <1>0, <2>1 DEF Grows
  <2> QED BY <1>0, <2>1, <2>2, AstrayKept
<1>8. CASE TimerCompletes
  <2>1. /\ Completes(cb.turn, LateResult) /\ LateResult.done /\ cb'.stale = cb.stale
        /\ UNCHANGED <<cur, strays>>
    BY <1>8, TimerCompletesDoes DEF AnyInv
  <2>2. Grows
    BY <1>0, <2>1 DEF Grows, Completes
  <2> QED BY <1>0, <1>2, <2>1, <2>2
<1>9. CASE TimerAnnounces
  <2>1. cb'.stale = cb.stale /\ UNCHANGED <<cur, results, strays>>
    BY <1>9, TimerAnnouncesDoes DEF AnyInv
  <2> QED BY <1>0, <1>2, <2>1 DEF Grows
<1>10. CASE Strays
  <2>1. PICK s \in strays : /\ UNCHANGED Elsewhere
                            /\ StrayWaits(s) \/ StrayTakes(s) \/ StrayEnds(s) \/ StrayTells(s)
    BY <1>10, StrayDoes DEF AnyInv, Astray
  <2>2. s \in StrayTimer /\ (s.pc # "lock" => cb.stale) /\ cur' = cur
    BY <2>1 DEF AnyInv, Astray, Elsewhere
  <2>3. ASSUME NEW pc \in {"lock", "complete", "announce"}
        PROVE  [s EXCEPT !.pc = pc] \in StrayTimer /\ [s EXCEPT !.pc = pc].pc = pc
    BY <2>2 DEF StrayTimer
  <2>4. CASE StrayWaits(s) \/ StrayTells(s)
    <3>1. /\ UNCHANGED <<cur, results, cb>>
          /\ strays' \subseteq strays \cup {[s EXCEPT !.pc = "lock"]}
      BY <2>2, <2>4 DEF StrayWaits, StrayTells
    <3>2. Grows
      BY <1>0, <3>1 DEF Grows
    <3> QED BY <1>0, <2>3, <3>1, <3>2, AstrayKept
  <2>5. CASE StrayTakes(s)
    <3>1. /\ UNCHANGED <<cur, results>> /\ cb'.stale
          /\ strays' \subseteq strays \cup {[s EXCEPT !.pc = "complete"], Stray("armed", timer)}
      BY <2>2, <2>5 DEF StrayTakes, Orphans
    <3>2. Grows
      BY <1>0, <3>1 DEF Grows
    <3> QED BY <1>0, <2>3, <3>1, <3>2, AstrayKept
  <2>6. CASE StrayEnds(s)
    <3>1. /\ UNCHANGED <<cur, cb>> /\ cb.stale
          /\ strays' \subseteq strays \cup {[s EXCEPT !.pc = "announce"]}
          /\ Completes(s.turn, StrayResult(s)) /\ StrayResult(s).done
      BY <2>2, <2>6 DEF StrayEnds, StrayResult
    <3>2. Grows /\ (s.turn \in Turns => results'[s.turn].done)
      BY <1>0, <3>1 DEF Grows, Completes
    <3> QED BY <1>0, <2>3, <3>1, <3>2, AstrayKept
  <2> QED BY <2>1, <2>4, <2>5, <2>6
<1> QED BY <1>3, <1>4, <1>5, <1>6, <1>7, <1>8, <1>9, <1>10 DEF Next, SafetyTimer

LEMMA AnyInit == Init => AnyInv
<1> SUFFICES ASSUME Init PROVE AnyInv
  OBVIOUS
<1>0. Waiting
  BY WaitingInit
<1>1. PICK sc \in Scenarios : left = sc
  BY DEF Init
<1>2. left \in [Events -> Nat] /\ left["turn"] \in Nat
  BY <1>1, ScenarioAssumption DEF Events
<1>3. Turns = 1 .. left["turn"] /\ Turns \subseteq Nat /\ cur = 0
  BY <1>2 DEF Init, Turns
<1>4. Shape
  <2>1. /\ lastWakeup \in [Turns -> Nat]
        /\ results \in [Turns -> [done : BOOLEAN, of : Nat, usage : Nat, err : BOOLEAN, late : BOOLEAN]]
        /\ completions \in [Turns -> [done : Nat, told : Nat, usage : Nat]]
    BY <1>3 DEF Init
  <2>2. wake \in Wake /\ timer \in Timer /\ rl \in Loop
    BY ResetIs, ReadingIs DEF Init
  <2>3. cb \in Callback /\ cli \in Agent
    BY DEF Init, Callback, Agent, Quiet
  <2>4. cost \in Nat /\ stopping \in BOOLEAN /\ prompts \in Seq(Nat) /\ out \in Seq(Item)
    <3>1. cost = 0 /\ stopping = FALSE /\ prompts = <<>> /\ out = <<>>
      BY DEF Init
    <3>2. ASSUME NEW S PROVE <<>> \in Seq(S)
      OBVIOUS
    <3>3. cost \in Nat /\ stopping \in BOOLEAN
      BY <3>1
    <3> QED BY <3>1, <3>2, <3>3
  <2> QED BY <1>2, <2>1, <2>2, <2>3, <2>4 DEF Shape
<1>5. Bounded
  BY ResetIs, ReadingIs DEF Init, Bounded, Idle, Quiet, Busy
<1>6. Told
  BY <1>3, ReadingIs DEF Init, Told, AnnouncedIsRecorded
<1>7. Timed
  BY ResetIs, ReadingIs DEF Init, Timed, SuppressionIsTimed, Deciding
<1>8. Untouched
  BY <1>3 DEF Init, Untouched
<1>9. Numbered /\ Printed
  BY <1>3, ResetIs DEF Init, Numbered, Newer, Printed, Quiet
<1>10. Astray
  BY DEF Init, Astray
<1> QED BY <1>0, <1>4, <1>5, <1>6, <1>7, <1>8, <1>9, <1>10 DEF AnyInv

LEMMA AnyStep ==
    ASSUME AnyInv, [Next]_vars
    PROVE  AnyInv'
<1>1. Waiting'
  BY WaitingStep DEF AnyInv
<1>2. CASE Next
  <2>0. Turns' = Turns
    BY <1>2, SameTurns DEF AnyInv
  <2>1. ASSUME Cli PROVE Rest'
    BY <2>0, <2>1, CliStarts, CliPrints DEF Cli
  <2>2. ASSUME NEW c \in Caller, Ask(c) PROVE Rest'
    BY <2>0, <2>2, SendAny, WaitAny DEF Ask
  <2>3. ASSUME Stop PROVE Rest'
    BY <2>0, <2>3, StopAny
  <2>4. ASSUME ReadLoop PROVE Rest'
    <3>1. CASE ReadLoopCompletes
      <4>1. /\ rl.pc = "complete" /\ Keeps /\ rl'.pc = "announce"
            /\ Completes(ResultTurn, LoopResult)
            /\ results' \in [Turns -> Result]
            /\ completions' \in [Turns -> [done : Nat, told : Nat, usage : Nat]]
            /\ LoopResult.done
            /\ UNCHANGED <<cur, lastWakeup, pending, wake, timer, cost, cb, strays, stopping,
                           env, left>>
        BY <3>1, LoopCompletesDoes DEF AnyInv
      <4>2. ResultTurn \in Nat /\ ResultTurn <= cur
        BY <4>1, Fields DEF AnyInv, ResultTurn, Bounded
      <4>3. rl' \in Loop
        BY <4>1 DEF Keeps
      <4> QED BY <1>1, <4>1, <4>2, <4>3, CompleteAny
    <3>2. CASE ReadLoopAnnounces
      <4>1. /\ rl.pc = "announce" /\ rl' = Reading /\ Announces(ResultTurn)
            /\ UNCHANGED <<cur, lastWakeup, results, caller, pending, wake, timer, cost, cb,
                           strays,
                           stopping, env, answers, abandoned, left>>
        BY <3>2, AnnouncesDoes DEF AnyInv, ReadLoopAnnounces
      <4> QED BY <2>0, <4>1, AnnounceAny
    <3>3. CASE ~ReadLoopCompletes /\ ~ReadLoopAnnounces
      BY <2>0, <2>4, <3>3, ReadAny, HandleAny, SuppressAny DEF ReadLoop
    <3> QED BY <3>1, <3>2, <3>3
  <2>5. ASSUME SafetyTimer PROVE Rest'
    <3>1. CASE TimerCompletes
      <4>1. /\ cb.pc = "complete" /\ cb' \in Callback /\ cb'.pc = "announce"
            /\ cb'.turn = cb.turn /\ cb'.wakeup = cb.wakeup
            /\ Completes(cb.turn, LateResult) /\ LateResult.done
            /\ results' \in [Turns -> Result]
            /\ completions' \in [Turns -> [done : Nat, told : Nat, usage : Nat]]
            /\ UNCHANGED <<cur, lastWakeup, pending, wake, timer, cost, rl, strays, stopping,
                           env,
                           left>>
        BY <3>1, TimerCompletesDoes DEF AnyInv
      <4>2. cb.turn \in Nat /\ cb.turn <= cur
        BY Fields DEF AnyInv, Bounded
      <4> QED BY <1>1, <4>1, <4>2, CompleteAny
    <3>2. CASE TimerAnnounces
      <4>1. /\ cb.pc = "announce" /\ Announces(cb.turn)
            /\ cb' \in Callback /\ cb'.pc = "off" /\ cb'.turn = cb.turn /\ cb'.wakeup = cb.wakeup
            /\ UNCHANGED <<cur, lastWakeup, results, caller, pending, wake, timer, cost, rl,
                           strays,
                           stopping, env, answers, abandoned, left>>
        BY <3>2, TimerAnnouncesDoes DEF AnyInv
      <4> QED BY <2>0, <4>1, AnnounceAny
    <3>3. CASE TimerFires \/ TimerTakesOver
      BY <2>0, <3>3, TimerAny
    <3>4. CASE Strays
      BY <1>1, <2>0, <3>4, StrayAny
    <3> QED BY <2>5, <3>1, <3>2, <3>3, <3>4 DEF SafetyTimer
  <2>6. Rest'
    BY <1>2, <2>1, <2>2, <2>3, <2>4, <2>5 DEF Next
  <2>7. Astray'
    BY <1>2, <2>0, AstrayStep
  <2> QED BY <1>1, <2>6, <2>7 DEF Rest, AnyInv
<1>3. CASE UNCHANGED vars
  <2>0. UNCHANGED Inside /\ Turns' = Turns
    BY <1>3 DEF vars, Inside, Turns
  <2>1. Shape'
    BY <1>3, <2>0 DEF vars, env, AnyInv, Shape
  <2>2. Bounded'
    BY <1>3 DEF vars, env, AnyInv, Bounded, Busy
  <2>3. Told' /\ Timed' /\ Untouched'
    BY <2>0, InsideKept DEF AnyInv
  <2>4. Numbered' /\ Printed'
    BY <1>3, <2>0 DEF vars, env, AnyInv, Numbered, Newer, Printed
  <2>5. Astray'
    BY <1>3, <2>0 DEF vars, AnyInv, Astray
  <2> QED BY <1>1, <2>1, <2>2, <2>3, <2>4, <2>5 DEF AnyInv
<1> QED BY <1>2, <1>3

\* The types and the first of the promises hold whatever callers and CLI do: what
\* is announced is recorded, and a suppressed turn has a timer behind it.
THEOREM Typed == Spec => [](TypeOK /\ AnnouncedIsRecorded /\ SuppressionIsTimed)
<1>1. AnyInv => TypeOK /\ AnnouncedIsRecorded /\ SuppressionIsTimed
  <2> SUFFICES ASSUME AnyInv PROVE TypeOK /\ AnnouncedIsRecorded /\ SuppressionIsTimed
    OBVIOUS
  <2>1. AnnouncedIsRecorded /\ SuppressionIsTimed
    BY DEF AnyInv, Told, Timed
  <2>2. PICK n \in Nat : Turns = 1 .. n /\ cur \in 0 .. n
    BY DEF AnyInv, Waiting
  <2>3. Cardinality(Turns) = n
    BY <2>2, FS_Interval, Z3
  <2>4. /\ wake.turn \in 0 .. cur /\ timer.turn \in 0 .. cur /\ cb.turn \in 0 .. cur
        /\ rl.pc \in RlPcs /\ cb.pc \in {"off", "lock", "complete", "announce"}
        /\ pending \subseteq 1 .. cur
    <3>1. Shape /\ cur \in Nat
      BY <2>2 DEF AnyInv
    <3>2. /\ wake.turn \in Nat /\ timer.turn \in Nat /\ cb.turn \in Nat
          /\ rl.pc \in RlPcs /\ cb.pc \in {"off", "lock", "complete", "announce"}
      BY <3>1, Fields
    <3>3. wake.turn <= cur /\ timer.turn <= cur /\ cb.turn <= cur /\ pending \subseteq 1 .. cur
      BY DEF AnyInv, Bounded
    <3> QED BY <3>1, <3>2, <3>3
  <2>5. \A c \in Caller : /\ caller[c].pc \in {"idle", "sent", "waiting"}
                          /\ caller[c].mine \in 0 .. cur /\ caller[c].on \in 0 .. cur
    BY <2>2 DEF AnyInv, Waiting, Bounded
  <2>6. \A x \in strays : x.pc \in {"armed", "lock", "complete", "announce"} /\ x.turn \in 0 .. cur
    BY <2>2 DEF AnyInv, Astray, StrayTimer
  <2> QED BY <2>1, <2>2, <2>3, <2>4, <2>5, <2>6 DEF TypeOK, RlPcs
<1> QED BY <1>1, AnyInit, AnyStep, PTL DEF Spec
-----------------------------------------------------------------------------
(* Where prompts do not overlap.                                              *)

\* Only the scenario says whether they do.
LEMMA OverlapsKept ==
    ASSUME AnyInv, [Next]_vars
    PROVE  Overlaps' = Overlaps
<1>1. CASE UNCHANGED left
  BY <1>1 DEF Overlaps
<1>2. ASSUME NEW e \in Events \ {"overlap"}, Spend(e) PROVE left'["overlap"] = left["overlap"]
  BY <1>2 DEF Spend, AnyInv, Shape, Events
<1>3. UNCHANGED left \/ \E e \in Events \ {"overlap"} : Spend(e)
  BY DEF Next, vars, Cli, CliTakes, CliContinues, CliSchedules, CliApiError, CliResult, Ask,
     SendMessage, WaitForTurn, CancelWait, Stop, ReadLoop, ReadWakeup, ReadSynthetic,
     RecordTransient, ReadResult, ConsumeTransient, SnapshotWakeup, ReadTurnNumber, TakeUsage,
     Suppress, CheckLimits, ReadLoopCompletes, ReadLoopAnnounces, SafetyTimer, TimerFires,
     TimerTakesOver, TimerCompletes, TimerAnnounces, Strays, StrayFires, StrayTakesOver,
     StrayCompletes, StrayAnnounces, Events
<1> QED BY <1>1, <1>2, <1>3 DEF Overlaps

\* Parts of the invariant that a step leaves alone.
LEMMA OwnKept ==
    ASSUME Own, UNCHANGED <<cur, results, caller, answers>>, Turns' = Turns,
           abandoned \subseteq abandoned'
    PROVE  Own'
BY DEF Own

LEMMA PipeKept ==
    ASSUME Pipe, UNCHANGED <<cur, prompts, cli, out>>, abandoned \subseteq abandoned',
           Handling' => Handling /\ rl'.of = rl.of,
           Busy' => Busy /\ rl'.n = cur
    PROVE  Pipe'
BY DEF Pipe, Ours

LEMMA CliInOrder ==
    ASSUME AnyInv, InOrder, Cli, Turns' = Turns
    PROVE  InOrder'
<1>1. /\ UNCHANGED Session /\ cur \in Nat
      /\ prompts \in Seq(Nat) /\ out \in Seq(Item)
  BY Numbers, CliTakesDoes, CliContinuesDoes, CliSchedulesDoes, CliApiErrorDoes, CliResultDoes
     DEF Cli, AnyInv, Shape
<1>2. Own' /\ Held'
  BY <1>1, OwnKept DEF InOrder, Session, Held, Deciding
<1>3. CASE CliTakes
  <2>1. /\ prompts # <<>> /\ cli'.turn = prompts[1] /\ prompts' = Tail(prompts)
        /\ UNCHANGED out /\ cli'.wakeups = cli.wakeups
    BY <1>3, CliTakesDoes DEF AnyInv
  <2>2. Len(prompts) = 1 /\ cli'.turn = cur
    BY <2>1 DEF InOrder, Pipe
  <2>3. prompts' = <<>>
    <3>1. Len(prompts') = 0 /\ prompts' \in Seq(Nat)
      BY <1>1, <2>1, <2>2, Shifted
    <3> QED BY <3>1, Empty
  <2>4. cur > 0
    <3>1. 1 \in 1 .. Len(prompts)
      BY <2>2
    <3> QED BY <1>1, <2>1, <2>2, <3>1 DEF AnyInv, Bounded
  <2>5. Pipe'
    BY <1>1, <2>1, <2>2, <2>3 DEF InOrder, Pipe, Session, Ours, Handling, Deciding, Busy
  <2>6. Refusing'
    BY <1>1, <2>1, <2>2, <2>4 DEF InOrder, Refusing, Session
  <2> QED BY <1>2, <2>5, <2>6 DEF InOrder
<1>4. CASE CliContinues
  <2>1. /\ UNCHANGED <<out, prompts>> /\ prompts = <<>> /\ cli'.turn \in cli.wakeups
        /\ cli'.wakeups = cli.wakeups \ {cli'.turn}
    BY <1>4, CliContinuesDoes DEF AnyInv
  <2>2. cli'.turn # 0
    BY <1>1, <2>1 DEF AnyInv, Bounded
  <2>3. Pipe'
    BY <1>1, <2>1 DEF InOrder, Pipe, Session, Ours, Handling, Deciding, Busy
  <2>4. Refusing'
    BY <1>1, <2>1, <2>2 DEF InOrder, Refusing, Session
  <2> QED BY <1>2, <2>3, <2>4 DEF InOrder
<1>5. CASE CliSchedules \/ CliApiError \/ CliResult
  <2>1. /\ UNCHANGED prompts /\ cli'.turn \in {0, cli.turn}
        /\ cli'.wakeups \subseteq cli.wakeups \cup {cli.turn}
        /\ \E m : Prints(m)
    BY <1>5, CliSchedulesDoes, CliApiErrorDoes, CliResultDoes DEF AnyInv
  <2>2. PICK m : Prints(m)
    BY <2>1
  <2>3. /\ out' \in Seq(Item) /\ Len(out') = Len(out) + 1 /\ out' # <<>> /\ out'[Len(out')] = m
        /\ \A i \in 1 .. Len(out) : out'[i] = out[i]
        /\ m.of = cli.turn /\ cli.turn # 0 /\ Len(out) \in Nat
    BY <1>1, <2>2, Appended DEF Prints
  <2>4. cli.turn \in Ours /\ prompts' = <<>>
    BY <2>1, <2>3 DEF InOrder, Pipe
  <2>5. \A i \in 1 .. Len(out') : out'[i].of \in Ours
    <3> TAKE i \in 1 .. Len(out')
    <3>1. CASE i \in 1 .. Len(out)
      BY <2>3, <3>1 DEF InOrder, Pipe
    <3>2. CASE i = Len(out')
      BY <2>3, <2>4, <3>2
    <3> QED BY <2>3, <3>1, <3>2
  <2>6. Pipe'
    <3>1. Ours' = Ours
      BY <1>1 DEF Ours, Session
    <3>2. (Handling' <=> Handling) /\ (Busy' <=> Busy) /\ rl' = rl /\ cur' = cur
      BY <1>1 DEF Session, Handling, Deciding, Busy
    <3> QED BY <2>1, <2>4, <2>5, <3>1, <3>2 DEF InOrder, Pipe
  <2>7. Refusing'
    BY <1>1, <2>3 DEF InOrder, Refusing, Session
  <2> QED BY <1>2, <2>6, <2>7 DEF InOrder
<1> QED BY <1>3, <1>4, <1>5 DEF Cli

LEMMA SendInOrder ==
    ASSUME AnyInv, InOrder, ~Overlaps, NEW c \in Caller, SendMessage(c), Turns' = Turns
    PROVE  InOrder'
<1>1. /\ cur' = cur + 1 /\ cur \in Nat /\ wake' = NoWake /\ timer' = NoTimer /\ pending = {}
      /\ abandoned' = abandoned \cup cli.wakeups
      /\ UNCHANGED <<lastWakeup, results, pending, cost, rl, cb, strays, stopping, cli, out,
                     completions, answers>>
      /\ Serial
  <2>1. MaySend => Serial
    BY Fields DEF MaySend, Overlaps, AnyInv, Shape, Events
  <2> QED BY <2>1, SendDoes, Numbers DEF AnyInv
<1>2. /\ \A d \in Caller : caller[d].pc = "idle"
      /\ prompts = <<>> /\ out = <<>> /\ cli.turn = 0 /\ rl.pc \in {"read", "announce"}
  BY <1>1 DEF Serial, Outstanding
<1>3. /\ \A d \in Caller : caller'[d].pc # "idle" =>
            caller'[d].mine = cur + 1 /\ caller'[d].pc # "waiting"
      /\ prompts' # <<>> => Len(prompts') = 1 /\ prompts'[1] = cur + 1
  <2>1. CASE /\ prompts' = Append(prompts, cur + 1)
             /\ caller' = [caller EXCEPT ![c] = [pc |-> "sent", mine |-> cur + 1, on |-> 0]]
    <3>1. Len(prompts') = 1 /\ prompts'[1] = cur + 1
      <4>1. <<>> \in Seq(Nat) /\ Len(<<>>) = 0
        OBVIOUS
      <4> QED BY <1>1, <1>2, <2>1, <4>1, Appended
    <3> QED BY <1>2, <2>1, <3>1 DEF AnyInv, Waiting
  <2>2. CASE UNCHANGED <<prompts, caller>>
    BY <1>2, <2>2
  <2> QED BY <2>1, <2>2, SendDoes DEF AnyInv
<1>4. Own'
  BY <1>1, <1>3 DEF InOrder, Own
<1>5. Pipe'
  BY <1>1, <1>2, <1>3 DEF InOrder, Pipe, Ours, Handling, Deciding, Busy
<1>6. Held' /\ Refusing'
  BY <1>1, <1>2, ResetIs DEF InOrder, Held, Refusing, Deciding
<1> QED BY <1>4, <1>5, <1>6 DEF InOrder

LEMMA WaitInOrder ==
    ASSUME AnyInv, InOrder, NEW c \in Caller, WaitForTurn(c) \/ CancelWait(c), Turns' = Turns
    PROVE  InOrder'
<1>1. /\ UNCHANGED Machine /\ caller[c].pc # "idle"
      /\ \A d \in Caller \ {c} : caller'[d] = caller[d]
      /\ \/ caller'[c] = Idle
         \/ /\ caller'[c].pc = "waiting" /\ caller'[c].mine = caller[c].mine
            /\ caller'[c].on = cur
      /\ \A a \in answers' \ answers :
            a.asked = caller[c].mine /\ cur \in Turns /\ results[cur].done /\ a.of = results[cur].of
  BY WaitDoes DEF AnyInv
<1>2. caller[c].mine = cur
  BY <1>1 DEF InOrder, Own
<1>3. Own'
  BY <1>1, <1>2 DEF InOrder, Own, Machine, Idle
<1>4. Pipe'
  BY <1>1, PipeKept DEF InOrder, Pipe, Machine, env, Handling, Deciding, Busy
<1>5. Held' /\ Refusing'
  BY <1>1 DEF InOrder, Held, Refusing, Deciding, Machine, env
<1> QED BY <1>3, <1>4, <1>5 DEF InOrder

LEMMA StopInOrder ==
    ASSUME AnyInv, InOrder, Stop, Turns' = Turns
    PROVE  InOrder'
<1>1. /\ wake' = NoWake /\ timer' = NoTimer
      /\ UNCHANGED <<cur, lastWakeup, results, caller, pending, cost, rl, cb, strays, env,
                     completions, answers, abandoned>>
  BY StopDoes DEF AnyInv
<1>2. Own'
  BY <1>1, OwnKept DEF InOrder
<1>3. Pipe'
  BY <1>1, PipeKept DEF InOrder, Pipe, env, Handling, Deciding, Busy
<1>4. Held' /\ Refusing'
  BY <1>1, ResetIs DEF InOrder, Held, Refusing, Deciding, env
<1> QED BY <1>2, <1>3, <1>4 DEF InOrder

LEMMA ReadInOrder ==
    ASSUME AnyInv, InOrder, ReadWakeup \/ ReadSynthetic \/ ReadResult, Turns' = Turns
    PROVE  InOrder'
<1>1. cur \in Nat
  BY Numbers DEF AnyInv
<1>2. PICK kind : /\ Reads(kind) /\ (ReadWakeup => kind = "wakeup" /\ rl' = rl)
                  /\ ReadSynthetic => kind = "synthetic" /\ rl'.pc = "synthetic" /\ rl'.n = cur
                  /\ ReadResult => /\ kind = "result" /\ rl'.pc = "consume" /\ rl'.n = cur
                                   /\ rl'.of = out[1].of
  <2>1. CASE ReadWakeup
    <3>1. Reads("wakeup") /\ rl' = rl
      BY <2>1, ReadWakeupDoes DEF AnyInv
    <3>2. ~ReadSynthetic /\ ~ReadResult
      BY <2>1 DEF ReadWakeup, ReadSynthetic, ReadResult
    <3> QED BY <3>1, <3>2
  <2>2. CASE ReadSynthetic
    <3>1. ~ReadWakeup /\ ~ReadResult
      BY <2>2 DEF ReadWakeup, ReadSynthetic, ReadResult
    <3> QED BY <1>1, <2>2, <3>1, ReadSyntheticDoes DEF AnyInv
  <2>3. CASE ReadResult
    <3>1. ~ReadWakeup /\ ~ReadSynthetic
      BY <2>3 DEF ReadWakeup, ReadSynthetic, ReadResult
    <3> QED BY <1>1, <2>3, <3>1, ReadResultDoes DEF AnyInv
  <2> QED BY <2>1, <2>2, <2>3
<1>3. /\ out # <<>> /\ out' = Tail(out) /\ out[1].kind = kind
      /\ UNCHANGED <<cur, results, caller, pending, wake, timer, cost, cb, strays, stopping,
                     prompts,
                     cli, completions, answers, abandoned, left>>
      /\ rl.pc = "read"
  BY <1>2 DEF Reads
<1>4. /\ out' \in Seq(Item) /\ Len(out') = Len(out) - 1 /\ Len(out) \in Nat
      /\ \A i \in 1 .. Len(out') : out'[i] = out[i + 1] /\ i + 1 \in 1 .. Len(out)
      /\ 1 \in 1 .. Len(out)
  BY <1>3, Shifted DEF AnyInv, Shape
<1>5. kind # "result" => out' # <<>> \/ cli.turn # 0
  <2> SUFFICES ASSUME kind # "result", out' = <<>>, cli.turn = 0 PROVE FALSE
    OBVIOUS
  <2>1. Len(out) = 1
    BY <1>4, Empty
  <2> QED BY <1>3, <2>1 DEF AnyInv, Printed
<1>6. Own'
  BY <1>3, OwnKept DEF InOrder
<1>7. Pipe'
  <2>1. prompts = <<>> /\ \A i \in 1 .. Len(out') : out'[i].of \in Ours
    BY <1>3, <1>4 DEF InOrder, Pipe
  <2>2. Handling' => rl'.of \in Ours
    BY <1>2, <1>3, <1>4 DEF InOrder, Pipe, Handling, Deciding
  <2>3. Busy' => rl'.n = cur
    BY <1>2, <1>3 DEF Busy
  <2>4. Ours' = Ours
    BY <1>3 DEF Ours
  <2> QED BY <1>3, <2>1, <2>2, <2>3, <2>4 DEF InOrder, Pipe
<1>8. Held'
  BY <1>2, <1>3 DEF InOrder, Held, Deciding
<1>9. Refusing'
  <2>1. pending # {} => cli.turn # 0 \/ out' # <<>> \/ rl'.pc = "consume"
    BY <1>2, <1>5
  <2>2. rl'.pc = "synthetic" => cli.turn # 0 \/ out' # <<>>
    BY <1>2, <1>3, <1>5
  <2> QED BY <1>3, <2>1, <2>2 DEF InOrder, Refusing
<1> QED BY <1>6, <1>7, <1>8, <1>9 DEF InOrder

LEMMA HandleInOrder ==
    ASSUME AnyInv, InOrder, Turns' = Turns,
           RecordTransient \/ ConsumeTransient \/ SnapshotWakeup \/ ReadTurnNumber \/ TakeUsage
           \/ CheckLimits
    PROVE  InOrder'
<1>1. cur \in Nat
  BY Numbers DEF AnyInv
<1>2. Busy /\ rl.n = cur
  <2>1. Busy
    BY DEF Busy, RecordTransient, ConsumeTransient, SnapshotWakeup, ReadTurnNumber, TakeUsage,
           CheckLimits
  <2> QED BY <2>1 DEF InOrder, Pipe
<1>3. /\ UNCHANGED <<cur, results, caller, cli, prompts, out, answers>>
      /\ wake'.turn = wake.turn /\ (wake'.active => wake.active)
      /\ timer' \in {timer, NoTimer} /\ abandoned \subseteq abandoned'
      /\ Handling' => Handling /\ rl'.of = rl.of
      /\ Busy' => Busy /\ rl'.n = cur
      /\ Deciding' /\ rl'.suppressed =>
           IF rl.pc = "snapshot" THEN rl'.turn = wake.turn /\ wake.active
           ELSE rl'.turn = rl.turn /\ rl.suppressed /\ Deciding
      /\ rl'.pc # "synthetic"
      /\ IF rl.pc = "synthetic" THEN pending' = pending \cup {rl.n}
         ELSE IF rl.pc = "consume" THEN pending' = pending \ {rl.n}
         ELSE pending' = pending
  <2>1. CASE RecordTransient
    BY <1>2, <2>1, RecordTransientDoes, ReadingIs DEF AnyInv, env, Handling, Deciding, Busy
  <2>2. CASE ConsumeTransient
    BY <1>2, <2>2, ConsumeTransientDoes DEF AnyInv, env, Handling, Deciding, Keeps
  <2>3. CASE SnapshotWakeup
    <3>1. CASE Swallows
      <4>1. rl' = Reading /\ rl.pc = "snapshot" /\ abandoned \subseteq abandoned'
        BY <3>1 DEF Swallows
      <4>2. ~Handling' /\ ~Busy' /\ ~Deciding'
        BY <4>1, ReadingIs DEF Handling, Deciding, Busy
      <4> QED BY <2>3, <3>1, <4>1, <4>2, SnapshotDoes, ReadingIs DEF AnyInv, env, Swallows
    <3>2. CASE Ends
      <4>1. /\ Handling' /\ Handling /\ rl'.of = rl.of /\ rl'.n = cur
            /\ rl'.suppressed = wake.active /\ rl'.turn = wake.turn
        BY <1>2, <3>2 DEF Ends, Handling, Deciding
      <4> QED BY <1>2, <2>3, <3>2, <4>1, SnapshotDoes DEF AnyInv, env, Ends
    <3> QED BY <2>3, <3>1, <3>2, SnapshotDoes DEF AnyInv
  <2>4. CASE ReadTurnNumber
    BY <1>1, <1>2, <2>4, ReadTurnNumberDoes DEF AnyInv, env, Handling, Deciding
  <2>5. CASE TakeUsage
    BY <1>2, <2>5, TakeUsageDoes DEF AnyInv, env, Handling, Deciding, Keeps
  <2>6. CASE CheckLimits
    BY <1>2, <2>6, CheckLimitsDoes DEF AnyInv, env, Handling, Deciding, Keeps
  <2> QED BY <2>1, <2>2, <2>3, <2>4, <2>5, <2>6
<1>4. Own'
  BY <1>3, OwnKept DEF InOrder
<1>5. Pipe'
  BY <1>3, PipeKept DEF InOrder
<1>6. Held'
  BY <1>3, ResetIs DEF InOrder, Held
<1>7. Refusing'
  BY <1>2, <1>3 DEF InOrder, Refusing
<1> QED BY <1>4, <1>5, <1>6, <1>7 DEF InOrder

LEMMA SuppressInOrder ==
    ASSUME AnyInv, InOrder, Suppress, Turns' = Turns
    PROVE  InOrder'
<1>1. rl.pc = "suppress" /\ Deciding /\ Busy /\ Handling
  BY DEF Suppress, Deciding, Busy, Handling
<1>2. rl.n = cur /\ cur \in Nat /\ rl.n > 0 /\ First = cur /\ ResultTurn = cur
  BY <1>1, Numbers DEF AnyInv, Bounded, InOrder, Pipe, Held, First, ResultTurn
<1>3. lastWakeup[rl.n] \in Nat
  BY <1>2, Numbers DEF AnyInv, Shape
<1>4. /\ UNCHANGED <<cur, lastWakeup, results, caller, pending, cb, strays, stopping, env,
                     completions, answers, abandoned, left>>
      /\ GivesUp \/ Waits
  BY <1>3, SuppressDoes DEF AnyInv
<1>5. /\ wake'.turn = cur /\ timer'.turn \in {timer.turn, cur}
      /\ \/ rl' = Reading
         \/ /\ rl'.pc = "limits" /\ rl'.of = rl.of /\ rl'.n = rl.n
            /\ rl'.suppressed = rl.suppressed /\ rl'.turn = rl.turn
  BY <1>2, <1>4 DEF GivesUp, Waits, Keeps
<1>6. Own'
  BY <1>4, OwnKept DEF InOrder
<1>7. Pipe'
  <2>1. (Handling' => Handling /\ rl'.of = rl.of) /\ (Busy' => Busy /\ rl'.n = cur)
    BY <1>1, <1>2, <1>5, ReadingIs DEF Handling, Deciding, Busy
  <2> QED BY <1>4, <2>1, PipeKept DEF InOrder, env
<1>8. Held'
  BY <1>1, <1>2, <1>4, <1>5, ReadingIs DEF InOrder, Held, Deciding
<1>9. Refusing'
  BY <1>1, <1>4, <1>5, ReadingIs DEF InOrder, Refusing, env
<1> QED BY <1>6, <1>7, <1>8, <1>9 DEF InOrder

\* Completing a turn: the result belongs to it, or to one that was left.
LEMMA CompleteInOrder ==
    ASSUME AnyInv, InOrder, NEW t, NEW result, Completes(t, result),
           result.of = t \/ result.of \in Ours,
           t = cur \/ result.of = t,
           UNCHANGED <<cur, lastWakeup, pending, wake, timer, cost, stopping, env, left>>,
           abandoned \subseteq abandoned',
           \/ UNCHANGED rl
           \/ rl.pc = "complete" /\ rl'.pc = "announce" /\ Keeps
    PROVE  InOrder'
<1>1. Turns' = Turns
  BY DEF Turns
<1>2. Own'
  <2>1. \A d \in Caller : caller'[d] \in {Idle, caller[d]}
    BY DEF Completes
  <2>2. \A u \in Turns : results'[u].done => results'[u].of = u \/ results'[u].of \in abandoned'
    <3> TAKE u \in Turns
    <3>1. CASE u = t
      BY <3>1 DEF Completes, Ours
    <3>2. CASE u # t
      BY <3>2 DEF Completes, InOrder, Own
    <3> QED BY <3>1, <3>2
  <2>3. \A a \in answers' : a.asked # a.of => a.of \in abandoned'
    <3> TAKE a \in answers'
    <3>1. CASE a \in answers
      BY <3>1 DEF InOrder, Own
    <3>2. CASE a \notin answers
      <4>1. PICK d \in Caller : /\ caller[d].pc = "waiting" /\ caller[d].on = t
                                /\ a.asked = caller[d].mine /\ a.of = result.of
        BY <3>2 DEF Completes
      <4>2. caller[d].mine = cur /\ t = cur
        BY <4>1 DEF InOrder, Own
      <4> QED BY <4>1, <4>2 DEF Ours
    <3> QED BY <3>1, <3>2
  <2> QED BY <1>1, <2>1, <2>2, <2>3 DEF InOrder, Own, Idle
<1>3. Pipe'
  BY PipeKept DEF InOrder, Pipe, env, Handling, Deciding, Busy
<1>4. Held'
  BY DEF InOrder, Held, Deciding
<1>5. Refusing'
  BY DEF InOrder, Refusing, env
<1> QED BY <1>2, <1>3, <1>4, <1>5 DEF InOrder

LEMMA EndInOrder ==
    ASSUME AnyInv, InOrder, Turns' = Turns,
           ReadLoopCompletes \/ ReadLoopAnnounces \/ SafetyTimer
    PROVE  InOrder'
<1>1. CASE ReadLoopCompletes
  <2>1. /\ rl.pc = "complete" /\ Keeps /\ rl'.pc = "announce"
        /\ Completes(ResultTurn, LoopResult) /\ LoopResult.of = rl.of
        /\ abandoned \subseteq abandoned'
        /\ UNCHANGED <<cur, lastWakeup, pending, wake, timer, cost, cb, strays, stopping, env,
                       left>>
    BY <1>1, LoopCompletesDoes DEF AnyInv
  <2>2. ResultTurn = cur /\ rl.of \in Ours
    BY <2>1 DEF InOrder, Pipe, Held, ResultTurn, Handling, Deciding, Busy
  <2> QED BY <2>1, <2>2, CompleteInOrder
<1>2. CASE TimerCompletes
  <2>1. /\ Completes(cb.turn, LateResult) /\ LateResult.of = cb.turn
        /\ UNCHANGED <<cur, lastWakeup, pending, wake, timer, cost, rl, stopping, env,
                       abandoned, left>>
    BY <1>2, TimerCompletesDoes DEF AnyInv
  <2> QED BY <2>1, CompleteInOrder
<1>3. CASE ReadLoopAnnounces \/ TimerAnnounces
  <2>1. /\ UNCHANGED <<cur, lastWakeup, results, caller, pending, wake, timer, cost,
                       stopping, env, answers, abandoned, left>>
        /\ rl' = rl \/ (rl' = Reading /\ rl.pc = "announce")
    BY <1>3, TimerAnnouncesDoes DEF AnyInv, ReadLoopAnnounces
  <2>2. Own'
    BY <2>1, OwnKept DEF InOrder
  <2>3. Pipe'
    BY <2>1, PipeKept, ReadingIs DEF InOrder, Pipe, env, Handling, Deciding, Busy
  <2>4. Held' /\ Refusing'
    BY <2>1, ReadingIs DEF InOrder, Held, Deciding, Refusing, env
  <2> QED BY <2>2, <2>3, <2>4 DEF InOrder
<1>4. CASE TimerFires \/ TimerTakesOver
  <2>1. /\ UNCHANGED <<cur, lastWakeup, results, caller, pending, cost, rl, stopping,
                       env, completions, answers, abandoned, left>>
        /\ wake'.turn = wake.turn /\ (wake'.active => wake.active)
        /\ timer' \in {timer, NoTimer}
    <3>1. CASE TimerFires
      BY <3>1, TimerFiresDoes DEF AnyInv
    <3>2. CASE TimerTakesOver
      BY <3>2, TimerTakesOverDoes DEF AnyInv, TakesOver, LooksAway
    <3> QED BY <1>4, <3>1, <3>2
  <2>2. Own'
    BY <2>1, OwnKept DEF InOrder
  <2>3. Pipe'
    BY <2>1, PipeKept DEF InOrder, Pipe, env, Handling, Deciding, Busy
  <2>4. Held' /\ Refusing'
    BY <2>1, ResetIs DEF InOrder, Held, Deciding, Refusing, env
  <2> QED BY <2>2, <2>3, <2>4 DEF InOrder
<1>5. CASE Strays
  <2>1. PICK s \in strays : /\ UNCHANGED Elsewhere
                            /\ StrayWaits(s) \/ StrayTakes(s) \/ StrayEnds(s) \/ StrayTells(s)
    BY <1>5, StrayDoes DEF AnyInv, Astray
  <2>2. CASE StrayEnds(s)
    <3>1. /\ Completes(s.turn, StrayResult(s)) /\ StrayResult(s).of = s.turn
          /\ UNCHANGED <<cur, lastWakeup, pending, wake, timer, cost, rl, stopping, env,
                         abandoned, left>>
      BY <2>1, <2>2 DEF Elsewhere, StrayEnds, StrayResult
    <3> QED BY <3>1, CompleteInOrder
  <2>3. CASE StrayWaits(s) \/ StrayTakes(s) \/ StrayTells(s)
    <3>1. /\ UNCHANGED <<cur, lastWakeup, results, caller, pending, cost, rl, stopping,
                         env, answers, abandoned, left>>
          /\ wake'.turn = wake.turn /\ (wake'.active => wake.active)
          /\ timer' \in {timer, NoTimer}
      BY <2>1, <2>3 DEF Elsewhere, StrayWaits, StrayTakes, StrayTells
    <3>2. Own'
      BY <3>1, OwnKept DEF InOrder
    <3>3. Pipe'
      BY <3>1, PipeKept DEF InOrder, Pipe, env, Handling, Deciding, Busy
    <3>4. Held' /\ Refusing'
      BY <3>1, ResetIs DEF InOrder, Held, Deciding, Refusing, env
    <3> QED BY <3>2, <3>3, <3>4 DEF InOrder
  <2> QED BY <2>1, <2>2, <2>3
<1> QED BY <1>1, <1>2, <1>3, <1>4, <1>5 DEF SafetyTimer

LEMMA SerialInit == Init => SerialInv
<1> SUFFICES ASSUME Init PROVE InOrder
  BY DEF SerialInv
<1>1. Own
  BY DEF Init, Own, Idle, Turns
<1>2. Pipe
  BY ReadingIs DEF Init, Pipe, Quiet, Handling, Deciding, Busy
<1>3. Held /\ Refusing
  BY ResetIs, ReadingIs DEF Init, Held, Refusing, Deciding
<1> QED BY <1>1, <1>2, <1>3 DEF InOrder

LEMMA SerialStep ==
    ASSUME AnyInv, SerialInv, [Next]_vars
    PROVE  SerialInv'
<1> SUFFICES ASSUME ~Overlaps, InOrder PROVE InOrder'
  BY OverlapsKept DEF SerialInv
<1>1. CASE Next
  <2>0. Turns' = Turns
    BY <1>1, SameTurns DEF AnyInv
  <2>1. ASSUME NEW c \in Caller, Ask(c) PROVE InOrder'
    BY <2>0, <2>1, SendInOrder, WaitInOrder DEF Ask
  <2>2. ASSUME ReadLoop PROVE InOrder'
    BY <2>0, <2>2, ReadInOrder, HandleInOrder, SuppressInOrder, EndInOrder DEF ReadLoop
  <2> QED BY <1>1, <2>0, <2>1, <2>2, CliInOrder, StopInOrder, EndInOrder DEF Next
<1>2. CASE UNCHANGED vars
  <2>1. Turns' = Turns /\ Own'
    BY <1>2, OwnKept DEF vars, InOrder, Turns
  <2>2. Pipe'
    BY <1>2, PipeKept DEF vars, env, InOrder, Pipe, Handling, Deciding, Busy
  <2>3. Held' /\ Refusing'
    BY <1>2 DEF vars, env, InOrder, Held, Deciding, Refusing
  <2> QED BY <2>1, <2>2, <2>3 DEF InOrder
<1> QED BY <1>1, <1>2

LEMMA SerialAlways == Spec => [](AnyInv /\ SerialInv)
BY AnyInit, AnyStep, SerialInit, SerialStep, PTL DEF Spec

\* Whoever takes turns with the others is answered with its own prompt's result,
\* unless a turn was left with a wakeup to come.
THEOREM AnsweredRight == Spec => []OwnAnswer
<1>1. AnyInv /\ SerialInv => OwnAnswer
  BY DEF SerialInv, InOrder, Own, OwnAnswer
<1> QED BY <1>1, SerialAlways, PTL
-----------------------------------------------------------------------------
(* Where turns follow one another.                                            *)

\* What has once been out of order stays so.
LEMMA DistinctBefore ==
    ASSUME AnyInv, [Next]_vars, Distinct'
    PROVE  Distinct
<1>1. ~Overlaps
  BY OverlapsKept DEF Distinct
<1>2. abandoned \subseteq abandoned' /\ (stopping => stopping') /\ (cb.stale => cb'.stale)
  <2>1. CASE \E c \in Caller : Ask(c)
    BY <2>1 DEF Ask, SendMessage, WaitForTurn, CancelWait
  <2>2. CASE Cli \/ Stop \/ UNCHANGED vars
    <3>1. UNCHANGED abandoned /\ UNCHANGED cb
      BY <2>2 DEF Cli, CliTakes, CliContinues, CliSchedules, CliApiError, CliResult, Stop, vars
    <3>2. stopping => stopping'
      BY <2>2 DEF Cli, CliTakes, CliContinues, CliSchedules, CliApiError, CliResult, Stop, vars
    <3> QED BY <3>1, <3>2
  <2>3. CASE ReadLoop
    <3>1. UNCHANGED <<stopping, cb, strays>>
      BY <2>3 DEF ReadLoop, ReadWakeup, ReadSynthetic, RecordTransient, ReadResult,
         ConsumeTransient, SnapshotWakeup, ReadTurnNumber, TakeUsage, Suppress, CheckLimits,
         ReadLoopCompletes, ReadLoopAnnounces
    <3>2. abandoned \subseteq abandoned'
      BY <2>3 DEF ReadLoop, ReadWakeup, ReadSynthetic, RecordTransient, ReadResult,
         ConsumeTransient, SnapshotWakeup, ReadTurnNumber, TakeUsage, Suppress, CheckLimits,
         ReadLoopCompletes, ReadLoopAnnounces
    <3> QED BY <3>1, <3>2
  <2>4. CASE SafetyTimer
    <3>1. UNCHANGED <<stopping, abandoned>>
      BY <2>4 DEF SafetyTimer, TimerFires, TimerTakesOver, TimerCompletes, TimerAnnounces,
         Strays, StrayFires, StrayTakesOver, StrayCompletes, StrayAnnounces
    <3>2. ASSUME Strays PROVE cb.stale => cb'.stale
      BY <3>2, StrayDoes DEF AnyInv, Astray, StrayWaits, StrayTakes, StrayEnds, StrayTells
    <3>3. cb.stale => cb'.stale
      BY <2>4, <3>2, TimerFiresDoes, TimerTakesOverDoes, TimerCompletesDoes, TimerAnnouncesDoes
         DEF AnyInv, SafetyTimer, TakesOver, LooksAway
    <3> QED BY <3>1, <3>3
  <2> QED BY <2>1, <2>2, <2>3, <2>4 DEF Next
<1> QED BY <1>1, <1>2 DEF Distinct

\* Then all that is under way is the current turn's.
LEMMA AllCurrent ==
    ASSUME AnyInv, InOrder, Distinct
    PROVE  /\ cur \in Nat /\ wake.tool \in Nat /\ (cur > 0 => cur \in Turns /\ lastWakeup[cur] \in Nat)
           /\ cli.turn \in {0, cur} /\ cli.wakeups \in {{}, {cur}}
           /\ out \in Seq(Item) /\ Len(out) \in Nat /\ (out = <<>> <=> Len(out) = 0)
           /\ prompts # <<>> => out = <<>> /\ cli.turn = 0 /\ ~Busy /\ ~Handling
           /\ Busy => rl.n = cur /\ cur > 0
           /\ Handling => Busy
           /\ Deciding => Handling /\ ~wake.active /\ timer = NoTimer /\ ResultTurn = cur
           /\ cli.scheduled \in BOOLEAN
<1>1. Ours = {cur}
  BY DEF Distinct, Ours
<1>2. cur \in Nat /\ wake.tool \in Nat /\ (cur > 0 => cur \in Turns /\ lastWakeup[cur] \in Nat)
  BY Numbers, Fields DEF AnyInv, Shape
<1>3. cli.turn \in {0, cur} /\ cli.wakeups \in {{}, {cur}}
  BY <1>1 DEF InOrder, Pipe
<1>4. out \in Seq(Item) /\ Len(out) \in Nat /\ (out = <<>> <=> Len(out) = 0)
  <2>1. out \in Seq(Item)
    BY DEF AnyInv, Shape
  <2> QED BY <2>1, Empty
<1>5. (Handling => Busy) /\ (Deciding => Handling)
  BY DEF Handling, Busy, Deciding
<1>6. prompts # <<>> => out = <<>> /\ cli.turn = 0 /\ ~Busy
  BY DEF InOrder, Pipe
<1>7. Busy => rl.n = cur /\ cur > 0
  BY DEF InOrder, Pipe, AnyInv, Bounded
<1>8. Deciding => ~wake.active /\ timer = NoTimer
  BY DEF AnyInv, Timed
<1>9. Deciding => ResultTurn = cur
  BY <1>5, <1>7 DEF InOrder, Held, ResultTurn
<1> QED BY <1>2, <1>3, <1>4, <1>5, <1>6, <1>7, <1>8, <1>9, Fields DEF AnyInv

LEMMA CliLinked ==
    ASSUME AnyInv, InOrder, Distinct, Linked, Cli
    PROVE  Linked'
<1>1. UNCHANGED Session
  BY CliTakesDoes, CliContinuesDoes, CliSchedulesDoes, CliApiErrorDoes, CliResultDoes
     DEF Cli, AnyInv
<1>2. /\ Fresh' = Fresh /\ Handling' = Handling /\ Over' = Over /\ Busy' = Busy
      /\ Deciding' = Deciding
  BY <1>1 DEF Session, Fresh, Handling, Over, Busy, Deciding
<1>3. Decides' /\ Late'
  BY <1>1, <1>2 DEF Linked, Decides, Late, Session, MaxTurnsReached
<1>4. SUFFICES Chain' /\ (More => More') /\ (Over /\ ~wake.fired => ~More')
  <2> SUFFICES ASSUME More => More', Over /\ ~wake.fired => ~More' PROVE Completing'
    BY <1>3 DEF Linked
  <2>1. UNCHANGED <<cur, results, wake, rl, cb, strays, completions>> /\ Turns' = Turns
    BY <1>1 DEF Session, Turns
  <2> HIDE DEF More
  <2> QED BY <1>2, <2>1 DEF Linked, Completing
<1>5. CASE CliTakes
  <2>1. /\ prompts # <<>> /\ cli'.turn = prompts[1] /\ prompts' = Tail(prompts)
        /\ UNCHANGED out /\ cli'.wakeups = cli.wakeups /\ cli'.scheduled = FALSE
    BY <1>5, CliTakesDoes DEF AnyInv
  <2>2. /\ Len(prompts) = 1 /\ cli'.turn = cur /\ out = <<>> /\ cli.turn = 0 /\ ~Handling
        /\ prompts \in Seq(Nat)
    BY <2>1, AllCurrent DEF InOrder, Pipe, AnyInv, Shape
  <2>3. prompts' = <<>>
    <3>1. Len(prompts') = 0 /\ prompts' \in Seq(Nat)
      BY <2>1, <2>2, Shifted
    <3> QED BY <3>1, Empty
  <2>4. cli.wakeups = {} /\ ~Over /\ ~Fresh
    BY <2>1, <2>2 DEF Linked, Chain
  <2>5. cur > 0
    <3>1. 1 \in 1 .. Len(prompts)
      BY <2>2
    <3> QED BY <2>1, <2>2, <3>1, AllCurrent DEF AnyInv, Bounded
  <2>6. Chain'
    <3>1. cur' > 0 => wake'.tool <= lastWakeup'[cur']
      BY <1>1 DEF Session, Linked, Chain
    <3>2. cli'.turn # 0 /\ Len(out') = 0
      BY <2>1, <2>2, <2>5, AllCurrent
    <3> QED BY <1>2, <2>1, <2>2, <2>3, <2>4, <3>1, <3>2 DEF Chain
  <2>7. More'
    BY <2>2, <2>5 DEF More
  <2> QED BY <2>4, <2>6, <2>7
<1>6. CASE CliContinues
  <2>1. /\ UNCHANGED <<out, prompts>> /\ prompts = <<>> /\ cli'.turn \in cli.wakeups
        /\ cli'.wakeups = cli.wakeups \ {cli'.turn} /\ cli'.scheduled = FALSE /\ cli.turn = 0
    BY <1>6, CliContinuesDoes DEF AnyInv
  <2>2. cli'.turn = cur /\ cli.wakeups = {cur} /\ cli'.wakeups = {} /\ cli'.turn # 0
    BY <2>1, AllCurrent DEF AnyInv, Bounded
  <2>3. More /\ More'
    BY <2>2 DEF More
  <2>4. Chain'
    <3>1. cur' > 0 => wake'.tool <= lastWakeup'[cur']
      BY <1>1 DEF Session, Linked, Chain
    <3>2. \A i \in 1 .. Len(out') : out'[i].kind = "result" => Announced(i)'
      BY <1>2, <2>1, <2>2 DEF Linked, Chain, Announced
    <3>3. out' = <<>> => ~(Fresh /\ ~Handling)
      BY <2>1, <2>2 DEF Linked, Chain
    <3>4. /\ Handling => (Fresh <=> More)
          /\ Fresh /\ ~Handling /\ out # <<>> => out[1].kind = "result"
      BY DEF Linked, Chain
    <3> HIDE DEF Announced, More
    <3> QED BY <1>2, <2>1, <2>2, <2>3, <3>1, <3>2, <3>3, <3>4 DEF Chain
  <2> QED BY <2>3, <2>4 DEF Linked, Completing
<1>7. CASE CliSchedules \/ CliApiError \/ CliResult
  <2>1. PICK m :
          /\ Prints(m) /\ UNCHANGED prompts
          /\ \/ /\ m.kind = "wakeup" /\ cli'.turn = cli.turn /\ ~cli.scheduled /\ cli'.scheduled = TRUE
                /\ cli'.wakeups = cli.wakeups \cup {cli.turn} /\ ~cli.failing
             \/ /\ m.kind = "synthetic" /\ cli'.turn = cli.turn /\ cli'.scheduled = cli.scheduled
                /\ cli'.wakeups = cli.wakeups /\ ~cli.scheduled /\ ~cli.failing
             \/ /\ m.kind = "result" /\ cli'.turn = 0 /\ cli'.wakeups = cli.wakeups
    <3>1. CASE CliSchedules
      BY <3>1, CliSchedulesDoes DEF AnyInv
    <3>2. CASE CliApiError
      BY <3>2, CliApiErrorDoes DEF AnyInv
    <3>3. CASE CliResult
      BY <3>3, CliResultDoes DEF AnyInv
    <3> QED BY <1>7, <3>1, <3>2, <3>3
  <2>2. /\ out' \in Seq(Item) /\ Len(out') = Len(out) + 1 /\ out' # <<>> /\ out'[Len(out')] = m
        /\ \A i \in 1 .. Len(out) : out'[i] = out[i]
        /\ m.of = cli.turn /\ cli.turn # 0 /\ Len(out) \in Nat
    BY <2>1, AllCurrent, Appended DEF Prints
  <2>3. More /\ More'
    BY <2>2 DEF More
  <2>4. /\ prompts' = <<>> /\ cli.turn = cur
        /\ cur > 0 => wake.tool <= lastWakeup[cur]
        /\ Handling => (Fresh <=> More)
    BY <2>1, <2>2, AllCurrent DEF Linked, Chain
  <2>5. \A i \in 1 .. Len(out) : out[i].kind = "result" => Announced(i)
    BY <2>2 DEF Linked, Chain
  <2>6. \A i \in 1 .. Len(out) : Announced(i)' = Announced(i)
    <3> TAKE i \in 1 .. Len(out)
    <3>1. CASE i = 1
      BY <1>2, <3>1 DEF Announced
    <3>2. CASE i # 1
      <4>1. i - 1 \in 1 .. Len(out)
        BY <2>2, <3>2
      <4> QED BY <2>2, <3>2, <4>1 DEF Announced
    <3> QED BY <3>1, <3>2
  <2>7. \A i \in 1 .. Len(out') :
           i = Len(out') /\ m.kind = "result" => (Announced(i)' <=> cli.wakeups # {})
    <3> TAKE i \in 1 .. Len(out')
    <3> HAVE i = Len(out') /\ m.kind = "result"
    <3>1. cli.scheduled <=> cli.wakeups # {}
      BY <2>2 DEF Linked, Chain
    <3>2. CASE out = <<>>
      <4>1. cli.scheduled <=> Fresh /\ ~Handling
        BY <2>2, <3>2 DEF Linked, Chain
      <4>2. i = 1
        BY <2>2, <3>2, AllCurrent
      <4> QED BY <1>2, <3>1, <4>1, <4>2 DEF Announced
    <3>3. CASE out # <<>>
      <4>1. out[Len(out)].kind = "wakeup" <=> cli.scheduled
        BY <2>2, <3>3 DEF AnyInv, Printed
      <4>2. i # 1 /\ i - 1 = Len(out) /\ Len(out) \in 1 .. Len(out)
        BY <2>2, <3>3, AllCurrent
      <4>3. out'[i - 1] = out[Len(out)]
        BY <2>2, <4>2
      <4> QED BY <3>1, <4>1, <4>2, <4>3 DEF Announced
    <3> QED BY <3>2, <3>3
  <2>8. \A i \in 1 .. Len(out') : out'[i].kind = "result" =>
           (Announced(i)' <=> i < Len(out') \/ cli'.turn # 0 \/ cli'.wakeups # {})
    <3> TAKE i \in 1 .. Len(out')
    <3> HAVE out'[i].kind = "result"
    <3>1. CASE i \in 1 .. Len(out)
      <4>1. i < Len(out') /\ out[i].kind = "result"
        BY <2>2, <3>1
      <4> QED BY <2>5, <2>6, <3>1, <4>1
    <3>2. CASE i = Len(out')
      <4>1. m.kind = "result" /\ cli'.turn = 0 /\ cli'.wakeups = cli.wakeups
        BY <2>1, <2>2, <3>2
      <4> QED BY <2>7, <3>2, <4>1
    <3> QED BY <2>2, <3>1, <3>2
  <2>9. cli'.turn # 0 => (cli'.scheduled <=> cli'.wakeups # {})
    BY <2>1, <2>2 DEF Linked, Chain
  <2>10. Fresh /\ ~Handling => out'[1].kind = "result"
    <3> HAVE Fresh /\ ~Handling
    <3>1. CASE out # <<>>
      <4>1. 1 \in 1 .. Len(out)
        BY <3>1, AllCurrent
      <4> QED BY <2>2, <3>1, <4>1 DEF Linked, Chain
    <3>2. CASE out = <<>>
      <4>1. cli.scheduled
        BY <2>2, <3>2 DEF Linked, Chain
      <4>2. out'[1] = m
        BY <2>2, <3>2, AllCurrent
      <4> QED BY <2>1, <4>1, <4>2
    <3> QED BY <3>1, <3>2
  <2>11. Chain'
    <3>1. /\ cur' = cur /\ lastWakeup' = lastWakeup /\ wake' = wake
      BY <1>1 DEF Session
    <3> HIDE DEF Announced, More
    <3> QED BY <1>2, <2>2, <2>3, <2>4, <2>8, <2>9, <2>10, <3>1 DEF Chain
  <2> QED BY <2>3, <2>11 DEF Linked, Completing
<1> QED BY <1>5, <1>6, <1>7 DEF Cli

LEMMA ChainKept ==
    ASSUME Chain, UNCHANGED <<cur, lastWakeup, prompts, cli, out>>, wake'.tool = wake.tool,
           Handling' = Handling, prompts # <<>> => (Over' => Over)
    PROVE  Chain'
<1>1. Fresh' = Fresh
  BY DEF Fresh
<1>2. \A i : Announced(i)' = Announced(i)
  BY <1>1 DEF Announced
<1> HIDE DEF Fresh, Announced, Handling
<1> QED BY <1>1, <1>2 DEF Chain, More

LEMMA SendLinked ==
    ASSUME AnyInv, InOrder, Distinct, Linked, Distinct', NEW c \in Caller, SendMessage(c)
    PROVE  Linked' /\ ~wake.active /\ ~More /\ rl.pc \in {"read", "announce"}
<1>1. /\ cur' = cur + 1 /\ cur + 1 \in Turns /\ wake' = NoWake /\ timer' = NoTimer
      /\ abandoned' = abandoned \cup cli.wakeups
      /\ UNCHANGED <<lastWakeup, results, pending, cost, rl, cb, strays, stopping, cli, out,
                     completions, answers>>
      /\ Serial
  <2>1. MaySend => Serial
    BY Fields DEF MaySend, Overlaps, AnyInv, Shape, Events, Distinct
  <2> QED BY <2>1, SendDoes DEF AnyInv
<1>2. cli.wakeups = {} /\ out = <<>> /\ cli.turn = 0 /\ rl.pc \in {"read", "announce"}
  BY <1>1 DEF Serial, Distinct
<1>3. ~More /\ ~wake.active /\ cur \in Nat
  BY <1>2, AllCurrent DEF More, Linked, Completing, AnyInv, Timed
<1>4. ~results[cur + 1].done /\ lastWakeup[cur + 1] = 0
  BY <1>1, <1>3 DEF AnyInv, Untouched
<1>5. ~Over'
  <2>1. cb.turn \in Nat /\ cb.turn <= cur
    BY Fields DEF AnyInv, Bounded
  <2> QED BY <1>1, <1>3, <1>4, <2>1 DEF Over
<1>6. ~Fresh' /\ ~Handling' /\ ~Deciding' /\ ~More' /\ Len(out') = 0
  BY <1>1, <1>2, <1>3, <1>4, ResetIs, AllCurrent DEF Fresh, Handling, Deciding, More
<1>7. Chain'
  BY <1>1, <1>2, <1>3, <1>4, <1>5, <1>6, ResetIs DEF Chain
<1>8. Completing'
  <2>1. cb.pc = "complete" => cb.turn \in 1 .. (cur + 1) /\ ~results[cb.turn].done
    BY <1>3 DEF Linked, Completing
  <2>2. Turns' = Turns
    BY <1>1 DEF Turns
  <2> QED BY <1>1, <1>5, <2>1, <2>2, ResetIs DEF Linked, Completing
<1>9. Decides'
  BY <1>1, <1>2, <1>6 DEF Linked, Decides
<1>10. Late'
  BY <1>1, <1>2, <1>4, ResetIs DEF Late
<1> QED BY <1>2, <1>3, <1>7, <1>8, <1>9, <1>10 DEF Linked

\* What the callers alone touch.
LEMMA LinkedKept ==
    ASSUME Linked,
           UNCHANGED <<cur, lastWakeup, results, wake, timer, cost, rl, cb, env, completions>>
    PROVE  Linked'
<1>1. Turns' = Turns /\ Handling' = Handling /\ Over' = Over /\ Fresh' = Fresh /\ More' = More
      /\ Deciding' = Deciding /\ Busy' = Busy
  BY DEF Turns, Handling, Deciding, Over, Fresh, More, env, Busy
<1>2. Chain'
  BY <1>1, ChainKept DEF Linked, env
<1>3. Completing'
  BY <1>1 DEF Linked, Completing
<1>4. Decides' /\ Late'
  BY <1>1 DEF Linked, Decides, Late, MaxTurnsReached
<1> QED BY <1>2, <1>3, <1>4 DEF Linked

LEMMA ReadLinked ==
    ASSUME AnyInv, InOrder, Distinct, Linked, ReadWakeup \/ ReadSynthetic \/ ReadResult
    PROVE  Linked'
<1>1. cur \in Nat
  BY Numbers DEF AnyInv
<1>2. PICK kind :
         /\ Reads(kind)
         /\ \/ /\ kind = "wakeup" /\ rl' = rl
               /\ lastWakeup' = [lastWakeup EXCEPT ![cur] = out[1].id]
            \/ /\ kind = "synthetic" /\ rl'.pc = "synthetic" /\ UNCHANGED lastWakeup
               /\ rl'.counted = rl.counted
            \/ /\ kind = "result" /\ rl'.pc = "consume" /\ UNCHANGED lastWakeup
               /\ rl'.counted = rl.counted
  <2>1. CASE ReadWakeup
    BY <2>1, ReadWakeupDoes DEF AnyInv
  <2>2. CASE ReadSynthetic
    BY <1>1, <2>2, ReadSyntheticDoes DEF AnyInv
  <2>3. CASE ReadResult
    BY <1>1, <2>3, ReadResultDoes DEF AnyInv
  <2> QED BY <2>1, <2>2, <2>3
<1>3. /\ out # <<>> /\ out' = Tail(out) /\ out[1].kind = kind /\ out[1] \in Item
      /\ UNCHANGED <<cur, results, caller, pending, wake, timer, cost, cb, strays, stopping,
                     prompts,
                     cli, completions, answers, abandoned, left>>
      /\ rl.pc = "read" /\ ~Handling /\ ~Deciding /\ ~Busy /\ prompts = <<>>
  BY <1>2, AllCurrent DEF Reads, Handling, Deciding, Busy
<1>4. /\ out' \in Seq(Item) /\ Len(out') = Len(out) - 1 /\ Len(out) \in Nat
      /\ \A i \in 1 .. Len(out') : out'[i] = out[i + 1] /\ i + 1 \in 1 .. Len(out)
      /\ 1 \in 1 .. Len(out)
      /\ (out' = <<>>) <=> (Len(out') = 0)
  <2>1. out \in Seq(Item)
    BY DEF AnyInv, Shape
  <2>2. /\ out' \in Seq(Item) /\ Len(out') = Len(out) - 1 /\ Len(out) \in Nat
        /\ \A i \in 1 .. Len(out') : out'[i] = out[i + 1] /\ i + 1 \in 1 .. Len(out)
        /\ 1 \in 1 .. Len(out)
    BY <1>3, <2>1, Shifted
  <2>3. (out' = <<>>) <=> (Len(out') = 0)
    BY <2>2, Empty
  <2> QED BY <2>2, <2>3
<1>5. cur > 0 /\ cur \in Turns /\ lastWakeup[cur] \in Nat /\ wake.tool \in Nat
  <2>1. out[1].of \in 1 .. cur
    BY <1>4 DEF AnyInv, Bounded
  <2> QED BY <1>1, <2>1, AllCurrent
<1>6. /\ kind # "result" => (out' # <<>> => out'[1].kind = "result")
      /\ kind # "result" => out' # <<>> \/ cli.turn # 0
      /\ out' = <<>> /\ cli.turn # 0 => (kind = "wakeup" <=> cli.scheduled)
  <2>1. CASE out' = <<>>
    <3>1. Len(out) = 1
      BY <1>4, <2>1
    <3> QED BY <1>3, <2>1, <3>1 DEF AnyInv, Printed
  <2>2. CASE out' # <<>>
    <3>1. out'[1] = out[2] /\ 1 < Len(out)
      BY <1>4, <2>2
    <3> QED BY <1>3, <1>4, <2>2, <3>1 DEF AnyInv, Printed
  <2> QED BY <2>1, <2>2
<1>7. /\ kind = "wakeup" => lastWakeup'[cur] = out[1].id
      /\ kind = "wakeup" => lastWakeup'[cur] > wake.tool /\ lastWakeup'[cur] > cb.wakeup
                            /\ lastWakeup'[cur] \in Nat
      /\ kind # "wakeup" => lastWakeup' = lastWakeup
  <2>1. out[1].id \in Nat
    BY <1>3 DEF Item
  <2>2. kind = "wakeup" => lastWakeup'[cur] = out[1].id
    BY <1>2, <1>5 DEF AnyInv, Shape
  <2>3. kind = "wakeup" => wake.tool < out[1].id /\ cb.wakeup < out[1].id
    BY <1>3, <1>4 DEF AnyInv, Numbered, Newer
  <2> QED BY <1>2, <2>1, <2>2, <2>3, <1>5, Fields DEF AnyInv
<1>8. /\ kind = "wakeup" => Fresh' /\ ~Handling'
      /\ kind = "synthetic" => ~Fresh' /\ ~Fresh /\ ~Handling'
      /\ kind = "result" => Fresh' = Fresh /\ Handling' /\ (Fresh <=> More')
      /\ Over' = Over /\ More /\ ~Deciding'
  <2>1. kind = "wakeup" => Fresh' /\ ~Handling' /\ ~Deciding'
    BY <1>2, <1>3, <1>5, <1>7 DEF Fresh, Handling, Deciding
  <2>2. kind = "synthetic" => ~Fresh' /\ ~Fresh /\ ~Handling' /\ ~Deciding'
    BY <1>2, <1>3 DEF Fresh, Handling, Deciding, Linked, Chain
  <2>3. kind = "result" => Fresh' = Fresh /\ Handling' /\ ~Deciding'
    BY <1>2, <1>3 DEF Fresh, Handling, Deciding
  <2>4. kind = "result" => (Fresh <=> More')
    <3>1. kind = "result" => (Announced(1) <=> 1 < Len(out) \/ cli.turn # 0 \/ cli.wakeups # {})
      BY <1>3, <1>4 DEF Linked, Chain
    <3>2. 1 < Len(out) <=> out' # <<>>
      BY <1>4
    <3> QED BY <1>3, <3>1, <3>2 DEF Announced, More
  <2>5. Over' = Over /\ More
    BY <1>3 DEF Over, More
  <2>6. kind \in {"wakeup", "synthetic", "result"}
    BY <1>2
  <2> QED BY <2>1, <2>2, <2>3, <2>4, <2>5, <2>6
<1>9. Chain'
  <2>1. \A i \in 1 .. Len(out') : out'[i].kind = "result" =>
           (Announced(i)' <=> i < Len(out') \/ cli'.turn # 0 \/ cli'.wakeups # {})
    <3> TAKE i \in 1 .. Len(out')
    <3> HAVE out'[i].kind = "result"
    <3>1. out'[i] = out[i + 1] /\ i + 1 \in 1 .. Len(out) /\ i + 1 # 1 /\ (i + 1) - 1 = i
      BY <1>4
    <3>2. Announced(i + 1) <=> i + 1 < Len(out) \/ cli.turn # 0 \/ cli.wakeups # {}
      BY <3>1 DEF Linked, Chain
    <3>3. Announced(i + 1) <=> out[i].kind = "wakeup"
      BY <3>1 DEF Announced
    <3>4. Announced(i)' <=> out[i].kind = "wakeup"
      <4>1. CASE i = 1
        BY <4>1, <1>2, <1>3, <1>8 DEF Announced
      <4>2. CASE i # 1
        <5>1. i - 1 \in 1 .. Len(out') /\ (i - 1) + 1 = i
          BY <4>2, <1>4
        <5>2. out'[i - 1] = out[i]
          BY <1>4, <5>1
        <5> QED BY <4>2, <5>2 DEF Announced
      <4> QED BY <4>1, <4>2
    <3>5. i < Len(out') <=> i + 1 < Len(out)
      BY <1>4
    <3> QED BY <1>3, <3>2, <3>3, <3>4, <3>5
  <2>2. cli'.turn # 0 => /\ cli'.scheduled <=> cli'.wakeups # {}
                         /\ out' = <<>> => (cli'.scheduled <=> Fresh' /\ ~Handling')
    BY <1>2, <1>3, <1>6, <1>8 DEF Linked, Chain
  <2>3. Handling' => (Fresh' <=> More')
    BY <1>2, <1>8
  <2>4. ~Handling' /\ out' = <<>> /\ cli'.turn = 0 => ~Fresh'
    BY <1>2, <1>3, <1>6, <1>8
  <2>5. Fresh' /\ ~Handling' /\ out' # <<>> => out'[1].kind = "result"
    BY <1>2, <1>6, <1>8
  <2>6. cur' > 0 => wake'.tool <= lastWakeup'[cur']
    BY <1>3, <1>5, <1>7 DEF Linked, Chain
  <2> HIDE DEF Announced, Fresh, Handling, More
  <2> QED BY <1>3, <2>1, <2>2, <2>3, <2>4, <2>5, <2>6 DEF Chain
<1>10. Completing'
  <2>1. wake'.active /\ rl'.pc \in {"read", "synthetic"} => More'
    BY <1>2, <1>3, <1>6 DEF More
  <2>2. Turns' = Turns
    BY SameTurns DEF Next, ReadLoop, AnyInv
  <2>3. wake'.fired => rl'.pc # "announce" /\ ~Deciding'
    BY <1>2, <1>3, <1>8
  <2>4. Over => wake.fired
    BY <1>8 DEF Linked, Completing
  <2> QED BY <1>3, <1>8, <2>1, <2>2, <2>3, <2>4 DEF Linked, Completing
<1>11. Decides'
  BY <1>2, <1>3, <1>8 DEF Linked, Decides
<1>12. Late'
  <2>1. /\ rl'.pc \notin {"suppress", "limits", "complete"}
        /\ rl'.pc \notin {"number", "usage"} /\ rl.pc \notin {"number", "usage"}
    BY <1>2, <1>3
  <2>2. ASSUME cb.pc = "lock", lastWakeup'[cur] # 0
        PROVE  /\ cb.wakeup <= lastWakeup'[cur]
               /\ cb.wakeup = lastWakeup'[cur] => wake.tool = cb.wakeup
    BY <1>5, <1>7, <2>2, Fields DEF Linked, Late, AnyInv
  <2> QED BY <1>3, <2>1, <2>2 DEF Linked, Late
<1> QED BY <1>9, <1>10, <1>11, <1>12 DEF Linked

\* The steps of handleResult that leave the suppression as it is.
LEMMA LocalsLinked ==
    ASSUME AnyInv, InOrder, Distinct, Linked,
           RecordTransient \/ ConsumeTransient \/ ReadTurnNumber \/ CheckLimits
    PROVE  Linked'
<1>1. cur \in Nat /\ cost \in Nat
  BY Numbers DEF AnyInv, Shape
<1>2. /\ UNCHANGED <<cur, lastWakeup, results, wake, timer, cb, strays, env, completions>>
      /\ Turns' = Turns
  BY <1>1, RecordTransientDoes, ConsumeTransientDoes, ReadTurnNumberDoes, CheckLimitsDoes
     DEF AnyInv, Turns
<1>3. /\ Busy /\ rl.pc # "announce" /\ rl.n = cur
      /\ \/ rl.pc = "synthetic" /\ rl' = Reading /\ UNCHANGED cost
         \/ rl.pc = "consume" /\ rl'.pc = "snapshot" /\ rl'.counted = rl.counted /\ UNCHANGED cost
         \/ /\ rl.pc = "number" /\ rl'.pc = "usage" /\ rl'.n = cur /\ rl'.counted = rl.counted
            /\ rl'.suppressed = rl.suppressed /\ rl'.tool = rl.tool /\ UNCHANGED cost
         \/ /\ rl.pc = "limits" /\ rl'.pc = "complete" /\ rl'.n = rl.n /\ rl'.counted = rl.counted
            /\ rl'.suppressed = rl.suppressed /\ rl'.tool = rl.tool /\ rl'.usage = rl.usage
            /\ cost' = (IF rl.counted THEN cost ELSE cost + 1)
            /\ rl'.err = (rl.err \/ MaxTurnsReached \/ OverBudget(cost'))
  <2>1. CASE RecordTransient
    BY <2>1, RecordTransientDoes, AllCurrent DEF AnyInv, Busy
  <2>2. CASE ConsumeTransient
    BY <2>2, ConsumeTransientDoes, AllCurrent DEF AnyInv, Busy
  <2>3. CASE ReadTurnNumber
    BY <1>1, <2>3, ReadTurnNumberDoes, AllCurrent DEF AnyInv, Busy
  <2>4. CASE CheckLimits
    BY <2>4, CheckLimitsDoes, AllCurrent DEF AnyInv, Busy, Keeps
  <2> QED BY <2>1, <2>2, <2>3, <2>4
<1>4. /\ Handling' = Handling /\ Over' = Over /\ Fresh' = Fresh /\ More' = More
      /\ Deciding' = Deciding
      /\ rl'.pc \notin {"announce", "suppress"}
      /\ rl'.pc \in {"read", "synthetic"} => rl.pc = "synthetic"
  <2>1. Over' = Over /\ Fresh' = Fresh /\ More' = More
    BY <1>2 DEF Over, Fresh, More, env
  <2>2. CASE rl.pc = "synthetic"
    BY <1>3, <2>1, <2>2, ReadingIs DEF Handling, Deciding
  <2>3. CASE rl.pc # "synthetic"
    BY <1>3, <2>1, <2>3 DEF Handling, Deciding
  <2> QED BY <2>2, <2>3
<1>5. Chain'
  BY <1>2, <1>4, ChainKept DEF Linked, env
<1>6. Completing'
  <2>1. wake.active /\ rl'.pc \in {"read", "synthetic"} => More
    BY <1>4 DEF Linked, Completing
  <2>2. Over /\ ~wake.fired => ~More /\ ~Busy'
    BY <1>3 DEF Linked, Completing
  <2> HIDE DEF Over, More, Deciding, Busy
  <2> QED BY <1>2, <1>4, <2>1, <2>2 DEF Linked, Completing
<1>7. Decides'
  <2>1. CASE rl.pc = "synthetic"
    BY <1>3, <1>4, <2>1, ReadingIs DEF Linked, Decides, Deciding
  <2>2. CASE rl.pc = "consume"
    BY <1>3, <1>4, <2>2 DEF Linked, Decides, Deciding
  <2>3. CASE rl.pc = "number"
    <3>1. ~rl.counted /\ ~rl'.counted /\ Deciding
      BY <1>3, <2>3 DEF Linked, Decides, Deciding
    <3> QED BY <1>2, <1>3, <1>4, <2>3, <3>1 DEF Linked, Decides
  <2>4. CASE rl.pc = "limits"
    <3>1. /\ Deciding /\ rl'.pc = "complete" /\ rl'.n = rl.n /\ rl'.counted = rl.counted
          /\ rl'.err = (rl.err \/ MaxTurnsReached \/ OverBudget(cost'))
          /\ rl.counted => cost' = cost
          /\ rl'.suppressed = rl.suppressed /\ rl'.tool = rl.tool
      BY <1>3, <2>4 DEF Deciding
    <3>2. rl.counted => lastWakeup[rl.n] # 0 /\ rl'.err
      BY <2>4, <3>1 DEF Linked, Decides
    <3>3. ~Fresh \/ rl'.err
      BY <2>4, <3>1, <3>2 DEF Linked, Decides
    <3>4. ~rl.counted => wake.tool = IF rl.suppressed THEN rl.tool ELSE 0
      BY <3>1 DEF Linked, Decides
    <3> HIDE DEF OverBudget, MaxTurnsReached, Fresh
    <3> QED BY <1>2, <1>4, <3>1, <3>2, <3>3, <3>4 DEF Decides
  <2> QED BY <1>3, <2>1, <2>2, <2>3, <2>4
<1>8. Late'
  <2>1. rl'.pc \in {"suppress", "limits", "complete"} => rl'.usage > 0
    BY <1>3, ReadingIs DEF Linked, Late
  <2>2. ~wake.active /\ rl'.pc \notin {"number", "usage"} => wake.usage = 0
    BY <1>3 DEF Linked, Late
  <2> QED BY <1>2, <2>1, <2>2 DEF Linked, Late
<1> QED BY <1>5, <1>6, <1>7, <1>8 DEF Linked

LEMMA SnapshotLinked ==
    ASSUME AnyInv, InOrder, Distinct, Linked, Distinct', SnapshotWakeup
    PROVE  Linked'
<1>1. /\ UNCHANGED <<cur, lastWakeup, results, caller, pending, cost, cb, strays, stopping,
                     env, completions, answers, left>>
      /\ Swallows \/ Ends
  BY SnapshotDoes DEF AnyInv
<1>2. /\ timer' = NoTimer /\ wake' \in Wake /\ ~wake'.active /\ ~wake'.fired
      /\ wake'.turn = wake.turn /\ wake'.tool = wake.tool /\ wake'.usage = wake.usage
      /\ rl.pc = "snapshot" /\ Handling /\ Busy /\ ~Deciding /\ Turns' = Turns
  BY <1>1 DEF Swallows, Ends, Handling, Busy, Deciding, Turns
<1>3. prompts = <<>> /\ cur > 0 /\ ~rl.counted /\ (Fresh <=> More)
  BY <1>2, AllCurrent DEF Linked, Chain, Decides
<1>4. Over' = Over /\ Fresh' = Fresh /\ More' = More
  BY <1>1, <1>2 DEF Over, Fresh, More, env
<1>5. Late'
  <2>1. rl'.pc \notin {"suppress", "limits", "complete"}
    BY <1>1, ReadingIs DEF Swallows, Ends
  <2>2. rl'.pc \notin {"number", "usage"} => wake'.usage = 0
    <3>1. CASE Swallows
      <4>1. ~wake.active /\ rl.pc \notin {"number", "usage"}
        BY <1>2, <3>1 DEF Swallows, Linked, Completing
      <4> QED BY <1>2, <4>1 DEF Linked, Late
    <3>2. CASE Ends
      BY <3>2 DEF Ends
    <3> QED BY <1>1, <3>1, <3>2
  <2> QED BY <1>1, <1>2, <2>1, <2>2 DEF Linked, Late
<1>6. CASE Swallows
  <2>1. Over /\ ~Fresh /\ ~More
    <3>1. Over
      BY <1>6 DEF Swallows, Linked, Completing
    <3>2. abandoned' = {}
      BY DEF Distinct
    <3>3. lastWakeup[cur] = wake.tool
      BY <1>6, <3>2 DEF Swallows
    <3> QED BY <1>3, <3>1, <3>3 DEF Fresh
  <2>2. /\ rl'.pc = "read" /\ ~Handling' /\ ~Busy' /\ ~Deciding' /\ ~rl'.counted
    BY <1>6, ReadingIs DEF Swallows, Handling, Busy, Deciding
  <2>3. out = <<>> /\ cli.turn = 0 /\ cli.wakeups = {} /\ Len(out) = 0
    BY <2>1, AllCurrent DEF More
  <2>4. Chain'
    <3>1. cur > 0 => wake.tool <= lastWakeup[cur]
      BY DEF Linked, Chain
    <3> QED BY <1>1, <1>2, <1>3, <1>4, <2>1, <2>2, <2>3, <3>1 DEF Chain, env
  <2>5. Completing'
    <3>1. /\ cb.pc = "complete" => cb.turn \in 1 .. cur /\ ~results[cb.turn].done
          /\ \A t \in Turns : completions[t].done = IF results[t].done THEN 1 ELSE 0
      BY DEF Linked, Completing
    <3> HIDE DEF Over, More, Deciding, Busy
    <3> QED BY <1>1, <1>2, <1>4, <2>1, <2>2, <3>1 DEF Completing
  <2>6. Decides'
    BY <2>2 DEF Decides
  <2> QED BY <1>5, <2>4, <2>5, <2>6 DEF Linked
<1>7. CASE Ends
  <2>1. /\ rl'.pc = "number" /\ Handling' /\ Busy' /\ Deciding' /\ rl'.counted = rl.counted
        /\ rl'.suppressed = wake.active /\ rl'.tool = wake.tool /\ ~wake.fired
    BY <1>7 DEF Ends, Handling, Busy, Deciding
  <2>2. ~Over
    BY <1>2, <2>1 DEF Linked, Completing
  <2>3. Chain'
    BY <1>1, <1>2, <1>3, <2>1, ChainKept DEF Linked, env
  <2>4. Completing'
    <3>1. /\ cb.pc = "complete" => cb.turn \in 1 .. cur /\ ~results[cb.turn].done
          /\ \A t \in Turns : completions[t].done = IF results[t].done THEN 1 ELSE 0
      BY DEF Linked, Completing
    <3> HIDE DEF Over, More, Deciding, Busy
    <3> QED BY <1>1, <1>2, <1>4, <2>1, <2>2, <3>1 DEF Completing
  <2>5. Decides'
    <3>1. wake.tool = IF wake.active THEN wake.tool ELSE 0
      BY <1>2, <2>2 DEF Linked, Completing
    <3> QED BY <1>2, <1>3, <2>1, <3>1 DEF Decides
  <2> QED BY <1>5, <2>3, <2>4, <2>5 DEF Linked
<1> QED BY <1>1, <1>6, <1>7

LEMMA UsageLinked ==
    ASSUME AnyInv, InOrder, Distinct, Linked, TakeUsage
    PROVE  Linked'
<1>1. /\ rl.pc = "usage" /\ Keeps /\ rl'.counted = rl.counted /\ rl'.err = rl.err
      /\ rl'.pc = (IF Suppresses THEN "suppress" ELSE "limits")
      /\ rl'.usage = 1 + wake.usage
      /\ wake' \in Wake /\ wake'.active = wake.active /\ wake'.fired = wake.fired
      /\ wake'.turn = wake.turn /\ wake'.tool = wake.tool /\ wake'.usage = 0
      /\ UNCHANGED <<cur, lastWakeup, results, caller, pending, timer, cost, cb, strays,
                     stopping,
                     env, completions, answers, abandoned, left>>
  BY TakeUsageDoes DEF AnyInv
<1>2. /\ Handling /\ Busy /\ Deciding /\ Handling' /\ Busy' /\ Deciding' /\ Turns' = Turns
      /\ rl'.pc \in {"suppress", "limits"}
  <2> HIDE DEF Suppresses
  <2> QED BY <1>1 DEF Handling, Busy, Deciding, Turns
<1>3. /\ cur > 0 /\ rl.n = cur /\ ~wake.active /\ timer = NoTimer /\ ~rl.counted
      /\ lastWakeup[cur] \in Nat /\ wake.tool \in Nat
  BY <1>1, <1>2, AllCurrent DEF Linked, Decides
<1>4. Over' = Over /\ Fresh' = Fresh /\ More' = More
  BY <1>1 DEF Over, Fresh, More, env
<1>5. Chain'
  <2>1. UNCHANGED <<cur, lastWakeup, prompts, cli, out>> /\ wake'.tool = wake.tool
    BY <1>1 DEF env
  <2>2. Handling' = Handling /\ Chain
    BY <1>2 DEF Linked, Handling, Deciding
  <2> QED BY <1>4, <2>1, <2>2, ChainKept
<1>6. Completing'
  <2>1. Over /\ ~wake.fired => ~More /\ ~Busy
    BY DEF Linked, Completing
  <2> HIDE DEF Over, More, Deciding, Busy, Suppresses
  <2> QED BY <1>1, <1>2, <1>3, <1>4, <2>1 DEF Linked, Completing
<1>7. Decides'
  <2>1. wake.tool = IF rl.suppressed THEN rl.tool ELSE 0
    BY <1>2, <1>3 DEF Linked, Decides
  <2>2. rl'.pc = "suppress" => Fresh
    <3> HAVE rl'.pc = "suppress"
    <3>1. Suppresses
      <4> HIDE DEF Suppresses
      <4> QED BY <1>1
    <3> QED BY <1>3, <2>1, <3>1 DEF Suppresses, Fresh
  <2>3. rl'.pc = "limits" => ~Fresh \/ rl.err \/ MaxTurnsReached
    <3> HAVE rl'.pc = "limits"
    <3>1. ~Suppresses
      <4> HIDE DEF Suppresses
      <4> QED BY <1>1
    <3>2. lastWakeup[cur] = 0 => wake.tool = 0
      BY <1>3 DEF Linked, Chain
    <3> QED BY <1>3, <2>1, <3>1, <3>2 DEF Suppresses, Fresh
  <2>4. MaxTurnsReached' = MaxTurnsReached /\ rl'.suppressed = rl.suppressed /\ rl'.tool = rl.tool
    BY <1>1 DEF MaxTurnsReached, Keeps
  <2> HIDE DEF Fresh, Suppresses, MaxTurnsReached, Deciding
  <2> QED BY <1>1, <1>2, <1>3, <1>4, <2>1, <2>2, <2>3, <2>4 DEF Decides
<1>8. Late'
  <2>1. rl'.usage > 0
    BY <1>1, Fields DEF AnyInv
  <2> HIDE DEF Suppresses
  <2> QED BY <1>1, <1>3, <2>1 DEF Linked, Late
<1> QED BY <1>5, <1>6, <1>7, <1>8 DEF Linked

LEMMA SuppressLinked ==
    ASSUME AnyInv, InOrder, Distinct, Linked, Suppress
    PROVE  Linked' /\ wake.usage = 0 /\ rl.usage > 0
<1>1. rl.pc = "suppress" /\ Deciding /\ Handling /\ Busy
  BY DEF Suppress, Deciding, Handling, Busy
<1>2. /\ rl.n = cur /\ cur > 0 /\ cur \in Turns /\ lastWakeup[cur] \in Nat /\ wake.tool \in Nat
      /\ ~wake.active /\ timer = NoTimer /\ ResultTurn = cur /\ prompts = <<>>
      /\ lastWakeup[cur] # 0 /\ lastWakeup[cur] # wake.tool /\ Fresh /\ More
      /\ wake.usage = 0 /\ ~wake.fired /\ ~Over /\ rl.usage > 0
  <2>1. rl.n = cur /\ cur > 0 /\ cur \in Turns /\ lastWakeup[cur] \in Nat /\ wake.tool \in Nat
        /\ ~wake.active /\ timer = NoTimer /\ ResultTurn = cur /\ prompts = <<>>
    BY <1>1, AllCurrent
  <2>2. Fresh /\ More /\ lastWakeup[cur] # 0
    BY <1>1, <2>1 DEF Linked, Chain, Decides, AnyInv, Timed
  <2>3. wake.usage = 0 /\ ~wake.fired /\ ~Over /\ rl.usage > 0
    BY <1>1, <2>1 DEF Linked, Completing, Late
  <2> QED BY <2>1, <2>2, <2>3 DEF Fresh
<1>3. /\ cost' = cost + 1
      /\ UNCHANGED <<cur, lastWakeup, results, caller, pending, cb, strays, stopping, env,
                     completions, answers, abandoned, left>>
      /\ GivesUp \/ Waits
  BY <1>2, SuppressDoes DEF AnyInv
<1>4. Over' = Over /\ More' = More /\ Turns' = Turns
  BY <1>3 DEF Over, More, env, Turns
<1>5. \A i \in 1 .. Len(out) : out[i].kind = "result" =>
        (IF i = 1 THEN FALSE ELSE out[i - 1].kind = "wakeup") <=>
            (i < Len(out) \/ cli.turn # 0 \/ cli.wakeups # {})
  BY <1>1 DEF Linked, Chain, Announced
<1>6. cli.turn # 0 => /\ cli.scheduled <=> cli.wakeups # {}
                      /\ out = <<>> => ~cli.scheduled
  BY <1>1 DEF Linked, Chain
<1>7. ~(Fresh' /\ ~Handling') /\ (Handling' => Fresh') /\ wake'.tool <= lastWakeup[cur]
  <2>1. CASE GivesUp
    <3>1. rl'.pc = "limits" /\ wake'.tool = 0
      BY <2>1 DEF GivesUp
    <3> QED BY <1>2, <1>3, <3>1 DEF Handling, Deciding, Fresh
  <2>2. CASE Waits
    <3>1. rl'.pc = "read" /\ wake'.tool = lastWakeup[cur]
      BY <1>2, <2>2, ReadingIs DEF Waits
    <3> QED BY <1>2, <1>3, <3>1 DEF Handling, Deciding, Fresh
  <2> QED BY <1>3, <2>1, <2>2
<1>8. Chain'
  <2>1. \A i \in 1 .. Len(out') : out'[i].kind = "result" =>
           (Announced(i)' <=> i < Len(out') \/ cli'.turn # 0 \/ cli'.wakeups # {})
    BY <1>3, <1>5, <1>7 DEF Announced, env
  <2>2. UNCHANGED <<cur, lastWakeup, prompts, cli, out>>
    BY <1>3 DEF env
  <2>3. Handling' \/ ~Fresh'
    BY <1>7
  <2> HIDE DEF Announced, Fresh, Handling, More
  <2> QED BY <1>2, <1>4, <1>6, <1>7, <2>1, <2>2, <2>3 DEF Chain
<1>9. /\ cb.pc = "complete" => cb.turn \in 1 .. cur /\ ~results[cb.turn].done
      /\ \A t \in Turns : completions[t].done = IF results[t].done THEN 1 ELSE 0
  BY DEF Linked, Completing
<1>10. /\ cb.pc = "lock" => cb.wakeup <= lastWakeup[cur] /\ cb.wakeup # lastWakeup[cur]
  BY <1>2 DEF Linked, Late
<1>11. CASE GivesUp
  <2>1. /\ UNCHANGED timer /\ rl'.pc = "limits" /\ rl'.counted = TRUE /\ rl'.usage = rl.usage
        /\ rl'.n = cur /\ OverBudget(cost') /\ ~wake'.active /\ ~wake'.fired
        /\ wake'.tool = 0 /\ wake'.usage = 0 /\ Deciding'
    BY <1>2, <1>3, <1>11 DEF GivesUp, Keeps, Deciding
  <2>2. Completing'
    <3> HIDE DEF Over, More, Deciding, Busy
    <3> QED BY <1>2, <1>3, <1>4, <1>9, <2>1 DEF Completing
  <2>3. Decides'
    <3> HIDE DEF OverBudget, Deciding
    <3> QED BY <1>2, <1>3, <2>1 DEF Decides
  <2>4. Late'
    BY <1>2, <1>3, <1>10, <2>1 DEF Late
  <2> QED BY <1>2, <1>8, <2>2, <2>3, <2>4 DEF Linked
<1>12. CASE Waits
  <2>1. /\ rl'.pc = "read" /\ ~rl'.counted /\ ~Deciding'
        /\ timer'.turn = cur /\ timer'.usage = rl.usage /\ timer'.wakeup = lastWakeup[cur]
        /\ wake'.active /\ ~wake'.fired /\ wake'.tool = lastWakeup[cur]
        /\ wake'.usage = wake.usage + rl.usage
    BY <1>2, <1>12, ReadingIs DEF Waits, Deciding
  <2>2. wake'.usage = rl.usage
    BY <1>2, <2>1, Fields DEF AnyInv
  <2>3. Completing'
    <3> HIDE DEF Over, More, Deciding, Busy
    <3> QED BY <1>2, <1>3, <1>4, <1>9, <2>1 DEF Completing
  <2>4. Decides'
    BY <2>1 DEF Decides
  <2>5. Late'
    BY <1>2, <1>3, <1>10, <2>1, <2>2 DEF Late
  <2> QED BY <1>2, <1>8, <2>3, <2>4, <2>5 DEF Linked
<1> QED BY <1>3, <1>11, <1>12

LEMMA CompletesLinked ==
    ASSUME AnyInv, InOrder, Distinct, Linked, Distinct', ReadLoopCompletes
    PROVE  Linked' /\ ResultTurn = cur /\ cur > 0 /\ rl.counted = FALSE
<1>1. /\ rl.pc = "complete" /\ Keeps /\ rl'.pc = "announce" /\ rl'.counted = rl.counted
      /\ Completes(ResultTurn, LoopResult) /\ LoopResult.done
      /\ abandoned' = (IF rl.err /\ lastWakeup[rl.n] # 0 THEN abandoned \cup {ResultTurn}
                       ELSE abandoned)
      /\ UNCHANGED <<cur, lastWakeup, pending, wake, timer, cost, cb, strays, stopping, env,
                     left>>
  BY LoopCompletesDoes DEF AnyInv
<1>2. /\ Deciding /\ Handling /\ Busy /\ ~Deciding' /\ ~Handling' /\ ~Busy' /\ Turns' = Turns
  BY <1>1 DEF Deciding, Handling, Busy, Turns
<1>3. /\ ResultTurn = cur /\ rl.n = cur /\ cur > 0 /\ cur \in Turns /\ ~wake.active
      /\ timer = NoTimer /\ prompts = <<>> /\ lastWakeup[cur] \in Nat /\ wake.tool \in Nat
  BY <1>2, AllCurrent
<1>4. ~(rl.err /\ lastWakeup[cur] # 0)
  BY <1>1, <1>3 DEF Distinct
<1>5. ~Fresh /\ ~More /\ ~Over /\ ~wake.fired /\ rl.counted = FALSE
  <2>1. ~Fresh
    <3>1. lastWakeup[cur] = 0 => wake.tool = 0
      BY <1>3 DEF Linked, Chain
    <3>2. ~Fresh \/ rl.err
      BY <1>1 DEF Linked, Decides
    <3> QED BY <1>3, <1>4, <3>1, <3>2 DEF Fresh
  <2>2. ~More
    BY <1>2, <2>1 DEF Linked, Chain
  <2>3. ~wake.fired /\ ~Over
    BY <1>2 DEF Linked, Completing
  <2>4. rl.counted = FALSE
    BY <1>1, <1>2, <1>3, <1>4, Fields DEF Linked, Decides, AnyInv
  <2> QED BY <2>1, <2>2, <2>3, <2>4
<1>6. /\ results'[cur].done /\ completions'[cur].done = completions[cur].done + 1
      /\ \A u \in Turns \ {cur} : results'[u] = results[u] /\ completions'[u] = completions[u]
  BY <1>1, <1>3 DEF Completes
<1>7. Over' /\ ~Fresh' /\ ~More' /\ out = <<>> /\ Len(out) = 0 /\ cli.turn = 0 /\ cli.wakeups = {}
  BY <1>1, <1>3, <1>5, <1>6, AllCurrent DEF Over, Fresh, More, env
<1>8. Chain'
  <2>1. wake.tool <= lastWakeup[cur]
    BY <1>3 DEF Linked, Chain
  <2> QED BY <1>1, <1>2, <1>3, <1>7, <2>1 DEF Chain, env
<1>9. Completing'
  <2>1. cb.pc = "complete" => cb.turn \in 1 .. cur /\ cb.turn # cur /\ ~results[cb.turn].done
    BY <1>3, <1>5 DEF Linked, Completing, Over
  <2>2. cb.pc = "complete" => ~results'[cb.turn].done
    <3> HAVE cb.pc = "complete"
    <3>1. cb.turn \in Turns \ {cur}
      BY <2>1, Numbers DEF AnyInv
    <3> QED BY <1>6, <2>1, <3>1
  <2>3. \A t \in Turns : completions'[t].done = IF results'[t].done THEN 1 ELSE 0
    <3> TAKE t \in Turns
    <3>1. CASE t = cur
      <4>1. completions[cur].done = 0
        BY <1>3, <1>5 DEF Linked, Completing, Over
      <4> QED BY <1>6, <3>1, <4>1
    <3>2. CASE t # cur
      BY <1>6, <3>2 DEF Linked, Completing
    <3> QED BY <3>1, <3>2
  <2> HIDE DEF Over, More, Deciding, Busy
  <2> QED BY <1>1, <1>2, <1>3, <1>5, <1>7, <2>1, <2>2, <2>3 DEF Completing
<1>10. Decides'
  BY <1>1, <1>2 DEF Decides
<1>11. Late'
  BY <1>1, <1>3 DEF Linked, Late
<1> QED BY <1>3, <1>5, <1>8, <1>9, <1>10, <1>11 DEF Linked

LEMMA AnnounceLinked ==
    ASSUME AnyInv, InOrder, Distinct, Linked, ReadLoopAnnounces \/ TimerAnnounces
    PROVE  /\ Linked'
           /\ UNCHANGED <<cur, results, wake, cost>>
           /\ \A u \in Turns : completions'[u].usage = completions[u].usage
<1>1. /\ UNCHANGED <<cur, lastWakeup, results, wake, timer, cost, env>> /\ Turns' = Turns
      /\ \A u \in Turns : /\ completions'[u].done = completions[u].done
                          /\ completions'[u].usage = completions[u].usage
      /\ \/ UNCHANGED cb /\ rl.pc = "announce" /\ rl' = Reading
         \/ UNCHANGED rl /\ cb.pc = "announce" /\ cb'.pc = "off"
  <2>1. CASE ReadLoopAnnounces
    <3>1. Announces(ResultTurn)
      BY <2>1, AnnouncesDoes DEF AnyInv, ReadLoopAnnounces
    <3> QED BY <2>1, <3>1 DEF ReadLoopAnnounces, Announces, Turns
  <2>2. CASE TimerAnnounces
    BY <2>2, TimerAnnouncesDoes DEF AnyInv, Announces, Turns
  <2> QED BY <2>1, <2>2
<1>2. /\ Handling' = Handling /\ Deciding' = Deciding /\ Busy' = Busy
      /\ Over' = Over /\ Fresh' = Fresh /\ More' = More
  <2>1. Handling' = Handling /\ Deciding' = Deciding /\ Busy' = Busy
    BY <1>1, ReadingIs DEF Handling, Deciding, Busy
  <2>2. Over' = Over /\ Fresh' = Fresh /\ More' = More
    BY <1>1 DEF Over, Fresh, More, env
  <2> QED BY <2>1, <2>2
<1>3. Chain'
  BY <1>1, <1>2, ChainKept DEF Linked, env
<1>4. Completing'
  <2>1. wake.active /\ rl'.pc \in {"read", "synthetic"} => More
    BY <1>1 DEF Linked, Completing, AnyInv, Timed
  <2>2. wake.fired => rl'.pc # "announce"
    BY <1>1, ReadingIs DEF Linked, Completing
  <2> HIDE DEF Over, More, Deciding, Busy
  <2> QED BY <1>1, <1>2, <2>1, <2>2 DEF Linked, Completing
<1>5. Decides'
  <2>1. CASE UNCHANGED rl
    BY <1>1, <1>2, <2>1 DEF Linked, Decides, MaxTurnsReached
  <2>2. CASE rl.pc = "announce" /\ rl' = Reading
    BY <1>2, <2>2, ReadingIs DEF Decides, Deciding
  <2> QED BY <1>1, <2>1, <2>2
<1>6. Late'
  <2>1. /\ rl'.pc \in {"suppress", "limits", "complete"} => rl'.usage > 0
        /\ ~wake.active /\ rl'.pc \notin {"number", "usage"} => wake.usage = 0
    BY <1>1, ReadingIs DEF Linked, Late
  <2> QED BY <1>1, <2>1 DEF Linked, Late
<1> QED BY <1>1, <1>3, <1>4, <1>5, <1>6 DEF Linked

LEMMA FiresLinked ==
    ASSUME AnyInv, InOrder, Distinct, Linked, TimerFires
    PROVE  Linked'
<1>1. /\ timer # NoTimer /\ timer' = NoTimer
      /\ \/ /\ cb.pc = "off" /\ cb'.pc = "lock" /\ cb'.turn = timer.turn
            /\ cb'.usage = timer.usage /\ cb'.wakeup = timer.wakeup
         \/ UNCHANGED cb
      /\ UNCHANGED <<cur, lastWakeup, results, caller, pending, wake, cost, rl, stopping,
                     env, completions, answers, abandoned, left>>
      /\ Turns' = Turns
  BY TimerFiresDoes DEF AnyInv, Turns
<1>2. /\ Handling' = Handling /\ Deciding' = Deciding /\ Busy' = Busy
      /\ Over' = Over /\ Fresh' = Fresh /\ More' = More
  BY <1>1 DEF Handling, Deciding, Busy, Over, Fresh, More, env
<1>3. Chain'
  BY <1>1, <1>2, ChainKept DEF Linked, env
<1>4. Completing'
  <2> HIDE DEF Over, More, Deciding, Busy
  <2> QED BY <1>1, <1>2 DEF Linked, Completing
<1>5. Decides'
  BY <1>1, <1>2 DEF Linked, Decides, MaxTurnsReached
<1>6. Late'
  <2>1. \/ UNCHANGED cb
        \/ cb'.usage = wake.usage /\ cb'.wakeup = wake.tool /\ cb'.turn = cur
    BY <1>1 DEF Linked, Late
  <2>2. cur > 0 => wake.tool <= lastWakeup[cur]
    BY DEF Linked, Chain
  <2> QED BY <1>1, <2>1, <2>2 DEF Linked, Late
<1> QED BY <1>3, <1>4, <1>5, <1>6 DEF Linked

\* Where turns follow one another strays fire and find nothing to do.
LEMMA StrayIdles ==
    ASSUME AnyInv, Distinct', Strays
    PROVE  UNCHANGED <<cur, lastWakeup, results, wake, timer, cost, rl, cb, env, completions>>
<1>1. PICK s \in strays : /\ UNCHANGED Elsewhere
                          /\ StrayWaits(s) \/ StrayTakes(s) \/ StrayEnds(s) \/ StrayTells(s)
  BY StrayDoes DEF AnyInv, Astray
<1>2. s.pc # "lock" => cb.stale
  BY DEF AnyInv, Astray
<1>3. ~cb'.stale
  BY DEF Distinct
<1>4. StrayWaits(s)
  BY <1>1, <1>2, <1>3 DEF StrayTakes, StrayEnds, StrayTells
<1> QED BY <1>1, <1>4 DEF Elsewhere, StrayWaits

LEMMA TakesOverLinked ==
    ASSUME AnyInv, InOrder, Distinct, Linked, Distinct', TimerTakesOver
    PROVE  Linked' /\ (TakesOver => cb.usage = wake.usage)
<1>1. /\ cb.pc = "lock" /\ (TakesOver \/ LooksAway)
      /\ UNCHANGED <<cur, lastWakeup, results, caller, pending, cost, rl, stopping, env,
                     completions, answers, abandoned, left>>
      /\ Turns' = Turns
  BY TimerTakesOverDoes DEF AnyInv, Turns
<1>2. /\ Handling' = Handling /\ Deciding' = Deciding /\ Busy' = Busy
      /\ wake'.tool = wake.tool /\ Fresh' = Fresh /\ More' = More /\ cb'.pc # "lock"
  BY <1>1 DEF Handling, Deciding, Busy, Fresh, More, env, TakesOver, LooksAway
<1>3. Decides'
  BY <1>1, <1>2 DEF Linked, Decides, MaxTurnsReached
<1>4. CASE LooksAway
  <2>1. UNCHANGED <<wake, timer>> /\ cb'.pc = "off" /\ ~TakesOver
    BY <1>4 DEF LooksAway, TakesOver
  <2>2. Over' = Over
    BY <1>1, <2>1 DEF Over
  <2>3. Chain'
    BY <1>1, <1>2, <2>2, ChainKept DEF Linked, env
  <2>4. Completing'
    <3> HIDE DEF Over, More, Deciding, Busy
    <3> QED BY <1>1, <1>2, <2>1, <2>2 DEF Linked, Completing
  <2>5. Late'
    BY <1>1, <1>2, <2>1 DEF Linked, Late
  <2> QED BY <1>3, <2>1, <2>3, <2>4, <2>5 DEF Linked
<1>5. CASE TakesOver
  <2>1. /\ wake.active /\ ~wake'.active /\ wake'.fired = TRUE /\ wake'.usage = 0
        /\ timer' = NoTimer /\ cb'.pc = "complete" /\ cb'.turn = cb.turn /\ cb'.usage = cb.usage
        /\ cb'.stale = (cb.stale \/ cb.wakeup # wake.tool \/ timer # NoTimer)
    BY <1>5 DEF TakesOver
  <2>2. cb.wakeup = wake.tool
    BY <2>1 DEF Distinct
  <2>3. cb.usage = wake.usage /\ cb.turn = cur
    BY <1>1, <2>1, <2>2 DEF Linked, Late
  <2>4. /\ cur > 0 /\ ~Over /\ cur \in Turns /\ ~results[cur].done /\ ~Deciding
        /\ rl.pc # "announce"
    BY <2>1, AllCurrent DEF Linked, Completing, Over, AnyInv, Timed
  <2>5. Over'
    BY <1>1, <2>1, <2>3, <2>4 DEF Over
  <2>6. prompts = <<>>
    <3> SUFFICES ASSUME prompts # <<>> PROVE FALSE
      OBVIOUS
    <3>1. out = <<>> /\ cli.turn = 0 /\ rl.pc = "read" /\ cli.wakeups = {}
      BY <2>4, AllCurrent DEF Busy, Linked, Chain
    <3> QED BY <2>1, <3>1 DEF Linked, Completing, More
  <2>7. Chain'
    BY <1>1, <1>2, <2>6, ChainKept DEF Linked, env
  <2>8. Completing'
    <3>1. cb'.turn \in 1 .. cur /\ ~results[cb'.turn].done
      BY <2>1, <2>3, <2>4, AllCurrent
    <3>2. \A t \in Turns : completions[t].done = IF results[t].done THEN 1 ELSE 0
      BY DEF Linked, Completing
    <3> HIDE DEF Over, More, Deciding, Busy
    <3> QED BY <1>1, <1>2, <2>1, <2>4, <2>5, <3>1, <3>2 DEF Completing
  <2>9. Late'
    BY <1>1, <1>2, <2>1 DEF Linked, Late
  <2> QED BY <1>3, <2>3, <2>7, <2>8, <2>9 DEF Linked
<1> QED BY <1>1, <1>4, <1>5

LEMMA LateLinked ==
    ASSUME AnyInv, InOrder, Distinct, Linked, TimerCompletes
    PROVE  Linked' /\ cb.turn \in 1 .. cur /\ cb.turn \in Turns
<1>1. /\ cb.pc = "complete" /\ cb'.pc = "announce" /\ cb'.turn = cb.turn
      /\ Completes(cb.turn, LateResult) /\ LateResult.done /\ LateResult.late
      /\ UNCHANGED <<cur, lastWakeup, pending, wake, timer, cost, rl, stopping, env,
                     abandoned, left>>
      /\ Turns' = Turns
  BY TimerCompletesDoes DEF AnyInv, Turns
<1>2. cb.turn \in 1 .. cur /\ cb.turn \in Turns /\ ~results[cb.turn].done
  <2>1. cb.turn \in 1 .. cur /\ ~results[cb.turn].done
    BY <1>1 DEF Linked, Completing
  <2> QED BY <2>1, Numbers DEF AnyInv
<1>3. /\ results'[cb.turn].done /\ results'[cb.turn].late
      /\ completions'[cb.turn].done = completions[cb.turn].done + 1
      /\ \A u \in Turns \ {cb.turn} : results'[u] = results[u] /\ completions'[u] = completions[u]
  BY <1>1, <1>2 DEF Completes
<1>4. cur > 0 => cur \in Turns
  BY Numbers DEF AnyInv
<1>5. /\ Handling' = Handling /\ Deciding' = Deciding /\ Busy' = Busy
      /\ Over' = Over /\ Fresh' = Fresh /\ More' = More
  <2>1. /\ Handling' = Handling /\ Deciding' = Deciding /\ Busy' = Busy
        /\ Fresh' = Fresh /\ More' = More
    BY <1>1 DEF Handling, Deciding, Busy, Fresh, More, env
  <2>2. CASE cb.turn = cur
    BY <1>1, <1>2, <1>3, <2>1, <2>2 DEF Over
  <2>3. CASE cb.turn # cur
    BY <1>1, <1>3, <1>4, <2>1, <2>3 DEF Over
  <2> QED BY <2>1, <2>2, <2>3
<1>6. Chain'
  BY <1>1, <1>5, ChainKept DEF Linked, env
<1>7. Completing'
  <2>1. \A t \in Turns : completions'[t].done = IF results'[t].done THEN 1 ELSE 0
    <3> TAKE t \in Turns
    <3>1. CASE t = cb.turn
      <4>1. completions[t].done = 0
        BY <1>2, <3>1 DEF Linked, Completing
      <4> QED BY <1>3, <3>1, <4>1
    <3>2. CASE t # cb.turn
      BY <1>3, <3>2 DEF Linked, Completing
    <3> QED BY <3>1, <3>2
  <2>2. wake.fired => (results'[cur].done => results'[cur].late)
    <3> HAVE wake.fired
    <3>1. cur > 0
      BY DEF Linked, Completing, Over
    <3>2. CASE cb.turn = cur
      BY <1>3, <3>2
    <3>3. CASE cb.turn # cur
      <4>1. results'[cur] = results[cur]
        BY <1>3, <1>4, <3>1, <3>3
      <4> QED BY <4>1 DEF Linked, Completing
    <3> QED BY <3>2, <3>3
  <2> HIDE DEF Over, More, Deciding, Busy
  <2> QED BY <1>1, <1>5, <2>1, <2>2 DEF Linked, Completing
<1>8. Decides'
  BY <1>1, <1>5 DEF Linked, Decides, MaxTurnsReached
<1>9. Late'
  BY <1>1 DEF Linked, Late
<1> QED BY <1>2, <1>6, <1>7, <1>8, <1>9 DEF Linked
LEMMA LinkedInit == Init => LinkedInv
<1> SUFFICES ASSUME Init PROVE Linked
  BY DEF LinkedInv
<1>1. /\ cur = 0 /\ out = <<>> /\ prompts = <<>> /\ cli.turn = 0 /\ cli.wakeups = {}
      /\ ~wake.active /\ ~wake.fired /\ wake.tool = 0 /\ wake.usage = 0 /\ timer = NoTimer
      /\ rl = Reading /\ cb.pc = "off"
  BY ResetIs DEF Init, Quiet
<1>2. ~Handling /\ ~Deciding /\ ~Busy /\ rl.pc = "read" /\ ~rl.counted
  BY <1>1, ReadingIs DEF Handling, Deciding, Busy
<1>3. ~Over /\ ~Fresh
  BY <1>1 DEF Over, Fresh
<1>4. \A t \in Turns : completions[t].done = IF results[t].done THEN 1 ELSE 0
  BY DEF Init, Turns
<1>5. Chain
  BY <1>1, <1>2, <1>3 DEF Chain
<1>6. Completing
  <2> HIDE DEF Over, Deciding, Busy, More
  <2> QED BY <1>1, <1>2, <1>3, <1>4 DEF Completing
<1>7. Decides
  <2> HIDE DEF Deciding, Fresh
  <2> QED BY <1>1, <1>2, <1>3 DEF Decides
<1>8. Late
  BY <1>1, <1>2 DEF Late
<1> QED BY <1>5, <1>6, <1>7, <1>8 DEF Linked

LEMMA LinkedStep ==
    ASSUME AnyInv, SerialInv, LinkedInv, [Next]_vars
    PROVE  LinkedInv'
<1> SUFFICES ASSUME Distinct' PROVE Linked'
  BY DEF LinkedInv
<1>1. Distinct /\ Linked /\ InOrder
  BY DistinctBefore DEF LinkedInv, SerialInv, Distinct
<1>2. ASSUME NEW c \in Caller, Ask(c) PROVE Linked'
  <2>1. CASE SendMessage(c)
    BY <1>1, <2>1, SendLinked
  <2>2. CASE WaitForTurn(c) \/ CancelWait(c)
    BY <1>1, <2>2, WaitDoes, LinkedKept DEF AnyInv, Machine
  <2> QED BY <1>2, <2>1, <2>2 DEF Ask
<1>3. CASE ReadLoop
  BY <1>1, <1>3, ReadLinked, LocalsLinked, SnapshotLinked, UsageLinked, SuppressLinked,
     CompletesLinked, AnnounceLinked DEF ReadLoop
<1>4. CASE SafetyTimer
  BY <1>1, <1>4, FiresLinked, TakesOverLinked, LateLinked, AnnounceLinked, StrayIdles, LinkedKept
  DEF SafetyTimer
<1>5. ~Stop
  BY StopDoes DEF AnyInv, Distinct
<1>6. CASE UNCHANGED vars
  BY <1>1, <1>6, LinkedKept DEF vars, env
<1> QED BY <1>1, <1>2, <1>3, <1>4, <1>5, <1>6, CliLinked DEF Next

LEMMA LinkedAlways == Spec => [](AnyInv /\ SerialInv /\ LinkedInv)
BY AnyInit, AnyStep, SerialInit, SerialStep, LinkedInit, LinkedStep, PTL DEF Spec

\* A completion is held back as long as there is something to wait for and
\* somebody to end it, and nothing of a wave outlives it.
THEOREM HeldBack == Spec => []SuppressionHolds
<1> SUFFICES ASSUME AnyInv, SerialInv, LinkedInv PROVE SuppressionHolds
  BY LinkedAlways, PTL
<1>1. SuppressionIsTimed
  BY DEF AnyInv, Timed
<1>2. SuppressionIsOwed
  <2> SUFFICES ASSUME wake.active, Distinct, rl.pc = "read" PROVE More
    BY DEF SuppressionIsOwed, More
  <2> QED BY DEF LinkedInv, Linked, Completing
<1>3. NotOverEarly
  <2> SUFFICES ASSUME NEW t \in Turns, results[t].done, ~results[t].late, Distinct,
                      t \in cli.wakeups
               PROVE  FALSE
    BY DEF NotOverEarly
  <2>1. InOrder /\ Linked
    BY DEF SerialInv, LinkedInv, Distinct
  <2>2. t = cur /\ More
    BY <2>1, AllCurrent DEF More
  <2>3. Over
    <3>1. cur > 0
      BY <2>2, Numbers DEF AnyInv
    <3> QED BY <2>2, <3>1 DEF Over
  <2> HIDE DEF Over, More
  <2> QED BY <2>1, <2>2, <2>3 DEF Linked, Completing
<1>4. RefusalEnds
  BY DEF SerialInv, InOrder, Refusing, RefusalEnds
<1>5. TimerIsCurrent
  BY DEF SerialInv, InOrder, Held, TimerIsCurrent, AnyInv, Astray
<1> QED BY <1>1, <1>2, <1>3, <1>4, <1>5 DEF SuppressionHolds
-----------------------------------------------------------------------------
(* The sum of what the turns are reported to have cost.                       *)

\* Reported, of n turns and of any history of completions.
Total(n, c) ==
    LET sum[t \in 0 .. n] == IF t = 0 THEN 0 ELSE sum[t - 1] + c[t].usage
    IN  sum[n]

\* f adds up the usage of the first n turns.
AddsUp(f, n, c) == f[0] = 0 /\ \A t \in 1 .. n : f[t] = f[t - 1] + c[t].usage

\* After what d says turn k is reported to have cost u more than after c.
Raises(c, d, n, k, u) ==
    \A t \in 1 .. n : /\ c[t].usage \in Nat
                      /\ d[t].usage = c[t].usage + (IF t = k THEN u ELSE 0)

\* g is above f by u from turn k on.
Above(f, g, n, k, u) == \A t \in 0 .. n : g[t] = f[t] + (IF k <= t THEN u ELSE 0)

\* A set of numbers has a least one: induction, for what follows.
LEMMA Least ==
    ASSUME NEW T \in SUBSET Nat, T # {}
    PROVE  \E n \in T : \A m \in T : n <= m
<1> DEFINE R == OpToRel(<, Nat)
<1>1. IsWellFoundedOn(R, Nat)
  BY NatLessThanWellFounded
<1>2. \A x, y \in Nat : x < y => <<x, y>> \in R
  BY DEF OpToRel
<1> HIDE DEF R
<1>3. PICK n \in T : \A m \in T : <<m, n>> \notin R
  BY <1>1, WFMin
<1>4. ASSUME NEW m \in T PROVE n <= m
  <2>1. m \in Nat /\ n \in Nat /\ ~(m < n)
    BY <1>2, <1>3
  <2> QED BY <2>1
<1> QED BY <1>4

\* There are such sums.
LEMMA SumExists ==
    ASSUME NEW n \in Nat, NEW c, \A t \in 1 .. n : c[t].usage \in Nat
    PROVE  \E f \in [0 .. n -> Nat] : AddsUp(f, n, c)
<1> DEFINE Has(k) == \E f \in [0 .. k -> Nat] : AddsUp(f, k, c)
           T == {k \in 0 .. n : ~Has(k)}
<1>1. SUFFICES ASSUME T # {} PROVE FALSE
  <2>1. n \in 0 .. n
    OBVIOUS
  <2> QED BY <2>1
<1>2. PICK k \in T : \A j \in T : k <= j
  <2>1. T \in SUBSET Nat
    OBVIOUS
  <2> HIDE DEF T
  <2> QED BY <1>1, <2>1, Least
<1>3. CASE k = 0
  <2> DEFINE f == [t \in 0 .. 0 |-> 0]
  <2>1. f \in [0 .. 0 -> Nat] /\ f[0] = 0
    OBVIOUS
  <2>2. AddsUp(f, 0, c)
    BY <2>1 DEF AddsUp
  <2> HIDE DEF f
  <2> QED BY <1>2, <1>3, <2>1, <2>2
<1>4. CASE k # 0
  <2>1. k \in 1 .. n /\ k - 1 \in 0 .. n /\ k \in Nat /\ k - 1 \in Nat
    BY <1>4
  <2>2. k - 1 \notin T
    <3> HIDE DEF T
    <3> QED BY <1>2, <2>1
  <2>3. PICK f \in [0 .. k - 1 -> Nat] : AddsUp(f, k - 1, c)
    BY <2>1, <2>2
  <2> DEFINE g == [t \in 0 .. k |-> IF t = k THEN f[k - 1] + c[k].usage ELSE f[t]]
  <2>4. f[k - 1] \in Nat /\ c[k].usage \in Nat
    BY <2>1
  <2>5. g[k] = f[k - 1] + c[k].usage /\ \A t \in 0 .. k - 1 : g[t] = f[t] /\ f[t] \in Nat
    BY <2>1
  <2>6. g \in [0 .. k -> Nat]
    <3>1. ASSUME NEW t \in 0 .. k
          PROVE (IF t = k THEN f[k - 1] + c[k].usage ELSE f[t]) \in Nat
      <4>1. CASE t = k
        BY <2>4, <4>1
      <4>2. CASE t # k
        <5>1. t \in 0 .. k - 1
          BY <2>1, <4>2
        <5> QED BY <2>5, <4>2, <5>1
      <4> QED BY <4>1, <4>2
    <3> QED BY <3>1
  <2>7. AddsUp(g, k, c)
    <3> HIDE DEF g
    <3>1. ASSUME NEW t \in 1 .. k PROVE g[t] = g[t - 1] + c[t].usage
      <4>1. CASE t = k
        <5>1. k - 1 \in 0 .. k - 1
          BY <2>1
        <5> QED BY <2>5, <4>1, <5>1
      <4>2. CASE t # k
        <5>1. t \in 1 .. k - 1 /\ t \in 0 .. k - 1 /\ t - 1 \in 0 .. k - 1
          BY <2>1, <4>2
        <5> QED BY <2>3, <2>5, <5>1 DEF AddsUp
      <4> QED BY <4>1, <4>2
    <3>2. 0 \in 0 .. k - 1
      BY <2>1
    <3> QED BY <2>3, <2>5, <3>1, <3>2 DEF AddsUp
  <2> HIDE DEF g
  <2> QED BY <1>2, <2>6, <2>7
<1> QED BY <1>3, <1>4

\* What one turn is reported to cost more, the sum is more from there on.
LEMMA SumChanges ==
    ASSUME NEW n \in Nat, NEW c, NEW d, NEW f \in [0 .. n -> Nat], NEW g,
           AddsUp(f, n, c), AddsUp(g, n, d), NEW k \in Nat \ {0}, NEW u \in Nat,
           Raises(c, d, n, k, u)
    PROVE  Above(f, g, n, k, u)
<1> DEFINE Right(t) == g[t] = f[t] + (IF k <= t THEN u ELSE 0)
           T == {t \in 0 .. n : ~Right(t)}
<1>1. SUFFICES ASSUME T # {} PROVE FALSE
  BY DEF Above
<1>2. PICK t \in T : \A j \in T : t <= j
  <2>1. T \in SUBSET Nat
    OBVIOUS
  <2> HIDE DEF T
  <2> QED BY <1>1, <2>1, Least
<1>3. t # 0
  <2> SUFFICES ASSUME t = 0 PROVE Right(0)
    OBVIOUS
  <2>1. g[0] = 0 /\ f[0] = 0 /\ ~(k <= 0)
    BY DEF AddsUp
  <2> QED BY <2>1
<1>4. t \in 1 .. n /\ t - 1 \in 0 .. n /\ t \in Nat
  BY <1>3
<1>5. Right(t - 1)
  BY <1>2, <1>4
<1>6. f[t] = f[t - 1] + c[t].usage /\ g[t] = g[t - 1] + d[t].usage
  BY <1>4 DEF AddsUp
<1>7. c[t].usage \in Nat /\ d[t].usage = c[t].usage + (IF t = k THEN u ELSE 0)
  BY <1>4 DEF Raises
<1>8. f[t - 1] \in Nat
  BY <1>4
<1>9. g[t] = f[t] + (IF k <= t THEN u ELSE 0)
  <2>1. CASE t = k
    BY <1>4, <1>5, <1>6, <1>7, <1>8, <2>1
  <2>2. CASE t < k
    BY <1>4, <1>5, <1>6, <1>7, <1>8, <2>2
  <2>3. CASE k < t
    BY <1>4, <1>5, <1>6, <1>7, <1>8, <2>3
  <2> QED BY <1>4, <2>1, <2>2, <2>3
<1> QED BY <1>2, <1>9

\* Total is the last of them.
LEMMA TotalIs ==
    ASSUME NEW n \in Nat, NEW c, NEW f \in [0 .. n -> Nat], AddsUp(f, n, c),
           \A t \in 1 .. n : c[t].usage \in Nat
    PROVE  Total(n, c) = f[n]
<1> DEFINE sum[t \in 0 .. n] == IF t = 0 THEN 0 ELSE sum[t - 1] + c[t].usage
           Body(g) == [t \in 0 .. n |-> IF t = 0 THEN 0 ELSE g[t - 1] + c[t].usage]
<1>1. Total(n, c) = sum[n]
  BY DEF Total
<1>2. sum = CHOOSE g : g = Body(g)
  OBVIOUS
<1>3. f = Body(f)
  <2>1. ASSUME NEW t \in 0 .. n PROVE f[t] = IF t = 0 THEN 0 ELSE f[t - 1] + c[t].usage
    <3>1. t # 0 => t \in 1 .. n
      OBVIOUS
    <3> QED BY <3>1 DEF AddsUp
  <2> QED BY <2>1
<1> HIDE DEF sum
<1>4. sum = Body(sum)
  <2> HIDE DEF Body
  <2> QED BY <1>2, <1>3
<1>5. AddsUp(sum, n, c)
  <2>1. \A t \in 0 .. n : sum[t] = IF t = 0 THEN 0 ELSE sum[t - 1] + c[t].usage
    BY <1>4
  <2>2. sum[0] = 0
    <3>1. 0 \in 0 .. n
      OBVIOUS
    <3> QED BY <2>1, <3>1
  <2>3. ASSUME NEW t \in 1 .. n PROVE sum[t] = sum[t - 1] + c[t].usage
    <3>1. t \in 0 .. n /\ t # 0
      OBVIOUS
    <3> QED BY <2>1, <3>1
  <2> QED BY <2>2, <2>3 DEF AddsUp
<1>6. n \in 0 .. n /\ f[n] \in Nat
  OBVIOUS
<1>7. sum[n] = f[n] + (IF 1 <= n THEN 0 ELSE 0)
  <2>1. Raises(c, c, n, 1, 0)
    BY DEF Raises
  <2>2. 1 \in Nat \ {0} /\ 0 \in Nat
    OBVIOUS
  <2>3. Above(f, sum, n, 1, 0)
    BY <1>5, <2>1, <2>2, SumChanges
  <2> QED BY <1>6, <2>3 DEF Above
<1> QED BY <1>1, <1>6, <1>7

\* A number; more by what one of its turns is reported to cost more.
LEMMA TotalChanges ==
    ASSUME NEW n \in Nat, NEW c, NEW d, NEW k \in 1 .. n, NEW u \in Nat,
           Raises(c, d, n, k, u)
    PROVE  Total(n, c) \in Nat /\ Total(n, d) = Total(n, c) + u
<1>1. \A t \in 1 .. n : c[t].usage \in Nat /\ d[t].usage \in Nat
  BY DEF Raises
<1>2. PICK f \in [0 .. n -> Nat] : AddsUp(f, n, c)
  BY <1>1, SumExists
<1>3. PICK g \in [0 .. n -> Nat] : AddsUp(g, n, d)
  BY <1>1, SumExists
<1>4. Total(n, c) = f[n] /\ Total(n, d) = g[n]
  BY <1>1, <1>2, <1>3, TotalIs
<1>5. n \in 0 .. n /\ k <= n /\ k \in Nat \ {0} /\ f[n] \in Nat
  OBVIOUS
<1>6. Above(f, g, n, k, u)
  BY <1>2, <1>3, <1>5, SumChanges
<1> QED BY <1>4, <1>5, <1>6 DEF Above

\* Only the usage of the turns counts.
LEMMA TotalKept ==
    ASSUME NEW n \in Nat, NEW c, NEW d,
           \A t \in 1 .. n : c[t].usage \in Nat /\ d[t].usage = c[t].usage
    PROVE  Total(n, c) \in Nat /\ Total(n, d) = Total(n, c)
<1>1. PICK f \in [0 .. n -> Nat] : AddsUp(f, n, c)
  BY SumExists
<1>2. AddsUp(f, n, d)
  BY <1>1 DEF AddsUp
<1>3. \A t \in 1 .. n : d[t].usage \in Nat
  OBVIOUS
<1> QED BY <1>1, <1>2, <1>3, TotalIs

\* One turn more.
LEMMA TotalGrows ==
    ASSUME NEW n \in Nat, NEW c, \A t \in 1 .. n + 1 : c[t].usage \in Nat
    PROVE  Total(n + 1, c) = Total(n, c) + c[n + 1].usage
<1>0. n + 1 \in Nat
  OBVIOUS
<1>1. PICK f \in [0 .. n + 1 -> Nat] : AddsUp(f, n + 1, c)
  BY <1>0, SumExists
<1> DEFINE g == [t \in 0 .. n |-> f[t]]
<1>2. g \in [0 .. n -> Nat] /\ \A t \in 0 .. n : g[t] = f[t]
  OBVIOUS
<1> HIDE DEF g
<1>3. AddsUp(g, n, c)
  <2>1. ASSUME NEW t \in 1 .. n PROVE g[t] = g[t - 1] + c[t].usage
    <3>1. t \in 0 .. n /\ t - 1 \in 0 .. n /\ t \in 1 .. n + 1
      OBVIOUS
    <3> QED BY <1>1, <1>2, <3>1 DEF AddsUp
  <2>2. 0 \in 0 .. n
    OBVIOUS
  <2> QED BY <1>1, <1>2, <2>1, <2>2 DEF AddsUp
<1>4. \A t \in 1 .. n : c[t].usage \in Nat
  OBVIOUS
<1>5. Total(n + 1, c) = f[n + 1] /\ Total(n, c) = g[n]
  BY <1>1, <1>2, <1>3, <1>4, TotalIs
<1>6. g[n] = f[n] /\ f[n + 1] = f[n] + c[n + 1].usage
  <2>1. n \in 0 .. n /\ n + 1 \in 1 .. n + 1 /\ (n + 1) - 1 = n
    OBVIOUS
  <2> QED BY <1>1, <1>2, <2>1 DEF AddsUp
<1> QED BY <1>5, <1>6

LEMMA TotalNone == ASSUME NEW c PROVE Total(0, c) = 0
<1> DEFINE f == [t \in 0 .. 0 |-> 0]
<1>1. f \in [0 .. 0 -> Nat] /\ f[0] = 0
  OBVIOUS
<1>2. AddsUp(f, 0, c)
  BY <1>1 DEF AddsUp
<1> HIDE DEF f
<1>3. 0 \in Nat /\ \A t \in 1 .. 0 : c[t].usage \in Nat
  OBVIOUS
<1>4. Total(0, c) = f[0]
  BY <1>1, <1>2, <1>3, TotalIs
<1> QED BY <1>1, <1>4

LEMMA ReportedIs == Reported = Total(cur, completions) /\ Reported' = Total(cur', completions')
BY DEF Reported, Total

\* What is reported is more by a result that is recorded, and otherwise the same.
LEMMA ReportedKept ==
    ASSUME AnyInv, cur' = cur, \A t \in Turns : completions'[t].usage = completions[t].usage
    PROVE  Reported \in Nat /\ Reported' = Reported
<1>1. cur \in Nat /\ \A t \in 1 .. cur : t \in Turns /\ completions[t].usage \in Nat
  <2>1. \A t \in Turns : completions[t].usage \in Nat
    BY DEF AnyInv, Shape
  <2> QED BY <2>1, Numbers DEF AnyInv
<1>2. \A t \in 1 .. cur : completions[t].usage \in Nat /\ completions'[t].usage = completions[t].usage
  BY <1>1
<1> QED BY <1>1, <1>2, TotalKept, ReportedIs

LEMMA ReportedRaised ==
    ASSUME AnyInv, cur' = cur, NEW t \in 1 .. cur, NEW result, result.usage \in Nat,
           Completes(t, result)
    PROVE  Reported \in Nat /\ Reported' = Reported + result.usage
<1>1. cur \in Nat /\ \A u \in 1 .. cur : u \in Turns /\ completions[u].usage \in Nat
  <2>1. \A u \in Turns : completions[u].usage \in Nat
    BY DEF AnyInv, Shape
  <2> QED BY <2>1, Numbers DEF AnyInv
<1>2. Raises(completions, completions', cur, t, result.usage)
  <2> SUFFICES ASSUME NEW u \in 1 .. cur
               PROVE  completions'[u].usage
                        = completions[u].usage + (IF u = t THEN result.usage ELSE 0)
    BY <1>1 DEF Raises
  <2>1. u \in Turns /\ completions[u].usage \in Nat
    BY <1>1
  <2> QED BY <2>1 DEF Completes
<1> QED BY <1>1, <1>2, TotalChanges, ReportedIs
-----------------------------------------------------------------------------
(* Nothing the session spends is lost or reported twice.                      *)

\* The amounts.
LEMMA Amounts ==
    ASSUME Shape
    PROVE  /\ wake.usage \in Nat /\ rl.usage \in Nat /\ cb.usage \in Nat /\ cost \in Nat
           /\ InTimer \in Nat
BY Fields DEF Shape, InTimer

\* Nothing is reported or taken over.
LEMMA CountedKept ==
    ASSUME AnyInv, Counted, UNCHANGED <<cur, wake, cost, InHand, InTimer>>,
           \A t \in Turns : completions'[t].usage = completions[t].usage
    PROVE  Counted'
BY ReportedKept DEF Counted

LEMMA SendCounted ==
    ASSUME AnyInv, InOrder, Distinct, Linked, Counted, Distinct', NEW c \in Caller, SendMessage(c)
    PROVE  Counted'
<1>1. /\ cur' = cur + 1 /\ cur + 1 \in Turns /\ wake'.usage = 0
      /\ UNCHANGED <<completions, rl, cb, strays, cost>>
  BY SendDoes, ResetIs DEF AnyInv
<1>2. wake.usage = 0
  BY SendLinked DEF Linked, Late
<1>3. cur \in Nat /\ \A t \in 1 .. cur + 1 : t \in Turns /\ completions[t].usage \in Nat
  <2>1. \A t \in Turns : completions[t].usage \in Nat
    BY DEF AnyInv, Shape
  <2>2. cur \in Nat
    BY Numbers DEF AnyInv
  <2>3. PICK n \in Nat : Turns = 1 .. n
    BY DEF AnyInv, Waiting
  <2>4. cur + 1 <= n
    BY <1>1, <2>2, <2>3
  <2> QED BY <2>1, <2>2, <2>3, <2>4
<1>4. completions[cur + 1].usage = 0
  <2>1. cur + 1 > cur
    BY <1>3
  <2> QED BY <1>1, <2>1 DEF AnyInv, Untouched
<1>5. Total(cur + 1, completions) = Total(cur, completions) + completions[cur + 1].usage
  BY <1>3, TotalGrows
<1>6. Reported \in Nat
  BY <1>3, TotalKept, ReportedIs
<1>7. Reported' = Reported
  BY <1>1, <1>4, <1>5, <1>6, ReportedIs
<1>8. InHand' = InHand /\ InTimer' = InTimer
  BY <1>1 DEF InHand, InTimer
<1> QED BY <1>1, <1>2, <1>7, <1>8 DEF Counted

\* The read loop up to the decision has nothing in hand.
LEMMA HandleCounted ==
    ASSUME AnyInv, Counted,
           ReadWakeup \/ ReadSynthetic \/ ReadResult \/ RecordTransient \/ ConsumeTransient
           \/ SnapshotWakeup \/ ReadTurnNumber
    PROVE  Counted'
<1>1. cur \in Nat
  BY Numbers DEF AnyInv
<1>2. UNCHANGED <<cur, cost, cb, strays, completions>>
  BY DEF ReadWakeup, ReadSynthetic, ReadResult, RecordTransient, ConsumeTransient,
         SnapshotWakeup, ReadTurnNumber
<1>3. wake'.usage = wake.usage
  <2>1. CASE SnapshotWakeup
    BY <2>1, SnapshotDoes DEF AnyInv, Swallows, Ends
  <2>2. CASE ~SnapshotWakeup
    BY <2>2 DEF ReadWakeup, ReadSynthetic, ReadResult, RecordTransient, ConsumeTransient,
                ReadTurnNumber
  <2> QED BY <2>1, <2>2
<1>4. /\ rl.pc \in {"read", "synthetic", "consume", "snapshot", "number"}
      /\ rl'.pc \in {"read", "synthetic", "consume", "snapshot", "number", "usage"}
  <2>1. CASE ReadWakeup \/ ReadSynthetic \/ ReadResult
    <3>1. rl.pc = "read"
      BY <2>1 DEF ReadWakeup, ReadSynthetic, ReadResult
    <3> QED BY <1>1, <2>1, <3>1, ReadWakeupDoes, ReadSyntheticDoes, ReadResultDoes DEF AnyInv
  <2>2. CASE RecordTransient
    BY <2>2, RecordTransientDoes, ReadingIs DEF AnyInv
  <2>3. CASE ConsumeTransient
    BY <2>3, ConsumeTransientDoes DEF AnyInv
  <2>4. CASE SnapshotWakeup
    BY <2>4, SnapshotDoes, ReadingIs DEF AnyInv, Swallows, Ends
  <2>5. CASE ReadTurnNumber
    BY <1>1, <2>5, ReadTurnNumberDoes DEF AnyInv
  <2> QED BY <2>1, <2>2, <2>3, <2>4, <2>5
<1>5. InHand = 0 /\ InHand' = 0
  BY <1>4 DEF InHand
<1>6. InTimer' = InTimer /\ Reported' = Reported
  BY <1>2, ReportedKept DEF InTimer
<1> QED BY <1>2, <1>3, <1>5, <1>6 DEF Counted

\* The usage of the earlier waves changes hands, one result is counted.
LEMMA WaveCounted ==
    ASSUME AnyInv, InOrder, Distinct, Linked, Counted, TakeUsage \/ Suppress \/ CheckLimits
    PROVE  Counted'
<1>1. UNCHANGED <<cur, cb, strays, completions>>
  BY DEF TakeUsage, Suppress, CheckLimits
<1>2. InTimer' = InTimer /\ Reported' = Reported /\ Reported \in Nat
  BY <1>1, ReportedKept DEF InTimer
<1>3. /\ InHand' + wake'.usage + cost = InHand + wake.usage + cost'
      /\ InHand' \in Nat /\ InHand \in Nat /\ wake'.usage \in Nat /\ cost' \in Nat
  <2>1. CASE TakeUsage
    <3>1. /\ rl.pc = "usage" /\ rl'.pc \in {"suppress", "limits"} /\ rl'.counted = rl.counted
          /\ rl'.usage = 1 + wake.usage /\ wake'.usage = 0 /\ cost' = cost
      BY <2>1, TakeUsageDoes DEF AnyInv
    <3>2. ~rl.counted
      BY <3>1 DEF Linked, Decides, Deciding
    <3> QED BY <3>1, <3>2, Amounts DEF InHand, AnyInv
  <2>2. CASE Suppress
    <3>1. lastWakeup[rl.n] \in Nat
      <4>1. Busy
        BY <2>2 DEF Suppress, Busy
      <4> QED BY <4>1, AllCurrent
    <3>2. rl.pc = "suppress" /\ cost' = cost + 1 /\ (GivesUp \/ Waits)
      BY <2>2, <3>1, SuppressDoes DEF AnyInv
    <3>3. wake.usage = 0 /\ rl.usage > 0
      BY <2>2, SuppressLinked
    <3>4. CASE GivesUp
      BY <3>2, <3>3, <3>4, Amounts DEF InHand, AnyInv, GivesUp
    <3>5. CASE Waits
      BY <3>2, <3>3, <3>5, Amounts, ReadingIs DEF InHand, AnyInv, Waits
    <3> QED BY <3>2, <3>4, <3>5
  <2>3. CASE CheckLimits
    <3>1. /\ rl.pc = "limits" /\ rl'.pc = "complete" /\ rl'.counted = rl.counted
          /\ rl'.usage = rl.usage /\ cost' = (IF rl.counted THEN cost ELSE cost + 1)
          /\ wake' = wake
      BY <2>3, CheckLimitsDoes DEF AnyInv
    <3>2. rl.usage > 0
      BY <3>1 DEF Linked, Late
    <3> QED BY <3>1, <3>2, Amounts DEF InHand, AnyInv
  <2> QED BY <2>1, <2>2, <2>3
<1>4. /\ wake.usage \in Nat /\ cost \in Nat /\ InTimer \in Nat
      /\ Reported + InHand + wake.usage + InTimer = cost
  BY Amounts DEF Counted, AnyInv
<1>5. Reported + InHand' + wake'.usage + InTimer = cost'
  BY <1>2, <1>3, <1>4
<1> QED BY <1>2, <1>5 DEF Counted

\* The end of a turn: what was in hand is reported.
LEMMA EndCounted ==
    ASSUME AnyInv, InOrder, Distinct, Linked, Counted, Distinct',
           ReadLoopCompletes \/ ReadLoopAnnounces \/ SafetyTimer
    PROVE  Counted'
<1>1. CASE ReadLoopCompletes
  <2>1. /\ rl.pc = "complete" /\ rl'.pc = "announce" /\ Completes(ResultTurn, LoopResult)
        /\ LoopResult.usage = rl.usage /\ UNCHANGED <<cur, wake, cost, cb, strays>>
    BY <1>1, LoopCompletesDoes DEF AnyInv
  <2>2. ResultTurn \in 1 .. cur
    BY <1>1, CompletesLinked, Numbers DEF AnyInv
  <2>3. Reported \in Nat /\ Reported' = Reported + rl.usage
    BY <2>1, <2>2, ReportedRaised, Amounts DEF AnyInv
  <2>4. InHand = rl.usage /\ InHand' = 0 /\ InTimer' = InTimer
    BY <2>1 DEF InHand, InTimer
  <2> QED BY <2>1, <2>3, <2>4, Amounts DEF Counted, AnyInv
<1>2. CASE ReadLoopAnnounces \/ TimerAnnounces
  <2>1. /\ UNCHANGED <<cur, wake, cost>>
        /\ \A t \in Turns : completions'[t].usage = completions[t].usage
    BY <1>2, AnnounceLinked
  <2>2. InHand' = InHand /\ InTimer' = InTimer
    <3>1. CASE ReadLoopAnnounces
      BY <3>1, ReadingIs DEF ReadLoopAnnounces, InHand, InTimer
    <3>2. CASE TimerAnnounces
      BY <3>2, TimerAnnouncesDoes DEF InHand, InTimer, AnyInv
    <3> QED BY <1>2, <3>1, <3>2
  <2> QED BY <2>1, <2>2, CountedKept
<1>3. CASE TimerFires
  <2>1. /\ UNCHANGED cb \/ (cb.pc = "off" /\ cb'.pc = "lock")
        /\ UNCHANGED <<cur, wake, cost, rl, completions>>
    BY <1>3, TimerFiresDoes DEF AnyInv
  <2>2. InHand' = InHand /\ InTimer' = InTimer
    BY <2>1 DEF InHand, InTimer
  <2> QED BY <2>1, <2>2, CountedKept
<1>4. CASE TimerTakesOver
  <2>1. cb.pc = "lock" /\ (TakesOver \/ LooksAway) /\ UNCHANGED <<cur, cost, rl, completions>>
    BY <1>4, TimerTakesOverDoes DEF AnyInv
  <2>2. InHand' = InHand /\ InTimer = 0 /\ Reported' = Reported
    BY <2>1, ReportedKept DEF InHand, InTimer
  <2>3. CASE TakesOver
    <3>1. wake'.usage = 0 /\ InTimer' = wake.usage
      <4>1. cb.usage = wake.usage
        BY <1>4, <2>3, TakesOverLinked
      <4>2. wake'.usage = 0 /\ cb'.pc = "complete" /\ cb'.usage = cb.usage
        BY <2>3 DEF TakesOver
      <4> QED BY <4>1, <4>2 DEF InTimer
    <3>2. Reported \in Nat /\ InHand + wake.usage = wake.usage + InHand
      <4>1. InHand \in Nat
        BY Amounts DEF InHand, AnyInv, Linked, Late
      <4> QED BY <2>1, <4>1, ReportedKept, Amounts DEF AnyInv
    <3>3. InHand \in Nat
      BY Amounts DEF InHand, AnyInv, Linked, Late
    <3> QED BY <2>1, <2>2, <3>1, <3>2, <3>3, Amounts DEF Counted, AnyInv
  <2>4. CASE LooksAway
    <3>1. wake' = wake /\ InTimer' = 0
      BY <2>4 DEF LooksAway, InTimer
    <3> QED BY <2>1, <2>2, <3>1 DEF Counted
  <2> QED BY <2>1, <2>3, <2>4
<1>5. CASE TimerCompletes
  <2>1. /\ cb.pc = "complete" /\ cb'.pc = "announce" /\ Completes(cb.turn, LateResult)
        /\ LateResult.usage = cb.usage /\ UNCHANGED <<cur, wake, cost, rl>>
    BY <1>5, TimerCompletesDoes DEF AnyInv
  <2>2. cb.turn \in 1 .. cur
    BY <1>5, LateLinked
  <2>3. Reported \in Nat /\ Reported' = Reported + cb.usage
    BY <2>1, <2>2, ReportedRaised, Amounts DEF AnyInv
  <2>4. InTimer = cb.usage /\ InTimer' = 0 /\ InHand' = InHand
    BY <2>1 DEF InHand, InTimer
  <2>5. InHand \in Nat
    BY Amounts DEF InHand, AnyInv, Linked, Late
  <2> QED BY <2>1, <2>3, <2>4, <2>5, Amounts DEF Counted, AnyInv
<1>6. CASE Strays
  <2>1. UNCHANGED <<cur, wake, cost, rl, cb, completions>>
    BY <1>6, StrayIdles
  <2>2. InHand' = InHand /\ InTimer' = InTimer
    BY <2>1 DEF InHand, InTimer
  <2> QED BY <2>1, <2>2, CountedKept
<1> QED BY <1>1, <1>2, <1>3, <1>4, <1>5, <1>6 DEF SafetyTimer

LEMMA CountedInit == Init => CountedInv
<1> SUFFICES ASSUME Init PROVE Counted
  BY DEF CountedInv
<1>1. cur = 0 /\ rl.pc = "read" /\ wake.usage = 0 /\ cb.pc = "off" /\ cost = 0
  BY ReadingIs, ResetIs DEF Init
<1>2. Reported = 0
  BY <1>1, ReportedIs, TotalNone
<1> QED BY <1>1, <1>2 DEF Counted, InHand, InTimer

LEMMA CountedStep ==
    ASSUME AnyInv, SerialInv, LinkedInv, CountedInv, [Next]_vars
    PROVE  CountedInv'
<1> SUFFICES ASSUME Distinct' PROVE Counted'
  BY DEF CountedInv
<1>1. Distinct /\ Linked /\ InOrder /\ Counted
  BY DistinctBefore DEF LinkedInv, SerialInv, CountedInv, Distinct
<1>2. ASSUME UNCHANGED <<cur, wake, cost, rl, cb, completions>> PROVE Counted'
  <2>1. InHand' = InHand /\ InTimer' = InTimer
    BY <1>2 DEF InHand, InTimer
  <2> QED BY <1>1, <1>2, <2>1, CountedKept
<1>3. ASSUME NEW c \in Caller, Ask(c) PROVE Counted'
  <2>1. CASE SendMessage(c)
    BY <1>1, <2>1, SendCounted
  <2>2. CASE WaitForTurn(c) \/ CancelWait(c)
    BY <1>2, <2>2, WaitDoes DEF AnyInv, Machine
  <2> QED BY <1>3, <2>1, <2>2 DEF Ask
<1>4. CASE ReadLoop
  BY <1>1, <1>4, HandleCounted, WaveCounted, EndCounted DEF ReadLoop
<1>5. CASE SafetyTimer
  BY <1>1, <1>5, EndCounted
<1>6. ~Stop
  BY StopDoes DEF AnyInv, Distinct
<1>7. CASE Cli
  <2>1. UNCHANGED Session
    BY <1>7, CliTakesDoes, CliContinuesDoes, CliSchedulesDoes, CliApiErrorDoes, CliResultDoes
       DEF Cli, AnyInv
  <2> QED BY <1>2, <2>1 DEF Session
<1>8. CASE UNCHANGED vars
  BY <1>2, <1>8 DEF vars
<1> QED BY <1>3, <1>4, <1>5, <1>6, <1>7, <1>8 DEF Next

LEMMA CountedAlways == Spec => [](AnyInv /\ SerialInv /\ LinkedInv /\ CountedInv)
BY AnyInit, AnyStep, SerialInit, SerialStep, LinkedInit, LinkedStep, CountedInit, CountedStep,
   PTL DEF Spec

\* A turn is reported once, as a whole, and after it is recorded.
THEOREM Reports == Spec => []ReportedOnce
<1> SUFFICES ASSUME TypeOK, AnnouncedIsRecorded, AnyInv, LinkedInv, CountedInv PROVE ReportedOnce
  BY CountedAlways, Typed, PTL
<1>1. CompletedOnce
  <2> SUFFICES ASSUME Distinct, NEW t \in Turns PROVE completions[t].done <= 1
    BY DEF CompletedOnce
  <2>1. completions[t].done = IF results[t].done THEN 1 ELSE 0
    BY DEF LinkedInv, Linked, Completing
  <2> QED BY <2>1
<1>2. UsageReported
  <2> SUFFICES ASSUME AtRest, Distinct PROVE Reported = cost
    BY DEF UsageReported
  <2>1. rl.pc = "read" /\ cb.pc = "off" /\ ~wake.active
    BY DEF AtRest
  <2>2. InHand = 0 /\ InTimer = 0 /\ wake.usage = 0
    BY <2>1 DEF InHand, InTimer, LinkedInv, Linked, Late
  <2>3. Reported \in Nat
    <3>1. cur \in Nat /\ \A t \in 1 .. cur : t \in Turns /\ completions[t].usage \in Nat
      <4>1. \A t \in Turns : completions[t].usage \in Nat
        BY DEF AnyInv, Shape
      <4> QED BY <4>1, Numbers DEF AnyInv
    <3> QED BY <3>1, TotalKept, ReportedIs
  <2> QED BY <2>2, <2>3 DEF CountedInv, Counted
<1> QED BY <1>1, <1>2 DEF ReportedOnce
=============================================================================
