----------------------------- MODULE TmuxProofs -----------------------------
(***************************************************************************)
(* What holds of TmuxSession for any agents, writers and scenarios.  Three *)
(* invariants: what is recorded of the session (RecordInv), what bramble   *)
(* makes of the agent's turns where writes and polls do not fall into one  *)
(* another (TurnInv), and who has a hint on its way (HintInv).             *)
(***************************************************************************)
EXTENDS TmuxSession, TLAPS

Monitors == [pc : {"off", "wait", "poll", "apply", "window", "persist", "drop",
                   "stopped", "defer"},
             kind : {"run", "adopt"}, status : Active \cup Terminal, epoch : Nat,
             act : {"none", "idle", "running"}, natural : BOOLEAN]
Writers == [pc : {"idle", "claim", "look", "paste", "mark", "enter"}, started : BOOLEAN]
Composers == [human : BOOLEAN, hints : Nat, input : BOOLEAN]
Trackers == [idle : Nat, working : Nat, epoch : Nat]
Records == [status : Active \cup Terminal \cup {"none"}, out : {"none", "empty", "lines"}]

\* What the variables hold, in full.
Shape ==
    /\ TypeOK /\ store \in Records /\ ghost \in [stopped : BOOLEAN, deleted : BOOLEAN]
    /\ mgr = "down" => /\ mon = NoMonitor /\ ~inMap /\ ~listed /\ status = "Running" /\ epoch = 0
                       /\ tracker = Fresh
                       /\ \A w \in Writer : writer[w].pc = "idle"

-----------------------------------------------------------------------------
(* The record. *)

Loop == {"wait", "poll", "apply", "window"}

\* A session whose loop runs is active; one that has left it is not, and stays as it is.
Ending ==
    /\ mon.pc \in Loop => status \in Active /\ ~mon.natural
    /\ mon.pc \in {"persist", "drop", "stopped", "defer"} => status \in Terminal
    /\ mon.pc = "drop" => mon.natural
    /\ mon.pc = "stopped" => mon.kind = "adopt"

\* A recorded end is that of the session, as long as somebody may record it again.
Final ==
    mgr # "down" /\ store.status \in Terminal =>
        status = store.status \/ (mon.pc = "off" /\ ~listed /\ ~inMap)

\* Nobody is left who would write a deleted record.
Deleted ==
    ghost.deleted /\ ~Overlap =>
        store = NoRecord /\ mon.pc = "off" /\ ~inMap /\ (mgr = "listed" => ~listed)

\* Whoever records a session that bramble started has its output.
Output ==
    /\ mon.kind = "run" /\ inMap => outputs = "lines"
    /\ ~Overlap => /\ mon.kind = "run" /\ mon.pc # "off" /\ ~(mon.pc = "defer" /\ mon.natural)
                        => outputs = "lines"
                   /\ mgr = "listed" => mon.pc \in {"wait", "off"} /\ (listed => inMap)

RecordInv == Ending /\ Final /\ Deleted /\ Output

-----------------------------------------------------------------------------
(* The turns. *)

\* The agent's turn is one that bramble marked, and was not told the end of.
Working == agent = "working" /\ origin = "marked"
Entering(w) == writer[w].pc = "enter"

\* Between the mark and the Enter there is no poll and no other write.
Serial ==
    /\ \A w \in Writer : Entering(w) => mon.pc \in {"wait", "off"}
    /\ \A v, w \in Writer : Entering(v) /\ Entering(w) => v = w

Epochs == tracker.epoch <= epoch /\ (mon.pc = "poll" => mon.epoch = epoch)

\* A streak of the turn's own epoch is one poll long, of the pane that is not
\* repainted yet.
Streak ==
    Working /\ tracker.epoch = epoch =>
        tracker.idle <= 1 /\ (tracker.idle = 1 => polled \/ pane = "working")

Decided == mon.pc = "apply" /\ mon.act = "idle" => ~Working
Believed == status = "Idle" => ~Working

\* A write that marked a turn found no other at work, and its turn has no streak.
Undoable ==
    \A w \in Writer : Entering(w) /\ writer[w].started => ~Working /\ tracker.epoch < epoch

TurnInv ==
    /\ agent = "working" => window = "alive"
    /\ ~Overlap => Serial /\ Epochs /\ Streak /\ Decided /\ Believed /\ Undoable

-----------------------------------------------------------------------------
(* The hints. *)

\* A worker that has the claim, until it gives it back.
Owning(w) == writer[w].pc \in {"look", "paste", "mark", "enter"}

HintInv ==
    /\ \A w \in Worker : Owning(w) => claimed
    /\ \A v, w \in Worker : Owning(v) /\ Owning(w) => v = w
    /\ \A w \in Client : writer[w].pc \notin {"claim", "look"}
    /\ ComposerReadable => /\ composer.hints <= 1
                           /\ \A w \in Worker : writer[w].pc = "paste" => composer.hints = 0

IInv == Shape /\ RecordInv /\ TurnInv /\ HintInv

-----------------------------------------------------------------------------
(* The shape of the state. *)

\* A streak counts polls.
LEMMA CountNat ==
    ASSUME NEW n \in Nat, provider \in Providers
    PROVE  Count(n) \in Nat /\ (n = 0 => Count(n) = 1)
  BY DEF Count, Confirmations, Providers

\* What Goto and Done make of a writer.
LEMMA Goes ==
    ASSUME writer \in [Writer -> Writers], NEW w \in Writer,
           NEW pc \in {"idle", "claim", "look", "paste", "mark", "enter"}, Goto(w, pc)
    PROVE  writer' \in [Writer -> Writers]
  BY DEF Goto, Writers

LEMMA Finishes ==
    ASSUME writer \in [Writer -> Writers], NEW w \in Writer, Done(w)
    PROVE  writer' \in [Writer -> Writers]
  BY DEF Done, Writers

\* The steps that may change what is more than a flag.
LEMMA Touched ==
    ASSUME Next
    PROVE  /\ \/ mon' = mon \/ TickReads \/ Poll \/ Apply \/ CheckWindow \/ PersistEnd \/ Drop
              \/ SeesCancel \/ AdoptedStops \/ Deferred \/ Exits \/ Crashes \/ Restarts
           /\ tracker' = tracker \/ Poll \/ Exits \/ Crashes
           /\ \/ writer' = writer \/ Exits \/ Crashes
              \/ \E w \in Writer : \/ Hint(w) \/ SendInput(w) \/ ClaimNudge(w) \/ Look(w)
                                    \/ Paste(w) \/ MarkRunning(w) \/ Enter(w)
           /\ \/ composer' = composer \/ HumanTypes \/ HumanSubmits
              \/ \E how \in {"exited", "failed", "gone"} : AgentExits(how)
              \/ \E w \in Writer : Paste(w) \/ Enter(w)
           /\ store' = store \/ PersistEnd \/ Deferred \/ DeleteSession \/ ClosePersists \/ Restarts
<1> USE DEF Next, Monitor, Write, win, turn, sess, proc, TurnEnds, PrematureHook, Repaint,
    HumanTypes, HumanSubmits, AgentExits, HookArrives, TickReads, Poll, Apply, CheckWindow,
    PersistEnd, Drop, SeesCancel, AdoptedStops, Deferred, Capture, Hint, SendInput,
    ClaimNudge, Look, Paste, MarkRunning, Enter, StopSession, DeleteSession, CloseLists,
    ClosePersists, CloseCancels, Exits, Crashes, Restarts, Submit, SetStatus, TryMove,
    Update, Persist, At, Goto, Done, Ends
<1>1. \/ mon' = mon \/ TickReads \/ Poll \/ Apply \/ CheckWindow \/ PersistEnd \/ Drop \/ SeesCancel
      \/ AdoptedStops \/ Deferred \/ Exits \/ Crashes \/ Restarts
  OBVIOUS
<1>2. tracker' = tracker \/ Poll \/ Exits \/ Crashes
  OBVIOUS
<1>3. \/ writer' = writer \/ Exits \/ Crashes
      \/ \E w \in Writer : \/ Hint(w) \/ SendInput(w) \/ ClaimNudge(w) \/ Look(w)
                            \/ Paste(w) \/ MarkRunning(w) \/ Enter(w)
  OBVIOUS
<1>4. \/ composer' = composer \/ HumanTypes \/ HumanSubmits
      \/ \E how \in {"exited", "failed", "gone"} : AgentExits(how)
      \/ \E w \in Writer : Paste(w) \/ Enter(w)
  OBVIOUS
<1>5. store' = store \/ PersistEnd \/ Deferred \/ DeleteSession \/ ClosePersists \/ Restarts
  OBVIOUS
<1> QED BY ZenonT(30), <1>1, <1>2, <1>3, <1>4, <1>5

\* The flags, the places and the budget, one by one.
LEMMA PlainKept ==
    ASSUME Shape, Next
    PROVE  /\ provider' \in Providers
           /\ origin' \in {"marked", "written", "human", "reported", "adopted"}
           /\ status' \in Active \cup Terminal
           /\ epoch' \in Nat
           /\ inMap' \in BOOLEAN
           /\ cancelled' \in BOOLEAN
           /\ claimed' \in BOOLEAN
           /\ outputs' \in {"none", "empty", "lines"}
           /\ agent' \in {"working", "waiting"}
           /\ pane' \in {"working", "idle"}
           /\ polled' \in BOOLEAN
           /\ changed' \in BOOLEAN
           /\ notes' \in Nat
           /\ window' \in {"alive", "exited", "failed", "gone"}
           /\ mgr' \in {"up", "listed", "persisted", "cancelled", "down"}
           /\ listed' \in BOOLEAN
           /\ left' \in [Events -> Nat]
           /\ ghost' \in [stopped : BOOLEAN, deleted : BOOLEAN]
           /\ (mgr = "down" => mon = NoMonitor)'
           /\ (mgr = "down" => ~inMap /\ ~listed)'
           /\ (mgr = "down" => status = "Running" /\ epoch = 0 /\ tracker = Fresh)'
           /\ (mgr = "down" => \A w \in Writer : writer[w].pc = "idle")'
<1> USE DEF Next, Monitor, Write, win, turn, sess, proc, Shape, TypeOK, Active, Terminal,
    Up, Spend, TurnEnds, PrematureHook, Repaint, HumanTypes, HumanSubmits, AgentExits,
    HookArrives, TickReads, Poll, Apply, CheckWindow, PersistEnd, Drop, SeesCancel,
    AdoptedStops, Deferred, Capture, Hint, SendInput, ClaimNudge, Look, Paste, MarkRunning,
    Enter, StopSession, DeleteSession, CloseLists, ClosePersists, CloseCancels, Exits,
    Crashes, Restarts, Submit, SetStatus, TryMove, Update, Persist, At, Goto, Done, Ends
<1>1. provider' \in Providers
  OBVIOUS
<1>2. origin' \in {"marked", "written", "human", "reported", "adopted"}
  OBVIOUS
<1>3. status' \in Active \cup Terminal
  OBVIOUS
<1>4. epoch' \in Nat
  OBVIOUS
<1>5. inMap' \in BOOLEAN
  OBVIOUS
<1>6. cancelled' \in BOOLEAN
  OBVIOUS
<1>7. claimed' \in BOOLEAN
  OBVIOUS
<1>8. outputs' \in {"none", "empty", "lines"}
  OBVIOUS
<1>9. agent' \in {"working", "waiting"}
  OBVIOUS
<1>10. pane' \in {"working", "idle"}
  BY DEF View
<1>11. polled' \in BOOLEAN
  OBVIOUS
<1>12. changed' \in BOOLEAN
  OBVIOUS
<1>13. notes' \in Nat
  OBVIOUS
<1>14. window' \in {"alive", "exited", "failed", "gone"}
  OBVIOUS
<1>15. mgr' \in {"up", "listed", "persisted", "cancelled", "down"}
  OBVIOUS
<1>16. listed' \in BOOLEAN
  OBVIOUS
<1>17. left' \in [Events -> Nat]
  BY DEF Events
<1>18. ghost' \in [stopped : BOOLEAN, deleted : BOOLEAN]
  OBVIOUS
<1>19. (mgr = "down" => mon = NoMonitor)'
  OBVIOUS
<1>20. (mgr = "down" => ~inMap /\ ~listed)'
  OBVIOUS
<1>21. (mgr = "down" => status = "Running" /\ epoch = 0 /\ tracker = Fresh)'
  OBVIOUS
<1>22. (mgr = "down" => \A w \in Writer : writer[w].pc = "idle")'
  OBVIOUS
<1> QED BY <1>1, <1>2, <1>3, <1>4, <1>5, <1>6, <1>7, <1>8, <1>9, <1>10, <1>11, <1>12, <1>13,
    <1>14, <1>15, <1>16, <1>17, <1>18, <1>19, <1>20, <1>21, <1>22

\* The monitor stays a monitor.
LEMMA MonitorKept ==
    ASSUME Shape, Next
    PROVE  mon' \in Monitors
<1>1. /\ mon \in Monitors /\ status \in Active \cup Terminal /\ epoch \in Nat
      /\ NoMonitor \in Monitors
  BY DEF Shape, TypeOK, Monitors, NoMonitor, Active
<1>2. CASE mon' = mon
  BY <1>1, <1>2
<1>3. CASE TickReads
  BY <1>1, <1>3 DEF TickReads, Undisturbed, Monitors, NoMonitor, sess
<1>4. CASE Poll
  <2>1. \E a \in {"none", "idle", "running"} : mon' = [mon EXCEPT !.pc = "apply", !.act = a]
    BY <1>4 DEF Poll
  <2> QED BY <1>1, <2>1 DEF Monitors
<1>5. CASE Apply
  BY <1>1, <1>5 DEF Apply, Monitors, Active
<1>6. CASE CheckWindow
  BY <1>1, <1>6 DEF CheckWindow, Update, Monitors, NoMonitor, sess
<1>7. CASE PersistEnd
  BY <1>1, <1>7 DEF PersistEnd, Persist, Monitors, NoMonitor, sess
<1>8. CASE Drop
  BY <1>1, <1>8 DEF Drop, Monitors, NoMonitor, sess
<1>9. CASE SeesCancel
  BY <1>1, <1>9 DEF SeesCancel, Update, Undisturbed, Monitors, NoMonitor, sess
<1>10. CASE AdoptedStops
  BY <1>1, <1>10 DEF AdoptedStops, Monitors, NoMonitor, sess
<1>11. CASE Deferred
  BY <1>1, <1>11 DEF Deferred, Persist, Monitors, NoMonitor, sess
<1>12. CASE Exits
  BY <1>1, <1>12 DEF Exits, Ends
<1>13. CASE Crashes
  BY <1>1, <1>13 DEF Crashes, Ends
<1>14. CASE Restarts
  <2>1. mon' = mon \/ mon' = [NoMonitor EXCEPT !.pc = "wait", !.kind = "adopt"]
    BY <1>14 DEF Restarts, sess
  <2>2. [NoMonitor EXCEPT !.pc = "wait", !.kind = "adopt"] \in Monitors
    BY DEF NoMonitor, Monitors, Active
  <2> QED BY <1>1, <2>1, <2>2
<1> QED BY Touched, <1>2, <1>3, <1>4, <1>5, <1>6, <1>7, <1>8, <1>9, <1>10, <1>11, <1>12,
    <1>13, <1>14

\* The streaks stay streaks.
LEMMA TrackerKept ==
    ASSUME Shape, Next
    PROVE  tracker' \in Trackers
<1>1. tracker \in Trackers /\ mon.epoch \in Nat /\ provider \in Providers
  BY DEF Shape, TypeOK, Monitors, Writers, Trackers, Records
<1>2. CASE tracker' = tracker
  BY <1>1, <1>2
<1>3. CASE Poll
  <2> DEFINE t == ForTurn(tracker, mon.epoch)
  <2>1. t \in Trackers
    BY <1>1 DEF ForTurn, Fresh, Trackers
  <2>2. ObserveIdle(t) \in Trackers
    BY <1>1, <2>1, CountNat DEF ObserveIdle, Trackers
  <2>3. ObserveWorking(t) \in Trackers
    BY <1>1, <2>1, CountNat DEF ObserveWorking, Trackers
  <2>4. \E s \in {tracker, t, ObserveIdle(t), ObserveWorking(t)} :
            tracker' \in {s, [s EXCEPT !.idle = 0, !.working = 0]}
    <3> HIDE DEF t
    <3>1. tracker' \in {t, ObserveIdle(t), ObserveWorking(t),
                        [ObserveWorking(t) EXCEPT !.idle = 0, !.working = 0],
                        [tracker EXCEPT !.idle = 0, !.working = 0]}
      BY <1>3 DEF Poll, t
    <3> QED BY <3>1
  <2>5. \A s \in Trackers : [s EXCEPT !.idle = 0, !.working = 0] \in Trackers
    BY DEF Trackers
  <2> HIDE DEF t
  <2> QED BY <1>1, <2>1, <2>2, <2>3, <2>4, <2>5 DEF Trackers
<1>4. CASE Exits
  BY <1>1, <1>4 DEF Exits, Ends, Fresh, Trackers
<1>5. CASE Crashes
  BY <1>1, <1>5 DEF Crashes, Ends, Fresh, Trackers
<1> QED BY Touched, <1>2, <1>3, <1>4, <1>5

\* A writer stays a writer.
LEMMA WriterKept ==
    ASSUME Shape, Next
    PROVE  writer' \in [Writer -> Writers]
<1>1. writer \in [Writer -> Writers] /\ (inMap \in BOOLEAN)
  BY DEF Shape, TypeOK, Monitors, Writers, Trackers, Records
<1>2. CASE writer' = writer
  BY <1>1, <1>2
<1>3. ASSUME NEW w \in Writer, ClaimNudge(w) PROVE writer' \in [Writer -> Writers]
  BY <1>3, <1>1, Goes, Finishes DEF ClaimNudge, At, Goto, Done, Writers
<1>4. ASSUME NEW w \in Writer, Look(w) PROVE writer' \in [Writer -> Writers]
  BY <1>4, <1>1, Goes, Finishes DEF Look, At, Goto, Done, ComposerReadable, Writers
<1>5. ASSUME NEW w \in Writer, Paste(w) PROVE writer' \in [Writer -> Writers]
  BY <1>5, <1>1, Goes, Finishes DEF Paste, At, Goto, Done, Writers
<1>6. ASSUME NEW w \in Writer, MarkRunning(w) PROVE writer' \in [Writer -> Writers]
  BY <1>6, <1>1, Goes, Finishes DEF MarkRunning, At, Calm, MyTurn, SetStatus, TryMove,
      Writers
<1>7. ASSUME NEW w \in Writer, Enter(w) PROVE writer' \in [Writer -> Writers]
  BY <1>7, <1>1, Goes, Finishes DEF Enter, At, Done, Submit, SetStatus, TryMove, Writers
<1>8. ASSUME NEW w \in Writer, Hint(w) PROVE writer' \in [Writer -> Writers]
  BY <1>8, <1>1, Goes, Finishes DEF Hint, At, Goto, Writers
<1>9. ASSUME NEW w \in Writer, SendInput(w) PROVE writer' \in [Writer -> Writers]
  BY <1>9, <1>1, Goes, Finishes DEF SendInput, At, Goto, Writers
<1>10. CASE Exits
  BY <1>10 DEF Exits, Ends, Writers
<1>11. CASE Crashes
  BY <1>11 DEF Crashes, Ends, Writers
<1> QED BY Touched, <1>2, <1>3, <1>4, <1>5, <1>6, <1>7, <1>8, <1>9, <1>10, <1>11

\* The composer stays one.
LEMMA ComposerKept ==
    ASSUME Shape, Next
    PROVE  composer' \in Composers
<1>1. composer \in Composers /\ NoText \in Composers
  BY DEF Shape, TypeOK, Composers, NoText
<1>2. CASE composer' = composer
  BY <1>1, <1>2
<1>3. CASE HumanTypes
  BY <1>1, <1>3 DEF HumanTypes, Composers
<1>4. CASE HumanSubmits
  <2>1. composer' = composer \/ composer' = NoText
    BY <1>4 DEF HumanSubmits, Submit
  <2> QED BY <1>1, <2>1
<1>5. ASSUME NEW how \in {"exited", "failed", "gone"}, AgentExits(how) PROVE composer' \in Composers
  BY <1>1, <1>5 DEF AgentExits
<1>6. ASSUME NEW w \in Writer, Paste(w) PROVE composer' \in Composers
  <2>1. \/ composer' = composer
        \/ composer' = [composer EXCEPT !.hints = @ + 1]
        \/ composer' = [composer EXCEPT !.input = TRUE]
    BY <1>6 DEF Paste, Done
  <2>2. composer.hints + 1 \in Nat
    BY <1>1 DEF Composers
  <2>3. [composer EXCEPT !.hints = @ + 1] \in Composers
    BY <1>1, <2>2 DEF Composers
  <2>4. [composer EXCEPT !.input = TRUE] \in Composers
    BY <1>1 DEF Composers
  <2> QED BY <1>1, <2>1, <2>3, <2>4
<1>7. ASSUME NEW w \in Writer, Enter(w) PROVE composer' \in Composers
  <2>1. composer' = composer \/ composer' = NoText
    BY <1>7 DEF Enter, Submit
  <2> QED BY <1>1, <2>1
<1> QED BY Touched, <1>2, <1>3, <1>4, <1>5, <1>6, <1>7

\* The record stays a record.
LEMMA StoreKept ==
    ASSUME Shape, Next
    PROVE  store' \in Records /\ store'.status \in Active \cup Terminal \cup {"none"}
<1>1. store \in Records /\ status \in Active \cup Terminal
  BY DEF Shape, TypeOK, Monitors, Writers, Trackers, Records
<1>2. CASE store' = store
  BY <1>1, <1>2 DEF Records
<1>3. CASE PersistEnd
  BY <1>1, <1>3 DEF PersistEnd, Persist, Records, NoRecord, Active, Terminal
<1>4. CASE Deferred
  BY <1>1, <1>4 DEF Deferred, Persist, Records, NoRecord, Active, Terminal
<1>5. CASE DeleteSession
  BY <1>1, <1>5 DEF DeleteSession, Undisturbed, Records, NoRecord, Active, Terminal
<1>6. CASE ClosePersists
  BY <1>1, <1>6 DEF ClosePersists, Calm, Persist, Records, NoRecord, Active, Terminal
<1>7. CASE Restarts
  BY <1>1, <1>7 DEF Restarts, Records, NoRecord, Active, Terminal
<1> QED BY Touched, <1>2, <1>3, <1>4, <1>5, <1>6, <1>7

\* The variables keep their shape.
LEMMA ShapeKept ==
    ASSUME Shape, Next
    PROVE  Shape'
<1>1. TypeOK'
  BY PlainKept, MonitorKept, TrackerKept, WriterKept, ComposerKept, StoreKept
  DEF TypeOK, Monitors, Trackers, Writers, Composers
<1> QED BY <1>1, PlainKept, StoreKept DEF Shape

\* A poll changes the monitor's place and verdict, the streaks, and whether the
\* pane was seen outdated; nothing else.
LEMMA PollMoves ==
    ASSUME Shape, Poll
    PROVE  /\ mon.pc = "poll" /\ mon'.pc = "apply"
           /\ mon'.natural = mon.natural /\ mon'.kind = mon.kind /\ mon'.epoch = mon.epoch
           /\ UNCHANGED <<provider, sess, writer, claimed, agent, pane, composer, window,
                          origin, proc, ghost, left>>
<1>1. mon \in Monitors
  BY DEF Shape, TypeOK, Monitors
<1>2. \E a \in {"none", "idle", "running"} : mon' = [mon EXCEPT !.pc = "apply", !.act = a]
  BY DEF Poll
<1>3. /\ mon'.pc = "apply" /\ mon'.natural = mon.natural /\ mon'.kind = mon.kind
      /\ mon'.epoch = mon.epoch
  BY <1>1, <1>2 DEF Monitors
<1> QED BY <1>3 DEF Poll

\* Every step keeps what is known of the session's record.
LEMMA RecordKeptBy ==
    ASSUME Shape, RecordInv, Overlap' <=> Overlap, Next
    PROVE  RecordInv'
<1> USE WritersDiffer DEF Shape, TypeOK, Records, Active, Terminal, NoRecord, NoMonitor,
    RecordInv, Ending, Loop, Final, Deleted, Output, win, turn, sess, proc, Spend, Up
<1>1. CASE TurnEnds
  BY <1>1 DEF TurnEnds
<1>2. CASE PrematureHook
  BY <1>2 DEF PrematureHook
<1>3. CASE Repaint
  BY <1>3 DEF Repaint
<1>4. CASE HumanTypes
  BY <1>4 DEF HumanTypes, NoWriter
<1>5. CASE HumanSubmits
  BY <1>5 DEF HumanSubmits, Submit
<1>6. ASSUME NEW how \in {"exited", "failed", "gone"}, AgentExits(how) PROVE RecordInv'
  BY <1>6 DEF AgentExits
<1>7. CASE HookArrives
  BY <1>7 DEF HookArrives, SetStatus, TryMove
<1>8. CASE TickReads
  BY <1>8 DEF TickReads, Undisturbed
<1>9. CASE Poll
  BY <1>9, PollMoves
<1>10. CASE Apply
  BY <1>10 DEF Apply, SetStatus, TryMove
<1>11. CASE CheckWindow
  <2>1. /\ mon'.kind = mon.kind /\ mon'.epoch = mon.epoch /\ mon.pc = "window"
        /\ UNCHANGED <<provider, inMap, outputs, cancelled, tracker, writer, claimed,
                       agent, pane, polled, composer, window, origin, proc, ghost, left, epoch>>
    BY <1>11 DEF CheckWindow, Update
  <2>2. \/ mon'.pc = "wait" /\ mon'.natural = mon.natural /\ status' = status
        \/ mon'.pc = "persist" /\ status' \in {"Completed", "Failed"}
    BY <1>11 DEF CheckWindow, Update
  <2> QED BY <2>1, <2>2
<1>12. CASE PersistEnd
  BY <1>12 DEF PersistEnd, Persist
<1>13. CASE Drop
  BY <1>13 DEF Drop
<1>14. CASE SeesCancel
  BY <1>14 DEF SeesCancel, Update, Undisturbed
<1>15. CASE AdoptedStops
  BY <1>15 DEF AdoptedStops
<1>16. CASE Deferred
  BY <1>16 DEF Deferred, Persist
<1>17. CASE Capture
  BY <1>17 DEF Capture, TryMove
<1>18. ASSUME NEW w \in Writer, Hint(w) PROVE RecordInv'
  BY <1>18 DEF Hint, At, Goto
<1>19. ASSUME NEW w \in Writer, SendInput(w) PROVE RecordInv'
  BY <1>19 DEF SendInput, At, Goto
<1>20. ASSUME NEW w \in Writer, ClaimNudge(w) PROVE RecordInv'
  BY SMTT(30), <1>20 DEF ClaimNudge, At, Goto, Done
<1>21. ASSUME NEW w \in Writer, Look(w) PROVE RecordInv'
  BY <1>21 DEF Look, At, Goto, Done, ComposerReadable
<1>22. ASSUME NEW w \in Writer, Paste(w) PROVE RecordInv'
  BY <1>22 DEF Paste, At, Goto, Done
<1>23. ASSUME NEW w \in Writer, MarkRunning(w) PROVE RecordInv'
  BY <1>23 DEF MarkRunning, At, Calm, MyTurn, SetStatus, TryMove
<1>24. ASSUME NEW w \in Writer, Enter(w) PROVE RecordInv'
  BY <1>24 DEF Enter, At, Done, Submit, SetStatus, TryMove
<1>25. CASE StopSession
  BY <1>25 DEF StopSession
<1>26. CASE DeleteSession
  BY <1>26 DEF DeleteSession, Undisturbed
<1>27. CASE CloseLists
  BY <1>27 DEF CloseLists, Calm
<1>28. CASE ClosePersists
  BY <1>28 DEF ClosePersists, Calm, Persist
<1>29. CASE CloseCancels
  BY <1>29 DEF CloseCancels
<1>30. CASE Exits
  BY <1>30 DEF Exits, Ends
<1>31. CASE Crashes
  BY <1>31 DEF Crashes, Ends
<1>32. CASE Restarts
  <2>1. CASE store.status \notin Active
    BY <1>32, <2>1 DEF Restarts
  <2>2. CASE store.status \in Active /\ window = "gone"
    BY <1>32, <2>2 DEF Restarts
  <2>3. CASE store.status \in Active /\ window # "gone"
    <3>1. /\ mon'.pc = "wait" /\ mon'.kind = "adopt" /\ mon'.natural = FALSE /\ mon'.epoch = 0
          /\ mon'.act = "none"
      BY <1>32, <2>3 DEF Restarts
    <3>2. /\ status' = store.status /\ epoch' = 0 /\ inMap' = TRUE /\ mgr' = "up" /\ mgr = "down"
          /\ UNCHANGED <<store, tracker, writer, claimed, agent, pane, window, listed, ghost, left>>
          /\ origin' = IF store.status = "Idle" THEN "adopted" ELSE origin
      BY <1>32, <2>3 DEF Restarts
    <3> QED BY <2>3, <3>1, <3>2
  <2> QED BY <2>1, <2>2, <2>3
<1> QED BY <1>1, <1>2, <1>3, <1>4, <1>5, <1>6, <1>7, <1>8, <1>9, <1>10, <1>11, <1>12, <1>13,
    <1>14, <1>15, <1>16, <1>17, <1>18, <1>19, <1>20, <1>21, <1>22, <1>23, <1>24, <1>25,
    <1>26, <1>27, <1>28, <1>29, <1>30, <1>31, <1>32 DEF Next, Monitor, Write

\* The streaks after a poll belong to the turn they belonged to, or to the one polled.
LEMMA PolledEpoch ==
    ASSUME Shape, Poll
    PROVE  tracker'.epoch \in {tracker.epoch, mon.epoch}
<1> DEFINE t == ForTurn(tracker, mon.epoch)
<1>1. tracker \in Trackers /\ mon.epoch \in Nat /\ provider \in Providers
  BY DEF Shape, TypeOK, Trackers
<1>2. t \in Trackers /\ t.epoch \in {tracker.epoch, mon.epoch}
  BY <1>1 DEF ForTurn, Fresh, Trackers
<1>3. /\ ObserveIdle(t) \in Trackers /\ ObserveIdle(t).epoch = t.epoch
      /\ ObserveWorking(t) \in Trackers /\ ObserveWorking(t).epoch = t.epoch
  BY <1>1, <1>2, CountNat DEF ObserveIdle, ObserveWorking, Trackers
<1>4. tracker' \in {t, ObserveIdle(t), ObserveWorking(t),
                        [ObserveWorking(t) EXCEPT !.idle = 0, !.working = 0],
                    [tracker EXCEPT !.idle = 0, !.working = 0]}
  <2> HIDE DEF t
  <2> QED BY DEF Poll, t
<1> HIDE DEF t
<1> QED BY <1>1, <1>2, <1>3, <1>4 DEF Trackers

\* One poll of a pane that still shows the turn before is no confirmation.
LEMMA PollStreak ==
    ASSUME Shape, TurnInv, Streak, mon.epoch = epoch, Poll
    PROVE  Streak' /\ Decided'
<1> DEFINE t == ForTurn(tracker, mon.epoch)
           i == ObserveIdle(t)
           k == ObserveWorking(t)
           need == Confirmations[provider]
<1>1. /\ tracker \in Trackers /\ mon \in Monitors /\ epoch \in Nat /\ provider \in Providers
      /\ agent \in {"working", "waiting"} /\ pane \in {"working", "idle"} /\ polled \in BOOLEAN
  BY DEF Shape, TypeOK, Trackers, Monitors
<1>2. t \in Trackers /\ t.epoch = epoch /\ (tracker.epoch = epoch => t = tracker)
      /\ (tracker.epoch # epoch => t.idle = 0)
  BY <1>1 DEF ForTurn, Fresh, Trackers
<1>3. need \in {2, 5}
  BY <1>1 DEF Confirmations, Providers
<1>4. /\ i.idle = IF pane = "idle" THEN Count(t.idle) ELSE 0
      /\ i.epoch = epoch
      /\ k.idle = t.idle /\ k.epoch = epoch /\ k \in Trackers
  BY <1>1, <1>2, CountNat DEF ObserveIdle, ObserveWorking, Trackers
<1>5. UNCHANGED <<epoch, agent, pane, window, origin, status>>
      /\ ~(polled /\ pane # View) /\ (polled' <=> window = "alive" /\ pane # View)
  BY DEF Poll, sess, turn
<1>6. Working /\ pane = "idle" => t.idle = 0
  BY <1>1, <1>2, <1>5 DEF Streak, View, Working, Trackers
<1>7. /\ Working => polled' \/ pane = "working"
      /\ window # "alive" => ~Working
      /\ Working' <=> Working
  BY <1>1, <1>5 DEF View, Working, TurnInv
<1>8. Working => /\ i.idle <= 1
                 /\ t.idle <= 1
  BY <1>1, <1>2, <1>4, <1>6, CountNat DEF Streak, Trackers
<1> HIDE DEF t, i, k, need
<1>9. mon' = [mon EXCEPT !.pc = "apply", !.act = mon'.act]
      /\ \/ tracker' = [tracker EXCEPT !.idle = 0, !.working = 0] /\ mon'.act = "none"
         \/ window # "alive" /\ tracker' = t /\ mon'.act = "none"
         \/ tracker' = i /\ mon'.act = (IF i.idle = need THEN "idle" ELSE "none")
         \/ tracker' = [k EXCEPT !.idle = 0, !.working = 0] /\ mon'.act = "running"
         \/ tracker' = k /\ mon'.act = "none"
  BY <1>1 DEF Poll, Monitors, t, i, k, need
<1>10. Streak'
  <2>1. CASE \/ tracker' = [tracker EXCEPT !.idle = 0, !.working = 0]
             \/ tracker' = [k EXCEPT !.idle = 0, !.working = 0]
    <3>1. tracker'.idle = 0
      BY <2>1, <1>1, <1>4 DEF Trackers
    <3> QED BY <3>1 DEF Streak
  <2>2. CASE tracker'.idle \in {t.idle, i.idle}
    <3>1. Working => tracker'.idle <= 1
      BY <2>2, <1>8
    <3> QED BY <3>1, <1>5, <1>7 DEF Streak
  <2>3. tracker' \in {t, i, k} => tracker'.idle \in {t.idle, i.idle}
    BY <1>4
  <2> QED BY <2>1, <2>2, <2>3, <1>9
<1>11. Decided'
  BY <1>3, <1>7, <1>8, <1>9 DEF Decided
<1> QED BY <1>10, <1>11

\* Every step keeps what is known of the agent's turns.
LEMMA TurnKept ==
    ASSUME Shape, RecordInv, TurnInv, Overlap' <=> Overlap, Next
    PROVE  TurnInv'
<1> USE WritersDiffer DEF Shape, TypeOK, NoMonitor, Fresh, View, TurnInv, Serial, Epochs,
    Streak, Decided, Believed, Undoable, Working, Entering, Active, win, turn, sess, proc,
    Spend, Up
<1>1. CASE TurnEnds
  BY <1>1 DEF TurnEnds
<1>2. CASE PrematureHook
  BY <1>2 DEF PrematureHook
<1>3. CASE Repaint
  BY <1>3 DEF Repaint
<1>4. CASE HumanTypes
  BY <1>4 DEF HumanTypes, NoWriter
<1>5. CASE HumanSubmits
  BY <1>5 DEF HumanSubmits, Submit
<1>6. ASSUME NEW how \in {"exited", "failed", "gone"}, AgentExits(how) PROVE TurnInv'
  BY <1>6 DEF AgentExits
<1>7. CASE HookArrives
  BY <1>7 DEF HookArrives, SetStatus, TryMove
<1>8. CASE TickReads
  BY <1>8 DEF TickReads, Undisturbed
<1>9. CASE Poll
  <2> SUFFICES ASSUME ~Overlap
               PROVE  (Serial /\ Epochs /\ Streak /\ Decided /\ Believed /\ Undoable)'
    BY <1>9, PollMoves
  <2> USE PollMoves, <1>9
  <2> HIDE DEF Streak, Decided
  <2>1. mon.epoch = epoch
    OBVIOUS
  <2>2. tracker'.epoch \in {tracker.epoch, epoch}
    BY <2>1, PolledEpoch
  <2>3. (Serial /\ Epochs /\ Believed)'
    BY <2>2
  <2>4. Undoable'
    OBVIOUS
  <2>5. Streak' /\ Decided'
    BY <2>1, PollStreak
  <2> QED BY <2>3, <2>4, <2>5
<1>10. CASE Apply
  BY <1>10 DEF Apply, SetStatus, TryMove
<1>11. CASE CheckWindow
  BY <1>11 DEF CheckWindow, Update
<1>12. CASE PersistEnd
  BY <1>12 DEF PersistEnd, Persist
<1>13. CASE Drop
  BY <1>13 DEF Drop
<1>14. CASE SeesCancel
  BY <1>14 DEF SeesCancel, Update, Undisturbed
<1>15. CASE AdoptedStops
  BY <1>15 DEF AdoptedStops
<1>16. CASE Deferred
  BY <1>16 DEF Deferred, Persist
<1>17. CASE Capture
  BY <1>17 DEF Capture, TryMove
<1>18. ASSUME NEW w \in Writer, Hint(w) PROVE TurnInv'
  BY <1>18 DEF Hint, At, Goto
<1>19. ASSUME NEW w \in Writer, SendInput(w) PROVE TurnInv'
  BY <1>19 DEF SendInput, At, Goto
<1>20. ASSUME NEW w \in Writer, ClaimNudge(w) PROVE TurnInv'
  BY SMTT(30), <1>20 DEF ClaimNudge, At, Goto, Done
<1>21. ASSUME NEW w \in Writer, Look(w) PROVE TurnInv'
  BY <1>21 DEF Look, At, Goto, Done, ComposerReadable
<1>22. ASSUME NEW w \in Writer, Paste(w) PROVE TurnInv'
  BY <1>22 DEF Paste, At, Goto, Done
<1>23. ASSUME NEW w \in Writer, MarkRunning(w) PROVE TurnInv'
  <2> SUFFICES ASSUME ~Overlap
               PROVE  (Serial /\ Epochs /\ Streak /\ Decided /\ Believed /\ Undoable)'
    BY <1>23 DEF MarkRunning
  <2> USE <1>23 DEF MarkRunning, At, Calm, MyTurn, SetStatus, TryMove
  <2>1. Serial'
    OBVIOUS
  <2>2. (Epochs /\ Streak /\ Decided /\ Believed)'
    OBVIOUS
  <2>3. inMap /\ status = "Idle" => ~Working' /\ tracker.epoch < epoch'
    OBVIOUS
  <2>4. \A v \in Writer \ {w} : ~Entering(v)
    OBVIOUS
  <2>5. \A v \in Writer \ {w} : writer'[v] = writer[v]
    BY DEF Writers
  <2>6. writer'[w].started = (inMap /\ status = "Idle")
    BY DEF Writers
  <2>7. Undoable'
    BY <2>3, <2>4, <2>5, <2>6
  <2> QED BY <2>1, <2>2, <2>7
<1>24. ASSUME NEW w \in Writer, Enter(w) PROVE TurnInv'
  BY <1>24 DEF Enter, At, Done, Submit, SetStatus, TryMove
<1>25. CASE StopSession
  BY <1>25 DEF StopSession
<1>26. CASE DeleteSession
  BY <1>26 DEF DeleteSession, Undisturbed
<1>27. CASE CloseLists
  BY <1>27 DEF CloseLists, Calm
<1>28. CASE ClosePersists
  BY <1>28 DEF ClosePersists, Calm, Persist
<1>29. CASE CloseCancels
  BY <1>29 DEF CloseCancels
<1>30. CASE Exits
  BY <1>30 DEF Exits, Ends
<1>31. CASE Crashes
  BY <1>31 DEF Crashes, Ends
<1>32. CASE Restarts
  <2>1. CASE store.status \notin Active
    BY <1>32, <2>1 DEF Restarts
  <2>2. CASE store.status \in Active /\ window = "gone"
    BY <1>32, <2>2 DEF Restarts
  <2>3. CASE store.status \in Active /\ window # "gone"
    <3>1. /\ mon'.pc = "wait" /\ mon'.kind = "adopt" /\ mon'.natural = FALSE /\ mon'.epoch = 0
          /\ mon'.act = "none"
      BY <1>32, <2>3 DEF Restarts
    <3>2. /\ status' = store.status /\ epoch' = 0 /\ inMap' = TRUE /\ mgr' = "up" /\ mgr = "down"
          /\ UNCHANGED <<store, tracker, writer, claimed, agent, pane, window, listed, ghost, left>>
          /\ origin' = IF store.status = "Idle" THEN "adopted" ELSE origin
      BY <1>32, <2>3 DEF Restarts
    <3> QED BY <2>3, <3>1, <3>2
  <2> QED BY <2>1, <2>2, <2>3
<1> QED BY <1>1, <1>2, <1>3, <1>4, <1>5, <1>6, <1>7, <1>8, <1>9, <1>10, <1>11, <1>12, <1>13,
    <1>14, <1>15, <1>16, <1>17, <1>18, <1>19, <1>20, <1>21, <1>22, <1>23, <1>24, <1>25,
    <1>26, <1>27, <1>28, <1>29, <1>30, <1>31, <1>32 DEF Next, Monitor, Write

\* Every step keeps what is known of the hints.
LEMMA HintKept ==
    ASSUME Shape, HintInv, Next
    PROVE  HintInv'
<1> USE WritersDiffer DEF Shape, TypeOK, NoText, HintInv, Owning, Writer, ComposerReadable,
    win, turn, sess, proc, Spend, Up
<1>1. CASE TurnEnds
  BY <1>1 DEF TurnEnds
<1>2. CASE PrematureHook
  BY <1>2 DEF PrematureHook
<1>3. CASE Repaint
  BY <1>3 DEF Repaint
<1>4. CASE HumanTypes
  BY <1>4 DEF HumanTypes, NoWriter
<1>5. CASE HumanSubmits
  BY <1>5 DEF HumanSubmits, Submit
<1>6. ASSUME NEW how \in {"exited", "failed", "gone"}, AgentExits(how) PROVE HintInv'
  BY <1>6 DEF AgentExits
<1>7. CASE HookArrives
  BY <1>7 DEF HookArrives, SetStatus, TryMove
<1>8. CASE TickReads
  BY <1>8 DEF TickReads, Undisturbed
<1>9. CASE Poll
  BY <1>9 DEF Poll, ForTurn, Fresh, ObserveIdle, ObserveWorking, Count,
      CorrectsPrematureIdle
<1>10. CASE Apply
  BY <1>10 DEF Apply, SetStatus, TryMove
<1>11. CASE CheckWindow
  BY <1>11 DEF CheckWindow, Update
<1>12. CASE PersistEnd
  BY <1>12 DEF PersistEnd, Persist
<1>13. CASE Drop
  BY <1>13 DEF Drop
<1>14. CASE SeesCancel
  BY <1>14 DEF SeesCancel, Update, Undisturbed
<1>15. CASE AdoptedStops
  BY <1>15 DEF AdoptedStops
<1>16. CASE Deferred
  BY <1>16 DEF Deferred, Persist
<1>17. CASE Capture
  BY <1>17 DEF Capture, TryMove
<1>18. ASSUME NEW w \in Writer, Hint(w) PROVE HintInv'
  BY <1>18 DEF Hint, At, Goto
<1>19. ASSUME NEW w \in Writer, SendInput(w) PROVE HintInv'
  BY <1>19 DEF SendInput, At, Goto
<1>20. ASSUME NEW w \in Writer, ClaimNudge(w) PROVE HintInv'
  BY SMTT(30), <1>20 DEF ClaimNudge, At, Goto, Done
<1>21. ASSUME NEW w \in Writer, Look(w) PROVE HintInv'
  BY <1>21 DEF Look, At, Goto, Done, ComposerReadable
<1>22. ASSUME NEW w \in Writer, Paste(w) PROVE HintInv'
  BY <1>22 DEF Paste, At, Goto, Done
<1>23. ASSUME NEW w \in Writer, MarkRunning(w) PROVE HintInv'
  BY <1>23 DEF MarkRunning, At, Calm, MyTurn, SetStatus, TryMove
<1>24. ASSUME NEW w \in Writer, Enter(w) PROVE HintInv'
  BY <1>24 DEF Enter, At, Done, Submit, SetStatus, TryMove
<1>25. CASE StopSession
  BY <1>25 DEF StopSession
<1>26. CASE DeleteSession
  BY <1>26 DEF DeleteSession, Undisturbed
<1>27. CASE CloseLists
  BY <1>27 DEF CloseLists, Calm
<1>28. CASE ClosePersists
  BY <1>28 DEF ClosePersists, Calm, Persist
<1>29. CASE CloseCancels
  BY <1>29 DEF CloseCancels
<1>30. CASE Exits
  BY <1>30 DEF Exits, Ends
<1>31. CASE Crashes
  BY <1>31 DEF Crashes, Ends
<1>32. CASE Restarts
  BY <1>32 DEF Restarts
<1> QED BY <1>1, <1>2, <1>3, <1>4, <1>5, <1>6, <1>7, <1>8, <1>9, <1>10, <1>11, <1>12, <1>13,
    <1>14, <1>15, <1>16, <1>17, <1>18, <1>19, <1>20, <1>21, <1>22, <1>23, <1>24, <1>25,
    <1>26, <1>27, <1>28, <1>29, <1>30, <1>31, <1>32 DEF Next, Monitor, Write

\* Whether writes and polls may overlap is settled at the start.
LEMMA OverlapFixed ==
    ASSUME Shape, Next
    PROVE  Overlap' <=> Overlap
<1>1. left' = left \/ \E e \in Events \ {"overlap"} : Spend(e)
  BY DEF Next, Monitor, Write, win, turn, sess, proc, Events, Up, TurnEnds, PrematureHook,
      Repaint, HumanTypes, HumanSubmits, AgentExits, HookArrives, TickReads, Poll, Apply,
      CheckWindow, PersistEnd, Drop, SeesCancel, AdoptedStops, Deferred, Capture, Hint,
      SendInput, ClaimNudge, Look, Paste, MarkRunning, Enter, StopSession, DeleteSession,
      CloseLists, ClosePersists, CloseCancels, Exits, Crashes, Restarts, Submit, SetStatus,
      TryMove, Update, Persist, At, Goto, Done, Ends
<1>2. ASSUME NEW e \in Events \ {"overlap"}, Spend(e) PROVE left'["overlap"] = left["overlap"]
  BY <1>2 DEF Shape, TypeOK, Spend, Events
<1> QED BY <1>1, <1>2 DEF Overlap

-----------------------------------------------------------------------------
(* The theorems. *)

\* The invariant holds of a session that begins.
LEMMA InitInv == Init => IInv
<1> SUFFICES ASSUME Init PROVE IInv
  OBVIOUS
<1> USE DEF Init
<1>1. mon \in Monitors /\ writer \in [Writer -> Writers] /\ tracker \in Trackers
  BY DEF NoMonitor, Monitors, Writers, Trackers, Fresh, Active
<1>2. provider \in Providers /\ left \in [Events -> Nat]
  BY ScenarioAssumption
<1>3. composer \in Composers /\ store \in Records
  BY DEF Composers, NoText, Records, NoRecord
<1>4. ghost \in [stopped : BOOLEAN, deleted : BOOLEAN]
  OBVIOUS
<1>5. Shape
  <2>1. TypeOK
    BY <1>1, <1>2, <1>3 DEF TypeOK, Monitors, Writers, Trackers, Composers, Active, NoRecord
  <2> QED BY <2>1, <1>3, <1>4 DEF Shape
<1>6. RecordInv
  BY DEF RecordInv, Ending, Final, Deleted, Output, NoMonitor, Active, Terminal, NoRecord
<1>7. TurnInv
  BY DEF TurnInv, Serial, Epochs, Streak, Decided, Believed, Undoable, Working, Entering,
      NoMonitor, Fresh
<1>8. HintInv
  BY WritersDiffer DEF HintInv, Owning, NoText, Writer
<1> QED BY <1>5, <1>6, <1>7, <1>8 DEF IInv

\* Every step keeps the invariant.
LEMMA StepInv == IInv /\ [Next]_vars => IInv'
<1> SUFFICES ASSUME IInv, [Next]_vars PROVE IInv'
  OBVIOUS
<1>1. CASE Next
  BY <1>1, ShapeKept, RecordKeptBy, TurnKept, HintKept, OverlapFixed DEF IInv
<1>2. CASE UNCHANGED vars
  <2> USE <1>2 DEF vars, win, turn, sess, proc, IInv
  <2>1. Shape'
    BY DEF Shape, TypeOK
  <2>2. RecordInv'
    BY DEF RecordInv, Ending, Final, Deleted, Output, Overlap
  <2>3. TurnInv'
    BY DEF TurnInv, Serial, Epochs, Streak, Decided, Believed, Undoable, Working, Entering,
        Overlap
  <2>4. HintInv'
    BY DEF HintInv, Owning, ComposerReadable
  <2> QED BY <2>1, <2>2, <2>3, <2>4
<1> QED BY <1>1, <1>2

\* The invariant behind the theorems below: what the record of a session, its turns
\* and its hints look like, whatever the order of polls, writes, hooks, stops,
\* closes, crashes and restarts.
THEOREM TmuxInvariant == Spec => []IInv
<1> QED BY InitInv, StepInv, PTL DEF Spec

\* No step overwrites a recorded end: the writers of the record carry the same one.
LEMMA EndKept ==
    ASSUME IInv, [Next]_vars, store.status \in Terminal
    PROVE  store'.status \in {store.status, "none"}
<1>1. \/ store' = store \/ PersistEnd \/ Deferred \/ DeleteSession \/ ClosePersists \/ Restarts
  BY Touched DEF vars, proc
<1>2. mgr # "down" => status = store.status \/ (mon.pc = "off" /\ ~listed /\ ~inMap)
  BY DEF IInv, RecordInv, Final
<1>3. CASE PersistEnd
  BY <1>2, <1>3 DEF PersistEnd, Persist, Up
<1>4. CASE Deferred
  BY <1>2, <1>4 DEF Deferred, Persist, Up
<1>5. CASE DeleteSession
  BY <1>5 DEF DeleteSession, NoRecord
<1>6. CASE ClosePersists
  BY <1>2, <1>6 DEF ClosePersists, Persist
<1>7. CASE Restarts
  BY <1>7 DEF Restarts, Active, Terminal
<1> QED BY <1>1, <1>3, <1>4, <1>5, <1>6, <1>7

\* No step records an empty output over a full one, but for an adopted session's.
LEMMA LinesKept ==
    ASSUME IInv, [Next]_vars, store.out = "lines", store'.out = "empty", ~Overlap
    PROVE  mon.kind = "adopt"
<1>1. \/ store' = store \/ PersistEnd \/ Deferred \/ DeleteSession \/ ClosePersists \/ Restarts
  BY Touched DEF vars, proc
<1>2. Output /\ mon.kind \in {"run", "adopt"} /\ store \in Records
  BY DEF IInv, RecordInv, Shape, TypeOK
<1>3. CASE PersistEnd
  BY <1>2, <1>3 DEF PersistEnd, Persist, Output
<1>4. CASE Deferred
  BY <1>2, <1>4 DEF Deferred, Persist, Output
<1>5. CASE DeleteSession
  BY <1>5 DEF DeleteSession, NoRecord
<1>6. CASE ClosePersists
  BY <1>2, <1>6 DEF ClosePersists, Persist, Output
<1>7. CASE Restarts
  BY <1>2, <1>7 DEF Restarts, Records
<1> QED BY <1>1, <1>3, <1>4, <1>5, <1>6, <1>7

\* What is on disk of a session stays true (persistSession, DeleteSession, Close and
\* reconcileTmuxSessions against one another): a recorded end is never overwritten,
\* a recorded output is not lost and, where the end of a session does not fall into
\* Close or DeleteSession, what was deleted is not written again.
THEOREM RecordIsKept == Spec => RecordKept
<1>1. IInv => TypeOK /\ DeletedStaysDeleted
  BY DEF IInv, Shape, RecordInv, Deleted, DeletedStaysDeleted
<1>2. IInv /\ [Next]_vars =>
        [store.status \in Terminal => store'.status \in {store.status, "none"}]_vars
  BY EndKept
<1>3. IInv /\ [Next]_vars =>
        [store.out = "lines" /\ store'.out = "empty" /\ ~Overlap => mon.kind = "adopt"]_vars
  BY LinesKept
<1> QED BY <1>1, <1>2, <1>3, TmuxInvariant, PTL DEF Spec, RecordKept, RecordedEndIsFinal,
    OutputKept

\* Only a hook or a restart calls a marked turn over that still runs.
LEMMA TurnNotEnded ==
    ASSUME IInv, [Next]_vars, status = "Running", status' = "Idle",
           agent = "working", origin = "marked", ~Overlap
    PROVE  notes' # notes \/ mgr = "down"
<1>1. \/ status' = status \/ HookArrives \/ Apply \/ CheckWindow \/ SeesCancel \/ Capture
      \/ (\E w \in Writer : MarkRunning(w) \/ Enter(w)) \/ Exits \/ Crashes \/ Restarts
  BY DEF Next, Monitor, Write, vars, win, turn, sess, proc, TurnEnds, PrematureHook,
      Repaint, HumanTypes, HumanSubmits, AgentExits, HookArrives, TickReads, Poll, Apply,
      CheckWindow, PersistEnd, Drop, SeesCancel, AdoptedStops, Deferred, Capture, Hint,
      SendInput, ClaimNudge, Look, Paste, MarkRunning, Enter, StopSession, DeleteSession,
      CloseLists, ClosePersists, CloseCancels, Exits, Crashes, Restarts, Submit, SetStatus,
      TryMove, Update, Persist, At, Goto, Done, Ends
<1>2. Working /\ Decided /\ Undoable /\ notes \in Nat
  BY DEF IInv, Shape, TypeOK, TurnInv, Working
<1>3. CASE HookArrives
  BY <1>2, <1>3 DEF HookArrives
<1>4. CASE Apply
  BY <1>2, <1>4 DEF Apply, Decided, SetStatus, TryMove, turn
<1>5. CASE CheckWindow \/ SeesCancel \/ Capture
  BY <1>5 DEF CheckWindow, SeesCancel, Capture, Update, TryMove, turn
<1>6. ASSUME NEW w \in Writer, MarkRunning(w) \/ Enter(w) PROVE FALSE
  BY <1>2, <1>6 DEF MarkRunning, Enter, Undoable, Entering, At, SetStatus, TryMove, turn
<1>7. CASE Exits \/ Crashes
  BY <1>7 DEF Exits, Crashes, Ends
<1>8. CASE Restarts
  BY <1>8 DEF Restarts
<1> QED BY <1>1, <1>3, <1>4, <1>5, <1>6, <1>7, <1>8

\* Writers meeting in one composer neither pile up nor end a turn of another (Notifier's
\* claims, noteTurnStarted and its undo, pollPaneIdle): never two hints in a composer
\* that can be read and, where writes and polls do not fall into one another, no poll
\* and no failed Enter marks idle a session whose agent works on a turn that was marked.
THEOREM DeliveriesDoAgree == Spec => DeliveriesAgree
<1>1. IInv => OneHint
  BY DEF IInv, HintInv, OneHint
<1>2. IInv /\ [Next]_vars =>
        [status = "Running" /\ status' = "Idle" /\ agent = "working" /\ origin = "marked"
            /\ ~Overlap => notes' # notes \/ mgr = "down"]_vars
  BY TurnNotEnded
<1> QED BY <1>1, <1>2, TmuxInvariant, PTL DEF Spec, DeliveriesAgree, MarkedTurnNotEnded

=============================================================================
