---------------------------- MODULE TmuxSession ----------------------------
(***************************************************************************)
(* One session of a Manager in tmux mode.  The agent runs in a tmux window *)
(* that bramble does not own: people type into it, the process ends when   *)
(* it likes, and it outlives bramble.  What bramble knows of it comes from *)
(* the completion hook, from polling the pane, and from its own writes     *)
(* (the notifier's hints and the send-input requests).                     *)
(*   - monitor: the loop of runSession or of monitorTrackedTmuxWindow      *)
(*   - writers: the workers of the Notifier and the control requests       *)
(*   - manager: Close, a crash, and the reconciliation after a restart     *)
(***************************************************************************)
EXTENDS Naturals, FiniteSets

CONSTANTS
    Worker,        \* workers of the Notifier that may hint this session
    Client,        \* control connections that may send input to it
    Scenarios,     \* which agent, and how often each event of the environment happens
    TmuxExitOnQuit \* config.TmuxExitOnQuit

Writer == Worker \cup Client
Events == {"send", "hint", "fail", "human", "premature", "lost", "exit",
           "stop", "delete", "close", "crash", "overlap"}

Providers == {"claude", "codex", "cursor"}

ASSUME ScenarioAssumption == Scenarios \subseteq Providers \X [Events -> Nat]
ASSUME WritersDiffer == Worker \cap Client = {}

VARIABLES
    provider,  \* the agent's CLI
    status, epoch,      \* Session.Status, Session.turnEpoch
    inMap,     \* m.sessions has the session
    outputs,   \* m.outputs: "none", "empty" or "lines"
    cancelled, \* the session's context
    mon,       \* the monitor loop and what it read
    tracker,   \* paneIdleTracker
    writer,    \* the notifier's workers and the control requests
    claimed,   \* pendingNudge
    agent, pane, polled, changed, notes, composer, window,   \* the window
    origin,    \* history: how the agent's present turn began, or that bramble was told it is over
    mgr,       \* the bramble process
    listed,    \* the session is in the list Close took
    store,     \* the session's file
    ghost,     \* history: what a user asked for
    left       \* what is left of the scenario's budget

win == <<agent, pane, polled, changed, notes, composer, window, origin>>
turn == <<status, epoch>>
sess == <<turn, inMap, outputs, cancelled>>
proc == <<mgr, listed, store>>
vars == <<provider, sess, mon, tracker, writer, claimed, win, proc, ghost, left>>

Active == {"Running", "Idle"}
Terminal == {"Completed", "Failed", "Stopped"}
NoRecord == [status |-> "none", out |-> "none"]
NoMonitor == [pc |-> "off", kind |-> "run", status |-> "Running", epoch |-> 0,
              act |-> "none", natural |-> FALSE]
Fresh == [idle |-> 0, working |-> 0, epoch |-> 0]
NoText == [human |-> FALSE, hints |-> 0, input |-> FALSE]

-----------------------------------------------------------------------------
(* The probe table. *)

Confirmations == [claude |-> 5, codex |-> 2, cursor |-> 2]
CorrectsPrematureIdle == provider = "codex"
ComposerReadable == provider = "claude"
Hooked == provider # "cursor"

Spend(e) == left[e] > 0 /\ left' = [left EXCEPT ![e] = @ - 1]
Up == mgr \in {"up", "listed", "persisted", "cancelled"}
\* Overlap is a scenario's choice: writes may fall into polls and into one
\* another, and the end of a session into Close and DeleteSession.
Overlap == left["overlap"] > 0

\* Without Overlap no tick falls between the two halves of Close, or between
\* the mark of a write and its Enter.
Undisturbed == Overlap \/ (mgr # "listed" /\ \A w \in Writer : writer[w].pc # "enter")
NoWriter == Overlap \/ \A w \in Writer : writer[w].pc = "idle"
View == IF agent = "working" THEN "working" ELSE "idle"

Init ==
    /\ \E s \in Scenarios : provider = s[1] /\ left = s[2]
    /\ status = "Running" /\ epoch = 1 /\ inMap = TRUE
    /\ outputs = "lines" /\ cancelled = FALSE
    /\ mon = [NoMonitor EXCEPT !.pc = "wait"]
    /\ tracker = Fresh
    /\ writer = [w \in Writer |-> [pc |-> "idle", started |-> FALSE]]
    /\ claimed = FALSE
    /\ agent = "working" /\ pane = "working" /\ polled = FALSE /\ changed = FALSE
    /\ notes = 0
    /\ composer = NoText /\ window = "alive" /\ origin = "marked"
    /\ mgr = "up" /\ listed = FALSE /\ store = NoRecord
    /\ ghost = [stopped |-> FALSE, deleted |-> FALSE]

-----------------------------------------------------------------------------
(* The window: an agent, the people at its keyboard, and tmux. *)

TurnEnds ==
    /\ agent = "working" /\ window = "alive"
    /\ agent' = "waiting"
    /\ \/ Hooked /\ notes' = notes + 1 /\ UNCHANGED left
       \/ ~Hooked /\ UNCHANGED <<notes, left>>
       \/ Hooked /\ Spend("lost") /\ UNCHANGED notes
    /\ UNCHANGED <<provider, sess, mon, tracker, writer, claimed, pane, polled,
                   changed, composer, window, origin, proc, ghost>>

\* codex fires its completion hook in the middle of a turn.
PrematureHook ==
    /\ provider = "codex" /\ agent = "working" /\ window = "alive"
    /\ Spend("premature")
    /\ notes' = notes + 1
    /\ UNCHANGED <<provider, sess, mon, tracker, writer, claimed, agent, pane,
                   polled, changed, composer, window, origin, proc, ghost>>

Repaint ==
    /\ window = "alive" /\ pane # View
    /\ pane' = View /\ polled' = FALSE /\ changed' = TRUE
    /\ UNCHANGED <<provider, sess, mon, tracker, writer, claimed, agent, notes,
                   composer, window, origin, proc, ghost, left>>

HumanTypes ==
    /\ window = "alive" /\ ~composer.human /\ NoWriter /\ Spend("human")
    /\ composer' = [composer EXCEPT !.human = TRUE]
    /\ UNCHANGED <<provider, sess, mon, tracker, writer, claimed, agent, pane,
                   polled, changed, notes, window, origin, proc, ghost>>

\* Enter, whoever presses it, submits all that the composer holds.
Submit(by) ==
    /\ composer' = NoText
    /\ IF composer # NoText /\ agent = "waiting"
       THEN agent' = "working" /\ origin' = by
       ELSE UNCHANGED <<agent, origin>>

HumanSubmits ==
    /\ window = "alive" /\ composer.human /\ NoWriter
    /\ Submit("human")
    /\ UNCHANGED <<provider, sess, mon, tracker, writer, claimed, pane, polled,
                   changed, notes, window, proc, ghost, left>>

AgentExits(how) ==
    /\ window = "alive" /\ Spend("exit")
    /\ window' = how
    /\ agent' = "waiting" /\ pane' = "idle" /\ polled' = FALSE /\ composer' = NoText
    /\ UNCHANGED <<provider, sess, mon, tracker, writer, claimed, changed, notes, origin,
                   proc, ghost>>

-----------------------------------------------------------------------------
(* Status changes. *)

\* tryUpdateSessionStatus: compare-and-set under the session's lock.
TryMove(from, to) ==
    IF status = from
    THEN /\ status' = to
         /\ epoch' = IF to = "Running" THEN epoch + 1 ELSE epoch
    ELSE UNCHANGED turn

\* trySetStatus finds the session first.
SetStatus(from, to) ==
    IF inMap THEN TryMove(from, to) ELSE UNCHANGED turn

\* updateSessionStatus: a terminal status is left only for a terminal one.
Update(to) ==
    /\ status' = IF status \in Terminal /\ to \notin Terminal THEN status ELSE to
    /\ UNCHANGED epoch

\* The request of the completion hook; it fails when bramble is not there.
HookArrives ==
    /\ notes > 0 /\ notes' = notes - 1
    /\ IF Up THEN SetStatus("Running", "Idle") ELSE UNCHANGED turn
    /\ origin' = IF agent = "working" THEN "reported" ELSE origin
    /\ UNCHANGED <<provider, inMap, outputs, cancelled, mon, tracker, writer,
                   claimed, agent, pane, polled, changed, composer, window, proc,
                   ghost, left>>

-----------------------------------------------------------------------------
(* The monitor: one tick reads the status, polls the pane, looks at the     *)
(* window and ends the session when it is over.                             *)

TickReads ==
    /\ Up /\ mon.pc = "wait" /\ Undisturbed
    /\ mon' = [mon EXCEPT !.pc = "poll", !.status = status, !.epoch = epoch]
    /\ UNCHANGED <<provider, sess, tracker, writer, claimed, win, proc, ghost, left>>

\* forTurn: a streak does not outlive the turn it was observed in.
ForTurn(t, e) == IF t.epoch = e THEN t ELSE [Fresh EXCEPT !.epoch = e]

\* Mutants: a streak that stops one short of the confirmations, and one that
\* runs backwards.
CountShort(n) == IF n + 1 >= Confirmations[provider] THEN n ELSE n + 1
CountBack(n) == n - 1

\* A streak past the confirmations it needs fires no more: it is cut there.
Count(n) == IF n > Confirmations[provider] THEN n ELSE n + 1
ObserveIdle(t) == [t EXCEPT !.idle = IF pane = "idle" THEN Count(@) ELSE 0]
\* Mutant: one counter for both streaks.
ObserveWorkingShared(t) ==
    [t EXCEPT !.working = IF pane = "working" THEN Count(t.idle) ELSE 0]

ObserveWorking(t) == [t EXCEPT !.working = IF pane = "working" THEN Count(@) ELSE 0]

\* pollPaneIdle up to its transition, decidePaneIdlePoll included.  An agent
\* repaints between two polls: at most one of them sees an outdated pane.
Poll ==
    LET need == Confirmations[provider]
        t    == ForTurn(tracker, mon.epoch)
        i    == ObserveIdle(t)
        k    == ObserveWorking(t)
        then(next, act) == /\ tracker' = next
                           /\ mon' = [mon EXCEPT !.pc = "apply", !.act = act]
    IN  /\ Up /\ mon.pc = "poll"
        /\ ~(polled /\ pane # View)
        /\ polled' = (window = "alive" /\ pane # View)
        /\ \/ /\ mon.status # "Running"
              /\ ~(mon.status = "Idle" /\ CorrectsPrematureIdle)
              /\ then([tracker EXCEPT !.idle = 0, !.working = 0], "none")
           \/ /\ mon.status = "Running" \/ (mon.status = "Idle" /\ CorrectsPrematureIdle)
              /\ window # "alive"
              /\ then(t, "none")
           \/ /\ mon.status = "Running" /\ window = "alive"
              /\ then(i, IF i.idle = need THEN "idle" ELSE "none")
           \/ /\ mon.status = "Idle" /\ CorrectsPrematureIdle /\ window = "alive"
              /\ IF k.working = need
                 THEN then([k EXCEPT !.idle = 0, !.working = 0], "running")
                 ELSE then(k, "none")
        /\ UNCHANGED <<provider, sess, writer, claimed, agent, pane, changed, notes,
                       composer, window, origin, proc, ghost, left>>

Apply ==
    /\ Up /\ mon.pc = "apply"
    /\ CASE mon.act = "idle"    -> SetStatus("Running", "Idle")
         [] mon.act = "running" -> SetStatus("Idle", "Running")
         [] OTHER               -> UNCHANGED turn
    /\ mon' = [mon EXCEPT !.pc = "window", !.act = "none", !.status = "Running", !.epoch = 0]
    /\ UNCHANGED <<provider, inMap, outputs, cancelled, tracker, writer, claimed, win,
                   proc, ghost, left>>

\* Mutant: a pane that is dead but whose window stays open is not seen.
CheckWindowOnly ==
    /\ Up /\ mon.pc = "window"
    /\ IF window = "gone" THEN Update("Completed") ELSE UNCHANGED turn
    /\ mon' = [mon EXCEPT !.pc = IF window = "gone" THEN "persist" ELSE "wait",
                          !.natural = TRUE]
    /\ UNCHANGED <<provider, inMap, outputs, cancelled, tracker, writer, claimed, win,
                   proc, ghost, left>>

\* A window that vanishes within ten seconds of runSession is a failed start.
CheckWindow ==
    /\ Up /\ mon.pc = "window"
    /\ \/ /\ window = "alive"
          /\ mon' = [mon EXCEPT !.pc = "wait"]
          /\ UNCHANGED turn
       \/ /\ window \in {"exited", "gone"}
          /\ Update("Completed")
          /\ mon' = [mon EXCEPT !.pc = "persist", !.natural = TRUE]
       \/ /\ window = "failed" \/ (window = "gone" /\ mon.kind = "run")
          /\ status' = "Failed" /\ UNCHANGED epoch
          /\ mon' = [mon EXCEPT !.pc = "persist", !.natural = (mon.kind = "adopt")]
    /\ UNCHANGED <<provider, inMap, outputs, cancelled, tracker, writer, claimed, win,
                   proc, ghost, left>>

\* persistSession: the record and the outputs the map has at this moment.
Persist == store' = [status |-> status,
                     out |-> IF outputs = "lines" THEN "lines" ELSE "empty"]

PersistEnd ==
    /\ Up /\ mon.pc = "persist"
    /\ Persist
    /\ mon' = [mon EXCEPT !.pc = IF mon.natural THEN "drop" ELSE "defer"]
    /\ UNCHANGED <<provider, sess, tracker, writer, claimed, win, mgr, listed, ghost, left>>

Drop ==
    /\ Up /\ mon.pc = "drop"
    /\ inMap' = FALSE /\ outputs' = "none"
    /\ mon' = [mon EXCEPT !.pc = IF mon.kind = "run" THEN "defer" ELSE "off"]
    /\ UNCHANGED <<provider, turn, cancelled, tracker, writer, claimed, win,
                   proc, ghost, left>>

\* ctx.Done: the select may also take one more tick first.
SeesCancel ==
    /\ Up /\ mon.pc = "wait" /\ cancelled /\ Undisturbed
    /\ Update("Stopped")
    /\ mon' = [mon EXCEPT !.pc = IF mon.kind = "run" THEN "defer" ELSE "stopped"]
    /\ UNCHANGED <<provider, inMap, outputs, cancelled, tracker, writer, claimed, win,
                   proc, ghost, left>>

\* An adopted session that was stopped leaves the maps, unless by Close.
AdoptedStops ==
    /\ Up /\ mon.pc = "stopped"
    /\ mon' = [mon EXCEPT !.pc = IF mgr = "cancelled" THEN "off" ELSE "persist",
                          !.natural = TRUE]
    /\ UNCHANGED <<provider, sess, tracker, writer, claimed, win, proc, ghost, left>>

\* Mutants: the deferred function persists a second time, or never.
DeferredTwice ==
    /\ Up /\ mon.pc = "defer"
    /\ IF mgr = "cancelled" THEN UNCHANGED store ELSE Persist
    /\ mon' = [mon EXCEPT !.pc = "off"]
    /\ UNCHANGED <<provider, sess, tracker, writer, claimed, win, mgr, listed, ghost, left>>

DeferredNever ==
    /\ Up /\ mon.pc = "defer"
    /\ mon' = [mon EXCEPT !.pc = "off"]
    /\ UNCHANGED <<provider, sess, tracker, writer, claimed, win, proc, ghost, left>>

\* The deferred function of runSession.
Deferred ==
    /\ Up /\ mon.pc = "defer"
    /\ IF mgr = "cancelled" \/ mon.natural THEN UNCHANGED store ELSE Persist
    /\ mon' = [mon EXCEPT !.pc = "off"]
    /\ UNCHANGED <<provider, sess, tracker, writer, claimed, win, mgr, listed, ghost, left>>

\* captureRecentOutput runs in the loop of an adopted session: a Claude pane
\* that works, or whose content has changed, puts an idle session back to running.
Capture ==
    /\ Up /\ mon.pc = "wait" /\ mon.kind = "adopt"
    /\ status \in Active /\ window = "alive" /\ provider = "claude"
    /\ changed \/ pane = "working"
    /\ changed' = FALSE
    /\ TryMove("Idle", "Running")
    /\ UNCHANGED <<provider, inMap, outputs, cancelled, mon, tracker, writer, claimed,
                   agent, pane, polled, notes, composer, window, origin, proc, ghost, left>>

Monitor == \/ TickReads \/ Poll \/ Apply \/ CheckWindow \/ PersistEnd \/ Drop
           \/ SeesCancel \/ AdoptedStops \/ Deferred \/ Capture

-----------------------------------------------------------------------------
(* Writers: a hint of the notifier, a send-input request.                   *)

At(w, pc) == Up /\ writer[w].pc = pc
Goto(w, pc) == writer' = [writer EXCEPT ![w].pc = pc]
Done(w) == writer' = [writer EXCEPT ![w] = [pc |-> "idle", started |-> FALSE]]
Calm == Overlap \/ mon.pc \in {"wait", "off"}
MyTurn(w) == Overlap \/ \A o \in Writer \ {w} : writer[o].pc # "enter"

\* NotifyParent: a child's change; the parent's status is read here.
Hint(w) ==
    /\ w \in Worker /\ At(w, "idle")
    /\ inMap /\ status = "Idle"
    /\ Spend("hint")
    /\ Goto(w, "claim")
    /\ UNCHANGED <<provider, sess, mon, tracker, claimed, win, proc, ghost>>

\* Mutant: hints to one parent are not coalesced.
ClaimAlways(w) ==
    /\ At(w, "claim")
    /\ claimed' = TRUE /\ Goto(w, "look")
    /\ UNCHANGED <<provider, sess, mon, tracker, win, proc, ghost, left>>

ClaimNudge(w) ==
    /\ At(w, "claim")
    /\ \/ ~claimed /\ claimed' = TRUE /\ Goto(w, "look")
       \/ claimed /\ Done(w) /\ UNCHANGED claimed
    /\ UNCHANGED <<provider, sess, mon, tracker, win, proc, ghost, left>>

\* The target is resolved and the pane read: yield to work and to a draft.
Look(w) ==
    /\ At(w, "look")
    /\ \/ /\ inMap
          /\ \/ window = "alive" /\ pane = "idle" /\ (ComposerReadable => composer = NoText)
             \/ window # "alive" /\ ~ComposerReadable
          /\ Goto(w, "paste") /\ UNCHANGED claimed
       \/ /\ \/ ~inMap
             \/ window = "alive" /\ (pane = "working" \/ (ComposerReadable /\ composer # NoText))
             \/ window # "alive" /\ ComposerReadable
          /\ Done(w) /\ claimed' = FALSE
    /\ UNCHANGED <<provider, sess, mon, tracker, win, proc, ghost, left>>

\* sendInput resolves the target and pastes: no look at the pane, no claim.
SendInput(w) ==
    /\ w \in Client /\ At(w, "idle")
    /\ inMap /\ Spend("send")
    /\ Goto(w, "paste")
    /\ UNCHANGED <<provider, sess, mon, tracker, claimed, win, proc, ghost>>

Paste(w) ==
    /\ At(w, "paste")
    /\ \/ /\ window = "alive"
          /\ composer' = IF w \in Worker THEN [composer EXCEPT !.hints = @ + 1]
                         ELSE [composer EXCEPT !.input = TRUE]
          /\ Goto(w, "mark") /\ UNCHANGED claimed
       \/ /\ window # "alive"
          /\ Done(w) /\ claimed' = (claimed /\ w \notin Worker)
          /\ UNCHANGED composer
    /\ UNCHANGED <<provider, sess, mon, tracker, agent, pane, polled, changed, notes,
                   window, origin, proc, ghost, left>>

\* MarkRunning, noteTurnStarted: before the Enter, and it remembers whether
\* this write is what started the turn.
MarkRunning(w) ==
    /\ At(w, "mark") /\ Calm /\ MyTurn(w)
    /\ SetStatus("Idle", "Running")
    /\ writer' = [writer EXCEPT ![w] = [pc |-> "enter", started |-> inMap /\ status = "Idle"]]
    /\ UNCHANGED <<provider, inMap, outputs, cancelled, mon, tracker, claimed, win, proc,
                   ghost, left>>

\* Mutant: the undo does not ask whether this write started the turn.
EnterUndoes(w) ==
    /\ At(w, "enter")
    /\ \/ window = "alive" /\ Submit("marked") /\ UNCHANGED <<turn, left>>
       \/ /\ Spend("fail")
          /\ SetStatus("Running", "Idle")
          /\ UNCHANGED <<composer, agent, origin>>
    /\ Done(w) /\ claimed' = (claimed /\ w \notin Worker)
    /\ UNCHANGED <<provider, inMap, outputs, cancelled, mon, tracker, pane, polled,
                   changed, notes, window, proc, ghost>>

Enter(w) ==
    /\ At(w, "enter")
    /\ \/ /\ window = "alive" /\ Submit(IF writer[w].started /\ status = "Running" THEN "marked" ELSE "written")
          /\ UNCHANGED <<turn, left>>
       \/ /\ window # "alive" \/ Spend("fail")
          /\ window # "alive" => UNCHANGED left
          /\ IF writer[w].started THEN SetStatus("Running", "Idle")
             ELSE UNCHANGED turn
          /\ UNCHANGED <<composer, agent, origin>>
    /\ Done(w) /\ claimed' = (claimed /\ w \notin Worker)
    /\ UNCHANGED <<provider, inMap, outputs, cancelled, mon, tracker, pane, polled,
                   changed, notes, window, proc, ghost>>

Write(w) == \/ ClaimNudge(w) \/ Look(w) \/ Paste(w) \/ MarkRunning(w) \/ Enter(w)

-----------------------------------------------------------------------------
(* The user and the process.                                                *)

StopSession ==
    /\ Up /\ inMap /\ status \in Active /\ Spend("stop")
    /\ cancelled' = TRUE /\ ghost' = [ghost EXCEPT !.stopped = TRUE]
    /\ UNCHANGED <<provider, turn, inMap, outputs, mon, tracker, writer, claimed,
                   win, proc>>

\* DeleteSession also takes an idle session; its monitor goes on.
DeleteSession ==
    /\ Up /\ inMap /\ status \in Terminal \cup {"Idle"} /\ Spend("delete")
    /\ Undisturbed /\ (Overlap \/ mon.pc = "off")
    /\ inMap' = FALSE /\ outputs' = "none" /\ store' = NoRecord
    /\ ghost' = [ghost EXCEPT !.deleted = TRUE]
    /\ UNCHANGED <<provider, turn, cancelled, mon, tracker, writer, claimed, win,
                   mgr, listed>>

CloseLists ==
    /\ mgr = "up" /\ Calm /\ Spend("close")
    /\ mgr' = "listed" /\ listed' = inMap
    /\ UNCHANGED <<provider, sess, mon, tracker, writer, claimed, win, store, ghost>>

\* Mutant: Close persists also what it did not find in the map.
ClosePersistsAll ==
    /\ mgr = "listed" /\ Calm
    /\ Persist
    /\ mgr' = "persisted"
    /\ UNCHANGED <<provider, sess, mon, tracker, writer, claimed, win, listed, ghost, left>>

ClosePersists ==
    /\ mgr = "listed" /\ Calm
    /\ IF listed THEN Persist ELSE UNCHANGED store
    /\ mgr' = "persisted"
    /\ UNCHANGED <<provider, sess, mon, tracker, writer, claimed, win, listed, ghost, left>>

\* m.cancel() cancels the sessions' contexts, which derive from it.
CloseCancels ==
    /\ mgr = "persisted"
    /\ mgr' = "cancelled" /\ cancelled' = TRUE
    /\ window' = IF TmuxExitOnQuit /\ inMap THEN "gone" ELSE window
    /\ agent' = IF window' = "gone" THEN "waiting" ELSE agent
    /\ UNCHANGED <<provider, turn, inMap, outputs, mon, tracker, writer, claimed,
                   pane, polled, changed, notes, composer, origin, listed, store, ghost, left>>

\* The process ends when its goroutines have, or five seconds later; a crash
\* ends it anywhere.
Ends ==
    /\ mgr' = "down" /\ listed' = FALSE
    /\ inMap' = FALSE /\ outputs' = "none" /\ cancelled' = FALSE
    /\ mon' = NoMonitor /\ tracker' = Fresh /\ status' = "Running" /\ epoch' = 0
    /\ writer' = [w \in Writer |-> [pc |-> "idle", started |-> FALSE]]
    /\ claimed' = FALSE
    /\ UNCHANGED <<provider, win, store, ghost>>

Exits == mgr = "cancelled" /\ Ends /\ UNCHANGED left
Crashes == Up /\ Spend("crash") /\ Ends

\* Mutant: the reconciliation does not skip records that are terminal.
RestartsReap ==
    /\ mgr = "down" /\ mgr' = "up"
    /\ store' = IF window = "gone" THEN [store EXCEPT !.status = "Completed"] ELSE store
    /\ changed' = FALSE
    /\ UNCHANGED <<provider, sess, mon, tracker, writer, claimed, agent, pane, polled, notes,
                   composer, window, origin, listed, ghost, left>>

\* reconcileTmuxSessions: a record that is not terminal is completed when its
\* window is gone, adopted otherwise.  An adopted session has no output yet.
Restarts ==
    /\ mgr = "down" /\ mgr' = "up"
    /\ \/ /\ store.status \notin Active
          /\ UNCHANGED <<store, sess, mon>>
       \/ /\ store.status \in Active /\ window = "gone"
          /\ store' = [store EXCEPT !.status = "Completed"]
          /\ UNCHANGED <<sess, mon>>
       \/ /\ store.status \in Active /\ window # "gone"
          /\ status' = store.status /\ epoch' = 0
          /\ inMap' = TRUE /\ outputs' = "empty" /\ cancelled' = FALSE
          /\ mon' = [NoMonitor EXCEPT !.pc = "wait", !.kind = "adopt"]
          /\ UNCHANGED store
    /\ origin' = IF store.status = "Idle" THEN "adopted" ELSE origin
    /\ changed' = FALSE
    /\ UNCHANGED <<provider, tracker, writer, claimed, agent, pane, polled, notes, composer,
                   window, listed, ghost, left>>

Next ==
    \/ TurnEnds \/ PrematureHook \/ Repaint \/ HumanTypes \/ HumanSubmits
    \/ \E how \in {"exited", "failed", "gone"} : AgentExits(how)
    \/ HookArrives \/ Monitor
    \/ \E w \in Writer : Hint(w) \/ SendInput(w) \/ Write(w)
    \/ StopSession \/ DeleteSession
    \/ CloseLists \/ ClosePersists \/ CloseCancels \/ Exits \/ Crashes \/ Restarts

Spec == Init /\ [][Next]_vars

\* The loops of a live process run, a hook request arrives, a pane is painted,
\* a select does not overlook a cancelled context for ever, and bramble is
\* started again.  Nothing is assumed of agents and people.
Fairness ==
    /\ WF_vars(TickReads \/ Poll \/ Apply \/ CheckWindow)
    /\ WF_vars(PersistEnd \/ Drop \/ AdoptedStops \/ Deferred)
    /\ SF_vars(SeesCancel)
    /\ WF_vars(HookArrives) /\ WF_vars(Repaint)
    /\ \A w \in Writer : WF_vars(Write(w))
    /\ WF_vars(ClosePersists \/ CloseCancels \/ Exits \/ Restarts)

FairSpec == Spec /\ Fairness

-----------------------------------------------------------------------------
(* Properties.                                                              *)

\* The types of the session, of its monitor and of its window.
TypeOK ==
    /\ provider \in Providers
    /\ origin \in {"marked", "written", "human", "reported", "adopted"}
    /\ status \in Active \cup Terminal /\ epoch \in Nat
    /\ inMap \in BOOLEAN /\ cancelled \in BOOLEAN /\ claimed \in BOOLEAN
    /\ outputs \in {"none", "empty", "lines"}
    /\ mon \in [pc : {"off", "wait", "poll", "apply", "window", "persist", "drop",
                      "stopped", "defer"},
                kind : {"run", "adopt"}, status : Active \cup Terminal, epoch : Nat,
                act : {"none", "idle", "running"}, natural : BOOLEAN]
    /\ tracker \in [idle : Nat, working : Nat, epoch : Nat]
    /\ writer \in [Writer -> [pc : {"idle", "claim", "look", "paste", "mark", "enter"},
                              started : BOOLEAN]]
    /\ agent \in {"working", "waiting"} /\ pane \in {"working", "idle"}
    /\ polled \in BOOLEAN /\ changed \in BOOLEAN /\ notes \in Nat
    /\ composer \in [human : BOOLEAN, hints : Nat, input : BOOLEAN]
    /\ window \in {"alive", "exited", "failed", "gone"}
    /\ mgr \in {"up", "listed", "persisted", "cancelled", "down"} /\ listed \in BOOLEAN
    /\ store.status \in Active \cup Terminal \cup {"none"}
    /\ left \in [Events -> Nat]

\* Neither the pane poll nor the undo of a failed Enter marks idle a session
\* whose agent works: the orchestrator would take a working lane for a finished
\* one (pollPaneIdle, turnStart.undo).  Here for a turn whose own write marked
\* the session running, as long as no hook reported it over, and not when bramble
\* was started again with a record that calls the session idle.
MarkedTurnNotEnded ==
    [][status = "Running" /\ status' = "Idle" /\ agent = "working" /\ origin = "marked"
        /\ ~Overlap => notes' # notes \/ mgr = "down"]_vars

\* The same for every turn that a write of bramble began, also when the session
\* read running at the time: "observations must not carry across the turn
\* boundary" (pane_idle.go).
WrittenTurnNotEnded ==
    [][status = "Running" /\ status' = "Idle" /\ agent = "working"
        /\ origin \in {"marked", "written"} => notes' # notes \/ mgr = "down"]_vars

\* A recorded end is final: no later persist, be it of the monitor, of the
\* deferred function or of Close, and no reconciliation overwrites it.
RecordedEndIsFinal ==
    [][store.status \in Terminal => store'.status \in {store.status, "none"}]_vars

\* The output on disk is not overwritten by a persist that comes after the
\* session's buffer was dropped (naturallyPersisted); an adopted session starts
\* a new buffer.
OutputKept ==
    [][store.out = "lines" /\ store'.out = "empty" /\ ~Overlap => mon.kind = "adopt"]_vars

\* What was deleted stays deleted: no monitor writes the record again.
DeletedStaysDeleted == ghost.deleted /\ ~Overlap => store = NoRecord

\* Hints are coalesced: with a composer that can be read there is never a
\* second hint in it, even when an Enter failed and left the first one there.
OneHint == ComposerReadable => composer.hints <= 1

\* Writers meeting in one composer neither pile up nor end a turn of another.
DeliveriesAgree == []OneHint /\ MarkedTurnNotEnded

\* What is on disk of a session stays true: its end, its output, its deletion.
RecordKept == [](TypeOK /\ DeletedStaysDeleted) /\ RecordedEndIsFinal /\ OutputKept

\* A turn that ended is seen: with the hook lost, or the mark of a write come
\* after it, the pane shows it (pollPaneIdle).
Watched == mgr = "up" /\ inMap /\ mon.pc # "off" /\ ~cancelled
TurnEndSeen ==
    (Watched /\ agent = "waiting" /\ status = "Running")
        ~> (status # "Running" \/ agent = "working" \/ ~Watched)

\* A premature idle of codex is corrected while the turn still runs.
PrematureIdleCorrected ==
    (Watched /\ CorrectsPrematureIdle /\ agent = "working" /\ status = "Idle")
        ~> (status # "Idle" \/ agent = "waiting" \/ ~Watched)

\* What bramble believes of the agent becomes right.
BeliefCorrected == TurnEndSeen /\ PrematureIdleCorrected

\* A window that ends while bramble watches it, or between two runs of it, is
\* recorded as ended.
Recorded == store.status \in Terminal
EndRecorded ==
    (window # "alive" /\ (Watched \/ store.status \in Active))
        ~> (Recorded \/ ghost.deleted \/ (mgr = "down" /\ store = NoRecord))

\* A session stopped while bramble stays up ends and is recorded so.
StopRecorded ==
    (cancelled /\ mgr = "up") ~> (Recorded \/ mgr # "up" \/ ghost.deleted)

\* However a session ends, that is recorded.
EndsAreRecorded == EndRecorded /\ StopRecorded

\* What bramble shows and records of a session catches up with what it is.
SessionIsFollowed == BeliefCorrected /\ EndsAreRecorded
=============================================================================
