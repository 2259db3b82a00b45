--------------------------- MODULE SessionManager ---------------------------
(***************************************************************************)
(* The TUI-mode half of bramble/session/manager.go, for one session ID.    *)
(*                                                                         *)
(* Every map of the Manager is keyed by session ID and no lock spans two   *)
(* sessions, so one ID is enough.  What makes the code hard is that the    *)
(* same ID is worked on by several goroutines at once: the runSession      *)
(* goroutine of the current turn loop, the deferred clean-up of an earlier *)
(* one, and the goroutines of the user interface calling SendFollowUp,     *)
(* ResumeSession, CompleteSession and StopSession.  Go identities become   *)
(* sets: Run is the set of runSession goroutines (each with its context    *)
(* and its follow-up channel), Obj the set of *Session values, Caller the  *)
(* set of API goroutines.                                                  *)
(***************************************************************************)
EXTENDS Integers, FiniteSets

CONSTANTS Run,           \* runSession goroutines, one per start or resume
          Obj,           \* *Session values that may be created for the ID
          Caller,        \* goroutines calling the exported API
          None,          \* Go's nil / absent map entry
          Env            \* what the environment is allowed to do, a subset of:
                         \*   "delegator"  the runner is a delegatorRunner
                         \*   "restart"    the process ends and is restarted
                         \*   "delete"     DeleteSession is called

ASSUME SessionConstants ==
    /\ None \notin Run \cup Obj \cup Caller
    /\ Env \subseteq {"delegator", "restart", "delete"}

VARIABLES
    registered,  \* m.sessions[id]
    status,      \* session.Status, per *Session
    cliID,       \* session.CLISessionID # "", per *Session
    ctxOf,       \* the run whose context session.ctx / session.cancel is
    owner,       \* the *Session a run was started on
    pc,          \* where a run is in runSession
    cancelled,   \* runs whose context is cancelled
    followUp,    \* m.followUpChans[id], a channel named by the run that made it
    inbox,       \* messages buffered in a run's channel (capacity 1)
    closed,      \* runs whose channel has been closed
    snap,        \* the record a run is about to write in persistSession
    store,       \* the persisted record of the ID
    call,        \* what an API goroutine is in the middle of
    mgrClosed,   \* Close has cancelled the manager's context
    panicked,    \* the process died of a send on a closed channel
    \* Kept for the properties only:
    overlap,     \* <<q, r>>: run q had not returned when run r was started
    writer       \* the run whose record is on disk

vars == <<registered, status, cliID, ctxOf, owner, pc, cancelled, followUp,
          inbox, closed, snap, store, call, mgrClosed, panicked, overlap, writer>>

runVars  == <<owner, pc, snap, overlap>>
diskVars == <<store, writer>>
chanVars == <<followUp, inbox, closed>>
objVars  == <<status, cliID, ctxOf>>
-----------------------------------------------------------------------------
Terminal == {"completed", "failed", "stopped"}
Active   == {"pending", "running", "idle"}
Status   == Active \cup Terminal

Record == [status : Status, cli : BOOLEAN]

ASSUME NoRecordIsNone == None \notin Record

\* "unborn" is a goroutine (or object) not created yet, "done" one returned.
Pcs == {"unborn", "begin", "starting", "install", "turn", "idle",
        "stopping", "snapshot", "write", "done"}

Idling == [op |-> "none", obj |-> None, chan |-> None]

\* The exported calls, and how far each has come.
Ops == {"none", "stop", "cancel", "send", "channel", "sending", "complete",
        "closing", "resume", "rehydrate", "delete"}

Call == [op : Ops, obj : Obj \cup {None}, chan : Run \cup {None}]

TypeOK ==
    /\ registered \in Obj \cup {None}
    /\ status \in [Obj -> Status \cup {"unborn", "gone"}]
    /\ cliID \in [Obj -> BOOLEAN]
    /\ ctxOf \in [Obj -> Run \cup {None}]
    /\ owner \in [Run -> Obj \cup {None}]
    /\ pc \in [Run -> Pcs]
    /\ cancelled \subseteq Run
    /\ followUp \in Run \cup {None}
    /\ inbox \in [Run -> 0..1]
    /\ closed \subseteq Run
    /\ snap \in [Run -> Record \cup {None}]
    /\ store \in Record \cup {None}
    /\ call \in [Caller -> Call]
    /\ mgrClosed \in BOOLEAN /\ panicked \in BOOLEAN
    /\ overlap \subseteq Run \X Run /\ writer \in Run \cup {None}

Init ==
    /\ registered = None
    /\ status = [o \in Obj |-> "unborn"]
    /\ cliID = [o \in Obj |-> FALSE]
    /\ ctxOf = [o \in Obj |-> None]
    /\ owner = [r \in Run |-> None]
    /\ pc = [r \in Run |-> "unborn"]
    /\ cancelled = {}
    /\ followUp = None
    /\ inbox = [r \in Run |-> 0]
    /\ closed = {}
    /\ snap = [r \in Run |-> None]
    /\ store = None
    /\ call = [c \in Caller |-> Idling]
    /\ mgrClosed = FALSE /\ panicked = FALSE
    /\ overlap = {} /\ writer = None
-----------------------------------------------------------------------------
(* Status writes.  updateSessionStatus refuses to take a session out of a  *)
(* terminal status; failSession does not ask, and does not need to.        *)

MayLeave(old, new) == old \notin Terminal \/ new \in Terminal

UpdateStatus(o, new) ==
    status' = IF MayLeave(status[o], new) THEN [status EXCEPT ![o] = new] ELSE status

FailSession(o) == status' = [status EXCEPT ![o] = "failed"]

Goto(r, label) == pc' = [pc EXCEPT ![r] = label]
-----------------------------------------------------------------------------
(* The runSession goroutine. *)

\* Entering runSession.
Begin(r) ==
    /\ pc[r] = "begin"
    /\ UpdateStatus(owner[r], "running")
    /\ Goto(r, "starting")
    /\ UNCHANGED <<registered, cliID, ctxOf, owner, cancelled, chanVars, snap,
                   overlap, diskVars, call, mgrClosed, panicked>>

\* Mutant: an early return that forgets failSession.
StartFailsSilently(r) ==
    /\ pc[r] = "starting"
    /\ Goto(r, "snapshot")
    /\ UNCHANGED <<registered, objVars, owner, cancelled, chanVars, snap,
                   overlap, diskVars, call, mgrClosed, panicked>>

\* The model does not resolve, the endpoint is refused or runner.Start errors:
\* failed, persisted, and returned before the deferred clean-up is registered.
\* A session type the switch does not know is failed and not persisted.
StartFails(r) ==
    /\ pc[r] = "starting"
    /\ FailSession(owner[r])
    /\ Goto(r, "snapshot") \/ Goto(r, "done")
    /\ UNCHANGED <<registered, cliID, ctxOf, owner, cancelled, chanVars, snap,
                   overlap, diskVars, call, mgrClosed, panicked>>

\* runner.Start succeeds and reports the CLI session ID, if the runner has one.
StartOK(r) ==
    /\ pc[r] = "starting"
    /\ \E id \in BOOLEAN :
          cliID' = [cliID EXCEPT ![owner[r]] = cliID[owner[r]] \/ id]
    /\ Goto(r, "install")
    /\ UNCHANGED <<registered, status, ctxOf, owner, cancelled, chanVars, snap,
                   overlap, diskVars, call, mgrClosed, panicked>>

\* A fresh channel of capacity one replaces whatever the map holds.
InstallChannel(r) ==
    /\ pc[r] = "install"
    /\ followUp' = r
    /\ Goto(r, "turn")
    /\ UNCHANGED <<registered, objVars, owner, cancelled, inbox, closed, snap,
                   overlap, diskVars, call, mgrClosed, panicked>>

\* RunTurn returns without error, with or without its context cancelled.
TurnEnds(r) ==
    /\ pc[r] = "turn"
    /\ UpdateStatus(owner[r], "idle")
    /\ Goto(r, "idle")
    /\ UNCHANGED <<registered, cliID, ctxOf, owner, cancelled, chanVars, snap,
                   overlap, diskVars, call, mgrClosed, panicked>>

\* Mutants: a session context that does not see StopSession, and one that is
\* not derived from the manager's.
CtxDoneOnClose(r) == mgrClosed
CtxDoneOnStop(r)  == ctxOf[owner[r]] \in cancelled

CtxDone(r) == mgrClosed \/ ctxOf[owner[r]] \in cancelled

\* RunTurn errors: stopped when session.ctx is done by then, failed otherwise.
TurnErrs(r) ==
    /\ pc[r] = "turn"
    /\ IF CtxDone(r) THEN UpdateStatus(owner[r], "stopped")
                     ELSE FailSession(owner[r])
    /\ Goto(r, "stopping")
    /\ UNCHANGED <<registered, cliID, ctxOf, owner, cancelled, chanVars, snap,
                   overlap, diskVars, call, mgrClosed, panicked>>

\* Mutant: the arm returns without recording the stop.
IdleStoppedUnrecorded(r) ==
    /\ pc[r] = "idle" /\ CtxDone(r)
    /\ Goto(r, "stopping")
    /\ UNCHANGED <<registered, objVars, owner, cancelled, chanVars, snap,
                   overlap, diskVars, call, mgrClosed, panicked>>

\* The three arms of the select a run idles in, plus the delegator's.
IdleStopped(r) ==
    /\ pc[r] = "idle" /\ CtxDone(r)
    /\ UpdateStatus(owner[r], "stopped")
    /\ Goto(r, "stopping")
    /\ UNCHANGED <<registered, cliID, ctxOf, owner, cancelled, chanVars, snap,
                   overlap, diskVars, call, mgrClosed, panicked>>

\* Mutant: a channel found closed is no longer read.
IdleFollowUpOpen(r) ==
    /\ pc[r] = "idle" /\ inbox[r] = 1 /\ r \notin closed
    /\ inbox' = [inbox EXCEPT ![r] = 0]
    /\ UpdateStatus(owner[r], "running")
    /\ Goto(r, "turn")
    /\ UNCHANGED <<registered, cliID, ctxOf, owner, cancelled, followUp, closed,
                   snap, overlap, diskVars, call, mgrClosed, panicked>>

IdleFollowUp(r) ==
    /\ pc[r] = "idle" /\ inbox[r] = 1
    /\ inbox' = [inbox EXCEPT ![r] = 0]
    /\ UpdateStatus(owner[r], "running")
    /\ Goto(r, "turn")
    /\ UNCHANGED <<registered, cliID, ctxOf, owner, cancelled, followUp, closed,
                   snap, overlap, diskVars, call, mgrClosed, panicked>>

IdleCompleted(r) ==
    /\ pc[r] = "idle" /\ inbox[r] = 0 /\ r \in closed
    /\ UpdateStatus(owner[r], "completed")
    /\ Goto(r, "stopping")
    /\ UNCHANGED <<registered, cliID, ctxOf, owner, cancelled, chanVars, snap,
                   overlap, diskVars, call, mgrClosed, panicked>>

IdleChildEvent(r) ==
    /\ "delegator" \in Env /\ pc[r] = "idle"
    /\ UpdateStatus(owner[r], "running")
    /\ Goto(r, "turn")
    /\ UNCHANGED <<registered, cliID, ctxOf, owner, cancelled, chanVars, snap,
                   overlap, diskVars, call, mgrClosed, panicked>>

\* The deferred clean-up: runner.Stop, then delete(m.followUpChans, id), by key.
CleanUp(r) ==
    /\ pc[r] = "stopping"
    /\ followUp' = None
    /\ Goto(r, "snapshot")
    /\ UNCHANGED <<registered, objVars, owner, cancelled, inbox, closed, snap,
                   overlap, diskVars, call, mgrClosed, panicked>>

\* persistSession copies the session under its lock, and writes without it.
Snapshot(r) ==
    /\ pc[r] = "snapshot"
    /\ snap' = [snap EXCEPT ![r] = [status |-> status[owner[r]],
                                    cli |-> cliID[owner[r]]]]
    /\ Goto(r, "write")
    /\ UNCHANGED <<registered, objVars, owner, cancelled, chanVars, overlap,
                   diskVars, call, mgrClosed, panicked>>

\* Mutant: a save that keeps the record it finds.
SaveOnce(r) ==
    /\ pc[r] = "write"
    /\ store' = IF store = None THEN snap[r] ELSE store
    /\ writer' = r
    /\ snap' = [snap EXCEPT ![r] = None]
    /\ Goto(r, "done")
    /\ UNCHANGED <<registered, objVars, owner, cancelled, chanVars, overlap,
                   call, mgrClosed, panicked>>

\* SaveSession replaces the record, or errs and leaves the old one; the error is
\* shown in the session's output and nothing else happens.
Save(r) ==
    /\ pc[r] = "write"
    /\ \/ store' = snap[r] /\ writer' = r
       \/ UNCHANGED diskVars
    /\ snap' = [snap EXCEPT ![r] = None]
    /\ Goto(r, "done")
    /\ UNCHANGED <<registered, objVars, owner, cancelled, chanVars, overlap,
                   call, mgrClosed, panicked>>
-----------------------------------------------------------------------------
(* The exported API. *)

Alive == ~mgrClosed /\ ~panicked

\* A run that has been started and has not returned.
Live(r) == pc[r] \notin {"unborn", "done"}

\* Mutant: a resumed session keeps the context it had.
SpawnKeepsContext(o, r) ==
    /\ pc[r] = "unborn"
    /\ Goto(r, "begin")
    /\ owner' = [owner EXCEPT ![r] = o]
    /\ ctxOf' = IF ctxOf[o] = None THEN [ctxOf EXCEPT ![o] = r] ELSE ctxOf
    /\ overlap' = overlap \cup {<<q, r>> : q \in {p \in Run : Live(p)}}

\* go m.runSession(session, prompt), with a context made for it.
Spawn(o, r) ==
    /\ pc[r] = "unborn"
    /\ Goto(r, "begin")
    /\ owner' = [owner EXCEPT ![r] = o]
    /\ ctxOf' = [ctxOf EXCEPT ![o] = r]
    /\ overlap' = overlap \cup {<<q, r>> : q \in {p \in Run : Live(p)}}

\* startSessionWithID, for a freshly generated ID.
StartSession(o, r) ==
    /\ Alive /\ \A q \in Run : pc[q] = "unborn"
    /\ status[o] = "unborn" /\ registered = None /\ store = None
    /\ Spawn(o, r)
    /\ registered' = o
    /\ status' = [status EXCEPT ![o] = "pending"]
    /\ UNCHANGED <<cliID, cancelled, chanVars, snap, diskVars, call, mgrClosed, panicked>>

\* Every call begins with a look at m.sessions, under its lock.
Find(c) ==
    /\ Alive /\ call[c] = Idling /\ registered # None
    /\ \E f \in {"stop", "send", "complete", "resume"} :
          call' = [call EXCEPT ![c] = [op |-> f, obj |-> registered, chan |-> None]]
    /\ UNCHANGED <<registered, objVars, runVars, cancelled, chanVars, diskVars, mgrClosed, panicked>>

\* The call goes on to its next critical section, or returns.
Continue(c, f) == call' = [call EXCEPT ![c].op = f]
Return(c)      == call' = [call EXCEPT ![c] = Idling]

\* The next three read the status, under the session's lock, and let it go.
StopChecks(c) ==
    /\ call[c].op = "stop"
    /\ IF status[call[c].obj] \in Active THEN Continue(c, "cancel") ELSE Return(c)
    /\ UNCHANGED <<registered, objVars, runVars, cancelled, chanVars, diskVars, mgrClosed, panicked>>

SendChecks(c) ==
    /\ call[c].op = "send"
    /\ IF status[call[c].obj] = "idle" THEN Continue(c, "channel") ELSE Return(c)
    /\ UNCHANGED <<registered, objVars, runVars, cancelled, chanVars, diskVars, mgrClosed, panicked>>

CompleteChecks(c) ==
    /\ call[c].op = "complete"
    /\ IF status[call[c].obj] = "idle" THEN Continue(c, "closing") ELSE Return(c)
    /\ UNCHANGED <<registered, objVars, runVars, cancelled, chanVars, diskVars, mgrClosed, panicked>>

\* StopSession calls, with no lock held, whatever session.cancel is by then
\* (nil in a session rehydrated and not yet resumed).
Cancel(c) ==
    /\ call[c].op = "cancel"
    /\ cancelled' = cancelled \cup ({ctxOf[call[c].obj]} \ {None})
    /\ Return(c)
    /\ UNCHANGED <<registered, objVars, runVars, chanVars, diskVars, mgrClosed, panicked>>

\* SendFollowUp looks the channel up, by session ID ...
SendLookup(c) ==
    /\ call[c].op = "channel"
    /\ IF followUp = None THEN Return(c)
       ELSE call' = [call EXCEPT ![c] = [op |-> "sending", obj |-> None, chan |-> followUp]]
    /\ UNCHANGED <<registered, objVars, runVars, cancelled, chanVars, diskVars, mgrClosed, panicked>>

\* Mutant: an unbounded buffer.
SendUnbounded(c) ==
    /\ call[c].op = "sending"
    /\ LET r == call[c].chan IN
         /\ panicked' = (r \in closed)
         /\ inbox' = [inbox EXCEPT ![r] = @ + 1]
    /\ Return(c)
    /\ UNCHANGED <<registered, objVars, runVars, cancelled, followUp, closed,
                   diskVars, mgrClosed>>

\* ... and, with no lock held, sends without blocking, which drops the message
\* when the buffer is full and panics when the channel has been closed.
Send(c) ==
    /\ call[c].op = "sending"
    /\ LET r == call[c].chan IN
         /\ panicked' = (r \in closed)
         /\ inbox' = IF r \in closed THEN inbox ELSE [inbox EXCEPT ![r] = 1]
    /\ Return(c)
    /\ UNCHANGED <<registered, objVars, runVars, cancelled, followUp, closed,
                   diskVars, mgrClosed>>

\* Mutant: the channel is dropped from the map and never closed.
CloseChannelForgotten(c) ==
    /\ call[c].op = "closing"
    /\ followUp' = None
    /\ Return(c)
    /\ UNCHANGED <<registered, objVars, runVars, cancelled, inbox, closed, diskVars, mgrClosed, panicked>>

\* CompleteSession closes and deletes the ID's channel, under followUpChansMu.
CloseChannel(c) ==
    /\ call[c].op = "closing"
    /\ closed' = IF followUp = None THEN closed ELSE closed \cup {followUp}
    /\ followUp' = None
    /\ Return(c)
    /\ UNCHANGED <<registered, objVars, runVars, cancelled, inbox, diskVars, mgrClosed, panicked>>

\* The ID is generated by StartSession: nobody can name it before.
Known == \E r \in Run : pc[r] # "unborn"

\* ResumeSession goes to the store when the map has no entry.
ResumeMisses(c) ==
    /\ Alive /\ call[c] = Idling /\ registered = None /\ Known
    /\ Continue(c, "rehydrate")
    /\ UNCHANGED <<registered, objVars, runVars, cancelled, chanVars, diskVars, mgrClosed, panicked>>

\* rehydrateSession builds a new *Session and puts it in the map.
Rehydrate(c, o) ==
    /\ call[c].op = "rehydrate" /\ store # None /\ status[o] = "unborn"
    /\ status' = [status EXCEPT ![o] = store.status]
    /\ cliID' = [cliID EXCEPT ![o] = store.cli]
    /\ registered' = o
    /\ call' = [call EXCEPT ![c] = [op |-> "resume", obj |-> o, chan |-> None]]
    /\ UNCHANGED <<ctxOf, runVars, cancelled, chanVars, diskVars, mgrClosed, panicked>>

RehydrateFails(c) ==
    /\ call[c].op = "rehydrate" /\ store = None
    /\ Return(c)
    /\ UNCHANGED <<registered, objVars, runVars, cancelled, chanVars, diskVars, mgrClosed, panicked>>

\* Mutant: the status is not checked.
ResumableAnyStatus(o) == cliID[o]

\* Status read, validation and reset are one critical section of session.mu.
Resumable(o) == cliID[o] /\ status[o] \in Terminal

\* Nothing asks whether the run before is through with its clean-up.
ResumeClaims(c, r) ==
    /\ call[c].op = "resume" /\ Resumable(call[c].obj)
    /\ Spawn(call[c].obj, r)
    /\ status' = [status EXCEPT ![call[c].obj] = "pending"]
    /\ Return(c)
    /\ UNCHANGED <<registered, cliID, cancelled, chanVars, snap, diskVars, mgrClosed, panicked>>

ResumeRefused(c) ==
    /\ call[c].op = "resume" /\ ~Resumable(call[c].obj)
    /\ Return(c)
    /\ UNCHANGED <<registered, objVars, runVars, cancelled, chanVars, diskVars, mgrClosed, panicked>>

\* DeleteSession accepts an idle session as well as a terminal one.
Deletable(o) == status[o] \in Terminal \/ status[o] = "idle"

\* It drops the session from the map under m.mu ...
DeleteSession(c) ==
    /\ "delete" \in Env /\ Alive /\ call[c] = Idling
    /\ registered # None /\ Deletable(registered)
    /\ registered' = None
    /\ Continue(c, "delete")
    /\ UNCHANGED <<objVars, runVars, cancelled, chanVars, diskVars, mgrClosed, panicked>>

\* ... and its record afterwards, with no lock held.
DeleteRecord(c) ==
    /\ call[c].op = "delete"
    /\ store' = None /\ writer' = None
    /\ Return(c)
    /\ UNCHANGED <<registered, objVars, runVars, cancelled, chanVars, mgrClosed, panicked>>

\* Close cancels the manager's context, from which every session's derives.
CloseManager ==
    /\ Alive
    /\ mgrClosed' = TRUE
    /\ UNCHANGED <<registered, objVars, runVars, cancelled, chanVars, diskVars, call, panicked>>

\* The process ends: after Close (whose wait is bounded by five seconds), after
\* a panic, or killed at any moment.  Only the store survives; the next process
\* starts with empty maps.
Restart ==
    /\ "restart" \in Env /\ \E r \in Run : pc[r] # "unborn"
    /\ registered' = None /\ followUp' = None
    /\ pc' = [r \in Run |-> IF pc[r] = "unborn" THEN "unborn" ELSE "done"]
    /\ owner' = [r \in Run |-> None] /\ snap' = [r \in Run |-> None]
    /\ inbox' = [r \in Run |-> 0] /\ cancelled' = {} /\ closed' = {}
    /\ status' = [o \in Obj |-> IF status[o] = "unborn" THEN "unborn" ELSE "gone"]
    /\ cliID' = [o \in Obj |-> FALSE] /\ ctxOf' = [o \in Obj |-> None]
    /\ call' = [c \in Caller |-> Idling]
    /\ mgrClosed' = FALSE /\ panicked' = FALSE
    /\ UNCHANGED <<overlap, diskVars>>
-----------------------------------------------------------------------------
RunStep(r) ==
    \/ Begin(r) \/ StartFails(r) \/ StartOK(r) \/ InstallChannel(r)
    \/ TurnEnds(r) \/ TurnErrs(r)
    \/ IdleStopped(r) \/ IdleFollowUp(r) \/ IdleCompleted(r) \/ IdleChildEvent(r)
    \/ CleanUp(r) \/ Snapshot(r) \/ Save(r)

CallStep(c) ==
    \/ Find(c)
    \/ StopChecks(c) \/ Cancel(c)
    \/ SendChecks(c) \/ SendLookup(c) \/ Send(c)
    \/ CompleteChecks(c) \/ CloseChannel(c)
    \/ ResumeMisses(c) \/ RehydrateFails(c) \/ ResumeRefused(c)
    \/ \E o \in Obj : Rehydrate(c, o)
    \/ \E r \in Run : ResumeClaims(c, r)
    \/ DeleteSession(c) \/ DeleteRecord(c)

Next ==
    \/ ~panicked /\ \E r \in Run : RunStep(r)
    \/ ~panicked /\ \E c \in Caller : CallStep(c)
    \/ \E o \in Obj, r \in Run : StartSession(o, r)
    \/ CloseManager \/ Restart

\* Goroutines that can run do run; users and crashes are not obliged to do
\* anything.  runner.Start and RunTurn return (an agent's turn ends, with or
\* without success), and Go's select picks each ready arm infinitely often when
\* it is ready infinitely often.
Fairness ==
    \A r \in Run :
       /\ WF_vars(~panicked /\ (Begin(r) \/ StartFails(r) \/ StartOK(r)
                                \/ InstallChannel(r)))
       /\ WF_vars(~panicked /\ (TurnEnds(r) \/ TurnErrs(r)))
       /\ SF_vars(~panicked /\ IdleStopped(r))
       /\ WF_vars(~panicked /\ (IdleStopped(r) \/ IdleFollowUp(r) \/ IdleCompleted(r)))
       /\ WF_vars(~panicked /\ (CleanUp(r) \/ Snapshot(r) \/ Save(r)))

Spec == Init /\ [][Next]_vars
FairSpec == Spec /\ Fairness
-----------------------------------------------------------------------------
(* Properties. *)

\* A run between go m.runSession and the return that leaves its turn loop.
InLoop(r) == pc[r] \in {"begin", "starting", "install", "turn", "idle"}

\* However resumes, stops and completions interleave, two runSession goroutines
\* never drive the same *Session: ResumeSession's critical section lets a new
\* one in only after the old one has written a terminal status for the last time.
OneLoopPerSession ==
    \A q, r \in Run : InLoop(q) /\ InLoop(r) /\ owner[q] = owner[r] => q = r

\* Run r overlapped no other: every run before it had returned when it was
\* started, and none was started before it returned.
Alone(r) == \A q \in Run : <<q, r>> \notin overlap /\ <<r, q>> \notin overlap

\* StopSession reaches the goroutine that drives the session: session.cancel is
\* never that of an earlier run, nor of one that is still to be started.
LoopIsStoppable == \A r \in Run : InLoop(r) => ctxOf[owner[r]] = r

\* A session whose status says pending, running or idle has a goroutine behind
\* it, unless it was read back from the store and never run since.
NoZombieSession ==
    \A o \in Obj : status[o] \in Active =>
        \/ \E r \in Run : InLoop(r) /\ owner[r] = o
        \/ ctxOf[o] = None

\* A run idling for a follow-up is waiting on the channel SendFollowUp finds
\* under its ID, unless CompleteSession has just closed that channel, or the
\* run overlapped another one of the same ID, which took the entry over or
\* deleted it.
IdleIsReachable ==
    \A r \in Run : pc[r] = "idle" => followUp = r \/ r \in closed \/ ~Alone(r)

\* A session that looks alive can be used, whatever its resumes overlap: there
\* is a goroutine behind it, which StopSession reaches, and when it idles a
\* channel by which SendFollowUp does. The two exceptions are stated by cause.
SessionIsServed == LoopIsStoppable /\ NoZombieSession /\ IdleIsReachable

\* A stored session is in a terminal state, as rehydrateSession's comment has
\* it, unless its record was taken by a run whose session was resumed before
\* that run had returned.
StoredIsTerminal ==
    store # None /\ store.status \in Active => \E r \in Run : <<writer, r>> \in overlap

\* The record of a run that overlapped no other is what the session ended with:
\* its last status, and the CLI session ID a resume after a crash needs.
StoreIsCurrent ==
    \A o \in Obj :
        writer # None /\ ctxOf[o] = writer /\ Alone(writer) /\ status[o] \in Terminal
        => store = [status |-> status[o], cli |-> cliID[o]]

\* What a restarted process reads is terminal and current; only the overlap of
\* two runs makes it otherwise, and a failed save leaves what was there.
StoreIsRight == StoredIsTerminal /\ StoreIsCurrent

\* One process, one turn loop for the ID: two resumes of a session that is only
\* on disk do not both start a runner on it.
OneLoopPerID ==
    \A q, r \in Run : InLoop(q) /\ InLoop(r) => q = r

\* A follow-up never kills the process.
NoPanic == ~panicked

\* A run that drives an agent is one the Manager can still find: a session that
\* was deleted had finished.
LoopIsRegistered == \A r \in Run : InLoop(r) => registered = owner[r]

\* StopSession's cancellation is noticed wherever the run is, and the run gets
\* through its clean-up.
StopEnds == \A r \in Run : r \in cancelled ~> (pc[r] = "done" \/ panicked)

\* A follow-up the API accepted is handed to the agent, unless the run it was
\* accepted for ends first.
FollowUpServed ==
    \A r \in Run : inbox[r] = 1 ~> (inbox[r] = 0 \/ pc[r] = "done" \/ panicked)

\* Close is enough to bring every session to an end, those in the middle of
\* being resumed included.
CloseEnds == mgrClosed ~> (\A r \in Run : pc[r] \in {"unborn", "done"}) \/ ~mgrClosed \/ panicked

\* Runs come to an end when they are told to, one by one or all at once.
RunsEnd == StopEnds /\ CloseEnds
=============================================================================
