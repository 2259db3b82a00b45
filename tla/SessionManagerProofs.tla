------------------------ MODULE SessionManagerProofs ------------------------
(* What holds of SessionManager for any number of runs, sessions and callers, *)
(* whatever the environment is allowed to do.                                 *)
EXTENDS SessionManager, TLAPS

\* A run between its start and its last write belongs to a *Session that exists.
LiveOwner == \A r \in Run : Live(r) => owner[r] \in Obj /\ status[owner[r]] \in Status

\* A run in its turn loop belongs to a session whose status is not terminal, so
\* ResumeSession's status check keeps every other run out.
LoopActive == \A r \in Run : InLoop(r) => status[owner[r]] \in Active

\* A call in progress holds on to the session or the channel it looked up.
CallHolds ==
    \A c \in Caller :
       /\ call[c].op \in {"stop", "cancel", "send", "complete", "resume"}
             => call[c].obj \in Obj
       /\ call[c].op = "sending" => call[c].chan \in Run

IInv == TypeOK /\ LiveOwner /\ LoopActive /\ CallHolds /\ OneLoopPerSession
-----------------------------------------------------------------------------
\* What a call may hold is well typed.
LEMMA CallType ==
  ASSUME NEW f \in Ops, NEW o \in Obj \cup {None}, NEW h \in Run \cup {None}
  PROVE  [op |-> f, obj |-> o, chan |-> h] \in Call
  BY DEF Call

\* A goroutine outside the API is well typed and holds nothing.
LEMMA IdlingType == Idling \in Call /\ Idling.op = "none"
  BY CallType DEF Idling, Ops

\* A call that goes on keeps what it holds.
LEMMA ContinueType ==
  ASSUME call \in [Caller -> Call], NEW c \in Caller, NEW f \in Ops, Continue(c, f)
  PROVE  /\ call' \in [Caller -> Call]
         /\ call'[c].op = f /\ call'[c].obj = call[c].obj /\ call'[c].chan = call[c].chan
         /\ \A d \in Caller \ {c} : call'[d] = call[d]
  <1>1. call[c] = [op |-> call[c].op, obj |-> call[c].obj, chan |-> call[c].chan]
    BY DEF Call
  <1>2. [call[c] EXCEPT !.op = f] = [op |-> f, obj |-> call[c].obj, chan |-> call[c].chan]
    BY <1>1
  <1>3. call' = [call EXCEPT ![c] = [op |-> f, obj |-> call[c].obj, chan |-> call[c].chan]]
    BY <1>2 DEF Continue
  <1>4. [op |-> f, obj |-> call[c].obj, chan |-> call[c].chan] \in Call
    BY CallType DEF Call
  <1> QED
    BY <1>3, <1>4

\* The first state satisfies the inductive invariant.
THEOREM InitInv == Init => IInv
  <1> SUFFICES ASSUME Init PROVE IInv
    OBVIOUS
  <1>1. call \in [Caller -> Call] /\ CallHolds
    BY IdlingType DEF Init, CallHolds
  <1>2. status \in [Obj -> Status \cup {"unborn", "gone"}]
    BY DEF Init
  <1>3. pc \in [Run -> Pcs] /\ inbox \in [Run -> 0..1]
    BY DEF Init, Pcs
  <1>4. cliID \in [Obj -> BOOLEAN] /\ ctxOf \in [Obj -> Run \cup {None}]
    BY DEF Init
  <1>5. owner \in [Run -> Obj \cup {None}] /\ snap \in [Run -> Record \cup {None}]
    BY DEF Init
  <1>8. /\ registered \in Obj \cup {None} /\ followUp \in Run \cup {None}
        /\ store \in Record \cup {None} /\ writer \in Run \cup {None}
        /\ cancelled \subseteq Run /\ closed \subseteq Run /\ overlap \subseteq Run \X Run
        /\ mgrClosed \in BOOLEAN /\ panicked \in BOOLEAN
    BY DEF Init
  <1>6. TypeOK
    BY <1>1, <1>2, <1>3, <1>4, <1>5, <1>8 DEF TypeOK
  <1>7. LiveOwner /\ LoopActive /\ OneLoopPerSession
    BY DEF Init, LiveOwner, Live, LoopActive, InLoop, OneLoopPerSession
  <1> QED
    BY <1>1, <1>6, <1>7 DEF IInv

\* The steps of a runSession goroutine preserve it: a run writes only the
\* status of its own session, which no other run in the loop has.
LEMMA RunStepInv ==
  ASSUME IInv, NEW r \in Run, RunStep(r)
  PROVE  IInv'
  <1> USE SessionConstants DEF IInv, TypeOK, LiveOwner, Live, LoopActive, InLoop,
          CallHolds, OneLoopPerSession, Pcs, Call, Ops, Record, Status, Active, Terminal,
          Goto, UpdateStatus, MayLeave, FailSession, objVars, runVars, chanVars, diskVars
  <1>1. CASE Begin(r)
    BY <1>1 DEF Begin
  <1>2. CASE StartFails(r)
    BY <1>2, SMTT(30) DEF StartFails
  <1>3. CASE StartOK(r)
    BY <1>3 DEF StartOK
  <1>4. CASE InstallChannel(r)
    BY <1>4 DEF InstallChannel
  <1>5. CASE TurnEnds(r)
    BY <1>5 DEF TurnEnds
  <1>6. CASE TurnErrs(r)
    BY <1>6, SMTT(30) DEF TurnErrs
  <1>7. CASE IdleStopped(r)
    BY <1>7 DEF IdleStopped
  <1>8. CASE IdleFollowUp(r)
    BY <1>8 DEF IdleFollowUp
  <1>9. CASE IdleCompleted(r)
    BY <1>9 DEF IdleCompleted
  <1>10. CASE IdleChildEvent(r)
    BY <1>10 DEF IdleChildEvent
  <1>11. CASE CleanUp(r)
    BY <1>11 DEF CleanUp
  <1>12. CASE Snapshot(r)
    BY <1>12 DEF Snapshot
  <1>13. CASE Save(r)
    BY <1>13 DEF Save
  <1> QED
    BY <1>1, <1>2, <1>3, <1>4, <1>5, <1>6, <1>7, <1>8, <1>9, <1>10, <1>11,
       <1>12, <1>13 DEF RunStep

\* The steps of an API goroutine preserve it; the one that matters is
\* ResumeClaims, where the terminal status excludes a run in the loop.
LEMMA CallStepInv ==
  ASSUME IInv, NEW c \in Caller, CallStep(c)
  PROVE  IInv'
  <1> USE CallType, IdlingType
      DEF IInv, TypeOK, LiveOwner, Live, LoopActive, InLoop, CallHolds,
          OneLoopPerSession, Pcs, Record, Status, Active, Terminal, Goto,
          objVars, runVars, chanVars, diskVars
  <1>1. CASE Find(c)
    BY <1>1 DEF Find, Ops
  <1>2. ASSUME NEW f \in {"cancel", "channel", "closing"}, Continue(c, f) \/ Return(c),
               f = "cancel" => call[c].op = "stop",
               UNCHANGED <<registered, objVars, runVars, cancelled, chanVars, diskVars,
                           mgrClosed, panicked>>
        PROVE  IInv'
    <2>1. CASE Continue(c, f)
      BY <1>2, <2>1, ContinueType DEF Ops
    <2>2. CASE Return(c)
      BY <1>2, <2>2 DEF Return
    <2> QED
      BY <1>2, <2>1, <2>2
  <1>3. CASE StopChecks(c)
    BY <1>2, <1>3 DEF StopChecks
  <1>4. CASE SendChecks(c)
    BY <1>2, <1>4 DEF SendChecks
  <1>5. CASE CompleteChecks(c)
    BY <1>2, <1>5 DEF CompleteChecks
  <1>6. CASE Cancel(c)
    BY <1>6 DEF Cancel, Return
  <1>7. CASE SendLookup(c)
    BY <1>7 DEF SendLookup, Return, Ops
  <1>8. CASE Send(c)
    BY <1>8 DEF Send, Return
  <1>9. CASE CloseChannel(c)
    BY <1>9 DEF CloseChannel, Return
  <1>10. CASE ResumeMisses(c)
    BY <1>10, ContinueType DEF ResumeMisses, Ops
  <1>11. CASE RehydrateFails(c) \/ ResumeRefused(c)
    BY <1>11 DEF RehydrateFails, ResumeRefused, Return
  <1>12. ASSUME NEW o \in Obj, Rehydrate(c, o)
         PROVE  IInv'
    BY <1>12 DEF Rehydrate, Ops
  <1>13. ASSUME NEW r \in Run, ResumeClaims(c, r)
         PROVE  IInv'
    BY <1>13, SMTT(30) DEF ResumeClaims, Resumable, Spawn, Return
  <1>14. CASE DeleteSession(c)
    BY <1>14, ContinueType DEF DeleteSession, Ops
  <1>15. CASE DeleteRecord(c)
    BY <1>15 DEF DeleteRecord, Return
  <1> QED
    BY <1>1, <1>3, <1>4, <1>5, <1>6, <1>7, <1>8, <1>9, <1>10, <1>11, <1>12, <1>13,
       <1>14, <1>15 DEF CallStep

\* Starting, closing and restarting preserve it.
LEMMA OtherStepInv ==
  ASSUME IInv,
         \/ \E o \in Obj, r \in Run : StartSession(o, r)
         \/ CloseManager \/ Restart
  PROVE  IInv'
  <1> USE SessionConstants DEF IInv, TypeOK, LiveOwner, Live, LoopActive, InLoop,
          CallHolds, OneLoopPerSession, Pcs, Call, Ops, Record, Status, Active, Terminal,
          Goto, Idling, objVars, runVars, chanVars, diskVars
  <1>1. ASSUME NEW o \in Obj, NEW r \in Run, StartSession(o, r)
        PROVE  IInv'
    BY <1>1 DEF StartSession, Spawn
  <1>2. CASE CloseManager
    BY <1>2 DEF CloseManager
  <1>3. CASE Restart
    <2>1. \A r \in Run : pc'[r] \in {"unborn", "done"} /\ owner'[r] = None
      BY <1>3 DEF Restart
    <2>2. call' \in [Caller -> Call] /\ CallHolds'
      BY <1>3, IdlingType DEF Restart
    <2>4. /\ status' \in [Obj -> Status \cup {"unborn", "gone"}]
          /\ cliID' \in [Obj -> BOOLEAN] /\ ctxOf' \in [Obj -> Run \cup {None}]
      BY <1>3 DEF Restart
    <2>5. /\ pc' \in [Run -> Pcs] /\ owner' \in [Run -> Obj \cup {None}]
          /\ snap' \in [Run -> Record \cup {None}] /\ inbox' \in [Run -> 0..1]
      BY <1>3 DEF Restart
    <2>6. UNCHANGED <<store, overlap, writer>>
      BY <1>3 DEF Restart
    <2>7. /\ registered' \in Obj \cup {None} /\ followUp' \in Run \cup {None}
          /\ cancelled' \subseteq Run /\ closed' \subseteq Run
          /\ mgrClosed' \in BOOLEAN /\ panicked' \in BOOLEAN
      BY <1>3 DEF Restart
    <2>3. TypeOK'
      BY <2>2, <2>4, <2>5, <2>6, <2>7
    <2> QED
      BY <2>1, <2>2, <2>3
  <1> QED
    BY <1>1, <1>2, <1>3

\* Every step preserves the inductive invariant.
THEOREM StepInv == IInv /\ [Next]_vars => IInv'
  <1> SUFFICES ASSUME IInv, [Next]_vars PROVE IInv'
    OBVIOUS
  <1>1. CASE \E r \in Run : RunStep(r)
    BY <1>1, RunStepInv
  <1>2. CASE \E c \in Caller : CallStep(c)
    BY <1>2, CallStepInv
  <1>3. CASE \/ \E o \in Obj, r \in Run : StartSession(o, r)
             \/ CloseManager \/ Restart
    BY <1>3, OtherStepInv
  <1>4. CASE UNCHANGED vars
    BY <1>4 DEF vars, IInv, TypeOK, LiveOwner, Live, LoopActive, InLoop,
       CallHolds, OneLoopPerSession
  <1> QED
    BY <1>1, <1>2, <1>3, <1>4 DEF Next

\* Type correctness: in particular no record of a session that does not exist
\* is ever written, and no call acts on one.
THEOREM TypeCorrect == Spec => []TypeOK
  <1>1. IInv => TypeOK
    BY DEF IInv
  <1> QED
    BY InitInv, StepInv, <1>1, PTL DEF Spec

\* ResumeSession's critical section does what its comment says of one *Session:
\* however many callers resume, stop, complete and delete it, and whatever the
\* clean-up of earlier runs is doing, at most one goroutine drives it.
THEOREM OneLoop == Spec => []OneLoopPerSession
  <1>1. IInv => OneLoopPerSession
    BY DEF IInv
  <1> QED
    BY InitInv, StepInv, <1>1, PTL DEF Spec
-----------------------------------------------------------------------------
(* Served and recorded.  A resume may overlap the clean-up of the run before  *)
(* it; what that breaks is named by the history variable overlap, and nothing *)
(* else is broken.                                                            *)

\* Of two runs at work, one was started while the other had not returned.
LiveOverlap ==
    \A q, r \in Run : Live(q) /\ Live(r) /\ q # r
                       => <<q, r>> \in overlap \/ <<r, q>> \in overlap

\* Of two runs of one *Session, it is the one in its turn loop that came later.
LoopIsLater ==
    \A q, r \in Run : Live(q) /\ InLoop(r) /\ q # r /\ owner[q] = owner[r]
                       => <<q, r>> \in overlap

\* A session's context is one made for it; a session not created has none.
ContextIsOwn ==
    \A o \in Obj : /\ status[o] = "unborn" => ctxOf[o] = None
                   /\ ctxOf[o] # None => pc[ctxOf[o]] # "unborn" /\ owner[ctxOf[o]] = o

\* From the moment a run has installed its channel, until it leaves its loop.
TurnIsReachable ==
    \A r \in Run : pc[r] \in {"turn", "idle"} => followUp = r \/ r \in closed \/ ~Alone(r)

SInv == /\ LiveOverlap /\ LoopIsLater /\ ContextIsOwn /\ TurnIsReachable
        /\ LoopIsStoppable /\ NoZombieSession

Overtaken(q) == \E r \in Run : <<q, r>> \in overlap

\* A run that has left its loop left a terminal status, unless another was let
\* in since; the record it has taken is its session's, with the same exception.
TornIsTerminal ==
    \A q \in Run :
       /\ pc[q] \in {"stopping", "snapshot", "write"}
             => status[owner[q]] \in Terminal \/ Overtaken(q)
       /\ pc[q] = "write" =>
             /\ snap[q] \in Record
             /\ snap[q].status \in Terminal \/ Overtaken(q)
             /\ Overtaken(q) \/ snap[q] = [status |-> status[owner[q]], cli |-> cliID[owner[q]]]

\* The run whose record is on disk has returned.
WriterIsDone == /\ writer # None => pc[writer] = "done"
                /\ store # None <=> writer # None

RInv == TornIsTerminal /\ WriterIsDone /\ StoreIsRight
-----------------------------------------------------------------------------
\* The first state satisfies both.
LEMMA InitServed == Init => SInv /\ RInv
  BY DEF Init, SInv, LiveOverlap, LoopIsLater, ContextIsOwn, TurnIsReachable,
     LoopIsStoppable, NoZombieSession, RInv, TornIsTerminal, WriterIsDone, StoreIsRight,
     StoredIsTerminal, StoreIsCurrent, Live, InLoop, Active, Terminal

\* What a step of run r leaves alone: every other run, and every session but the
\* one it drives in its turn loop, which it takes out of an active status
\* exactly when it leaves the loop.
LEMMA RunFrame ==
  ASSUME IInv, NEW r \in Run, RunStep(r)
  PROVE  /\ \A q \in Run \ {r} : pc'[q] = pc[q] /\ snap'[q] = snap[q]
         /\ Live(r) /\ pc'[r] # "unborn" /\ owner[r] \in Obj
         /\ UNCHANGED <<registered, owner, ctxOf, overlap, call, closed>>
         /\ InLoop(r)' => InLoop(r)
         /\ \A o \in Obj : o # owner[r] \/ ~InLoop(r)
                => status'[o] = status[o] /\ cliID'[o] = cliID[o]
         /\ InLoop(r) /\ InLoop(r)' => status'[owner[r]] \in Active
         /\ InLoop(r) /\ ~InLoop(r)' => status'[owner[r]] \in Terminal
         /\ pc'[r] = "write" => pc[r] = "snapshot"
         /\ pc[r] = "write" => Save(r)
  <1> USE SessionConstants DEF IInv, TypeOK, LiveOwner, Live, LoopActive, InLoop,
          Pcs, Status, Active, Terminal, Goto, UpdateStatus, MayLeave, FailSession,
          objVars, runVars, chanVars, diskVars
  <1>1. CASE Begin(r)
    BY <1>1 DEF Begin
  <1>2. CASE StartFails(r)
    BY <1>2 DEF StartFails
  <1>3. CASE StartOK(r)
    BY <1>3 DEF StartOK
  <1>4. CASE InstallChannel(r)
    BY <1>4 DEF InstallChannel
  <1>5. CASE TurnEnds(r)
    BY <1>5 DEF TurnEnds
  <1>6. CASE TurnErrs(r)
    BY <1>6 DEF TurnErrs
  <1>7. CASE IdleStopped(r)
    BY <1>7 DEF IdleStopped
  <1>8. CASE IdleFollowUp(r)
    BY <1>8 DEF IdleFollowUp
  <1>9. CASE IdleCompleted(r)
    BY <1>9 DEF IdleCompleted
  <1>10. CASE IdleChildEvent(r)
    BY <1>10 DEF IdleChildEvent
  <1>11. CASE CleanUp(r)
    BY <1>11 DEF CleanUp
  <1>12. CASE Snapshot(r)
    BY <1>12 DEF Snapshot
  <1>13. CASE Save(r)
    BY <1>13 DEF Save
  <1> QED
    BY <1>1, <1>2, <1>3, <1>4, <1>5, <1>6, <1>7, <1>8, <1>9, <1>10, <1>11,
       <1>12, <1>13 DEF RunStep

\* Only installing and cleaning up change the map entry of the channel, and a
\* run in its turn has installed its own.
LEMMA RunChannel ==
  ASSUME IInv, NEW r \in Run, RunStep(r)
  PROVE  /\ followUp' # followUp => pc'[r] \notin {"turn", "idle"} \/ followUp' = r
         /\ pc'[r] \in {"turn", "idle"} /\ pc[r] \notin {"turn", "idle"} => followUp' = r
  BY DEF RunStep, IInv, TypeOK, Goto, Begin, StartFails, StartOK, InstallChannel, TurnEnds,
     TurnErrs, IdleStopped, IdleFollowUp, IdleCompleted, IdleChildEvent, CleanUp, Snapshot,
     Save, chanVars

\* A run's steps preserve what the user can count on: a channel entry it takes
\* over or deletes is its own, or that of a run it overlaps.
LEMMA RunStepServed ==
  ASSUME IInv, SInv, NEW r \in Run, RunStep(r)
  PROVE  SInv'
  <1> USE RunFrame DEF SInv
  <1>1. \A q \in Run : (Live(q)' => Live(q)) /\ (InLoop(q)' => InLoop(q))
    BY DEF Live, InLoop
  <1>2. LiveOverlap' /\ LoopIsLater' /\ LoopIsStoppable'
    BY <1>1 DEF LiveOverlap, LoopIsLater, LoopIsStoppable
  <1>3. ContextIsOwn'
    <2> SUFFICES ASSUME NEW o \in Obj
                 PROVE  /\ status'[o] = "unborn" => ctxOf[o] = None
                        /\ ctxOf[o] # None => pc'[ctxOf[o]] # "unborn" /\ owner[ctxOf[o]] = o
      BY DEF ContextIsOwn
    <2>1. status'[o] = "unborn" => status[o] = "unborn"
      BY DEF Active, Terminal
    <2>2. ctxOf[o] \in Run \cup {None}
      BY DEF IInv, TypeOK
    <2> QED
      BY <2>1, <2>2 DEF ContextIsOwn
  <1>4. TurnIsReachable'
    <2> SUFFICES ASSUME NEW q \in Run, pc'[q] \in {"turn", "idle"}
                 PROVE  followUp' = q \/ q \in closed \/ ~Alone(q)
      BY DEF TurnIsReachable, Alone
    <2>1. CASE q = r
      BY <2>1, RunChannel DEF TurnIsReachable
    <2>2. CASE q # r
      <3>1. pc[q] = pc'[q] /\ Live(q)
        BY <2>2 DEF Live
      <3>2. ~Alone(q)
        BY <2>2, <3>1 DEF LiveOverlap, Alone
      <3> QED
        BY <3>2
    <2> QED
      BY <2>1, <2>2
  <1>5. NoZombieSession'
    <2> SUFFICES ASSUME NEW o \in Obj, status'[o] \in Active, ctxOf[o] # None
                 PROVE  \E q \in Run : InLoop(q)' /\ owner[q] = o
      BY DEF NoZombieSession
    <2>1. CASE o = owner[r] /\ InLoop(r)
      BY <2>1 DEF Active, Terminal
    <2>2. CASE o # owner[r] \/ ~InLoop(r)
      <3>1. PICK q \in Run : InLoop(q) /\ owner[q] = o
        BY <2>2 DEF NoZombieSession
      <3>2. q # r
        BY <2>2, <3>1
      <3> QED
        BY <3>1, <3>2 DEF InLoop
    <2> QED
      BY <2>1, <2>2
  <1> QED
    BY <1>2, <1>3, <1>4, <1>5

\* What the calls that neither rehydrate nor claim leave alone.
LEMMA CallFrame ==
  ASSUME NEW c \in Caller, CallStep(c),
         ~\E o \in Obj : Rehydrate(c, o), ~\E r \in Run : ResumeClaims(c, r)
  PROVE  /\ UNCHANGED <<status, cliID, ctxOf, owner, pc, snap, overlap>>
         /\ closed \subseteq closed'
         /\ followUp' = followUp \/ followUp = None \/ followUp \in closed'
         /\ UNCHANGED <<store, writer>> \/ (store' = None /\ writer' = None)
  BY DEF CallStep, Find, StopChecks, SendChecks, CompleteChecks, Cancel, SendLookup, Send,
     CloseChannel, ResumeMisses, RehydrateFails, ResumeRefused, DeleteSession, DeleteRecord,
     Return, Continue, objVars, runVars, chanVars, diskVars

\* What ResumeClaims does to runs and sessions.
LEMMA ClaimFrame ==
  ASSUME IInv, NEW c \in Caller, NEW r \in Run, ResumeClaims(c, r), NEW o, o = call[c].obj
  PROVE  /\ o \in Obj /\ pc[r] = "unborn" /\ pc'[r] = "begin"
         /\ \A q \in Run \ {r} : pc'[q] = pc[q] /\ owner'[q] = owner[q]
         /\ owner'[r] = o /\ ctxOf'[o] = r
         /\ \A p \in Obj \ {o} : ctxOf'[p] = ctxOf[p] /\ status'[p] = status[p]
         /\ status[o] \in Terminal /\ status'[o] = "pending"
         /\ overlap' = overlap \cup {<<q, r>> : q \in {p \in Run : Live(p)}}
         /\ UNCHANGED <<followUp, closed, snap, store, writer, cliID>>
         /\ \A q \in Run : InLoop(q) => owner[q] # o
  BY DEF ResumeClaims, Spawn, Goto, Resumable, IInv, TypeOK, CallHolds, LoopActive,
     chanVars, diskVars, Active, Terminal

\* The calls preserve it: a run is let in only on a session that is in nobody's
\* loop, and a session read back has no context yet.
LEMMA CallStepServed ==
  ASSUME IInv, SInv, NEW c \in Caller, CallStep(c)
  PROVE  SInv'
  <1> USE DEF SInv
  <1>1. CASE /\ ~\E o \in Obj : Rehydrate(c, o)
             /\ ~\E r \in Run : ResumeClaims(c, r)
    <2>1. LiveOverlap' /\ LoopIsLater' /\ ContextIsOwn' /\ LoopIsStoppable' /\ NoZombieSession'
      BY <1>1, CallFrame DEF LiveOverlap, LoopIsLater, ContextIsOwn, LoopIsStoppable,
         NoZombieSession, Live, InLoop
    <2>2. TurnIsReachable'
      BY <1>1, CallFrame, SessionConstants DEF TurnIsReachable, Alone
    <2> QED
      BY <2>1, <2>2
  <1>2. ASSUME NEW o \in Obj, Rehydrate(c, o)
        PROVE  SInv'
    BY <1>2, SessionConstants
       DEF Rehydrate, IInv, TypeOK, LiveOverlap, LoopIsLater, ContextIsOwn, LoopIsStoppable,
       NoZombieSession, TurnIsReachable, Alone, Live, InLoop, runVars, chanVars, diskVars,
       Record, Status, Active, Terminal
  <1>3. ASSUME NEW r \in Run, ResumeClaims(c, r)
        PROVE  SInv'
    <2> DEFINE o == call[c].obj
    <2> USE <1>3, ClaimFrame
    <2>1. \A q \in Run \ {r} : /\ Live(q)' <=> Live(q)
                               /\ InLoop(q)' <=> InLoop(q)
      BY DEF Live, InLoop
    <2>2. \A q \in Run \ {r} : Live(q) => <<q, r>> \in overlap'
      OBVIOUS
    <2>3. overlap \subseteq overlap'
      OBVIOUS
    <2>4. LiveOverlap'
      <3> SUFFICES ASSUME NEW p \in Run, NEW q \in Run, Live(p)', Live(q)', p # q
                   PROVE  <<p, q>> \in overlap' \/ <<q, p>> \in overlap'
        BY DEF LiveOverlap
      <3> QED
        BY <2>1, <2>2, <2>3 DEF LiveOverlap
    <2>5. LoopIsLater'
      <3> SUFFICES ASSUME NEW p \in Run, NEW q \in Run, Live(p)', InLoop(q)', p # q,
                          owner'[p] = owner'[q]
                   PROVE  <<p, q>> \in overlap'
        BY DEF LoopIsLater
      <3>1. CASE q = r
        BY <2>1, <2>2, <3>1
      <3>2. CASE q # r
        BY <2>1, <2>3, <3>2 DEF LoopIsLater
      <3> QED
        BY <3>1, <3>2
    <2>6. ContextIsOwn'
      <3> SUFFICES ASSUME NEW p \in Obj
                   PROVE  /\ status'[p] = "unborn" => ctxOf'[p] = None
                          /\ ctxOf'[p] # None => /\ pc'[ctxOf'[p]] # "unborn"
                                                 /\ owner'[ctxOf'[p]] = p
        BY DEF ContextIsOwn
      <3>1. ctxOf[p] \in Run \cup {None}
        BY DEF IInv, TypeOK
      <3> QED
        BY <3>1 DEF ContextIsOwn
    <2>7. LoopIsStoppable'
      <3> SUFFICES ASSUME NEW q \in Run, InLoop(q)'
                   PROVE  ctxOf'[owner'[q]] = q
        BY DEF LoopIsStoppable
      <3>1. CASE q = r
        BY <3>1
      <3>2. CASE q # r
        BY <2>1, <3>2 DEF LoopIsStoppable, IInv, LiveOwner, Live, InLoop
      <3> QED
        BY <3>1, <3>2
    <2>8. NoZombieSession'
      <3> SUFFICES ASSUME NEW p \in Obj, status'[p] \in Active, ctxOf'[p] # None
                   PROVE  \E q \in Run : InLoop(q)' /\ owner'[q] = p
        BY DEF NoZombieSession
      <3>1. CASE p = o
        BY <3>1 DEF InLoop
      <3>2. CASE p # o
        BY <2>1, <3>2 DEF NoZombieSession, InLoop
      <3> QED
        BY <3>1, <3>2
    <2>9. TurnIsReachable'
      BY <2>3 DEF TurnIsReachable, Alone
    <2> QED
      BY <2>4, <2>5, <2>6, <2>7, <2>8, <2>9
  <1> QED
    BY <1>1, <1>2, <1>3

\* Starting, closing and restarting preserve it.
LEMMA OtherStepServed ==
  ASSUME IInv, SInv,
         \/ \E o \in Obj, r \in Run : StartSession(o, r)
         \/ CloseManager \/ Restart
  PROVE  SInv'
  <1> USE SessionConstants DEF SInv, IInv, TypeOK
  <1>1. ASSUME NEW o \in Obj, NEW r \in Run, StartSession(o, r)
        PROVE  SInv'
    <2>1. /\ \A q \in Run \ {r} : pc'[q] = "unborn"
          /\ pc'[r] = "begin" /\ owner'[r] = o /\ ctxOf'[o] = r /\ status'[o] = "pending"
          /\ \A p \in Obj \ {o} : ctxOf'[p] = ctxOf[p] /\ status'[p] = status[p]
          /\ \A q \in Run : pc[q] = "unborn"
      BY <1>1 DEF StartSession, Spawn, Goto
    <2>2. LiveOverlap' /\ LoopIsLater' /\ LoopIsStoppable' /\ TurnIsReachable'
      BY <2>1 DEF LiveOverlap, LoopIsLater, LoopIsStoppable, TurnIsReachable, Live, InLoop
    <2>3. \A p \in Obj : ctxOf[p] = None
      BY <2>1 DEF ContextIsOwn
    <2>4. ContextIsOwn' /\ NoZombieSession'
      BY <2>1, <2>3 DEF ContextIsOwn, NoZombieSession, InLoop
    <2> QED
      BY <2>2, <2>4
  <1>2. CASE CloseManager
    BY <1>2 DEF CloseManager, LiveOverlap, LoopIsLater, ContextIsOwn, LoopIsStoppable,
       NoZombieSession, TurnIsReachable, Alone, Live, InLoop, objVars, runVars, chanVars
  <1>3. CASE Restart
    BY <1>3 DEF Restart, LiveOverlap, LoopIsLater, ContextIsOwn, LoopIsStoppable,
       NoZombieSession, TurnIsReachable, Live, InLoop, Active
  <1> QED
    BY <1>1, <1>2, <1>3

\* Every step preserves it.
LEMMA StepServed ==
  ASSUME IInv, SInv, [Next]_vars
  PROVE  SInv'
  <1>1. CASE \E r \in Run : RunStep(r)
    BY <1>1, RunStepServed
  <1>2. CASE \E c \in Caller : CallStep(c)
    BY <1>2, CallStepServed
  <1>3. CASE \/ \E o \in Obj, r \in Run : StartSession(o, r)
             \/ CloseManager \/ Restart
    BY <1>3, OtherStepServed
  <1>4. CASE UNCHANGED vars
    BY <1>4 DEF vars, SInv, LiveOverlap, LoopIsLater, ContextIsOwn, LoopIsStoppable,
       NoZombieSession, TurnIsReachable, Alone, Live, InLoop
  <1> QED
    BY <1>1, <1>2, <1>3, <1>4 DEF Next

\* However resumes overlap the clean-up of the runs before them, whatever is
\* deleted and however often the process restarts: a session in a loop can be
\* stopped, an active status has a goroutine behind it or was just read from
\* disk, and an idle run that overlapped no other is found by SendFollowUp.
THEOREM Served == Spec => []SessionIsServed
  <1>1. IInv /\ SInv /\ [Next]_vars => IInv' /\ SInv'
    BY StepInv, StepServed
  <1>2. Init => IInv /\ SInv
    BY InitInv, InitServed
  <1>3. SInv => SessionIsServed
    BY DEF SInv, SessionIsServed, TurnIsReachable, IdleIsReachable
  <1> QED
    BY <1>1, <1>2, <1>3, PTL DEF Spec
-----------------------------------------------------------------------------
\* What is on disk was true of its run, and stays true of a run that is alone.
LEMMA StoreKept ==
  ASSUME RInv, UNCHANGED <<store, writer>>, overlap \subseteq overlap',
         writer # None => writer \in Run /\ pc'[writer] = "done",
         \A o \in Obj : /\ writer # None /\ ctxOf'[o] = writer
                        /\ status'[o] \in Terminal /\ Alone(writer)
              => /\ ctxOf[o] = ctxOf'[o]
                 /\ status[o] = status'[o] /\ cliID[o] = cliID'[o]
  PROVE  WriterIsDone' /\ StoreIsRight'
  BY DEF RInv, WriterIsDone, StoreIsRight, StoredIsTerminal, StoreIsCurrent, Alone

\* A run's steps preserve it: the status of a session in somebody's loop is not
\* the one an earlier, lonely run of it recorded.
LEMMA RunStepRecorded ==
  ASSUME IInv, SInv, RInv, NEW r \in Run, RunStep(r)
  PROVE  RInv'
  <1> USE RunFrame
  <1>1. TornIsTerminal'
    <2> SUFFICES ASSUME NEW q \in Run
                 PROVE  /\ pc'[q] \in {"stopping", "snapshot", "write"}
                             => status'[owner[q]] \in Terminal \/ Overtaken(q)
                        /\ pc'[q] = "write" =>
                             /\ snap'[q] \in Record
                             /\ snap'[q].status \in Terminal \/ Overtaken(q)
                             /\ \/ Overtaken(q)
                                \/ snap'[q] = [status |-> status'[owner[q]],
                                               cli |-> cliID'[owner[q]]]
      BY DEF TornIsTerminal, Overtaken
    <2>1. CASE q # r
      <3>1. pc'[q] = pc[q] /\ snap'[q] = snap[q]
        BY <2>1
      <3>2. CASE pc[q] \in {"stopping", "snapshot", "write"}
        <4>1. owner[q] \in Obj /\ Live(q)
          BY <3>2 DEF IInv, LiveOwner, Live
        <4>2. Overtaken(q) \/ ~InLoop(r) \/ owner[q] # owner[r]
          BY <2>1, <4>1 DEF SInv, LoopIsLater, Overtaken
        <4>3. Overtaken(q) \/ (/\ status'[owner[q]] = status[owner[q]]
                               /\ cliID'[owner[q]] = cliID[owner[q]])
          BY <4>1, <4>2
        <4> QED
          BY <3>1, <4>3 DEF RInv, TornIsTerminal
      <3> QED
        BY <3>1, <3>2
    <2>2. CASE q = r /\ InLoop(r)
      BY <2>2 DEF InLoop, IInv, TypeOK, Pcs
    <2>3. CASE q = r /\ ~InLoop(r)
      <3>1. /\ status'[owner[r]] = status[owner[r]]
            /\ cliID'[owner[r]] = cliID[owner[r]]
        BY <2>3
      <3>2. pc[r] \in {"stopping", "snapshot", "write"}
        BY <2>3 DEF InLoop, Live, IInv, TypeOK, Pcs
      <3>3. status[owner[r]] \in Terminal \/ Overtaken(r)
        BY <3>2 DEF RInv, TornIsTerminal
      <3>4. CASE pc'[r] = "write"
        <4>1. Snapshot(r)
          BY <3>4 DEF RunStep, Begin, StartFails, StartOK, InstallChannel, TurnEnds, TurnErrs,
             IdleStopped, IdleFollowUp, IdleCompleted, IdleChildEvent, CleanUp, Save
        <4>2. snap'[r] = [status |-> status[owner[r]], cli |-> cliID[owner[r]]]
          BY <4>1 DEF Snapshot, IInv, TypeOK
        <4>3. /\ status[owner[r]] \in Status /\ cliID[owner[r]] \in BOOLEAN
          BY DEF IInv, TypeOK, LiveOwner
        <4>4. snap'[r] \in Record
          BY <4>2, <4>3 DEF Record
        <4> QED
          BY <2>3, <3>1, <3>3, <4>2, <4>4
      <3> QED
        BY <2>3, <3>1, <3>3, <3>4
    <2> QED
      BY <2>1, <2>2, <2>3
  <1>2. CASE UNCHANGED <<store, writer>>
    <2>1. writer # None => writer \in Run /\ pc[writer] = "done" /\ writer # r
      BY DEF RInv, WriterIsDone, IInv, TypeOK, Live
    <2>2. writer # None => pc'[writer] = "done"
      BY <2>1
    <2>3. ASSUME NEW o \in Obj, writer # None, ctxOf'[o] = writer
          PROVE  status[o] = status'[o] /\ cliID[o] = cliID'[o]
      BY <2>1, <2>3 DEF SInv, LoopIsStoppable
    <2> QED
      BY <1>1, <1>2, <2>1, <2>2, <2>3, StoreKept DEF RInv
  <1>3. CASE ~UNCHANGED <<store, writer>>
    <2>1. /\ pc[r] = "write" /\ pc'[r] = "done" /\ store' = snap[r] /\ writer' = r
          /\ UNCHANGED <<status, cliID>>
      BY <1>3 DEF RunStep, Begin, StartFails, StartOK, InstallChannel, TurnEnds, TurnErrs,
         IdleStopped, IdleFollowUp, IdleCompleted, IdleChildEvent, CleanUp, Snapshot, Save,
         diskVars, objVars, IInv, TypeOK, Goto
    <2>2. /\ snap[r] \in Record
          /\ snap[r].status \in Terminal \/ Overtaken(r)
          /\ Overtaken(r) \/ snap[r] = [status |-> status[owner[r]], cli |-> cliID[owner[r]]]
      BY <2>1 DEF RInv, TornIsTerminal
    <2>3. WriterIsDone'
      BY <2>1, <2>2, SessionConstants, NoRecordIsNone DEF WriterIsDone
    <2>4. StoredIsTerminal'
      BY <2>1, <2>2 DEF StoredIsTerminal, Overtaken, Active, Terminal
    <2>5. ASSUME NEW o \in Obj, ctxOf[o] = r, ~Overtaken(r)
          PROVE  store' = [status |-> status[o], cli |-> cliID[o]]
      <3>1. owner[r] = o
        BY <2>5, SessionConstants DEF SInv, ContextIsOwn
      <3> QED
        BY <2>1, <2>2, <2>5, <3>1
    <2>6. StoreIsCurrent'
      BY <2>1, <2>5 DEF StoreIsCurrent, Alone, Overtaken
    <2> QED
      BY <1>1, <2>3, <2>4, <2>6 DEF RInv, StoreIsRight
  <1> QED
    BY <1>2, <1>3

\* The calls preserve it: a run let in while another is on its way out overtakes
\* it, and a deleted record is nobody's.
LEMMA CallStepRecorded ==
  ASSUME IInv, SInv, RInv, NEW c \in Caller, CallStep(c)
  PROVE  RInv'
  <1>w. writer # None => writer \in Run /\ pc[writer] = "done"
    BY DEF RInv, WriterIsDone, IInv, TypeOK
  <1>1. CASE /\ ~\E o \in Obj : Rehydrate(c, o)
             /\ ~\E r \in Run : ResumeClaims(c, r)
    <2> USE <1>1, CallFrame
    <2>1. TornIsTerminal'
      BY DEF RInv, TornIsTerminal, Overtaken
    <2>2. CASE UNCHANGED <<store, writer>>
      BY <1>w, <2>1, <2>2, StoreKept DEF RInv
    <2>3. CASE store' = None /\ writer' = None
      BY <2>1, <2>3 DEF RInv, WriterIsDone, StoreIsRight, StoredIsTerminal, StoreIsCurrent
    <2> QED
      BY <2>2, <2>3
  <1>2. ASSUME NEW o \in Obj, Rehydrate(c, o)
        PROVE  RInv'
    <2>1. /\ status[o] = "unborn" /\ ctxOf[o] = None
          /\ \A p \in Obj \ {o} : status'[p] = status[p] /\ cliID'[p] = cliID[p]
          /\ UNCHANGED <<ctxOf, owner, pc, snap, overlap, store, writer>>
      BY <1>2 DEF Rehydrate, SInv, ContextIsOwn, IInv, TypeOK, runVars, diskVars
    <2>2. \A q \in Run : Live(q) => owner[q] # o
      BY <2>1 DEF IInv, LiveOwner, Status, Active, Terminal
    <2>3. TornIsTerminal'
      <3> SUFFICES ASSUME NEW q \in Run, pc[q] \in {"stopping", "snapshot", "write"}
                   PROVE  /\ status'[owner[q]] = status[owner[q]]
                          /\ cliID'[owner[q]] = cliID[owner[q]]
        BY <2>1 DEF RInv, TornIsTerminal, Overtaken
      <3> QED
        BY <2>1, <2>2 DEF Live, IInv, LiveOwner
    <2>4. WriterIsDone' /\ StoreIsRight'
      BY <1>w, <2>1, StoreKept
    <2> QED
      BY <2>3, <2>4 DEF RInv
  <1>3. ASSUME NEW r \in Run, ResumeClaims(c, r)
        PROVE  RInv'
    <2> DEFINE o == call[c].obj
    <2> USE <1>3, ClaimFrame
    <2>1. TornIsTerminal'
      <3> SUFFICES ASSUME NEW q \in Run, pc'[q] \in {"stopping", "snapshot", "write"}
                   PROVE  /\ pc[q] = pc'[q] /\ snap[q] = snap'[q]
                          /\ Overtaken(q)'
        BY DEF RInv, TornIsTerminal
      <3>1. q # r
        OBVIOUS
      <3>2. Live(q)
        BY <3>1 DEF Live
      <3> QED
        BY <3>1, <3>2 DEF Overtaken
    <2>2. writer # r
      BY <1>w, SessionConstants
    <2>3. WriterIsDone' /\ StoreIsRight'
      <3>1. writer # None => pc'[writer] = "done"
        BY <1>w, <2>2
      <3>2. ASSUME NEW p \in Obj, writer # None, ctxOf'[p] = writer
            PROVE  p # o
        BY <2>2, <3>2
      <3>3. overlap \subseteq overlap'
        OBVIOUS
      <3>4. ASSUME NEW p \in Obj, writer # None, ctxOf'[p] = writer
            PROVE  ctxOf'[p] = ctxOf[p] /\ status'[p] = status[p] /\ cliID'[p] = cliID[p]
        BY <3>2, <3>4
      <3> QED
        BY <1>w, <3>1, <3>3, <3>4, StoreKept
    <2> QED
      BY <2>1, <2>3 DEF RInv
  <1> QED
    BY <1>1, <1>2, <1>3

\* Starting, closing and restarting preserve it.
LEMMA OtherStepRecorded ==
  ASSUME IInv, SInv, RInv,
         \/ \E o \in Obj, r \in Run : StartSession(o, r)
         \/ CloseManager \/ Restart
  PROVE  RInv'
  <1>w. writer # None => writer \in Run /\ pc[writer] = "done"
    BY DEF RInv, WriterIsDone, IInv, TypeOK
  <1>1. ASSUME NEW o \in Obj, NEW r \in Run, StartSession(o, r)
        PROVE  RInv'
    BY <1>1, <1>w DEF StartSession, Spawn, Goto, RInv, TornIsTerminal, WriterIsDone, StoreIsRight,
       StoredIsTerminal, StoreIsCurrent, IInv, TypeOK, diskVars
  <1>2. CASE CloseManager
    BY <1>2 DEF CloseManager, RInv, TornIsTerminal, WriterIsDone, StoreIsRight,
       StoredIsTerminal, StoreIsCurrent, Alone, Overtaken, objVars, runVars, diskVars
  <1>3. CASE Restart
    <2>1. /\ UNCHANGED <<overlap, store, writer>>
          /\ \A o \in Obj : ctxOf'[o] = None
          /\ \A q \in Run : pc'[q] = IF pc[q] = "unborn" THEN "unborn" ELSE "done"
      BY <1>3 DEF Restart, diskVars
    <2>2. TornIsTerminal'
      BY <2>1 DEF TornIsTerminal
    <2>3. WriterIsDone' /\ StoreIsRight'
      BY <1>w, <2>1, StoreKept
    <2> QED
      BY <2>2, <2>3 DEF RInv
  <1> QED
    BY <1>1, <1>2, <1>3

\* Every step preserves it.
LEMMA StepRecorded ==
  ASSUME IInv, SInv, RInv, [Next]_vars
  PROVE  RInv'
  <1>1. CASE \E r \in Run : RunStep(r)
    BY <1>1, RunStepRecorded
  <1>2. CASE \E c \in Caller : CallStep(c)
    BY <1>2, CallStepRecorded
  <1>3. CASE \/ \E o \in Obj, r \in Run : StartSession(o, r)
             \/ CloseManager \/ Restart
    BY <1>3, OtherStepRecorded
  <1>4. CASE UNCHANGED vars
    BY <1>4 DEF vars, RInv, TornIsTerminal, WriterIsDone, StoreIsRight, StoredIsTerminal,
       StoreIsCurrent, Alone, Overtaken
  <1> QED
    BY <1>1, <1>2, <1>3, <1>4 DEF Next

\* Whatever is deleted, lost in a failed save or cut off by a restart: a record
\* on disk is terminal unless its run was overtaken by a resume before it took
\* it, and that of a run alone is its session's last word.
THEOREM RecordIsRight == Spec => []StoreIsRight
  <1>1. IInv /\ SInv /\ RInv /\ [Next]_vars => IInv' /\ SInv' /\ RInv'
    BY StepInv, StepServed, StepRecorded
  <1>2. Init => IInv /\ SInv /\ RInv
    BY InitInv, InitServed
  <1>3. RInv => StoreIsRight
    BY DEF RInv
  <1> QED
    BY <1>1, <1>2, <1>3, PTL DEF Spec
=============================================================================
