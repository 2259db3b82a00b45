-------------------------- MODULE JiradozerProofs --------------------------
(* What holds of JiradozerTeam for any finite set of issues, any limits and  *)
(* any numbers of subprocesses and moves.                                    *)
EXTENDS JiradozerTeam, FiniteSetTheorems, SequenceTheorems, TLAPS

StartingAt == {"worktree", "launch", "claim", "install"}

\* A slot that holds a subprocess holds one of its own issue.
Held(s) == \A i \in Issue : s[i] \in Nat \ {0} => s[i] \in DOMAIN ch /\ ch[s[i]].issue = i

SlotInv == Held(slot) /\ Cardinality(Occupied(slot)) <= MaxConcurrent

\* A subprocess that is waited for holds its issue's slot until it is deleted, and
\* its worktree while it runs; the one that is being started is the last.
ChildOK(k) ==
    /\ ch[k].at \in {"wait", "record", "cleanup", "delete"} => slot[ch[k].issue] = k
    /\ ch[k].at = "start" => k = Len(ch) /\ main.at \in {"claim", "install"}
    /\ ch[k].at \in {"record", "cleanup", "delete", "done"} => ch[k].proc = "reaped"
    /\ ch[k].at \in {"record", "cleanup", "delete"} => ch[k].outcome # None
    /\ ch[k].at = "lost" => restarted
    /\ ch[k].at # "lost" /\ ch[k].proc = "running" => tree[ch[k].issue] = "used"

ChildInv == \A k \in DOMAIN ch : ChildOK(k)

\* The loop: an issue that is being started has its placeholder, and the count of
\* active issues it has read is not exceeded before it tries the queue.
MainInv ==
    /\ main.at \in StartingAt => main.issue \in Issue /\ slot[main.issue] = 0
    /\ main.at = "fail" => main.issue \in Issue
    /\ main.at \in {"claim", "install"} =>
          Len(ch) > 0 /\ ch[Len(ch)].at = "start" /\ ch[Len(ch)].issue = main.issue
    /\ main.at = "drain" => main.pos # 0
    /\ main.at = "drain" /\ ~main.full /\ main.pos <= Len(pending) => ~Full(slot)

\* What an exec restart has gathered can be adopted whenever it happens.
SnapInv ==
    snap # None => /\ ~restarted
                   /\ Held(snap.slot) /\ \A i \in Issue : snap.slot[i] # 0
                   /\ Cardinality(Occupied(snap.slot)) <= MaxConcurrent

IInv == TypeOK /\ SlotInv /\ ChildInv /\ MainInv /\ SnapInv
-----------------------------------------------------------------------------
(* Tables. *)

LEMMA NoneType == None \notin Issue /\ None \notin Nat /\ None \notin Snapshot
        /\ None \notin {"done", "failed", "cancelled"}
  BY TeamConstants, NoneIsAbsent

LEMMA FiniteOccupied ==
  ASSUME NEW s
  PROVE  IsFiniteSet(Occupied(s)) /\ Cardinality(Occupied(s)) \in Nat
  BY Occupied(s) \in SUBSET Issue, FS_Subset, FS_CardinalityType, TeamConstants
     DEF Occupied

\* Tables that shrink stay within the limit.
LEMMA FewerOccupied ==
  ASSUME NEW s, NEW t, Occupied(t) \subseteq Occupied(s)
  PROVE  Cardinality(Occupied(t)) <= Cardinality(Occupied(s))
  BY FiniteOccupied, FS_Subset

LEMMA StillNotFull ==
  ASSUME NEW s, NEW t, Occupied(t) \subseteq Occupied(s), ~Full(s)
  PROVE  ~Full(t)
  <1>1. Cardinality(Occupied(t)) <= Cardinality(Occupied(s))
    BY FewerOccupied
  <1> QED
    BY <1>1, FiniteOccupied, TeamConstants DEF Full

\* A placeholder fits where the table was not full.
LEMMA PlaceholderFits ==
  ASSUME NEW s \in [Issue -> Slots], NEW i \in Issue, ~Full(s)
  PROVE  Cardinality(Occupied([s EXCEPT ![i] = 0])) <= MaxConcurrent
  <1> DEFINE t == [s EXCEPT ![i] = 0]
  <1>1. Occupied(t) \subseteq Occupied(s) \cup {i}
    BY DEF Occupied
  <1>2. IsFiniteSet(Occupied(s) \cup {i})
        /\ Cardinality(Occupied(s) \cup {i}) <= Cardinality(Occupied(s)) + 1
    BY FiniteOccupied, FS_AddElement
  <1>3. Cardinality(Occupied(t)) <= Cardinality(Occupied(s) \cup {i})
    BY <1>1, <1>2, FS_Subset
  <1>4. Cardinality(Occupied(s)) < MaxConcurrent
    BY FiniteOccupied, TeamConstants DEF Full
  <1>5. Cardinality(Occupied(s) \cup {i}) \in Nat /\ MaxConcurrent \in Nat
    BY <1>2, FS_CardinalityType, TeamConstants
  <1> QED
    BY <1>2, <1>3, <1>4, <1>5, FiniteOccupied
-----------------------------------------------------------------------------
(* Steps. *)

THEOREM InitInv == Init => IInv
  <1> SUFFICES ASSUME Init PROVE IInv
    OBVIOUS
  <1> USE DEF Init
  <1>1. TypeOK
    <2>1. main \in Main /\ disc \in Poll
      BY DEF NoPoll, Poll, Top, Main
    <2>2. pending \in Seq(Issue) /\ ch \in Seq(Child)
      BY EmptySeq
    <2>3. slot \in [Issue -> Slots] /\ failures \in [Issue -> Nat]
          /\ failCount \in [Issue -> Nat]
      BY DEF Nobody, Zeros, Slots
    <2> QED
      BY <2>1, <2>2, <2>3 DEF TypeOK
  <1>2. Occupied(slot) = {} /\ \A i \in Issue : slot[i] = None
    BY DEF Occupied, Nobody
  <1>3. SlotInv
    <2>1. Cardinality(Occupied(slot)) <= MaxConcurrent
      BY <1>2, FS_EmptySet, TeamConstants
    <2>2. Held(slot)
      BY <1>2, NoneType DEF Held
    <2> QED
      BY <2>1, <2>2 DEF SlotInv
  <1>4. ChildInv /\ SnapInv
    BY DEF ChildInv, SnapInv
  <1>5. MainInv
    BY DEF MainInv, Top, StartingAt
  <1> QED
    BY <1>1, <1>3, <1>4, <1>5 DEF IInv

\* The poll, people and signals leave slots, subprocesses and worktrees alone.
LEMMA QuietInv ==
  ASSUME IInv, \/ List \/ ReadActive \/ Rebuild \/ Interrupt
               \/ \E i \in Issue : Move(i)
  PROVE  IInv'
  <1>1. UNCHANGED <<slot, main, pending, ch, tree, snap, restarted>>
    BY DEF List, ReadActive, Rebuild, Interrupt, Move, mainVars, treeVars, restartVars
  <1>2. SlotInv' /\ ChildInv' /\ MainInv' /\ SnapInv'
    BY <1>1 DEF IInv, SlotInv, Held, ChildInv, ChildOK, MainInv, SnapInv
  <1>3. TypeOK'
    <2> USE DEF IInv, TypeOK, trackerVars, discVars, mainVars, treeVars, restartVars
    <2>1. CASE List
      BY <2>1 DEF List, NoPoll, Poll
    <2>2. CASE ReadActive
      BY <2>2 DEF ReadActive, ActiveIssueIDs, Occupied, Capped, Poll
    <2>3. CASE Rebuild
      BY <2>3 DEF Rebuild, NoPoll, Poll
    <2>4. CASE Interrupt
      BY <2>4 DEF Interrupt
    <2>5. CASE \E i \in Issue : Move(i)
      BY <2>5 DEF Move
    <2> QED
      BY <2>1, <2>2, <2>3, <2>4, <2>5
  <1> QED
    BY <1>2, <1>3 DEF IInv

\* What a goroutine does to the slot and the worktree of its own issue does not
\* concern another subprocess.
LEMMA OthersKeep ==
  ASSUME IInv, NEW k \in DOMAIN ch, NEW l \in DOMAIN ch, l # k,
         ch'[l] = ch[l], Len(ch') = Len(ch), UNCHANGED <<main, restarted>>,
         \A i \in Issue : slot'[i] = slot[i] \/ slot[i] = k,
         \A i \in Issue : tree'[i] = tree[i] \/ slot[i] = k
  PROVE  ChildOK(l)'
  <1> USE DEF IInv
  <1>1. ch[l].issue \in Issue /\ ch[l] \in Child /\ k \in Nat \ {0} /\ l \in Nat \ {0}
        /\ ch \in Seq(Child)
    <2>1. ch \in Seq(Child)
      BY DEF TypeOK
    <2>2. ch[l] \in Child /\ k \in Nat \ {0} /\ l \in Nat \ {0}
      BY <2>1, ElementOfSeq, LenProperties
    <2> QED
      BY <2>1, <2>2 DEF Child
  <1>2. ChildOK(l)
    BY DEF ChildInv
  <1>3. ch[l].at \in {"wait", "record", "cleanup", "delete"} => slot'[ch[l].issue] = l
    BY <1>1, <1>2 DEF ChildOK
  <1>4. ASSUME ch[l].at # "lost", ch[l].proc = "running"
        PROVE  tree'[ch[l].issue] = "used"
    <2>1. ch[l].at \in {"start", "wait"}
      BY <1>1, <1>2, <1>4 DEF ChildOK, Child
    <2>2. CASE ch[l].at = "wait"
      BY <1>1, <1>2, <1>4, <2>2 DEF ChildOK
    <2>3. CASE ch[l].at = "start"
      <3>1. slot[ch[l].issue] = 0
        BY <1>1, <1>2, <2>3 DEF ChildOK, MainInv, StartingAt
      <3> QED
        BY <1>1, <1>2, <1>4, <3>1 DEF ChildOK
    <2> QED
      BY <2>1, <2>2, <2>3
  <1> QED
    BY <1>2, <1>3, <1>4 DEF ChildOK

\* A goroutine of a subprocess writes only its own record, and gives back its own
\* slot if any.
LEMMA ChildStep ==
  ASSUME IInv, NEW k \in DOMAIN ch, NEW c \in Child, ch' = [ch EXCEPT ![k] = c],
         c.issue = ch[k].issue, c.at = "start" <=> ch[k].at = "start",
         UNCHANGED <<main, pending, snap, restarted>>,
         \/ slot' = slot
         \/ slot' = [slot EXCEPT ![c.issue] = None] /\ slot[c.issue] = k,
         \A i \in Issue : tree'[i] = tree[i] \/ slot[i] = k,
         ChildOK(k)'
  PROVE  /\ SlotInv' /\ ChildInv' /\ MainInv' /\ SnapInv'
         /\ ch' \in Seq(Child) /\ slot' \in [Issue -> Slots]
  <1> USE DEF IInv
  <1>1. ch \in Seq(Child) /\ slot \in [Issue -> Slots] /\ c.issue \in Issue
    BY DEF TypeOK, Child
  <1>2. ch' \in Seq(Child) /\ DOMAIN ch' = DOMAIN ch /\ Len(ch') = Len(ch)
        /\ \A l \in DOMAIN ch : ch'[l] = IF l = k THEN c ELSE ch[l]
    BY <1>1, ExceptSeq
  <1>3. slot' \in [Issue -> Slots]
    BY <1>1 DEF Slots
  <1>4. \A i \in Issue : slot'[i] = slot[i] \/ (slot'[i] = None /\ slot[i] = k)
    <2>1. CASE slot' = slot
      BY <2>1
    <2>2. CASE slot' = [slot EXCEPT ![c.issue] = None] /\ slot[c.issue] = k
      BY <1>1, <2>2
    <2> QED
      BY <2>1, <2>2
  <1>5. Occupied(slot') \subseteq Occupied(slot)
    BY <1>4, NoneType, <1>1 DEF Occupied
  <1>6. \A s : Held(s) => Held(s)'
    BY <1>2 DEF Held
  <1>7. Held(slot')
    <2> SUFFICES ASSUME NEW i \in Issue, slot'[i] \in Nat \ {0}
                 PROVE  slot'[i] \in DOMAIN ch /\ ch[slot'[i]].issue = i
      BY DEF Held
    <2>1. slot'[i] = slot[i]
      BY <1>4, NoneType
    <2> QED
      BY <2>1 DEF Held, SlotInv
  <1>8. SlotInv'
    <2>1. \A i \in Issue : slot'[i] \in Nat \ {0} => slot'[i] \in DOMAIN ch'
                                                      /\ ch'[slot'[i]].issue = i
      BY <1>2, <1>7 DEF Held
    <2>2. Cardinality(Occupied(slot')) <= MaxConcurrent
      BY <1>5, FewerOccupied, FiniteOccupied, TeamConstants DEF SlotInv
    <2> QED
      BY <2>1, <2>2 DEF SlotInv, Held
  <1>9. SnapInv'
    BY <1>2 DEF SnapInv, Held
  <1>10. MainInv'
    <2>1. k # 0 /\ Len(ch) \in Nat
      BY <1>1
    <2>2. main.at \in StartingAt => slot'[main.issue] = 0
      BY <1>4, <2>1, NoneType DEF MainInv
    <2>3. ~Full(slot) => ~Full(slot')
      BY <1>5, StillNotFull
    <2>4. main.at \in {"claim", "install"} =>
            Len(ch') > 0 /\ ch'[Len(ch')].at = "start" /\ ch'[Len(ch')].issue = main.issue
      BY <1>1, <1>2 DEF MainInv
    <2> QED
      BY <2>2, <2>3, <2>4 DEF MainInv
  <1>11. \A l \in DOMAIN ch : l # k => ChildOK(l)'
    BY <1>2, <1>4, OthersKeep
  <1> QED
    BY <1>2, <1>3, <1>8, <1>9, <1>10, <1>11 DEF ChildInv
\* A subprocess that ends or hangs.
LEMMA ProcessInv ==
  ASSUME IInv, NEW k \in DOMAIN ch, Exits(k) \/ Hangs(k)
  PROVE  IInv'
  <1> USE DEF IInv
  <1>1. ch \in Seq(Child) /\ ch[k] \in Child /\ ChildOK(k)
    BY ElementOfSeq DEF TypeOK, ChildInv
  <1>2. UNCHANGED <<slot, main, pending, snap, restarted, tree>>
    BY DEF Exits, Hangs, mainVars, treeVars, restartVars
  <1>3. PICK c \in Child : /\ ch' = [ch EXCEPT ![k] = c]
                           /\ c.issue = ch[k].issue /\ c.at = ch[k].at
                           /\ c.outcome = ch[k].outcome
                           /\ c.proc = ch[k].proc \/ ch[k].proc = "running"
                           /\ c.proc = "running" => ch[k].proc = "running"
    <2>1. CASE Exits(k)
      <3>1. PICK code \in {"ok", "err", "sig"} :
              ch' = [ch EXCEPT ![k].proc = "exited", ![k].code = code]
        BY <2>1 DEF Exits
      <3> DEFINE c == [ch[k] EXCEPT !.proc = "exited", !.code = code]
      <3>2. ch' = [ch EXCEPT ![k] = c]
        BY <1>1, <3>1
      <3>3. c \in Child
        BY <1>1 DEF Child
      <3> QED
        BY <1>1, <2>1, <3>2, <3>3 DEF Exits, Child
    <2>2. CASE Hangs(k)
      <3> DEFINE c == [ch[k] EXCEPT !.hung = TRUE]
      <3>1. ch' = [ch EXCEPT ![k] = c] /\ c \in Child
        BY <1>1, <2>2 DEF Hangs, Child
      <3> QED
        BY <1>1, <3>1 DEF Child
    <2> QED
      BY <2>1, <2>2
  <1>4. ChildOK(k)'
    <2>1. Len(ch') = Len(ch) /\ ch'[k] = c
      BY <1>1, <1>3, ExceptSeq
    <2> QED
      BY <1>1, <1>2, <1>3, <2>1 DEF ChildOK, Child
  <1>5. SlotInv' /\ ChildInv' /\ MainInv' /\ SnapInv' /\ ch' \in Seq(Child)
    BY <1>2, <1>3, <1>4, ChildStep
  <1>6. TypeOK'
    BY <1>2, <1>5 DEF TypeOK, Exits, Hangs, trackerVars, discVars, mainVars, treeVars,
                      restartVars
  <1> QED
    BY <1>5, <1>6

\* Outcome is None for no subprocess.
LEMMA OutcomeType ==
  ASSUME NEW c
  PROVE  Outcome(c) \in {"done", "failed", "cancelled"}
  BY DEF Outcome, OutcomeRestored

\* The goroutine that waits for a subprocess.
LEMMA WaiterInv ==
  ASSUME IInv, NEW k \in DOMAIN ch, WaiterStep(k)
  PROVE  IInv'
  <1> USE DEF IInv
  <1>1. ch \in Seq(Child) /\ ch[k] \in Child /\ ChildOK(k) /\ k \in Nat \ {0}
    BY ElementOfSeq, LenProperties DEF TypeOK, ChildInv
  <1>2. ch[k].issue \in Issue /\ slot \in [Issue -> Slots]
        /\ tree \in [Issue -> {"none", "fresh", "used"}]
    BY <1>1 DEF Child, TypeOK
  <1>3. UNCHANGED <<main, pending, snap, restarted>>
    BY DEF WaiterStep, Reap, Record, CleanUp, Delete, mainVars, restartVars
  <1>4. ch[k].at \in {"wait", "record", "cleanup", "delete"} /\ slot[ch[k].issue] = k
    BY <1>1 DEF WaiterStep, Reap, Record, CleanUp, Delete, ChildOK
  <1>5. \/ slot' = slot
        \/ slot' = [slot EXCEPT ![ch[k].issue] = None]
    BY DEF WaiterStep, Reap, Record, CleanUp, Delete, Unreserve
  <1>6. tree' \in [Issue -> {"none", "fresh", "used"}]
        /\ \A i \in Issue : tree'[i] = tree[i] \/ slot[i] = k
    <2>1. CASE CleanUp(k)
      <3>1. tree' = tree \/ tree' = [tree EXCEPT ![ch[k].issue] = "none"]
        BY <2>1 DEF CleanUp, Remove
      <3> QED
        BY <1>2, <1>4, <3>1
    <2>2. CASE Reap(k) \/ Record(k) \/ Delete(k)
      BY <1>2, <2>2 DEF Reap, Record, Delete, treeVars
    <2> QED
      BY <2>1, <2>2 DEF WaiterStep
  <1>7. PICK c \in Child : /\ ch' = [ch EXCEPT ![k] = c]
                           /\ c.issue = ch[k].issue
                           /\ c.proc = "reaped"
                           /\ c.at \in {"record", "cleanup", "delete"} =>
                                slot' = slot /\ c.outcome # None
                           /\ c.at \in {"record", "cleanup", "delete", "done"}
    <2>1. CASE Reap(k)
      <3> DEFINE c == [ch[k] EXCEPT !.proc = "reaped", !.at = "record",
                                    !.outcome = Outcome(ch[k])]
      <3>1. Outcome(ch[k]) \in {"done", "failed", "cancelled"}
        BY OutcomeType
      <3>2. c \in Child /\ c.outcome # None
        BY <1>1, <3>1, NoneType DEF Child
      <3> QED
        BY <1>1, <2>1, <3>2 DEF Reap, Child
    <2>2. CASE Record(k) \/ CleanUp(k)
      <3> DEFINE c == [ch[k] EXCEPT !.at = IF Record(k) THEN "cleanup" ELSE "delete"]
      <3>1. ch' = [ch EXCEPT ![k] = c] /\ c \in Child
        BY <1>1, <2>2 DEF Record, CleanUp, Child
      <3>2. ch[k].proc = "reaped" /\ ch[k].outcome # None
        BY <1>1, <2>2 DEF Record, CleanUp, ChildOK
      <3>3. slot' = slot
        BY <2>2 DEF Record, CleanUp
      <3> QED
        BY <1>1, <3>1, <3>2, <3>3 DEF Child
    <2>3. CASE Delete(k)
      <3> DEFINE c == [ch[k] EXCEPT !.at = "done"]
      <3>1. ch' = [ch EXCEPT ![k] = c] /\ c \in Child /\ ch[k].proc = "reaped"
        BY <1>1, <2>3 DEF Delete, Child, ChildOK
      <3> QED
        BY <1>1, <3>1 DEF Child
    <2> QED
      BY <2>1, <2>2, <2>3 DEF WaiterStep
  <1>8. ChildOK(k)'
    <2>1. Len(ch') = Len(ch) /\ ch'[k] = c
      BY <1>1, <1>7, ExceptSeq
    <2> QED
      BY <1>1, <1>4, <1>7, <2>1 DEF ChildOK
  <1>9. SlotInv' /\ ChildInv' /\ MainInv' /\ SnapInv' /\ ch' \in Seq(Child)
        /\ slot' \in [Issue -> Slots]
    <2>1. c.at = "start" <=> ch[k].at = "start"
      BY <1>4, <1>7
    <2>2. slot' = slot \/ (slot' = [slot EXCEPT ![c.issue] = None] /\ slot[c.issue] = k)
      BY <1>4, <1>5, <1>7
    <2> QED
      BY <1>3, <1>6, <1>7, <1>8, <2>1, <2>2, ChildStep
  <1>10. failures' \in [Issue -> Nat] /\ released' \subseteq Issue
         /\ label' \subseteq Issue /\ preserved' \subseteq Issue /\ freed' \in BOOLEAN
    <2> USE <1>2 DEF TypeOK
    <2>1. CASE Reap(k)
      BY <2>1 DEF Reap, trackerVars, treeVars
    <2>2. CASE Record(k)
      <3>1. ch[k].outcome \in {"done", "failed", "cancelled"}
        BY <1>1, <2>2 DEF Record, ChildOK, Child
      <3>2. \/ failures' = [failures EXCEPT ![ch[k].issue] = @ + 1] /\ released' = released
            \/ failures' = [failures EXCEPT ![ch[k].issue] = 0]
               /\ released' = released \ {ch[k].issue}
            \/ failures' = failures /\ released' = released
        BY <2>2, <3>1 DEF Record
      <3> QED
        BY <2>2, <3>2 DEF Record, trackerVars, treeVars
    <2>3. CASE CleanUp(k)
      BY <2>3 DEF CleanUp, trackerVars
    <2>4. CASE Delete(k)
      BY <2>4 DEF Delete, trackerVars, treeVars, Unreserve
    <2> QED
      BY <2>1, <2>2, <2>3, <2>4 DEF WaiterStep
  <1>11. UNCHANGED <<inFilter, moves, disc, seen, failCount, phase>>
    BY DEF WaiterStep, Reap, Record, CleanUp, Delete, trackerVars, discVars, mainVars,
           restartVars
  <1>12. TypeOK'
    BY <1>3, <1>6, <1>9, <1>10, <1>11 DEF TypeOK
  <1> QED
    BY <1>9, <1>12

\* The loop goes back to the queue with the count of active issues read anew.
LEMMA DequeueOK ==
  ASSUME TypeOK, NEW s, Dequeue(s)
  PROVE  /\ main' \in Main /\ main'.at = "drain" /\ main'.pos # 0 /\ main'.full = Full(s)
         /\ pending' \in Seq(Issue)
  <1>1. main \in Main /\ main.pos \in Nat /\ Full(s) \in BOOLEAN /\ pending \in Seq(Issue)
    BY DEF TypeOK, Main, Full
  <1>2. main' \in Main /\ main'.at = "drain" /\ main'.pos # 0 /\ main'.full = Full(s)
    BY <1>1 DEF Dequeue, Top, Main
  <1>3. pending' \in Seq(Issue)
    <2>1. CASE main.pos = 0
      BY <1>1, <2>1 DEF Dequeue
    <2>2. CASE main.pos # 0
      <3> DEFINE m == Len(pending) - 1
                 q == [n \in 1..m |-> IF n < main.pos THEN pending[n] ELSE pending[n + 1]]
      <3>1. pending' = q
        BY <2>2 DEF Dequeue
      <3>2. Len(pending) \in Nat /\ DOMAIN pending = 1..Len(pending)
            /\ \A n \in 1..Len(pending) : pending[n] \in Issue
        BY <1>1, LenProperties, ElementOfSeq
      <3>3. CASE m \in Nat
        <4>1. q \in [1..m -> Issue]
          BY <1>1, <3>2, <3>3
        <4> HIDE DEF q
        <4> QED
          BY <3>1, <3>3, <4>1, SeqDef
      <3>4. CASE m \notin Nat
        <4>1. 1..m = 1..0
          BY <3>2, <3>4
        <4>2. q \in [1..0 -> Issue]
          BY <4>1
        <4> HIDE DEF q
        <4> QED
          BY <3>1, <4>2, SeqDef
      <3> QED
        BY <3>3, <3>4
    <2> QED
      BY <2>1, <2>2
  <1> QED
    BY <1>2, <1>3

\* The loop adds and removes placeholders and may remove a worktree of an issue
\* it holds one for: the subprocesses are as they were.
LEMMA LoopKeeps ==
  ASSUME IInv, UNCHANGED <<ch, snap, restarted>>,
         \A i \in Issue : slot'[i] = slot[i] \/ (slot[i] \in {0, None} /\ slot'[i] \in {0, None}),
         Cardinality(Occupied(slot')) <= MaxConcurrent,
         \A i \in Issue : tree'[i] = tree[i]
                          \/ (slot[i] = 0 /\ main.at \notin {"claim", "install"}),
         main.at \in {"claim", "install"} => main'.at \in {"claim", "install"}
  PROVE  SlotInv' /\ ChildInv' /\ SnapInv'
  <1> USE DEF IInv
  <1>1. SlotInv'
    BY NoneType DEF SlotInv, Held
  <1>2. SnapInv'
    BY DEF SnapInv, Held
  <1>3. ASSUME NEW k \in DOMAIN ch
        PROVE  ChildOK(k)'
    <2>1. ch[k].issue \in Issue /\ ch[k] \in Child /\ k \in Nat \ {0}
      <3>1. ch[k] \in Child /\ k \in Nat \ {0}
        BY ElementOfSeq, LenProperties DEF TypeOK
      <3> QED
        BY <3>1 DEF Child
    <2>2. ChildOK(k)
      BY DEF ChildInv
    <2>3. ch[k].at \in {"wait", "record", "cleanup", "delete"} => slot'[ch[k].issue] = k
      BY <2>1, <2>2, NoneType DEF ChildOK
    <2>4. ASSUME ch[k].at # "lost", ch[k].proc = "running"
          PROVE  tree'[ch[k].issue] = "used"
      <3>1. ch[k].at \in {"start", "wait"}
        BY <2>1, <2>2, <2>4 DEF ChildOK, Child
      <3>2. tree'[ch[k].issue] = tree[ch[k].issue]
        BY <2>1, <2>2, <3>1 DEF ChildOK
      <3> QED
        BY <2>2, <2>4, <3>2 DEF ChildOK
    <2> QED
      BY <2>2, <2>3, <2>4 DEF ChildOK
  <1> QED
    BY <1>1, <1>2, <1>3 DEF ChildInv

\* The loop gives up a placeholder.
LEMMA Unreserved ==
  ASSUME IInv, NEW i \in Issue, slot[i] = 0, slot' = [slot EXCEPT ![i] = None]
  PROVE  /\ slot' \in [Issue -> Slots]
         /\ \A j \in Issue : slot'[j] = slot[j] \/ (slot[j] \in {0, None} /\ slot'[j] \in {0, None})
         /\ Cardinality(Occupied(slot')) <= MaxConcurrent
  <1>1. slot \in [Issue -> Slots]
    BY DEF IInv, TypeOK
  <1>2. slot' \in [Issue -> Slots] /\ \A j \in Issue : slot'[j] = IF j = i THEN None ELSE slot[j]
    BY <1>1 DEF Slots
  <1>3. Occupied(slot') \subseteq Occupied(slot)
    BY <1>2 DEF Occupied
  <1>4. Cardinality(Occupied(slot')) <= Cardinality(Occupied(slot))
    BY <1>3, FewerOccupied
  <1> QED
    BY <1>2, <1>4, FiniteOccupied, TeamConstants DEF IInv, SlotInv

\* The loop reserves a slot where there is room.
LEMMA ReserveInv ==
  ASSUME IInv, NEW i \in Issue, NEW pos \in Nat, ~Full(slot), Reserve(i, pos),
         main.at \notin {"claim", "install"}, UNCHANGED <<ch, tree, snap, restarted>>
  PROVE  /\ SlotInv' /\ ChildInv' /\ MainInv' /\ SnapInv'
         /\ main' \in Main /\ slot' \in [Issue -> Slots]
  <1> USE DEF IInv
  <1>1. slot \in [Issue -> Slots]
    BY DEF TypeOK
  <1>2. \/ slot' = slot
        \/ slot[i] = None /\ slot' = [slot EXCEPT ![i] = 0]
    BY DEF Reserve
  <1>3. slot' \in [Issue -> Slots]
    BY <1>1, <1>2 DEF Slots
  <1>4. Cardinality(Occupied(slot')) <= MaxConcurrent
    BY <1>1, <1>2, PlaceholderFits DEF SlotInv
  <1>5. \A j \in Issue : slot'[j] = slot[j] \/ (slot[j] \in {0, None} /\ slot'[j] \in {0, None})
    <2>1. CASE slot' = slot
      BY <2>1
    <2>2. CASE slot[i] = None /\ slot' = [slot EXCEPT ![i] = 0]
      BY <1>1, <2>2
    <2> QED
      BY <1>2, <2>1, <2>2
  <1>6. SlotInv' /\ ChildInv' /\ SnapInv'
    BY <1>4, <1>5, LoopKeeps
  <1>7. main' \in Main
    <2>1. PICK at \in {"fail", "worktree"} :
            main' = [at |-> at, issue |-> i, pos |-> pos, full |-> FALSE]
      BY DEF Reserve
    <2>2. i \in Issue \cup {None} /\ pos \in Nat /\ FALSE \in BOOLEAN
      OBVIOUS
    <2> QED
      BY <2>1, <2>2 DEF Main
  <1>8. MainInv'
    BY <1>1 DEF Reserve, MainInv, StartingAt
  <1> QED
    BY <1>3, <1>6, <1>7, <1>8

\* The loop between two starts.
LEMMA IdleInv ==
  ASSUME IInv, \/ Drain \/ SlotFreed \/ LoopStops \/ WaitReturns
               \/ \E i \in Issue : Receive(i)
  PROVE  IInv'
  <1>1. main \in Main /\ pending \in Seq(Issue) /\ slot \in [Issue -> Slots]
        /\ main.pos \in Nat /\ Full(slot) \in BOOLEAN
    BY DEF IInv, TypeOK, Main, Full
  <1>2. UNCHANGED <<ch, tree, snap, restarted>> /\ main.at \notin {"claim", "install"}
    BY DEF Drain, SlotFreed, LoopStops, WaitReturns, Receive, treeVars, restartVars
  <1>3. disc' \in Poll
    <2>1. disc \in Poll
      BY DEF IInv, TypeOK
    <2>2. NoPoll \in Poll /\ \A i \in Issue : [disc EXCEPT !.out = @ \ {i}] \in Poll
      BY <2>1 DEF NoPoll, Poll
    <2> QED
      BY <2>1, <2>2 DEF Drain, SlotFreed, LoopStops, WaitReturns, Receive, discVars
  <1>4. UNCHANGED <<inFilter, label, moves, seen, failCount, failures, released,
                    preserved, phase>> /\ freed' \in BOOLEAN
    BY DEF IInv, TypeOK, Drain, SlotFreed, LoopStops, WaitReturns, Receive,
           discVars, trackerVars, treeVars, restartVars
  <1>5. CASE \/ \E i \in Issue : \E pos \in Nat :
                   Reserve(i, pos) /\ ~Full(slot) /\ UNCHANGED pending
    <2>1. SlotInv' /\ ChildInv' /\ MainInv' /\ SnapInv' /\ main' \in Main
          /\ slot' \in [Issue -> Slots]
      BY <1>2, <1>5, ReserveInv
    <2>2. TypeOK'
      BY <1>1, <1>2, <1>3, <1>4, <1>5, <2>1 DEF IInv, TypeOK
    <2> QED
      BY <2>1, <2>2 DEF IInv
  <1>6. CASE /\ slot' = slot /\ main' \in Main /\ pending' \in Seq(Issue)
             /\ \/ main'.at \in {"select", "wait", "done"}
                \/ main'.at = "drain" /\ main'.pos # 0 /\ main'.full = Full(slot)
    <2>1. SlotInv' /\ ChildInv' /\ SnapInv'
      BY <1>2, <1>6, LoopKeeps DEF IInv, SlotInv
    <2>2. MainInv'
      BY <1>6 DEF MainInv, StartingAt
    <2>3. TypeOK'
      BY <1>1, <1>2, <1>3, <1>4, <1>6 DEF IInv, TypeOK
    <2> QED
      BY <2>1, <2>2, <2>3 DEF IInv
  <1>7. CASE Drain
    <2>1. CASE main.full \/ main.pos > Len(pending)
      <3>1. main' = [main EXCEPT !.at = "select"] /\ slot' = slot /\ pending' = pending
        BY <1>7, <2>1 DEF Drain
      <3>2. main' \in Main /\ main'.at = "select"
        BY <1>1, <3>1 DEF Main
      <3> QED
        BY <1>1, <1>6, <3>1, <3>2
    <2>2. CASE ~(main.full \/ main.pos > Len(pending))
      <3>1. Reserve(pending[main.pos], main.pos) /\ UNCHANGED pending
        BY <1>7, <2>2 DEF Drain
      <3>2. ~Full(slot)
        BY <1>1, <1>7, <2>2, LenProperties DEF IInv, MainInv, Drain
      <3>3. main.pos \in 1..Len(pending)
        BY <1>1, <1>7, <2>2, LenProperties DEF IInv, MainInv, Drain
      <3>4. pending[main.pos] \in Issue
        BY <1>1, <3>3, ElementOfSeq
      <3> QED
        BY <1>1, <1>5, <3>1, <3>2, <3>4
    <2> QED
      BY <2>1, <2>2
  <1>8. CASE SlotFreed
    BY <1>1, <1>6, <1>8 DEF SlotFreed, Top, Main
  <1>9. CASE LoopStops \/ WaitReturns
    <2>1. main' = [main EXCEPT !.at = "wait"] \/ main' = [main EXCEPT !.at = "done"]
      BY <1>9 DEF LoopStops, WaitReturns
    <2>2. main' \in Main /\ main'.at \in {"wait", "done"}
      BY <1>1, <2>1 DEF Main
    <2> QED
      BY <1>1, <1>6, <1>9, <2>2 DEF LoopStops, WaitReturns
  <1>10. ASSUME NEW i \in Issue, Receive(i) PROVE IInv'
    <2>1. CASE Full(slot)
      <3>1. pending' = Append(pending, i) /\ main' = Top(TRUE) /\ slot' = slot
        BY <1>10, <2>1 DEF Receive
      <3>2. pending' \in Seq(Issue)
        BY <1>1, <3>1, AppendProperties
      <3>3. main' \in Main /\ main'.at = "drain" /\ main'.pos # 0 /\ main'.full = Full(slot)
        BY <1>1, <2>1, <3>1 DEF Top, Main
      <3> QED
        BY <1>6, <3>1, <3>2, <3>3
    <2>2. CASE ~Full(slot)
      BY <1>5, <1>10, <2>2 DEF Receive
    <2> QED
      BY <2>1, <2>2
  <1> QED
    BY <1>7, <1>8, <1>9, <1>10

\* A start whose subprocesses stay as they are: a worktree, an error, a claim.
LEMMA StartKeeps ==
  ASSUME IInv, \/ NewWorktree \/ Claim \/ StartFailed
               \/ Launch /\ UNCHANGED ch
  PROVE  IInv'
  <1> DEFINE i == main.issue
  <1>1. /\ main \in Main /\ pending \in Seq(Issue) /\ slot \in [Issue -> Slots]
        /\ tree \in [Issue -> {"none", "fresh", "used"}] /\ label \subseteq Issue
        /\ inFilter \subseteq Issue /\ freed \in BOOLEAN
    BY DEF IInv, TypeOK
  <1>2. main.at \in {"worktree", "launch", "claim", "fail"} /\ i \in Issue
        /\ (main.at # "fail" => slot[i] = 0)
    BY DEF IInv, MainInv, StartingAt, NewWorktree, Claim, StartFailed, Launch
  <1>3. UNCHANGED <<ch, snap, restarted>>
    BY DEF NewWorktree, Claim, StartFailed, Launch, restartVars
  <1>4. UNCHANGED <<moves, disc, failures, released, preserved, phase>>
    BY DEF NewWorktree, Claim, StartFailed, Launch, restartVars, trackerVars, discVars,
           treeVars
  <1>5. seen' \subseteq Issue /\ failCount' \in [Issue -> Nat]
    <2>1. seen \subseteq Issue /\ failCount \in [Issue -> Nat]
      BY DEF IInv, TypeOK
    <2>2. seen' = seen \/ seen' = seen \ {i}
      BY DEF NewWorktree, Claim, StartFailed, Launch, discVars
    <2>3. failCount' = failCount \/ failCount' = [failCount EXCEPT ![i] = @ + 1]
      BY DEF NewWorktree, Claim, StartFailed, Launch, mainVars
    <2> QED
      BY <2>1, <2>2, <2>3
  <1>6. inFilter' \subseteq Issue /\ label' \subseteq Issue
    <2>1. inFilter' = inFilter \/ inFilter' = inFilter \ {i}
      BY DEF NewWorktree, Claim, StartFailed, Launch, trackerVars
    <2>2. label' \in {label, label \cup {i}, label \ {i}}
      BY DEF NewWorktree, Claim, StartFailed, Launch, trackerVars
    <2> QED
      BY <1>1, <1>2, <2>1, <2>2
  <1>7. /\ tree' \in [Issue -> {"none", "fresh", "used"}]
        /\ \A j \in Issue : tree'[j] = tree[j]
                            \/ (slot[j] = 0 /\ main.at \notin {"claim", "install"})
    <2>1. CASE NewWorktree
      <3>1. tree' = tree \/ tree' = [tree EXCEPT ![i] = IF @ = "none" THEN "fresh" ELSE @]
        BY <2>1 DEF NewWorktree
      <3> QED
        BY <1>1, <1>2, <2>1, <3>1 DEF NewWorktree
    <2>2. CASE Launch /\ UNCHANGED ch
      <3>1. ch \in Seq(Child)
        BY DEF IInv, TypeOK
      <3>2. \A c : Append(ch, c) # ch
        BY <3>1, LenProperties
      <3>3. tree' = tree \/ tree' = [tree EXCEPT ![i] = "none"]
        BY <2>2, <3>2 DEF Launch, Remove
      <3> QED
        BY <1>1, <1>2, <2>2, <3>3 DEF Launch
    <2>3. CASE Claim \/ StartFailed
      BY <1>1, <2>3 DEF Claim, StartFailed, treeVars
    <2> QED
      BY <2>1, <2>2, <2>3
  <1>8. \/ slot' = slot /\ UNCHANGED freed
        \/ slot' = [slot EXCEPT ![i] = None] /\ slot[i] = 0 /\ freed' = TRUE
    BY <1>2, <1>3 DEF NewWorktree, Claim, StartFailed, Launch, Unreserve

  <1>9. \/ /\ slot' = slot /\ UNCHANGED pending
           /\ \/ main.at = "worktree" /\ main' = [main EXCEPT !.at = "launch"]
              \/ main.at = "claim" /\ main' = [main EXCEPT !.at = "install"]
        \/ /\ main.at \in {"worktree", "launch"} /\ UNCHANGED pending
           /\ main' = [main EXCEPT !.at = "fail"]
        \/ Dequeue(slot') /\ main.at \in {"worktree", "fail"}
    <2>1. CASE NewWorktree
      BY <2>1 DEF NewWorktree
    <2>2. CASE Launch /\ UNCHANGED ch
      <3>1. ch \in Seq(Child)
        BY DEF IInv, TypeOK
      <3>2. \A c : Append(ch, c) # ch
        BY <3>1, LenProperties
      <3> QED
        BY <2>2, <3>2 DEF Launch
    <2>3. CASE Claim
      BY <2>3 DEF Claim, mainVars
    <2>4. CASE StartFailed
      BY <2>4 DEF StartFailed
    <2> QED
      BY <2>1, <2>2, <2>3, <2>4
  <1>10. slot' \in [Issue -> Slots] /\ Cardinality(Occupied(slot')) <= MaxConcurrent
         /\ \A j \in Issue : slot'[j] = slot[j] \/ (slot[j] \in {0, None} /\ slot'[j] \in {0, None})
    <2>1. CASE slot' = slot
      BY <1>1, <2>1 DEF IInv, SlotInv
    <2>2. CASE slot' = [slot EXCEPT ![i] = None] /\ slot[i] = 0
      BY <1>2, <2>2, Unreserved
    <2> QED
      BY <1>8, <2>1, <2>2
  <1>11. main' \in Main /\ pending' \in Seq(Issue) /\ MainInv'
         /\ (main.at \in {"claim", "install"} => main'.at \in {"claim", "install"})
    <2>1. CASE /\ slot' = slot /\ UNCHANGED pending
               /\ \/ main.at = "worktree" /\ main' = [main EXCEPT !.at = "launch"]
                  \/ main.at = "claim" /\ main' = [main EXCEPT !.at = "install"]
      <3>1. main' \in Main /\ main'.issue = i
            /\ \/ main.at = "worktree" /\ main'.at = "launch"
               \/ main.at = "claim" /\ main'.at = "install"
        BY <1>1, <2>1 DEF Main
      <3>2. MainInv'
        BY <1>2, <1>3, <2>1, <3>1 DEF IInv, MainInv, StartingAt
      <3> QED
        BY <1>1, <2>1, <3>1, <3>2
    <2>2. CASE /\ main.at \in {"worktree", "launch"} /\ UNCHANGED pending
               /\ main' = [main EXCEPT !.at = "fail"]
      <3>1. main' \in Main /\ main'.issue = i /\ main'.at = "fail"
        BY <1>1, <2>2 DEF Main
      <3>2. MainInv'
        BY <1>2, <3>1 DEF MainInv, StartingAt
      <3> QED
        BY <1>1, <2>2, <3>1, <3>2
    <2>3. CASE Dequeue(slot') /\ main.at \in {"worktree", "fail"}
      <3>1. /\ main' \in Main /\ main'.at = "drain" /\ main'.pos # 0
            /\ main'.full = Full(slot') /\ pending' \in Seq(Issue)
        BY <2>3, DequeueOK DEF IInv
      <3>2. MainInv'
        BY <3>1 DEF MainInv, StartingAt, Full, Occupied
      <3> QED
        BY <2>3, <3>1, <3>2
    <2> QED
      BY <1>9, <2>1, <2>2, <2>3
  <1>12. SlotInv' /\ ChildInv' /\ SnapInv'
    BY <1>3, <1>7, <1>10, <1>11, LoopKeeps
  <1>13. TypeOK'
    <2>1. freed' \in BOOLEAN
      BY <1>1, <1>8
    <2> QED
      BY <1>3, <1>4, <1>5, <1>6, <1>7, <1>10, <1>11, <2>1 DEF IInv, TypeOK
  <1> QED
    BY <1>11, <1>12, <1>13 DEF IInv

\* A subprocess is launched: it is the last, and at work in the worktree.
LEMMA LaunchInv ==
  ASSUME IInv, Launch, ch' # ch
  PROVE  IInv'
  <1> DEFINE i == main.issue
             c == [issue |-> i, proc |-> "running", code |-> None, hung |-> FALSE,
                   restored |-> FALSE, at |-> "start", outcome |-> None]
  <1>1. /\ main \in Main /\ pending \in Seq(Issue) /\ slot \in [Issue -> Slots]
        /\ tree \in [Issue -> {"none", "fresh", "used"}] /\ ch \in Seq(Child)
    BY DEF IInv, TypeOK
  <1>2. main.at = "launch" /\ i \in Issue /\ slot[i] = 0
    BY DEF IInv, MainInv, StartingAt, Launch
  <1>3. /\ ch' = Append(ch, c) /\ tree' = [tree EXCEPT ![i] = "used"]
        /\ main' = [main EXCEPT !.at = "claim"] /\ UNCHANGED <<label, slot, freed>>
    BY DEF Launch
  <1>4. UNCHANGED <<inFilter, moves, disc, seen, pending, failCount, failures, released,
                    preserved, phase, snap, restarted>>
    BY DEF Launch, discVars, restartVars
  <1>5. c \in Child
    BY <1>2 DEF Child
  <1> HIDE DEF c
  <1>6. /\ ch' \in Seq(Child) /\ Len(ch') = Len(ch) + 1 /\ ch'[Len(ch) + 1] = c
        /\ \A k \in 1..Len(ch) : ch'[k] = ch[k]
        /\ Len(ch) \in Nat /\ DOMAIN ch = 1..Len(ch) /\ DOMAIN ch' = 1..(Len(ch) + 1)
    BY <1>1, <1>3, <1>5, AppendProperties, LenProperties
  <1>7. c.issue = i /\ c.at = "start"
    BY DEF c
  <1>8. main' \in Main /\ main'.at = "claim" /\ main'.issue = i
    BY <1>1, <1>3 DEF Main
  <1>9. tree' \in [Issue -> {"none", "fresh", "used"}] /\ tree'[i] = "used"
        /\ \A j \in Issue : tree'[j] = tree[j] \/ tree'[j] = "used"
    BY <1>1, <1>2, <1>3
  <1>10. TypeOK'
    BY <1>3, <1>4, <1>6, <1>8, <1>9 DEF IInv, TypeOK
  <1>11. SlotInv' /\ SnapInv'
    <2>1. \A k \in DOMAIN ch : k \in DOMAIN ch' /\ ch'[k] = ch[k]
      BY <1>6
    <2>2. SlotInv'
      BY <1>3, <2>1 DEF IInv, SlotInv, Held
    <2>3. SnapInv'
      BY <1>4, <2>1 DEF IInv, SnapInv, Held
    <2> QED
      BY <2>2, <2>3
  <1>12. MainInv'
    <2>1. main'.issue \in Issue /\ slot'[main'.issue] = 0
      BY <1>2, <1>3, <1>8
    <2>2. Len(ch') > 0 /\ ch'[Len(ch')].at = "start" /\ ch'[Len(ch')].issue = main'.issue
      BY <1>6, <1>7, <1>8
    <2> QED
      BY <1>8, <2>1, <2>2 DEF MainInv
  <1>13. ASSUME NEW k \in DOMAIN ch'
         PROVE  ChildOK(k)'
    <2>1. CASE k = Len(ch) + 1
      BY <1>6, <1>7, <1>8, <1>9, <2>1 DEF ChildOK
    <2>2. CASE k \in 1..Len(ch)
      <3>1. ChildOK(k) /\ ch[k].issue \in Issue /\ ch'[k] = ch[k]
        <4>1. ch[k] \in Child
          BY <1>1, <2>2, ElementOfSeq
        <4> QED
          BY <1>6, <2>2, <4>1 DEF IInv, ChildInv, Child
      <3>2. ch[k].at # "start"
        BY <1>2, <3>1 DEF ChildOK
      <3> QED
        BY <1>3, <1>4, <1>9, <3>1, <3>2 DEF ChildOK
    <2> QED
      BY <1>6, <2>1, <2>2
  <1> QED
    BY <1>10, <1>11, <1>12, <1>13 DEF IInv, ChildInv

\* A subprocess gets the slot that was reserved for its issue.
LEMMA InstallInv ==
  ASSUME IInv, Install
  PROVE  IInv'
  <1> DEFINE i == main.issue
             n == Len(ch)
             c == [ch[n] EXCEPT !.at = "wait"]
  <1>1. /\ main \in Main /\ pending \in Seq(Issue) /\ slot \in [Issue -> Slots]
        /\ ch \in Seq(Child) /\ failCount \in [Issue -> Nat]
    BY DEF IInv, TypeOK
  <1>2. /\ main.at = "install" /\ i \in Issue /\ slot[i] = 0
        /\ n > 0 /\ ch[n].at = "start" /\ ch[n].issue = i
    BY DEF IInv, MainInv, StartingAt, Install
  <1>3. n \in Nat /\ DOMAIN ch = 1..n /\ n \in DOMAIN ch /\ ch[n] \in Child /\ ChildOK(n)
    <2>1. n \in Nat /\ DOMAIN ch = 1..n
      BY <1>1, LenProperties
    <2> QED
      BY <1>1, <1>2, <2>1, ElementOfSeq DEF IInv, ChildInv
  <1>4. c \in Child /\ c.issue = i /\ c.at = "wait" /\ c.proc = ch[n].proc
    BY <1>2, <1>3 DEF Child
  <1>5. ch' = [ch EXCEPT ![n] = c]
    BY <1>3 DEF Install
  <1> HIDE DEF c
  <1>6. /\ ch' \in Seq(Child) /\ Len(ch') = n /\ DOMAIN ch' = DOMAIN ch
        /\ \A k \in DOMAIN ch : ch'[k] = IF k = n THEN c ELSE ch[k]
    BY <1>1, <1>3, <1>4, <1>5, ExceptSeq
  <1>7. /\ slot' \in [Issue -> Slots]
        /\ \A j \in Issue : slot'[j] = IF j = i THEN n ELSE slot[j]
    BY <1>1, <1>2, <1>3 DEF Install, Slots
  <1>8. Occupied(slot') = Occupied(slot)
    BY <1>2, <1>3, <1>7, NoneType DEF Occupied
  <1>9. /\ main' \in Main /\ main'.at = "drain" /\ main'.pos # 0
        /\ main'.full = Full(slot') /\ pending' \in Seq(Issue)
    <2>1. Dequeue(slot')
      BY DEF Install
    <2> QED
      BY <2>1, DequeueOK DEF IInv
  <1>10. UNCHANGED <<inFilter, label, moves, disc, seen, freed, failures, released,
                     tree, preserved, phase, snap, restarted>>
    BY DEF Install, trackerVars, discVars, treeVars, restartVars
  <1>11. failCount' \in [Issue -> Nat]
    BY <1>1 DEF Install
  <1>12. TypeOK'
    BY <1>6, <1>7, <1>9, <1>10, <1>11 DEF IInv, TypeOK
  <1>13. SlotInv'
    <2>1. ASSUME NEW j \in Issue, slot'[j] \in Nat \ {0}
          PROVE  slot'[j] \in DOMAIN ch' /\ ch'[slot'[j]].issue = j
      BY <1>2, <1>3, <1>4, <1>6, <1>7, <2>1 DEF IInv, SlotInv, Held
    <2> QED
      BY <1>8, <2>1 DEF IInv, SlotInv, Held
  <1>14. SnapInv'
    BY <1>2, <1>4, <1>6, <1>10 DEF IInv, SnapInv, Held
  <1>15. MainInv'
    BY <1>9 DEF MainInv, StartingAt, Full, Occupied
  <1>16. ASSUME NEW k \in DOMAIN ch'
         PROVE  ChildOK(k)'
    <2>1. CASE k = n
      BY <1>2, <1>3, <1>4, <1>6, <1>7, <1>10, <2>1 DEF ChildOK
    <2>2. CASE k # n
      <3>1. ChildOK(k) /\ ch[k].issue \in Issue /\ ch'[k] = ch[k] /\ k # 0
        <4>1. ch[k] \in Child
          BY <1>1, <1>3, <1>6, ElementOfSeq
        <4> QED
          BY <1>3, <1>6, <2>2, <4>1 DEF IInv, ChildInv, Child
      <3>2. ch[k].at # "start"
        BY <2>2, <3>1 DEF ChildOK
      <3>3. slot[ch[k].issue] = k => slot'[ch[k].issue] = k
        BY <1>2, <1>7, <3>1
      <3> QED
        BY <1>10, <3>1, <3>2, <3>3 DEF ChildOK
    <2> QED
      BY <2>1, <2>2
  <1> QED
    BY <1>12, <1>13, <1>14, <1>15, <1>16 DEF IInv, ChildInv

\* What an exec restart gathers is what the tables say of installed subprocesses.
LEMMA TakeSnapshotInv ==
  ASSUME IInv, TakeSnapshot
  PROVE  IInv'
  <1> DEFINE t == [i \in Issue |-> IF slot[i] = 0 THEN None ELSE slot[i]]
  <1>1. slot \in [Issue -> Slots] /\ preserved \subseteq Issue
    BY DEF IInv, TypeOK
  <1>2. snap' = [slot |-> t, preserved |-> preserved] /\ ~restarted
    BY DEF TakeSnapshot
  <1>3. t \in [Issue -> Slots] /\ \A i \in Issue : t[i] = slot[i] \/ t[i] = None
    BY <1>1 DEF Slots
  <1>4. \A i \in Issue : t[i] # 0
    BY NoneType
  <1>5. Occupied(t) \subseteq Occupied(slot)
    BY <1>3 DEF Occupied
  <1> HIDE DEF t
  <1>6. snap' \in Snapshot /\ snap'.slot = t
    BY <1>1, <1>2, <1>3 DEF Snapshot
  <1>7. UNCHANGED <<inFilter, label, moves, disc, seen, main, pending, failCount, slot,
                    freed, failures, released, tree, preserved, ch, phase, restarted>>
    BY DEF TakeSnapshot, trackerVars, discVars, mainVars, treeVars
  <1>8. SlotInv' /\ ChildInv' /\ MainInv'
    BY <1>7 DEF IInv, SlotInv, Held, ChildInv, ChildOK, MainInv
  <1>9. SnapInv'
    <2>1. Held(t)
      BY <1>3, NoneType DEF Held, IInv, SlotInv
    <2>2. Held(snap.slot)'
      BY <1>6, <1>7, <2>1 DEF Held
    <2>3. Cardinality(Occupied(t)) <= MaxConcurrent
      BY <1>5, FewerOccupied, FiniteOccupied, TeamConstants DEF IInv, SlotInv
    <2>4. Cardinality(Occupied(snap'.slot)) <= MaxConcurrent
      BY <1>6, <2>3
    <2> QED
      BY <1>2, <1>4, <1>6, <1>7, <2>2, <2>4 DEF SnapInv
  <1>10. TypeOK'
    BY <1>6, <1>7 DEF IInv, TypeOK
  <1> QED
    BY <1>8, <1>9, <1>10 DEF IInv

\* The new process adopts what was gathered, and no more: a subprocess in a slot is
\* its own, and one that is adopted and runs was tracked, so that it has its worktree.
LEMMA ExecInv ==
  ASSUME IInv, Exec
  PROVE  IInv'
  <1>1. /\ ch \in Seq(Child) /\ snap \in Snapshot /\ snap # None
        /\ tree \in [Issue -> {"none", "fresh", "used"}]
    BY DEF IInv, TypeOK, Exec
  <1>2. /\ ~restarted /\ Held(snap.slot) /\ \A i \in Issue : snap.slot[i] # 0
        /\ Cardinality(Occupied(snap.slot)) <= MaxConcurrent
    BY <1>1 DEF IInv, SnapInv
  <1>3. /\ slot' = snap.slot /\ tree' = tree /\ snap' = None /\ restarted' = TRUE
        /\ main' = Top(FALSE) /\ pending' = <<>>
    BY DEF Exec
  <1>4. /\ \A k \in DOMAIN ch : /\ ch[k] \in Child /\ ch[k].issue \in Issue
                                /\ ch'[k] \in Child /\ ch'[k].issue = ch[k].issue
                                /\ ch'[k].proc = ch[k].proc
                                /\ IF Adopted(k) THEN ch'[k].at = "wait"
                                   ELSE ch'[k].at = "lost"
                                        \/ (ch'[k].at = "done" /\ ch[k].at = "done")
        /\ DOMAIN ch' = DOMAIN ch
    <2>1. ASSUME NEW k \in DOMAIN ch
          PROVE  ch[k] \in Child /\ ch[k].issue \in Issue
      <3>1. ch[k] \in Child
        BY <1>1, ElementOfSeq, LenProperties
      <3> QED
        BY <3>1 DEF Child
    <2>2. ch' = [k \in DOMAIN ch |->
                   IF Adopted(k) THEN [ch[k] EXCEPT !.at = "wait", !.restored = TRUE,
                                                    !.outcome = None]
                   ELSE IF ch[k].at = "done" THEN ch[k]
                   ELSE [ch[k] EXCEPT !.at = "lost"]]
      BY DEF Exec
    <2>3. ASSUME NEW c \in Child
          PROVE  LET a == [c EXCEPT !.at = "wait", !.restored = TRUE, !.outcome = None]
                     l == [c EXCEPT !.at = "lost"]
                 IN  /\ a \in Child /\ a.issue = c.issue /\ a.proc = c.proc /\ a.at = "wait"
                     /\ l \in Child /\ l.issue = c.issue /\ l.proc = c.proc /\ l.at = "lost"
      BY DEF Child
    <2> QED
      BY <2>1, <2>2, <2>3
  <1>5. ch' \in Seq(Child)
    <2>1. ch' \in [1..Len(ch) -> Child] /\ Len(ch) \in Nat
      <3>1. ch' = [k \in 1..Len(ch) |-> ch'[k]]
        BY <1>1, LenProperties DEF Exec
      <3> QED
        BY <1>1, <1>4, <3>1, LenProperties
    <2> QED
      BY <2>1, SeqDef
  <1>6. TypeOK'
    <2>1. disc' \in Poll /\ main' \in Main /\ pending' \in Seq(Issue)
      <3>1. NoPoll \in Poll /\ Top(FALSE) \in Main
        BY DEF NoPoll, Poll, Top, Main
      <3>2. disc' = NoPoll
        BY DEF Exec
      <3> QED
        BY <1>3, <3>1, <3>2, EmptySeq
    <2>2. slot' \in [Issue -> Slots] /\ preserved' \subseteq Issue
      BY <1>1, <1>3 DEF Snapshot, Exec
    <2>3. failures' \in [Issue -> Nat] /\ failCount' \in [Issue -> Nat]
      BY DEF Exec, Zeros
    <2> QED
      BY <1>3, <1>5, <2>1, <2>2, <2>3 DEF IInv, TypeOK, Exec, trackerVars
  <1>7. SlotInv'
    BY <1>2, <1>3, <1>4 DEF SlotInv, Held
  <1>8. MainInv'
    BY <1>3, EmptySeq DEF MainInv, Top, StartingAt
  <1>9. ASSUME NEW k \in DOMAIN ch
        PROVE  ChildOK(k)'
    <2>1. ChildOK(k)
      BY DEF IInv, ChildInv
    <2>2. CASE Adopted(k)
      <3>1. slot'[ch'[k].issue] = k
        BY <1>3, <1>4, <2>2 DEF Adopted
      <3>2. ch[k].at # "lost"
        BY <1>2, <2>1 DEF ChildOK
      <3> QED
        BY <1>3, <1>4, <2>1, <2>2, <3>1, <3>2 DEF ChildOK
    <2>3. CASE ~Adopted(k)
      BY <1>3, <1>4, <2>1, <2>3 DEF ChildOK
    <2> QED
      BY <2>2, <2>3
  <1>10. ChildInv' /\ SnapInv'
    BY <1>3, <1>4, <1>9 DEF ChildInv, SnapInv
  <1> QED
    BY <1>6, <1>7, <1>8, <1>10 DEF IInv

\* Every step preserves the inductive invariant.
THEOREM StepInv == IInv /\ [Next]_vars => IInv'
  <1> SUFFICES ASSUME IInv, [Next]_vars PROVE IInv'
    OBVIOUS
  <1>1. CASE List \/ ReadActive \/ Rebuild \/ Interrupt \/ \E i \in Issue : Move(i)
    BY <1>1, QuietInv
  <1>2. CASE \/ Drain \/ SlotFreed \/ LoopStops \/ WaitReturns \/ \E i \in Issue : Receive(i)
    BY <1>2, IdleInv
  <1>3. CASE NewWorktree \/ Claim \/ StartFailed \/ Launch \/ Install
    BY <1>3, StartKeeps, LaunchInv, InstallInv
  <1>4. CASE \E k \in DOMAIN ch : Exits(k) \/ Hangs(k) \/ WaiterStep(k)
    BY <1>4, ProcessInv, WaiterInv
  <1>5. CASE TakeSnapshot \/ Exec
    BY <1>5, TakeSnapshotInv, ExecInv
  <1>6. CASE UNCHANGED vars
    BY <1>6 DEF vars, trackerVars, discVars, mainVars, treeVars, restartVars, IInv, TypeOK,
       SlotInv, Held, ChildInv, ChildOK, MainInv, SnapInv
  <1> QED
    BY <1>1, <1>2, <1>3, <1>4, <1>5, <1>6 DEF Next, DiscStep, StartStep, LoopStep

LEMMA Invariance == Spec => []IInv
  BY InitInv, StepInv, PTL DEF Spec
-----------------------------------------------------------------------------
(* Results. *)

\* A subprocess that runs and is tracked is being started in a reserved slot, or
\* holds its issue's slot.
LEMMA TrackedInSlot ==
  ASSUME IInv, NEW k \in Tracked
  PROVE  /\ ch[k].issue \in Occupied(slot) /\ tree[ch[k].issue] = "used"
         /\ \/ slot[ch[k].issue] = k
            \/ slot[ch[k].issue] = 0 /\ k = Len(ch)
  <1>1. k \in DOMAIN ch /\ ch[k].proc = "running" /\ ch[k].at # "lost"
    BY DEF Tracked, Running
  <1>2. ch[k] \in Child /\ k \in Nat \ {0}
    BY <1>1, ElementOfSeq, LenProperties DEF IInv, TypeOK
  <1>3. ChildOK(k) /\ ch[k].issue \in Issue
    BY <1>1, <1>2 DEF IInv, ChildInv, Child
  <1>4. ch[k].at \in {"start", "wait"}
    BY <1>1, <1>2, <1>3 DEF ChildOK, Child
  <1>5. ch[k].at = "start" => slot[ch[k].issue] = 0 /\ k = Len(ch)
    BY <1>1, <1>3 DEF IInv, MainInv, StartingAt, ChildOK
  <1>6. ch[k].at = "wait" => slot[ch[k].issue] = k
    BY <1>3 DEF ChildOK
  <1> QED
    BY <1>1, <1>2, <1>3, <1>4, <1>5, <1>6, NoneType DEF Occupied, ChildOK

\* Every reachable state has the declared types.
THEOREM TypeCorrect == Spec => []TypeOK
  BY Invariance, PTL DEF IInv

\* No two agents ever work in one worktree: not when an issue is emitted again
\* while it is queued, when a start fails half-way, or across an exec restart.
THEOREM OneChild == Spec => []OneChildPerTree
  <1>1. ASSUME IInv, NEW k \in Tracked, NEW l \in Tracked, ch[k].issue = ch[l].issue
        PROVE  k = l
    <2>1. k \in Nat \ {0} /\ l \in Nat \ {0}
      BY <1>1, LenProperties DEF IInv, TypeOK, Tracked, Running
    <2> QED
      BY <1>1, <2>1, TrackedInSlot
  <1>2. IInv => OneChildPerTree
    BY <1>1 DEF OneChildPerTree
  <1> QED
    BY Invariance, <1>2, PTL

\* No more agents than max_concurrent are at work.
THEOREM Limited == Spec => []WithinLimit
  <1>1. ASSUME IInv
        PROVE  WithinLimit
    <2> DEFINE f == [k \in Tracked |-> ch[k].issue]
    <2>1. \A k, l \in Tracked : ch[k].issue = ch[l].issue => k = l
      <3>1. \A k \in Tracked : k \in Nat \ {0}
        BY <1>1, LenProperties DEF IInv, TypeOK, Tracked, Running
      <3> QED
        BY <1>1, <3>1, TrackedInSlot
    <2>2. f \in [Tracked -> Occupied(slot)]
      BY <1>1, TrackedInSlot
    <2>3. f \in Injection(Tracked, Occupied(slot))
      BY <2>1, <2>2 DEF Injection, IsInjective
    <2>4. IsFiniteSet(Tracked) /\ Cardinality(Tracked) <= Cardinality(Occupied(slot))
      BY <2>3, FiniteOccupied, FS_Injection
    <2>5. Cardinality(Tracked) \in Nat
      BY <2>4, FS_CardinalityType
    <2> QED
      BY <1>1, <2>4, <2>5, FiniteOccupied, TeamConstants DEF IInv, SlotInv, WithinLimit
  <1> QED
    BY Invariance, <1>1, PTL

\* The worktree of an agent at work is never removed.
THEOREM Trees == Spec => []TreeKept
  <1>1. IInv => TreeKept
    BY TrackedInSlot DEF TreeKept
  <1> QED
    BY Invariance, <1>1, PTL

-----------------------------------------------------------------------------
(* The lock label, which needs every claim to succeed. *)

LabelInv == LabelHeld /\ (main.at = "launch" /\ phase = "up" => main.issue \in label)

\* A step makes no subprocess tracked, but for the one it launches.
LEMMA TrackedStep ==
  ASSUME IInv, [Next]_vars, NEW k \in Tracked'
  PROVE  \/ k \in Tracked /\ ch'[k].issue = ch[k].issue
         \/ Launch /\ ch'[k].issue = main.issue /\ phase = "up" /\ label' = label
  <1>1. ch \in Seq(Child) /\ DOMAIN ch = 1..Len(ch) /\ Len(ch) \in Nat
        /\ \A j \in DOMAIN ch : ch[j] \in Child /\ ChildOK(j)
    <2>1. ch \in Seq(Child) /\ DOMAIN ch = 1..Len(ch) /\ Len(ch) \in Nat
      BY LenProperties DEF IInv, TypeOK
    <2> QED
      BY <2>1, ElementOfSeq DEF IInv, ChildInv
  <1>2. k \in DOMAIN ch' /\ ch'[k].proc = "running" /\ ch'[k].at # "lost"
    BY DEF Tracked, Running
  <1>3. CASE ch' = ch
    BY <1>2, <1>3 DEF Tracked, Running
  <1>4. CASE Launch /\ ch' # ch
    <2> DEFINE c == [issue |-> main.issue, proc |-> "running", code |-> None,
                     hung |-> FALSE, restored |-> FALSE, at |-> "start", outcome |-> None]
    <2>1. ch' = Append(ch, c) /\ phase = "up" /\ label' = label
      BY <1>4 DEF Launch
    <2>2. c \in Child /\ c.issue = main.issue
      BY <1>4 DEF Launch, IInv, MainInv, StartingAt, Child
    <2> HIDE DEF c
    <2>3. /\ DOMAIN ch' = 1..(Len(ch) + 1) /\ ch'[Len(ch) + 1] = c
          /\ \A j \in 1..Len(ch) : ch'[j] = ch[j]
      BY <1>1, <2>1, <2>2, AppendProperties, LenProperties
    <2>4. k = Len(ch) + 1 \/ k \in 1..Len(ch)
      BY <1>1, <1>2, <2>3
    <2> QED
      BY <1>1, <1>2, <1>4, <2>1, <2>2, <2>3, <2>4 DEF Tracked, Running
  <1>5. CASE \E j \in DOMAIN ch : \/ Exits(j) \/ Hangs(j) \/ WaiterStep(j)
                                  \/ Install /\ j = Len(ch)
    <2>1. PICK j \in DOMAIN ch : \/ Exits(j) \/ Hangs(j) \/ WaiterStep(j)
                                 \/ Install /\ j = Len(ch)
      BY <1>5
    <2>2. ch[j] \in Child /\ ChildOK(j)
      BY <1>1
    <2>3. ch' \in [DOMAIN ch -> {ch'[m] : m \in DOMAIN ch}]
          /\ \A m \in DOMAIN ch : m # j => ch'[m] = ch[m]
      BY <1>1, <2>1 DEF Exits, Hangs, WaiterStep, Reap, Record, CleanUp, Delete, Install
    <2>4. ch'[j].issue = ch[j].issue
          /\ (ch'[j].proc = "running" /\ ch'[j].at # "lost"
                => ch[j].proc = "running" /\ ch[j].at # "lost")
      <3>1. CASE Exits(j)
        BY <1>1, <2>2, <3>1 DEF Exits, Child
      <3>2. CASE Hangs(j)
        BY <1>1, <2>2, <3>2 DEF Hangs, Child
      <3>3. CASE WaiterStep(j)
        BY <1>1, <2>2, <3>3, ZenonT(40) DEF WaiterStep, Reap, Record, CleanUp, Delete, Child
      <3>4. CASE Install /\ j = Len(ch)
        BY <1>1, <2>2, <3>4 DEF Install, IInv, MainInv, Child
      <3> QED
        BY <2>1, <3>1, <3>2, <3>3, <3>4
    <2>5. k \in DOMAIN ch
      BY <1>2, <2>3
    <2> QED
      BY <1>2, <2>3, <2>4, <2>5 DEF Tracked, Running
  <1>6. CASE Exec
    <2>1. ~restarted
      BY <1>6 DEF Exec, IInv, SnapInv
    <2>2. k \in DOMAIN ch /\ ch[k] \in Child /\ ChildOK(k)
      BY <1>1, <1>2, <1>6 DEF Exec
    <2>3. ch'[k].issue = ch[k].issue /\ ch'[k].proc = ch[k].proc
      BY <1>6, <2>2 DEF Exec, Child
    <2> QED
      BY <1>2, <2>1, <2>2, <2>3 DEF ChildOK, Tracked, Running
  <1>7. \/ ch' = ch \/ Launch \/ Exec
        \/ \E j \in DOMAIN ch : \/ Exits(j) \/ Hangs(j) \/ WaiterStep(j)
                                \/ Install /\ j = Len(ch)
    <2>1. CASE Install
      <3>1. Len(ch) \in DOMAIN ch
        BY <1>1, <2>1 DEF Install, IInv, MainInv
      <3> QED
        BY <2>1, <3>1
    <2>2. CASE \/ List \/ ReadActive \/ Rebuild \/ Interrupt \/ TakeSnapshot
               \/ Drain \/ SlotFreed \/ LoopStops \/ WaitReturns
               \/ NewWorktree \/ Claim \/ StartFailed \/ UNCHANGED vars
               \/ \E i \in Issue : Move(i) \/ Receive(i)
      BY <2>2 DEF List, ReadActive, Rebuild, Interrupt, TakeSnapshot, Drain, SlotFreed,
         LoopStops, WaitReturns, NewWorktree, Claim, StartFailed, Move, Receive, vars
    <2> QED
      BY <2>1, <2>2 DEF Next, DiscStep, StartStep, LoopStep
  <1> QED
    BY <1>3, <1>4, <1>5, <1>6, <1>7

\* With every claim marked, an agent works on an issue that carries the label until
\* the run that put it there takes it off.
LEMMA LabelStep ==
  ASSUME "claimError" \notin Env, IInv, LabelInv, [Next]_vars
  PROVE  LabelInv'
  <1>1. ASSUME NEW i \in label, i \notin label'
        PROVE  /\ \A k \in Tracked : ch[k].issue # i
               /\ (main'.at = "launch" => main'.issue # i)
    <2>1. \/ Launch /\ i = main.issue /\ main'.at = "fail"
          \/ \E k \in DOMAIN ch : CleanUp(k) /\ i = ch[k].issue
      <3>1. CASE Launch
        BY <1>1, <3>1 DEF Launch, IInv, TypeOK, Main
      <3>2. CASE \E k \in DOMAIN ch : CleanUp(k)
        BY <1>1, <3>2 DEF CleanUp
      <3>3. CASE NewWorktree
        BY <1>1, <3>3 DEF NewWorktree
      <3> QED
        BY <1>1, <3>1, <3>2, <3>3 DEF Next, vars, DiscStep, StartStep, LoopStep, WaiterStep,
           trackerVars, List, ReadActive, Rebuild, Interrupt, TakeSnapshot, Drain, SlotFreed,
           LoopStops, WaitReturns, Claim, StartFailed, Move, Receive, Install, Exits, Hangs,
           Reap, Record, Delete, Exec
    <2>2. CASE Launch /\ i = main.issue /\ main'.at = "fail"
      <3>1. ASSUME NEW k \in Tracked, ch[k].issue = i PROVE FALSE
        <4>1. slot[i] = 0 /\ main.at = "launch"
          BY <2>2 DEF Launch, IInv, MainInv, StartingAt
        <4>2. k \in Nat \ {0} /\ k \in DOMAIN ch /\ ch[k] \in Child /\ ChildOK(k)
          BY ElementOfSeq, LenProperties DEF IInv, TypeOK, Tracked, Running, ChildInv
        <4> QED
          BY <3>1, <4>1, <4>2 DEF Tracked, Running, ChildOK, Child
      <3> QED
        BY <2>2, <3>1
    <2>3. ASSUME NEW k \in DOMAIN ch, CleanUp(k), i = ch[k].issue
          PROVE  /\ \A l \in Tracked : ch[l].issue # i
                 /\ (main'.at = "launch" => main'.issue # i)
      <3>1. k \in Nat \ {0} /\ slot[i] = k /\ ch[k].proc = "reaped" /\ main' = main
        BY <2>3, LenProperties DEF CleanUp, IInv, TypeOK, ChildInv, ChildOK, mainVars
      <3>2. ASSUME NEW l \in Tracked, ch[l].issue = i PROVE FALSE
        BY <3>1, <3>2, TrackedInSlot DEF Tracked, Running
      <3>3. main.at = "launch" => main.issue # i
        BY <3>1 DEF IInv, MainInv, StartingAt
      <3> QED
        BY <3>1, <3>2, <3>3
    <2> QED
      BY <2>1, <2>2, <2>3
  <1>2. ASSUME NEW k \in Tracked' PROVE ch'[k].issue \in label'
    <2>1. CASE k \in Tracked /\ ch'[k].issue = ch[k].issue
      BY <1>1, <2>1 DEF LabelInv, LabelHeld
    <2>2. CASE Launch /\ ch'[k].issue = main.issue /\ phase = "up" /\ label' = label
      BY <2>2 DEF LabelInv, Launch
    <2> QED
      BY <2>1, <2>2, TrackedStep
  <1>3. ASSUME main'.at = "launch", phase' = "up" PROVE main'.issue \in label'
    <2>1. phase = "up"
      BY <1>3 DEF Next, vars, DiscStep, StartStep, LoopStep, WaiterStep, restartVars,
         List, ReadActive, Rebuild, Interrupt, TakeSnapshot, Drain, SlotFreed, NewWorktree,
         LoopStops, WaitReturns, Claim, StartFailed, Launch, Move, Receive, Install, Exits,
         Hangs, Reap, Record, CleanUp, Delete, Exec
    <2>2. CASE NewWorktree
      BY <1>3, <2>1, <2>2 DEF NewWorktree, ClaimMayFail, Dequeue, Top, IInv, TypeOK, Main
    <2>3. CASE ~NewWorktree
      <3>1. main' = main
        <4> main \in Main
          BY DEF IInv, TypeOK
        <4>1. CASE StartFailed \/ Install
          BY <1>3, <4>1 DEF StartFailed, Install, Dequeue, Top
        <4>2. CASE Drain \/ \E i \in Issue : Receive(i)
          BY <1>3, <4>2 DEF Drain, Receive, Reserve, Top, Main
        <4>3. CASE SlotFreed \/ LoopStops \/ WaitReturns \/ Claim \/ Launch \/ Exec
          <5>1. \/ main' \in {Top(Full(slot)), Top(FALSE)}
                \/ \E at \in {"wait", "done", "install", "claim", "fail"} :
                      main' = [main EXCEPT !.at = at]
            BY <4>3 DEF SlotFreed, LoopStops, WaitReturns, Claim, Launch, Exec
          <5> QED
            BY <1>3, <5>1 DEF Top, Main
        <4>4. CASE \/ List \/ ReadActive \/ Rebuild \/ Interrupt \/ TakeSnapshot
                   \/ UNCHANGED vars \/ \E i \in Issue : Move(i)
                   \/ \E k \in DOMAIN ch : Exits(k) \/ Hangs(k) \/ WaiterStep(k)
          BY <4>4 DEF List, ReadActive, Rebuild, Interrupt, TakeSnapshot, vars, mainVars,
             Move, Exits, Hangs, WaiterStep, Reap, Record, CleanUp, Delete
        <4> QED
          BY <2>3, <4>1, <4>2, <4>3, <4>4 DEF Next, DiscStep, StartStep, LoopStep
      <3> QED
        BY <1>1, <1>3, <2>1, <3>1 DEF LabelInv
    <2> QED
      BY <2>2, <2>3
  <1> QED
    BY <1>2, <1>3 DEF LabelInv, LabelHeld

\* If every claim can be marked, the lock label is on an issue as long as an agent
\* works on it.
THEOREM Labels ==
  ASSUME "claimError" \notin Env
  PROVE  Spec => []LabelHeld
  <1>1. Init => LabelInv
    BY DEF Init, LabelInv, LabelHeld, Tracked, Running, Top
  <1>2. IInv /\ LabelInv /\ [Next]_vars => LabelInv'
    BY LabelStep
  <1>3. LabelInv => LabelHeld
    BY DEF LabelInv
  <1> QED
    BY Invariance, <1>1, <1>2, <1>3, PTL DEF Spec

-----------------------------------------------------------------------------
(* Issues settle, where nobody moves them and no restart forgets them.        *)

\* Discovery will not emit the issue: it was emitted, or is listed no more.
Suppressed(i) == i \in seen \/ i \notin inFilter \cup disc.listed

\* Where an issue is that was emitted and has not ended.
InHand(i) == i \in disc.out \/ Queued(i) \/ main.issue = i \/ slot[i] # None

\* The poll holds what its place says, and lists all there is to list.
PollInv ==
    /\ disc.at # "emit" => disc.out = {}
    /\ disc.at \in {"idle", "emit"} => disc.listed = {}
    /\ disc.at \in {"listed", "locked"} => inFilter \subseteq disc.listed

\* An issue is in one place, and Discovery knows.
OncePlaced(i) ==
    /\ i \in disc.out => ~Queued(i) /\ main.issue # i /\ slot[i] = None
    /\ Queued(i) => slot[i] = None \/ main.issue = i
    /\ main.issue = i => /\ main.at \in StartingAt \cup {"fail"}
                         /\ slot[i] = IF main.at = "fail" THEN None ELSE 0
                         /\ IF main.pos = 0 THEN ~Queued(i)
                            ELSE main.pos \in DOMAIN pending /\ pending[main.pos] = i
    /\ InHand(i) => Suppressed(i)
    /\ i \in released => ~InHand(i)

\* An issue that was shipped or given up is not tried again.
Over(i) == Suppressed(i) /\ i \notin disc.out /\ i \notin released /\ ~Queued(i) /\ main.issue # i

GivenUp(i) ==
    /\ failures[i] <= MaxRuntimeFailures
    /\ failures[i] >= MaxRuntimeFailures =>
          /\ Over(i) /\ slot[i] # 0
          /\ \A k \in DOMAIN ch : slot[i] = k => ch[k].at \in {"cleanup", "delete"}

ShipInv(k) ==
    ch[k].outcome = "done" =>
          /\ Over(ch[k].issue) /\ slot[ch[k].issue] \in {None, k}
          /\ ch[k].at \in {"record", "cleanup", "delete", "done"}
          /\ \A l \in DOMAIN ch : l > k => ch[l].issue # ch[k].issue

SettleInv ==
    /\ ~restarted /\ snap = None /\ moves = 0
    /\ PollInv /\ QueuedOnce
    /\ \A i \in Issue : OncePlaced(i) /\ GivenUp(i)
    /\ \A k \in DOMAIN ch : ShipInv(k)

\* The label comes and goes within the time the issue has a slot.
LabelEnds ==
    /\ ~restarted /\ snap = None
    /\ \A i \in label : /\ slot[i] # None /\ ~(main.issue = i /\ main.at = "worktree")
                        /\ \A k \in DOMAIN ch : slot[i] = k => ch[k].at # "delete"

\* What is shared by the steps below: the types of what an issue is looked up in.
LEMMA Shapes ==
  ASSUME IInv
  PROVE  /\ disc \in Poll /\ main \in Main /\ slot \in [Issue -> Slots]
         /\ failures \in [Issue -> Nat] /\ MaxRuntimeFailures \in Nat \ {0}
         /\ pending \in Seq(Issue) /\ DOMAIN pending = 1..Len(pending) /\ Len(pending) \in Nat
         /\ ch \in Seq(Child) /\ DOMAIN ch = 1..Len(ch) /\ Len(ch) \in Nat
         /\ \A n \in DOMAIN pending : pending[n] \in Issue
         /\ \A k \in DOMAIN ch : ch[k] \in Child /\ ch[k].issue \in Issue /\ ChildOK(k)
         /\ None \notin Issue /\ None \notin Nat
  <1>1. pending \in Seq(Issue) /\ ch \in Seq(Child)
    BY DEF IInv, TypeOK
  <1>2. \A k \in DOMAIN ch : ch[k] \in Child /\ ch[k].issue \in Issue /\ ChildOK(k)
    <2> SUFFICES ASSUME NEW k \in DOMAIN ch PROVE ch[k] \in Child /\ ch[k].issue \in Issue /\ ChildOK(k)
      OBVIOUS
    <2>1. ch[k] \in Child
      BY <1>1, ElementOfSeq
    <2> QED
      BY <2>1 DEF Child, IInv, ChildInv
  <1> QED
    BY <1>1, <1>2, ElementOfSeq, LenProperties, TeamConstants, NoneType DEF IInv, TypeOK

\* The poll emits an issue that is not in hand, shipped or given up.
LEMMA PollSettles ==
  ASSUME IInv, SettleInv, List \/ ReadActive \/ Rebuild
  PROVE  SettleInv'
  <1>1. UNCHANGED <<inFilter, moves, main, pending, slot, failures, ch, snap, restarted>>
    BY DEF List, ReadActive, Rebuild, trackerVars, mainVars, restartVars
  <1>2. QueuedOnce' /\ \A i : Queued(i)' = Queued(i)
    BY <1>1 DEF SettleInv, QueuedOnce, Queued
  <1>3. CASE List
    <2>1. /\ disc.at = "idle" /\ disc.listed = {} /\ disc.out = {} /\ disc'.out = {}
          /\ disc'.listed = inFilter /\ disc'.at = "listed" /\ UNCHANGED <<seen, released>>
      BY <1>3 DEF List, NoPoll, SettleInv, PollInv
    <2>2. PollInv' /\ \A i : Suppressed(i)' = Suppressed(i) /\ InHand(i)' = InHand(i) /\ Over(i)' = Over(i)
      BY <1>1, <1>2, <2>1 DEF PollInv, Suppressed, InHand, Over
    <2> QED
      BY <1>1, <1>2, <2>1, <2>2 DEF SettleInv, OncePlaced, GivenUp, ShipInv
  <1>4. CASE ReadActive
    <2>1. disc'.out = disc.out /\ disc'.listed = disc.listed /\ disc.at = "listed" /\ disc'.at = "locked"
          /\ UNCHANGED <<seen, released>>
      BY <1>4, Shapes DEF ReadActive, Poll
    <2>2. PollInv' /\ \A i : Suppressed(i)' = Suppressed(i) /\ InHand(i)' = InHand(i) /\ Over(i)' = Over(i)
      BY <1>1, <1>2, <2>1 DEF SettleInv, PollInv, Suppressed, InHand, Over
    <2> QED
      BY <1>1, <1>2, <2>1, <2>2 DEF SettleInv, OncePlaced, GivenUp, ShipInv
  <1>5. CASE Rebuild
    <2>1. disc.at = "locked" /\ disc.out = {} /\ inFilter \subseteq disc.listed
      BY <1>5 DEF Rebuild, SettleInv, PollInv
    <2>2. seen' = disc.listed /\ released' = {} /\ disc'.listed = {}
          /\ (disc'.at # "emit" => disc'.out = {}) /\ disc'.at \in {"idle", "emit"}
          /\ \A i \in disc'.out : i \in disc.listed /\ (i \notin seen \/ i \in released)
      BY <1>5 DEF Rebuild, NoPoll
    <2>3. PollInv'
      BY <2>2 DEF PollInv
    <2>4. \A i : Suppressed(i) => Suppressed(i)'
      BY <1>1, <2>1, <2>2 DEF Suppressed
    <2>5. ASSUME NEW i \in Issue, i \in disc'.out
          PROVE  ~InHand(i) /\ (Suppressed(i) => i \in released) /\ Suppressed(i)'
      BY <1>1, <2>1, <2>2, <2>5 DEF SettleInv, OncePlaced, InHand, Suppressed
    <2>6. ASSUME NEW i \in Issue PROVE OncePlaced(i)'
      BY <1>1, <1>2, <2>1, <2>2, <2>4, <2>5 DEF SettleInv, OncePlaced, InHand
    <2>7. ASSUME NEW i \in Issue, Over(i) PROVE Over(i)'
      BY <1>1, <1>2, <2>2, <2>4, <2>5, <2>7 DEF Over
    <2>8. ASSUME NEW i \in Issue PROVE GivenUp(i)'
      BY <1>1, <2>7 DEF SettleInv, GivenUp
    <2>9. ASSUME NEW k \in DOMAIN ch PROVE ShipInv(k)'
      BY <1>1, <2>7, Shapes DEF SettleInv, ShipInv
    <2> QED
      BY <1>1, <1>2, <2>3, <2>6, <2>8, <2>9 DEF SettleInv
  <1> QED
    BY <1>3, <1>4, <1>5

\* Taking an issue off the queue.
LEMMA Dequeued ==
  ASSUME IInv, QueuedOnce, NEW s, Dequeue(s), main.pos # 0 => main.pos \in DOMAIN pending
  PROVE  /\ main'.issue = None /\ main'.at = "drain" /\ QueuedOnce'
         /\ \A i : Queued(i)' => Queued(i)
         /\ \A i : main.pos # 0 /\ i = pending[main.pos] => ~Queued(i)'
  <1>1. main'.issue = None /\ main'.at = "drain"
    BY DEF Dequeue, Top
  <1>2. CASE main.pos = 0
    BY <1>1, <1>2 DEF Dequeue, QueuedOnce, Queued
  <1>3. CASE main.pos # 0
    <2> DEFINE p == main.pos  L == Len(pending)
    <2>1. p \in 1..L /\ L \in Nat
      BY <1>3, Shapes
    <2>2. /\ DOMAIN pending' = 1..(L - 1)
          /\ \A n \in DOMAIN pending' : pending'[n] = IF n < p THEN pending[n] ELSE pending[n + 1]
      BY <1>3 DEF Dequeue
    <2>3. DOMAIN pending = 1..L
      BY Shapes
    <2> HIDE DEF p, L
    <2>4. \A n \in DOMAIN pending' : \E m \in DOMAIN pending :
             /\ m = (IF n < p THEN n ELSE n + 1) /\ m # p /\ pending'[n] = pending[m]
      BY <2>1, <2>2, <2>3
    <2>5. QueuedOnce'
      <3> SUFFICES ASSUME NEW m \in DOMAIN pending', NEW n \in DOMAIN pending', pending'[m] = pending'[n]
                   PROVE  m = n
        BY DEF QueuedOnce
      <3>1. (IF m < p THEN m ELSE m + 1) = (IF n < p THEN n ELSE n + 1)
        BY <2>4 DEF QueuedOnce
      <3> QED
        BY <2>1, <2>2, <3>1
    <2>6. \A i : Queued(i)' => Queued(i)
      BY <2>4 DEF Queued
    <2>7. ASSUME NEW i, i = pending[p] PROVE ~Queued(i)'
      BY <2>1, <2>3, <2>4, <2>7 DEF Queued, QueuedOnce
    <2> QED
      BY <1>1, <2>5, <2>6, <2>7 DEF p
  <1> QED
    BY <1>2, <1>3

\* The subprocesses of other issues stay as they are, and a new one is of issue i.
OthersStay(i) ==
    /\ DOMAIN ch' \subseteq Nat
    /\ \A k \in DOMAIN ch : /\ k \in DOMAIN ch'
                            /\ ch'[k].issue = ch[k].issue /\ ch'[k].outcome = ch[k].outcome
                            /\ ch'[k].at = ch[k].at \/ ch[k].issue = i
    /\ \A k \in DOMAIN ch' : k \notin DOMAIN ch => ch'[k].issue = i /\ ch'[k].outcome # "done"

\* A step that acts on issue i and leaves the others where they are.
LEMMA ActsOn ==
  ASSUME IInv, SettleInv, NEW i \in Issue, ~Over(i),
         UNCHANGED <<moves, failures, released, snap, restarted>>,
         PollInv', QueuedOnce', OncePlaced(i)',
         \A j \in Issue \ {i} : /\ main.issue # j /\ main'.issue # j /\ slot'[j] = slot[j]
                                /\ (Queued(j)' => Queued(j)) /\ (j \in disc'.out => j \in disc.out)
                                /\ (Suppressed(j) => Suppressed(j)'),
         OthersStay(i)
  PROVE  SettleInv'
  <1> USE DEF OthersStay
  <1>1. /\ \A j \in Issue : OncePlaced(j) /\ GivenUp(j) /\ failures[j] \in Nat
        /\ \A k \in DOMAIN ch : ShipInv(k) /\ ch[k].issue \in Issue
        /\ \A j \in Issue : slot[j] \in Nat \ {0} => slot[j] \in DOMAIN ch /\ ch[slot[j]].issue = j
        /\ DOMAIN ch = 1..Len(ch) /\ MaxRuntimeFailures \in Nat /\ 0 \notin DOMAIN ch
    BY Shapes DEF SettleInv, IInv, SlotInv, Held
  <1>2. ASSUME NEW j \in Issue \ {i} PROVE OncePlaced(j)' /\ (Over(j) => Over(j)')
    <2>1. OncePlaced(j)
      BY <1>1
    <2>2. InHand(j)' => InHand(j)
      BY <1>2 DEF InHand
    <2>3. Suppressed(j) => Suppressed(j)'
      BY <1>2
    <2> QED
      BY <1>2, <2>1, <2>2, <2>3 DEF OncePlaced, Over
  <1>3. ASSUME NEW j \in Issue PROVE GivenUp(j)'
    <2>1. CASE j = i
      BY <1>1, <2>1 DEF GivenUp
    <2>2. CASE j # i
      <3>1. GivenUp(j) /\ slot'[j] = slot[j] /\ failures'[j] = failures[j]
        BY <1>1, <2>2
      <3>2. ASSUME NEW k \in DOMAIN ch', slot'[j] = k, failures[j] >= MaxRuntimeFailures
            PROVE  ch'[k].at \in {"cleanup", "delete"}
        <4>1. slot[j] = k /\ slot[j] # 0
          BY <3>1, <3>2 DEF GivenUp
        <4>2. k \in DOMAIN ch
          <5>1. CASE k \in Nat \ {0}
            BY <1>1, <4>1, <5>1
          <5>2. CASE k \notin Nat \ {0}
            BY <1>1, <3>2, <4>1, <5>2, Shapes DEF Slots
          <5> QED
            BY <5>1, <5>2
        <4>3. ch[k].issue = j
          BY <1>1, <4>1, <4>2
        <4>4. ch'[k].at = ch[k].at
          BY <2>2, <4>2, <4>3
        <4> QED
          BY <3>1, <3>2, <4>1, <4>2, <4>4 DEF GivenUp
      <3> QED
        BY <1>2, <2>2, <3>1, <3>2 DEF GivenUp
    <2> QED
      BY <2>1, <2>2
  <1>4. ASSUME NEW k \in DOMAIN ch', ch'[k].outcome = "done" PROVE ShipInv(k)'
    <2>1. k \in DOMAIN ch /\ ch[k].outcome = "done" /\ ch'[k].issue = ch[k].issue
      BY <1>4
    <2>2. ShipInv(k) /\ Over(ch[k].issue) /\ ch[k].issue \in Issue \ {i}
      BY <1>1, <2>1 DEF ShipInv
    <2>3. Over(ch[k].issue)'
      <3>1. PICK j \in Issue \ {i} : ch'[k].issue = j /\ Over(j) /\ j = ch[k].issue
        BY <2>1, <2>2
      <3>2. Over(j)'
        BY <1>2, <3>1
      <3> QED
        BY <3>1, <3>2 DEF Over, Suppressed, Queued
    <2>4. slot'[ch'[k].issue] \in {None, k} /\ ch'[k].at = ch[k].at
      BY <2>1, <2>2 DEF ShipInv
    <2>5. \A l \in DOMAIN ch' : l > k => ch'[l].issue # ch'[k].issue
      BY <2>1, <2>2 DEF ShipInv
    <2> QED
      BY <2>1, <2>2, <2>3, <2>4, <2>5 DEF ShipInv
  <1>5. \A k \in DOMAIN ch' : ShipInv(k)'
    BY <1>4 DEF ShipInv
  <1>6. \A j \in Issue : OncePlaced(j)'
    BY <1>2
  <1> QED
    BY <1>3, <1>5, <1>6 DEF SettleInv

\* An issue that is on its way is not over.
LEMMA OnItsWay ==
  ASSUME SettleInv, NEW i \in Issue, Queued(i) \/ main.issue = i \/ i \in disc.out
  PROVE  ~Over(i)
  BY DEF Over

\* The loop is at rest, before and after.
LEMMA LoopSettles ==
  ASSUME IInv, SettleInv, SlotFreed \/ LoopStops \/ WaitReturns \/ (Drain /\ UNCHANGED slot /\ main'.at = "select")
  PROVE  SettleInv'
  <1>1. /\ main.at \in {"drain", "select", "wait"}
        /\ \/ main'.issue = main.issue
           \/ main'.issue = None
        /\ UNCHANGED <<inFilter, moves, disc, seen, pending, slot, failures, released, ch, snap, restarted>>
    <2>1. main \in Main
      BY Shapes
    <2>2. CASE SlotFreed
      BY <2>2 DEF SlotFreed, Top, trackerVars, discVars, restartVars
    <2>3. CASE LoopStops \/ WaitReturns
      BY <2>1, <2>3 DEF LoopStops, WaitReturns, Main, trackerVars, discVars, restartVars
    <2>4. CASE Drain /\ UNCHANGED slot /\ main'.at = "select"
      <3>1. main.full \/ main.pos > Len(pending)
        BY <2>4 DEF Drain, Reserve
      <3> QED
        BY <2>1, <2>4, <3>1 DEF Drain, Main, trackerVars, discVars, restartVars
    <2> QED
      BY <2>2, <2>3, <2>4
  <1>2. \A i \in Issue : main.issue # i /\ main'.issue # i
    BY <1>1, Shapes DEF SettleInv, OncePlaced, StartingAt
  <1>3. PollInv' /\ QueuedOnce' /\ \A i : Queued(i)' = Queued(i) /\ Suppressed(i)' = Suppressed(i)
    BY <1>1 DEF SettleInv, PollInv, QueuedOnce, Queued, Suppressed
  <1>4. \A i \in Issue : Over(i)' = Over(i) /\ InHand(i)' = InHand(i)
    BY <1>1, <1>2, <1>3 DEF Over, InHand
  <1>5. ASSUME NEW i \in Issue PROVE OncePlaced(i)' /\ GivenUp(i)'
    BY <1>1, <1>2, <1>3, <1>4 DEF SettleInv, OncePlaced, GivenUp
  <1>6. ASSUME NEW k \in DOMAIN ch PROVE ShipInv(k)'
    BY <1>1, <1>4, Shapes DEF SettleInv, ShipInv
  <1> QED
    BY <1>1, <1>3, <1>5, <1>6 DEF SettleInv

\* An issue is tried: it had no slot, so that it is not refused.
LEMMA ReserveSettles ==
  ASSUME IInv, SettleInv, NEW i \in Issue, NEW pos, Reserve(i, pos),
         \/ Drain /\ pos = main.pos /\ main.pos \in DOMAIN pending /\ pending[pos] = i
         \/ Receive(i) /\ pos = 0 /\ UNCHANGED pending
  PROVE  SettleInv'
  <1>1. /\ main.at \in {"drain", "select"} /\ \A j \in Issue : main.issue # j
        /\ UNCHANGED <<inFilter, moves, seen, pending, failures, released, ch, snap, restarted>>
    BY Shapes DEF Drain, Receive, SettleInv, OncePlaced, StartingAt, trackerVars, discVars, restartVars
  <1>2. Queued(i) \/ i \in disc.out
    BY DEF Drain, Receive, Queued
  <1>3. slot[i] = None /\ ~Over(i) /\ Suppressed(i) /\ i \notin released
    BY <1>1, <1>2, OnItsWay DEF SettleInv, OncePlaced, InHand
  <1>4. /\ main' = [at |-> "worktree", issue |-> i, pos |-> pos, full |-> FALSE]
        /\ slot' = [slot EXCEPT ![i] = 0]
    BY <1>3 DEF Reserve
  <1>5. /\ disc'.out \subseteq disc.out /\ i \notin disc'.out /\ disc'.listed = disc.listed /\ PollInv'
    <2>1. CASE Drain
      <3>1. Queued(i) /\ OncePlaced(i) /\ PollInv
        BY <2>1 DEF Drain, Receive, Queued, SettleInv
      <3>2. UNCHANGED <<disc, inFilter>>
        BY <2>1 DEF Drain, discVars, trackerVars
      <3> QED
        BY <3>1, <3>2 DEF OncePlaced, PollInv
    <2>2. CASE Receive(i)
      BY <1>1, <2>2, Shapes DEF Receive, SettleInv, PollInv, NoPoll, Poll
    <2> QED
      BY <2>1, <2>2 DEF Drain, Receive
  <1>6. QueuedOnce' /\ \A j : Queued(j)' = Queued(j) /\ Suppressed(j)' = Suppressed(j)
    BY <1>1, <1>5 DEF SettleInv, QueuedOnce, Queued, Suppressed
  <1>7. IF pos = 0 THEN ~Queued(i) ELSE pos \in DOMAIN pending /\ pending[pos] = i
    <2>1. CASE Receive(i) /\ pos = 0
      BY <2>1 DEF Receive, SettleInv, OncePlaced
    <2>2. CASE Drain /\ pos = main.pos /\ main.pos \in DOMAIN pending /\ pending[pos] = i
      BY <2>2, Shapes
    <2> QED
      BY <2>1, <2>2
  <1>8. slot'[i] = 0 /\ \A j \in Issue \ {i} : slot'[j] = slot[j]
    BY <1>4, Shapes
  <1>9. OncePlaced(i)'
    BY <1>1, <1>3, <1>4, <1>5, <1>6, <1>7, <1>8, Shapes DEF OncePlaced, StartingAt
  <1> QED
    BY <1>1, <1>3, <1>4, <1>5, <1>6, <1>8, <1>9, ActsOn, Shapes DEF OthersStay

\* An issue that finds the table full is queued.
LEMMA QueueSettles ==
  ASSUME IInv, SettleInv, NEW i \in Issue, Receive(i), Full(slot)
  PROVE  SettleInv'
  <1>1. /\ main.at = "select" /\ i \in disc.out /\ disc'.out = disc.out \ {i} /\ disc'.listed = disc.listed
        /\ (disc'.at = disc.at \/ (disc'.at = "idle" /\ disc'.out = {}))
        /\ disc.at = "emit"
        /\ pending' = Append(pending, i) /\ main'.issue = None
        /\ UNCHANGED <<inFilter, moves, seen, slot, failures, released, ch, snap, restarted>>
    <2>1. disc'.out = disc.out \ {i} /\ disc'.listed = disc.listed
          /\ (disc'.at = disc.at \/ (disc'.at = "idle" /\ disc'.out = {}))
      <3>1. disc \in Poll /\ disc.listed = {} /\ disc.at = "emit"
        BY Shapes DEF Receive, SettleInv, PollInv
      <3>2. disc' = IF disc.out = {i} THEN NoPoll ELSE [disc EXCEPT !.out = disc.out \ {i}]
        BY <3>1 DEF Receive, Poll
      <3>3. CASE disc.out = {i}
        <4>1. disc' = NoPoll /\ disc.out \ {i} = {}
          BY <3>2, <3>3
        <4> QED
          BY <3>1, <4>1 DEF NoPoll
      <3>4. CASE disc.out # {i}
        BY <3>1, <3>2, <3>4 DEF Poll
      <3> QED
        BY <3>3, <3>4
    <2> QED
      BY <2>1 DEF Receive, Top, trackerVars, restartVars
  <1>2. /\ \A j \in Issue : main.issue # j /\ main'.issue # j
        /\ ~Queued(i) /\ slot[i] = None /\ ~Over(i) /\ Suppressed(i) /\ i \notin released
    BY <1>1, OnItsWay, Shapes DEF SettleInv, OncePlaced, StartingAt, InHand
  <1>3. /\ DOMAIN pending' = 1..(Len(pending) + 1) /\ pending'[Len(pending) + 1] = i
        /\ \A n \in 1..Len(pending) : pending'[n] = pending[n]
    BY <1>1, Shapes, AppendProperties, LenProperties
  <1>4. QueuedOnce'
    BY <1>2, <1>3, Shapes DEF SettleInv, QueuedOnce, Queued
  <1>5. \A j : j # i /\ Queued(j)' => Queued(j)
    BY <1>3, Shapes DEF Queued
  <1>6. PollInv' /\ \A j : Suppressed(j)' = Suppressed(j)
    BY <1>1 DEF SettleInv, PollInv, Suppressed
  <1>7. OncePlaced(i)'
    BY <1>1, <1>2, <1>6 DEF OncePlaced
  <1> QED
    BY <1>1, <1>2, <1>4, <1>5, <1>6, <1>7, ActsOn, Shapes DEF OthersStay

\* An issue that is being started goes on, or its start has failed.
LEMMA StartGoesOn ==
  ASSUME IInv, SettleInv, NEW i \in Issue, main.issue = i,
         main'.issue = i, main'.pos = main.pos, main'.at \in StartingAt \cup {"fail"},
         slot' = [slot EXCEPT ![i] = IF main'.at = "fail" THEN None ELSE 0],
         inFilter' \subseteq inFilter, OthersStay(i),
         UNCHANGED <<moves, disc, seen, pending, failures, released, snap, restarted>>
  PROVE  SettleInv'
  <1>1. OncePlaced(i) /\ ~Over(i) /\ Suppressed(i) /\ i \notin released /\ i \notin disc.out
    BY OnItsWay DEF SettleInv, OncePlaced, InHand
  <1>2. \A j : Queued(j)' = Queued(j) /\ (Suppressed(j) => Suppressed(j)')
    BY DEF Queued, Suppressed
  <1>3. QueuedOnce' /\ PollInv'
    BY DEF SettleInv, QueuedOnce, PollInv
  <1>4. slot'[i] = (IF main'.at = "fail" THEN None ELSE 0) /\ \A j \in Issue \ {i} : slot'[j] = slot[j]
    BY Shapes
  <1>5. OncePlaced(i)'
    BY <1>1, <1>2, <1>4 DEF OncePlaced
  <1> QED
    BY <1>1, <1>2, <1>3, <1>4, <1>5, ActsOn

\* A start is over, with a slot or without.
LEMMA StartEnds ==
  ASSUME IInv, SettleInv, NEW i \in Issue, main.issue = i,
         NEW s, Dequeue(s), \A j \in Issue \ {i} : slot'[j] = slot[j],
         \/ seen' = seen
         \/ seen' = seen \ {i} /\ slot'[i] = None,
         OthersStay(i),
         UNCHANGED <<inFilter, moves, disc, failures, released, snap, restarted>>
  PROVE  SettleInv'
  <1>1. OncePlaced(i) /\ ~Over(i) /\ Suppressed(i) /\ i \notin released /\ i \notin disc.out
    BY OnItsWay DEF SettleInv, OncePlaced, InHand
  <1>2. main.pos # 0 => main.pos \in DOMAIN pending /\ pending[main.pos] = i
    BY <1>1 DEF OncePlaced
  <1>3. /\ main'.issue = None /\ QueuedOnce' /\ \A j : Queued(j)' => Queued(j)
        /\ main.pos # 0 => ~Queued(i)'
    BY <1>2, Dequeued DEF SettleInv
  <1>4. ~Queued(i)'
    BY <1>1, <1>3 DEF OncePlaced
  <1>5. PollInv' /\ \A j : j # i /\ Suppressed(j) => Suppressed(j)'
    BY DEF SettleInv, PollInv, Suppressed
  <1>6. seen' = seen => Suppressed(i)'
    BY <1>1 DEF Suppressed
  <1>7. main'.issue # i /\ \A j \in Issue : main'.issue # j
    BY <1>3, NoneType
  <1>8. InHand(i)' => Suppressed(i)'
    <2>1. CASE seen' = seen
      BY <1>6, <2>1
    <2>2. CASE seen' = seen \ {i} /\ slot'[i] = None
      BY <1>1, <1>4, <1>7, <2>2 DEF InHand
    <2> QED
      BY <2>1, <2>2
  <1>9. OncePlaced(i)'
    BY <1>1, <1>4, <1>7, <1>8 DEF OncePlaced
  <1> QED
    BY <1>1, <1>3, <1>5, <1>7, <1>9, ActsOn

LEMMA StartSettles ==
  ASSUME IInv, SettleInv, StartStep
  PROVE  SettleInv'
  <1>1. PICK i \in Issue : main.issue = i
    BY NoneType DEF StartStep, NewWorktree, Launch, Claim, Install, StartFailed, IInv, MainInv, StartingAt
  <1>2. /\ main \in Main /\ slot \in [Issue -> Slots] /\ ch \in Seq(Child) /\ DOMAIN ch = 1..Len(ch)
        /\ Len(ch) \in Nat /\ OncePlaced(i)
    BY Shapes DEF SettleInv
  <1>3. slot[i] = IF main.at = "fail" THEN None ELSE 0
    BY <1>1, <1>2 DEF OncePlaced
  <1>4. UNCHANGED ch => OthersStay(i)
    BY <1>2 DEF OthersStay
  <1>5. CASE NewWorktree
    <2>1. UNCHANGED <<inFilter, moves, disc, seen, failures, released, snap, restarted, ch>> /\ main.at = "worktree"
      BY <1>5 DEF NewWorktree, discVars, restartVars
    <2>2. \/ main' = [main EXCEPT !.at = "launch"] /\ UNCHANGED <<pending, slot>>
          \/ main' = [main EXCEPT !.at = "fail"] /\ UNCHANGED pending /\ slot' = [slot EXCEPT ![i] = None]
          \/ slot' = [slot EXCEPT ![i] = None] /\ Dequeue(slot')
      BY <1>1, <1>5 DEF NewWorktree, Unreserve
    <2>3. CASE Dequeue(slot') /\ slot' = [slot EXCEPT ![i] = None]
      BY <1>1, <1>2, <1>4, <2>1, <2>3, StartEnds
    <2>4. CASE main' = [main EXCEPT !.at = "launch"] /\ UNCHANGED <<pending, slot>>
      <3>1. /\ main'.issue = i /\ main'.pos = main.pos /\ main'.at = "launch"
            /\ slot' = [slot EXCEPT ![i] = IF main'.at = "fail" THEN None ELSE 0]
        BY <1>1, <1>2, <1>3, <2>1, <2>4 DEF Main
      <3> QED
        BY <1>1, <1>4, <2>1, <2>4, <3>1, StartGoesOn DEF StartingAt
    <2>5. CASE main' = [main EXCEPT !.at = "fail"] /\ UNCHANGED pending /\ slot' = [slot EXCEPT ![i] = None]
      <3>1. /\ main'.issue = i /\ main'.pos = main.pos /\ main'.at = "fail"
            /\ slot' = [slot EXCEPT ![i] = IF main'.at = "fail" THEN None ELSE 0]
        BY <1>1, <1>2, <2>5 DEF Main
      <3> QED
        BY <1>1, <1>4, <2>1, <2>5, <3>1, StartGoesOn
    <2> QED
      BY <2>2, <2>3, <2>4, <2>5
  <1>6. CASE Launch
    <2>1. UNCHANGED <<inFilter, moves, disc, seen, pending, failures, released, snap, restarted>> /\ main.at = "launch"
      BY <1>6 DEF Launch, discVars, restartVars
    <2> DEFINE c == [issue |-> i, proc |-> "running", code |-> None,
                     hung |-> FALSE, restored |-> FALSE, at |-> "start", outcome |-> None]
    <2>2. \/ ch' = Append(ch, c) /\ main' = [main EXCEPT !.at = "claim"] /\ UNCHANGED slot
          \/ UNCHANGED ch /\ main' = [main EXCEPT !.at = "fail"] /\ slot' = [slot EXCEPT ![i] = None]
      BY <1>1, <1>6 DEF Launch, Unreserve
    <2>3. c.issue = i /\ c.outcome # "done" /\ c \in Child
      BY NoneType DEF Child
    <2> HIDE DEF c
    <2>4. CASE ch' = Append(ch, c) /\ main' = [main EXCEPT !.at = "claim"] /\ UNCHANGED slot
      <3>1. /\ DOMAIN ch' = 1..(Len(ch) + 1) /\ ch'[Len(ch) + 1] = c
            /\ \A j \in 1..Len(ch) : ch'[j] = ch[j]
        BY <1>2, <2>3, <2>4, AppendProperties, LenProperties
      <3>2. OthersStay(i)
        BY <1>2, <2>3, <3>1 DEF OthersStay
      <3>3. /\ main'.issue = i /\ main'.pos = main.pos /\ main'.at = "claim"
            /\ slot' = [slot EXCEPT ![i] = IF main'.at = "fail" THEN None ELSE 0]
        BY <1>1, <1>2, <1>3, <2>1, <2>4 DEF Main
      <3> QED
        BY <1>1, <2>1, <3>2, <3>3, StartGoesOn DEF StartingAt
    <2>5. CASE UNCHANGED ch /\ main' = [main EXCEPT !.at = "fail"] /\ slot' = [slot EXCEPT ![i] = None]
      <3>1. /\ main'.issue = i /\ main'.pos = main.pos /\ main'.at = "fail"
            /\ slot' = [slot EXCEPT ![i] = IF main'.at = "fail" THEN None ELSE 0]
        BY <1>1, <1>2, <2>5 DEF Main
      <3> QED
        BY <1>1, <1>4, <2>1, <2>5, <3>1, StartGoesOn
    <2> QED
      BY <2>2, <2>4, <2>5
  <1>7. CASE Claim
    <2>1. /\ UNCHANGED <<moves, disc, seen, pending, failures, released, snap, restarted, ch, slot>>
          /\ main.at = "claim" /\ main' = [main EXCEPT !.at = "install"] /\ inFilter' \subseteq inFilter
      BY <1>7 DEF Claim, discVars, restartVars
    <2>2. /\ main'.issue = i /\ main'.pos = main.pos /\ main'.at = "install"
          /\ slot' = [slot EXCEPT ![i] = IF main'.at = "fail" THEN None ELSE 0]
      BY <1>1, <1>2, <1>3, <2>1 DEF Main
    <2> QED
      BY <1>1, <1>4, <2>1, <2>2, StartGoesOn DEF StartingAt
  <1>8. CASE Install
    <2>1. /\ UNCHANGED <<inFilter, moves, disc, seen, failures, released, snap, restarted>>
          /\ slot' = [slot EXCEPT ![i] = Len(ch)] /\ ch' = [ch EXCEPT ![Len(ch)].at = "wait"]
          /\ Dequeue(slot') /\ Len(ch) \in DOMAIN ch /\ ch[Len(ch)].issue = i
      BY <1>1, <1>2, <1>8 DEF Install, discVars, trackerVars, restartVars, IInv, MainInv
    <2>2. ch[Len(ch)] \in Child
      BY <2>1, Shapes
    <2>3. OthersStay(i)
      BY <1>2, <2>1, <2>2 DEF OthersStay, Child
    <2> QED
      BY <1>1, <1>2, <2>1, <2>3, StartEnds
  <1>9. CASE StartFailed
    <2>1. /\ UNCHANGED <<inFilter, moves, disc, failures, released, snap, restarted, ch, slot>>
          /\ main.at = "fail" /\ Dequeue(slot) /\ (seen' = seen \ {i} \/ seen' = seen)
      BY <1>1, <1>9 DEF StartFailed, trackerVars, restartVars
    <2> QED
      BY <1>1, <1>3, <1>4, <2>1, StartEnds
  <1> QED
    BY <1>5, <1>6, <1>7, <1>8, <1>9 DEF StartStep

\* An issue that holds a slot is nowhere else.
LEMMA HeldIsOver ==
  ASSUME IInv, SettleInv, NEW k \in DOMAIN ch, slot[ch[k].issue] = k
  PROVE  Over(ch[k].issue)
  <1>1. ch[k].issue \in Issue /\ k # 0 /\ k # None
    BY Shapes
  <1> QED
    BY <1>1 DEF SettleInv, OncePlaced, InHand, Over

\* A subprocess that runs on, ends or hangs.
LEMMA ProcessSettles ==
  ASSUME IInv, SettleInv, NEW k \in DOMAIN ch, Exits(k) \/ Hangs(k)
  PROVE  SettleInv'
  <1>1. ch \in Seq(Child) /\ ch[k] \in Child /\ \A j \in DOMAIN ch : ch[j].issue \in Issue
    BY Shapes
  <1>2. UNCHANGED <<slot, main, pending, snap, restarted, disc, seen, inFilter, moves, failures, released>>
    BY DEF Exits, Hangs, mainVars, discVars, trackerVars, restartVars
  <1>3. /\ DOMAIN ch' = DOMAIN ch
        /\ \A j \in DOMAIN ch : ch'[j].issue = ch[j].issue /\ ch'[j].at = ch[j].at /\ ch'[j].outcome = ch[j].outcome
    <2>1. CASE Exits(k)
      <3>1. PICK code : ch' = [ch EXCEPT ![k].proc = "exited", ![k].code = code]
        BY <2>1 DEF Exits
      <3> QED
        BY <1>1, <3>1 DEF Child
    <2>2. CASE Hangs(k)
      BY <1>1, <2>2 DEF Hangs, Child
    <2> QED
      BY <2>1, <2>2
  <1>4. PollInv' /\ QueuedOnce' /\ \A i : Over(i)' = Over(i) /\ InHand(i)' = InHand(i)
                                     /\ Suppressed(i)' = Suppressed(i) /\ Queued(i)' = Queued(i)
    BY <1>2 DEF SettleInv, PollInv, QueuedOnce, Queued, Over, InHand, Suppressed
  <1>5. \A i \in Issue : OncePlaced(i)' /\ GivenUp(i)'
    BY <1>2, <1>3, <1>4 DEF SettleInv, OncePlaced, GivenUp
  <1>6. \A j \in DOMAIN ch : ShipInv(j)'
    BY <1>1, <1>2, <1>3, <1>4 DEF SettleInv, ShipInv
  <1> QED
    BY <1>2, <1>3, <1>4, <1>5, <1>6 DEF SettleInv

\* Whoever works on an issue comes after those who did.
Succession == \A k, l \in DOMAIN ch : k < l /\ ch[k].issue = ch[l].issue => ch[k].at = "done"

\* The goroutine that waits for a subprocess gives its issue up, ships it, or
\* releases it for another attempt.
LEMMA WaiterSettles ==
  ASSUME IInv, SettleInv, Succession, NEW k \in DOMAIN ch, WaiterStep(k)
  PROVE  SettleInv'
  <1>1. PICK i \in Issue : i = ch[k].issue
    BY Shapes
  <1>2. /\ ch[k] \in Child /\ k \in Nat \ {0} /\ k # None /\ DOMAIN ch \subseteq Nat
        /\ failures[i] \in Nat /\ MaxRuntimeFailures \in Nat \ {0} /\ failures \in [Issue -> Nat]
        /\ ch[k].at \in {"wait", "record", "cleanup", "delete"} /\ slot[i] = k
        /\ \A j \in DOMAIN ch : ch[j].issue \in Issue
    <2>1. ch[k].at \in {"wait", "record", "cleanup", "delete"}
      BY DEF WaiterStep, Reap, Record, CleanUp, Delete
    <2>2. ChildOK(k) /\ k \in 1..Len(ch) /\ Len(ch) \in Nat /\ DOMAIN ch = 1..Len(ch)
      BY Shapes
    <2>3. slot[i] = k
      BY <1>1, <2>1, <2>2 DEF ChildOK
    <2> QED
      BY <2>1, <2>2, <2>3, Shapes
  <1>3. Over(i) /\ OncePlaced(i) /\ GivenUp(i) /\ ShipInv(k)
    BY <1>1, <1>2, HeldIsOver DEF SettleInv
  <1>4. UNCHANGED <<main, pending, snap, restarted, disc, seen, inFilter, moves>>
    BY DEF WaiterStep, Reap, Record, CleanUp, Delete, mainVars, discVars, restartVars, trackerVars
  <1>5. /\ PollInv' /\ QueuedOnce'
        /\ \A j : Suppressed(j)' = Suppressed(j) /\ Queued(j)' = Queued(j)
    BY <1>4 DEF SettleInv, PollInv, QueuedOnce, Queued, Suppressed
  <1>6. /\ DOMAIN ch' = DOMAIN ch /\ \A j \in DOMAIN ch : j # k => ch'[j] = ch[j]
        /\ ch'[k].issue = i
        /\ ch'[k].at = CASE ch[k].at = "wait" -> "record" [] ch[k].at = "record" -> "cleanup"
                         [] ch[k].at = "cleanup" -> "delete" [] ch[k].at = "delete" -> "done"
        /\ ch[k].at # "wait" => ch'[k].outcome = ch[k].outcome
    <2>1. CASE Reap(k)
      BY <1>1, <1>2, <2>1 DEF Reap, Child
    <2>2. CASE Record(k)
      BY <1>1, <1>2, <2>2 DEF Record, Child
    <2>3. CASE CleanUp(k)
      BY <1>1, <1>2, <2>3 DEF CleanUp, Child
    <2>4. CASE Delete(k)
      BY <1>1, <1>2, <2>4 DEF Delete, Child
    <2> QED
      BY <2>1, <2>2, <2>3, <2>4 DEF WaiterStep
  <1>7. /\ \A j \in Issue \ {i} : slot'[j] = slot[j] /\ failures'[j] = failures[j] /\ (j \in released' => j \in released)
        /\ slot'[i] = IF ch[k].at = "delete" THEN None ELSE k
        /\ failures'[i] = IF ch[k].at # "record" \/ ch[k].outcome = "cancelled" THEN failures[i]
                          ELSE IF ch[k].outcome = "failed" THEN failures[i] + 1 ELSE 0
        /\ i \in released' => ch[k].at = "delete" /\ ch[k].outcome # "done" /\ failures[i] < MaxRuntimeFailures
    <2>1. i \notin released /\ slot \in [Issue -> Slots]
      BY <1>3, Shapes DEF Over
    <2>2. CASE Reap(k) \/ CleanUp(k)
      BY <1>1, <1>2, <2>1, <2>2 DEF Reap, CleanUp
    <2>3. CASE Record(k)
      <3>1. /\ UNCHANGED slot /\ ch[k].at = "record"
            /\ ch[k].outcome \in {"done", "failed", "cancelled"}
        BY <1>2, <2>3, Shapes DEF Record, ChildOK, Child
      <3>2. \/ ch[k].outcome = "failed" /\ failures' = [failures EXCEPT ![i] = @ + 1] /\ UNCHANGED released
            \/ ch[k].outcome = "done" /\ failures' = [failures EXCEPT ![i] = 0] /\ released' = released \ {i}
            \/ ch[k].outcome = "cancelled" /\ UNCHANGED <<failures, released>>
        BY <1>1, <2>3, <3>1 DEF Record
      <3> QED
        BY <1>2, <2>1, <3>1, <3>2
    <2>4. CASE Delete(k)
      <3>1. /\ ch[k].at = "delete" /\ slot' = [slot EXCEPT ![i] = None] /\ UNCHANGED failures
            /\ released' = IF ch[k].outcome # "done" /\ ~(failures[i] >= MaxRuntimeFailures)
                           THEN released \cup {i} ELSE released
        BY <1>1, <2>4 DEF Delete, Unreserve, Capped
      <3> QED
        BY <1>2, <2>1, <3>1
    <2> QED
      BY <2>2, <2>3, <2>4 DEF WaiterStep
  <1>8. ASSUME NEW j \in Issue \ {i} PROVE OncePlaced(j)' /\ GivenUp(j)' /\ (Over(j) => Over(j)')
    <2>1. OncePlaced(j) /\ GivenUp(j)
      BY DEF SettleInv
    <2>2. slot[j] # k
      BY <1>1, <1>2 DEF IInv, SlotInv, Held
    <2>3. InHand(j)' = InHand(j)
      BY <1>4, <1>5, <1>7, <1>8 DEF InHand
    <2> QED
      BY <1>4, <1>5, <1>6, <1>7, <1>8, <2>1, <2>2, <2>3 DEF OncePlaced, GivenUp, Over
  <1>9. OncePlaced(i)'
    BY <1>2, <1>3, <1>4, <1>5, <1>7 DEF OncePlaced, InHand, Over
  <1>10. i \notin released' => Over(i)'
    BY <1>3, <1>4, <1>5 DEF Over
  <1>11. GivenUp(i)'
    <2>1. /\ failures[i] <= MaxRuntimeFailures
          /\ failures[i] >= MaxRuntimeFailures => ch[k].at \in {"cleanup", "delete"}
      BY <1>2, <1>3 DEF GivenUp
    <2>2. failures'[i] <= MaxRuntimeFailures
      BY <1>2, <1>7, <2>1
    <2>3. failures'[i] >= MaxRuntimeFailures => /\ ch[k].at \in {"record", "cleanup", "delete"}
                                                /\ i \notin released'
      BY <1>2, <1>7, <2>1
    <2>4. slot'[i] \in {None, k} /\ None # 0 /\ None \notin DOMAIN ch
      BY <1>2, <1>7, NoneType
    <2>5. failures'[i] >= MaxRuntimeFailures =>
             \A j \in DOMAIN ch' : slot'[i] = j => ch'[j].at \in {"cleanup", "delete"}
      BY <1>2, <1>6, <1>7, <2>3, <2>4
    <2> QED
      BY <1>2, <1>10, <2>2, <2>3, <2>4, <2>5 DEF GivenUp
  <1>12. ASSUME NEW j \in DOMAIN ch, ch'[j].outcome = "done" PROVE ShipInv(j)'
    <2>1. CASE j = k
      <3>1. i \notin released' /\ Over(i)'
        BY <1>7, <1>6, <1>10, <1>12, <2>1
      <3>2. ch'[k].at \in {"record", "cleanup", "delete", "done"} /\ slot'[i] \in {None, k}
        BY <1>2, <1>6, <1>7
      <3>3. \A l \in DOMAIN ch : l > k => ch[l].issue # i
        BY <1>1, <1>2 DEF Succession
      <3> QED
        BY <1>1, <1>6, <2>1, <3>1, <3>2, <3>3 DEF ShipInv, Over, Suppressed, Queued
    <2>2. CASE j # k
      <3>1. PICK m \in Issue : m = ch[j].issue
        BY <1>2
      <3>2. ShipInv(j) /\ ch'[j] = ch[j] /\ ch[j].outcome = "done"
        BY <1>6, <1>12, <2>2 DEF SettleInv
      <3>3. m # i
        BY <1>2, <2>2, <3>1, <3>2 DEF ShipInv
      <3>4. Over(m)' /\ slot'[m] \in {None, j}
        BY <1>7, <1>8, <3>1, <3>2, <3>3 DEF ShipInv
      <3>5. \A l \in DOMAIN ch : ch'[l].issue = ch[l].issue
        BY <1>1, <1>6
      <3> QED
        BY <1>6, <3>1, <3>2, <3>4, <3>5 DEF ShipInv, Over, Suppressed, Queued
    <2> QED
      BY <2>1, <2>2
  <1> QED
    BY <1>4, <1>5, <1>6, <1>8, <1>9, <1>11, <1>12 DEF SettleInv, ShipInv

\* Without a restart, nobody is lost and nothing is gathered.
LEMMA NoRestart ==
  ASSUME "restart" \notin Env, ~restarted, snap = None, [Next]_vars
  PROVE  ~restarted' /\ snap' = None /\ ~TakeSnapshot /\ ~Exec
  <1>1. ~TakeSnapshot /\ ~Exec
    BY DEF TakeSnapshot, Exec
  <1>2. UNCHANGED <<snap, restarted>>
    <2>1. CASE DiscStep \/ StartStep \/ LoopStep \/ SlotFreed \/ Interrupt \/ UNCHANGED vars
      BY <2>1 DEF DiscStep, List, ReadActive, Rebuild, StartStep, NewWorktree, Launch, Claim, Install,
         StartFailed, LoopStep, Drain, LoopStops, WaitReturns, SlotFreed, Interrupt, vars, restartVars
    <2>2. ASSUME NEW i \in Issue, Receive(i) \/ Move(i) PROVE UNCHANGED <<snap, restarted>>
      BY <2>2 DEF Receive, Move, restartVars
    <2>3. ASSUME NEW k \in DOMAIN ch, Exits(k) \/ Hangs(k) \/ WaiterStep(k) PROVE UNCHANGED <<snap, restarted>>
      BY <2>3 DEF Exits, Hangs, WaiterStep, Reap, Record, CleanUp, Delete, restartVars
    <2> QED
      BY <1>1, <2>1, <2>2, <2>3 DEF Next
  <1> QED
    BY <1>1, <1>2

\* What a step does to the subprocesses.
LEMMA ChildrenStep ==
  ASSUME IInv, ~TakeSnapshot, ~Exec, [Next]_vars
  PROVE  \/ ch' = ch
         \/ Launch /\ main.issue \in Issue /\ slot[main.issue] = 0 /\ DOMAIN ch' = 1..(Len(ch) + 1)
              /\ ch'[Len(ch) + 1].issue = main.issue
              /\ ch'[Len(ch) + 1].at = "start" /\ \A j \in DOMAIN ch : ch'[j] = ch[j]
         \/ /\ DOMAIN ch' = DOMAIN ch
            /\ \E k \in DOMAIN ch : /\ \A j \in DOMAIN ch : j # k => ch'[j] = ch[j]
                                    /\ ch'[k].issue = ch[k].issue
                                    /\ \/ (Exits(k) \/ Hangs(k)) /\ ch'[k].at = ch[k].at
                                       \/ WaiterStep(k) /\ ch[k].at # "done"
                                       \/ Install /\ k = Len(ch)
  <1>1. /\ ch \in Seq(Child) /\ DOMAIN ch = 1..Len(ch) /\ Len(ch) \in Nat
        /\ \A k \in DOMAIN ch : ch[k] \in Child
    BY Shapes
  <1>2. CASE \/ List \/ ReadActive \/ Rebuild \/ Interrupt
             \/ Drain \/ SlotFreed \/ LoopStops \/ WaitReturns
             \/ NewWorktree \/ Claim \/ StartFailed \/ UNCHANGED vars
             \/ \E i \in Issue : Move(i) \/ Receive(i)
    BY <1>2 DEF List, ReadActive, Rebuild, Interrupt, Drain, SlotFreed,
       LoopStops, WaitReturns, NewWorktree, Claim, StartFailed, Move, Receive, vars
  <1>3. CASE Launch
    <2> DEFINE c == [issue |-> main.issue, proc |-> "running", code |-> None,
                     hung |-> FALSE, restored |-> FALSE, at |-> "start", outcome |-> None]
    <2>1. ch' = Append(ch, c) \/ ch' = ch
      BY <1>3 DEF Launch
    <2>2. main.issue \in Issue /\ slot[main.issue] = 0
      BY <1>3 DEF Launch, IInv, MainInv, StartingAt
    <2>3. c \in Child /\ c.issue = main.issue /\ c.at = "start"
      BY <2>2 DEF Child
    <2> HIDE DEF c
    <2>4. CASE ch' = Append(ch, c)
      <3>1. /\ DOMAIN ch' = 1..(Len(ch) + 1) /\ ch'[Len(ch) + 1] = c
            /\ \A j \in 1..Len(ch) : ch'[j] = ch[j]
        BY <1>1, <2>3, <2>4, AppendProperties, LenProperties
      <3> QED
        BY <1>1, <1>3, <2>2, <2>3, <3>1
    <2> QED
      BY <2>1, <2>4
  <1>4. CASE \E k \in DOMAIN ch : Exits(k) \/ Hangs(k) \/ WaiterStep(k)
    <2>1. PICK k \in DOMAIN ch : Exits(k) \/ Hangs(k) \/ WaiterStep(k)
      BY <1>4
    <2>2. ch[k] \in Child
      BY <1>1
    <2>3. DOMAIN ch' = DOMAIN ch /\ \A j \in DOMAIN ch : j # k => ch'[j] = ch[j]
      BY <1>1, <2>1 DEF Exits, Hangs, WaiterStep, Reap, Record, CleanUp, Delete
    <2>4. CASE Exits(k)
      <3>1. PICK code : ch' = [ch EXCEPT ![k].proc = "exited", ![k].code = code]
        BY <2>4 DEF Exits
      <3>2. ch'[k].issue = ch[k].issue /\ ch'[k].at = ch[k].at
        BY <1>1, <2>2, <3>1 DEF Child
      <3> QED
        BY <2>3, <2>4, <3>2
    <2>5. CASE Hangs(k)
      <3>1. ch'[k].issue = ch[k].issue /\ ch'[k].at = ch[k].at
        BY <1>1, <2>2, <2>5 DEF Hangs, Child
      <3> QED
        BY <2>3, <2>5, <3>1
    <2>6. CASE WaiterStep(k)
      <3>1. ch'[k].issue = ch[k].issue /\ ch[k].at # "done"
        BY <1>1, <2>2, <2>6 DEF WaiterStep, Reap, Record, CleanUp, Delete, Child
      <3> QED
        BY <2>3, <2>6, <3>1
    <2> QED
      BY <2>1, <2>4, <2>5, <2>6
  <1>5. CASE Install
    <2>1. ch' = [ch EXCEPT ![Len(ch)].at = "wait"] /\ Len(ch) \in DOMAIN ch
      BY <1>1, <1>5 DEF Install, IInv, MainInv
    <2>2. /\ DOMAIN ch' = DOMAIN ch /\ \A j \in DOMAIN ch : j # Len(ch) => ch'[j] = ch[j]
          /\ ch'[Len(ch)].issue = ch[Len(ch)].issue
      BY <1>1, <2>1 DEF Child
    <2> QED
      BY <1>5, <2>1, <2>2
  <1> QED
    BY <1>2, <1>3, <1>4, <1>5 DEF Next, DiscStep, StartStep, LoopStep

LEMMA SuccessionStep ==
  ASSUME IInv, Succession, "restart" \notin Env, ~restarted, snap = None, [Next]_vars
  PROVE  Succession'
  <1> SUFFICES ASSUME NEW k \in DOMAIN ch', NEW l \in DOMAIN ch', k < l, ch'[k].issue = ch'[l].issue
               PROVE  ch'[k].at = "done"
    BY DEF Succession
  <1>1. /\ DOMAIN ch = 1..Len(ch) /\ Len(ch) \in Nat
        /\ \A j \in DOMAIN ch : ch[j] \in Child /\ ChildOK(j)
    BY Shapes
  <1>2. CASE ch' = ch
    BY <1>2 DEF Succession
  <1>3. CASE Launch /\ main.issue \in Issue /\ slot[main.issue] = 0 /\ DOMAIN ch' = 1..(Len(ch) + 1)
              /\ ch'[Len(ch) + 1].issue = main.issue
              /\ ch'[Len(ch) + 1].at = "start" /\ \A j \in DOMAIN ch : ch'[j] = ch[j]
    <2>1. k \in DOMAIN ch /\ ch'[k] = ch[k] /\ (l \in DOMAIN ch \/ l = Len(ch) + 1)
      BY <1>1, <1>3
    <2>2. CASE l \in DOMAIN ch
      BY <1>3, <2>1, <2>2 DEF Succession
    <2>3. CASE l = Len(ch) + 1
      <3>1. ch[k].issue = main.issue /\ slot[main.issue] = 0 /\ k # 0 /\ main.at = "launch"
        BY <1>1, <1>3, <2>1, <2>3 DEF Launch
      <3>2. ch[k].at \notin {"wait", "record", "cleanup", "delete", "start", "lost"}
        BY <1>1, <2>1, <3>1 DEF ChildOK
      <3> QED
        BY <1>1, <2>1, <3>2 DEF Child
    <2> QED
      BY <2>1, <2>2, <2>3
  <1>4. ASSUME DOMAIN ch' = DOMAIN ch, NEW m \in DOMAIN ch, \A j \in DOMAIN ch : j # m => ch'[j] = ch[j],
               ch'[m].issue = ch[m].issue,
               \/ (Exits(m) \/ Hangs(m)) /\ ch'[m].at = ch[m].at
               \/ WaiterStep(m) /\ ch[m].at # "done"
               \/ Install /\ m = Len(ch)
        PROVE  ch'[k].at = "done"
    <2>1. ch[k].issue = ch[l].issue /\ ch[k].at = "done"
      BY <1>4 DEF Succession
    <2>2. k # Len(ch)
      BY <1>1, <1>4
    <2> QED
      BY <1>4, <2>1, <2>2
  <1> QED
    BY <1>2, <1>3, <1>4, ChildrenStep, NoRestart

LEMMA SettleStep ==
  ASSUME IInv, SettleInv, Succession, MaxMoves = 0, "restart" \notin Env, [Next]_vars
  PROVE  SettleInv'
  <1>1. ~TakeSnapshot /\ ~Exec
    BY NoRestart DEF SettleInv
  <1>2. ASSUME NEW i \in Issue PROVE ~Move(i)
    BY DEF Move, SettleInv
  <1>3. CASE Drain
    <2>1. CASE main.full \/ main.pos > Len(pending)
      <3>1. UNCHANGED slot /\ main'.at = "select"
        BY <1>3, <2>1, Shapes DEF Drain, Main
      <3> QED
        BY <1>3, <3>1, LoopSettles
    <2>2. CASE ~(main.full \/ main.pos > Len(pending))
      <3>1. main.pos \in DOMAIN pending
        BY <1>3, <2>2, Shapes DEF Drain, Main, IInv, MainInv
      <3>2. PICK i \in Issue : i = pending[main.pos]
        BY <3>1, Shapes
      <3>3. Reserve(i, main.pos)
        BY <1>3, <2>2, <3>2 DEF Drain
      <3> QED
        BY <1>3, <3>1, <3>2, <3>3, ReserveSettles
    <2> QED
      BY <2>1, <2>2
  <1>4. ASSUME NEW i \in Issue, Receive(i) PROVE SettleInv'
    <2>1. CASE Full(slot)
      BY <1>4, <2>1, QueueSettles
    <2>2. CASE ~Full(slot)
      BY <1>4, <2>2, ReserveSettles DEF Receive
    <2> QED
      BY <2>1, <2>2
  <1>5. CASE Interrupt \/ UNCHANGED vars
    <2>1. UNCHANGED <<slot, main, pending, ch, snap, restarted, disc, seen, inFilter, moves, failures, released>>
      BY <1>5 DEF Interrupt, vars, trackerVars, discVars, mainVars, restartVars
    <2> QED
      BY <2>1 DEF SettleInv, PollInv, QueuedOnce, OncePlaced, GivenUp, ShipInv, Over, InHand, Suppressed, Queued
  <1> QED
    BY <1>1, <1>2, <1>3, <1>4, <1>5, PollSettles, LoopSettles, StartSettles, ProcessSettles, WaiterSettles
       DEF Next, DiscStep, LoopStep

\* The label leaves with the slot.
LEMMA LabelEndsStep ==
  ASSUME IInv, LabelEnds, "restart" \notin Env, "cleanupError" \notin Env, [Next]_vars
  PROVE  LabelEnds'
  <1>1. ~restarted' /\ snap' = None /\ ~TakeSnapshot /\ ~Exec
    <2>1. ~restarted /\ snap = None
      BY DEF LabelEnds
    <2> QED
      BY <2>1, NoRestart
  <1>2. /\ main \in Main /\ slot \in [Issue -> Slots] /\ label \subseteq Issue
        /\ DOMAIN ch = 1..Len(ch) /\ Len(ch) \in Nat /\ None # 0 /\ None \notin DOMAIN ch
        /\ \A k \in DOMAIN ch : ch[k] \in Child /\ ch[k].issue \in Issue /\ ChildOK(k)
        /\ \A i \in Issue : slot[i] \in Nat \ {0} => slot[i] \in DOMAIN ch /\ ch[slot[i]].issue = i
    BY Shapes DEF IInv, SlotInv, Held, TypeOK
  <1>3. ASSUME NEW i \in label', i \in Issue
        PROVE  /\ slot'[i] # None /\ ~(main'.issue = i /\ main'.at = "worktree")
               /\ \A k \in DOMAIN ch' : slot'[i] = k => ch'[k].at # "delete"
    <2>1. CASE \/ List \/ ReadActive \/ Rebuild \/ Interrupt \/ UNCHANGED vars \/ \E j \in Issue : Move(j)
      <3>1. UNCHANGED <<label, slot, main, ch>>
        BY <2>1 DEF List, ReadActive, Rebuild, Interrupt, Move, vars, trackerVars, mainVars
      <3> QED
        BY <1>3, <3>1 DEF LabelEnds
    <2>2. CASE Drain \/ SlotFreed \/ LoopStops \/ WaitReturns \/ \E j \in Issue : Receive(j)
      <3>1. UNCHANGED <<label, ch>>
        BY <2>2 DEF Drain, SlotFreed, LoopStops, WaitReturns, Receive, trackerVars
      <3>2. slot[i] # None /\ \A k \in DOMAIN ch : slot[i] = k => ch[k].at # "delete"
        BY <1>3, <3>1 DEF LabelEnds
      <3>3. slot'[i] = slot[i] /\ ~(main'.issue = i /\ main'.at = "worktree")
        <4>1. ASSUME NEW j, NEW pos, Reserve(j, pos)
              PROVE  slot'[i] = slot[i] /\ ~(main'.issue = i /\ main'.at = "worktree")
          BY <1>2, <1>3, <3>2, <4>1 DEF Reserve
        <4>2. CASE SlotFreed
          BY <2>2, <4>2 DEF SlotFreed, Top
        <4>3. CASE LoopStops \/ WaitReturns
          BY <1>2, <4>3 DEF LoopStops, WaitReturns, Main
        <4>4. CASE Drain
          <5>1. CASE main' = [main EXCEPT !.at = "select"] /\ UNCHANGED slot
            BY <1>2, <5>1 DEF Main
          <5> QED
            BY <4>1, <4>4, <5>1 DEF Drain
        <4>5. CASE \E j \in Issue : Receive(j)
          <5>1. CASE main' = Top(TRUE) /\ UNCHANGED slot
            BY <5>1 DEF Top
          <5> QED
            BY <4>1, <4>5, <5>1 DEF Receive
        <4> QED
          BY <2>2, <4>2, <4>3, <4>4, <4>5
      <3> QED
        BY <3>1, <3>2, <3>3
    <2>3. CASE NewWorktree
      <3>1. main.at = "worktree" /\ UNCHANGED ch /\ main'.at # "worktree" /\ slot[main.issue] = 0 /\ main.issue \in Issue
        BY <1>2, <2>3 DEF NewWorktree, Main, Dequeue, Top, IInv, MainInv, StartingAt
      <3>2. CASE UNCHANGED slot /\ label' \subseteq label \cup {main.issue}
        BY <1>2, <1>3, <3>1, <3>2 DEF LabelEnds
      <3>3. CASE slot' = [slot EXCEPT ![main.issue] = None] /\ UNCHANGED label
        <4>1. main.issue # i
          BY <1>3, <3>1, <3>3 DEF LabelEnds
        <4> QED
          BY <1>2, <1>3, <3>1, <3>3, <4>1 DEF LabelEnds
      <3> QED
        BY <2>3, <3>2, <3>3 DEF NewWorktree, Unreserve
    <2>4. CASE Launch
      <3>1. main.at = "launch" /\ main'.at # "worktree" /\ slot[main.issue] = 0 /\ main.issue \in Issue
        BY <1>2, <2>4 DEF Launch, Main, IInv, MainInv, StartingAt
      <3> DEFINE c == [issue |-> main.issue, proc |-> "running", code |-> None,
                       hung |-> FALSE, restored |-> FALSE, at |-> "start", outcome |-> None]
      <3>2. CASE ch' = ch /\ label' = label \ {main.issue} /\ slot' = [slot EXCEPT ![main.issue] = None]
        BY <1>2, <1>3, <3>1, <3>2 DEF LabelEnds
      <3>3. CASE ch' = Append(ch, c) /\ UNCHANGED <<label, slot>>
        <4>1. c \in Child /\ c.at = "start"
          BY <3>1 DEF Child
        <4> HIDE DEF c
        <4>2. /\ DOMAIN ch' = 1..(Len(ch) + 1) /\ ch'[Len(ch) + 1].at = "start"
              /\ \A j \in DOMAIN ch : ch'[j] = ch[j]
          BY <1>2, <3>3, <4>1, AppendProperties, LenProperties, Shapes
        <4> QED
          BY <1>2, <1>3, <3>1, <3>3, <4>2 DEF LabelEnds
      <3> QED
        BY <2>4, <3>2, <3>3 DEF Launch, Unreserve
    <2>5. CASE Claim \/ StartFailed
      <3>1. UNCHANGED <<label, slot, ch>> /\ main'.at # "worktree"
        BY <1>2, <2>5 DEF Claim, StartFailed, Main, Dequeue, Top, trackerVars
      <3> QED
        BY <1>3, <3>1 DEF LabelEnds
    <2>6. CASE Install
      <3>1. /\ UNCHANGED label /\ main'.at # "worktree" /\ slot' = [slot EXCEPT ![main.issue] = Len(ch)]
            /\ ch' = [ch EXCEPT ![Len(ch)].at = "wait"] /\ Len(ch) \in DOMAIN ch
        BY <1>2, <2>6 DEF Install, Main, Dequeue, Top, trackerVars, IInv, MainInv
      <3>2. \A k \in DOMAIN ch' : k \in DOMAIN ch /\ (ch'[k] = ch[k] \/ ch'[k].at = "wait")
        BY <1>2, <3>1 DEF Child
      <3> QED
        BY <1>2, <1>3, <3>1, <3>2 DEF LabelEnds
    <2>7. ASSUME NEW k \in DOMAIN ch, Exits(k) \/ Hangs(k) \/ Reap(k) \/ Record(k)
          PROVE  /\ slot'[i] # None /\ ~(main'.issue = i /\ main'.at = "worktree")
                 /\ \A j \in DOMAIN ch' : slot'[i] = j => ch'[j].at # "delete"
      <3>1. UNCHANGED <<label, main, slot>>
        BY <2>7 DEF Exits, Hangs, Reap, Record, trackerVars, mainVars
      <3>2. DOMAIN ch' = DOMAIN ch /\ \A j \in DOMAIN ch : ch'[j].at = "delete" => ch[j].at = "delete"
        <4>1. CASE Exits(k)
          <5>1. PICK code : ch' = [ch EXCEPT ![k].proc = "exited", ![k].code = code]
            BY <4>1 DEF Exits
          <5> QED
            BY <1>2, <5>1 DEF Child
        <4>2. CASE Hangs(k)
          BY <1>2, <4>2 DEF Hangs, Child
        <4>3. CASE Reap(k)
          BY <1>2, <4>3 DEF Reap, Child
        <4>4. CASE Record(k)
          BY <1>2, <4>4 DEF Record, Child
        <4> QED
          BY <2>7, <4>1, <4>2, <4>3, <4>4
      <3> QED
        BY <1>3, <3>1, <3>2 DEF LabelEnds
    <2>8. ASSUME NEW k \in DOMAIN ch, CleanUp(k)
          PROVE  /\ slot'[i] # None /\ ~(main'.issue = i /\ main'.at = "worktree")
                 /\ \A j \in DOMAIN ch' : slot'[i] = j => ch'[j].at # "delete"
      <3>1. /\ UNCHANGED <<main, slot>> /\ label' = label \ {ch[k].issue} /\ k \in Nat \ {0}
            /\ DOMAIN ch' = DOMAIN ch /\ \A j \in DOMAIN ch : j # k => ch'[j] = ch[j]
        BY <1>2, <2>8 DEF CleanUp, mainVars
      <3>2. slot[i] # k
        BY <1>2, <1>3, <3>1
      <3> QED
        BY <1>3, <3>1, <3>2 DEF LabelEnds
    <2>9. ASSUME NEW k \in DOMAIN ch, Delete(k)
          PROVE  /\ slot'[i] # None /\ ~(main'.issue = i /\ main'.at = "worktree")
                 /\ \A j \in DOMAIN ch' : slot'[i] = j => ch'[j].at # "delete"
      <3>1. /\ UNCHANGED <<main, label>> /\ slot' = [slot EXCEPT ![ch[k].issue] = None] /\ ch[k].at = "delete"
            /\ DOMAIN ch' = DOMAIN ch /\ \A j \in DOMAIN ch : j # k => ch'[j] = ch[j]
            /\ slot[ch[k].issue] = k
        BY <1>2, <2>9 DEF Delete, Unreserve, mainVars, trackerVars, ChildOK
      <3>2. ch[k].issue # i
        BY <1>3, <3>1 DEF LabelEnds
      <3>3. slot'[i] = slot[i] /\ (slot[i] = k => ch[k].issue = i)
        BY <1>2, <1>3, <3>1, <3>2
      <3> QED
        BY <1>3, <3>1, <3>2, <3>3 DEF LabelEnds
    <2> QED
      BY <1>1, <2>1, <2>2, <2>3, <2>4, <2>5, <2>6, <2>7, <2>8, <2>9
         DEF Next, DiscStep, StartStep, LoopStep, WaiterStep
  <1>4. label' \subseteq Issue
    <2>1. IInv'
      BY StepInv
    <2> QED
      BY <2>1 DEF IInv, TypeOK
  <1> QED
    BY <1>1, <1>3, <1>4 DEF LabelEnds

\* If nobody moves the issues and the parent is not replaced: an issue that was
\* shipped is not started again though the tracker goes on listing it, the queue
\* holds none twice, and none that fails is tried more often than it may.
THEOREM Settled ==
  ASSUME MaxMoves = 0, "restart" \notin Env
  PROVE  Spec => [](ShippedOnce /\ QueuedOnce /\ FailuresCapped)
  <1>1. Init => SettleInv /\ Succession
    <2> SUFFICES ASSUME Init PROVE SettleInv /\ Succession
      OBVIOUS
    <2>1. disc = NoPoll /\ pending = <<>> /\ main = Top(FALSE) /\ ch = <<>> /\ released = {}
          /\ ~restarted /\ snap = None /\ moves = 0
          /\ \A i \in Issue : slot[i] = None /\ failures[i] = 0
      BY DEF Init, Nobody, Zeros
    <2>2. \A i \in Issue : ~InHand(i)
      BY <2>1, NoneType DEF InHand, NoPoll, Queued, Top
    <2>3. PollInv /\ QueuedOnce /\ Succession
      BY <2>1 DEF PollInv, QueuedOnce, NoPoll, Succession
    <2>4. \A i \in Issue : OncePlaced(i)
      BY <2>1, <2>2 DEF OncePlaced, InHand
    <2>5. \A i \in Issue : GivenUp(i)
      BY <2>1, TeamConstants DEF GivenUp
    <2> QED
      BY <2>1, <2>3, <2>4, <2>5 DEF SettleInv
  <1>2. IInv /\ SettleInv /\ Succession /\ [Next]_vars => SettleInv' /\ Succession'
    <2>1. SettleInv => ~restarted /\ snap = None
      BY DEF SettleInv
    <2> QED
      BY <2>1, SettleStep, SuccessionStep
  <1>3. IInv /\ SettleInv => ShippedOnce /\ QueuedOnce /\ FailuresCapped
    BY DEF SettleInv, ShipInv, GivenUp, ShippedOnce, FailuresCapped
  <1> QED
    BY Invariance, <1>1, <1>2, <1>3, PTL DEF Spec

\* If no mark or worktree fails to be removed and the parent is not replaced, no way
\* for a start or a run to end leaves the lock label behind.
THEOREM LabelsLeave ==
  ASSUME "restart" \notin Env, "cleanupError" \notin Env
  PROVE  Spec => []LabelReleased
  <1>1. Init => LabelEnds
    BY DEF Init, LabelEnds
  <1>2. IInv /\ LabelEnds /\ [Next]_vars => LabelEnds'
    BY LabelEndsStep
  <1>3. IInv /\ LabelEnds => LabelReleased
    BY DEF IInv, TypeOK, LabelEnds, LabelReleased, Occupied
  <1> QED
    BY Invariance, <1>1, <1>2, <1>3, PTL DEF Spec

\* Both together are what the run checks.
THEOREM Settle ==
  ASSUME MaxMoves = 0, "restart" \notin Env, "cleanupError" \notin Env
  PROVE  Spec => []IssuesSettle
  BY Settled, LabelsLeave, PTL DEF IssuesSettle
=============================================================================
