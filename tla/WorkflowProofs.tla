-------------------------- MODULE WorkflowProofs --------------------------
(* What holds of JiradozerWorkflow for all configurations and scenarios.   *)
EXTENDS JiradozerWorkflow, SequenceTheorems, FiniteSetTheorems, TLAPS

Steps == {Work[p] : p \in Phase} \union {Review[p] : p \in Phase} \union {"creating_pr", "done", "failed"}
Labels == [doing : SUBSET Phase, done : SUBSET Phase, skip : SUBSET Phase]
Workflows == [step : Steps, phases : [Phase -> {"new", "doing", "done"}], seen : Labels, feedback : Nat,
              since : Nat, bot : SUBSET Nat, redos : [Phase -> Nat], all : BOOLEAN, plan : Nat]
Histories == [begun : SUBSET Phase, accepted : SUBSET Phase, touched : SUBSET Phase, finished : Nat,
              result : Nat, plans : Nat, lost : SUBSET Nat, misread : BOOLEAN, calm : BOOLEAN,
              closing : BOOLEAN]
Lefts == [starts : Nat, crashes : Nat, faults : Nat, fails : Nat, comments : Nat,
          labels : Nat, empty : BOOLEAN, marks : SUBSET Phase, says : SUBSET {"approve", "approve all", "redo"}]
Sayings == {"bot", "approve", "approve all", "redo"}

WorkOps == {"agent", "post", "capture", "review"}
BoundaryOps == {"refresh", "skip", "enter"}
PastOps == {"complete", "completed"}
EndOps == {"tell", "sweep", "unmark"}
OpSet == [op : WorkOps \union BoundaryOps \union PastOps \union EndOps \union {"waiting"}, p : Nat]

\* What the variables hold, in full.
Typed ==
    /\ cfg \in Settings /\ issue \in [labels : Labels, comments : Seq(Sayings)]
    /\ planFile \in Nat /\ wf \in Workflows /\ todo \in Seq(OpSet) /\ run \in {"on", "off"}
    /\ hist \in Histories /\ left \in Lefts
    /\ wf.since <= Now(issue) /\ wf.bot \subseteq 1..Len(issue.comments)
    /\ wf.feedback <= Len(issue.comments) /\ hist.finished <= Len(issue.comments)
    /\ hist.lost \subseteq 1..Len(issue.comments)

-----------------------------------------------------------------------------
(* The calls still to make. *)

\* The calls in a list, by their names and all.
Ops(s) == {s[i] : i \in 1..Len(s)}
Names(s) == {o.op : o \in Ops(s)}

\* What may come after what, at any distance.
Allowed(a, b) ==
    /\ a.op = "post" /\ a.p = 1 => b.op \notin {"agent", "post"}
    /\ a.op = "skip" => b.op # "refresh"
    /\ a.op \in {"sweep", "unmark"} => b.op = "unmark"
    /\ a.op # "review" /\ a.op # "waiting"
Ordered(s) == \A i, j \in 1..Len(s) : i < j => Allowed(s[i], s[j])

\* The phase the workflow is at: 5 at the end.
Place(s) == IF s = "done" THEN 5 ELSE IF AtReview(s) THEN ReviewOf(s) ELSE PhaseOf(s)

Alive == run = "on" /\ wf.step # "failed"
Past(p) == Op("complete", p) \in Ops(todo) \/ Op("completed", p) \in Ops(todo)

\* The calls are those of a step's work, of the wait before a review, or of a
\* boundary, which are about phases that are past.
TodoInv ==
    /\ Ordered(todo)
    /\ run = "off" => todo = <<>> /\ wf = NewWorkflow(NewIssue)
    /\ wf.step = "failed" => todo = <<>>
    /\ Names(todo) \intersect WorkOps # {} => Names(todo) \subseteq WorkOps /\ PhaseOf(wf.step) # 0
    /\ "waiting" \in Names(todo) => Names(todo) = {"waiting"} /\ AtReview(wf.step) /\ ~AutoApproves(wf, wf.step)
    /\ AtReview(wf.step) => Names(todo) \subseteq {"waiting"}
    /\ Names(todo) \intersect EndOps # {} => wf.step = "done" /\ Names(todo) \subseteq PastOps \union EndOps
    /\ \A o \in Ops(todo) : o.op \in PastOps \union {"unmark"} => o.p \in Phase
    /\ \A p \in Phase : Past(p) => p < Place(wf.step)
    /\ Alive => \A p \in Phase : wf.phases[p] = "done" => p < Place(wf.step)
    /\ "refresh" \in Names(todo) => "skip" \in Names(todo)
    /\ "skip" \in Names(todo) => todo[Len(todo)].op \in {"skip", "enter"}

\* What is accepted, or touched by a person, holds up what comes after it; a phase
\* that the labels call done is passed over before it begins.
Settled == hist.accepted \union hist.touched
BasisInv ==
    /\ issue.labels.done \subseteq Settled /\ wf.seen.done \subseteq Settled
    /\ Alive => 1..(Place(wf.step) - 1) \subseteq Settled
    /\ Alive => \A p \in issue.labels.done : p >= Place(wf.step) => p \in wf.seen.done \union hist.touched
    /\ Alive /\ Place(wf.step) \in wf.seen.done \union Skipped => "skip" \in Names(todo)

\* plan.md is the last plan, and the workflow has it when it is past planning.
PlanInv ==
    /\ planFile = hist.plans /\ wf.plan \in {0, hist.plans}
    /\ run = "on" /\ wf.step \notin {"planning", "failed"} => wf.plan = hist.plans
    /\ wf.step = "planning" /\ "review" \in Names(todo) =>
            "capture" \in Names(todo) \/ wf.plan = hist.plans

\* What counts as feedback comes after the work, and is not by the workflow itself.
Reviewing == Alive /\ (AtReview(wf.step) \/ Names(todo) \intersect WorkOps # {})
FreshInv ==
    /\ Reviewing /\ wf.since # 0 =>
        /\ wf.since > hist.finished /\ Names(todo) \intersect {"agent", "post"} = {}
        /\ \A k \in 1..Len(issue.comments) :
              k >= wf.since /\ issue.comments[k] = "bot" => k \in wf.bot \union hist.lost
    /\ run = "on" /\ AtReview(wf.step) => wf.since # 0 \/ "waiting" \in Names(todo) \/ AutoApproves(wf, wf.step)
    /\ ~hist.misread

\* With nobody else's labels, a phase that is done has its label or is skipped.
Untouched == hist.touched = {}
DoneInv ==
    Untouched =>
        /\ issue.labels.skip = {} /\ wf.seen.skip = {} /\ wf.seen.done \subseteq issue.labels.done
        /\ \A p \in Phase : wf.phases[p] = "done" => p \in issue.labels.done \union cfg.skip
        /\ \A p \in Phase : Op("completed", p) \in Ops(todo) => p \in issue.labels.done
        /\ hist.begun \intersect cfg.skip = {}
        /\ todo # <<>> /\ todo[Len(todo)].op = "skip" =>
              PhaseOf(wf.step) \notin issue.labels.done \union cfg.skip

\* With no failed call, a phase that begins is in progress until it is done.
CalmInv ==
    hist.calm /\ Untouched =>
        /\ hist.begun \subseteq issue.labels.doing \union issue.labels.done
        /\ Alive /\ PhaseOf(wf.step) # 0 =>
              PhaseOf(wf.step) \in issue.labels.doing \union issue.labels.done \/ "enter" \in Names(todo)
        /\ Alive => \A p \in Phase : wf.phases[p] = "doing" => p \in issue.labels.doing \union issue.labels.done

\* After the last approval each phase is done or will be, and the sweep takes
\* care of what is left.
ClosingInv ==
    /\ hist.closing => run = "on" /\ wf.step = "done" /\ Names(todo) \subseteq PastOps \union EndOps
    /\ hist.closing => \A p \in Phase : wf.phases[p] = "done" \/ Past(p)
    /\ hist.closing /\ Untouched /\ "sweep" \notin Names(todo) =>
            \A p \in issue.labels.doing :
                wf.phases[p] = "done" /\ p \in wf.seen.doing /\ Op("unmark", p) \in Ops(todo)

IInv == Typed /\ TodoInv /\ BasisInv /\ PlanInv /\ FreshInv /\ DoneInv /\ CalmInv /\ ClosingInv
-----------------------------------------------------------------------------
(* The operators. *)

\* What is left of a list when its first call is made.
LEMMA Popped ==
  ASSUME NEW s \in Seq(OpSet), s # <<>>
  PROVE  /\ Tail(s) \in Seq(OpSet) /\ Head(s) \in OpSet /\ Head(s) \in Ops(s)
         /\ Ops(s) = {Head(s)} \union Ops(Tail(s))
         /\ Names(s) = {Head(s).op} \union Names(Tail(s))
         /\ Tail(s) # <<>> => Tail(s)[Len(Tail(s))] = s[Len(s)]
         /\ Tail(s) = <<>> => s[Len(s)] = Head(s)
         /\ Ordered(s) => Ordered(Tail(s)) /\ \A o \in Ops(Tail(s)) : Allowed(Head(s), o)
  <1>1. /\ Len(s) \in Nat \ {0} /\ Head(s) = s[1] /\ Tail(s) \in Seq(OpSet) /\ Len(Tail(s)) = Len(s) - 1
        /\ \A i \in 1..Len(s) : s[i] \in OpSet
    BY HeadTailProperties, EmptySeq, LenProperties, ElementOfSeq
  <1>2. \A i \in 1..Len(Tail(s)) : Tail(s)[i] = s[i + 1]
    BY HeadTailProperties
  <1>3. Ops(s) = {Head(s)} \union Ops(Tail(s))
    <2>1. ASSUME NEW i \in 1..Len(s) PROVE s[i] \in {Head(s)} \union Ops(Tail(s))
      <3>1. CASE i = 1
        BY <3>1, <1>1
      <3>2. CASE i # 1
        <4>1. i - 1 \in 1..Len(Tail(s)) /\ Tail(s)[i - 1] = s[i]
          BY <3>2, <1>1, <1>2
        <4> QED
          BY <4>1 DEF Ops
      <3> QED
        BY <3>1, <3>2
    <2>2. ASSUME NEW i \in 1..Len(Tail(s)) PROVE Tail(s)[i] \in Ops(s)
      <3>1. i + 1 \in 1..Len(s) /\ Tail(s)[i] = s[i + 1]
        BY <1>1, <1>2
      <3> QED
        BY <3>1 DEF Ops
    <2>3. s[1] \in Ops(s)
      BY <1>1 DEF Ops
    <2> QED
      BY <1>1, <2>1, <2>2, <2>3 DEF Ops
  <1>4. Names(s) = {Head(s).op} \union Names(Tail(s))
    BY <1>3 DEF Names
  <1>5. /\ Tail(s) # <<>> => Tail(s)[Len(Tail(s))] = s[Len(s)]
        /\ Tail(s) = <<>> => s[Len(s)] = Head(s)
    <2>1. Tail(s) # <<>> => Len(Tail(s)) \in 1..Len(Tail(s))
      BY <1>1, EmptySeq, LenProperties
    <2>2. Tail(s) = <<>> => Len(s) = 1
      BY <1>1, EmptySeq
    <2> QED
      BY <1>1, <1>2, <2>1, <2>2
  <1>6. ASSUME Ordered(s)
        PROVE  Ordered(Tail(s)) /\ \A o \in Ops(Tail(s)) : Allowed(Head(s), o)
    <2>1. ASSUME NEW i \in 1..Len(Tail(s)), NEW j \in 1..Len(Tail(s)), i < j
          PROVE  Allowed(Tail(s)[i], Tail(s)[j])
      <3>1. i + 1 \in 1..Len(s) /\ j + 1 \in 1..Len(s) /\ i + 1 < j + 1
        BY <1>1, <2>1
      <3> QED
        BY <3>1, <1>2, <1>6 DEF Ordered
    <2>2. ASSUME NEW i \in 1..Len(Tail(s))
          PROVE  Allowed(Head(s), Tail(s)[i])
      <3>1. i + 1 \in 1..Len(s) /\ 1 \in 1..Len(s) /\ 1 < i + 1
        BY <1>1
      <3> QED
        BY <3>1, <1>1, <1>2, <1>6 DEF Ordered
    <2> QED
      BY <2>1, <2>2 DEF Ordered, Ops
  <1> QED
    BY <1>1, <1>3, <1>4, <1>5, <1>6

\* Of one list after another.
LEMMA Joined ==
  ASSUME NEW s \in Seq(OpSet), NEW t \in Seq(OpSet)
  PROVE  /\ s \o t \in Seq(OpSet)
         /\ Ops(s \o t) = Ops(s) \union Ops(t)
         /\ Names(s \o t) = Names(s) \union Names(t)
         /\ t # <<>> => s \o t # <<>> /\ (s \o t)[Len(s \o t)] = t[Len(t)]
         /\ Ordered(s) /\ Ordered(t) /\ (\A a \in Ops(s), b \in Ops(t) : Allowed(a, b)) => Ordered(s \o t)
  <1>1. /\ Len(s) \in Nat /\ Len(t) \in Nat /\ s \o t \in Seq(OpSet) /\ Len(s \o t) = Len(s) + Len(t)
    BY ConcatProperties, LenProperties
  <1>2. /\ \A i \in 1..Len(s) : (s \o t)[i] = s[i]
        /\ \A i \in 1..Len(t) : (s \o t)[Len(s) + i] = t[i]
    <2>1. \A i \in 1..(Len(s) + Len(t)) : (s \o t)[i] = IF i <= Len(s) THEN s[i] ELSE t[i - Len(s)]
      BY ConcatProperties
    <2> QED
      BY <1>1, <2>1
  <1>3. Ops(s \o t) = Ops(s) \union Ops(t)
    <2>1. ASSUME NEW i \in 1..Len(s \o t) PROVE (s \o t)[i] \in Ops(s) \union Ops(t)
      <3>1. CASE i <= Len(s)
        BY <3>1, <1>1, <1>2 DEF Ops
      <3>2. CASE i > Len(s)
        <4>1. i - Len(s) \in 1..Len(t) /\ Len(s) + (i - Len(s)) = i
          BY <3>2, <1>1
        <4>2. (s \o t)[i] = t[i - Len(s)]
          BY <4>1, <1>2
        <4> QED
          BY <4>1, <4>2 DEF Ops
      <3> QED
        BY <1>1, <3>1, <3>2
    <2>2. ASSUME NEW i \in 1..Len(s) PROVE s[i] \in Ops(s \o t)
      <3>1. i \in 1..Len(s \o t)
        BY <1>1
      <3> QED
        BY <3>1, <1>2 DEF Ops
    <2>3. ASSUME NEW i \in 1..Len(t) PROVE t[i] \in Ops(s \o t)
      <3>1. Len(s) + i \in 1..Len(s \o t)
        BY <1>1
      <3> QED
        BY <3>1, <1>2 DEF Ops
    <2> QED
      BY <2>1, <2>2, <2>3 DEF Ops
  <1>4. Names(s \o t) = Names(s) \union Names(t)
    BY <1>3 DEF Names
  <1>5. ASSUME t # <<>> PROVE s \o t # <<>> /\ (s \o t)[Len(s \o t)] = t[Len(t)]
    <2>1. Len(t) \in 1..Len(t)
      BY <1>1, <1>5, EmptySeq
    <2> QED
      BY <2>1, <1>1, <1>2, EmptySeq
  <1>6. ASSUME Ordered(s), Ordered(t), \A a \in Ops(s), b \in Ops(t) : Allowed(a, b)
        PROVE  Ordered(s \o t)
    <2> SUFFICES ASSUME NEW i \in 1..Len(s \o t), NEW j \in 1..Len(s \o t), i < j
                 PROVE  Allowed((s \o t)[i], (s \o t)[j])
      BY DEF Ordered
    <2>1. CASE j <= Len(s)
      BY <2>1, <1>1, <1>2, <1>6 DEF Ordered
    <2>2. CASE i > Len(s)
      <3>1. /\ i - Len(s) \in 1..Len(t) /\ j - Len(s) \in 1..Len(t) /\ i - Len(s) < j - Len(s)
            /\ Len(s) + (i - Len(s)) = i /\ Len(s) + (j - Len(s)) = j
        BY <2>2, <1>1
      <3>2. (s \o t)[i] = t[i - Len(s)] /\ (s \o t)[j] = t[j - Len(s)]
        BY <3>1, <1>2
      <3> QED
        BY <3>1, <3>2, <1>6 DEF Ordered
    <2>3. CASE i <= Len(s) /\ j > Len(s)
      <3>1. i \in 1..Len(s) /\ j - Len(s) \in 1..Len(t) /\ Len(s) + (j - Len(s)) = j
        BY <2>3, <1>1
      <3>2. (s \o t)[i] = s[i] /\ (s \o t)[j] = t[j - Len(s)]
        BY <3>1, <1>2
      <3> QED
        BY <3>1, <3>2, <1>6 DEF Ops
    <2> QED
      BY <1>1, <2>1, <2>2, <2>3
  <1> QED
    BY <1>1, <1>3, <1>4, <1>5, <1>6

\* Of a list of calls of one kind, one per phase.
LEMMA PerPhase ==
  ASSUME NEW n \in 0..4, NEW name \in PastOps \union {"unmark"}
  PROVE  /\ [p \in 1..n |-> Op(name, p)] \in Seq(OpSet)
         /\ Ops([p \in 1..n |-> Op(name, p)]) = {Op(name, p) : p \in 1..n}
         /\ Ordered([p \in 1..n |-> Op(name, p)])
  <1> DEFINE s == [p \in 1..n |-> Op(name, p)]
  <1>1. \A p \in 1..n : s[p] = Op(name, p) /\ s[p] \in OpSet
    BY DEF Op, OpSet, PastOps, EndOps
  <1>2. s \in Seq(OpSet) /\ Len(s) = n
    BY <1>1
  <1>3. Ops(s) = {Op(name, p) : p \in 1..n}
    BY <1>1, <1>2 DEF Ops
  <1>4. Ordered(s)
    BY <1>1, <1>2 DEF Ordered, Allowed, Op, PastOps
  <1> QED
    BY <1>2, <1>3, <1>4

\* Of one call.
LEMMA One ==
  ASSUME NEW o \in OpSet
  PROVE  /\ <<o>> \in Seq(OpSet) /\ Ops(<<o>>) = {o} /\ Names(<<o>>) = {o.op} /\ Ordered(<<o>>)
         /\ <<o>> # <<>> /\ <<o>>[Len(<<o>>)] = o
  BY DEF Ops, Names, Ordered

\* Of the calls that take a phase up.
LEMMA TakeUp ==
  LET s == <<Op("refresh", 0), Op("skip", 0), Op("enter", 0)>>
      t == <<Op("enter", 0), Op("refresh", 0), Op("skip", 0)>> IN
  /\ s \in Seq(OpSet) /\ t \in Seq(OpSet) /\ Names(s) = BoundaryOps /\ Names(t) = BoundaryOps
  /\ s # <<>> /\ t # <<>> /\ s[Len(s)].op = "enter" /\ t[Len(t)].op = "skip"
  /\ Ordered(s) /\ Ordered(t)
  <1> DEFINE a == Op("refresh", 0)  b == Op("skip", 0)  c == Op("enter", 0)
  <1>1. a \in OpSet /\ b \in OpSet /\ c \in OpSet /\ a.op = "refresh" /\ b.op = "skip" /\ c.op = "enter"
    BY DEF Op, OpSet, BoundaryOps
  <1>2. Ops(<<a, b, c>>) = {a, b, c} /\ Ops(<<c, a, b>>) = {a, b, c}
    <2> HIDE DEF a, b, c
    <2>1. Len(<<a, b, c>>) = 3 /\ Len(<<c, a, b>>) = 3 /\ 1..3 = {1, 2, 3}
      OBVIOUS
    <2> QED
      BY <2>1 DEF Ops
  <1>3. Ordered(<<a, b, c>>) /\ Ordered(<<c, a, b>>)
    <2>1. /\ Allowed(a, b) /\ Allowed(a, c) /\ Allowed(b, c) /\ Allowed(c, a) /\ Allowed(c, b)
      BY <1>1 DEF Allowed
    <2> HIDE DEF a, b, c
    <2> QED
      BY <2>1 DEF Ordered
  <1>4. Names(<<a, b, c>>) = BoundaryOps /\ Names(<<c, a, b>>) = BoundaryOps
    <2> HIDE DEF a, b, c
    <2> QED
      BY <1>1, <1>2 DEF Names, BoundaryOps
  <1>5. <<a, b, c>> \in Seq(OpSet) /\ <<c, a, b>> \in Seq(OpSet)
    <2> HIDE DEF a, b, c
    <2> QED
      BY <1>1
  <1> QED
    BY <1>1, <1>3, <1>4, <1>5

\* Where a step is.
LEMMA Places ==
  /\ \A p \in Phase : /\ PhaseOf(Work[p]) = p /\ Place(Work[p]) = p /\ Work[p] \in Steps /\ Work[p] # "done"
                      /\ ReviewOf(Review[p]) = p /\ Place(Review[p]) = p /\ Review[p] \in Steps
                      /\ PhaseOf(Review[p]) = 0 /\ AtReview(Review[p]) /\ ~AtReview(Work[p])
                      /\ Work[p] \notin {"failed", "creating_pr"}
                      /\ Review[p] \notin {"failed", "creating_pr", "done"}
  /\ PhaseOf("creating_pr") = 2 /\ Place("creating_pr") = 2 /\ ~AtReview("creating_pr")
  /\ PhaseOf("done") = 0 /\ Place("done") = 5 /\ ~AtReview("done") /\ "done" \in Steps
  /\ PhaseOf("failed") = 0 /\ Place("failed") = 0 /\ ~AtReview("failed") /\ "failed" \in Steps
  /\ \A p \in Phase : Approved(p) \in Steps /\ Place(Approved(p)) = p + 1 /\ ~AtReview(Approved(p))
  /\ \A p \in Phase : Approved(p) # "failed" /\ (Approved(p) = "done" <=> p = 4) /\ Approved(p) # "planning"
  /\ \A p \in 1..3 : Approved(p) = Work[p + 1]
  /\ Approved(4) = "done" /\ Work[1] = "planning" /\ Work[2] = "building" /\ "creating_pr" \in Steps
  <1>1. \A p \in Phase : p = 1 \/ p = 2 \/ p = 3 \/ p = 4
    BY DEF Phase
  <1>2. /\ Work[1] = "planning" /\ Work[2] = "building" /\ Work[3] = "validating" /\ Work[4] = "shipping"
        /\ Review[1] = "plan_review" /\ Review[2] = "build_review" /\ Review[3] = "validate_review"
        /\ Review[4] = "ship_review"
    BY DEF Work, Review
  <1>3. \A p, q \in Phase : /\ Work[p] # Review[q] /\ (Work[p] = Work[q] => p = q)
                            /\ (Review[p] = Review[q] => p = q)
    BY <1>1, <1>2
  <1>4. \A p \in Phase : /\ Work[p] \notin {"done", "failed", "creating_pr"}
                         /\ Review[p] \notin {"done", "failed", "creating_pr"}
    BY <1>1, <1>2
  <1>5. ASSUME NEW p \in Phase
        PROVE  PhaseOf(Work[p]) = p /\ ReviewOf(Review[p]) = p /\ PhaseOf(Review[p]) = 0
               /\ AtReview(Review[p]) /\ ~AtReview(Work[p])
    <2>1. (CHOOSE q \in Phase : Work[p] = Work[q]) = p /\ (CHOOSE q \in Phase : Review[p] = Review[q]) = p
      BY <1>3
    <2> QED
      BY <2>1, <1>3, <1>4 DEF PhaseOf, ReviewOf, AtReview
  <1>6. /\ PhaseOf("creating_pr") = 2 /\ PhaseOf("done") = 0 /\ PhaseOf("failed") = 0
        /\ ~AtReview("creating_pr") /\ ~AtReview("done") /\ ~AtReview("failed")
    BY <1>4 DEF PhaseOf, AtReview
  <1>7. \A p \in Phase : Place(Work[p]) = p /\ Place(Review[p]) = p
    BY <1>4, <1>5 DEF Place
  <1>8. /\ Approved(4) = "done" /\ \A p \in 1..3 : Approved(p) = Work[p + 1] /\ p + 1 \in Phase /\ p \in Phase
    BY DEF Approved, Phase
  <1>9. \A p \in Phase : p \in 1..3 \/ p = 4
    BY DEF Phase
  <1>10. ASSUME NEW p \in Phase
         PROVE /\ Approved(p) \in Steps /\ Place(Approved(p)) = p + 1 /\ ~AtReview(Approved(p))
               /\ Approved(p) # "failed" /\ (Approved(p) = "done" <=> p = 4) /\ Approved(p) # "planning"
    <2>1. CASE p = 4
      BY <2>1, <1>6, <1>8 DEF Place, Steps
    <2>2. CASE p \in 1..3
      <3>1. Approved(p) = Work[p + 1] /\ p + 1 \in Phase /\ p + 1 # 1 /\ p # 4 /\ 1 \in Phase
        BY <2>2, <1>8 DEF Phase
      <3> QED
        BY <3>1, <1>2, <1>3, <1>4, <1>5, <1>7 DEF Steps
    <2> QED
      BY <1>9, <2>1, <2>2
  <1> QED
    BY <1>2, <1>4, <1>5, <1>6, <1>7, <1>8, <1>10 DEF Steps, Place

\* A step is of one kind.
LEMMA StepKinds ==
  ASSUME NEW s \in Steps
  PROVE  /\ PhaseOf(s) \in 0..4 /\ Place(s) \in 0..5
         /\ PhaseOf(s) # 0 => Place(s) = PhaseOf(s) /\ ~AtReview(s) /\ s # "done" /\ s # "failed" /\ PhaseOf(s) \in Phase
         /\ PhaseOf(s) = 0 => AtReview(s) \/ s = "done" \/ s = "failed"
         /\ AtReview(s) => Place(s) = ReviewOf(s) /\ ReviewOf(s) \in Phase /\ s = Review[ReviewOf(s)]
         /\ s = "planning" <=> PhaseOf(s) = 1
         /\ PhaseOf(s) # 0 => \/ s = "building" /\ StepAfter(s) = "creating_pr"
                              \/ s # "building" /\ StepAfter(s) = Review[PhaseOf(s)]
         /\ s = "building" => PhaseOf(s) = 2
  <1>1. \/ \E p \in Phase : s = Work[p]
        \/ \E p \in Phase : s = Review[p]
        \/ s = "creating_pr" \/ s = "done" \/ s = "failed"
    BY DEF Steps
  <1>2. Phase = 1..4 /\ 1 \in Phase /\ 2 \in Phase /\ Work[1] = "planning" /\ Work[2] = "building"
    BY DEF Phase, Work
  <1>3. CASE \E p \in Phase : s = Work[p]
    <2>1. PICK p \in Phase : s = Work[p]
      BY <1>3
    <2>2. s # "creating_pr" /\ s # "done" /\ s # "failed" /\ PhaseOf(s) = p /\ Place(s) = p /\ ~AtReview(s)
      BY <2>1, Places
    <2>3. (s = "planning" <=> p = 1) /\ (s = "building" <=> p = 2)
      BY <2>1, <2>2, <1>2, Places
    <2> QED
      BY <2>1, <2>2, <2>3, <1>2, Places DEF StepAfter
  <1>4. CASE \E p \in Phase : s = Review[p]
    <2>1. PICK p \in Phase : s = Review[p]
      BY <1>4
    <2>2. s # "planning" /\ s # "building"
      BY <2>1, <1>2, Places
    <2> QED
      BY <2>1, <2>2, <1>2, Places
  <1>5. CASE s = "creating_pr"
    BY <1>5, <1>2, Places DEF StepAfter
  <1>6. CASE s = "done" \/ s = "failed"
    BY <1>6, <1>2, Places
  <1> QED
    BY <1>1, <1>3, <1>4, <1>5, <1>6

\* The calls of a boundary.
LEMMA BoundaryCalls ==
  ASSUME NEW p \in Phase
  PROVE  /\ Boundary(Approved(p)) \in Seq(OpSet) /\ Ordered(Boundary(Approved(p)))
         /\ Boundary(Approved(p)) # <<>>
         /\ p # 4 => /\ Names(Boundary(Approved(p))) \subseteq {"complete"} \union BoundaryOps
                     /\ BoundaryOps \subseteq Names(Boundary(Approved(p)))
                     /\ Boundary(Approved(p))[Len(Boundary(Approved(p)))].op = "enter"
         /\ p = 4 => /\ Names(Boundary("done")) \subseteq {"complete", "sweep"}
                     /\ "sweep" \in Names(Boundary("done"))
                     /\ \A q \in Phase : Op("complete", q) \in Ops(Boundary("done"))
         /\ \A o \in Ops(Boundary(Approved(p))) : o.op = "complete" => o.p \in 1..p
  <1> DEFINE s == [q \in 1..p |-> Op("complete", q)]
             up == <<Op("refresh", 0), Op("skip", 0), Op("enter", 0)>>
             sw == <<Op("sweep", 0)>>
  <1>1. p \in 0..4 /\ "complete" \in PastOps /\ p \in Nat
    BY DEF Phase, PastOps
  <1>2. s \in Seq(OpSet) /\ Ops(s) = {Op("complete", q) : q \in 1..p} /\ Ordered(s)
    BY <1>1, PerPhase
  <1>3. \A q \in 1..p : Op("complete", q).op = "complete" /\ Op("complete", q).p = q
    BY DEF Op
  <1>5. \A o \in Ops(s) : o.op = "complete" /\ o.p \in 1..p
    BY <1>2, <1>3
  <1>4. Names(s) \subseteq {"complete"}
    BY <1>5 DEF Names
  <1>6. /\ up \in Seq(OpSet) /\ Names(up) = BoundaryOps /\ up # <<>> /\ up[Len(up)].op = "enter" /\ Ordered(up)
        /\ \A o \in Ops(up) : o.op \in BoundaryOps
    BY TakeUp DEF Names
  <1>7. Op("sweep", 0) \in OpSet /\ Op("sweep", 0).op = "sweep"
    BY DEF Op, OpSet, EndOps
  <1>8. sw \in Seq(OpSet) /\ Ops(sw) = {Op("sweep", 0)} /\ Names(sw) = {"sweep"} /\ Ordered(sw) /\ sw # <<>>
    BY <1>7, One
  <1>9. \A a \in Ops(s), b \in Ops(up) \union Ops(sw) : Allowed(a, b)
    BY <1>5 DEF Allowed
  <1>10. CASE p # 4
    <2>1. Boundary(Approved(p)) = s \o up
      <3>1. p \in 1..3 /\ p + 1 \in Phase
        BY <1>10 DEF Phase
      <3>2. Approved(p) = Work[p + 1] /\ PhaseOf(Work[p + 1]) = p + 1 /\ Work[p + 1] # "done"
        BY <3>1, Places
      <3> QED
        BY <3>1, <3>2 DEF Boundary, Completes
    <2> HIDE DEF s, up
    <2>2. /\ s \o up \in Seq(OpSet) /\ Ops(s \o up) = Ops(s) \union Ops(up) /\ Ordered(s \o up)
          /\ Names(s \o up) = Names(s) \union Names(up) /\ s \o up # <<>>
          /\ (s \o up)[Len(s \o up)] = up[Len(up)]
      BY <1>2, <1>6, <1>9, Joined
    <2>3. \A o \in Ops(up) : o.op # "complete"
      BY <1>6 DEF BoundaryOps
    <2> QED
      BY <2>1, <2>2, <2>3, <1>4, <1>5, <1>6, <1>10
  <1>11. CASE p = 4
    <2>1. Boundary(Approved(p)) = s \o sw /\ Approved(p) = "done"
      BY <1>11, Places DEF Boundary, Completes
    <2>2. \A q \in Phase : Op("complete", q) \in Ops(s)
      BY <1>2, <1>11 DEF Phase
    <2> HIDE DEF s, sw
    <2>3. /\ s \o sw \in Seq(OpSet) /\ Ops(s \o sw) = Ops(s) \union Ops(sw) /\ Ordered(s \o sw)
          /\ Names(s \o sw) = Names(s) \union Names(sw) /\ s \o sw # <<>>
      BY <1>2, <1>8, <1>9, Joined
    <2> QED
      BY <2>1, <2>2, <2>3, <1>4, <1>5, <1>7, <1>8, <1>11
  <1> QED
    BY <1>10, <1>11

\* The calls of a step's work.
LEMMA WorkCalls ==
  ASSUME NEW s
  PROVE  /\ Makes(s) \in Seq(OpSet) /\ Ordered(Makes(s)) /\ Makes(s) # <<>>
         /\ Names(Makes(s)) \subseteq WorkOps /\ "capture" \in Names(Makes(s))
  <1> DEFINE a == Op("agent", 1)  b == Op("post", 0)  c == Op("agent", 2)
             d == Op("post", 1)  e == Op("capture", 0)  f == Op("review", 0)
  <1>1. /\ {a, b, c, d, e, f} \subseteq OpSet
        /\ a.op = "agent" /\ c.op = "agent" /\ b.op = "post" /\ b.p = 0 /\ d.op = "post" /\ d.p = 1
        /\ e.op = "capture" /\ f.op = "review"
    BY DEF Op, OpSet, WorkOps
  <1>2. Makes(s) = <<a, b, c, d, e, f>> \/ Makes(s) = <<a, e, d, f>>
    BY DEF Makes
  <1> HIDE DEF a, b, c, d, e, f
  <1>3. CASE Makes(s) = <<a, b, c, d, e, f>>
    <2>1. Makes(s) \in Seq(OpSet) /\ Makes(s) # <<>> /\ Len(Makes(s)) = 6
      BY <1>1, <1>3
    <2>2. Ops(Makes(s)) = {a, b, c, d, e, f}
      <3>1. 1..6 = {1, 2, 3, 4, 5, 6}
        OBVIOUS
      <3> QED
        BY <2>1, <3>1, <1>3 DEF Ops
    <2>3. Ordered(Makes(s))
      <3>1. /\ \A x \in {a, b, c, e} : \A y \in {a, b, c, d, e, f} : Allowed(x, y)
            /\ Allowed(d, e) /\ Allowed(d, f)
        BY <1>1 DEF Allowed
      <3>2. \A i, j \in 1..6 : i < j => \/ i \in {1, 2, 3} \/ (i = 5 /\ j = 6)
                                        \/ (i = 4 /\ j = 5) \/ (i = 4 /\ j = 6)
        OBVIOUS
      <3>3. \A i \in 1..6 : <<a, b, c, d, e, f>>[i] \in {a, b, c, d, e, f}
        OBVIOUS
      <3>4. \A i, j \in 1..6 : i < j => Allowed(Makes(s)[i], Makes(s)[j])
        BY <3>1, <3>2, <3>3, <1>3
      <3> QED
        BY <3>4, <2>1 DEF Ordered
    <2> QED
      BY <2>1, <2>2, <2>3, <1>1 DEF Names, WorkOps
  <1>4. CASE Makes(s) = <<a, e, d, f>>
    <2>1. Makes(s) \in Seq(OpSet) /\ Makes(s) # <<>> /\ Len(Makes(s)) = 4
      BY <1>1, <1>4
    <2>2. Ops(Makes(s)) = {a, d, e, f}
      <3>1. 1..4 = {1, 2, 3, 4}
        OBVIOUS
      <3> QED
        BY <2>1, <3>1, <1>4 DEF Ops
    <2>3. Ordered(Makes(s))
      <3>1. Allowed(a, e) /\ Allowed(a, d) /\ Allowed(a, f) /\ Allowed(e, d) /\ Allowed(e, f) /\ Allowed(d, f)
        BY <1>1 DEF Allowed
      <3> QED
        BY <3>1, <2>1, <1>4 DEF Ordered
    <2> QED
      BY <2>1, <2>2, <2>3, <1>1 DEF Names, WorkOps
  <1> QED
    BY <1>2, <1>3, <1>4

\* The calls of the end, the comment of a build without changes among them.
LEMMA EndCalls ==
  /\ <<Op("tell", 0)>> \o Boundary("done") \in Seq(OpSet) /\ Ordered(<<Op("tell", 0)>> \o Boundary("done"))
  /\ <<Op("tell", 0)>> \o Boundary("done") # <<>>
  /\ Names(<<Op("tell", 0)>> \o Boundary("done")) \subseteq {"tell", "complete", "sweep"}
  /\ "sweep" \in Names(<<Op("tell", 0)>> \o Boundary("done"))
  /\ \A q \in Phase : Op("complete", q) \in Ops(<<Op("tell", 0)>> \o Boundary("done"))
  /\ \A o \in Ops(<<Op("tell", 0)>> \o Boundary("done")) : o.op = "complete" => o.p \in Phase
  <1>1. 4 \in Phase /\ Approved(4) = "done" /\ Phase = 1..4
    BY Places DEF Phase
  <1>2. /\ Op("tell", 0) \in OpSet /\ Op("tell", 0).op = "tell"
        /\ \A b \in Ops(Boundary("done")) : Allowed(Op("tell", 0), b)
    BY DEF Op, OpSet, EndOps, Allowed
  <1> DEFINE t == <<Op("tell", 0)>>  b == Boundary("done")
  <1>3. t \in Seq(OpSet) /\ Ops(t) = {Op("tell", 0)} /\ Names(t) = {"tell"} /\ Ordered(t)
    BY <1>2, One
  <1>4. /\ b \in Seq(OpSet) /\ Ordered(b) /\ b # <<>> /\ Names(b) \subseteq {"complete", "sweep"}
        /\ "sweep" \in Names(b) /\ \A q \in Phase : Op("complete", q) \in Ops(b)
        /\ \A o \in Ops(b) : o.op = "complete" => o.p \in Phase
    BY <1>1, BoundaryCalls
  <1> HIDE DEF t, b
  <1>5. /\ t \o b \in Seq(OpSet) /\ Ops(t \o b) = Ops(t) \union Ops(b) /\ Names(t \o b) = Names(t) \union Names(b)
        /\ t \o b # <<>> /\ Ordered(t \o b)
    BY <1>2, <1>3, <1>4, Joined DEF b
  <1> QED
    BY <1>2, <1>3, <1>4, <1>5 DEF t, b

\* The calls of the sweep.
LEMMA SweepCalls ==
  /\ Sweeps \in Seq(OpSet) /\ Ordered(Sweeps) /\ Ops(Sweeps) = {Op("unmark", p) : p \in Phase}
  /\ \A o \in Ops(Sweeps) : o.op = "unmark" /\ o.p \in Phase
  <1>1. "unmark" \in PastOps \union {"unmark"} /\ 4 \in 0..4 /\ Sweeps = [p \in 1..4 |-> Op("unmark", p)]
    BY DEF Sweeps, Phase
  <1>2. Sweeps \in Seq(OpSet) /\ Ordered(Sweeps) /\ Ops(Sweeps) = {Op("unmark", p) : p \in Phase}
    BY <1>1, PerPhase DEF Phase
  <1> QED
    BY <1>2 DEF Op

-----------------------------------------------------------------------------
(* Types. *)

Issues == [labels : Labels, comments : Seq(Sayings)]

\* A fault that happens leaves the scenario one less.
LEMMA FaultType ==
  ASSUME Typed, NEW r, Fault(r)
  PROVE  left' \in Lefts
  <1>1. CASE r = "ok"
    BY <1>1 DEF Typed, Fault
  <1>2. CASE r # "ok"
    <2>1. left.faults > 0 /\ left' = [left EXCEPT !.faults = left.faults - 1] /\ left \in Lefts
      BY <1>2 DEF Typed, Fault
    <2>0. left.faults \in Nat
      BY DEF Typed, Lefts
    <2>2. left.faults - 1 \in Nat
      BY <2>0, <2>1
    <2>3. ASSUME NEW n \in Nat PROVE [left EXCEPT !.faults = n] \in Lefts
      BY <2>1 DEF Lefts
    <2> QED
      BY <2>1, <2>2, <2>3
  <1> QED
    BY <1>1, <1>2

\* Notes of a reply keep the rest of the history.
LEMMA MarkedFields ==
  ASSUME NEW h \in Histories, NEW r
  PROVE  /\ Marked(h, r) \in Histories
         /\ Marked(h, r) = [h EXCEPT !.calm = h.calm /\ r = "ok", !.closing = h.closing /\ r = "ok"]
         /\ Marked(h, r).begun = h.begun /\ Marked(h, r).accepted = h.accepted
         /\ Marked(h, r).touched = h.touched /\ Marked(h, r).finished = h.finished
         /\ Marked(h, r).result = h.result /\ Marked(h, r).plans = h.plans /\ Marked(h, r).lost = h.lost
         /\ Marked(h, r).misread = h.misread
         /\ (Marked(h, r).calm <=> h.calm /\ r = "ok") /\ (Marked(h, r).closing <=> h.closing /\ r = "ok")
  BY DEF Histories, Marked

LEMMA MarkedNow ==
  ASSUME hist \in Histories, NEW r, hist' = Marked(hist, r)
  PROVE  /\ hist' \in Histories
         /\ hist'.begun = hist.begun /\ hist'.accepted = hist.accepted /\ hist'.touched = hist.touched
         /\ hist'.finished = hist.finished /\ hist'.result = hist.result /\ hist'.plans = hist.plans
         /\ hist'.lost = hist.lost /\ hist'.misread = hist.misread
         /\ (hist'.calm => hist.calm /\ r = "ok") /\ (hist'.closing => hist.closing /\ r = "ok")
  <1> DEFINE m == Marked(hist, r)
  <1>1. /\ m \in Histories /\ m.begun = hist.begun /\ m.accepted = hist.accepted
        /\ m.touched = hist.touched /\ m.finished = hist.finished
        /\ m.result = hist.result /\ m.plans = hist.plans /\ m.lost = hist.lost
        /\ m.misread = hist.misread
    BY MarkedFields
  <1>2. m.calm => hist.calm /\ r = "ok"
    BY DEF Marked, Histories
  <1>3. m.closing => hist.closing /\ r = "ok"
    BY DEF Marked, Histories
  <1> QED
    BY <1>1, <1>2, <1>3

\* Editing a label changes one set of one kind.
LEMMA LabelFields ==
  ASSUME issue \in Issues, NEW p \in Phase, NEW kind \in {"doing", "done", "skip"}
  PROVE  /\ Labelled(kind, p) \in Issues /\ Unlabelled(kind, p) \in Issues
         /\ Labelled(kind, p).comments = issue.comments /\ Unlabelled(kind, p).comments = issue.comments
         /\ Labelled(kind, p).labels[kind] = issue.labels[kind] \union {p}
         /\ Unlabelled(kind, p).labels[kind] = issue.labels[kind] \ {p}
         /\ \A k \in {"doing", "done", "skip"} : k # kind =>
              Labelled(kind, p).labels[k] = issue.labels[k] /\ Unlabelled(kind, p).labels[k] = issue.labels[k]
  BY DEF Issues, Labels, Labelled, Unlabelled

\* A comment is added at the end.
LEMMA SaidFields ==
  ASSUME NEW i \in Issues, NEW c \in Sayings
  PROVE  /\ Said(i, c) \in Issues /\ Said(i, c).labels = i.labels
         /\ Len(i.comments) \in Nat /\ Len(Said(i, c).comments) = Len(i.comments) + 1
         /\ Said(i, c).comments[Len(i.comments) + 1] = c
         /\ \A k \in 1..Len(i.comments) : Said(i, c).comments[k] = i.comments[k]
  <1>1. Said(i, c) = [i EXCEPT !.comments = Append(i.comments, c)] /\ i.comments \in Seq(Sayings)
    BY DEF Said, Issues
  <1>2. Said(i, c).comments = Append(i.comments, c) /\ Said(i, c).labels = i.labels
    BY <1>1 DEF Issues
  <1>3. /\ Append(i.comments, c) \in Seq(Sayings) /\ Len(Append(i.comments, c)) = Len(i.comments) + 1
        /\ Len(i.comments) \in Nat /\ Append(i.comments, c)[Len(i.comments) + 1] = c
        /\ \A k \in 1..Len(i.comments) : Append(i.comments, c)[k] = i.comments[k]
    BY <1>1, AppendProperties, LenProperties
  <1>4. Said(i, c) \in Issues
    BY <1>1, <1>2, <1>3 DEF Issues
  <1> QED
    BY <1>2, <1>3, <1>4

\* What a new workflow remembers.
LEMMA NewFields ==
  ASSUME NEW i \in Issues
  PROVE  /\ NewWorkflow(i) \in Workflows /\ NewWorkflow(i).step = "planning" /\ NewWorkflow(i).since = 0
         /\ NewWorkflow(i).bot = {} /\ NewWorkflow(i).feedback = 0 /\ NewWorkflow(i).seen = i.labels
         /\ NewWorkflow(i).plan = 0 /\ \A p \in Phase : NewWorkflow(i).phases[p] = "new"
  <1>1. "planning" \in Steps
    BY DEF Steps, Work, Phase
  <1>2. i.labels \in Labels /\ [p \in Phase |-> "new"] \in [Phase -> {"new", "doing", "done"}]
        /\ [p \in Phase |-> 0] \in [Phase -> Nat]
    BY DEF Issues
  <1> QED
    BY <1>1, <1>2 DEF NewWorkflow, Workflows

LEMMA NewIssueType == NewIssue \in Issues /\ NewIssue.labels = [doing |-> {}, done |-> {}, skip |-> {}]
  BY DEF NewIssue, Issues, Labels

\* The comments, apart from their count, and all that is compared with it.
Bounded ==
    /\ wf.since <= Now(issue) /\ wf.bot \subseteq 1..Len(issue.comments)
    /\ wf.feedback <= Len(issue.comments) /\ hist.finished <= Len(issue.comments)
    /\ hist.lost \subseteq 1..Len(issue.comments)

\* More comments bound no less.
LEMMA StillBounded ==
  ASSUME Typed, Len(issue'.comments) \in Nat, Len(issue'.comments) >= Len(issue.comments),
         wf'.since = wf.since, wf'.bot = wf.bot, wf'.feedback = wf.feedback \/ wf'.feedback = 0,
         hist'.finished = hist.finished \/ hist'.finished = 0, hist'.lost = hist.lost
  PROVE  Bounded'
  <1>1. Len(issue.comments) \in Nat /\ wf.since \in Nat /\ wf.feedback \in Nat /\ hist.finished \in Nat
    BY DEF Typed, Workflows, Histories
  <1> QED
    BY <1>1 DEF Typed, Bounded, Now

-----------------------------------------------------------------------------
(* What a step that leaves a part's variables alone keeps. *)

\* A call about to be made.
LEMMA Pop ==
  ASSUME Typed, TodoInv, todo # <<>>
  PROVE  /\ run = "on" /\ Alive /\ wf.step # "failed" /\ Rest \in Seq(OpSet)
         /\ Head(todo) \in OpSet /\ Head(todo) \in Ops(todo) /\ Head(todo) = Op(Head(todo).op, Head(todo).p)
         /\ Ops(todo) = {Head(todo)} \union Ops(Rest) /\ Names(todo) = {Head(todo).op} \union Names(Rest)
         /\ \A o \in Ops(Rest) : Allowed(Head(todo), o)
         /\ Rest # <<>> => Rest[Len(Rest)] = todo[Len(todo)]
         /\ Ordered(Rest)
         /\ \A o \in Ops(todo) : o.op \in Names(todo)
  <1>1. todo \in Seq(OpSet) /\ run \in {"on", "off"}
    BY DEF Typed
  <1>2. run = "on" /\ wf.step # "failed" /\ Ordered(todo)
    BY <1>1 DEF TodoInv
  <1>3. Head(todo) = Op(Head(todo).op, Head(todo).p)
    BY <1>1, Popped DEF OpSet, Op
  <1>4. \A o \in Ops(todo) : o.op \in Names(todo)
    BY DEF Names
  <1> QED
    BY <1>1, <1>2, <1>3, <1>4, Popped DEF Rest, Alive

LEMMA NoCalls == Ops(<<>>) = {} /\ Names(<<>>) = {} /\ Ordered(<<>>) /\ <<>> \in Seq(OpSet)
  BY DEF Ops, Names, Ordered

\* The last call is one of them.
LEMMA LastCall ==
  ASSUME NEW s \in Seq(OpSet), s # <<>>
  PROVE  s[Len(s)] \in Ops(s) /\ s[Len(s)].op \in Names(s)
  <1>1. Len(s) \in 1..Len(s)
    BY EmptySeq, LenProperties
  <1> QED
    BY <1>1 DEF Ops, Names

\* A call is made.
LEMMA TodoPops ==
  ASSUME Typed, TodoInv, todo # <<>>, todo' = Rest, run' = run, cfg' = cfg,
         wf'.step = wf.step, wf'.all = wf.all,
         \A p \in Phase : wf'.phases[p] = "done" => wf.phases[p] = "done" \/ p < Place(wf.step)
  PROVE  TodoInv'
  <1>1. /\ Names(todo') \subseteq Names(todo) /\ Ops(todo') \subseteq Ops(todo) /\ Ordered(todo')
        /\ run' = "on" /\ wf'.step # "failed" /\ Alive
    BY Pop
  <1>2. AutoApproves(wf, wf.step)' <=> AutoApproves(wf, wf.step)
    BY DEF AutoApproves
  <1>3. "waiting" \in Names(todo') => Names(todo') = {"waiting"}
    BY <1>1 DEF TodoInv
  <1>4. "refresh" \in Names(todo') => "skip" \in Names(todo')
    <2> SUFFICES ASSUME "refresh" \in Names(Rest) PROVE "skip" \in Names(Rest)
      OBVIOUS
    <2>1. "skip" \in {Head(todo).op} \union Names(Rest)
      BY <1>1, Pop DEF TodoInv
    <2>2. PICK o \in Ops(Rest) : o.op = "refresh"
      BY DEF Names
    <2>3. Allowed(Head(todo), o)
      BY Pop
    <2> QED
      BY <2>1, <2>2, <2>3 DEF Allowed
  <1>5. "skip" \in Names(todo') => todo'[Len(todo')].op \in {"skip", "enter"}
    <2> SUFFICES ASSUME "skip" \in Names(Rest) PROVE Rest[Len(Rest)].op \in {"skip", "enter"}
      OBVIOUS
    <2>1. Rest # <<>> /\ "skip" \in Names(todo)
      BY <1>1, NoCalls
    <2> QED
      BY <2>1, Pop DEF TodoInv
  <1>6. \A p \in Phase : Past(p)' => Past(p)
    BY <1>1 DEF Past
  <1>7. /\ Names(todo') \intersect WorkOps # {} => Names(todo') \subseteq WorkOps /\ PhaseOf(wf'.step) # 0
        /\ AtReview(wf'.step) => Names(todo') \subseteq {"waiting"}
        /\ Names(todo') \intersect EndOps # {} => wf'.step = "done" /\ Names(todo') \subseteq PastOps \union EndOps
        /\ \A o \in Ops(todo') : o.op \in PastOps \union {"unmark"} => o.p \in Phase
        /\ "waiting" \in Names(todo') => AtReview(wf'.step) /\ ~AutoApproves(wf, wf.step)
    BY <1>1 DEF TodoInv
  <1>8. \A p \in Phase : wf'.phases[p] = "done" => p < Place(wf'.step)
    BY <1>1 DEF TodoInv
  <1>9. \A p \in Phase : Past(p)' => p < Place(wf'.step)
    BY <1>6 DEF TodoInv
  <1> QED
    BY <1>1, <1>2, <1>3, <1>4, <1>5, <1>7, <1>8, <1>9 DEF TodoInv, AutoApproves

\* Nothing about what is accepted changes.
LEMMA BasisKept ==
  ASSUME BasisInv, run' = run, cfg' = cfg, wf'.step = wf.step, wf'.seen = wf.seen,
         issue'.labels.done = issue.labels.done,
         hist'.accepted = hist.accepted, hist'.touched = hist.touched,
         "skip" \in Names(todo) => "skip" \in Names(todo')
  PROVE  BasisInv'
  BY DEF BasisInv, Settled, Alive, Skipped

\* Nor about the plan.
LEMMA PlanKept ==
  ASSUME PlanInv, run' = run, planFile' = planFile, wf'.plan = wf.plan, wf'.step = wf.step,
         hist'.plans = hist.plans, Names(todo') \subseteq Names(todo),
         wf.step = "planning" /\ "capture" \in Names(todo) => "capture" \in Names(todo')
  PROVE  PlanInv'
  BY DEF PlanInv

\* Nor about comments.
LEMMA FreshKept ==
  ASSUME FreshInv, run' = run, cfg' = cfg, issue'.comments = issue.comments,
         wf'.step = wf.step, wf'.since = wf.since, wf'.bot = wf.bot, wf'.all = wf.all,
         hist'.finished = hist.finished, hist'.lost = hist.lost, hist'.misread = hist.misread,
         Names(todo') \subseteq Names(todo), "waiting" \in Names(todo) => "waiting" \in Names(todo')
  PROVE  FreshInv'
  <1>1. AutoApproves(wf, wf.step)' <=> AutoApproves(wf, wf.step)
    BY DEF AutoApproves
  <1>2. Reviewing' => Reviewing
    BY DEF Reviewing, Alive
  <1> QED
    BY <1>1, <1>2 DEF FreshInv

\* Nor about what is done.
LEMMA DoneKept ==
  ASSUME DoneInv, cfg' = cfg, issue'.labels.done = issue.labels.done, issue'.labels.skip = issue.labels.skip,
         wf'.seen = wf.seen, wf'.phases = wf.phases, wf'.step = wf.step,
         hist'.touched = hist.touched, hist'.begun = hist.begun, Ops(todo') \subseteq Ops(todo),
         todo' # <<>> => todo # <<>> /\ todo'[Len(todo')] = todo[Len(todo)]
  PROVE  DoneInv'
  BY DEF DoneInv, Untouched

\* Nor about what is in progress.
LEMMA CalmKept ==
  ASSUME CalmInv, run' = run, issue'.labels.doing = issue.labels.doing,
         issue.labels.done \subseteq issue'.labels.done,
         wf'.phases = wf.phases, wf'.step = wf.step, hist'.touched = hist.touched, hist'.begun = hist.begun,
         hist'.calm => hist.calm, "enter" \in Names(todo) => "enter" \in Names(todo')
  PROVE  CalmInv'
  <1>1. Untouched' <=> Untouched
    BY DEF Untouched
  <1>2. Alive' <=> Alive
    BY DEF Alive
  <1> QED
    BY <1>1, <1>2 DEF CalmInv

\* Nor about the end.
LEMMA ClosingKept ==
  ASSUME ClosingInv, run' = run, issue'.labels.doing = issue.labels.doing,
         wf'.phases = wf.phases, wf'.step = wf.step, wf'.seen = wf.seen, hist'.touched = hist.touched,
         hist'.closing => hist.closing, Ops(todo') \subseteq Ops(todo),
         \A o \in Ops(todo) : o.op \in PastOps \union {"sweep", "unmark"} => o \in Ops(todo')
  PROVE  ClosingInv'
  <1>1. Untouched' <=> Untouched
    BY DEF Untouched
  <1>2. \A p \in Phase : Past(p) => Past(p)'
    BY DEF Past, Op, PastOps
  <1>3. Names(todo') \subseteq Names(todo) /\ ("sweep" \in Names(todo) => "sweep" \in Names(todo'))
    BY DEF Names
  <1>4. \A p \in Phase : Op("unmark", p) \in Ops(todo) => Op("unmark", p) \in Ops(todo')
    BY DEF Op
  <1>5. hist'.closing => run' = "on" /\ wf'.step = "done" /\ Names(todo') \subseteq PastOps \union EndOps
    BY <1>3 DEF ClosingInv
  <1>6. hist'.closing => \A p \in Phase : wf'.phases[p] = "done" \/ Past(p)'
    BY <1>2 DEF ClosingInv
  <1>7. hist'.closing /\ Untouched' /\ "sweep" \notin Names(todo') =>
            \A p \in issue'.labels.doing :
                wf'.phases[p] = "done" /\ p \in wf'.seen.doing /\ Op("unmark", p) \in Ops(todo')
    BY <1>1, <1>3 DEF ClosingInv, Op
  <1> QED
    BY <1>5, <1>6, <1>7 DEF ClosingInv

\* Or each call made has done its part.
LEMMA ClosingGoesOn ==
  ASSUME ClosingInv, issue \in Issues, run' = run, wf'.step = wf.step, wf'.seen = wf.seen, hist'.touched = hist.touched,
         hist'.closing => hist.closing, issue'.labels.doing \subseteq issue.labels.doing,
         Names(todo') \subseteq Names(todo) \union PastOps,
         "sweep" \in Names(todo) => "sweep" \in Names(todo'),
         \A p \in Phase : wf.phases[p] = "done" => wf'.phases[p] = "done",
         \A p \in Phase : Past(p) => Past(p)' \/ wf'.phases[p] = "done",
         \A p \in issue'.labels.doing : Op("unmark", p) \in Ops(todo) => Op("unmark", p) \in Ops(todo')
  PROVE  ClosingInv'
  <1> SUFFICES ASSUME hist'.closing PROVE ClosingInv'
    BY DEF ClosingInv
  <1>1. hist.closing
    OBVIOUS
  <1>2. run' = "on" /\ wf'.step = "done" /\ Names(todo') \subseteq PastOps \union EndOps
    BY <1>1 DEF ClosingInv
  <1>3. \A p \in Phase : wf'.phases[p] = "done" \/ Past(p)'
    BY <1>1 DEF ClosingInv
  <1>4. ASSUME Untouched', "sweep" \notin Names(todo'), NEW p \in issue'.labels.doing
        PROVE  wf'.phases[p] = "done" /\ p \in wf'.seen.doing /\ Op("unmark", p) \in Ops(todo')
    <2>1. Untouched /\ "sweep" \notin Names(todo) /\ p \in issue.labels.doing /\ p \in Phase
      BY <1>4 DEF Untouched, Issues, Labels
    <2>2. wf.phases[p] = "done" /\ p \in wf.seen.doing /\ Op("unmark", p) \in Ops(todo)
      BY <1>1, <2>1 DEF ClosingInv
    <2> QED
      BY <1>4, <2>1, <2>2
  <1> QED
    BY <1>2, <1>3, <1>4 DEF ClosingInv

\* Outside the end nothing is closing.
LEMMA NotClosing ==
  ASSUME ClosingInv, wf.step # "done" \/ ~(Names(todo) \subseteq PastOps \union EndOps)
  PROVE  ~hist.closing
  BY DEF ClosingInv

\* A step that ends nothing stays outside.
LEMMA StaysOpen ==
  ASSUME ~hist'.closing
  PROVE  ClosingInv'
  BY DEF ClosingInv

\* Where a call leaves the workflow.
LEMMA Called ==
  ASSUME IInv, NEW name, Calls(name)
  PROVE  /\ todo # <<>> /\ Head(todo).op = name /\ Alive /\ run = "on" /\ wf.step # "failed"
         /\ Rest \in Seq(OpSet) /\ Head(todo) \in Ops(todo) /\ Head(todo) = Op(name, Head(todo).p)
         /\ Ops(todo) = {Head(todo)} \union Ops(Rest) /\ Names(todo) = {name} \union Names(Rest)
         /\ \A o \in Ops(Rest) : Allowed(Head(todo), o) /\ o.op \in Names(Rest)
         /\ Rest # <<>> => Rest[Len(Rest)] = todo[Len(todo)]
         /\ Ordered(Rest) /\ wf.step \in Steps /\ PhaseOf(wf.step) \in 0..4 /\ Place(wf.step) \in 0..5
         /\ name \in BoundaryOps \union PastOps \union EndOps =>
                Names(todo) \intersect WorkOps = {} /\ "waiting" \notin Names(todo) /\ ~AtReview(wf.step)
         /\ name \in BoundaryOps => Names(todo) \intersect EndOps = {} /\ ~hist.closing
         /\ name \in EndOps => /\ wf.step = "done" /\ Names(todo) \subseteq PastOps \union EndOps
         /\ name \in WorkOps => /\ Names(todo) \subseteq WorkOps /\ PhaseOf(wf.step) \in Phase
                                /\ Place(wf.step) = PhaseOf(wf.step) /\ ~AtReview(wf.step) /\ ~hist.closing
         /\ issue \in Issues /\ hist \in Histories /\ left \in Lefts /\ wf \in Workflows
  <1>1. todo # <<>> /\ Head(todo).op = name
    BY DEF Calls
  <1>2. wf.step \in Steps /\ issue \in Issues /\ hist \in Histories /\ left \in Lefts /\ wf \in Workflows
    BY DEF IInv, Typed, Workflows, Issues
  <1>3. /\ PhaseOf(wf.step) \in 0..4 /\ Place(wf.step) \in 0..5
        /\ PhaseOf(wf.step) # 0 => Place(wf.step) = PhaseOf(wf.step) /\ ~AtReview(wf.step) /\ wf.step # "done"
                                  /\ PhaseOf(wf.step) \in Phase
    BY <1>2, StepKinds
  <1>4. Head(todo).op \in Names(todo)
    BY <1>1, Pop DEF IInv
  <1>5. name \in BoundaryOps \union PastOps \union EndOps =>
                Names(todo) \intersect WorkOps = {} /\ "waiting" \notin Names(todo) /\ ~AtReview(wf.step)
    BY <1>1, <1>4 DEF IInv, TodoInv, BoundaryOps, PastOps, EndOps, WorkOps
  <1>6. name \in BoundaryOps => Names(todo) \intersect EndOps = {} /\ ~hist.closing
    BY <1>1, <1>4 DEF IInv, TodoInv, BoundaryOps, PastOps, EndOps, ClosingInv
  <1>7. name \in EndOps => wf.step = "done" /\ Names(todo) \subseteq PastOps \union EndOps
    BY <1>1, <1>4 DEF IInv, TodoInv
  <1>8. name \in WorkOps => Names(todo) \subseteq WorkOps /\ PhaseOf(wf.step) # 0
    BY <1>1, <1>4 DEF IInv, TodoInv
  <1>9. name \in WorkOps => ~hist.closing
    BY <1>3, <1>8 DEF IInv, ClosingInv
  <1>10. \A o \in Ops(Rest) : o.op \in Names(Rest)
    BY DEF Names
  <1>11. /\ run = "on" /\ Alive /\ wf.step # "failed" /\ Rest \in Seq(OpSet)
         /\ Head(todo) \in Ops(todo) /\ Head(todo) = Op(Head(todo).op, Head(todo).p)
         /\ Ops(todo) = {Head(todo)} \union Ops(Rest) /\ Names(todo) = {Head(todo).op} \union Names(Rest)
         /\ \A o \in Ops(Rest) : Allowed(Head(todo), o)
         /\ Rest # <<>> => Rest[Len(Rest)] = todo[Len(todo)]
         /\ Ordered(Rest)
    BY <1>1, Pop DEF IInv
  <1> QED
    BY <1>1, <1>2, <1>3, <1>5, <1>6, <1>7, <1>8, <1>9, <1>10, <1>11

-----------------------------------------------------------------------------
(* The steps: labels. *)

LEMMA CompleteKeeps ==
  ASSUME IInv, Complete
  PROVE  IInv'
  <1> DEFINE p == Head(todo).p
  <1>1. /\ todo # <<>> /\ Head(todo).op = "complete" /\ UNCHANGED <<cfg, planFile, wf, run>>
    BY DEF Complete, Calls
  <1>2. /\ Alive /\ run = "on" /\ Rest \in Seq(OpSet) /\ Head(todo) \in Ops(todo) /\ Head(todo) = Op("complete", p)
        /\ Ops(todo) = {Head(todo)} \union Ops(Rest) /\ Names(todo) = {"complete"} \union Names(Rest)
        /\ Rest # <<>> => Rest[Len(Rest)] = todo[Len(todo)]
        /\ Ordered(Rest)
        /\ \A o \in Ops(Rest) : o.op \in Names(Rest)
    BY <1>1, Pop DEF IInv, Names
  <1>3. p \in Phase /\ Past(p) /\ p < Place(wf.step)
    BY <1>1, <1>2 DEF IInv, TodoInv, PastOps, Past
  <1>4. CASE wf.phases[p] = "done" /\ todo' = Rest /\ UNCHANGED <<issue, left, hist>>
    <2>1. Typed'
      BY <1>1, <1>2, <1>4 DEF IInv, Typed, Now
    <2>2. TodoInv'
      BY <1>1, <1>4, TodoPops DEF IInv
    <2>3. BasisInv' /\ PlanInv' /\ FreshInv' /\ DoneInv'
      BY <1>1, <1>2, <1>4, BasisKept, PlanKept, FreshKept, DoneKept DEF IInv
    <2>4. CalmInv'
      BY <1>1, <1>2, <1>4, CalmKept DEF IInv
    <2>5. ClosingInv'
      <3>1. \A q \in Phase : Past(q) => Past(q)' \/ wf.phases[q] = "done"
        BY <1>2, <1>4 DEF Past, Op
      <3>2. \A q : Op("unmark", q) \in Ops(todo) => Op("unmark", q) \in Ops(Rest)
        BY <1>2 DEF Op
      <3>3. issue \in Issues
        BY DEF IInv, Typed, Issues
      <3> QED
        BY <1>1, <1>2, <1>4, <3>1, <3>2, <3>3, ClosingGoesOn DEF IInv
    <2> QED
      BY <2>1, <2>2, <2>3, <2>4, <2>5 DEF IInv
  <1>5. CASE \E r \in Replies :
            /\ Fault(r) /\ hist' = Marked(hist, r) /\ issue' = Applied(r, Edited(Completion[1], p))
            /\ todo' = IF Confirmed(r) THEN <<Op("completed", p)>> \o Rest ELSE Rest
    <2>1. PICK r \in Replies :
            /\ Fault(r) /\ hist' = Marked(hist, r) /\ issue' = Applied(r, Labelled("done", p))
            /\ todo' = IF r = "ok" THEN <<Op("completed", p)>> \o Rest ELSE Rest
      BY <1>5 DEF Edited, Completion, Confirmed
    <2>2. /\ issue \in Issues /\ Labelled("done", p) \in Issues /\ Labelled("done", p).comments = issue.comments
          /\ Labelled("done", p).labels.done = issue.labels.done \union {p}
          /\ Labelled("done", p).labels.doing = issue.labels.doing
          /\ Labelled("done", p).labels.skip = issue.labels.skip
      BY <1>3, LabelFields DEF IInv, Typed, Issues
    <2>3. /\ issue' \in Issues /\ issue'.comments = issue.comments /\ issue'.labels.doing = issue.labels.doing
          /\ issue'.labels.skip = issue.labels.skip
          /\ issue.labels.done \subseteq issue'.labels.done /\ issue'.labels.done \subseteq issue.labels.done \union {p}
          /\ r = "ok" => p \in issue'.labels.done
      BY <2>1, <2>2 DEF Applied, Replies
    <2>4. hist \in Histories /\ hist' \in Histories /\ left' \in Lefts
      BY <2>1, MarkedFields, FaultType DEF IInv, Typed
    <2>5. /\ hist'.begun = hist.begun /\ hist'.accepted = hist.accepted /\ hist'.touched = hist.touched
          /\ hist'.finished = hist.finished /\ hist'.plans = hist.plans /\ hist'.lost = hist.lost
          /\ hist'.misread = hist.misread /\ (hist'.calm => hist.calm /\ r = "ok")
          /\ (hist'.closing => hist.closing /\ r = "ok")
      BY <2>1, <2>4, MarkedNow
    <2>6. /\ Op("completed", p) \in OpSet /\ Op("completed", p).op = "completed" /\ Op("completed", p).p = p
      BY <1>3 DEF Op, OpSet, PastOps, Phase
    <2>7. /\ <<Op("completed", p)>> \in Seq(OpSet) /\ Ops(<<Op("completed", p)>>) = {Op("completed", p)}
          /\ Names(<<Op("completed", p)>>) = {"completed"} /\ Ordered(<<Op("completed", p)>>)
          /\ \A b \in Ops(Rest) : Allowed(Op("completed", p), b)
      BY <2>6, One DEF Allowed
    <2>8. /\ todo' \in Seq(OpSet) /\ Ordered(todo')
          /\ Ops(Rest) \subseteq Ops(todo') /\ Ops(todo') \subseteq Ops(Rest) \union {Op("completed", p)}
          /\ Names(Rest) \subseteq Names(todo') /\ Names(todo') \subseteq Names(Rest) \union {"completed"}
          /\ r = "ok" => Op("completed", p) \in Ops(todo')
          /\ r # "ok" => Ops(todo') = Ops(Rest)
          /\ Rest # <<>> => todo' # <<>> /\ todo'[Len(todo')] = Rest[Len(Rest)]
          /\ Rest = <<>> => Names(todo') \subseteq {"completed"}
      <3>1. CASE r = "ok"
        <4>1. todo' = <<Op("completed", p)>> \o Rest
          BY <2>1, <3>1
        <4>2. \A a \in Ops(<<Op("completed", p)>>), b \in Ops(Rest) : Allowed(a, b)
          BY <2>7
        <4> HIDE DEF p
        <4>3. /\ todo' \in Seq(OpSet) /\ Ops(todo') = {Op("completed", p)} \union Ops(Rest)
              /\ Names(todo') = {"completed"} \union Names(Rest) /\ Ordered(todo')
              /\ Rest # <<>> => todo' # <<>> /\ todo'[Len(todo')] = Rest[Len(Rest)]
          BY <4>1, <4>2, <2>7, <1>2, Joined
        <4> QED
          BY <4>3, <3>1, NoCalls
      <3>2. CASE r # "ok"
        BY <3>2, <2>1, <1>2, NoCalls
      <3> QED
        BY <3>1, <3>2
    <2>9. Typed'
      BY <1>1, <2>3, <2>4, <2>5, <2>8 DEF IInv, Typed, Issues, Now
    <2>10. TodoInv'
      <3>1. /\ Names(todo) \intersect WorkOps = {} /\ "waiting" \notin Names(todo) /\ ~AtReview(wf.step)
        BY <1>2 DEF IInv, TodoInv, WorkOps
      <3>2. /\ Names(todo') \intersect WorkOps = {} /\ "waiting" \notin Names(todo')
            /\ Names(todo') \subseteq Names(todo) \union {"completed"}
        BY <3>1, <2>8, <1>2 DEF WorkOps
      <3>3. Names(todo') \intersect EndOps # {} => wf.step = "done" /\ Names(todo') \subseteq PastOps \union EndOps
        <4> SUFFICES ASSUME Names(todo') \intersect EndOps # {}
                     PROVE  wf.step = "done" /\ Names(todo') \subseteq PastOps \union EndOps
          OBVIOUS
        <4>1. Names(todo) \intersect EndOps # {}
          BY <3>2 DEF EndOps
        <4> QED
          BY <4>1, <3>2 DEF IInv, TodoInv, PastOps
      <3>4. \A o \in Ops(todo') : o.op \in PastOps \union {"unmark"} => o.p \in Phase
        BY <1>2, <1>3, <2>6, <2>8 DEF IInv, TodoInv
      <3>5. \A q \in Phase : Past(q)' => q < Place(wf.step)
        <4> SUFFICES ASSUME NEW q \in Phase, Past(q)' PROVE q < Place(wf.step)
          OBVIOUS
        <4>1. Past(q) \/ q = p
          BY <1>2, <2>8 DEF Past, Op
        <4> QED
          BY <4>1, <1>3 DEF IInv, TodoInv
      <3>6. "refresh" \in Names(todo') => "skip" \in Names(todo')
        BY <1>2, <2>8 DEF IInv, TodoInv
      <3>7. "skip" \in Names(todo') => todo'[Len(todo')].op \in {"skip", "enter"}
        <4> SUFFICES ASSUME "skip" \in Names(todo') PROVE todo'[Len(todo')].op \in {"skip", "enter"}
          OBVIOUS
        <4>1. Rest # <<>> /\ "skip" \in Names(todo)
          BY <2>8, <1>2
        <4> QED
          BY <4>1, <1>2, <2>8 DEF IInv, TodoInv
      <3>8. \A q \in Phase : wf'.phases[q] = "done" => q < Place(wf'.step)
        BY <1>1, <1>2 DEF IInv, TodoInv
      <3> QED
        BY <1>1, <1>2, <2>8, <3>1, <3>2, <3>3, <3>4, <3>5, <3>6, <3>7, <3>8 DEF TodoInv, Alive
    <2>11. BasisInv'
      <3>1. p \in Settled
        <4>1. 1..(Place(wf.step) - 1) \subseteq Settled
          BY <1>2 DEF IInv, BasisInv
        <4>2. Place(wf.step) \in 0..5
          BY StepKinds DEF IInv, Typed, Workflows
        <4> QED
          BY <1>3, <4>1, <4>2 DEF Phase
      <3>2. ~(p >= Place(wf.step))
        <4>2. Place(wf.step) \in 0..5
          BY StepKinds DEF IInv, Typed, Workflows
        <4> QED
          BY <1>3, <4>2 DEF Phase
      <3>3. "skip" \in Names(todo) => "skip" \in Names(todo')
        BY <1>2, <2>8
      <3> QED
        BY <1>1, <1>2, <2>3, <2>5, <3>1, <3>2, <3>3 DEF IInv, BasisInv, Settled, Alive, Skipped
    <2>12. PlanInv' /\ FreshInv'
      <3>1. Names(todo') \subseteq Names(todo) \union {"completed"} /\ Names(todo) \subseteq Names(todo') \union {"complete"}
        BY <1>2, <2>8
      <3>2. PlanInv'
        BY <1>1, <2>5, <3>1 DEF IInv, PlanInv
      <3>3. Reviewing' => Reviewing
        BY <1>1, <3>1 DEF Reviewing, Alive, WorkOps
      <3>4. AutoApproves(wf, wf.step)' <=> AutoApproves(wf, wf.step)
        BY <1>1 DEF AutoApproves
      <3>5. FreshInv'
        BY <1>1, <2>3, <2>5, <3>1, <3>3, <3>4 DEF IInv, FreshInv
      <3> QED
        BY <3>2, <3>5
    <2>13. DoneInv'
      <3> SUFFICES ASSUME Untouched' PROVE DoneInv'
        BY DEF DoneInv
      <3>1. Untouched
        BY <2>5 DEF Untouched
      <3>2. \A q \in Phase : Op("completed", q) \in Ops(todo') => q \in issue'.labels.done
        <4> SUFFICES ASSUME NEW q \in Phase, Op("completed", q) \in Ops(todo') PROVE q \in issue'.labels.done
          OBVIOUS
        <4>1. Op("completed", q) \in Ops(Rest) \/ (q = p /\ r = "ok")
          BY <2>8 DEF Op
        <4> QED
          BY <4>1, <3>1, <1>2, <2>3 DEF IInv, DoneInv
      <3>3. todo' # <<>> /\ todo'[Len(todo')].op = "skip" => PhaseOf(wf.step) \notin issue'.labels.done \union cfg.skip
        <4> SUFFICES ASSUME todo' # <<>>, todo'[Len(todo')].op = "skip"
                     PROVE  PhaseOf(wf.step) \notin issue'.labels.done \union cfg.skip
          OBVIOUS
        <4>1. "skip" \in Names(todo')
          BY <2>8, LastCall
        <4>2. Rest # <<>>
          BY <4>1, <2>8
        <4>3. todo[Len(todo)].op = "skip"
          BY <4>2, <2>8, <1>2
        <4>4. PhaseOf(wf.step) \notin issue.labels.done \union cfg.skip
          BY <4>3, <1>1, <3>1 DEF IInv, DoneInv
        <4>5. PhaseOf(wf.step) # p
          <5>1. PhaseOf(wf.step) # 0 => Place(wf.step) = PhaseOf(wf.step)
            BY StepKinds DEF IInv, Typed, Workflows
          <5> QED
            BY <5>1, <1>3 DEF Phase
        <4> QED
          BY <4>4, <4>5, <2>3
      <3> QED
        BY <1>1, <2>3, <2>5, <3>1, <3>2, <3>3 DEF IInv, DoneInv
    <2>14. CalmInv'
      <3>1. "enter" \in Names(todo) => "enter" \in Names(todo')
        BY <1>2, <2>8
      <3> QED
        BY <1>1, <2>3, <2>5, <3>1, CalmKept DEF IInv
    <2>15. ClosingInv'
      <3> SUFFICES ASSUME hist'.closing PROVE ClosingInv'
        BY StaysOpen
      <3>1. r = "ok"
        BY <2>5
      <3>2. \A q \in Phase : Past(q) => Past(q)'
        BY <1>2, <2>8, <3>1 DEF Past, Op
      <3>3. \A q : Op("unmark", q) \in Ops(todo) => Op("unmark", q) \in Ops(todo')
        BY <1>2, <2>8 DEF Op
      <3>4. Names(todo') \subseteq Names(todo) \union PastOps /\ ("sweep" \in Names(todo) => "sweep" \in Names(todo'))
        BY <1>2, <2>8 DEF PastOps
      <3> QED
        BY <1>1, <2>2, <2>3, <2>5, <3>2, <3>3, <3>4, ClosingGoesOn DEF IInv
    <2> QED
      BY <2>9, <2>10, <2>11, <2>12, <2>13, <2>14, <2>15 DEF IInv
  <1> QED
    BY <1>4, <1>5 DEF Complete

LEMMA CompletedKeeps ==
  ASSUME IInv, Completed
  PROVE  IInv'
  <1> DEFINE p == Head(todo).p
  <1>1. /\ Calls("completed") /\ UNCHANGED <<cfg, planFile, run>> /\ todo' = Rest
        /\ wf' = [wf EXCEPT !.phases[p] = "done"]
    BY DEF Completed
  <1>2. /\ todo # <<>> /\ Alive /\ run = "on" /\ Rest \in Seq(OpSet) /\ Op("completed", p) \in Ops(todo)
        /\ Head(todo) = Op("completed", p)
        /\ Ops(todo) = {Op("completed", p)} \union Ops(Rest) /\ Names(todo) = {"completed"} \union Names(Rest)
        /\ issue \in Issues /\ hist \in Histories /\ wf \in Workflows
        /\ Rest # <<>> => Rest[Len(Rest)] = todo[Len(todo)]
    BY <1>1, Called
  <1>3. p \in Phase /\ p < Place(wf.step)
    <2>1. Op("completed", p).op = "completed" /\ Op("completed", p).p = p
      BY DEF Op
    <2> QED
      BY <1>2, <2>1 DEF IInv, TodoInv, PastOps, Past
  <1>4. PICK r \in Replies : /\ Fault(r) /\ hist' = Marked(hist, r)
                             /\ issue' = Applied(r, Unlabelled("doing", p))
    BY DEF Completed, Edited, Completion
  <1>5. /\ Unlabelled("doing", p) \in Issues /\ Unlabelled("doing", p).comments = issue.comments
        /\ Unlabelled("doing", p).labels.doing = issue.labels.doing \ {p}
        /\ Unlabelled("doing", p).labels.done = issue.labels.done
        /\ Unlabelled("doing", p).labels.skip = issue.labels.skip
    BY <1>2, <1>3, LabelFields
  <1>6. /\ issue' \in Issues /\ issue'.comments = issue.comments /\ issue'.labels.done = issue.labels.done
        /\ issue'.labels.skip = issue.labels.skip
        /\ issue'.labels.doing \subseteq issue.labels.doing /\ issue.labels.doing \subseteq issue'.labels.doing \union {p}
    BY <1>2, <1>4, <1>5 DEF Applied
  <1>7. /\ wf' \in Workflows /\ wf'.step = wf.step /\ wf'.seen = wf.seen /\ wf'.since = wf.since
        /\ wf'.bot = wf.bot /\ wf'.all = wf.all /\ wf'.plan = wf.plan /\ wf'.feedback = wf.feedback
        /\ wf'.phases[p] = "done" /\ \A q \in Phase : q # p => wf'.phases[q] = wf.phases[q]
    BY <1>1, <1>2, <1>3 DEF Workflows
  <1>8. /\ hist' \in Histories /\ left' \in Lefts
        /\ hist'.begun = hist.begun /\ hist'.accepted = hist.accepted /\ hist'.touched = hist.touched
        /\ hist'.finished = hist.finished /\ hist'.plans = hist.plans /\ hist'.lost = hist.lost
        /\ hist'.misread = hist.misread /\ (hist'.calm => hist.calm)
        /\ (hist'.closing => hist.closing)
    BY <1>2, <1>4, MarkedNow, FaultType DEF IInv
  <1>9. Typed'
    BY <1>1, <1>2, <1>6, <1>7, <1>8 DEF IInv, Typed, Issues, Now
  <1>10. TodoInv'
    BY <1>1, <1>2, <1>3, <1>7, TodoPops DEF IInv
  <1>11. BasisInv' /\ PlanInv' /\ FreshInv'
    BY <1>1, <1>2, <1>6, <1>7, <1>8, BasisKept, PlanKept, FreshKept DEF IInv
  <1>12. Untouched' => Untouched /\ p \in issue.labels.done
    BY <1>2, <1>3, <1>8 DEF IInv, DoneInv, Untouched
  <1>13. DoneInv'
    BY <1>1, <1>2, <1>6, <1>7, <1>8, <1>12 DEF IInv, DoneInv
  <1>14. CalmInv'
    <2> SUFFICES ASSUME hist'.calm, Untouched' PROVE CalmInv'
      BY DEF CalmInv
    <2>1. hist.calm /\ Untouched /\ p \in issue.labels.done /\ (Alive' <=> Alive)
      BY <1>1, <1>7, <1>8, <1>12 DEF Alive
    <2> QED
      BY <2>1, <1>2, <1>6, <1>7, <1>8, <1>1 DEF IInv, CalmInv
  <1>15. ClosingInv'
    <2>1. \A q \in Phase : Past(q) => Past(q)' \/ wf'.phases[q] = "done"
      BY <1>1, <1>2, <1>7 DEF Past, Op
    <2>2. \A q : Op("unmark", q) \in Ops(todo) => Op("unmark", q) \in Ops(Rest)
      BY <1>2 DEF Op
    <2>3. \A q \in Phase : wf.phases[q] = "done" => wf'.phases[q] = "done"
      BY <1>7
    <2> QED
      BY <1>1, <1>2, <1>6, <1>7, <1>8, <2>1, <2>2, <2>3, ClosingGoesOn DEF IInv
  <1> QED
    BY <1>9, <1>10, <1>11, <1>13, <1>14, <1>15 DEF IInv

LEMMA EnterKeeps ==
  ASSUME IInv, Enter
  PROVE  IInv'
  <1> DEFINE p == PhaseOf(wf.step)
  <1>1. Calls("enter") /\ todo' = Rest /\ UNCHANGED <<cfg, planFile, run>>
    BY DEF Enter
  <1>2. /\ todo # <<>> /\ Alive /\ run = "on" /\ Rest \in Seq(OpSet)
        /\ Ops(todo) = {Head(todo)} \union Ops(Rest) /\ Names(todo) = {"enter"} \union Names(Rest)
        /\ issue \in Issues /\ hist \in Histories /\ wf \in Workflows /\ wf.step \in Steps /\ ~hist.closing
        /\ Rest # <<>> => Rest[Len(Rest)] = todo[Len(todo)]
    BY <1>1, Called DEF BoundaryOps
  <1>3. CASE (p = 0 \/ wf.phases[p] # "new") /\ UNCHANGED <<issue, wf, left, hist>>
    <2>1. Typed'
      BY <1>1, <1>2, <1>3 DEF IInv, Typed, Now
    <2>2. TodoInv'
      BY <1>1, <1>2, <1>3, TodoPops DEF IInv
    <2>3. BasisInv' /\ PlanInv' /\ FreshInv' /\ DoneInv'
      BY <1>1, <1>2, <1>3, BasisKept, PlanKept, FreshKept, DoneKept DEF IInv
    <2>4. CalmInv'
      <3> SUFFICES ASSUME hist.calm, Untouched, p # 0 PROVE p \in issue.labels.doing \union issue.labels.done
        BY <1>1, <1>3 DEF IInv, CalmInv, Alive, Untouched
      <3>1. p \in Phase /\ Place(wf.step) = p
        BY <1>2, StepKinds
      <3>2. wf.phases[p] \in {"new", "doing", "done"}
        BY <1>2, <3>1 DEF Workflows
      <3>3. wf.phases[p] # "done"
        BY <1>2, <3>1 DEF IInv, TodoInv, Phase
      <3> QED
        BY <1>2, <1>3, <3>1, <3>2, <3>3 DEF IInv, CalmInv
    <2>5. ClosingInv'
      BY <1>2, <1>3, StaysOpen
    <2> QED
      BY <2>1, <2>2, <2>3, <2>4, <2>5 DEF IInv
  <1>4. CASE \E r \in Replies :
            /\ p # 0
            /\ Fault(r) /\ hist' = Marked(hist, r) /\ issue' = Applied(r, Labelled("doing", p))
            /\ wf' = IF r = "ok" THEN [wf EXCEPT !.phases[p] = "doing"] ELSE wf
    <2>1. PICK r \in Replies :
            /\ p # 0
            /\ Fault(r) /\ hist' = Marked(hist, r) /\ issue' = Applied(r, Labelled("doing", p))
            /\ wf' = IF r = "ok" THEN [wf EXCEPT !.phases[p] = "doing"] ELSE wf
      BY <1>4
    <2>2. p \in Phase /\ Place(wf.step) = p
      BY <1>2, <2>1, StepKinds
    <2>3. /\ Labelled("doing", p) \in Issues /\ Labelled("doing", p).comments = issue.comments
          /\ Labelled("doing", p).labels.doing = issue.labels.doing \union {p}
          /\ Labelled("doing", p).labels.done = issue.labels.done
          /\ Labelled("doing", p).labels.skip = issue.labels.skip
      BY <1>2, <2>2, LabelFields
    <2>4. /\ issue' \in Issues /\ issue'.comments = issue.comments /\ issue'.labels.done = issue.labels.done
          /\ issue'.labels.skip = issue.labels.skip
          /\ issue.labels.doing \subseteq issue'.labels.doing
          /\ r = "ok" => p \in issue'.labels.doing
      BY <1>2, <2>1, <2>3 DEF Applied
    <2>5. /\ wf' \in Workflows /\ wf'.step = wf.step /\ wf'.seen = wf.seen /\ wf'.since = wf.since
          /\ wf'.bot = wf.bot /\ wf'.all = wf.all /\ wf'.plan = wf.plan /\ wf'.feedback = wf.feedback
          /\ \A q \in Phase : wf'.phases[q] = wf.phases[q] \/ (q = p /\ wf'.phases[q] = "doing")
      <3>1. CASE r = "ok"
        BY <1>2, <2>1, <2>2, <3>1 DEF Workflows
      <3>2. CASE r # "ok"
        BY <1>2, <2>1, <3>2
      <3> QED
        BY <3>1, <3>2
    <2>6. /\ hist' \in Histories /\ left' \in Lefts
          /\ hist'.begun = hist.begun /\ hist'.accepted = hist.accepted /\ hist'.touched = hist.touched
          /\ hist'.finished = hist.finished /\ hist'.plans = hist.plans /\ hist'.lost = hist.lost
          /\ hist'.misread = hist.misread /\ (hist'.calm => hist.calm /\ r = "ok")
          /\ (hist'.closing => hist.closing)
      BY <1>2, <2>1, MarkedNow, FaultType DEF IInv
    <2>7. Typed'
      BY <1>1, <1>2, <2>4, <2>5, <2>6 DEF IInv, Typed, Issues, Now
    <2>8. TodoInv'
      BY <1>1, <1>2, <2>5, TodoPops DEF IInv
    <2>9. BasisInv' /\ PlanInv' /\ FreshInv'
      BY <1>1, <1>2, <2>4, <2>5, <2>6, BasisKept, PlanKept, FreshKept DEF IInv
    <2>10. DoneInv'
      BY <1>1, <1>2, <2>4, <2>5, <2>6 DEF IInv, DoneInv, Untouched
    <2>11. CalmInv'
      <3> SUFFICES ASSUME hist'.calm, Untouched' PROVE CalmInv'
        BY DEF CalmInv
      <3>1. hist.calm /\ Untouched /\ p \in issue'.labels.doing /\ (Alive' <=> Alive)
        BY <1>1, <2>4, <2>5, <2>6 DEF Alive, Untouched
      <3> QED
        BY <3>1, <2>4, <2>5, <2>6 DEF IInv, CalmInv
    <2>12. ClosingInv'
      BY <1>2, <2>6, StaysOpen
    <2> QED
      BY <2>7, <2>8, <2>9, <2>10, <2>11, <2>12 DEF IInv
  <1> QED
    BY <1>3, <1>4 DEF Enter

LEMMA RefreshKeeps ==
  ASSUME IInv, Refresh
  PROVE  IInv'
  <1>1. Calls("refresh") /\ todo' = Rest /\ UNCHANGED <<cfg, issue, planFile, run>>
    BY DEF Refresh
  <1>2. /\ todo # <<>> /\ Alive /\ run = "on" /\ Rest \in Seq(OpSet)
        /\ Ops(todo) = {Head(todo)} \union Ops(Rest) /\ Names(todo) = {"refresh"} \union Names(Rest)
        /\ issue \in Issues /\ hist \in Histories /\ wf \in Workflows /\ wf.step \in Steps /\ ~hist.closing
        /\ Rest # <<>> => Rest[Len(Rest)] = todo[Len(todo)]
    BY <1>1, Called DEF BoundaryOps
  <1>3. PICK r \in {"ok", "failed"} :
            /\ Fault(r) /\ hist' = Marked(hist, r)
            /\ wf' = IF r = "ok" THEN [wf EXCEPT !.seen = issue.labels] ELSE wf
    BY DEF Refresh
  <1>4. /\ wf' \in Workflows /\ wf'.step = wf.step /\ wf'.since = wf.since
        /\ wf'.bot = wf.bot /\ wf'.all = wf.all /\ wf'.plan = wf.plan /\ wf'.feedback = wf.feedback
        /\ wf'.phases = wf.phases /\ (wf'.seen = wf.seen \/ wf'.seen = issue.labels)
    BY <1>2, <1>3 DEF Workflows, Issues
  <1>5. /\ hist' \in Histories /\ left' \in Lefts
        /\ hist'.begun = hist.begun /\ hist'.accepted = hist.accepted /\ hist'.touched = hist.touched
        /\ hist'.finished = hist.finished /\ hist'.plans = hist.plans /\ hist'.lost = hist.lost
        /\ hist'.misread = hist.misread /\ (hist'.calm => hist.calm)
        /\ (hist'.closing => hist.closing)
    BY <1>2, <1>3, MarkedNow, FaultType DEF IInv
  <1>6. Typed'
    BY <1>1, <1>2, <1>4, <1>5 DEF IInv, Typed, Now
  <1>7. TodoInv'
    BY <1>1, <1>2, <1>4, TodoPops DEF IInv
  <1>8. BasisInv'
    <2>1. "skip" \in Names(Rest)
      BY <1>2 DEF IInv, TodoInv
    <2> QED
      BY <2>1, <1>1, <1>2, <1>4, <1>5 DEF IInv, BasisInv, Settled, Alive
  <1>9. PlanInv' /\ FreshInv'
    BY <1>1, <1>2, <1>4, <1>5, PlanKept, FreshKept DEF IInv
  <1>10. DoneInv'
    BY <1>1, <1>2, <1>4, <1>5 DEF IInv, DoneInv, Untouched
  <1>11. CalmInv'
    BY <1>1, <1>2, <1>4, <1>5, CalmKept DEF IInv
  <1>12. ClosingInv'
    BY <1>2, <1>5, StaysOpen
  <1> QED
    BY <1>6, <1>7, <1>8, <1>9, <1>10, <1>11, <1>12 DEF IInv

LEMMA SkipKeeps ==
  ASSUME IInv, Skip
  PROVE  IInv'
  <1> DEFINE p == PhaseOf(wf.step)
  <1>1. Calls("skip") /\ UNCHANGED <<cfg, planFile, run>>
    BY DEF Skip
  <1>2. /\ todo # <<>> /\ Alive /\ run = "on" /\ Rest \in Seq(OpSet) /\ todo \in Seq(OpSet)
        /\ Ops(todo) = {Head(todo)} \union Ops(Rest) /\ Names(todo) = {"skip"} \union Names(Rest)
        /\ issue \in Issues /\ hist \in Histories /\ wf \in Workflows /\ wf.step \in Steps /\ ~hist.closing
        /\ Rest # <<>> => Rest[Len(Rest)] = todo[Len(todo)]
        /\ Names(todo) \intersect (WorkOps \union EndOps) = {} /\ "waiting" \notin Names(todo) /\ ~AtReview(wf.step)
        /\ wf.step # "failed"
    BY <1>1, Called DEF BoundaryOps, IInv, Typed
  <1>3. CASE p \notin wf.seen.done \union Skipped /\ todo' = Rest /\ UNCHANGED <<issue, wf, left, hist>>
    <2>1. Typed'
      BY <1>1, <1>2, <1>3 DEF IInv, Typed, Now
    <2>2. TodoInv'
      BY <1>1, <1>2, <1>3, TodoPops DEF IInv
    <2>3. Place(wf.step) \notin wf.seen.done \union Skipped
      <3>1. CASE p # 0
        BY <1>2, <1>3, <3>1, StepKinds
      <3>2. CASE p = 0
        <4>1. wf.step = "done" /\ Place(wf.step) = 5
          BY <1>2, <3>2, StepKinds, Places
        <4>2. wf.seen.done \subseteq Phase /\ Skipped \subseteq Phase
          BY <1>2, WorkflowConstants DEF IInv, Typed, Skipped, Workflows, Labels, Phase
        <4> QED
          BY <4>1, <4>2 DEF Phase
      <3> QED
        BY <3>1, <3>2
    <2>4. BasisInv'
      BY <1>1, <1>2, <1>3, <2>3 DEF IInv, BasisInv, Settled, Alive, Skipped
    <2>5. PlanInv' /\ FreshInv' /\ DoneInv' /\ CalmInv' /\ ClosingInv'
      BY <1>1, <1>2, <1>3, PlanKept, FreshKept, DoneKept, CalmKept, StaysOpen DEF IInv
    <2> QED
      BY <2>1, <2>2, <2>4, <2>5 DEF IInv
  <1>4. CASE \E r \in Replies :
            /\ p \in wf.seen.done \union Skipped
            /\ Fault(r)
            /\ \/ issue' = issue
               \/ issue' = Applied(r, Unlabelled("doing", p))
            /\ wf' = SkippedOver(wf, p) /\ todo' = todo
            /\ hist' = Marked([hist EXCEPT !.accepted = @ \union (Skipped \intersect {p})], r)
    <2>1. PICK r \in Replies :
            /\ p \in wf.seen.done \union Skipped
            /\ Fault(r)
            /\ \/ issue' = issue
               \/ issue' = Applied(r, Unlabelled("doing", p))
            /\ wf' = SkippedOver(wf, p) /\ todo' = todo
            /\ hist' = Marked([hist EXCEPT !.accepted = @ \union (Skipped \intersect {p})], r)
      BY <1>4
    <2>2. p \in Phase /\ Place(wf.step) = p /\ Skipped \subseteq Phase
      <3>1. wf.seen.done \subseteq Phase /\ Skipped \subseteq Phase
        BY <1>2, WorkflowConstants DEF IInv, Typed, Skipped, Workflows, Labels, Phase
      <3>2. p # 0
        BY <2>1, <3>1 DEF Phase
      <3> QED
        BY <3>1, <3>2, <1>2, StepKinds
    <2>3. /\ Unlabelled("doing", p) \in Issues /\ Unlabelled("doing", p).comments = issue.comments
          /\ Unlabelled("doing", p).labels.doing = issue.labels.doing \ {p}
          /\ Unlabelled("doing", p).labels.done = issue.labels.done
          /\ Unlabelled("doing", p).labels.skip = issue.labels.skip
      BY <1>2, <2>2, LabelFields
    <2>4. /\ issue' \in Issues /\ issue'.comments = issue.comments /\ issue'.labels.done = issue.labels.done
          /\ issue'.labels.skip = issue.labels.skip
          /\ issue.labels.doing \subseteq issue'.labels.doing \union {p}
      BY <1>2, <2>1, <2>3 DEF Applied
    <2>5. /\ Approved(p) \in Steps /\ Place(Approved(p)) = p + 1 /\ ~AtReview(Approved(p))
          /\ Approved(p) # "failed" /\ Approved(p) # "planning"
      BY <2>2, Places
    <2>6. planFile \in Nat
      BY DEF IInv, Typed
    <2>7. /\ wf' \in Workflows /\ wf'.step = Approved(p) /\ wf'.seen = wf.seen /\ wf'.since = wf.since
          /\ wf'.bot = wf.bot /\ wf'.all = wf.all /\ wf'.feedback = 0
          /\ wf'.plan = (IF p = 1 /\ wf.plan = 0 THEN planFile ELSE wf.plan)
          /\ wf'.phases[p] = "done" /\ \A q \in Phase : q # p => wf'.phases[q] = wf.phases[q]
      BY <1>2, <2>1, <2>2, <2>5, <2>6 DEF Workflows, SkippedOver
    <2>8. /\ hist' \in Histories /\ left' \in Lefts
          /\ hist'.begun = hist.begun /\ hist'.accepted = hist.accepted \union (Skipped \intersect {p})
          /\ hist'.touched = hist.touched
          /\ hist'.finished = hist.finished /\ hist'.plans = hist.plans /\ hist'.lost = hist.lost
          /\ hist'.misread = hist.misread /\ (hist'.calm => hist.calm)
          /\ (hist'.closing => hist.closing)
      <3> DEFINE h == [hist EXCEPT !.accepted = @ \union (Skipped \intersect {p})]
      <3>1. h \in Histories /\ hist' = Marked(h, r)
        BY <1>2, <2>1, <2>2 DEF Histories
      <3>2. /\ h.begun = hist.begun /\ h.accepted = hist.accepted \union (Skipped \intersect {p})
            /\ h.touched = hist.touched
            /\ h.finished = hist.finished /\ h.plans = hist.plans /\ h.lost = hist.lost
            /\ h.misread = hist.misread /\ h.calm = hist.calm /\ h.closing = hist.closing
        BY <1>2 DEF Histories
      <3> HIDE DEF h
      <3>3. hist'.calm => h.calm
        BY <3>1 DEF Marked, Histories
      <3>4. hist'.closing => h.closing
        BY <3>1 DEF Marked, Histories
      <3>5. left' \in Lefts
        BY <2>1, FaultType DEF IInv
      <3> QED
        BY <3>1, <3>2, <3>3, <3>4, <3>5, MarkedFields
    <2>9. Typed'
      <3>1. wf.feedback \in Nat /\ Len(issue.comments) \in Nat
        BY <1>2, LenProperties DEF Workflows, Issues
      <3>2. Bounded'
        BY <2>4, <2>7, <2>8, <3>1, StillBounded DEF IInv
      <3> QED
        BY <1>1, <1>2, <2>1, <2>4, <2>7, <2>8, <3>2 DEF IInv, Typed, Issues, Bounded
    <2>10. TodoInv'
      <3>1. \A q \in Phase : Past(q)' => q < Place(wf'.step)
        <4>1. \A q \in Phase : Past(q) => q < p
          BY <2>2 DEF IInv, TodoInv
        <4> QED
          BY <4>1, <2>1, <2>2, <2>5, <2>7 DEF Past, Phase
      <3>2. \A q \in Phase : wf'.phases[q] = "done" => q < Place(wf'.step)
        <4>1. \A q \in Phase : wf.phases[q] = "done" => q < p
          BY <1>2, <2>2 DEF IInv, TodoInv
        <4> QED
          BY <4>1, <2>2, <2>5, <2>7 DEF Phase
      <3> QED
        BY <1>1, <1>2, <2>1, <2>5, <2>7, <3>1, <3>2 DEF IInv, TodoInv
    <2>11. BasisInv'
      <3>1. p \in Settled'
        BY <2>1, <2>8 DEF IInv, BasisInv, Settled
      <3>2. 1..(Place(wf.step) - 1) \subseteq Settled /\ Settled \subseteq Settled'
        BY <1>2, <2>8 DEF IInv, BasisInv, Settled
      <3>3. 1..(Place(wf'.step) - 1) \subseteq Settled'
        BY <2>2, <2>5, <2>7, <3>1, <3>2 DEF Phase
      <3>4. \A q \in issue'.labels.done : q >= Place(wf'.step) => q \in wf'.seen.done \union hist'.touched
        <4> SUFFICES ASSUME NEW q \in issue.labels.done, q >= p + 1 PROVE q \in wf.seen.done \union hist.touched
          BY <2>4, <2>5, <2>7, <2>8
        <4>1. q \in Phase
          BY <1>2 DEF Issues, Labels
        <4>2. q >= p
          BY <4>1, <2>2 DEF Phase
        <4> QED
          BY <4>2, <1>2, <2>2 DEF IInv, BasisInv
      <3> QED
        BY <1>2, <2>1, <2>4, <2>7, <2>8, <3>2, <3>3, <3>4 DEF IInv, BasisInv, Settled
    <2>12. PlanInv'
      <3>1. wf.step # "planning" <=> p # 1
        BY <1>2, StepKinds
      <3> QED
        BY <1>1, <1>2, <2>5, <2>7, <2>8, <3>1 DEF IInv, PlanInv
    <2>13. FreshInv'
      BY <1>2, <2>1, <2>5, <2>7, <2>8 DEF IInv, FreshInv, Reviewing
    <2>14. DoneInv' /\ (Untouched => p \in issue.labels.done \union cfg.skip /\ todo[Len(todo)].op # "skip")
      <3>1. Untouched' <=> Untouched
        BY <2>8 DEF Untouched
      <3> SUFFICES ASSUME Untouched PROVE DoneInv' /\ p \in issue.labels.done \union cfg.skip /\ todo[Len(todo)].op # "skip"
        BY <3>1 DEF DoneInv
      <3>2. p \in issue.labels.done \union cfg.skip
        BY <2>1 DEF IInv, DoneInv, Skipped
      <3>3. todo[Len(todo)].op # "skip"
        BY <1>2, <3>2 DEF IInv, DoneInv
      <3> QED
        BY <1>1, <2>1, <2>4, <2>7, <2>8, <3>2, <3>3 DEF IInv, DoneInv
    <2>15. CalmInv'
      <3> SUFFICES ASSUME hist'.calm, Untouched' PROVE CalmInv'
        BY DEF CalmInv
      <3>1. hist.calm /\ Untouched
        BY <2>8 DEF Untouched
      <3>2. "enter" \in Names(todo')
        <4>1. todo[Len(todo)].op = "enter"
          BY <1>2, <2>14, <3>1 DEF IInv, TodoInv
        <4> QED
          BY <4>1, <1>2, <2>1, LastCall
      <3>3. hist'.begun \subseteq issue'.labels.doing \union issue'.labels.done
        BY <2>4, <2>8, <2>14, <3>1 DEF IInv, CalmInv, DoneInv
      <3>4. \A q \in Phase : wf'.phases[q] = "doing" => q \in issue'.labels.doing \union issue'.labels.done
        BY <1>2, <2>4, <2>7, <3>1 DEF IInv, CalmInv
      <3> QED
        BY <3>2, <3>3, <3>4 DEF CalmInv
    <2>16. ClosingInv'
      BY <1>2, <2>8, StaysOpen
    <2> QED
      BY <2>9, <2>10, <2>11, <2>12, <2>13, <2>14, <2>15, <2>16 DEF IInv
  <1> QED
    <2>1. "ok" \in Replies
      BY DEF Replies
    <2> QED
      BY <1>3, <1>4, <2>1 DEF Skip

LEMMA SweepKeeps ==
  ASSUME IInv, Sweep
  PROVE  IInv'
  <1>1. Calls("sweep") /\ todo' = Sweeps \o Rest /\ UNCHANGED <<cfg, issue, planFile, run>>
    BY DEF Sweep
  <1>2. /\ todo # <<>> /\ Alive /\ run = "on" /\ Rest \in Seq(OpSet)
        /\ Ops(todo) = {Head(todo)} \union Ops(Rest) /\ Names(todo) = {"sweep"} \union Names(Rest)
        /\ issue \in Issues /\ hist \in Histories /\ wf \in Workflows /\ wf.step = "done"
        /\ Head(todo) = Op("sweep", Head(todo).p) /\ Ordered(Rest)
        /\ \A o \in Ops(Rest) : Allowed(Head(todo), o)
    BY <1>1, Called DEF EndOps
  <1>3. \A o \in Ops(Rest) : o.op = "unmark" /\ o.p \in Phase
    <2> SUFFICES ASSUME NEW o \in Ops(Rest) PROVE o.op = "unmark" /\ o.p \in Phase
      OBVIOUS
    <2>1. o.op = "unmark"
      BY <1>2 DEF Allowed, Op
    <2> QED
      BY <1>2, <2>1 DEF IInv, TodoInv
  <1>4. /\ todo' \in Seq(OpSet) /\ Ordered(todo') /\ Ops(todo') = Ops(Sweeps) \union Ops(Rest)
    <2>1. \A a \in Ops(Sweeps), b \in Ops(Rest) : Allowed(a, b)
      BY <1>3, SweepCalls DEF Allowed
    <2> QED
      BY <1>1, <1>2, <2>1, SweepCalls, Joined
  <1>5. \A o \in Ops(todo') : o.op = "unmark" /\ o.p \in Phase
    BY <1>3, <1>4, SweepCalls
  <1>6. Names(todo') \subseteq {"unmark"}
    BY <1>5 DEF Names
  <1>7. PICK r \in {"ok", "failed"} :
            /\ Fault(r) /\ hist' = Marked(hist, r)
            /\ wf' = IF r = "ok" THEN [wf EXCEPT !.seen = issue.labels] ELSE wf
    BY DEF Sweep
  <1>8. /\ wf' \in Workflows /\ wf'.step = wf.step /\ wf'.since = wf.since
        /\ wf'.bot = wf.bot /\ wf'.all = wf.all /\ wf'.plan = wf.plan /\ wf'.feedback = wf.feedback
        /\ wf'.phases = wf.phases /\ (wf'.seen = wf.seen \/ wf'.seen = issue.labels)
        /\ r = "ok" => wf'.seen = issue.labels
    BY <1>2, <1>7 DEF Workflows, Issues
  <1>9. /\ hist' \in Histories /\ left' \in Lefts
        /\ hist'.begun = hist.begun /\ hist'.accepted = hist.accepted /\ hist'.touched = hist.touched
        /\ hist'.finished = hist.finished /\ hist'.plans = hist.plans /\ hist'.lost = hist.lost
        /\ hist'.misread = hist.misread /\ (hist'.calm => hist.calm)
        /\ (hist'.closing => hist.closing /\ r = "ok")
    BY <1>2, <1>7, MarkedNow, FaultType DEF IInv
  <1>10. Place(wf.step) = 5 /\ PhaseOf(wf.step) = 0 /\ ~AtReview(wf.step)
    BY <1>2, Places
  <1>11. Typed'
    BY <1>1, <1>2, <1>4, <1>8, <1>9 DEF IInv, Typed, Now
  <1>12. TodoInv'
    <2>1. \A q \in Phase : ~Past(q)'
      BY <1>5 DEF Past, Op
    <2>2. \A q \in Phase : wf'.phases[q] = "done" => q < Place(wf'.step)
      BY <1>8, <1>10 DEF Phase
    <2> QED
      BY <1>1, <1>2, <1>4, <1>5, <1>6, <1>8, <1>10, <2>1, <2>2 DEF TodoInv, WorkOps, PastOps, EndOps
  <1>13. BasisInv'
    <2>1. wf'.seen.done \subseteq Phase /\ wf'.seen.skip \subseteq Phase /\ cfg.skip \subseteq Phase
          /\ issue.labels.done \subseteq Phase
      BY <1>2, <1>8, WorkflowConstants DEF Workflows, Labels, IInv, Typed, Phase, Issues
    <2> QED
      BY <1>1, <1>2, <1>8, <1>9, <1>10, <2>1 DEF IInv, BasisInv, Settled, Alive, Skipped, Phase
  <1>14. PlanInv' /\ FreshInv'
    BY <1>1, <1>2, <1>6, <1>8, <1>9, <1>10 DEF IInv, PlanInv, FreshInv, Reviewing, WorkOps
  <1>15. DoneInv'
    <2>1. \A q : Op("completed", q) \notin Ops(todo')
      BY <1>5 DEF Op
    <2>2. todo' # <<>> => todo'[Len(todo')].op # "skip"
      BY <1>4, <1>6, LastCall
    <2> QED
      BY <1>1, <1>8, <1>9, <2>1, <2>2 DEF IInv, DoneInv, Untouched
  <1>16. CalmInv'
    BY <1>1, <1>2, <1>8, <1>9, <1>10 DEF IInv, CalmInv, Alive, Untouched
  <1>17. ClosingInv'
    <2> SUFFICES ASSUME hist'.closing PROVE ClosingInv'
      BY StaysOpen
    <2>1. hist.closing /\ wf'.seen = issue.labels
      BY <1>8, <1>9
    <2>2. \A q \in Phase : ~Past(q)
      BY <1>2, <1>3 DEF Past, Op
    <2>3. \A q \in Phase : wf'.phases[q] = "done" /\ Op("unmark", q) \in Ops(todo')
      BY <1>4, <1>8, <2>1, <2>2, SweepCalls DEF IInv, ClosingInv
    <2>4. issue'.labels.doing \subseteq Phase /\ issue' = issue
      BY <1>1, <1>2 DEF Issues, Labels
    <2> QED
      BY <1>1, <1>2, <1>6, <1>8, <2>1, <2>3, <2>4 DEF ClosingInv, EndOps
  <1> QED
    BY <1>11, <1>12, <1>13, <1>14, <1>15, <1>16, <1>17 DEF IInv

LEMMA UnmarkKeeps ==
  ASSUME IInv, Unmark
  PROVE  IInv'
  <1> DEFINE p == Head(todo).p
  <1>1. Calls("unmark") /\ todo' = Rest /\ UNCHANGED <<cfg, planFile, wf, run>>
    BY DEF Unmark
  <1>2. /\ todo # <<>> /\ Alive /\ run = "on" /\ Rest \in Seq(OpSet)
        /\ Ops(todo) = {Op("unmark", p)} \union Ops(Rest) /\ Names(todo) = {"unmark"} \union Names(Rest)
        /\ issue \in Issues /\ hist \in Histories /\ wf \in Workflows /\ wf.step = "done"
        /\ Rest # <<>> => Rest[Len(Rest)] = todo[Len(todo)]
        /\ \A o \in Ops(Rest) : Allowed(Op("unmark", p), o)
    BY <1>1, Called DEF EndOps
  <1>3. p \in Phase
    <2>1. Op("unmark", p).op = "unmark" /\ Op("unmark", p).p = p
      BY DEF Op
    <2> QED
      BY <1>2, <2>1 DEF IInv, TodoInv
  <1>4. PhaseOf(wf.step) = 0
    BY <1>2, Places
  <1>5. \/ (wf.phases[p] # "done" \/ p \notin wf.seen.doing) /\ UNCHANGED <<issue, left, hist>>
        \/ \E r \in Replies :
            /\ wf.phases[p] = "done"
            /\ Fault(r) /\ hist' = Marked(hist, r)
            /\ issue' = Applied(r, Unlabelled("doing", p))
    BY DEF Unmark
  <1>6. /\ Unlabelled("doing", p) \in Issues /\ Unlabelled("doing", p).comments = issue.comments
        /\ Unlabelled("doing", p).labels.doing = issue.labels.doing \ {p}
        /\ Unlabelled("doing", p).labels.done = issue.labels.done
        /\ Unlabelled("doing", p).labels.skip = issue.labels.skip
    BY <1>2, <1>3, LabelFields
  <1>7. /\ issue' \in Issues /\ issue'.comments = issue.comments /\ issue'.labels.done = issue.labels.done
        /\ issue'.labels.skip = issue.labels.skip
        /\ issue'.labels.doing \subseteq issue.labels.doing
        /\ issue.labels.doing \subseteq issue'.labels.doing \union {p}
        /\ \/ issue' = issue
           \/ wf.phases[p] = "done"
        /\ hist'.closing => p \notin issue'.labels.doing \/ ~(wf.phases[p] = "done" /\ p \in wf.seen.doing)
        /\ hist' \in Histories /\ left' \in Lefts
        /\ hist'.begun = hist.begun /\ hist'.accepted = hist.accepted /\ hist'.touched = hist.touched
        /\ hist'.finished = hist.finished /\ hist'.plans = hist.plans /\ hist'.lost = hist.lost
        /\ hist'.misread = hist.misread /\ (hist'.calm => hist.calm)
        /\ (hist'.closing => hist.closing)
    <2>1. CASE (wf.phases[p] # "done" \/ p \notin wf.seen.doing) /\ UNCHANGED <<issue, left, hist>>
      BY <1>2, <2>1 DEF IInv, Typed
    <2>2. CASE \E r \in Replies :
            /\ wf.phases[p] = "done"
            /\ Fault(r) /\ hist' = Marked(hist, r)
            /\ issue' = Applied(r, Unlabelled("doing", p))
      <3>1. PICK r \in Replies :
            /\ wf.phases[p] = "done"
            /\ Fault(r) /\ hist' = Marked(hist, r)
            /\ issue' = Applied(r, Unlabelled("doing", p))
        BY <2>2
      <3>2. /\ hist' \in Histories /\ left' \in Lefts
            /\ hist'.begun = hist.begun /\ hist'.accepted = hist.accepted /\ hist'.touched = hist.touched
            /\ hist'.finished = hist.finished /\ hist'.plans = hist.plans /\ hist'.lost = hist.lost
            /\ hist'.misread = hist.misread /\ (hist'.calm => hist.calm)
            /\ (hist'.closing => hist.closing /\ r = "ok")
        BY <1>2, <3>1, MarkedNow, FaultType DEF IInv
      <3>3. r = "ok" => issue' = Unlabelled("doing", p)
        BY <3>1 DEF Applied
      <3> QED
        BY <1>2, <1>6, <3>1, <3>2, <3>3 DEF Applied
    <2> QED
      BY <1>5, <2>1, <2>2
  <1>8. Typed'
    BY <1>1, <1>2, <1>7 DEF IInv, Typed, Issues, Now
  <1>9. TodoInv'
    BY <1>1, <1>2, TodoPops DEF IInv
  <1>10. BasisInv' /\ PlanInv' /\ FreshInv' /\ DoneInv'
    BY <1>1, <1>2, <1>7, BasisKept, PlanKept, FreshKept, DoneKept DEF IInv
  <1>11. CalmInv'
    <2> SUFFICES ASSUME hist'.calm, Untouched' PROVE CalmInv'
      BY DEF CalmInv
    <2>1. hist.calm /\ Untouched
      BY <1>7 DEF Untouched
    <2>2. hist'.begun \subseteq issue'.labels.doing \union issue'.labels.done
      <3>1. CASE issue' = issue
        BY <1>7, <2>1, <3>1 DEF IInv, CalmInv
      <3>2. CASE wf.phases[p] = "done"
        <4>1. p \in hist.begun => p \in issue.labels.done
          BY <1>3, <2>1, <3>2 DEF IInv, DoneInv
        <4> QED
          BY <1>7, <2>1, <4>1 DEF IInv, CalmInv
      <3> QED
        BY <1>7, <3>1, <3>2
    <2>3. \A q \in Phase : wf.phases[q] = "doing" => q \in issue'.labels.doing \union issue'.labels.done
      <3> SUFFICES ASSUME NEW q \in Phase, wf.phases[q] = "doing" PROVE q \in issue'.labels.doing \union issue'.labels.done
        OBVIOUS
      <3>1. q \in issue.labels.doing \union issue.labels.done
        BY <1>2, <2>1 DEF IInv, CalmInv
      <3> QED
        BY <1>7, <3>1
    <2> QED
      BY <1>1, <1>4, <2>2, <2>3 DEF CalmInv
  <1>12. ClosingInv'
    <2> SUFFICES ASSUME hist'.closing PROVE ClosingInv'
      BY StaysOpen
    <2>1. \A q \in Phase : Past(q) => Past(q)'
      BY <1>1, <1>2 DEF Past, Op
    <2>2. "sweep" \notin Names(todo)
      <3> SUFFICES ASSUME NEW o \in Ops(Rest) PROVE o.op # "sweep"
        BY <1>2 DEF Names
      <3> QED
        BY <1>2 DEF Allowed, Op
    <2>3. ASSUME NEW q \in issue'.labels.doing, Untouched'
          PROVE  wf.phases[q] = "done" /\ q \in wf.seen.doing /\ Op("unmark", q) \in Ops(todo')
      <3>1. hist.closing /\ Untouched /\ q \in issue.labels.doing
        BY <1>7, <2>3 DEF Untouched
      <3>2. wf.phases[q] = "done" /\ q \in wf.seen.doing /\ Op("unmark", q) \in Ops(todo)
        BY <2>2, <3>1 DEF IInv, ClosingInv
      <3>3. q # p
        BY <1>7, <3>2
      <3> QED
        BY <1>1, <1>2, <3>2, <3>3 DEF Op
    <2>4. hist.closing
      BY <1>7
    <2>5. run' = "on" /\ wf'.step = "done" /\ Names(todo') \subseteq PastOps \union EndOps
      BY <1>1, <1>2, <2>4 DEF IInv, ClosingInv
    <2>6. \A q \in Phase : wf'.phases[q] = "done" \/ Past(q)'
      BY <1>1, <2>1, <2>4 DEF IInv, ClosingInv
    <2> QED
      BY <1>1, <2>3, <2>5, <2>6 DEF ClosingInv
  <1> QED
    BY <1>8, <1>9, <1>10, <1>11, <1>12 DEF IInv

-----------------------------------------------------------------------------
(* The steps: work. *)

\* A workflow that fails keeps what it knew.
LEMMA FailKeeps ==
  ASSUME IInv, run = "on", UNCHANGED <<cfg, issue, planFile, run>>, left' \in Lefts, hist' \in Histories,
         wf' \in Workflows, wf'.step = "failed", wf'.seen = wf.seen, wf'.phases = wf.phases, wf'.plan = wf.plan,
         todo' = <<>>, Bounded', hist'.begun = hist.begun, hist'.accepted = hist.accepted,
         hist'.touched = hist.touched, hist'.plans = hist.plans, ~hist'.misread,
         hist'.calm => hist.calm, ~hist'.closing
  PROVE  IInv'
  <1>1. Typed'
    BY NoCalls DEF IInv, Typed, Bounded
  <1>2. ~Alive' /\ PhaseOf("failed") = 0 /\ ~AtReview("failed")
    BY Places DEF Alive
  <1>3. TodoInv'
    <2>1. \A q \in Phase : ~Past(q)'
      BY NoCalls DEF Past
    <2> QED
      BY <1>2, <2>1, NoCalls DEF TodoInv
  <1>4. BasisInv' /\ PlanInv'
    BY <1>2, NoCalls DEF IInv, BasisInv, PlanInv, Settled
  <1>5. FreshInv'
    BY <1>2 DEF FreshInv, Reviewing
  <1>6. DoneInv'
    BY NoCalls DEF IInv, DoneInv, Untouched
  <1>7. CalmInv'
    BY <1>2 DEF IInv, CalmInv, Untouched
  <1>8. ClosingInv'
    BY StaysOpen
  <1> QED
    BY <1>1, <1>3, <1>4, <1>5, <1>6, <1>7, <1>8 DEF IInv

\* Fails as a step of an agent or of a comment does it.
LEMMA FailsKeeps ==
  ASSUME IInv, NEW name \in WorkOps, Calls(name), wf' = Fails, todo' = <<>>,
         UNCHANGED <<cfg, issue, planFile, run, hist>>,
         left.fails > 0, left' = [left EXCEPT !.fails = @ - 1]
  PROVE  IInv'
  <1>1. run = "on" /\ ~hist.closing /\ hist \in Histories /\ wf \in Workflows /\ left \in Lefts
    BY Called
  <1>2. /\ wf' \in Workflows /\ wf'.step = "failed" /\ wf'.seen = wf.seen /\ wf'.phases = wf.phases
        /\ wf'.plan = wf.plan /\ wf'.since = wf.since /\ wf'.bot = wf.bot /\ wf'.feedback = wf.feedback
    BY <1>1, Places DEF Workflows, Fails
  <1>3. left' \in Lefts
    <2>1. left.fails \in Nat
      BY <1>1 DEF Lefts
    <2>2. left.fails - 1 \in Nat
      BY <2>1
    <2>3. ASSUME NEW n \in Nat PROVE [left EXCEPT !.fails = n] \in Lefts
      BY <1>1 DEF Lefts
    <2> QED
      BY <2>2, <2>3
  <1>4. Len(issue.comments) \in Nat
    BY LenProperties DEF IInv, Typed
  <1>5. Bounded'
    BY <1>2, <1>4, StillBounded DEF IInv
  <1>6. ~hist.misread
    BY DEF IInv, FreshInv
  <1> QED
    BY <1>1, <1>2, <1>3, <1>5, <1>6, FailKeeps

LEMMA TellKeeps ==
  ASSUME IInv, Tell
  PROVE  IInv'
  <1>1. Calls("tell") /\ todo' = Rest /\ UNCHANGED <<cfg, planFile, wf, run>>
    BY DEF Tell
  <1>2. /\ todo # <<>> /\ Alive /\ run = "on" /\ Rest \in Seq(OpSet)
        /\ Ops(todo) = {Head(todo)} \union Ops(Rest) /\ Names(todo) = {"tell"} \union Names(Rest)
        /\ issue \in Issues /\ hist \in Histories /\ wf \in Workflows /\ wf.step = "done"
        /\ Rest # <<>> => Rest[Len(Rest)] = todo[Len(todo)]
        /\ Head(todo).op = "tell" /\ Names(todo) \intersect WorkOps = {}
    BY <1>1, Called DEF EndOps
  <1>3. PICK r \in Replies : Fault(r) /\ hist' = Marked(hist, r) /\ issue' = Applied(r, Said(issue, "bot"))
    BY DEF Tell
  <1>4. /\ issue' \in Issues /\ issue'.labels = issue.labels /\ Len(issue.comments) \in Nat
        /\ Len(issue'.comments) \in Nat /\ Len(issue'.comments) >= Len(issue.comments)
    <2>1. "bot" \in Sayings
      BY DEF Sayings
    <2> QED
      BY <1>2, <1>3, <2>1, SaidFields DEF Applied
  <1>5. /\ hist' \in Histories /\ left' \in Lefts
        /\ hist'.begun = hist.begun /\ hist'.accepted = hist.accepted /\ hist'.touched = hist.touched
        /\ hist'.finished = hist.finished /\ hist'.plans = hist.plans /\ hist'.lost = hist.lost
        /\ hist'.misread = hist.misread /\ (hist'.calm => hist.calm)
        /\ (hist'.closing => hist.closing)
    BY <1>2, <1>3, MarkedNow, FaultType DEF IInv
  <1>6. Typed'
    <2>1. Bounded'
      BY <1>1, <1>4, <1>5, StillBounded DEF IInv
    <2> QED
      BY <1>1, <1>2, <1>4, <1>5, <2>1 DEF IInv, Typed, Issues, Bounded
  <1>7. TodoInv'
    BY <1>1, <1>2, TodoPops DEF IInv
  <1>8. BasisInv' /\ PlanInv' /\ DoneInv' /\ CalmInv'
    BY <1>1, <1>2, <1>4, <1>5, BasisKept, PlanKept, DoneKept, CalmKept DEF IInv
  <1>9. FreshInv'
    BY <1>1, <1>2, <1>5, Places DEF IInv, FreshInv, Reviewing
  <1>10. ClosingInv'
    <2>1. \A o \in Ops(todo) : o.op \in PastOps \union {"sweep", "unmark"} => o \in Ops(todo')
      BY <1>1, <1>2 DEF PastOps
    <2> QED
      BY <1>1, <1>2, <1>4, <1>5, <2>1, ClosingKept DEF IInv
  <1> QED
    BY <1>6, <1>7, <1>8, <1>9, <1>10 DEF IInv

LEMMA BeginKeeps ==
  ASSUME IInv, Begin
  PROVE  IInv'
  <1> DEFINE p == PhaseOf(wf.step)
  <1>1. /\ run = "on" /\ todo = <<>> /\ p # 0 /\ wf' = Begun(wf) /\ todo' = Makes(wf.step)
        /\ hist' = [hist EXCEPT !.begun = hist.begun \union {p}, !.result = 0, !.finished = 0,
                                !.accepted = hist.accepted \ {p}]
        /\ UNCHANGED <<cfg, issue, planFile, run, left>>
    BY DEF Begin
  <1>2. hist \in Histories /\ wf \in Workflows /\ wf.step \in Steps /\ issue \in Issues
    BY DEF IInv, Typed, Workflows, Issues
  <1>3. /\ p \in Phase /\ Place(wf.step) = p /\ ~AtReview(wf.step) /\ wf.step # "done" /\ wf.step # "failed"
    BY <1>1, <1>2, StepKinds
  <1>4. /\ wf' \in Workflows /\ wf'.step = wf.step /\ wf'.seen = wf.seen /\ wf'.phases = wf.phases
        /\ wf'.plan = wf.plan /\ wf'.since = 0 /\ wf'.bot = {} /\ wf'.feedback = 0 /\ wf'.all = wf.all
    BY <1>1, <1>2 DEF Workflows, Begun
  <1>5. /\ hist' \in Histories /\ hist'.begun = hist.begun \union {p} /\ hist'.accepted = hist.accepted \ {p}
        /\ hist'.touched = hist.touched /\ hist'.finished = 0 /\ hist'.plans = hist.plans
        /\ hist'.lost = hist.lost /\ hist'.misread = hist.misread /\ hist'.calm = hist.calm
        /\ hist'.closing = hist.closing
    <2> DEFINE b == hist.begun \union {p}  a == hist.accepted \ {p}
    <2>1. b \in SUBSET Phase /\ a \in SUBSET Phase
      BY <1>2, <1>3 DEF Histories
    <2>2. hist' = [hist EXCEPT !.begun = b, !.result = 0, !.finished = 0, !.accepted = a]
      BY <1>1
    <2> HIDE DEF b, a
    <2>3. /\ hist' \in Histories /\ hist'.begun = b /\ hist'.accepted = a
          /\ hist'.touched = hist.touched /\ hist'.finished = 0 /\ hist'.plans = hist.plans
          /\ hist'.lost = hist.lost
      BY <1>2, <2>1, <2>2 DEF Histories
    <2>4. hist'.misread = hist.misread /\ hist'.calm = hist.calm /\ hist'.closing = hist.closing
      BY <1>2, <2>2 DEF Histories
    <2> QED
      BY <2>3, <2>4 DEF b, a
  <1>6. Alive /\ Alive'
    BY <1>1, <1>3, <1>4 DEF Alive
  <1>7. /\ todo' \in Seq(OpSet) /\ Ordered(todo') /\ todo' # <<>>
        /\ Names(todo') \subseteq WorkOps /\ "capture" \in Names(todo')
        /\ todo'[Len(todo')].op \in WorkOps /\ \A o \in Ops(todo') : o.op \in WorkOps
    <2>1. /\ todo' \in Seq(OpSet) /\ Ordered(todo') /\ todo' # <<>>
          /\ Names(todo') \subseteq WorkOps /\ "capture" \in Names(todo')
      BY <1>1, WorkCalls
    <2>2. todo'[Len(todo')].op \in WorkOps
      BY <2>1, LastCall
    <2> QED
      BY <2>1, <2>2 DEF Names
  <1>8. p \notin wf.seen.done \union Skipped
    BY <1>1, <1>3, <1>6, NoCalls DEF IInv, BasisInv
  <1>9. Typed'
    <2>1. Len(issue.comments) \in Nat
      BY <1>2, LenProperties DEF Issues
    <2> QED
      BY <1>1, <1>2, <1>4, <1>5, <1>7, <2>1 DEF IInv, Typed, Now
  <1>10. TodoInv'
    <2>1. \A q \in Phase : ~Past(q)'
      <3>1. \A q \in Phase : Op("complete", q).op \notin WorkOps /\ Op("completed", q).op \notin WorkOps
        BY DEF Op, WorkOps
      <3> QED
        BY <3>1, <1>7 DEF Past
    <2> QED
      BY <1>1, <1>3, <1>4, <1>6, <1>7, <2>1 DEF IInv, TodoInv, WorkOps, EndOps, PastOps
  <1>11. BasisInv'
    <2>1. p \in issue.labels.done => p \in hist.touched
      BY <1>3, <1>6, <1>8 DEF IInv, BasisInv, Phase
    <2>2. 1..(p - 1) \subseteq Settled'
      <3>1. 1..(p - 1) \subseteq Settled /\ p \notin 1..(p - 1)
        BY <1>3, <1>6 DEF IInv, BasisInv, Phase
      <3> QED
        BY <3>1, <1>5 DEF Settled
    <2> QED
      BY <1>1, <1>3, <1>4, <1>5, <1>6, <1>8, <2>1, <2>2 DEF IInv, BasisInv, Settled, Skipped
  <1>12. PlanInv'
    BY <1>1, <1>4, <1>5, <1>7 DEF IInv, PlanInv
  <1>13. FreshInv'
    BY <1>3, <1>4, <1>5 DEF IInv, FreshInv
  <1>14. DoneInv'
    <2>1. \A q : Op("completed", q) \notin Ops(todo')
      BY <1>7 DEF Op, WorkOps
    <2>2. todo'[Len(todo')].op # "skip"
      BY <1>7 DEF WorkOps
    <2>3. p \notin cfg.skip
      BY <1>8 DEF Skipped
    <2> QED
      BY <1>1, <1>4, <1>5, <2>1, <2>2, <2>3 DEF IInv, DoneInv, Untouched
  <1>15. CalmInv'
    <2> SUFFICES ASSUME hist.calm, Untouched PROVE CalmInv'
      BY <1>5 DEF CalmInv, Untouched
    <2>1. p \in issue.labels.doing \union issue.labels.done
      BY <1>1, <1>6, NoCalls DEF IInv, CalmInv
    <2> QED
      BY <1>1, <1>4, <1>5, <1>6, <2>1 DEF IInv, CalmInv
  <1>16. ClosingInv'
    BY <1>3, <1>5, NotClosing, StaysOpen DEF IInv
  <1> QED
    BY <1>9, <1>10, <1>11, <1>12, <1>13, <1>14, <1>15, <1>16 DEF IInv

LEMMA AgentKeeps ==
  ASSUME IInv, Agent
  PROVE  IInv'
  <1>1. Calls("agent") /\ UNCHANGED <<cfg, issue, planFile, run>>
    BY DEF Agent
  <1>2. CASE /\ todo' = Rest /\ hist' = [hist EXCEPT !.finished = Len(issue.comments)]
             /\ UNCHANGED <<wf, left>>
    <2>1. /\ todo # <<>> /\ Alive /\ run = "on" /\ Rest \in Seq(OpSet)
          /\ Ops(todo) = {Head(todo)} \union Ops(Rest) /\ Names(todo) = {"agent"} \union Names(Rest)
          /\ issue \in Issues /\ hist \in Histories /\ wf \in Workflows /\ ~AtReview(wf.step)
          /\ Rest # <<>> => Rest[Len(Rest)] = todo[Len(todo)]
          /\ ~hist.closing
      BY <1>1, Called DEF WorkOps
    <2>2. Len(issue.comments) \in Nat
      BY <2>1, LenProperties DEF Issues
    <2>3. /\ hist' \in Histories
          /\ hist'.begun = hist.begun /\ hist'.accepted = hist.accepted /\ hist'.touched = hist.touched
          /\ hist'.plans = hist.plans /\ hist'.lost = hist.lost /\ hist'.finished = Len(issue.comments)
      BY <1>2, <2>1, <2>2 DEF Histories
    <2>4. hist'.misread = hist.misread /\ hist'.calm = hist.calm /\ hist'.closing = hist.closing
      BY <1>2, <2>1 DEF Histories
    <2>5. Typed'
      BY <1>1, <1>2, <2>1, <2>2, <2>3 DEF IInv, Typed, Now
    <2>6. TodoInv'
      BY <1>1, <1>2, <2>1, TodoPops DEF IInv
    <2>7. BasisInv' /\ PlanInv' /\ DoneInv' /\ CalmInv'
      BY <1>1, <1>2, <2>1, <2>3, <2>4, BasisKept, PlanKept, DoneKept, CalmKept DEF IInv
    <2>8. FreshInv'
      <3>1. Reviewing
        BY <2>1 DEF Reviewing, WorkOps
      <3>2. wf.since = 0
        BY <2>1, <3>1 DEF IInv, FreshInv
      <3> QED
        BY <1>1, <1>2, <2>1, <2>4, <3>2 DEF IInv, FreshInv
    <2>9. ClosingInv'
      BY <2>1, <2>4, StaysOpen
    <2> QED
      BY <2>5, <2>6, <2>7, <2>8, <2>9 DEF IInv
  <1>3. CASE /\ left.fails > 0 /\ left' = [left EXCEPT !.fails = @ - 1]
             /\ wf' = Fails /\ todo' = <<>> /\ UNCHANGED hist
    BY <1>1, <1>3, FailsKeeps DEF WorkOps
  <1> QED
    BY <1>2, <1>3 DEF Agent

LEMMA CaptureKeeps ==
  ASSUME IInv, Capture
  PROVE  IInv'
  <1>1. Calls("capture") /\ UNCHANGED <<cfg, issue, run, left>>
    BY DEF Capture
  <1>2. /\ todo # <<>> /\ Alive /\ run = "on" /\ Rest \in Seq(OpSet)
        /\ Ops(todo) = {Head(todo)} \union Ops(Rest) /\ Names(todo) = {"capture"} \union Names(Rest)
        /\ issue \in Issues /\ hist \in Histories /\ wf \in Workflows /\ wf.step \in Steps /\ ~AtReview(wf.step)
        /\ Rest # <<>> => Rest[Len(Rest)] = todo[Len(todo)]
        /\ ~hist.closing /\ Names(todo) \subseteq WorkOps
    BY <1>1, Called DEF WorkOps
  <1>3. planFile \in Nat /\ hist.plans \in Nat /\ Len(issue.comments) \in Nat
    BY <1>2, LenProperties DEF IInv, Typed, Histories, Issues
  <1>4. CASE /\ wf.step = "planning" /\ todo' = Rest
             /\ hist' = [hist EXCEPT !.plans = hist.plans + 1] /\ planFile' = hist.plans + 1
             /\ wf' = [wf EXCEPT !.plan = hist.plans + 1]
    <2> DEFINE n == hist.plans + 1
    <2>1. n \in Nat /\ hist' = [hist EXCEPT !.plans = n] /\ planFile' = n /\ wf' = [wf EXCEPT !.plan = n]
      BY <1>3, <1>4
    <2> HIDE DEF n
    <2>2. /\ hist' \in Histories
          /\ hist'.begun = hist.begun /\ hist'.accepted = hist.accepted /\ hist'.touched = hist.touched
          /\ hist'.finished = hist.finished /\ hist'.plans = n /\ hist'.lost = hist.lost
      BY <1>2, <2>1 DEF Histories
    <2>3. hist'.misread = hist.misread /\ hist'.calm = hist.calm /\ hist'.closing = hist.closing
      BY <1>2, <2>1 DEF Histories
    <2>4. /\ wf' \in Workflows /\ wf'.step = wf.step /\ wf'.seen = wf.seen /\ wf'.phases = wf.phases
          /\ wf'.plan = n /\ wf'.since = wf.since /\ wf'.bot = wf.bot /\ wf'.feedback = wf.feedback
          /\ wf'.all = wf.all
      BY <1>2, <2>1 DEF Workflows
    <2>5. Typed'
      BY <1>1, <1>2, <1>4, <2>1, <2>2, <2>4 DEF IInv, Typed, Now
    <2>6. TodoInv'
      BY <1>1, <1>2, <1>4, <2>4, TodoPops DEF IInv
    <2>7. BasisInv' /\ FreshInv' /\ DoneInv' /\ CalmInv'
      BY <1>1, <1>2, <1>4, <2>2, <2>3, <2>4, BasisKept, FreshKept, DoneKept, CalmKept DEF IInv
    <2>8. PlanInv'
      BY <2>1, <2>2, <2>4 DEF PlanInv
    <2>9. ClosingInv'
      BY <1>2, <2>3, StaysOpen
    <2> QED
      BY <2>5, <2>6, <2>7, <2>8, <2>9 DEF IInv
  <1>5. CASE wf.step # "planning" /\ UNCHANGED <<planFile, wf, hist>> /\ todo' = Rest
    <2>1. Typed'
      BY <1>1, <1>2, <1>5 DEF IInv, Typed, Now
    <2>2. TodoInv'
      BY <1>1, <1>2, <1>5, TodoPops DEF IInv
    <2>3. BasisInv' /\ PlanInv' /\ FreshInv' /\ DoneInv' /\ CalmInv'
      BY <1>1, <1>2, <1>5, BasisKept, PlanKept, FreshKept, DoneKept, CalmKept DEF IInv
    <2>4. ClosingInv'
      BY <1>2, <1>5, StaysOpen
    <2> QED
      BY <2>1, <2>2, <2>3, <2>4 DEF IInv
  <1>6. CASE /\ wf.step = "building" /\ UNCHANGED planFile
             /\ wf' = [wf EXCEPT !.step = "done"]
             /\ todo' = <<Op("tell", 0)>> \o Boundary("done")
             /\ hist' = [hist EXCEPT !.accepted = Phase, !.closing = TRUE]
    <2>1. /\ Place("done") = 5 /\ PhaseOf("done") = 0 /\ ~AtReview("done") /\ "done" \in Steps
      BY Places
    <2>2. /\ hist' \in Histories
          /\ hist'.begun = hist.begun /\ hist'.accepted = Phase /\ hist'.touched = hist.touched
          /\ hist'.finished = hist.finished /\ hist'.plans = hist.plans /\ hist'.lost = hist.lost
      BY <1>2, <1>6 DEF Histories
    <2>3. hist'.misread = hist.misread /\ hist'.calm = hist.calm
      BY <1>2, <1>6 DEF Histories
    <2>4. /\ wf' \in Workflows /\ wf'.step = "done" /\ wf'.seen = wf.seen /\ wf'.phases = wf.phases
          /\ wf'.plan = wf.plan /\ wf'.since = wf.since /\ wf'.bot = wf.bot /\ wf'.feedback = wf.feedback
          /\ wf'.all = wf.all
      BY <1>2, <1>6, <2>1 DEF Workflows
    <2>5. /\ todo' \in Seq(OpSet) /\ Ordered(todo') /\ todo' # <<>>
          /\ Names(todo') \subseteq {"tell", "complete", "sweep"} /\ "sweep" \in Names(todo')
          /\ \A q \in Phase : Op("complete", q) \in Ops(todo')
          /\ \A o \in Ops(todo') : o.op \in {"tell", "complete", "sweep"} /\ (o.op = "complete" => o.p \in Phase)
      BY <1>6, EndCalls DEF Names
    <2>6. Typed'
      BY <1>1, <1>2, <1>6, <2>2, <2>4, <2>5 DEF IInv, Typed, Now
    <2>7. TodoInv'
      <3>1. \A q \in Phase : q < Place(wf'.step)
        BY <2>1, <2>4 DEF Phase
      <3>2. \A o \in Ops(todo') : o.op \in PastOps \union {"unmark"} => o.p \in Phase
        BY <2>5 DEF PastOps
      <3> QED
        BY <1>1, <1>2, <2>1, <2>4, <2>5, <3>1, <3>2 DEF TodoInv, WorkOps, PastOps, EndOps
    <2>8. BasisInv'
      <3>1. wf.seen.done \subseteq Phase /\ wf.seen.skip \subseteq Phase /\ cfg.skip \subseteq Phase
            /\ issue.labels.done \subseteq Phase
        BY <1>2, WorkflowConstants DEF Workflows, Labels, IInv, Typed, Phase, Issues
      <3> QED
        BY <1>1, <2>1, <2>2, <2>4, <3>1 DEF BasisInv, Settled, Skipped, Phase
    <2>9. PlanInv'
      <3>1. wf.step # "planning" /\ wf.step # "failed"
        BY <1>6
      <3> QED
        BY <1>1, <1>2, <1>6, <2>2, <2>4, <3>1 DEF IInv, PlanInv
    <2>10. FreshInv'
      BY <2>1, <2>3, <2>4, <2>5 DEF IInv, FreshInv, Reviewing, WorkOps
    <2>11. DoneInv'
      <3>1. \A q : Op("completed", q) \notin Ops(todo')
        BY <2>5 DEF Op
      <3>2. todo'[Len(todo')].op # "skip"
        BY <2>5, LastCall
      <3> QED
        BY <1>1, <2>2, <2>4, <3>1, <3>2 DEF IInv, DoneInv, Untouched
    <2>12. CalmInv'
      BY <1>1, <1>2, <2>1, <2>2, <2>3, <2>4 DEF IInv, CalmInv, Untouched, Alive
    <2>13. ClosingInv'
      <3>1. Names(todo') \subseteq PastOps \union EndOps
        BY <2>5 DEF PastOps, EndOps
      <3>2. \A q \in Phase : Past(q)'
        BY <2>5 DEF Past
      <3> QED
        BY <1>1, <1>2, <2>4, <2>5, <3>1, <3>2 DEF ClosingInv
    <2> QED
      BY <2>6, <2>7, <2>8, <2>9, <2>10, <2>11, <2>12, <2>13 DEF IInv
  <1> QED
    BY <1>4, <1>5, <1>6 DEF Capture

LEMMA PostKeeps ==
  ASSUME IInv, Post
  PROVE  IInv'
  <1>1. Calls("post") /\ UNCHANGED <<cfg, planFile, run>>
    BY DEF Post
  <1>2. CASE /\ left.fails > 0 /\ left' = [left EXCEPT !.fails = @ - 1]
             /\ wf' = Fails /\ todo' = <<>> /\ UNCHANGED <<issue, hist>>
    BY <1>1, <1>2, FailsKeeps DEF WorkOps
  <1>3. CASE /\ todo' = Rest
             /\ \E r \in Replies :
                LET last == r = "ok" /\ Head(todo).p = 1  n == Len(issue.comments) + 1 IN
                /\ Fault(r) /\ issue' = Applied(r, Said(issue, "bot"))
                /\ wf' = [wf EXCEPT !.bot = IF r = "ok" THEN @ \union {n} ELSE @,
                                    !.since = IF last THEN n ELSE @]
                /\ hist' = Marked([hist EXCEPT !.result = IF last THEN n ELSE @], r)
    <2> DEFINE n == Len(issue.comments) + 1
    <2>1. /\ todo # <<>> /\ Alive /\ run = "on" /\ Rest \in Seq(OpSet)
          /\ Ops(todo) = {Head(todo)} \union Ops(Rest) /\ Names(todo) = {"post"} \union Names(Rest)
          /\ issue \in Issues /\ hist \in Histories /\ wf \in Workflows /\ wf.step \in Steps /\ ~AtReview(wf.step)
          /\ Rest # <<>> => Rest[Len(Rest)] = todo[Len(todo)]
          /\ ~hist.closing /\ Names(todo) \subseteq WorkOps /\ Head(todo).op = "post"
          /\ \A o \in Ops(Rest) : Allowed(Head(todo), o)
      BY <1>1, Called DEF WorkOps
    <2>2. PICK r \in Replies :
                LET last == r = "ok" /\ Head(todo).p = 1 IN
                /\ Fault(r) /\ issue' = Applied(r, Said(issue, "bot"))
                /\ wf' = [wf EXCEPT !.bot = IF r = "ok" THEN @ \union {n} ELSE @,
                                    !.since = IF last THEN n ELSE @]
                /\ hist' = Marked([hist EXCEPT !.result = IF last THEN n ELSE @], r)
      BY <1>3
    <2>3. Len(issue.comments) \in Nat /\ n \in Nat
      BY <2>1, LenProperties DEF Issues
    <2>4. /\ Said(issue, "bot") \in Issues /\ Said(issue, "bot").labels = issue.labels
          /\ Len(Said(issue, "bot").comments) = n
          /\ \A k \in 1..Len(issue.comments) : Said(issue, "bot").comments[k] = issue.comments[k]
      <3>1. "bot" \in Sayings
        BY DEF Sayings
      <3> QED
        BY <2>1, <3>1, SaidFields
    <2>5. /\ issue' \in Issues /\ issue'.labels = issue.labels /\ Len(issue'.comments) \in Nat
          /\ Len(issue'.comments) >= Len(issue.comments) /\ Len(issue'.comments) <= n
          /\ r = "ok" => Len(issue'.comments) = n
      BY <2>1, <2>2, <2>3, <2>4 DEF Applied, Replies
    <2>6. /\ wf' \in Workflows /\ wf'.step = wf.step /\ wf'.seen = wf.seen /\ wf'.phases = wf.phases
          /\ wf'.plan = wf.plan /\ wf'.feedback = wf.feedback /\ wf'.all = wf.all
          /\ wf'.bot = (IF r = "ok" THEN wf.bot \union {n} ELSE wf.bot)
          /\ wf'.since = (IF r = "ok" /\ Head(todo).p = 1 THEN n ELSE wf.since)
      <3> DEFINE b == IF r = "ok" THEN wf.bot \union {n} ELSE wf.bot
                 s == IF r = "ok" /\ Head(todo).p = 1 THEN n ELSE wf.since
      <3>1. b \in SUBSET Nat /\ s \in Nat
        BY <2>1, <2>3 DEF Workflows
      <3>2. wf' = [wf EXCEPT !.bot = b, !.since = s]
        BY <2>2
      <3> HIDE DEF b, s
      <3>3. /\ wf' \in Workflows /\ wf'.step = wf.step /\ wf'.seen = wf.seen /\ wf'.phases = wf.phases
            /\ wf'.plan = wf.plan /\ wf'.feedback = wf.feedback /\ wf'.all = wf.all
            /\ wf'.bot = b /\ wf'.since = s
        BY <2>1, <3>1, <3>2 DEF Workflows
      <3> QED
        BY <3>3 DEF b, s
    <2>7. /\ hist' \in Histories /\ left' \in Lefts
          /\ hist'.begun = hist.begun /\ hist'.accepted = hist.accepted /\ hist'.touched = hist.touched
          /\ hist'.finished = hist.finished /\ hist'.plans = hist.plans /\ hist'.lost = hist.lost
          /\ hist'.misread = hist.misread /\ (hist'.calm => hist.calm)
          /\ (hist'.closing => hist.closing)
      <3> DEFINE x == IF r = "ok" /\ Head(todo).p = 1 THEN n ELSE hist.result
                 h == [hist EXCEPT !.result = x]
      <3>1. x \in Nat
        BY <2>1, <2>3 DEF Histories
      <3>2. hist' = Marked(h, r)
        BY <2>2
      <3> HIDE DEF x
      <3>3. /\ h \in Histories /\ h.begun = hist.begun /\ h.accepted = hist.accepted /\ h.touched = hist.touched
            /\ h.finished = hist.finished /\ h.plans = hist.plans /\ h.lost = hist.lost
            /\ h.misread = hist.misread /\ h.calm = hist.calm /\ h.closing = hist.closing
        BY <2>1, <3>1 DEF Histories
      <3> HIDE DEF h
      <3>4. hist'.calm => h.calm
        BY <3>2, <3>3 DEF Marked, Histories
      <3>5. hist'.closing => h.closing
        BY <3>2, <3>3 DEF Marked, Histories
      <3>6. left' \in Lefts
        BY <2>2, FaultType DEF IInv
      <3> QED
        BY <3>2, <3>3, <3>4, <3>5, <3>6, MarkedFields
    <2>8. Typed'
      <3>1. wf'.since <= Now(issue')
        BY <2>3, <2>5, <2>6, <2>1 DEF IInv, Typed, Now, Workflows
      <3>2. wf'.bot \subseteq 1..Len(issue'.comments)
        BY <2>3, <2>5, <2>6, <2>1 DEF IInv, Typed, Workflows
      <3>3. /\ wf'.feedback <= Len(issue'.comments) /\ hist'.finished <= Len(issue'.comments)
            /\ hist'.lost \subseteq 1..Len(issue'.comments)
        <4>1. /\ wf.feedback <= Len(issue.comments) /\ hist.finished <= Len(issue.comments)
              /\ hist.lost \subseteq 1..Len(issue.comments)
          BY DEF IInv, Typed
        <4>2. wf.feedback \in Nat /\ hist.finished \in Nat
          BY <2>1 DEF Workflows, Histories
        <4>3. 1..Len(issue.comments) \subseteq 1..Len(issue'.comments)
          BY <2>3, <2>5
        <4> QED
          BY <2>3, <2>5, <2>6, <2>7, <4>1, <4>2, <4>3
      <3> QED
        BY <1>1, <1>3, <2>1, <2>5, <2>6, <2>7, <3>1, <3>2, <3>3 DEF IInv, Typed, Issues, Now
    <2>9. TodoInv'
      BY <1>1, <1>3, <2>1, <2>6, TodoPops DEF IInv
    <2>10. BasisInv' /\ PlanInv' /\ DoneInv' /\ CalmInv'
      BY <1>1, <1>3, <2>1, <2>5, <2>6, <2>7, BasisKept, PlanKept, DoneKept, CalmKept DEF IInv
    <2>11. FreshInv'
      <3>1. wf.since = 0
        <4>1. Reviewing
          BY <2>1 DEF Reviewing, WorkOps
        <4> QED
          BY <2>1, <4>1 DEF IInv, FreshInv
      <3>2. CASE r = "ok" /\ Head(todo).p = 1
        <4>1. wf'.since = n /\ n \in wf'.bot /\ n > hist'.finished /\ Len(issue'.comments) = n
          BY <2>1, <2>3, <2>5, <2>6, <2>7, <3>2 DEF IInv, Typed, Histories
        <4>2. Names(Rest) \intersect {"agent", "post"} = {}
          <5> SUFFICES ASSUME NEW o \in Ops(Rest) PROVE o.op \notin {"agent", "post"}
            BY DEF Names
          <5> QED
            BY <2>1, <3>2 DEF Allowed
        <4>3. \A k \in 1..Len(issue'.comments) : k >= wf'.since => k \in wf'.bot
          BY <2>3, <4>1
        <4> QED
          BY <1>3, <2>1, <2>3, <2>6, <2>7, <4>1, <4>2, <4>3 DEF IInv, FreshInv
      <3>3. CASE ~(r = "ok" /\ Head(todo).p = 1)
        BY <2>1, <2>6, <2>7, <3>1, <3>3 DEF IInv, FreshInv
      <3> QED
        BY <3>2, <3>3
    <2>12. ClosingInv'
      BY <2>1, <2>7, StaysOpen
    <2> QED
      BY <2>8, <2>9, <2>10, <2>11, <2>12 DEF IInv
  <1> QED
    BY <1>2, <1>3 DEF Post

LEMMA ToReviewKeeps ==
  ASSUME IInv, ToReview
  PROVE  IInv'
  <1> DEFINE p == PhaseOf(wf.step)
  <1>1. Calls("review") /\ UNCHANGED <<cfg, issue, planFile, run, hist, left>>
    BY DEF ToReview
  <1>2. /\ todo # <<>> /\ Alive /\ run = "on" /\ Rest \in Seq(OpSet) /\ Head(todo).op = "review"
        /\ Ops(todo) = {Head(todo)} \union Ops(Rest) /\ Names(todo) = {"review"} \union Names(Rest)
        /\ issue \in Issues /\ hist \in Histories /\ wf \in Workflows /\ wf.step \in Steps
        /\ ~hist.closing /\ p \in Phase /\ Place(wf.step) = p
        /\ \A o \in Ops(Rest) : Allowed(Head(todo), o)
    BY <1>1, Called DEF WorkOps
  <1>3. Rest = <<>>
    BY <1>2, LastCall DEF Allowed
  <1>4. Names(todo) = {"review"}
    BY <1>2, <1>3, NoCalls
  <1>5. PICK s : /\ s = StepAfter(wf.step) /\ wf' = [wf EXCEPT !.step = s]
                 /\ todo' = IF AtReview(s) /\ ~AutoApproves(wf, s) THEN <<Op("waiting", 0)>> ELSE <<>>
    BY <1>3 DEF ToReview
  <1>6. /\ s \in Steps /\ Place(s) = p /\ s # "planning" /\ s # "done" /\ s # "failed"
        /\ PhaseOf(s) \in {0, p} /\ (PhaseOf(s) = 0 => AtReview(s)) /\ (AtReview(s) => PhaseOf(s) = 0)
    <2>1. 2 \in Phase
      BY DEF Phase
    <2>2. CASE wf.step = "building"
      <3>1. s = "creating_pr" /\ p = 2
        BY <1>2, <1>5, <2>2, StepKinds
      <3> QED
        BY <3>1, Places
    <2>3. CASE wf.step # "building"
      <3>1. s = Review[p]
        BY <1>2, <1>5, <2>3, StepKinds DEF Phase
      <3>2. s # "planning"
        BY <3>1, <1>2, Places DEF Phase
      <3> QED
        BY <3>1, <3>2, <1>2, Places
    <2> QED
      BY <2>2, <2>3
  <1>7. /\ wf' \in Workflows /\ wf'.step = s /\ wf'.seen = wf.seen /\ wf'.phases = wf.phases
        /\ wf'.plan = wf.plan /\ wf'.since = wf.since /\ wf'.bot = wf.bot /\ wf'.feedback = wf.feedback
        /\ wf'.all = wf.all
    BY <1>2, <1>5, <1>6 DEF Workflows
  <1>8. /\ todo' \in Seq(OpSet) /\ Ordered(todo') /\ Names(todo') \subseteq {"waiting"}
        /\ todo' # <<>> => AtReview(s) /\ ~AutoApproves(wf, s) /\ Names(todo') = {"waiting"}
        /\ AtReview(s) => AutoApproves(wf, s) \/ Names(todo') = {"waiting"}
        /\ \A o \in Ops(todo') : o.op = "waiting"
        /\ todo' # <<>> => todo'[Len(todo')].op = "waiting"
    <2>1. Op("waiting", 0) \in OpSet /\ Op("waiting", 0).op = "waiting"
      BY DEF Op, OpSet
    <2> DEFINE o == Op("waiting", 0)
    <2> HIDE DEF o
    <2>2. /\ <<o>> \in Seq(OpSet) /\ Ops(<<o>>) = {o} /\ Names(<<o>>) = {"waiting"} /\ Ordered(<<o>>)
          /\ <<o>>[Len(<<o>>)] = o /\ o.op = "waiting"
      BY <2>1, One DEF o
    <2>3. todo' = IF AtReview(s) /\ ~AutoApproves(wf, s) THEN <<o>> ELSE <<>>
      BY <1>5 DEF o
    <2> QED
      BY <2>2, <2>3, NoCalls
  <1>9. \A x : AutoApproves(wf, x)' <=> AutoApproves(wf, x)
    BY <1>1, <1>7 DEF AutoApproves
  <1>10. Typed'
    BY <1>1, <1>2, <1>7, <1>8 DEF IInv, Typed, Now
  <1>11. TodoInv'
    <2>1. \A q \in Phase : ~Past(q)'
      BY <1>8 DEF Past, Op
    <2>2. \A q \in Phase : wf'.phases[q] = "done" => q < Place(wf'.step)
      BY <1>2, <1>6, <1>7 DEF IInv, TodoInv
    <2>4. \A o \in Ops(todo') : o.op \notin PastOps \union {"unmark"}
      BY <1>8 DEF PastOps
    <2>5. Names(todo') \intersect WorkOps = {} /\ Names(todo') \intersect EndOps = {} /\ "refresh" \notin Names(todo')
          /\ "skip" \notin Names(todo')
      BY <1>8 DEF WorkOps, EndOps
    <2>6. "waiting" \in Names(todo') => AtReview(s) /\ ~AutoApproves(wf, s) /\ Names(todo') = {"waiting"}
      BY <1>8, NoCalls
    <2>7. ~AutoApproves(wf, s) => ~AutoApproves(wf, wf.step)'
      BY <1>1, <1>7 DEF AutoApproves
    <2> QED
      BY <1>1, <1>2, <1>6, <1>7, <1>8, <2>1, <2>2, <2>4, <2>5, <2>6, <2>7 DEF TodoInv
  <1>12. BasisInv'
    <2>1. p \notin wf.seen.done \union Skipped
      BY <1>2, <1>4 DEF IInv, BasisInv
    <2> QED
      BY <1>1, <1>2, <1>6, <1>7, <2>1 DEF IInv, BasisInv, Settled, Alive, Skipped
  <1>13. PlanInv'
    <2>1. wf.plan = hist.plans
      BY <1>2, <1>4 DEF IInv, PlanInv, Alive
    <2> QED
      BY <1>1, <1>6, <1>7, <2>1 DEF IInv, PlanInv
  <1>14. FreshInv'
    <2>1. Reviewing
      BY <1>2 DEF Reviewing, WorkOps
    <2>2. AutoApproves(wf, s) => AutoApproves(wf, wf.step)'
      BY <1>1, <1>7 DEF AutoApproves
    <2> QED
      BY <1>1, <1>7, <1>8, <2>1, <2>2 DEF IInv, FreshInv
  <1>15. DoneInv'
    <2>1. \A q : Op("completed", q) \notin Ops(todo')
      BY <1>8 DEF Op
    <2> QED
      BY <1>1, <1>7, <1>8, <2>1 DEF IInv, DoneInv, Untouched
  <1>16. CalmInv'
    BY <1>1, <1>2, <1>4, <1>6, <1>7 DEF IInv, CalmInv, Untouched, Alive
  <1>17. ClosingInv'
    BY <1>1, <1>2, StaysOpen
  <1> QED
    BY <1>10, <1>11, <1>12, <1>13, <1>14, <1>15, <1>16, <1>17 DEF IInv

LEMMA WaitingKeeps ==
  ASSUME IInv, Waiting
  PROVE  IInv'
  <1> DEFINE n == Len(issue.comments) + 1
  <1>1. Calls("waiting") /\ todo' = Rest /\ UNCHANGED <<cfg, planFile, run>>
    BY DEF Waiting
  <1>2. /\ todo # <<>> /\ Alive /\ run = "on" /\ Rest \in Seq(OpSet) /\ Head(todo).op = "waiting"
        /\ Ops(todo) = {Head(todo)} \union Ops(Rest) /\ Names(todo) = {"waiting"} \union Names(Rest)
        /\ issue \in Issues /\ hist \in Histories /\ wf \in Workflows /\ wf.step \in Steps
        /\ \A o \in Ops(Rest) : Allowed(Head(todo), o)
    BY <1>1, Called
  <1>3. Rest = <<>> /\ AtReview(wf.step) /\ PhaseOf(wf.step) = 0
    <2>1. Rest = <<>>
      BY <1>2, LastCall DEF Allowed
    <2>2. AtReview(wf.step)
      BY <1>2 DEF IInv, TodoInv
    <2> QED
      BY <1>2, <2>1, <2>2, StepKinds
  <1>4. PICK r \in Replies :
        /\ Fault(r) /\ issue' = Applied(r, Said(issue, "bot"))
        /\ wf' = [wf EXCEPT !.bot = IF r = "ok" THEN @ \union {n} ELSE @, !.since = Since(wf, n, r, issue')]
        /\ hist' = Marked([hist EXCEPT !.lost = IF r = "lost" THEN @ \union {n} ELSE @], r)
    BY DEF Waiting
  <1>5. Len(issue.comments) \in Nat /\ n \in Nat
    BY <1>2, LenProperties DEF Issues
  <1>6. /\ Said(issue, "bot") \in Issues /\ Said(issue, "bot").labels = issue.labels
        /\ Len(Said(issue, "bot").comments) = n
        /\ \A k \in 1..Len(issue.comments) : Said(issue, "bot").comments[k] = issue.comments[k]
    <2>1. "bot" \in Sayings
      BY DEF Sayings
    <2> QED
      BY <1>2, <2>1, SaidFields
  <1>7. /\ issue' \in Issues /\ issue'.labels = issue.labels
        /\ r = "failed" => issue' = issue
        /\ r # "failed" => Len(issue'.comments) = n
        /\ Len(issue'.comments) \in {n - 1, n}
        /\ \A k \in 1..Len(issue.comments) : issue'.comments[k] = issue.comments[k]
    BY <1>2, <1>4, <1>5, <1>6 DEF Applied
  <1>8. /\ wf' \in Workflows /\ wf'.step = wf.step /\ wf'.seen = wf.seen /\ wf'.phases = wf.phases
        /\ wf'.plan = wf.plan /\ wf'.feedback = wf.feedback /\ wf'.all = wf.all
        /\ wf'.bot = (IF r = "ok" THEN wf.bot \union {n} ELSE wf.bot)
        /\ wf'.since = (IF wf.since # 0 THEN wf.since ELSE IF r = "ok" THEN n ELSE Len(issue'.comments) + 1)
    <2> DEFINE b == IF r = "ok" THEN wf.bot \union {n} ELSE wf.bot
               s == IF wf.since # 0 THEN wf.since ELSE IF r = "ok" THEN n ELSE Len(issue'.comments) + 1
    <2>1. b \in SUBSET Nat /\ s \in Nat
      BY <1>2, <1>5, <1>7 DEF Workflows
    <2>2. wf' = [wf EXCEPT !.bot = b, !.since = s]
      BY <1>4 DEF Since, Now
    <2> HIDE DEF b, s
    <2>3. /\ wf' \in Workflows /\ wf'.step = wf.step /\ wf'.seen = wf.seen /\ wf'.phases = wf.phases
          /\ wf'.plan = wf.plan /\ wf'.feedback = wf.feedback /\ wf'.all = wf.all
          /\ wf'.bot = b /\ wf'.since = s
      BY <1>2, <2>1, <2>2 DEF Workflows
    <2> QED
      BY <2>3 DEF b, s
  <1>9. /\ hist' \in Histories /\ left' \in Lefts
        /\ hist'.begun = hist.begun /\ hist'.accepted = hist.accepted /\ hist'.touched = hist.touched
        /\ hist'.finished = hist.finished /\ hist'.plans = hist.plans
        /\ hist'.lost = (IF r = "lost" THEN hist.lost \union {n} ELSE hist.lost)
        /\ hist'.misread = hist.misread /\ (hist'.calm => hist.calm)
        /\ (hist'.closing => hist.closing)
    <2> DEFINE x == IF r = "lost" THEN hist.lost \union {n} ELSE hist.lost
               h == [hist EXCEPT !.lost = x]
    <2>1. x \in SUBSET Nat
      BY <1>2, <1>5 DEF Histories
    <2>2. hist' = Marked(h, r)
      BY <1>4
    <2>3. ASSUME NEW y \in SUBSET Nat, NEW g, g = [hist EXCEPT !.lost = y]
          PROVE  /\ g \in Histories /\ g.begun = hist.begun /\ g.accepted = hist.accepted /\ g.touched = hist.touched
                 /\ g.finished = hist.finished /\ g.plans = hist.plans /\ g.lost = y
                 /\ g.misread = hist.misread /\ g.calm = hist.calm /\ g.closing = hist.closing
      BY <1>2, <2>3 DEF Histories
    <2> HIDE DEF x
    <2>4. /\ h \in Histories /\ h.begun = hist.begun /\ h.accepted = hist.accepted /\ h.touched = hist.touched
          /\ h.finished = hist.finished /\ h.plans = hist.plans /\ h.lost = x
          /\ h.misread = hist.misread /\ h.calm = hist.calm /\ h.closing = hist.closing
      BY <2>1, <2>3
    <2> HIDE DEF h
    <2>5. hist'.calm => h.calm
      BY <2>2, <2>4 DEF Marked, Histories
    <2>6. hist'.closing => h.closing
      BY <2>2, <2>4 DEF Marked, Histories
    <2>7. left' \in Lefts
      BY <1>4, FaultType DEF IInv
    <2> QED
      <3>1. /\ hist' \in Histories /\ hist'.begun = h.begun /\ hist'.accepted = h.accepted
            /\ hist'.touched = h.touched /\ hist'.finished = h.finished /\ hist'.plans = h.plans
            /\ hist'.lost = h.lost /\ hist'.misread = h.misread
        BY <2>2, <2>4, MarkedFields
      <3> QED
        BY <2>4, <2>5, <2>6, <2>7, <3>1 DEF x
  <1>10. /\ wf.since \in Nat /\ hist.finished \in Nat /\ hist.finished <= Len(issue.comments)
         /\ wf.since <= n /\ wf.bot \subseteq 1..Len(issue.comments) /\ hist.lost \subseteq 1..Len(issue.comments)
         /\ wf.feedback \in Nat /\ wf.feedback <= Len(issue.comments)
    BY <1>2 DEF IInv, Typed, Workflows, Histories, Now
  <1>11. Typed'
    <2>1. wf'.since <= Now(issue')
      BY <1>5, <1>7, <1>8, <1>10 DEF Now
    <2>2. wf'.bot \subseteq 1..Len(issue'.comments)
      BY <1>5, <1>7, <1>8, <1>10, <1>4 DEF Replies
    <2>3. hist'.lost \subseteq 1..Len(issue'.comments)
      BY <1>5, <1>7, <1>9, <1>10
    <2>4. wf'.feedback <= Len(issue'.comments) /\ hist'.finished <= Len(issue'.comments)
      BY <1>5, <1>7, <1>8, <1>9, <1>10
    <2> QED
      BY <1>1, <1>2, <1>7, <1>8, <1>9, <2>1, <2>2, <2>3, <2>4 DEF IInv, Typed, Issues, Now
  <1>12. TodoInv'
    BY <1>1, <1>2, <1>8, TodoPops DEF IInv
  <1>13. BasisInv' /\ PlanInv' /\ DoneInv' /\ CalmInv'
    BY <1>1, <1>2, <1>3, <1>7, <1>8, <1>9, BasisKept, PlanKept, DoneKept, CalmKept DEF IInv
  <1>14. FreshInv'
    <2>1. wf'.since # 0 /\ wf'.since > hist'.finished
      <3>1. Reviewing
        BY <1>2, <1>3 DEF Reviewing
      <3>2. wf.since # 0 => wf.since > hist.finished
        BY <3>1 DEF IInv, FreshInv
      <3> QED
        BY <1>5, <1>7, <1>8, <1>9, <1>10, <3>2
    <2>2. ASSUME NEW k \in 1..Len(issue'.comments), k >= wf'.since, issue'.comments[k] = "bot"
          PROVE  k \in wf'.bot \union hist'.lost
      <3>1. CASE k <= Len(issue.comments)
        <4>1. k \in 1..Len(issue.comments) /\ issue.comments[k] = "bot"
          BY <1>5, <1>7, <2>2, <3>1
        <4>2. wf.since # 0 /\ k >= wf.since
          BY <1>5, <1>7, <1>8, <2>2, <3>1
        <4>3. Reviewing
          BY <1>2, <1>3 DEF Reviewing
        <4>4. k \in wf.bot \union hist.lost
          BY <4>1, <4>2, <4>3 DEF IInv, FreshInv
        <4> QED
          BY <4>4, <1>8, <1>9
      <3>2. CASE k > Len(issue.comments)
        <4>1. k = n /\ r # "failed"
          BY <1>5, <1>7, <2>2, <3>2
        <4>2. r = "ok" \/ r = "lost"
          BY <4>1 DEF Replies
        <4>3. r = "ok" => k \in wf'.bot
          BY <4>1, <1>8
        <4>4. r = "lost" => k \in hist'.lost
          BY <4>1, <1>9
        <4> QED
          BY <4>2, <4>3, <4>4
      <3> QED
        BY <1>5, <1>7, <3>1, <3>2
    <2>3. Names(todo') = {}
      BY <1>1, <1>3, NoCalls
    <2> QED
      BY <1>9, <2>1, <2>2, <2>3 DEF IInv, FreshInv
  <1>15. ClosingInv'
    <2>1. ~hist.closing
      BY <1>2, NotClosing DEF IInv, PastOps, EndOps
    <2> QED
      BY <2>1, <1>9, StaysOpen
  <1> QED
    BY <1>11, <1>12, <1>13, <1>14, <1>15 DEF IInv

-----------------------------------------------------------------------------
(* The steps: reviews. *)

\* A set of places in the list has a last one: what comes after a member is a
\* smaller set, and finite sets cannot shrink for ever.
LEMMA LastOf ==
  ASSUME NEW n \in Nat, NEW T \in SUBSET (1..n), T # {}
  PROVE  \E k \in T : \A j \in T : j <= k
  <1> DEFINE After(k) == {j \in T : j > k}
             F == {After(k) : k \in T}
  <1>1. IsFiniteSet(T)
    <2>1. IsFiniteSet(1..n)
      BY FS_Interval
    <2> QED
      BY <2>1, FS_Subset
  <1>2. F \subseteq FiniteSubsetsOf(T) /\ F # {}
    <2>1. FiniteSubsetsOf(T) = SUBSET T
      BY <1>1, FS_FiniteSubsetsOfFinite
    <2>2. \A k \in T : After(k) \in SUBSET T
      OBVIOUS
    <2>3. PICK k \in T : TRUE
      OBVIOUS
    <2>4. After(k) \in F
      BY <2>3
    <2>5. F \subseteq SUBSET T
      BY <2>2
    <2> HIDE DEF After, F
    <2> QED
      BY <2>1, <2>4, <2>5
  <1>3. PICK X \in F : \A Y \in F : <<Y, X>> \notin StrictSubsetOrdering(T)
    <2> HIDE DEF F
    <2>1. IsWellFoundedOn(StrictSubsetOrdering(T), FiniteSubsetsOf(T))
      BY FS_StrictSubsetOrderingWellFounded
    <2> QED
      BY <2>1, <1>2, WFMin
  <1>4. PICK k \in T : X = After(k)
    BY <1>3
  <1>5. ASSUME NEW j \in T, j > k PROVE FALSE
    <2>0. After(j) \in F
      OBVIOUS
    <2>1. After(j) \in F /\ After(j) \subseteq After(k) /\ j \in After(k) /\ j \notin After(j)
      <3>1. \A i \in T : i \in Nat
        OBVIOUS
      <3>2. After(j) \subseteq After(k)
        <4> SUFFICES ASSUME NEW i \in T, i > j PROVE i > k
          OBVIOUS
        <4>1. i \in Nat /\ j \in Nat /\ k \in Nat
          BY <3>1
        <4> QED
          BY <4>1, <1>5
      <3>3. j \in After(k) /\ j \notin After(j)
        BY <3>1, <1>5
      <3> QED
        BY <2>0, <3>2, <3>3
    <2>2. After(j) \in SUBSET T /\ After(k) \in SUBSET T /\ After(j) # After(k)
      BY <2>1
    <2>3. <<After(j), After(k)>> \in StrictSubsetOrdering(T)
      <3> HIDE DEF After
      <3> QED
        BY <2>1, <2>2 DEF StrictSubsetOrdering
    <2> QED
      BY <2>1, <2>3, <1>3, <1>4
  <1> QED
    BY <1>5

\* The latest comment that counts is one of them.
LEMMA LatestHeard ==
  ASSUME issue \in Issues, NEW t, NEW bot
  PROVE  Latest(t, bot) = 0 \/ Latest(t, bot) \in Heard(t, bot)
  <1>1. Len(issue.comments) \in Nat /\ Heard(t, bot) \in SUBSET (1..Len(issue.comments))
    BY LenProperties DEF Issues, Heard
  <1>2. Heard(t, bot) # {} => \E k \in Heard(t, bot) : \A j \in Heard(t, bot) : j <= k
    BY <1>1, LastOf
  <1> QED
    BY <1>2 DEF Latest

\* What is known in a review.
LEMMA InReview ==
  ASSUME IInv, run = "on", todo = <<>>, AtReview(wf.step)
  PROVE  /\ ReviewOf(wf.step) \in Phase /\ Place(wf.step) = ReviewOf(wf.step) /\ Alive
         /\ wf.step \notin {"planning", "done", "failed"} /\ wf.plan = hist.plans
         /\ ReviewOf(wf.step) \notin wf.seen.done \union Skipped /\ ~hist.closing
         /\ hist \in Histories /\ wf \in Workflows /\ issue \in Issues /\ cfg.skip \subseteq Phase
         /\ 1..(ReviewOf(wf.step) - 1) \subseteq Settled
         /\ \A q \in Phase : wf.phases[q] = "done" => q < ReviewOf(wf.step)
         /\ \A q \in issue.labels.done : q >= ReviewOf(wf.step) => q \in wf.seen.done \union hist.touched
  <1>1. /\ wf.step \in Steps /\ hist \in Histories /\ wf \in Workflows /\ issue \in Issues
        /\ cfg.skip \subseteq Phase
    BY WorkflowConstants DEF IInv, Typed, Workflows, Issues, Phase
  <1>2. /\ ReviewOf(wf.step) \in Phase /\ Place(wf.step) = ReviewOf(wf.step)
        /\ wf.step \notin {"planning", "done", "failed"}
    <2>1. PhaseOf("planning") = 1 /\ ~AtReview("planning") /\ ~AtReview("done") /\ ~AtReview("failed")
      BY Places DEF Phase
    <2> QED
      BY <1>1, <2>1, StepKinds
  <1>3. Alive
    BY <1>2 DEF Alive
  <1>4. wf.plan = hist.plans
    BY <1>2 DEF IInv, PlanInv
  <1>5. ReviewOf(wf.step) \notin wf.seen.done \union Skipped
    BY <1>2, <1>3, NoCalls DEF IInv, BasisInv
  <1>6. ~hist.closing
    BY <1>2, NotClosing DEF IInv
  <1> QED
    BY <1>1, <1>2, <1>3, <1>4, <1>5, <1>6 DEF IInv, BasisInv, TodoInv

\* A review is passed.
LEMMA AcceptKeeps ==
  ASSUME IInv, run = "on", todo = <<>>, AtReview(wf.step), UNCHANGED <<cfg, issue, planFile, run>>,
         NEW w \in Workflows, w.seen = wf.seen, w.phases = wf.phases, w.plan = wf.plan, w.bot = wf.bot,
         w.since <= Now(issue), Accept(w, ReviewOf(wf.step)), left' \in Lefts, hist' \in Histories,
         hist'.begun = hist.begun, hist'.accepted = hist.accepted \union {ReviewOf(wf.step)},
         hist'.touched = hist.touched, hist'.finished = hist.finished, hist'.plans = hist.plans,
         hist'.lost = hist.lost, ~hist'.misread, hist'.calm => hist.calm,
         hist'.closing => ReviewOf(wf.step) = 4
  PROVE  IInv'
  <1> DEFINE p == ReviewOf(wf.step)
  <1>1. /\ p \in Phase /\ Place(wf.step) = p /\ Alive
        /\ wf.step \notin {"planning", "done", "failed"} /\ wf.plan = hist.plans
        /\ p \notin wf.seen.done \union Skipped /\ ~hist.closing
        /\ wf \in Workflows /\ issue \in Issues /\ cfg.skip \subseteq Phase
        /\ 1..(p - 1) \subseteq Settled
        /\ \A q \in Phase : wf.phases[q] = "done" => q < p
        /\ \A q \in issue.labels.done : q >= p => q \in wf.seen.done \union hist.touched
    BY InReview
  <1>2. /\ Approved(p) \in Steps /\ Place(Approved(p)) = p + 1 /\ ~AtReview(Approved(p))
        /\ Approved(p) # "failed" /\ Approved(p) # "planning" /\ (Approved(p) = "done" <=> p = 4)
        /\ PhaseOf("done") = 0
    BY <1>1, Places
  <1>3. /\ wf' \in Workflows /\ wf'.step = Approved(p) /\ wf'.seen = wf.seen /\ wf'.phases = wf.phases
        /\ wf'.plan = wf.plan /\ wf'.since = w.since /\ wf'.bot = wf.bot /\ wf'.feedback = 0
    BY <1>2 DEF Accept, Workflows
  <1>4. todo' = Boundary(Approved(p)) /\ (p = 4 => todo' = Boundary("done"))
    BY <1>2 DEF Accept
  <1>5. /\ todo' \in Seq(OpSet) /\ Ordered(todo') /\ todo' # <<>>
        /\ p # 4 => /\ Names(todo') \subseteq {"complete"} \union BoundaryOps
                    /\ BoundaryOps \subseteq Names(todo')
                    /\ todo'[Len(todo')].op = "enter"
        /\ p = 4 => /\ Names(todo') \subseteq {"complete", "sweep"}
                    /\ "sweep" \in Names(todo')
                    /\ \A q \in Phase : Op("complete", q) \in Ops(todo')
        /\ \A o \in Ops(todo') : o.op = "complete" => o.p \in 1..p
    BY <1>1, <1>4, BoundaryCalls
  <1>6. \A o \in Ops(todo') : o.op \in Names(todo')
    BY DEF Names
  <1>7. \A o \in Ops(todo') : o.op \in {"complete", "sweep"} \union BoundaryOps
    BY <1>5, <1>6
  <1>8. todo'[Len(todo')].op # "skip"
    BY <1>5, LastCall
  <1>9. Len(issue.comments) \in Nat
    BY <1>1, LenProperties DEF Issues
  <1>10. Typed'
    BY <1>1, <1>3, <1>5, <1>9 DEF IInv, Typed, Now
  <1>11. TodoInv'
    <2>1. \A q \in Phase : Past(q)' => q < Place(wf'.step)
      <3> SUFFICES ASSUME NEW q \in Phase, Past(q)' PROVE q < p + 1
        BY <1>2, <1>3
      <3>1. /\ Op("complete", q).op = "complete" /\ Op("complete", q).p = q
            /\ Op("completed", q).op = "completed"
        BY DEF Op
      <3>2. Op("complete", q) \in Ops(todo')
        BY <1>7, <3>1 DEF Past, BoundaryOps
      <3>3. q \in 1..p
        BY <1>5, <3>1, <3>2
      <3> QED
        BY <3>3, <1>1 DEF Phase
    <2>2. \A q \in Phase : wf'.phases[q] = "done" => q < Place(wf'.step)
      BY <1>1, <1>2, <1>3 DEF Phase
    <2>3. \A o \in Ops(todo') : o.op \in PastOps \union {"unmark"} => o.p \in Phase
      <3> SUFFICES ASSUME NEW o \in Ops(todo'), o.op \in PastOps \union {"unmark"} PROVE o.p \in Phase
        OBVIOUS
      <3>1. o.op = "complete"
        BY <1>7 DEF PastOps, BoundaryOps
      <3> QED
        BY <1>1, <1>5, <3>1 DEF Phase
    <2>4. Names(todo') \intersect WorkOps = {} /\ "waiting" \notin Names(todo')
      BY <1>5 DEF WorkOps, BoundaryOps
    <2>5. Names(todo') \intersect EndOps # {} => wf'.step = "done" /\ Names(todo') \subseteq PastOps \union EndOps
      BY <1>2, <1>3, <1>5 DEF PastOps, EndOps, BoundaryOps
    <2>6. "refresh" \in Names(todo') => "skip" \in Names(todo')
      BY <1>5 DEF BoundaryOps
    <2>7. "skip" \in Names(todo') => todo'[Len(todo')].op \in {"skip", "enter"}
      BY <1>5
    <2> QED
      BY <1>2, <1>3, <1>5, <2>1, <2>2, <2>3, <2>4, <2>5, <2>6, <2>7 DEF TodoInv
  <1>12. BasisInv'
    <2>1. Settled \subseteq Settled' /\ p \in Settled'
      BY DEF Settled
    <2>2. issue'.labels.done \subseteq Settled' /\ wf'.seen.done \subseteq Settled'
      BY <1>3, <2>1 DEF IInv, BasisInv
    <2>3. 1..(Place(wf'.step) - 1) \subseteq Settled'
      BY <1>1, <1>2, <1>3, <2>1 DEF Phase
    <2>4. \A q \in issue'.labels.done : q >= Place(wf'.step) => q \in wf'.seen.done \union hist'.touched
      <3> SUFFICES ASSUME NEW q \in issue.labels.done, q >= p + 1 PROVE q \in wf.seen.done \union hist.touched
        BY <1>2, <1>3
      <3>1. q \in Phase
        BY <1>1 DEF Issues, Labels
      <3> QED
        BY <3>1, <1>1 DEF Phase
    <2>5. Place(wf'.step) \in wf'.seen.done \union Skipped' => "skip" \in Names(todo')
      <3>1. CASE p # 4
        BY <1>5, <3>1 DEF BoundaryOps
      <3>2. CASE p = 4
        <4>1. Place(wf'.step) = 5 /\ wf'.seen.done \union Skipped' \subseteq Phase
          BY <1>1, <1>2, <1>3, <3>2 DEF Skipped, Workflows, Labels
        <4> QED
          BY <4>1 DEF Phase
      <3> QED
        BY <3>1, <3>2
    <2> QED
      BY <2>2, <2>3, <2>4, <2>5 DEF BasisInv
  <1>13. PlanInv'
    BY <1>1, <1>2, <1>3 DEF IInv, PlanInv
  <1>14. FreshInv'
    <2>1. Names(todo') \intersect WorkOps = {}
      BY <1>5 DEF WorkOps, BoundaryOps
    <2> QED
      BY <1>2, <1>3, <2>1 DEF FreshInv, Reviewing
  <1>15. DoneInv'
    <2>1. \A q : Op("completed", q) \notin Ops(todo')
      BY <1>7 DEF Op, BoundaryOps
    <2> QED
      BY <1>3, <1>8, <2>1 DEF IInv, DoneInv, Untouched
  <1>16. CalmInv'
    <2>1. p # 4 => "enter" \in Names(todo')
      BY <1>5 DEF BoundaryOps
    <2>2. p = 4 => PhaseOf(wf'.step) = 0
      BY <1>2, <1>3
    <2> QED
      BY <1>1, <1>3, <2>1, <2>2 DEF IInv, CalmInv, Untouched
  <1>17. ClosingInv'
    <2> SUFFICES ASSUME hist'.closing PROVE ClosingInv'
      BY StaysOpen
    <2>1. p = 4
      OBVIOUS
    <2>2. \A q \in Phase : Past(q)'
      BY <1>5, <2>1 DEF Past
    <2>3. Names(todo') \subseteq PastOps \union EndOps
      BY <1>5, <2>1 DEF PastOps, EndOps
    <2> QED
      BY <1>2, <1>3, <1>5, <2>1, <2>2, <2>3 DEF ClosingInv
  <1> QED
    BY <1>10, <1>11, <1>12, <1>13, <1>14, <1>15, <1>16, <1>17 DEF IInv

\* A review is answered with a wish: the step is made again, or once too often.
LEMMA RedoKeeps ==
  ASSUME IInv, run = "on", todo = <<>>, AtReview(wf.step), UNCHANGED <<cfg, issue, planFile, run>>,
         NEW w \in Workflows, w.seen = wf.seen, w.phases = wf.phases, w.plan = wf.plan, w.bot = wf.bot,
         w.since <= Now(issue), w.feedback <= Len(issue.comments),
         Redo(w, ReviewOf(wf.step)), left' \in Lefts, hist' \in Histories,
         hist'.begun = hist.begun, hist'.accepted = hist.accepted,
         hist'.touched = hist.touched, hist'.finished = hist.finished, hist'.plans = hist.plans,
         hist'.lost = hist.lost, ~hist'.misread, hist'.calm => hist.calm, ~hist'.closing
  PROVE  IInv'
  <1> DEFINE p == ReviewOf(wf.step)
  <1>1. /\ p \in Phase /\ Place(wf.step) = p /\ Alive
        /\ wf.step \notin {"planning", "done", "failed"} /\ wf.plan = hist.plans
        /\ p \notin wf.seen.done \union Skipped /\ ~hist.closing
        /\ wf \in Workflows /\ issue \in Issues /\ cfg.skip \subseteq Phase
        /\ 1..(p - 1) \subseteq Settled
        /\ \A q \in Phase : wf.phases[q] = "done" => q < p
        /\ \A q \in issue.labels.done : q >= p => q \in wf.seen.done \union hist.touched
    BY InReview
  <1>2. w.redos[p] \in Nat /\ w.redos[p] + 1 \in Nat
    BY <1>1 DEF Workflows
  <1>3. CASE wf' = [w EXCEPT !.step = "failed", !.all = FALSE, !.redos[p] = @ + 1] /\ todo' = <<>>
    <2>1. /\ wf' \in Workflows /\ wf'.step = "failed" /\ wf'.seen = wf.seen /\ wf'.phases = wf.phases
          /\ wf'.plan = wf.plan /\ wf'.since = w.since /\ wf'.bot = w.bot /\ wf'.feedback = w.feedback
      <3>1. "failed" \in Steps
        BY DEF Steps
      <3>2. ASSUME NEW n \in Nat, NEW v, v = [w EXCEPT !.step = "failed", !.all = FALSE, !.redos[p] = n]
            PROVE  /\ v \in Workflows /\ v.step = "failed" /\ v.seen = w.seen /\ v.phases = w.phases
                   /\ v.plan = w.plan /\ v.since = w.since /\ v.bot = w.bot /\ v.feedback = w.feedback
        BY <1>1, <3>1, <3>2 DEF Workflows
      <3> QED
        BY <1>2, <1>3, <3>2
    <2>2. Bounded'
      BY <1>1, <2>1 DEF IInv, Typed, Bounded, Now
    <2> QED
      BY <1>3, <2>1, <2>2, FailKeeps
  <1>4. CASE /\ wf' = [w EXCEPT !.step = Work[p], !.all = FALSE, !.redos[p] = @ + 1,
                                !.phases = [q \in Phase |-> IF q >= p THEN "new" ELSE w.phases[q]]]
             /\ todo' = <<Op("enter", 0), Op("refresh", 0), Op("skip", 0)>>
    <2>1. /\ Work[p] \in Steps /\ Place(Work[p]) = p /\ ~AtReview(Work[p]) /\ PhaseOf(Work[p]) = p
          /\ Work[p] \notin {"failed", "done"}
      BY <1>1, Places
    <2>2. /\ wf' \in Workflows /\ wf'.step = Work[p] /\ wf'.seen = wf.seen
          /\ \A q \in Phase : wf'.phases[q] = (IF q >= p THEN "new" ELSE wf.phases[q])
          /\ wf'.plan = wf.plan /\ wf'.since = w.since /\ wf'.bot = wf.bot /\ wf'.feedback = w.feedback
      <3> DEFINE ph == [q \in Phase |-> IF q >= p THEN "new" ELSE w.phases[q]]
      <3>1. ph \in [Phase -> {"new", "doing", "done"}]
        BY DEF Workflows
      <3>2. \A q \in Phase : ph[q] = IF q >= p THEN "new" ELSE w.phases[q]
        OBVIOUS
      <3> HIDE DEF ph
      <3>3. ASSUME NEW n \in Nat, NEW v, v = [w EXCEPT !.step = Work[p], !.all = FALSE, !.redos[p] = n, !.phases = ph]
            PROVE  /\ v \in Workflows /\ v.step = Work[p] /\ v.seen = w.seen /\ v.phases = ph
                   /\ v.plan = w.plan /\ v.since = w.since /\ v.bot = w.bot /\ v.feedback = w.feedback
        BY <1>1, <2>1, <3>1, <3>3 DEF Workflows
      <3>4. wf' = [w EXCEPT !.step = Work[p], !.all = FALSE, !.redos[p] = w.redos[p] + 1, !.phases = ph]
        BY <1>4 DEF ph
      <3>5. /\ wf' \in Workflows /\ wf'.step = Work[p] /\ wf'.seen = w.seen /\ wf'.phases = ph
            /\ wf'.plan = w.plan /\ wf'.since = w.since /\ wf'.bot = w.bot /\ wf'.feedback = w.feedback
        BY <1>2, <3>3, <3>4
      <3>6. w.seen = wf.seen /\ w.phases = wf.phases /\ w.plan = wf.plan /\ w.bot = wf.bot
        OBVIOUS
      <3> QED
        BY <3>2, <3>5, <3>6
    <2>3. /\ todo' \in Seq(OpSet) /\ Names(todo') = BoundaryOps /\ todo' # <<>>
          /\ todo'[Len(todo')].op = "skip" /\ Ordered(todo')
      BY <1>4, TakeUp
    <2>4. \A o \in Ops(todo') : o.op \in BoundaryOps
      BY <2>3 DEF Names
    <2>5. \A q : Op("complete", q) \notin Ops(todo') /\ Op("completed", q) \notin Ops(todo')
      BY <2>4 DEF Op, BoundaryOps
    <2>6. Typed'
      BY <1>1, <2>2, <2>3 DEF IInv, Typed, Now
    <2>7. TodoInv'
      <3>1. \A q \in Phase : wf'.phases[q] = "done" => q < Place(wf'.step)
        BY <1>1, <2>1, <2>2
      <3>2. \A q \in Phase : ~Past(q)'
        BY <2>5 DEF Past
      <3>3. \A o \in Ops(todo') : o.op \notin PastOps \union {"unmark"}
        BY <2>4 DEF PastOps, BoundaryOps
      <3> QED
        BY <2>1, <2>2, <2>3, <3>1, <3>2, <3>3 DEF TodoInv, BoundaryOps, WorkOps, EndOps
    <2>8. BasisInv'
      BY <1>1, <2>1, <2>2, <2>3 DEF IInv, BasisInv, Settled, BoundaryOps
    <2>9. PlanInv'
      BY <1>1, <2>2, <2>3 DEF IInv, PlanInv, BoundaryOps
    <2>10. FreshInv'
      BY <2>1, <2>2, <2>3 DEF FreshInv, Reviewing, BoundaryOps, WorkOps
    <2>11. DoneInv'
      <3> SUFFICES ASSUME Untouched' PROVE DoneInv'
        BY DEF DoneInv
      <3>1. Untouched /\ p \notin issue.labels.done \union cfg.skip
        BY <1>1 DEF Untouched, Skipped, Phase
      <3>2. \A q \in Phase : wf'.phases[q] = "done" => wf.phases[q] = "done"
        BY <2>2
      <3> QED
        BY <2>1, <2>2, <2>5, <3>1, <3>2 DEF IInv, DoneInv
    <2>12. CalmInv'
      <3>1. \A q \in Phase : wf'.phases[q] = "doing" => wf.phases[q] = "doing"
        BY <2>2
      <3> QED
        BY <1>1, <2>3, <3>1 DEF IInv, CalmInv, Untouched, BoundaryOps
    <2>13. ClosingInv'
      BY StaysOpen
    <2> QED
      BY <2>6, <2>7, <2>8, <2>9, <2>10, <2>11, <2>12, <2>13 DEF IInv
  <1> QED
    BY <1>3, <1>4 DEF Redo

\* A comment that decides a review is a person's, written after the work.
LEMMA AnsweredFresh ==
  ASSUME IInv, run = "on", todo = <<>>, AtReview(wf.step),
         NEW t, t = wf.since \/ (wf.since = 0 /\ t = Now(issue)), t # 0,
         NEW k, k = Latest(t, wf.bot), k # 0
  PROVE  /\ k \in 1..Len(issue.comments) /\ k > hist.finished
         /\ issue.comments[k] = "bot" => k \in hist.lost
         /\ issue.comments[k] \in Sayings
  <1>1. Alive /\ issue \in Issues /\ wf \in Workflows /\ hist \in Histories
    BY InReview
  <1>2. Len(issue.comments) \in Nat /\ wf.since \in Nat /\ hist.finished \in Nat
    BY <1>1, LenProperties DEF Issues, Workflows, Histories
  <1>3. k \in Heard(t, wf.bot)
    BY <1>1, LatestHeard
  <1>4. k \in 1..Len(issue.comments) /\ k >= t /\ k \notin wf.bot
    BY <1>3 DEF Heard
  <1>5. wf.since # 0 /\ t = wf.since
    BY <1>2, <1>4 DEF Now
  <1>6. Reviewing
    BY <1>1 DEF Reviewing
  <1>7. /\ wf.since > hist.finished
        /\ \A j \in 1..Len(issue.comments) :
              j >= wf.since /\ issue.comments[j] = "bot" => j \in wf.bot \union hist.lost
    BY <1>5, <1>6 DEF IInv, FreshInv
  <1>8. issue.comments[k] \in Sayings
    BY <1>1, <1>4, ElementOfSeq DEF Issues
  <1> QED
    BY <1>2, <1>4, <1>5, <1>7, <1>8

\* What an answer changes in the history.
Answers(a, h, p, k) ==
    /\ a \in Histories /\ a.begun = h.begun /\ a.touched = h.touched /\ a.finished = h.finished
    /\ a.plans = h.plans /\ a.lost = h.lost /\ ~a.misread /\ a.calm = h.calm
    /\ a.accepted = IF issue.comments[k] \in Approvals THEN h.accepted \union {p} ELSE h.accepted
    /\ (a.closing <=> issue.comments[k] \in Approvals /\ p = 4)

LEMMA AnsweredFields ==
  ASSUME NEW h \in Histories, ~h.misread, NEW p \in Phase, NEW k \in Nat, k > h.finished,
         issue.comments[k] = "bot" => k \in h.lost
  PROVE  Answers(Answered(h, p, k), h, p, k)
  <1> DEFINE m == h.misread \/ k <= h.finished \/ (issue.comments[k] = "bot" /\ k \notin h.lost)
             acc == IF issue.comments[k] \in Approvals THEN h.accepted \union {p} ELSE h.accepted
             c == issue.comments[k] \in Approvals /\ p = 4
  <1>1. m = FALSE /\ acc \in SUBSET Phase /\ c \in BOOLEAN
    BY DEF Histories
  <1>2. Answered(h, p, k) = [h EXCEPT !.misread = m, !.accepted = acc, !.closing = c]
    BY DEF Answered
  <1>3. Answered(h, p, k) = [h EXCEPT !.misread = FALSE, !.accepted = acc, !.closing = c]
    BY <1>1, <1>2
  <1> HIDE DEF m, acc
  <1>4. ASSUME NEW x \in BOOLEAN, NEW v, v = [h EXCEPT !.misread = FALSE, !.accepted = acc, !.closing = x]
        PROVE  /\ v \in Histories /\ v.begun = h.begun /\ v.touched = h.touched /\ v.finished = h.finished
               /\ v.plans = h.plans /\ v.lost = h.lost /\ v.misread = FALSE /\ v.calm = h.calm
               /\ v.accepted = acc /\ v.closing = x
    BY <1>1, <1>4 DEF Histories
  <1> HIDE DEF c
  <1> DEFINE a == Answered(h, p, k)
  <1>5. /\ a \in Histories /\ a.begun = h.begun /\ a.touched = h.touched /\ a.finished = h.finished
        /\ a.plans = h.plans /\ a.lost = h.lost /\ a.misread = FALSE /\ a.calm = h.calm
        /\ a.accepted = acc /\ a.closing = c
    BY <1>1, <1>3, <1>4
  <1> HIDE DEF a
  <1>6. Answers(a, h, p, k)
    BY <1>5 DEF acc, c, Answers
  <1> QED
    BY <1>6 DEF a

\* A comment decides the review.
LEMMA HandleKeeps ==
  ASSUME IInv, run = "on", todo = <<>>, AtReview(wf.step), UNCHANGED <<cfg, issue, planFile, run>>,
         NEW t, t = wf.since \/ (wf.since = 0 /\ t = Now(issue)), t # 0,
         NEW k, k = Latest(t, wf.bot), k # 0,
         NEW w \in Workflows, w.seen = wf.seen, w.phases = wf.phases, w.plan = wf.plan, w.bot = wf.bot,
         w.since <= Now(issue), Handle(w, ReviewOf(wf.step), k), left' \in Lefts,
         NEW r, hist' = Answered(hist, ReviewOf(wf.step), k) \/ hist' = Marked(Answered(hist, ReviewOf(wf.step), k), r)
  PROVE  IInv'
  <1> DEFINE p == ReviewOf(wf.step)
             a == Answered(hist, p, k)
             yes == issue.comments[k] \in Approvals
  <1>1. p \in Phase /\ hist \in Histories /\ issue \in Issues /\ Len(issue.comments) \in Nat
    BY InReview, LenProperties DEF Issues
  <1>2. /\ k \in 1..Len(issue.comments) /\ k > hist.finished
        /\ issue.comments[k] = "bot" => k \in hist.lost
    BY AnsweredFresh
  <1>3. k \in Nat /\ k <= Len(issue.comments) /\ ~hist.misread
    BY <1>1, <1>2 DEF IInv, FreshInv
  <1>4. /\ a \in Histories /\ a.begun = hist.begun /\ a.touched = hist.touched /\ a.finished = hist.finished
        /\ a.plans = hist.plans /\ a.lost = hist.lost /\ ~a.misread /\ a.calm = hist.calm
        /\ a.accepted = IF yes THEN hist.accepted \union {p} ELSE hist.accepted
        /\ (a.closing <=> yes /\ p = 4)
    <2>1. Answers(a, hist, p, k)
      <3>1. k \in Nat /\ k > hist.finished /\ (issue.comments[k] = "bot" => k \in hist.lost)
        BY <1>2, <1>3
      <3> HIDE DEF p, yes
      <3> QED
        BY <1>1, <1>3, <3>1, AnsweredFields
    <2> HIDE DEF a, p
    <2> QED
      BY <2>1 DEF Answers
  <1> HIDE DEF a
  <1>5. /\ Marked(a, r) \in Histories /\ Marked(a, r).begun = a.begun /\ Marked(a, r).accepted = a.accepted
        /\ Marked(a, r).touched = a.touched /\ Marked(a, r).finished = a.finished
        /\ Marked(a, r).plans = a.plans /\ Marked(a, r).lost = a.lost /\ Marked(a, r).misread = a.misread
        /\ (Marked(a, r).calm => a.calm) /\ (Marked(a, r).closing => a.closing)
    <2>1. a \in Histories
      BY <1>4
    <2> HIDE DEF yes, p
    <2> QED
      BY <2>1, MarkedFields
  <1>6. hist' = a \/ hist' = Marked(a, r)
    BY DEF a
  <1>7. /\ hist' \in Histories /\ hist'.begun = hist.begun /\ hist'.touched = hist.touched
        /\ hist'.finished = hist.finished /\ hist'.plans = hist.plans /\ hist'.lost = hist.lost
        /\ ~hist'.misread /\ (hist'.calm => hist.calm) /\ (hist'.closing => yes /\ p = 4)
        /\ hist'.accepted = IF yes THEN hist.accepted \union {p} ELSE hist.accepted
    <2>1. CASE hist' = a
      BY <2>1, <1>4
    <2>2. CASE hist' = Marked(a, r)
      BY <2>2, <1>4, <1>5
    <2> QED
      BY <1>6, <2>1, <2>2
  <1>8. CASE yes
    <2>1. PICK b \in BOOLEAN : Accept([w EXCEPT !.all = b], p)
      <3>1. Accept([w EXCEPT !.all = w.all \/ issue.comments[k] = "approve all"], p)
        BY <1>8 DEF Handle
      <3> QED
        BY <3>1
    <2>2. ASSUME NEW v, v = [w EXCEPT !.all = b]
          PROVE  v \in Workflows /\ v.seen = w.seen /\ v.phases = w.phases /\ v.plan = w.plan /\ v.bot = w.bot
                 /\ v.since = w.since
      BY <2>2 DEF Workflows
    <2>3. PICK v \in Workflows : /\ v.seen = wf.seen /\ v.phases = wf.phases /\ v.plan = wf.plan /\ v.bot = wf.bot
                                 /\ v.since <= Now(issue) /\ Accept(v, p)
      BY <2>1, <2>2
    <2> QED
      BY <1>7, <1>8, <2>3, AcceptKeeps
  <1>9. CASE ~yes
    <2>1. Redo([w EXCEPT !.feedback = k], p)
      BY <1>9 DEF Handle
    <2>2. ASSUME NEW v, v = [w EXCEPT !.feedback = k]
          PROVE  v \in Workflows /\ v.seen = w.seen /\ v.phases = w.phases /\ v.plan = w.plan /\ v.bot = w.bot
                 /\ v.since = w.since /\ v.feedback = k
      BY <1>3, <2>2 DEF Workflows
    <2>3. PICK v \in Workflows : /\ v.seen = wf.seen /\ v.phases = wf.phases /\ v.plan = wf.plan /\ v.bot = wf.bot
                                 /\ v.since <= Now(issue) /\ v.feedback = k /\ Redo(v, p)
      BY <2>1, <2>2
    <2> QED
      BY <1>3, <1>7, <1>9, <2>3, RedoKeeps
  <1> QED
    BY <1>8, <1>9

LEMMA PollKeeps ==
  ASSUME IInv, Poll
  PROVE  IInv'
  <1> DEFINE k == Latest(wf.since, wf.bot)
             w == [wf EXCEPT !.since = k]
  <1>1. /\ run = "on" /\ todo = <<>> /\ AtReview(wf.step) /\ ~AutoApproves(wf, wf.step)
        /\ k # 0 /\ Handle(w, ReviewOf(wf.step), k) /\ hist' = Answered(hist, ReviewOf(wf.step), k)
        /\ UNCHANGED <<cfg, issue, planFile, run, left>>
    BY DEF Poll
  <1>2. wf \in Workflows /\ issue \in Issues /\ left \in Lefts /\ Len(issue.comments) \in Nat
    BY LenProperties DEF IInv, Typed, Issues
  <1>3. wf.since # 0
    <2>1. "waiting" \notin Names(todo)
      BY <1>1, NoCalls
    <2> QED
      BY <1>1, <2>1 DEF IInv, FreshInv
  <1>4. k \in 1..Len(issue.comments)
    BY <1>1, <1>2, <1>3, AnsweredFresh
  <1>5. ASSUME NEW n \in Nat, NEW v, v = [wf EXCEPT !.since = n]
        PROVE  v \in Workflows /\ v.seen = wf.seen /\ v.phases = wf.phases /\ v.plan = wf.plan /\ v.bot = wf.bot
               /\ v.since = n
    BY <1>2, <1>5 DEF Workflows
  <1>6. /\ w \in Workflows /\ w.seen = wf.seen /\ w.phases = wf.phases /\ w.plan = wf.plan /\ w.bot = wf.bot
        /\ w.since <= Now(issue)
    BY <1>2, <1>4, <1>5 DEF Now
  <1> HIDE DEF w
  <1>7. left' \in Lefts
    BY <1>1, <1>2
  <1>8. PICK t : t = wf.since
    OBVIOUS
  <1>9. k = Latest(t, wf.bot) /\ t # 0
    BY <1>3, <1>8
  <1> HIDE DEF k
  <1> QED
    BY <1>1, <1>6, <1>7, <1>8, <1>9, HandleKeeps

LEMMA AutoReviewKeeps ==
  ASSUME IInv, AutoReview
  PROVE  IInv'
  <1>1. /\ run = "on" /\ todo = <<>> /\ AtReview(wf.step) /\ UNCHANGED <<cfg, issue, planFile, run>>
        /\ wf \in Workflows /\ issue \in Issues /\ Len(issue.comments) \in Nat /\ hist \in Histories
        /\ ReviewOf(wf.step) \in Phase /\ ~hist.misread
    BY InReview, LenProperties DEF IInv, Typed, Issues, AutoReview, FreshInv
  <1> DEFINE p == ReviewOf(wf.step)
  <1>2. PICK r \in {"ok", "failed"} :
          LET w == [wf EXCEPT !.since = IF @ = 0 THEN Now(issue) ELSE @]
              k == IF r = "ok" THEN Latest(w.since, w.bot) ELSE 0 IN
          /\ Fault(r)
          /\ IF k # 0 THEN Handle(w, p, k) /\ hist' = Marked(Answered(hist, p, k), r)
             ELSE Accept(w, p) /\ hist' = Marked([hist EXCEPT !.accepted = @ \union {p}, !.closing = p = 4], r)
    BY DEF AutoReview
  <1> DEFINE t == IF wf.since = 0 THEN Now(issue) ELSE wf.since
             w == [wf EXCEPT !.since = t]
             k == IF r = "ok" THEN Latest(w.since, w.bot) ELSE 0
  <1>3. t \in Nat /\ t # 0 /\ t <= Now(issue) /\ (t = wf.since \/ (wf.since = 0 /\ t = Now(issue)))
    BY <1>1 DEF Now, Workflows, IInv, Typed
  <1>4. /\ Fault(r)
        /\ \/ k # 0 /\ Handle(w, p, k) /\ hist' = Marked(Answered(hist, p, k), r)
           \/ Accept(w, p) /\ hist' = Marked([hist EXCEPT !.accepted = @ \union {p}, !.closing = p = 4], r)
    BY <1>2
  <1>5. ASSUME NEW n \in Nat, NEW v, v = [wf EXCEPT !.since = n]
        PROVE  v \in Workflows /\ v.seen = wf.seen /\ v.phases = wf.phases /\ v.plan = wf.plan /\ v.bot = wf.bot
               /\ v.since = n
    BY <1>1, <1>5 DEF Workflows
  <1>6. /\ w \in Workflows /\ w.seen = wf.seen /\ w.phases = wf.phases /\ w.plan = wf.plan /\ w.bot = wf.bot
        /\ w.since = t
    BY <1>3, <1>5
  <1>7. left' \in Lefts
    BY <1>4, FaultType DEF IInv
  <1>8. k # 0 => k = Latest(t, wf.bot)
    BY <1>6
  <1> HIDE DEF w, t, k
  <1>9. CASE k # 0 /\ Handle(w, p, k) /\ hist' = Marked(Answered(hist, p, k), r)
    BY <1>1, <1>3, <1>6, <1>7, <1>8, <1>9, HandleKeeps
  <1>10. CASE Accept(w, p) /\ hist' = Marked([hist EXCEPT !.accepted = @ \union {p}, !.closing = p = 4], r)
    <2> DEFINE H(c, A) == [hist EXCEPT !.accepted = A, !.closing = c]
    <2>1. ASSUME NEW c \in BOOLEAN, NEW A \in SUBSET Phase, NEW h, h = H(c, A)
          PROVE  /\ h \in Histories /\ h.begun = hist.begun /\ h.touched = hist.touched
                 /\ h.finished = hist.finished /\ h.plans = hist.plans /\ h.lost = hist.lost
                 /\ h.misread = hist.misread /\ h.calm = hist.calm /\ h.accepted = A /\ h.closing = c
      BY <1>1, <2>1 DEF Histories
    <2>2. PICK c \in BOOLEAN : c = (p = 4)
      OBVIOUS
    <2>3. PICK A \in SUBSET Phase : A = hist.accepted \union {p}
      BY <1>1 DEF Histories
    <2>4. PICK h : h = H(c, A)
      OBVIOUS
    <2>5. hist' = Marked(h, r)
      BY <1>10, <2>2, <2>3, <2>4
    <2> HIDE DEF H
    <2>6. /\ h \in Histories /\ h.begun = hist.begun /\ h.touched = hist.touched
          /\ h.finished = hist.finished /\ h.plans = hist.plans /\ h.lost = hist.lost
          /\ h.misread = hist.misread /\ h.calm = hist.calm /\ h.accepted = A /\ h.closing = c
      BY <2>1, <2>4
    <2>7. /\ hist' \in Histories /\ hist'.begun = hist.begun /\ hist'.accepted = hist.accepted \union {p}
          /\ hist'.touched = hist.touched /\ hist'.finished = hist.finished /\ hist'.plans = hist.plans
          /\ hist'.lost = hist.lost /\ ~hist'.misread /\ (hist'.calm => hist.calm)
          /\ (hist'.closing => c)
      BY <1>1, <2>3, <2>5, <2>6, MarkedFields
    <2> QED
      BY <1>1, <1>3, <1>6, <1>7, <1>10, <2>2, <2>7, AcceptKeeps
  <1> QED
    BY <1>4, <1>9, <1>10

-----------------------------------------------------------------------------
(* The process and the people. *)

\* No process runs: what is left is the issue, plan.md and the history.
LEMMA OffKeeps ==
  ASSUME IInv, UNCHANGED <<cfg, issue, planFile>>, run' = "off", wf' = NewWorkflow(NewIssue), todo' = <<>>,
         left' \in Lefts, hist' \in Histories, hist'.begun = hist.begun, hist'.accepted = hist.accepted,
         hist'.touched = hist.touched, hist'.finished = hist.finished, hist'.plans = hist.plans,
         hist'.lost = hist.lost, ~hist'.misread, hist'.calm => hist.calm, ~hist'.closing
  PROVE  IInv'
  <1>1. /\ wf' \in Workflows /\ wf'.step = "planning" /\ wf'.since = 0 /\ wf'.bot = {} /\ wf'.feedback = 0
        /\ wf'.plan = 0 /\ wf'.seen = [doing |-> {}, done |-> {}, skip |-> {}]
        /\ \A p \in Phase : wf'.phases[p] = "new"
    BY NewFields, NewIssueType
  <1>2. ~Alive' /\ ~AtReview("planning") /\ PhaseOf("planning") = 1
    BY Places DEF Alive, Phase
  <1>3. Len(issue.comments) \in Nat
    BY LenProperties DEF IInv, Typed
  <1>4. Typed'
    BY <1>1, <1>3, NoCalls DEF IInv, Typed, Now
  <1>5. TodoInv'
    <2>1. \A q \in Phase : ~Past(q)'
      BY NoCalls DEF Past
    <2> QED
      BY <1>1, <1>2, <2>1, NoCalls DEF TodoInv
  <1>6. BasisInv' /\ PlanInv'
    BY <1>1, <1>2, NoCalls DEF IInv, BasisInv, PlanInv, Settled
  <1>7. FreshInv'
    BY <1>1, <1>2 DEF FreshInv, Reviewing
  <1>8. DoneInv'
    BY <1>1, NoCalls DEF IInv, DoneInv, Untouched
  <1>9. CalmInv'
    BY <1>2 DEF IInv, CalmInv, Untouched
  <1>10. ClosingInv'
    BY StaysOpen
  <1> QED
    BY <1>4, <1>5, <1>6, <1>7, <1>8, <1>9, <1>10 DEF IInv

LEMMA CrashKeeps ==
  ASSUME IInv, Crash
  PROVE  IInv'
  <1>1. /\ run' = "off" /\ wf' = NewWorkflow(NewIssue) /\ todo' = <<>> /\ UNCHANGED <<cfg, issue, planFile>>
        /\ left.crashes > 0 /\ left' = [left EXCEPT !.crashes = left.crashes - 1]
        /\ hist' = [hist EXCEPT !.closing = FALSE]
    BY DEF Crash
  <1>2. hist \in Histories /\ left \in Lefts /\ ~hist.misread
    BY DEF IInv, Typed, FreshInv
  <1>3. left' \in Lefts
    <2>1. left.crashes \in Nat
      BY <1>2 DEF Lefts
    <2>2. left.crashes - 1 \in Nat
      BY <1>1, <2>1
    <2>3. ASSUME NEW n \in Nat PROVE [left EXCEPT !.crashes = n] \in Lefts
      BY <1>2 DEF Lefts
    <2> QED
      BY <1>1, <2>2, <2>3
  <1>4. /\ hist' \in Histories /\ hist'.begun = hist.begun /\ hist'.accepted = hist.accepted
        /\ hist'.touched = hist.touched /\ hist'.finished = hist.finished /\ hist'.plans = hist.plans
        /\ hist'.lost = hist.lost /\ hist'.misread = hist.misread /\ hist'.calm = hist.calm
        /\ hist'.closing = FALSE
    BY <1>1, <1>2 DEF Histories
  <1> QED
    BY <1>1, <1>2, <1>3, <1>4, OffKeeps

LEMMA StartKeeps ==
  ASSUME IInv, Start
  PROVE  IInv'
  <1>1. /\ run = "off" \/ (Ended /\ wf.step = "failed")
        /\ left.starts > 0 /\ UNCHANGED <<cfg, issue, planFile, hist>>
        /\ \/ /\ left' = [left EXCEPT !.starts = left.starts - 1]
              /\ run' = "on" /\ wf' = NewWorkflow(issue) /\ todo' = First
           \/ /\ left.faults > 0 /\ left' = [left EXCEPT !.starts = left.starts - 1, !.faults = left.faults - 1]
              /\ run' = "off" /\ wf' = NewWorkflow(NewIssue) /\ UNCHANGED todo
    BY DEF Start
  <1>2. /\ hist \in Histories /\ left \in Lefts /\ ~hist.misread /\ issue \in Issues
        /\ Len(issue.comments) \in Nat /\ left.starts \in Nat /\ left.faults \in Nat
    BY LenProperties DEF IInv, Typed, FreshInv, Issues, Lefts
  <1>3. todo = <<>>
    BY <1>1 DEF IInv, TodoInv, Ended
  <1>4. ~hist.closing
    BY <1>1 DEF IInv, ClosingInv
  <1>5. left' \in Lefts
    <2>1. ASSUME NEW n \in Nat, NEW m \in Nat
          PROVE  [left EXCEPT !.starts = n] \in Lefts /\ [left EXCEPT !.starts = n, !.faults = m] \in Lefts
      BY <1>2 DEF Lefts
    <2>2. left.starts - 1 \in Nat
      BY <1>1, <1>2
    <2>3. left.faults > 0 => left.faults - 1 \in Nat
      BY <1>2
    <2> QED
      BY <1>1, <2>1, <2>2, <2>3
  <1>6. CASE run' = "off" /\ wf' = NewWorkflow(NewIssue) /\ UNCHANGED todo
    BY <1>1, <1>2, <1>3, <1>4, <1>5, <1>6, OffKeeps
  <1>7. CASE run' = "on" /\ wf' = NewWorkflow(issue) /\ todo' = First
    <2>1. /\ wf' \in Workflows /\ wf'.step = "planning" /\ wf'.since = 0 /\ wf'.bot = {} /\ wf'.feedback = 0
          /\ wf'.plan = 0 /\ wf'.seen = issue.labels
          /\ \A p \in Phase : wf'.phases[p] = "new"
      BY <1>2, <1>7, NewFields
    <2>2. /\ Place("planning") = 1 /\ ~AtReview("planning") /\ PhaseOf("planning") = 1
      BY Places DEF Phase
    <2>3. /\ todo' \in Seq(OpSet) /\ Names(todo') = BoundaryOps /\ todo' # <<>>
          /\ todo'[Len(todo')].op = "enter" /\ Ordered(todo')
      BY <1>7, TakeUp DEF First
    <2>4. \A o \in Ops(todo') : o.op \in BoundaryOps
      BY <2>3 DEF Names
    <2>5. \A q : Op("complete", q) \notin Ops(todo') /\ Op("completed", q) \notin Ops(todo')
      BY <2>4 DEF Op, BoundaryOps
    <2>6. Typed'
      BY <1>1, <1>2, <1>5, <1>7, <2>1, <2>3 DEF IInv, Typed, Now
    <2>7. TodoInv'
      <3>1. \A q \in Phase : ~Past(q)'
        BY <2>5 DEF Past
      <3>2. \A o \in Ops(todo') : o.op \notin PastOps \union {"unmark"}
        BY <2>4 DEF PastOps, BoundaryOps
      <3> QED
        BY <1>7, <2>1, <2>2, <2>3, <3>1, <3>2 DEF TodoInv, BoundaryOps, WorkOps, EndOps
    <2>8. BasisInv'
      <3>1. 1..(Place(wf'.step) - 1) = {}
        BY <2>1, <2>2
      <3> QED
        BY <1>1, <2>1, <2>3, <3>1 DEF IInv, BasisInv, Settled, BoundaryOps
    <2>9. PlanInv'
      BY <1>1, <2>1, <2>3 DEF IInv, PlanInv, BoundaryOps
    <2>10. FreshInv'
      BY <1>1, <1>2, <2>1, <2>2, <2>3 DEF FreshInv, Reviewing, BoundaryOps, WorkOps
    <2>11. DoneInv'
      BY <1>1, <2>1, <2>3, <2>5 DEF IInv, DoneInv, Untouched
    <2>12. CalmInv'
      BY <1>1, <2>1, <2>3 DEF IInv, CalmInv, Untouched, BoundaryOps
    <2>13. ClosingInv'
      BY <1>1, <1>4, StaysOpen
    <2> QED
      BY <2>6, <2>7, <2>8, <2>9, <2>10, <2>11, <2>12, <2>13 DEF IInv
  <1> QED
    BY <1>1, <1>6, <1>7

\* Whoever comments or sets labels leaves the calls alone.
LEMMA TodoSame ==
  ASSUME TodoInv, UNCHANGED <<cfg, wf, todo, run>>
  PROVE  TodoInv'
  <1>1. \A p \in Phase : Past(p)' <=> Past(p)
    BY DEF Past
  <1>2. (AutoApproves(wf, wf.step)' <=> AutoApproves(wf, wf.step)) /\ (Alive' <=> Alive)
    BY DEF AutoApproves, Alive
  <1>3. Ordered(todo) /\ Ordered(todo')
    BY DEF TodoInv
  <1> QED
    BY <1>1, <1>2, <1>3 DEF TodoInv

LEMMA CommentKeeps ==
  ASSUME IInv, Comment
  PROVE  IInv'
  <1>1. PICK c \in left.says : issue' = Said(issue, c) /\ left' = [left EXCEPT !.comments = left.comments - 1]
    BY DEF Comment
  <1>2. left.comments > 0 /\ UNCHANGED <<cfg, planFile, wf, todo, run, hist>>
    BY DEF Comment
  <1>3. issue \in Issues /\ left \in Lefts
    BY DEF IInv, Typed, Issues
  <1>4. left' \in Lefts
    <2>1. left.comments \in Nat
      BY <1>3 DEF Lefts
    <2>2. left.comments - 1 \in Nat
      BY <1>2, <2>1
    <2>3. ASSUME NEW n \in Nat PROVE [left EXCEPT !.comments = n] \in Lefts
      BY <1>3 DEF Lefts
    <2> QED
      BY <1>1, <2>2, <2>3
  <1>5. c \in Sayings /\ c # "bot"
    BY <1>3 DEF Lefts, Sayings
  <1>6. /\ issue' \in Issues /\ issue'.labels = issue.labels
        /\ Len(issue.comments) \in Nat /\ Len(issue'.comments) = Len(issue.comments) + 1
        /\ issue'.comments[Len(issue.comments) + 1] = c
        /\ \A k \in 1..Len(issue.comments) : issue'.comments[k] = issue.comments[k]
    BY <1>1, <1>3, <1>5, SaidFields
  <1>7. Bounded'
    BY <1>2, <1>6, StillBounded DEF IInv
  <1>8. Typed'
    BY <1>2, <1>4, <1>6, <1>7 DEF IInv, Typed, Bounded, Issues
  <1>9. TodoInv'
    BY <1>2, TodoSame DEF IInv
  <1>10. BasisInv' /\ PlanInv' /\ DoneInv' /\ CalmInv' /\ ClosingInv'
    BY <1>2, <1>6, BasisKept, PlanKept, DoneKept, CalmKept, ClosingKept DEF IInv
  <1>11. FreshInv'
    <2>1. AutoApproves(wf, wf.step)' <=> AutoApproves(wf, wf.step)
      BY <1>2 DEF AutoApproves
    <2>2. Reviewing' <=> Reviewing
      BY <1>2 DEF Reviewing, Alive
    <2>3. ASSUME Reviewing, wf.since # 0, NEW k \in 1..Len(issue'.comments),
                 k >= wf.since, issue'.comments[k] = "bot"
          PROVE  k \in wf.bot \union hist.lost
      <3>1. k \in 1..Len(issue.comments)
        BY <1>5, <1>6, <2>3
      <3> QED
        BY <1>6, <2>3, <3>1 DEF IInv, FreshInv
    <2> QED
      BY <1>2, <2>1, <2>2, <2>3 DEF IInv, FreshInv
  <1> QED
    BY <1>8, <1>9, <1>10, <1>11 DEF IInv

LEMMA LabelKeeps ==
  ASSUME IInv, Label
  PROVE  IInv'
  <1>1. PICK p \in left.marks :
          /\ issue' = Labelled("done", p) \/ issue' = Unlabelled("done", p) \/ issue' = Labelled("skip", p)
          /\ hist' = [hist EXCEPT !.touched = hist.touched \union {p}]
    BY DEF Label
  <1>2. /\ left.labels > 0 /\ left' = [left EXCEPT !.labels = left.labels - 1]
        /\ UNCHANGED <<cfg, planFile, wf, todo, run>>
    BY DEF Label
  <1>3. issue \in Issues /\ left \in Lefts /\ hist \in Histories
    BY DEF IInv, Typed, Issues
  <1>4. p \in Phase
    BY <1>3 DEF Lefts
  <1>5. left' \in Lefts
    <2>1. left.labels \in Nat
      BY <1>3 DEF Lefts
    <2>2. left.labels - 1 \in Nat
      BY <1>2, <2>1
    <2>3. ASSUME NEW n \in Nat PROVE [left EXCEPT !.labels = n] \in Lefts
      BY <1>3 DEF Lefts
    <2> QED
      BY <1>2, <2>2, <2>3
  <1>6. /\ issue' \in Issues /\ issue'.comments = issue.comments
        /\ issue'.labels.done \subseteq issue.labels.done \union {p}
    BY <1>1, <1>3, <1>4, LabelFields
  <1>7. /\ hist' \in Histories /\ hist'.touched = hist.touched \union {p} /\ hist'.begun = hist.begun
        /\ hist'.accepted = hist.accepted /\ hist'.finished = hist.finished /\ hist'.plans = hist.plans
        /\ hist'.lost = hist.lost /\ hist'.misread = hist.misread /\ hist'.calm = hist.calm
        /\ hist'.closing = hist.closing
    BY <1>1, <1>3, <1>4 DEF Histories
  <1>8. ~Untouched'
    BY <1>7 DEF Untouched
  <1>9. Typed'
    BY <1>2, <1>5, <1>6, <1>7 DEF IInv, Typed, Issues, Now
  <1>10. TodoInv'
    BY <1>2, TodoSame DEF IInv
  <1>11. BasisInv'
    <2>1. Settled' = Settled \union {p}
      BY <1>7 DEF Settled
    <2>2. /\ Alive' <=> Alive
          /\ Skipped' = Skipped
      BY <1>2 DEF Alive, Skipped
    <2>3. issue'.labels.done \subseteq Settled' /\ wf'.seen.done \subseteq Settled'
      BY <1>2, <1>6, <2>1 DEF IInv, BasisInv
    <2>4. Alive => 1..(Place(wf'.step) - 1) \subseteq Settled'
      BY <1>2, <2>1 DEF IInv, BasisInv
    <2>5. Alive => \A q \in issue'.labels.done : q >= Place(wf'.step) => q \in wf'.seen.done \union hist'.touched
      BY <1>2, <1>6, <1>7 DEF IInv, BasisInv
    <2> QED
      BY <1>2, <2>2, <2>3, <2>4, <2>5 DEF IInv, BasisInv
  <1>12. PlanInv' /\ FreshInv'
    BY <1>2, <1>6, <1>7, PlanKept, FreshKept DEF IInv
  <1>13. DoneInv' /\ CalmInv'
    BY <1>8 DEF DoneInv, CalmInv
  <1>14. ClosingInv'
    BY <1>2, <1>7, <1>8 DEF IInv, ClosingInv, Past
  <1> QED
    BY <1>9, <1>10, <1>11, <1>12, <1>13, <1>14 DEF IInv

-----------------------------------------------------------------------------
(* The theorems. *)

LEMMA StartsWell ==
  ASSUME Init
  PROVE  IInv
  <1>1. /\ cfg \in Settings /\ left \in Scenarios /\ issue = NewIssue /\ planFile = 0
        /\ wf = NewWorkflow(NewIssue) /\ todo = <<>> /\ run = "off" /\ hist = NewHist
    BY DEF Init
  <1>2. /\ wf \in Workflows /\ wf.step = "planning" /\ wf.since = 0 /\ wf.bot = {} /\ wf.feedback = 0
        /\ wf.plan = 0 /\ wf.seen = [doing |-> {}, done |-> {}, skip |-> {}]
        /\ \A p \in Phase : wf.phases[p] = "new"
    BY <1>1, NewFields, NewIssueType
  <1>3. /\ issue \in Issues /\ issue.labels = [doing |-> {}, done |-> {}, skip |-> {}]
        /\ issue.comments = <<>> /\ Len(issue.comments) = 0
    BY <1>1, NewIssueType DEF NewIssue
  <1>4. /\ hist \in Histories /\ hist.begun = {} /\ hist.accepted = {} /\ hist.touched = {} /\ hist.finished = 0
        /\ hist.plans = 0 /\ hist.lost = {} /\ hist.misread = FALSE /\ hist.closing = FALSE
    BY <1>1 DEF NewHist, Histories
  <1>5. left \in Lefts
    BY <1>1, WorkflowConstants DEF Lefts, Phase
  <1>6. ~Alive /\ ~AtReview("planning") /\ PhaseOf("planning") = 1
    BY <1>1, Places DEF Alive, Phase
  <1>7. Typed
    BY <1>1, <1>2, <1>3, <1>4, <1>5, NoCalls DEF Typed, Issues, Now
  <1>8. TodoInv
    <2>1. \A q \in Phase : ~Past(q)
      BY <1>1, NoCalls DEF Past
    <2> QED
      BY <1>1, <1>2, <1>6, <2>1, NoCalls DEF TodoInv
  <1>9. BasisInv /\ PlanInv /\ FreshInv
    BY <1>1, <1>2, <1>3, <1>4, <1>6, NoCalls DEF BasisInv, Settled, PlanInv, FreshInv, Reviewing
  <1>10. DoneInv /\ CalmInv /\ ClosingInv
    BY <1>1, <1>2, <1>3, <1>4, <1>6, NoCalls DEF DoneInv, CalmInv, ClosingInv
  <1> QED
    BY <1>7, <1>8, <1>9, <1>10 DEF IInv

LEMMA Stutters ==
  ASSUME IInv, UNCHANGED vars
  PROVE  IInv'
  <1>1. UNCHANGED <<cfg, issue, planFile, wf, todo, run, hist, left>>
    BY DEF vars
  <1>2. Typed'
    BY <1>1 DEF IInv, Typed, Now
  <1>3. TodoInv'
    BY <1>1, TodoSame DEF IInv
  <1>4. BasisInv' /\ PlanInv' /\ FreshInv' /\ DoneInv' /\ CalmInv' /\ ClosingInv'
    BY <1>1, BasisKept, PlanKept, FreshKept, DoneKept, CalmKept, ClosingKept DEF IInv
  <1> QED
    BY <1>2, <1>3, <1>4 DEF IInv

\* The whole invariant is inductive.
THEOREM Inductive == Spec => []IInv
  <1>1. Init => IInv
    BY StartsWell
  <1>2. IInv /\ [Next]_vars => IInv'
    <2> SUFFICES ASSUME IInv, [Next]_vars PROVE IInv'
      OBVIOUS
    <2>1. CASE Complete \/ Completed \/ Enter \/ Refresh \/ Skip \/ Sweep \/ Unmark
      BY <2>1, CompleteKeeps, CompletedKeeps, EnterKeeps, RefreshKeeps, SkipKeeps, SweepKeeps, UnmarkKeeps
    <2>2. CASE Begin \/ Agent \/ Capture \/ Tell \/ Post \/ ToReview \/ Waiting
      BY <2>2, BeginKeeps, AgentKeeps, CaptureKeeps, TellKeeps, PostKeeps, ToReviewKeeps, WaitingKeeps
    <2>3. CASE Poll \/ AutoReview
      BY <2>3, PollKeeps, AutoReviewKeeps
    <2>4. CASE Start \/ Crash \/ Comment \/ Label
      BY <2>4, StartKeeps, CrashKeeps, CommentKeeps, LabelKeeps
    <2>5. CASE UNCHANGED vars
      BY <2>5, Stutters
    <2> QED
      BY <2>1, <2>2, <2>3, <2>4, <2>5 DEF Next, Works
  <1> QED
    BY <1>1, <1>2, PTL DEF Spec

\* Types: the workflow's step, phases and labels, and that what it remembers
\* of the comments, the start of its poll and the comments it knows for its own, lies
\* among those there are, whatever calls failed or died half-way (workflow.go:986-1035).
THEOREM WorkflowTypes == Spec => []TypeOK
  <1>1. IInv => TypeOK
    BY DEF IInv, Typed, TypeOK, Workflows, Steps, Labels, Now
  <1> QED
    BY <1>1, Inductive, PTL

\* WorkHasBasis: an agent is set to work only on accepted, skipped or hand-marked
\* ground and builds the last plan, in every run, first or after crashes, for every
\* configuration and scenario (workflow.go:768-816).
THEOREM HasBasis == Spec => []WorkHasBasis
  <1>1. ASSUME IInv PROVE WorkHasBasis
    <2>1. TypeOK
      BY <1>1 DEF IInv, Typed, TypeOK, Workflows, Steps, Labels, Now
    <2>2. ASSUME NEW p \in Phase, Working(p)
          PROVE  /\ 1..(p - 1) \subseteq hist.accepted \union hist.touched
                 /\ wf.step # "failed" /\ run = "on" /\ PhaseOf(wf.step) = p
      <3>1. Calls("agent")
        BY <2>2 DEF Working, Calls
      <3>2. Alive /\ Place(wf.step) = PhaseOf(wf.step) /\ wf.step # "failed"
        BY <1>1, <3>1, Called DEF WorkOps
      <3> QED
        BY <1>1, <2>2, <3>2 DEF IInv, BasisInv, Settled, Working
    <2>3. ASSUME Working(2), wf.step = "building" PROVE wf.plan = hist.plans
      BY <1>1, <2>3 DEF IInv, PlanInv, Working
    <2> QED
      BY <2>1, <2>2, <2>3 DEF WorkHasBasis
  <1> QED
    BY <1>1, Inductive, PTL

\* LabelsTell: at every moment, between any two calls, done stands only for what was
\* accepted or what a person set; and if no call failed and nobody set labels, what
\* was begun has a label (workflow.go:869-881).
THEOREM Tells == Spec => []LabelsTell
  <1>1. IInv => LabelsTell
    BY DEF IInv, BasisInv, CalmInv, Settled, Untouched, LabelsTell
  <1> QED
    BY <1>1, Inductive, PTL

\* FeedbackIsFresh: what decides a review is a person's and newer than the work, for any
\* number of rounds, lost replies and comments (workflow.go:986-1035).
THEOREM Fresh == Spec => []FeedbackIsFresh
  <1>1. IInv => FeedbackIsFresh
    BY DEF IInv, FreshInv, FeedbackIsFresh
  <1> QED
    BY <1>1, Inductive, PTL

\* LabelsSettle: the last approval, with calls that succeed from there on, puts right
\* every label that earlier calls left wrong (workflow.go:699-745).
THEOREM Settles == Spec => []LabelsSettle
  <1>1. ASSUME IInv PROVE LabelsSettle
    <2> SUFFICES ASSUME Ended, wf.step = "done", hist.closing, hist.touched = {}
                 PROVE  issue.labels.doing = {} /\ Phase \subseteq issue.labels.done \union cfg.skip
      BY DEF LabelsSettle
    <2>1. Ops(todo) = {} /\ Names(todo) = {}
      BY NoCalls DEF Ended
    <2>2. \A p \in Phase : wf.phases[p] = "done"
      BY <1>1, <2>1 DEF IInv, ClosingInv, Past
    <2>3. issue.labels.doing = {}
      BY <1>1, <2>1 DEF IInv, ClosingInv, Untouched
    <2>4. Phase \subseteq issue.labels.done \union cfg.skip
      BY <1>1, <2>2 DEF IInv, DoneInv, Untouched
    <2> QED
      BY <2>3, <2>4
  <1> QED
    BY <1>1, Inductive, PTL
=============================================================================
