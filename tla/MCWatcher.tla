----------------------------- MODULE MCWatcher -----------------------------
(* Small instances of PRWatcher: configurations, and what happens. *)
EXTENDS PRWatcher, TLC

Setting(p, s, w, o) == [policy |-> p, selfReview |-> s, rework |-> w, once |-> o]
Few == {Setting("queue", FALSE, TRUE, FALSE), Setting("squash", TRUE, TRUE, TRUE),
        Setting("squash", FALSE, FALSE, FALSE), Setting("notify", TRUE, FALSE, FALSE)}

Nothing == [e \in {"looks", "blind", "fail", "lose", "edit", "resume"} |-> 0] @@ "edits" :> {}
With(m) == m @@ Nothing

Feedback == With("looks" :> 4 @@ "fail" :> 1 @@ "edit" :> 2 @@ "edits" :> {"comment", "approve", "changes"})
Flat == With("looks" :> 5 @@ "blind" :> 1 @@ "edit" :> 1 @@ "edits" :> {"redden", "changes"} @@ "resume" :> 1)
Stuck == With("looks" :> 5 @@ "fail" :> 4 @@ "resume" :> 1)
Losses == With("looks" :> 4 @@ "fail" :> 1 @@ "lose" :> 1 @@ "edit" :> 1 @@ "edits" :> {"redden"})
Moves == With("looks" :> 3 @@ "fail" :> 1 @@ "edit" :> 2 @@ "edits" :> {"base", "close", "require", "green", "push"})
Queue == With("looks" :> 6 @@ "fail" :> 2)

Some == {Feedback, Flat, Stuck, Losses, Moves, Queue}
=============================================================================
