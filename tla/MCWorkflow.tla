---------------------------- MODULE MCWorkflow ----------------------------
(* Small instances of JiradozerWorkflow: configurations, and what happens. *)
EXTENDS JiradozerWorkflow, TLC

Setting(a, s, r) == [auto |-> a, skip |-> s, rounds |-> r]
Few == {Setting({}, {3}, {}), Setting({2, 3, 4}, {}, {2}), Setting({1, 2, 3, 4}, {4}, {1, 3})}

Nothing == "starts" :> 1 @@ "empty" :> FALSE @@ "says" :> {} @@ "marks" :> {} @@
           [e \in {"crashes", "faults", "fails", "comments", "labels"} |-> 0]
With(m) == m @@ Nothing

Talk == With("comments" :> 2 @@ "says" :> {"approve", "approve all", "redo"} @@ "faults" :> 1)
Die == With("comments" :> 2 @@ "says" :> {"approve all", "redo"} @@ "starts" :> 2 @@ "crashes" :> 1 @@ "fails" :> 1)
Break == With("comments" :> 1 @@ "says" :> {"approve all"} @@ "faults" :> 3 @@ "empty" :> TRUE)
Touch == With("comments" :> 1 @@ "says" :> {"approve all", "redo"} @@ "labels" :> 1 @@ "marks" :> {1, 2}
              @@ "starts" :> 2 @@ "crashes" :> 1)
Worst == With("comments" :> 1 @@ "says" :> {"approve all"} @@ "starts" :> 2 @@ "crashes" :> 1 @@ "faults" :> 2)
Some == {Talk, Die, Break, Touch, Worst}
=============================================================================
