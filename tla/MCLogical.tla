----------------------------- MODULE MCLogical -----------------------------
EXTENDS LogicalTurn

None == [e \in Events |-> 0]

\* Two tasks whose messages come twice or in the wrong order, and a failure.
Reordered == [None EXCEPT !["task"] = 2, !["reorder"] = 2, !["update"] = 1, !["fail"] = 1]

\* A task that hangs and a result that is an error.
Troubled == [None EXCEPT !["task"] = 2, !["hang"] = 1, !["resultError"] = 1]

\* A wakeup, kept or not, next to a task.
Awaited == [None EXCEPT !["task"] = 1, !["wakeup"] = 2, !["noWakeup"] = 1]

\* A wakeup's wave in which an earlier call is refused.
Settled == [None EXCEPT !["task"] = 2, !["wakeup"] = 1, !["refuse"] = 1]

\* The stream is closed under the turn.
Closed == [None EXCEPT !["task"] = 2, !["fail"] = 1, !["update"] = 1, !["exit"] = 1, !["closes"] = 1]

\* The turn is asked again, a line does not parse, the context is cancelled.
Again == [None EXCEPT !["task"] = 1, !["retry"] = 2, !["error"] = 1, !["ctx"] = 1]

AllScenarios == {Reordered, Troubled, Awaited, Settled, Closed, Again}

\* The CLI exits, as it does when it crashes, and nobody has stopped the session.
Gone == {[None EXCEPT !["task"] = 1, !["exit"] = 1]}
=============================================================================
