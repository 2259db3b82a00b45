----------------------------- MODULE MCSymphony -----------------------------
(* Small instances of SymphonyOrchestrator for TLC. *)
EXTENDS SymphonyOrchestrator, TLC

CONSTANTS i1, i2, i3

Issue1 == {i1}
Issue2 == {i1, i2}
Issue3 == {i1, i2, i3}

\* No blockers, and a second issue blocked by the first.
Unblocked == [i \in Issue |-> {}]
Blocked   == [i \in Issue |-> IF i = i2 THEN {i1} ELSE {}]

\* No state limit that bites, and one issue at a time in "todo".
NoLimit  == [s \in ActiveStates |-> 3]
OneTodo  == [s \in ActiveStates |-> IF s = "todo" THEN 1 ELSE 3]

\* Issues without blockers are interchangeable.
Symmetry == Permutations(Issue)
=============================================================================
