-------------------------- MODULE MCSessionManager --------------------------
(* Small instances of SessionManager for TLC. *)
EXTENDS SessionManager, TLC

CONSTANTS r1, r2, r3, o1, o2, o3, c1, c2

Runs2 == {r1, r2}
Runs3 == {r1, r2, r3}
Obj1 == {o1}
Obj2 == {o1, o2}
Obj3 == {o1, o2, o3}
Caller1 == {c1}
Caller2 == {c1, c2}

\* Runs, objects and callers are all interchangeable.
Symmetry == Permutations(Runs3) \cup Permutations(Obj3) \cup Permutations(Caller2)
=============================================================================
