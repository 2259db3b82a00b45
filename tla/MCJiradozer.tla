---------------------------- MODULE MCJiradozer ----------------------------
(* Small instances of JiradozerTeam for TLC. *)
EXTENDS JiradozerTeam, TLC

CONSTANTS i1, i2

Issue1 == {i1}
Issue2 == {i1, i2}

\* Issues are interchangeable.
Symmetry == Permutations(Issue)
=============================================================================
