------------------------------ MODULE MCClaude ------------------------------
(* Small instances of ClaudeTurns. *)
EXTENDS ClaudeTurns

CONSTANTS a1, a2

OneCaller == {a1}
TwoCallers == {a1, a2}

Some(turns, wakeups, once) ==
    [e \in {"turn", "wakeup", "synthetic", "fail", "cancel", "overlap", "writeError", "stop"} |->
        IF e = "turn" THEN turns ELSE IF e = "wakeup" THEN wakeups
        ELSE IF e \in once THEN 1 ELSE 0]

TurnScenarios == { Some(2, 3, {}), Some(3, 2, {"cancel"}), Some(3, 1, {"cancel", "synthetic"}),
                   Some(2, 2, {"fail", "cancel", "writeError"}),
                   Some(2, 1, {"overlap", "synthetic", "cancel"}),
                   Some(2, 1, {"stop", "cancel"}) }

Chained == { Some(1, 2, {}) }
=============================================================================
