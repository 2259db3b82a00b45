------------------------------- MODULE MCTmux -------------------------------
(* Small instances of TmuxSession: who writes and what may happen. *)
EXTENDS TmuxSession

CONSTANTS n1, n2, c1

TwoWorkers == {n1, n2}
OneWorker == {n1}
OneClient == {c1}

Some(once, twice) == [e \in {"send", "hint", "fail", "human", "premature", "lost", "exit",
                             "stop", "delete", "close", "crash", "overlap"} |->
                        IF e \in once THEN 1 ELSE IF e \in twice THEN 2 ELSE 0]

\* One scenario per question: hints that meet in the composer, a write that
\* fails on a working session, a person at the keyboard, a premature hook, the
\* ends of the window, of the session and of bramble, and again with overlap.
AllScenarios ==
    ({"claude", "codex"} \X { Some({"fail", "lost"}, {"hint"}),
                              Some({"human", "hint", "fail"}, {}),
                              Some({"overlap", "send", "hint"}, {}) })
    \cup (Providers \X { Some({"send", "fail", "lost"}, {}),
                         Some({"premature", "send"}, {}) })
    \cup ({"claude"} \X { Some({"exit", "stop", "delete", "crash"}, {"close"}) })
    \cup ({"cursor"} \X { Some({"exit", "send", "close"}, {}),
                          Some({"overlap", "exit", "stop", "delete", "close"}, {}) })

\* A write to a session that still reads running.
OneSend == {"cursor"} \X { Some({"send"}, {}) }
=============================================================================
