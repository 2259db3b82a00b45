------------------------------- MODULE MCLink -------------------------------
(* Small instances of AgentLink: what happens, in a few combinations. *)
EXTENDS AgentLink, TLC

Nothing == [e \in {"open", "subscribe", "unsubscribe", "timeout", "drop", "reject", "paneError", "leave"} |-> 0]
With(m) == m @@ Nothing

\* Two tabs that use the same sub_id.
Shared == With("open" :> 2 @@ "subscribe" :> 2 @@ "unsubscribe" :> 1 @@ "leave" :> 1)
\* Connections that drop while subscriptions are asked for.
Drops == With("open" :> 1 @@ "subscribe" :> 2 @@ "drop" :> 2)
\* ... under two tabs.
Dropped == With("open" :> 2 @@ "subscribe" :> 2 @@ "drop" :> 1)
\* The same subscription asked for again, refused, withdrawn.
Again == With("open" :> 1 @@ "subscribe" :> 3 @@ "unsubscribe" :> 1 @@ "reject" :> 1 @@ "leave" :> 1)
\* A request that the agent answers too late.
Late == With("open" :> 1 @@ "subscribe" :> 2 @@ "timeout" :> 1 @@ "leave" :> 1)

\* A pane that fails under its subscriptions.
Fails == With("open" :> 1 @@ "subscribe" :> 2 @@ "unsubscribe" :> 1 @@ "paneError" :> 1)

Few == {Shared, Drops, Dropped, Again, Late, Fails}
=============================================================================
