----------------------------- MODULE AgentLink -----------------------------
(***************************************************************************)
(* The hub and one agent machine that dials in to it: connections that     *)
(* drop and are replaced, the hub's registry, the requests that browser    *)
(* tabs have the hub forward and wait for, and the pane subscriptions they *)
(* open, each a poll loop on the agent.  The agent handles every request   *)
(* in a goroutine of its own.  A tab uses one sub_id throughout.           *)
(***************************************************************************)
EXTENDS Naturals, Sequences, FiniteSets

CONSTANTS
    Tab,        \* browser connections to /api/stream
    Scenarios   \* how often each event of the environment happens

Conn == 1 .. 3      \* the agent's connections, one after the other
NoReply == [id |-> 0, ok |-> FALSE]

VARIABLES
    conn,       \* each connection: its two ends, and the machine the hub made for it
    registered, \* registry.machines of this machine's ID: a connection, 0 for none
    down, up,   \* what each connection carries to the agent, and to the hub
    hand,       \* the reply the hub's read loop has taken from pending and not passed on
    tab,        \* browserBridge of each tab, with the request its handle waits for
    handler,    \* the agent's goroutines, from a request to its response
    subs,       \* streamer.subs of each connection: a poll loop for each key
    polls,      \* poll loops; a cancelled one may have a last frame to send
    started,    \* poll loops started so far
    left        \* what is left of the scenario

vars == <<conn, registered, down, up, hand, tab, handler, subs, polls, started, left>>
agent == <<handler, subs, polls, started>>

Spend(e) == left[e] > 0 /\ left' = [left EXCEPT ![e] = @ - 1]
Keep == UNCHANGED left

Init ==
    /\ left \in Scenarios
    /\ conn = [k \in Conn |-> [agent |-> "none", hub |-> "none", broken |-> FALSE, closed |-> FALSE,
                               seq |-> 0, pending |-> {}, sinks |-> {}]]
    /\ registered = 0
    /\ down = [k \in Conn |-> <<>>] /\ up = [k \in Conn |-> <<>>]
    /\ hand = [k \in Conn |-> NoReply]
    /\ tab = [b \in Tab |-> [pc |-> "new", on |-> 0, prefix |-> 0, op |-> "none", id |-> 0, ch |-> "empty",
                             mine |-> FALSE, told |-> "off", faults |-> {}]]
    /\ handler = {} /\ subs = [k \in Conn |-> {}] /\ polls = {} /\ started = 0

Dead(k) == conn[k].broken \/ conn[k].closed

\* streamer's cancel functions, for the poll loops ps.
Cancel(ps) == {IF p \in ps THEN [p EXCEPT !.live = FALSE] ELSE p : p \in polls}

-----------------------------------------------------------------------------
(* A connection's life: Client.Run and Serve on the agent, handleAgent on the hub. *)

\* The agent dials again when Serve has returned, which waits for its handlers.
Dial(k) ==
    /\ conn[k].agent = "none"
    /\ \A j \in Conn : j < k => conn[j].agent = "ended" /\ \A h \in handler : h.req.on # j
    /\ conn' = [conn EXCEPT ![k].agent = "serving", ![k].hub = "hello"]
    /\ UNCHANGED <<registered, down, up, hand, tab, agent, left>>

\* The network drops a connection.  Three dials leave the last one whole.
Drop(k) ==
    /\ conn[k].agent = "serving" /\ ~Dead(k) /\ k + 1 \in Conn
    /\ Spend("drop")
    /\ conn' = [conn EXCEPT ![k].broken = TRUE]
    /\ UNCHANGED <<registered, down, up, hand, tab, agent>>

\* machine.shutdown: whoever waits for a reply finds the channel closed.
Closed(cs, k) == [cs EXCEPT ![k].closed = TRUE, ![k].pending = {}, ![k].sinks = {}]

\* Mutant: shutting a machine down leaves those who wait for a reply waiting.
WokenNever(k) == tab

Woken(k) == [b \in Tab |-> IF tab[b].on = k /\ tab[b].id \in conn[k].pending
                           THEN [tab[b] EXCEPT !.ch = "closed"] ELSE tab[b]]

\* registry.add, after the acknowledgement of the agent's hello has been sent.
Add(k) ==
    /\ conn[k].hub = "hello"
    /\ LET old == registered IN
       IF old = 0
       THEN /\ conn' = [conn EXCEPT ![k].hub = "reading"]
            /\ UNCHANGED tab
       ELSE /\ conn' = [Closed(conn, old) EXCEPT ![k].hub = "reading"]
            /\ tab' = Woken(old)
    /\ registered' = k
    /\ UNCHANGED <<down, up, hand, agent, left>>

\* readLoop, a read that fails.  What the connection still carried is lost.
ReadError(k) ==
    /\ conn[k].hub = "reading" /\ hand[k] = NoReply /\ Dead(k)
    /\ conn' = [Closed(conn, k) EXCEPT ![k].hub = "leaving"]
    /\ tab' = Woken(k)
    /\ up' = [up EXCEPT ![k] = <<>>]
    /\ UNCHANGED <<registered, down, hand, agent, left>>

\* Mutant: any machine of this ID is removed.
RemoveAny(k) ==
    /\ conn[k].hub = "leaving"
    /\ conn' = [conn EXCEPT ![k].hub = "gone"]
    /\ registered' = 0
    /\ UNCHANGED <<down, up, hand, tab, agent, left>>

\* registry.remove, of this machine only.
Remove(k) ==
    /\ conn[k].hub = "leaving"
    /\ conn' = [conn EXCEPT ![k].hub = "gone"]
    /\ registered' = IF registered = k THEN 0 ELSE registered
    /\ UNCHANGED <<down, up, hand, tab, agent, left>>

\* Serve's read fails: closeAll cancels the subscriptions there are.
ServeEnds(k) ==
    /\ conn[k].agent = "serving" /\ Dead(k)
    /\ conn' = [conn EXCEPT ![k].agent = "ended", ![k].broken = TRUE]
    /\ polls' = Cancel({p \in subs[k] : p.on = k})
    /\ subs' = [subs EXCEPT ![k] = {}]
    /\ down' = [down EXCEPT ![k] = <<>>]
    /\ UNCHANGED <<registered, up, hand, tab, handler, started, left>>

-----------------------------------------------------------------------------
(* The hub: a tab's requests, and the read loop that answers them. *)

\* Mutant: the browser's own sub_id names the subscription.
KeyAsSent(b) == 0

\* The subscription's name on the machine has the tab's prefix.
Key(b) == tab[b].prefix

\* handleStream finds the machine, and nextID makes the prefix.
Open(b) ==
    /\ tab[b].pc = "new" /\ registered # 0
    /\ Spend("open")
    /\ LET k == registered IN
       /\ conn' = [conn EXCEPT ![k].seq = @ + 1]
       /\ tab' = [tab EXCEPT ![b].pc = "idle", ![b].on = k, ![b].prefix = conn[k].seq + 1]
    /\ UNCHANGED <<registered, down, up, hand, agent>>

SinksWithout(k, key) == {s \in conn[k].sinks : s.key # key}

\* machine.subscribe refuses at once when the machine is closed.
Subscribe(b) ==
    /\ tab[b].pc = "idle"
    /\ Spend("subscribe")
    /\ LET k == tab[b].on IN
       IF conn[k].closed
       THEN /\ tab' = [tab EXCEPT ![b].mine = FALSE, ![b].told = "error"]
            /\ UNCHANGED conn
       ELSE /\ tab' = [tab EXCEPT ![b].pc = "call", ![b].op = "subscribe", ![b].mine = TRUE, ![b].told = "asked"]
            /\ conn' = [conn EXCEPT ![k].sinks = SinksWithout(k, Key(b)) \union {[key |-> Key(b), tab |-> b]}]
    /\ UNCHANGED <<registered, down, up, hand, agent>>

\* machine.unsubscribe: asked for by the tab, or by closeSubs once the tab has gone.
Unsubscribing(b) ==
    /\ tab' = [tab EXCEPT ![b].pc = "call", ![b].mine = FALSE, ![b].told = "off", ![b].op = "unsubscribe"]
    /\ conn' = [conn EXCEPT ![tab[b].on].sinks = SinksWithout(tab[b].on, Key(b))]

Unsubscribe(b) ==
    /\ tab[b].pc = "idle" /\ tab[b].told # "off"
    /\ Spend("unsubscribe")
    /\ Unsubscribing(b)
    /\ UNCHANGED <<registered, down, up, hand, agent>>

Leave(b) ==
    /\ tab[b].pc = "idle"
    /\ Spend("leave")
    /\ IF tab[b].mine
       THEN /\ conn' = [conn EXCEPT ![tab[b].on].sinks = SinksWithout(tab[b].on, Key(b))]
            /\ tab' = [tab EXCEPT ![b].pc = "call", ![b].mine = FALSE, ![b].told = "off", ![b].op = "close"]
       ELSE /\ tab' = [tab EXCEPT ![b].pc = "left", ![b].told = "off"]
            /\ UNCHANGED conn
    /\ UNCHANGED <<registered, down, up, hand, agent>>

\* The request ends for the tab.  A subscription that fails is forgotten by
\* the hub, whatever the agent makes of the request; why is history.
Ended(b, ok, why) ==
    [tab EXCEPT ![b].pc = IF tab[b].op = "close" THEN "left" ELSE "idle",
                ![b].id = 0, ![b].ch = "empty", ![b].op = "none",
                ![b].mine = @ /\ ok,
                ![b].told = IF tab[b].op # "subscribe" THEN "off"
                            ELSE IF ~ok THEN "error" ELSE IF @ = "asked" THEN "on" ELSE @,
                ![b].faults = @ \union why]

Forgotten(b) ==
    LET k == tab[b].on IN
    [conn EXCEPT ![k].pending = @ \ {tab[b].id},
                 ![k].sinks = IF tab[b].op = "subscribe" THEN SinksWithout(k, Key(b)) ELSE @]

\* machine.request: fails when the machine is closed, else waits for a reply.
Call(b) ==
    /\ tab[b].pc = "call"
    /\ LET k == tab[b].on  id == conn[k].seq + 1 IN
       IF conn[k].closed
       THEN tab' = Ended(b, FALSE, {}) /\ conn' = Forgotten(b)
       ELSE /\ conn' = [conn EXCEPT ![k].seq = id, ![k].pending = @ \union {id}]
            /\ tab' = [tab EXCEPT ![b].pc = "write", ![b].id = id]
    /\ UNCHANGED <<registered, down, up, hand, agent, left>>

\* The write fails on a connection the hub has closed; a broken one loses it.
Write(b) ==
    /\ tab[b].pc = "write"
    /\ LET k == tab[b].on
           req == [on |-> k, id |-> tab[b].id, op |-> tab[b].op, key |-> Key(b)] IN
       IF conn[k].closed
       THEN tab' = Ended(b, FALSE, {}) /\ conn' = Forgotten(b) /\ UNCHANGED down
       ELSE /\ tab' = [tab EXCEPT ![b].pc = "wait"]
            /\ down' = IF conn[k].broken THEN down ELSE [down EXCEPT ![k] = Append(@, req)]
            /\ UNCHANGED conn
    /\ UNCHANGED <<registered, up, hand, agent, left>>

\* The tab gets its reply, an error when the channel was closed.
Receive(b) ==
    /\ tab[b].pc = "wait" /\ tab[b].ch # "empty"
    /\ tab' = Ended(b, tab[b].ch = "ok", {"refused"} \intersect {tab[b].ch})
    /\ conn' = IF tab[b].ch = "ok" THEN conn ELSE Forgotten(b)
    /\ UNCHANGED <<registered, down, up, hand, agent, left>>

Timeout(b) ==
    /\ tab[b].pc = "wait"
    /\ Spend("timeout")
    /\ tab' = Ended(b, FALSE, {"timeout"})
    /\ conn' = Forgotten(b)
    /\ UNCHANGED <<registered, down, up, hand, agent>>

\* readLoop, a response: the caller is taken from pending under the lock.
TakeReply(k) ==
    /\ conn[k].hub = "reading" /\ hand[k] = NoReply
    /\ up[k] # <<>> /\ Head(up[k]).kind = "reply"
    /\ LET m == Head(up[k]) IN
       /\ hand' = [hand EXCEPT ![k] = IF m.id \in conn[k].pending THEN [id |-> m.id, ok |-> m.ok] ELSE NoReply]
       /\ conn' = [conn EXCEPT ![k].pending = @ \ {m.id}]
    /\ up' = [up EXCEPT ![k] = Tail(@)]
    /\ UNCHANGED <<registered, down, tab, agent, left>>

\* ... and is sent the reply without it.  A caller that gave up does not get it.
PassReply(k) ==
    /\ hand[k] # NoReply
    /\ tab' = [b \in Tab |-> IF tab[b].on = k /\ tab[b].id = hand[k].id
                             THEN [tab[b] EXCEPT !.ch = IF hand[k].ok THEN "ok" ELSE "refused"] ELSE tab[b]]
    /\ hand' = [hand EXCEPT ![k] = NoReply]
    /\ UNCHANGED <<conn, registered, down, up, agent, left>>

\* readLoop, a pane error: the sink is dropped, and sent the frame.
PassPaneError(k) ==
    /\ conn[k].hub = "reading" /\ hand[k] = NoReply
    /\ up[k] # <<>> /\ Head(up[k]).kind = "paneError"
    /\ LET key == Head(up[k]).id IN
       /\ tab' = [b \in Tab |-> IF [key |-> key, tab |-> b] \in conn[k].sinks
                                THEN [tab[b] EXCEPT !.told = "error"] ELSE tab[b]]
       /\ conn' = [conn EXCEPT ![k].sinks = SinksWithout(k, key)]
    /\ up' = [up EXCEPT ![k] = Tail(@)]
    /\ UNCHANGED <<registered, down, hand, agent, left>>

-----------------------------------------------------------------------------
(* The agent: requests in goroutines of their own, and poll loops. *)

Receives(k) ==
    /\ conn[k].agent = "serving" /\ down[k] # <<>>
    /\ handler' = handler \union {[req |-> Head(down[k]), pc |-> "run"]}
    /\ down' = [down EXCEPT ![k] = Tail(@)]
    /\ UNCHANGED <<conn, registered, up, hand, tab, subs, polls, started, left>>

Answers(h, ok) == handler' = (handler \ {h}) \union {[req |-> h.req, pc |-> IF ok THEN "ok" ELSE "refused"]}

\* Mutant: a subscription that is replaced goes on polling.
StartsAnother(h) ==
    LET r == h.req  new == [on |-> r.on, key |-> r.key, gen |-> started + 1, live |-> TRUE] IN
    /\ Answers(h, TRUE)
    /\ polls' = polls \union {new}
    /\ subs' = [subs EXCEPT ![r.on] = {p \in @ : p.key # r.key} \union {new}]
    /\ started' = started + 1

\* streamer.subscribe starts a poll loop and cancels the one it replaces, also
\* after closeAll.
Starts(h) ==
    LET r == h.req  new == [on |-> r.on, key |-> r.key, gen |-> started + 1, live |-> TRUE] IN
    /\ Answers(h, TRUE)
    /\ polls' = Cancel({p \in subs[r.on] : p.key = r.key}) \union {new}
    /\ subs' = [subs EXCEPT ![r.on] = {p \in @ : p.key # r.key} \union {new}]
    /\ started' = started + 1

HandleSubscribe(h) ==
    /\ h \in handler /\ h.pc = "run" /\ h.req.op = "subscribe"
    /\ \/ Starts(h) /\ Keep
       \/ Answers(h, FALSE) /\ Spend("reject") /\ UNCHANGED <<subs, polls, started>>
    /\ UNCHANGED <<conn, registered, down, up, hand, tab>>

HandleUnsubscribe(h) ==
    /\ h \in handler /\ h.pc = "run" /\ h.req.op # "subscribe"
    /\ LET r == h.req  its == {p \in subs[r.on] : p.key = r.key} IN
       /\ polls' = Cancel(its)
       /\ subs' = [subs EXCEPT ![r.on] = @ \ its]
    /\ Answers(h, TRUE)
    /\ UNCHANGED <<conn, registered, down, up, hand, tab, started, left>>

\* What is written to a dead connection is lost.
Sent(k, m) == up' = IF Dead(k) \/ conn[k].agent # "serving" THEN up ELSE [up EXCEPT ![k] = Append(@, m)]

Respond(h) ==
    /\ h \in handler /\ h.pc # "run"
    /\ Sent(h.req.on, [kind |-> "reply", id |-> h.req.id, ok |-> h.pc = "ok"])
    /\ handler' = handler \ {h}
    /\ UNCHANGED <<conn, registered, down, hand, tab, subs, polls, started, left>>

\* The third failed capture in a row, the last perhaps for being cancelled.
PaneFails(p) ==
    /\ p \in polls
    /\ Spend("paneError")
    /\ Sent(p.on, [kind |-> "paneError", id |-> p.key, ok |-> FALSE])
    /\ polls' = polls \ {p}
    /\ UNCHANGED <<conn, registered, down, hand, tab, handler, subs, started>>

-----------------------------------------------------------------------------

LinkStep(k) == Dial(k) \/ Add(k) \/ ReadError(k) \/ Remove(k) \/ ServeEnds(k)
HubStep(k) == TakeReply(k) \/ PassReply(k) \/ PassPaneError(k)
CallStep(b) == Call(b) \/ Write(b) \/ Receive(b)
Handle(h) == HandleSubscribe(h) \/ HandleUnsubscribe(h) \/ Respond(h)

Next ==
    \/ \E k \in Conn : LinkStep(k) \/ HubStep(k) \/ Receives(k) \/ Drop(k)
    \/ \E b \in Tab : CallStep(b) \/ Open(b) \/ Subscribe(b) \/ Unsubscribe(b) \/ Leave(b) \/ Timeout(b)
    \/ \E h \in handler : Handle(h)
    \/ \E p \in polls : PaneFails(p)

\* The goroutines run and a broken connection is noticed; nothing is assumed of
\* the tabs, nor that a timeout comes.
Fairness ==
    /\ \A k \in Conn : WF_vars(LinkStep(k)) /\ WF_vars(HubStep(k)) /\ WF_vars(Receives(k))
    /\ \A b \in Tab : WF_vars(CallStep(b))
    /\ WF_vars(\E h \in handler : Handle(h))

Spec == Init /\ [][Next]_vars /\ Fairness

-----------------------------------------------------------------------------
(* Properties. *)

Reply == [id : Nat, ok : BOOLEAN]
Poll == [on : Conn, key : Nat, gen : Nat, live : BOOLEAN]
Request == [on : Conn, id : Nat, op : {"subscribe", "unsubscribe", "close"}, key : Nat]

\* Types: a connection's two ends, the tabs, the agent's goroutines.
TypeOK ==
    /\ \A k \in Conn : /\ conn[k].agent \in {"none", "serving", "ended"}
                       /\ conn[k].hub \in {"none", "hello", "reading", "leaving", "gone"}
                       /\ hand[k] \in Reply /\ subs[k] \subseteq Poll
    /\ registered \in Conn \union {0}
    /\ \A b \in Tab : /\ tab[b].pc \in {"new", "idle", "call", "write", "wait", "left"}
                      /\ tab[b].told \in {"off", "asked", "on", "error"}
                      /\ tab[b].ch \in {"empty", "ok", "refused", "closed"}
    /\ \A h \in handler : h.req \in Request /\ h.pc \in {"run", "ok", "refused"}
    /\ polls \subseteq Poll

Serving(k) == conn[k].agent = "serving" /\ ~Dead(k)
PollsOf(b) == {p \in polls : p.on = tab[b].on /\ p.key = Key(b) /\ p.live}
Failing(b) == \E i \in DOMAIN up[tab[b].on] :
    up[tab[b].on][i].kind = "paneError" /\ up[tab[b].on][i].id = Key(b)

\* A tab that was told its subscription stands has a sink of its own at the hub
\* and one poll loop at the agent that a later request can cancel, or the frame
\* saying that the pane failed is on its way.  Two tabs using the same sub_id,
\* requests handled out of order and replies to others do not disturb that.  A
\* request that timed out does: the agent may act on it afterwards.
StreamIsLive ==
    /\ TypeOK
    /\ \A b \in Tab :
           tab[b].told = "on" /\ "timeout" \notin tab[b].faults /\ Serving(tab[b].on) =>
               /\ [key |-> Key(b), tab |-> b] \in conn[tab[b].on].sinks
               /\ \/ Failing(b)
                  \/ Cardinality(PollsOf(b)) = 1 /\ PollsOf(b) \subseteq subs[tab[b].on]

\* Nothing on the agent polls for a tab that has unsubscribed or left, unless
\* one of its requests was refused or timed out.
QuietAfterwards ==
    \A b \in Tab :
        /\ tab[b].pc \in {"idle", "left"} /\ tab[b].told = "off" /\ tab[b].faults = {}
        /\ tab[b].on # 0 /\ Serving(tab[b].on)
        => PollsOf(b) = {}

\* What tabs are told of their streams is what the agent does.
StreamsAgree == StreamIsLive /\ QuietAfterwards

\* What hub/stream.go says of a closed tab, with no such exception.
ClosedTabLeaksNothing ==
    \A b \in Tab : tab[b].pc = "left" /\ Serving(tab[b].on) => PollsOf(b) = {}

\* What control/transport.go says of Serve: when it has returned, handlers and
\* all, its subscriptions have been torn down.
TornDown ==
    \A k \in Conn : conn[k].agent = "ended" /\ (\A h \in handler : h.req.on # k)
                    => \A p \in polls : p.on = k => ~p.live

\* An agent that serves a connection becomes reachable over it, or its
\* connection ends and it dials again: two hub goroutines that register the
\* same machine in the wrong order do not leave a served connection unknown.
AgentIsReachable ==
    \A k \in Conn : (conn[k].agent = "serving" /\ registered # k)
                    ~> (registered = k \/ conn[k].agent # "serving")

\* A tab's request ends, also when the connection drops or is replaced under
\* it, and without the request timeout.
RequestEnds == \A b \in Tab : (tab[b].pc \in {"call", "write", "wait"}) ~> (tab[b].pc \in {"idle", "left"})

\* A lost connection holds up neither the agent nor the tabs for ever.
LinkRecovers == AgentIsReachable /\ RequestEnds

=============================================================================
