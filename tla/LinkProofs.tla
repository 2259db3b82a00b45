----------------------------- MODULE LinkProofs -----------------------------
(***************************************************************************)
(* What tabs are told of their streams is what the agent does: for any     *)
(* tabs and scenarios.                                                     *)
(*                                                                         *)
(* The invariant follows a request.  Every number of a connection is given *)
(* out once (Apart, Given), so that a request is in one place between the  *)
(* tab and its reply (Once), and what is under way under a tab's number or *)
(* key is the tab's (Matched): no goroutine of the agent can touch the     *)
(* subscription of a tab that is not waiting for it.  With one poll loop a *)
(* key (Polling), the agent has then done what the tab will be told, from  *)
(* the moment its goroutine has the answer (Done, Streams).  "Does" lemmas *)
(* say what each step changes; "Keeps" lemmas, that it keeps the invariant.*)
(***************************************************************************)
EXTENDS AgentLink, FiniteSetTheorems, TLAPS

Sink == [key : Nat, tab : Tab]
Link == [agent : {"none", "serving", "ended"}, hub : {"none", "hello", "reading", "leaving", "gone"},
         broken : BOOLEAN, closed : BOOLEAN, seq : Nat, pending : SUBSET Nat, sinks : SUBSET Sink]
Bridge == [pc : {"new", "idle", "call", "write", "wait", "left"}, on : Conn \cup {0}, prefix : Nat,
           op : {"none", "subscribe", "unsubscribe", "close"}, id : Nat,
           ch : {"empty", "ok", "refused", "closed"}, mine : BOOLEAN,
           told : {"off", "asked", "on", "error"}, faults : SUBSET {"refused", "timeout"}]
Message == [kind : {"reply", "paneError"}, id : Nat, ok : BOOLEAN]
Handler == [req : Request, pc : {"run", "ok", "refused"}]

\* Every variable is of its kind.
Shape ==
    /\ conn \in [Conn -> Link] /\ registered \in Conn \cup {0}
    /\ down \in [Conn -> Seq(Request)] /\ up \in [Conn -> Seq(Message)] /\ hand \in [Conn -> Reply]
    /\ tab \in [Tab -> Bridge] /\ handler \subseteq Handler
    /\ subs \in [Conn -> SUBSET Poll] /\ polls \subseteq Poll /\ started \in Nat

\* The hub knows connections that were dialled, and tabs use those it knows.
Dialled ==
    /\ \A k \in Conn : conn[k].agent = "none" => conn[k].hub = "none"
    /\ registered # 0 => conn[registered].agent # "none"
    /\ \A b \in Tab : tab[b].on # 0 => conn[tab[b].on].agent # "none"

Requesting(b) == tab[b].pc \in {"call", "write", "wait"}

\* Of one tab: where it is in a request, and what it has been told.
Bridged(b) ==
    /\ tab[b].pc = "new" <=> tab[b].on = 0
    /\ tab[b].on # 0 => tab[b].prefix \in 1 .. conn[tab[b].on].seq
    /\ IF tab[b].pc \in {"write", "wait"} THEN tab[b].id \in 1 .. conn[tab[b].on].seq
       ELSE tab[b].id = 0
    /\ tab[b].pc # "wait" => tab[b].ch \in {"empty", "closed"}
    /\ tab[b].ch # "empty" => tab[b].id # 0
    /\ tab[b].ch = "closed" => conn[tab[b].on].closed
    /\ Requesting(b) => /\ tab[b].op # "none"
                        /\ tab[b].mine <=> tab[b].op = "subscribe"
                        /\ tab[b].op = "subscribe" => tab[b].told \in {"asked", "error"}
                        /\ tab[b].op # "subscribe" => tab[b].told = "off"
    /\ tab[b].told = "off" => ~tab[b].mine
    /\ tab[b].told = "on" => tab[b].pc = "idle"
    /\ tab[b].told = "asked" => Requesting(b)

Bridges == \A b \in Tab : Bridged(b)

\* nextID gives out every number of a connection once.
Apart ==
    \A b, c \in Tab : b # c /\ tab[b].on = tab[c].on /\ tab[b].on # 0 =>
        /\ tab[b].prefix # tab[c].prefix
        /\ tab[b].id = tab[c].id => tab[b].id = 0

\* The requests on their way to the agent or with one of its goroutines, and
\* the replies on their way back.
InDown(k) == {down[k][i] : i \in 1 .. Len(down[k])}
InHandler(k) == {h.req : h \in {g \in handler : g.req.on = k}}
Asks(k) == InDown(k) \cup InHandler(k)
InUp(k) == {up[k][i] : i \in 1 .. Len(up[k])}
Replied(k) == {m.id : m \in {n \in InUp(k) : n.kind = "reply"}} \cup ({hand[k].id} \ {0})

\* Their numbers were given out.  A sink is of a tab that has a subscription.
Given ==
    \A k \in Conn :
        /\ \A r \in Asks(k) : r.on = k /\ r.id \in 1 .. conn[k].seq /\ r.key \in 1 .. conn[k].seq
        /\ Replied(k) \subseteq 1 .. conn[k].seq /\ conn[k].pending \subseteq 1 .. conn[k].seq
        /\ \A p \in polls : p.on = k => p.key \in 1 .. conn[k].seq
        /\ hand[k].id # 0 \/ hand[k] = NoReply
        /\ \A s \in conn[k].sinks : tab[s.tab].on = k /\ s.key = Key(s.tab) /\ tab[s.tab].mine
        /\ conn[k].closed => conn[k].sinks = {}

\* A request is in one place, and in none when it has been answered.
Once ==
    \A k \in Conn :
        /\ \A i, j \in 1 .. Len(down[k]) : i # j => down[k][i].id # down[k][j].id
        /\ \A r \in InDown(k), s \in InHandler(k) : r.id # s.id
        /\ \A g, h \in handler : g.req.on = k /\ h.req.on = k /\ g.req.id = h.req.id => g = h
        /\ \A r \in Asks(k) : r.id \notin Replied(k)
        /\ \A r \in Asks(k), b \in Tab :
              tab[b].on = k /\ tab[b].id = r.id => tab[b].ch \notin {"ok", "refused"}

\* A tab that has not lost count of its requests, on a connection that stands.
Good(b) == tab[b].on # 0 /\ "timeout" \notin tab[b].faults /\ Serving(tab[b].on)

\* What is under way under a tab's number or key is its own.
Matched ==
    \A b \in Tab : tab[b].on # 0 =>
        /\ \A r \in Asks(tab[b].on) :
              /\ r.id = tab[b].id => tab[b].pc = "wait" /\ r.key = Key(b) /\ r.op = tab[b].op
              /\ r.key = Key(b) /\ Good(b) => r.id = tab[b].id
        /\ tab[b].id \in Replied(tab[b].on) => tab[b].pc = "wait"

\* The poll loops the agent has and can cancel, one for each key.
Polling ==
    /\ \A p \in polls : p.live => p \in subs[p.on]
    /\ \A k \in Conn : /\ \A p \in subs[k] : p.on = k
                       /\ \A p, q \in subs[k] : p.key = q.key => p = q

\* The agent has done what the tab asks for, and says so.
Done(b) ==
    /\ tab[b].id # 0
    /\ \/ tab[b].ch = "ok"
       \/ hand[tab[b].on].id = tab[b].id /\ hand[tab[b].on].ok
       \/ \E m \in InUp(tab[b].on) : m.kind = "reply" /\ m.id = tab[b].id /\ m.ok
       \/ \E h \in handler : h.req.on = tab[b].on /\ h.req.id = tab[b].id /\ h.pc = "ok"

HasSink(b) == [key |-> Key(b), tab |-> b] \in conn[tab[b].on].sinks
One(b) == Cardinality(PollsOf(b)) = 1 /\ PollsOf(b) \subseteq subs[tab[b].on]

Streaming(b) ==
    Good(b) =>
        /\ tab[b].told \in {"asked", "on"} => HasSink(b)
        /\ tab[b].told = "on" \/ (tab[b].told = "asked" /\ Done(b)) => Failing(b) \/ One(b)
        /\ tab[b].faults = {} /\ ~tab[b].mine /\ (tab[b].pc \in {"idle", "left"} \/ Done(b))
               => PollsOf(b) = {}

Streams == \A b \in Tab : Streaming(b)

LinkInv == /\ Shape /\ Dialled /\ Bridges /\ Apart /\ Given /\ Once /\ Matched /\ Polling
           /\ Streams
-----------------------------------------------------------------------------
(* What the steps do, field by field.                                         *)

LEMMA ConnIs == Conn \subseteq Nat /\ 0 \notin Conn
BY DEF Conn

\* A connection comes, drops, is replaced or ends: the numbers given out and
\* the agent's goroutines stay, what it carried may be lost, and those who wait
\* for a reply may find their channel closed.
LinkMoves ==
    /\ \A k \in Conn : /\ conn'[k].seq = conn[k].seq /\ conn'[k].pending \subseteq conn[k].pending
                       /\ \/ conn'[k].sinks = conn[k].sinks /\ conn'[k].closed = conn[k].closed
                          \/ conn'[k].sinks = {} /\ conn'[k].closed
                       /\ conn[k].broken => conn'[k].broken
                       /\ conn[k].agent # "none" => conn'[k].agent # "none"
                       /\ conn'[k].agent = "serving" => conn[k].agent \in {"none", "serving"}
                       /\ down'[k] \in {down[k], <<>>} /\ up'[k] \in {up[k], <<>>}
                       /\ (up'[k] = up[k] \/ conn'[k].closed)
    /\ \A b \in Tab : \/ tab'[b] = tab[b]
                      \/ /\ tab'[b] = [tab[b] EXCEPT !.ch = "closed"]
                         /\ tab[b].on \in Conn /\ tab[b].id \in conn[tab[b].on].pending
                         /\ conn'[tab[b].on].closed
    /\ UNCHANGED <<hand, handler, started>>

LEMMA DialDoes ==
    ASSUME Shape, NEW k \in Conn, Dial(k)
    PROVE  /\ LinkMoves /\ Shape' /\ UNCHANGED <<registered, polls, subs>>
           /\ \A j \in Conn : conn'[j].agent = "none" => conn[j].agent = "none" /\ conn'[j].hub = conn[j].hub
<1>1. conn \in [Conn -> Link]
  BY DEF Shape
<1>2. conn' = [conn EXCEPT ![k].agent = "serving", ![k].hub = "hello"]
  BY DEF Dial
<1>3. conn' \in [Conn -> Link]
  <2>1. [conn[k] EXCEPT !.agent = "serving", !.hub = "hello"] \in Link
    BY <1>1 DEF Link
  <2>2. conn' = [conn EXCEPT ![k] = [conn[k] EXCEPT !.agent = "serving", !.hub = "hello"]]
    BY <1>1, <1>2
  <2> QED BY <1>1, <2>1, <2>2
<1>4. \A j \in Conn : /\ conn'[j].seq = conn[j].seq /\ conn'[j].pending = conn[j].pending
                      /\ conn'[j].sinks = conn[j].sinks /\ conn'[j].closed = conn[j].closed
                      /\ conn'[j].broken = conn[j].broken
                      /\ conn'[j].agent = IF j = k THEN "serving" ELSE conn[j].agent
                      /\ conn'[j].hub = IF j = k THEN "hello" ELSE conn[j].hub
  BY <1>1, <1>2 DEF Link
<1>5. UNCHANGED <<registered, down, up, hand, tab, agent, left>> /\ conn[k].agent = "none"
  BY DEF Dial
<1> QED BY <1>3, <1>4, <1>5 DEF LinkMoves, Shape, agent

LEMMA DropDoes ==
    ASSUME Shape, NEW k \in Conn, Drop(k)
    PROVE  /\ LinkMoves /\ Shape' /\ UNCHANGED <<registered, polls, subs>>
           /\ \A j \in Conn : conn'[j].agent = conn[j].agent /\ conn'[j].hub = conn[j].hub
<1>1. conn \in [Conn -> Link]
  BY DEF Shape
<1>2. conn' = [conn EXCEPT ![k].broken = TRUE]
  BY DEF Drop
<1>3. conn' \in [Conn -> Link]
  BY <1>1, <1>2, ZenonT(40) DEF Link
<1>4. \A j \in Conn : /\ conn'[j].seq = conn[j].seq /\ conn'[j].pending = conn[j].pending
                      /\ conn'[j].sinks = conn[j].sinks /\ conn'[j].closed = conn[j].closed
                      /\ conn[j].broken => conn'[j].broken
                      /\ conn'[j].agent = conn[j].agent
                      /\ conn'[j].hub = conn[j].hub
  BY <1>1, <1>2 DEF Link
<1>5. UNCHANGED <<registered, down, up, hand, tab, agent>>
  BY DEF Drop
<1> QED BY <1>3, <1>4, <1>5 DEF LinkMoves, Shape, agent

\* machine.shutdown, field by field.
Shuts(cs, k) ==
    /\ cs \in [Conn -> Link]
    /\ \A j \in Conn : /\ cs[j].seq = conn[j].seq /\ cs[j].agent = conn[j].agent
                       /\ cs[j].hub = conn[j].hub /\ cs[j].broken = conn[j].broken
                       /\ j # k => cs[j] = conn[j]
    /\ cs[k].closed = TRUE /\ cs[k].pending = {} /\ cs[k].sinks = {}

LEMMA ClosedIs ==
    ASSUME NEW k \in Conn, conn \in [Conn -> Link]
    PROVE  Shuts(Closed(conn, k), k)
<1> DEFINE cs == Closed(conn, k)
<1>1. cs = [conn EXCEPT ![k].closed = TRUE, ![k].pending = {}, ![k].sinks = {}]
  BY DEF Closed
<1> HIDE DEF cs
<1>2. cs \in [Conn -> Link]
  <2>1. conn[k] \in Link
    OBVIOUS
  <2>2. {} \in SUBSET Nat /\ {} \in SUBSET Sink
    OBVIOUS
  <2>3. [conn[k] EXCEPT !.closed = TRUE, !.pending = {}, !.sinks = {}] \in Link
    BY <2>1, <2>2 DEF Link
  <2>4. cs = [conn EXCEPT ![k] = [conn[k] EXCEPT !.closed = TRUE, !.pending = {}, !.sinks = {}]]
    BY <1>1
  <2> QED BY <2>3, <2>4
<1>3. \A j \in Conn : /\ cs[j].seq = conn[j].seq /\ cs[j].agent = conn[j].agent
                      /\ cs[j].hub = conn[j].hub /\ cs[j].broken = conn[j].broken
                      /\ j # k => cs[j] = conn[j]
  BY <1>1 DEF Link
<1>4. cs[k].closed = TRUE /\ cs[k].pending = {} /\ cs[k].sinks = {}
  BY <1>1 DEF Link
<1>5. Shuts(cs, k)
  BY <1>2, <1>3, <1>4 DEF Shuts
<1> QED BY <1>5 DEF cs

LEMMA WokenIs ==
    ASSUME NEW k \in Conn, tab \in [Tab -> Bridge], NEW ts, ts = Woken(k)
    PROVE  /\ ts \in [Tab -> Bridge]
           /\ \A b \in Tab : \/ ts[b] = tab[b]
                             \/ /\ ts[b] = [tab[b] EXCEPT !.ch = "closed"]
                                /\ tab[b].on = k /\ tab[b].id \in conn[k].pending
<1>1. \A b \in Tab : [tab[b] EXCEPT !.ch = "closed"] \in Bridge /\ tab[b] \in Bridge
  BY DEF Bridge
<1> QED BY <1>1 DEF Woken

LEMMA AddDoes ==
    ASSUME Shape, NEW k \in Conn, Add(k)
    PROVE  /\ LinkMoves /\ Shape' /\ UNCHANGED <<polls, subs>>
           /\ conn[k].hub = "hello" /\ registered' = k
           /\ \A j \in Conn : /\ conn'[j].agent = conn[j].agent
                              /\ j # k => conn'[j].hub = conn[j].hub
<1>1. conn \in [Conn -> Link] /\ tab \in [Tab -> Bridge]
  BY DEF Shape
<1>2. registered' = k /\ conn[k].hub = "hello" /\ UNCHANGED <<down, up, hand, agent>>
  BY DEF Add
<1>3. ASSUME NEW cs \in [Conn -> Link], conn' = [cs EXCEPT ![k].hub = "reading"]
      PROVE  /\ conn' \in [Conn -> Link]
             /\ \A j \in Conn : /\ conn'[j].seq = cs[j].seq /\ conn'[j].pending = cs[j].pending
                                /\ conn'[j].sinks = cs[j].sinks /\ conn'[j].closed = cs[j].closed
                                /\ conn'[j].broken = cs[j].broken /\ conn'[j].agent = cs[j].agent
                                /\ j # k => conn'[j].hub = cs[j].hub
  BY <1>3 DEF Link
<1>4. CASE registered = 0
  <2>1. conn' = [conn EXCEPT ![k].hub = "reading"] /\ tab' = tab
    BY <1>4 DEF Add
  <2>2. /\ conn' \in [Conn -> Link]
        /\ \A j \in Conn : /\ conn'[j].seq = conn[j].seq /\ conn'[j].pending = conn[j].pending
                           /\ conn'[j].sinks = conn[j].sinks /\ conn'[j].closed = conn[j].closed
                           /\ conn'[j].broken = conn[j].broken /\ conn'[j].agent = conn[j].agent
                           /\ j # k => conn'[j].hub = conn[j].hub
    BY <1>1, <1>3, <2>1
  <2> QED BY <1>2, <2>1, <2>2 DEF LinkMoves, Shape, agent
<1>5. CASE registered # 0
  <2>1. PICK old \in Conn : old = registered
    BY <1>5 DEF Shape
  <2>2. PICK cs : cs = Closed(conn, old)
    OBVIOUS
  <2>3. conn' = [cs EXCEPT ![k].hub = "reading"] /\ tab' = Woken(old)
    BY <1>5, <2>1, <2>2 DEF Add
  <2>4. cs \in [Conn -> Link] /\ Shuts(cs, old)
    BY <1>1, <2>2, ClosedIs DEF Shuts
  <2>5. /\ conn' \in [Conn -> Link]
        /\ \A j \in Conn : /\ conn'[j].seq = cs[j].seq /\ conn'[j].pending = cs[j].pending
                           /\ conn'[j].sinks = cs[j].sinks /\ conn'[j].closed = cs[j].closed
                           /\ conn'[j].broken = cs[j].broken /\ conn'[j].agent = cs[j].agent
                           /\ j # k => conn'[j].hub = cs[j].hub
    BY <1>3, <2>3, <2>4
  <2>6. /\ tab' \in [Tab -> Bridge]
        /\ \A b \in Tab : \/ tab'[b] = tab[b]
                          \/ /\ tab'[b] = [tab[b] EXCEPT !.ch = "closed"]
                             /\ tab[b].on = old /\ tab[b].id \in conn[old].pending
    BY <1>1, <2>3, WokenIs
  <2>7. LinkMoves
    BY <1>2, <2>4, <2>5, <2>6 DEF LinkMoves, agent, Shuts
  <2> QED BY <1>2, <2>4, <2>5, <2>6, <2>7 DEF Shape, agent, Shuts
<1> QED BY <1>4, <1>5

LEMMA ReadErrorDoes ==
    ASSUME Shape, NEW k \in Conn, ReadError(k)
    PROVE  /\ LinkMoves /\ Shape' /\ UNCHANGED <<registered, polls, subs>>
           /\ conn[k].hub = "reading"
           /\ \A j \in Conn : /\ conn'[j].agent = conn[j].agent
                              /\ j # k => conn'[j].hub = conn[j].hub
<1>1. conn \in [Conn -> Link] /\ tab \in [Tab -> Bridge] /\ up \in [Conn -> Seq(Message)]
  BY DEF Shape
<1>2. /\ conn[k].hub = "reading" /\ up' = [up EXCEPT ![k] = <<>>]
      /\ tab' = Woken(k) /\ UNCHANGED <<registered, down, hand, agent>>
  BY DEF ReadError
<1>3. PICK cs : cs = Closed(conn, k)
  OBVIOUS
<1>4. conn' = [cs EXCEPT ![k].hub = "leaving"]
  BY <1>3 DEF ReadError
<1>5. cs \in [Conn -> Link] /\ Shuts(cs, k)
  BY <1>1, <1>3, ClosedIs DEF Shuts
<1>6. /\ conn' \in [Conn -> Link]
      /\ \A j \in Conn : /\ conn'[j].seq = cs[j].seq /\ conn'[j].pending = cs[j].pending
                         /\ conn'[j].sinks = cs[j].sinks /\ conn'[j].closed = cs[j].closed
                         /\ conn'[j].broken = cs[j].broken /\ conn'[j].agent = cs[j].agent
                         /\ j # k => conn'[j].hub = cs[j].hub
  BY <1>4, <1>5 DEF Link
<1>7. /\ tab' \in [Tab -> Bridge]
      /\ \A b \in Tab : \/ tab'[b] = tab[b]
                        \/ /\ tab'[b] = [tab[b] EXCEPT !.ch = "closed"]
                           /\ tab[b].on = k /\ tab[b].id \in conn[k].pending
  BY <1>1, <1>2, WokenIs
<1>8. up' \in [Conn -> Seq(Message)] /\ up'[k] = <<>> /\ \A j \in Conn : j # k => up'[j] = up[j]
  BY <1>1, <1>2
<1>9. LinkMoves
  BY <1>2, <1>5, <1>6, <1>7, <1>8 DEF LinkMoves, agent, Shuts
<1> QED BY <1>2, <1>5, <1>6, <1>7, <1>8, <1>9 DEF Shape, agent, Shuts

LEMMA RemoveDoes ==
    ASSUME Shape, NEW k \in Conn, Remove(k)
    PROVE  /\ LinkMoves /\ Shape' /\ UNCHANGED <<polls, subs>>
           /\ conn[k].hub = "leaving" /\ registered' \in {registered, 0}
           /\ \A j \in Conn : /\ conn'[j].agent = conn[j].agent
                              /\ j # k => conn'[j].hub = conn[j].hub
<1>1. conn \in [Conn -> Link]
  BY DEF Shape
<1>2. conn' = [conn EXCEPT ![k].hub = "gone"]
  BY DEF Remove
<1>3. conn' \in [Conn -> Link]
  BY <1>1, <1>2 DEF Link
<1>4. \A j \in Conn : /\ conn'[j].seq = conn[j].seq /\ conn'[j].pending = conn[j].pending
                      /\ conn'[j].sinks = conn[j].sinks /\ conn'[j].closed = conn[j].closed
                      /\ conn'[j].broken = conn[j].broken /\ conn'[j].agent = conn[j].agent
                      /\ j # k => conn'[j].hub = conn[j].hub
  BY <1>1, <1>2 DEF Link
<1>5. /\ UNCHANGED <<down, up, hand, tab, agent>> /\ conn[k].hub = "leaving"
      /\ registered' \in {registered, 0}
  BY DEF Remove
<1> QED BY <1>3, <1>4, <1>5 DEF LinkMoves, Shape, agent

\* The poll loops that are cancelled, and the others.
LEMMA CancelIs ==
    ASSUME polls \subseteq Poll, NEW ps, NEW new, new = Cancel(ps)
    PROVE  /\ new \subseteq Poll
           /\ \A p \in new : p.live => p \in polls /\ p \notin ps
           /\ \A p \in polls : p \notin ps => p \in new
           /\ \A p \in new : \E q \in polls : q.on = p.on /\ q.key = p.key
<1>1. \A p \in polls : /\ [p EXCEPT !.live = FALSE] \in Poll /\ p \in Poll
                       /\ [p EXCEPT !.live = FALSE].live = FALSE
                       /\ [p EXCEPT !.live = FALSE].on = p.on /\ [p EXCEPT !.live = FALSE].key = p.key
  BY DEF Poll
<1>2. new = {IF p \in ps THEN [p EXCEPT !.live = FALSE] ELSE p : p \in polls}
  BY DEF Cancel
<1>3. ASSUME NEW p \in new
      PROVE  /\ p \in Poll /\ (p.live => p \in polls /\ p \notin ps)
             /\ \E q \in polls : q.on = p.on /\ q.key = p.key
  <2>1. PICK q \in polls : p = IF q \in ps THEN [q EXCEPT !.live = FALSE] ELSE q
    BY <1>2
  <2>2. CASE q \in ps
    BY <1>1, <2>1, <2>2
  <2>3. CASE q \notin ps
    BY <1>1, <2>1, <2>3
  <2> QED BY <2>2, <2>3
<1> QED BY <1>2, <1>3

LEMMA ServeEndsDoes ==
    ASSUME Shape, NEW k \in Conn, ServeEnds(k)
    PROVE  /\ LinkMoves /\ Shape' /\ UNCHANGED registered
           /\ conn'[k].agent = "ended"
           /\ \A j \in Conn : /\ j # k => conn'[j].agent = conn[j].agent
                              /\ conn'[j].hub = conn[j].hub
           /\ polls' = Cancel({p \in subs[k] : p.on = k})
           /\ subs'[k] = {} /\ \A j \in Conn : j # k => subs'[j] = subs[j]
<1>1. /\ conn \in [Conn -> Link] /\ down \in [Conn -> Seq(Request)] /\ polls \subseteq Poll
      /\ subs \in [Conn -> SUBSET Poll]
  BY DEF Shape
<1>2. /\ conn[k].agent = "serving"
      /\ conn' = [conn EXCEPT ![k].agent = "ended", ![k].broken = TRUE]
      /\ polls' = Cancel({p \in subs[k] : p.on = k})
      /\ subs' = [subs EXCEPT ![k] = {}] /\ down' = [down EXCEPT ![k] = <<>>]
      /\ UNCHANGED <<registered, up, hand, tab, handler, started>>
  BY DEF ServeEnds
<1>3. conn' \in [Conn -> Link]
  <2>1. [conn[k] EXCEPT !.agent = "ended", !.broken = TRUE] \in Link
    BY <1>1 DEF Link
  <2>2. conn' = [conn EXCEPT ![k] = [conn[k] EXCEPT !.agent = "ended", !.broken = TRUE]]
    BY <1>1, <1>2
  <2> QED BY <1>1, <2>1, <2>2
<1>4. \A j \in Conn : /\ conn'[j].seq = conn[j].seq /\ conn'[j].pending = conn[j].pending
                      /\ conn'[j].sinks = conn[j].sinks /\ conn'[j].closed = conn[j].closed
                      /\ conn[j].broken => conn'[j].broken
                      /\ conn'[j].agent = IF j = k THEN "ended" ELSE conn[j].agent
                      /\ conn'[j].hub = conn[j].hub
  BY <1>1, <1>2 DEF Link
<1>5. /\ down' \in [Conn -> Seq(Request)] /\ down'[k] = <<>>
      /\ \A j \in Conn : j # k => down'[j] = down[j]
  BY <1>1, <1>2
<1>6. /\ subs' \in [Conn -> SUBSET Poll] /\ subs'[k] = {}
      /\ \A j \in Conn : j # k => subs'[j] = subs[j]
  BY <1>1, <1>2
<1>7. polls' \subseteq Poll
  BY <1>1, <1>2, CancelIs
<1>8. LinkMoves
  <2>1. \A j \in Conn : down'[j] \in {down[j], <<>>} /\ up'[j] = up[j]
    BY <1>2, <1>5
  <2>2. \A j \in Conn : conn'[j].agent # "none" /\ conn'[j].agent = "serving" => conn[j].agent = "serving"
    BY <1>4
  <2>3. \A j \in Conn : conn[j].agent # "none" => conn'[j].agent # "none"
    BY <1>4
  <2>4. UNCHANGED <<tab, hand, handler, started>>
    BY <1>2 DEF ServeEnds
  <2> QED BY <1>4, <2>1, <2>2, <2>3, <2>4 DEF LinkMoves
<1>9. Shape'
  BY <1>2, <1>3, <1>5, <1>6, <1>7 DEF Shape
<1> QED BY <1>2, <1>4, <1>6, <1>8, <1>9
-----------------------------------------------------------------------------
(* The steps of a tab.                                                        *)

\* Only this tab, and of the connections only k, change; k neither comes nor ends.
Tabs(b, k) ==
    /\ tab' \in [Tab -> Bridge] /\ conn' \in [Conn -> Link]
    /\ \A c \in Tab : c # b => tab'[c] = tab[c]
    /\ \A j \in Conn : /\ j # k => conn'[j] = conn[j]
                       /\ conn'[j].agent = conn[j].agent /\ conn'[j].hub = conn[j].hub
                       /\ conn'[j].broken = conn[j].broken /\ conn'[j].closed = conn[j].closed
    /\ UNCHANGED <<registered, up, hand, agent>>

\* ... and the tab stays where it is.
There(b) == tab'[b].on = tab[b].on /\ tab'[b].prefix = tab[b].prefix

\* The request ends in an error, for this reason.
Fails(b, why) ==
    LET k == tab[b].on IN
    /\ There(b) /\ UNCHANGED down
    /\ tab'[b].pc = (IF tab[b].op = "close" THEN "left" ELSE "idle")
    /\ tab'[b].id = 0 /\ tab'[b].ch = "empty" /\ tab'[b].op = "none" /\ ~tab'[b].mine
    /\ tab'[b].told = (IF tab[b].op = "subscribe" THEN "error" ELSE "off")
    /\ tab'[b].faults = tab[b].faults \cup why
    /\ conn'[k].seq = conn[k].seq /\ conn'[k].pending = conn[k].pending \ {tab[b].id}
    /\ conn'[k].sinks = IF tab[b].op = "subscribe" THEN SinksWithout(k, Key(b)) ELSE conn[k].sinks

\* The reply is that it was done.
Succeeds(b) ==
    /\ There(b) /\ UNCHANGED <<conn, down>>
    /\ tab'[b].pc = (IF tab[b].op = "close" THEN "left" ELSE "idle")
    /\ tab'[b].id = 0 /\ tab'[b].ch = "empty" /\ tab'[b].op = "none"
    /\ tab'[b].mine = tab[b].mine /\ tab'[b].faults = tab[b].faults
    /\ tab'[b].told = IF tab[b].op # "subscribe" THEN "off"
                      ELSE IF tab[b].told = "asked" THEN "on" ELSE tab[b].told

LEMMA EndedIs ==
    ASSUME Shape, NEW b \in Tab, NEW ok \in BOOLEAN, NEW why \in SUBSET {"refused", "timeout"},
           tab' = Ended(b, ok, why)
    PROVE  /\ tab' \in [Tab -> Bridge] /\ There(b) /\ \A c \in Tab : c # b => tab'[c] = tab[c]
           /\ tab'[b].pc = (IF tab[b].op = "close" THEN "left" ELSE "idle")
           /\ tab'[b].id = 0 /\ tab'[b].ch = "empty" /\ tab'[b].op = "none"
           /\ tab'[b].mine = (tab[b].mine /\ ok) /\ tab'[b].faults = tab[b].faults \cup why
           /\ tab'[b].told = IF tab[b].op # "subscribe" THEN "off"
                             ELSE IF ~ok THEN "error"
                             ELSE IF tab[b].told = "asked" THEN "on" ELSE tab[b].told
<1>1. tab \in [Tab -> Bridge] /\ tab[b] \in Bridge
  BY DEF Shape
<1>2. PICK pc, told, mine, faults :
        /\ pc = (IF tab[b].op = "close" THEN "left" ELSE "idle")
        /\ told = (IF tab[b].op # "subscribe" THEN "off"
                   ELSE IF ~ok THEN "error"
                   ELSE IF tab[b].told = "asked" THEN "on" ELSE tab[b].told)
        /\ mine = (tab[b].mine /\ ok)
        /\ faults = tab[b].faults \cup why
  OBVIOUS
<1>3. tab' = [tab EXCEPT ![b] = [tab[b] EXCEPT !.pc = pc, !.id = 0, !.ch = "empty", !.op = "none",
                                               !.mine = mine, !.told = told, !.faults = faults]]
  BY <1>1, <1>2, ZenonT(40) DEF Ended
<1>4. /\ pc \in {"left", "idle"} /\ told \in {"off", "asked", "on", "error"} /\ mine \in BOOLEAN
      /\ faults \in SUBSET {"refused", "timeout"}
  BY <1>1, <1>2 DEF Bridge
<1>5. [tab[b] EXCEPT !.pc = pc, !.id = 0, !.ch = "empty", !.op = "none",
                     !.mine = mine, !.told = told, !.faults = faults] \in Bridge
  <2>1. PICK r : r = [tab[b] EXCEPT !.pc = pc, !.id = 0, !.ch = "empty", !.op = "none",
                                    !.mine = mine]
    OBVIOUS
  <2>2. r \in Bridge
    BY <1>1, <1>4, <2>1 DEF Bridge
  <2>3. [r EXCEPT !.told = told, !.faults = faults] \in Bridge
    BY <1>4, <2>2 DEF Bridge
  <2>4. [r EXCEPT !.told = told, !.faults = faults]
          = [tab[b] EXCEPT !.pc = pc, !.id = 0, !.ch = "empty", !.op = "none",
                           !.mine = mine, !.told = told, !.faults = faults]
    BY <1>1, <2>1, <2>2 DEF Bridge
  <2> QED BY <2>3, <2>4
<1>6. tab' \in [Tab -> Bridge] /\ \A c \in Tab : c # b => tab'[c] = tab[c]
  BY <1>1, <1>3, <1>5
<1>7. /\ tab'[b].pc = pc /\ tab'[b].id = 0 /\ tab'[b].ch = "empty" /\ tab'[b].op = "none"
      /\ tab'[b].mine = mine /\ tab'[b].told = told /\ tab'[b].faults = faults /\ There(b)
  BY <1>1, <1>3 DEF Bridge, There
<1> QED BY <1>2, <1>6, <1>7

LEMMA SinksAre ==
    ASSUME Shape, NEW k \in Conn, NEW key
    PROVE  SinksWithout(k, key) \subseteq conn[k].sinks /\ conn[k].sinks \in SUBSET Sink
BY DEF Shape, Link, SinksWithout

LEMMA FailsDoes ==
    ASSUME Shape, NEW b \in Tab, NEW why \in SUBSET {"refused", "timeout"}, tab[b].on \in Conn,
           tab' = Ended(b, FALSE, why), conn' = Forgotten(b),
           UNCHANGED <<registered, down, up, hand, agent>>
    PROVE  Tabs(b, tab[b].on) /\ Fails(b, why)
<1>1. PICK k \in Conn : k = tab[b].on
  OBVIOUS
<1>2. PICK pending, sinks :
        /\ pending = conn[k].pending \ {tab[b].id}
        /\ sinks = IF tab[b].op = "subscribe" THEN SinksWithout(k, Key(b)) ELSE conn[k].sinks
  OBVIOUS
<1>3. conn \in [Conn -> Link] /\ conn[k] \in Link
  BY DEF Shape
<1>4. conn' = [conn EXCEPT ![k] = [conn[k] EXCEPT !.pending = pending, !.sinks = sinks]]
  BY <1>1, <1>2, <1>3 DEF Forgotten
<1>5. pending \in SUBSET Nat /\ sinks \in SUBSET Sink
  BY <1>2, <1>3, SinksAre DEF Link
<1>6. [conn[k] EXCEPT !.pending = pending, !.sinks = sinks] \in Link
  BY <1>3, <1>5 DEF Link
<1>7. conn' \in [Conn -> Link] /\ \A j \in Conn : j # k => conn'[j] = conn[j]
  BY <1>3, <1>4, <1>6
<1>8. /\ conn'[k].agent = conn[k].agent /\ conn'[k].hub = conn[k].hub
      /\ conn'[k].broken = conn[k].broken /\ conn'[k].closed = conn[k].closed
      /\ conn'[k].seq = conn[k].seq /\ conn'[k].pending = pending /\ conn'[k].sinks = sinks
  BY <1>3, <1>4 DEF Link
<1>9. /\ tab' \in [Tab -> Bridge] /\ There(b) /\ \A c \in Tab : c # b => tab'[c] = tab[c]
      /\ tab'[b].pc = (IF tab[b].op = "close" THEN "left" ELSE "idle")
      /\ tab'[b].id = 0 /\ tab'[b].ch = "empty" /\ tab'[b].op = "none"
      /\ ~tab'[b].mine /\ tab'[b].faults = tab[b].faults \cup why
      /\ tab'[b].told = IF tab[b].op # "subscribe" THEN "off" ELSE "error"
  BY EndedIs
<1>10. Tabs(b, k)
  BY <1>7, <1>8, <1>9 DEF Tabs
<1>11. Fails(b, why)
  BY <1>1, <1>2, <1>8, <1>9 DEF Fails
<1> QED BY <1>1, <1>10, <1>11

\* A tab finds the machine.
Opens(b, k) ==
    /\ k = registered /\ tab[b].pc = "new" /\ Tabs(b, k) /\ UNCHANGED down
    /\ conn'[k].seq = conn[k].seq + 1
    /\ conn'[k].pending = conn[k].pending /\ conn'[k].sinks = conn[k].sinks
    /\ tab'[b].pc = "idle" /\ tab'[b].on = k /\ tab'[b].prefix = conn[k].seq + 1
    /\ tab'[b].id = tab[b].id /\ tab'[b].ch = tab[b].ch
    /\ tab'[b].mine = tab[b].mine /\ tab'[b].told = tab[b].told /\ tab'[b].faults = tab[b].faults

LEMMA OpenDoes ==
    ASSUME Shape, NEW b \in Tab, Open(b)
    PROVE  \E k \in Conn : Opens(b, k)
<1>1. PICK k \in Conn : k = registered
  BY DEF Open, Shape
<1>2. conn \in [Conn -> Link] /\ tab \in [Tab -> Bridge] /\ conn[k].seq \in Nat /\ k \in Conn \cup {0}
  BY DEF Shape, Link
<1>3. PICK n \in Nat : n = conn[k].seq + 1
  BY <1>2
<1>4. /\ tab[b].pc = "new" /\ conn' = [conn EXCEPT ![k].seq = n]
      /\ tab' = [tab EXCEPT ![b].pc = "idle", ![b].on = k, ![b].prefix = n]
      /\ UNCHANGED <<registered, down, up, hand, agent>>
  BY <1>1, <1>3 DEF Open
<1>5. conn' \in [Conn -> Link] /\ \A j \in Conn : j # k => conn'[j] = conn[j]
  BY <1>2, <1>4 DEF Link
<1>6. /\ conn'[k].agent = conn[k].agent /\ conn'[k].hub = conn[k].hub
      /\ conn'[k].broken = conn[k].broken /\ conn'[k].closed = conn[k].closed
      /\ conn'[k].seq = n /\ conn'[k].pending = conn[k].pending
      /\ conn'[k].sinks = conn[k].sinks
  BY <1>2, <1>4 DEF Link
<1>7. tab' \in [Tab -> Bridge] /\ \A c \in Tab : c # b => tab'[c] = tab[c]
  <2>1. [tab[b] EXCEPT !.pc = "idle", !.on = k, !.prefix = n] \in Bridge
    BY <1>2, ZenonT(40) DEF Bridge
  <2>2. tab' = [tab EXCEPT ![b] = [tab[b] EXCEPT !.pc = "idle", !.on = k, !.prefix = n]]
    BY <1>2, <1>4
  <2> QED BY <1>2, <2>1, <2>2
<1>8. /\ tab'[b].pc = "idle" /\ tab'[b].on = k /\ tab'[b].prefix = n
      /\ tab'[b].id = tab[b].id /\ tab'[b].ch = tab[b].ch
      /\ tab'[b].mine = tab[b].mine /\ tab'[b].told = tab[b].told /\ tab'[b].faults = tab[b].faults
  BY <1>2, <1>4 DEF Bridge
<1>9. Tabs(b, k)
  BY <1>4, <1>5, <1>6, <1>7 DEF Tabs
<1>10. Opens(b, k)
  BY <1>1, <1>3, <1>4, <1>6, <1>8, <1>9 DEF Opens
<1> QED BY <1>10

\* What a step between two requests keeps of a tab.
Rests(b) ==
    /\ There(b) /\ UNCHANGED down
    /\ tab'[b].id = tab[b].id /\ tab'[b].ch = tab[b].ch /\ tab'[b].faults = tab[b].faults

\* A tab asks for its stream: at once in vain, or with a sink.
AsksInVain(b) ==
    /\ Rests(b) /\ UNCHANGED conn /\ conn[tab[b].on].closed
    /\ tab'[b].pc = "idle" /\ tab'[b].op = tab[b].op /\ ~tab'[b].mine /\ tab'[b].told = "error"

AsksFor(b) ==
    LET k == tab[b].on IN
    /\ Rests(b) /\ ~conn[k].closed
    /\ tab'[b].pc = "call" /\ tab'[b].op = "subscribe" /\ tab'[b].mine /\ tab'[b].told = "asked"
    /\ conn'[k].seq = conn[k].seq /\ conn'[k].pending = conn[k].pending
    /\ conn'[k].sinks = SinksWithout(k, Key(b)) \cup {[key |-> Key(b), tab |-> b]}

LEMMA SubscribeDoes ==
    ASSUME Shape, NEW b \in Tab, tab[b].on \in Conn, Subscribe(b)
    PROVE  tab[b].pc = "idle" /\ Tabs(b, tab[b].on) /\ (AsksInVain(b) \/ AsksFor(b))
<1>1. PICK k \in Conn : k = tab[b].on
  OBVIOUS
<1>2. conn \in [Conn -> Link] /\ tab \in [Tab -> Bridge] /\ tab[b] \in Bridge /\ conn[k] \in Link
  BY DEF Shape
<1>3. tab[b].pc = "idle" /\ UNCHANGED <<registered, down, up, hand, agent>>
  BY DEF Subscribe
<1>4. CASE conn[k].closed
  <2>1. tab' = [tab EXCEPT ![b] = [tab[b] EXCEPT !.mine = FALSE, !.told = "error"]] /\ conn' = conn
    BY <1>1, <1>2, <1>4 DEF Subscribe
  <2>2. [tab[b] EXCEPT !.mine = FALSE, !.told = "error"] \in Bridge
    BY <1>2 DEF Bridge
  <2>3. tab' \in [Tab -> Bridge] /\ \A c \in Tab : c # b => tab'[c] = tab[c]
    BY <1>2, <2>1, <2>2
  <2>4. /\ There(b) /\ tab'[b].pc = tab[b].pc /\ tab'[b].op = tab[b].op /\ ~tab'[b].mine
        /\ tab'[b].told = "error" /\ tab'[b].id = tab[b].id /\ tab'[b].ch = tab[b].ch
        /\ tab'[b].faults = tab[b].faults
    BY <1>2, <2>1 DEF Bridge, There
  <2>5. Tabs(b, k)
    BY <1>2, <1>3, <2>1, <2>3 DEF Tabs
  <2>6. AsksInVain(b)
    BY <1>1, <1>3, <1>4, <2>1, <2>4 DEF AsksInVain, Rests
  <2> QED BY <1>1, <1>3, <2>5, <2>6
<1>5. CASE ~conn[k].closed
  <2>1. PICK sinks : sinks = SinksWithout(k, Key(b)) \cup {[key |-> Key(b), tab |-> b]}
    OBVIOUS
  <2>2. /\ tab' = [tab EXCEPT ![b] = [tab[b] EXCEPT !.pc = "call", !.op = "subscribe",
                                                    !.mine = TRUE, !.told = "asked"]]
        /\ conn' = [conn EXCEPT ![k].sinks = sinks]
    BY <1>1, <1>2, <1>5, <2>1 DEF Subscribe
  <2>3. [tab[b] EXCEPT !.pc = "call", !.op = "subscribe", !.mine = TRUE, !.told = "asked"] \in Bridge
    BY <1>2 DEF Bridge
  <2>4. tab' \in [Tab -> Bridge] /\ \A c \in Tab : c # b => tab'[c] = tab[c]
    BY <1>2, <2>2, <2>3
  <2>5. /\ There(b) /\ tab'[b].pc = "call" /\ tab'[b].op = "subscribe" /\ tab'[b].mine
        /\ tab'[b].told = "asked" /\ tab'[b].id = tab[b].id /\ tab'[b].ch = tab[b].ch
        /\ tab'[b].faults = tab[b].faults
    BY <1>2, <2>2 DEF Bridge, There
  <2>6. sinks \in SUBSET Sink
    <3>1. Key(b) \in Nat
      BY <1>2 DEF Bridge, Key
    <3> QED BY <2>1, <3>1, SinksAre DEF Sink
  <2>7. conn' \in [Conn -> Link] /\ \A j \in Conn : j # k => conn'[j] = conn[j]
    BY <1>2, <2>2, <2>6 DEF Link
  <2>8. /\ conn'[k].agent = conn[k].agent /\ conn'[k].hub = conn[k].hub
        /\ conn'[k].broken = conn[k].broken /\ conn'[k].closed = conn[k].closed
        /\ conn'[k].seq = conn[k].seq /\ conn'[k].pending = conn[k].pending
        /\ conn'[k].sinks = sinks
    BY <1>2, <2>2 DEF Link
  <2>9. Tabs(b, k)
    BY <1>3, <2>4, <2>7, <2>8 DEF Tabs
  <2>10. AsksFor(b)
    BY <1>1, <1>3, <1>5, <2>1, <2>5, <2>8 DEF AsksFor, Rests
  <2> QED BY <1>1, <1>3, <2>9, <2>10
<1> QED BY <1>4, <1>5

\* A tab gives its stream back, ...
Withdraws(b) ==
    LET k == tab[b].on IN
    /\ Rests(b)
    /\ tab'[b].pc = "call" /\ tab'[b].op \in {"unsubscribe", "close"}
    /\ ~tab'[b].mine /\ tab'[b].told = "off"
    /\ conn'[k].seq = conn[k].seq /\ conn'[k].pending = conn[k].pending
    /\ conn'[k].sinks = SinksWithout(k, Key(b))

\* ... or leaves, having none.
Goes(b) ==
    /\ Rests(b) /\ UNCHANGED conn /\ ~tab[b].mine
    /\ tab'[b].pc = "left" /\ tab'[b].op = tab[b].op /\ ~tab'[b].mine /\ tab'[b].told = "off"

LEMMA WithdrawDoes ==
    ASSUME Shape, NEW b \in Tab, tab[b].on \in Conn, Unsubscribe(b) \/ Leave(b)
    PROVE  tab[b].pc = "idle" /\ Tabs(b, tab[b].on) /\ (Withdraws(b) \/ Goes(b))
<1>1. PICK k \in Conn : k = tab[b].on
  OBVIOUS
<1>2. conn \in [Conn -> Link] /\ tab \in [Tab -> Bridge] /\ tab[b] \in Bridge /\ conn[k] \in Link
  BY DEF Shape
<1>3. tab[b].pc = "idle" /\ UNCHANGED <<registered, down, up, hand, agent>>
  BY DEF Unsubscribe, Leave
<1>4. CASE Leave(b) /\ ~tab[b].mine
  <2>1. tab' = [tab EXCEPT ![b] = [tab[b] EXCEPT !.pc = "left", !.told = "off"]] /\ conn' = conn
    BY <1>2, <1>4 DEF Leave
  <2>2. [tab[b] EXCEPT !.pc = "left", !.told = "off"] \in Bridge
    BY <1>2 DEF Bridge
  <2>3. tab' \in [Tab -> Bridge] /\ \A c \in Tab : c # b => tab'[c] = tab[c]
    BY <1>2, <2>1, <2>2
  <2>4. /\ There(b) /\ tab'[b].pc = "left" /\ tab'[b].op = tab[b].op /\ tab'[b].mine = tab[b].mine
        /\ tab'[b].told = "off" /\ tab'[b].id = tab[b].id /\ tab'[b].ch = tab[b].ch
        /\ tab'[b].faults = tab[b].faults
    BY <1>2, <2>1 DEF Bridge, There
  <2>5. Tabs(b, k)
    BY <1>2, <1>3, <2>1, <2>3 DEF Tabs
  <2>6. Goes(b)
    BY <1>3, <1>4, <2>1, <2>4 DEF Goes, Rests
  <2> QED BY <1>1, <1>3, <2>5, <2>6
<1>5. CASE Unsubscribe(b) \/ (Leave(b) /\ tab[b].mine)
  <2>1. PICK sinks, op : /\ sinks = SinksWithout(k, Key(b))
                         /\ op = IF Unsubscribe(b) THEN "unsubscribe" ELSE "close"
    OBVIOUS
  <2>2. /\ \/ tab' = [tab EXCEPT ![b] = [tab[b] EXCEPT !.pc = "call", !.mine = FALSE,
                                                       !.told = "off", !.op = "unsubscribe"]]
           \/ tab' = [tab EXCEPT ![b] = [tab[b] EXCEPT !.pc = "call", !.mine = FALSE,
                                                       !.told = "off", !.op = "close"]]
        /\ conn' = [conn EXCEPT ![k].sinks = sinks]
    BY <1>1, <1>2, <1>5, <2>1 DEF Unsubscribe, Unsubscribing, Leave
  <2>3. PICK o \in {"unsubscribe", "close"} :
          tab' = [tab EXCEPT ![b] = [tab[b] EXCEPT !.pc = "call", !.mine = FALSE,
                                                   !.told = "off", !.op = o]]
    BY <2>2
  <2>4. [tab[b] EXCEPT !.pc = "call", !.mine = FALSE, !.told = "off", !.op = o] \in Bridge
    BY <1>2 DEF Bridge
  <2>5. tab' \in [Tab -> Bridge] /\ \A c \in Tab : c # b => tab'[c] = tab[c]
    BY <1>2, <2>3, <2>4
  <2>6. /\ There(b) /\ tab'[b].pc = "call" /\ tab'[b].op = o /\ ~tab'[b].mine
        /\ tab'[b].told = "off" /\ tab'[b].id = tab[b].id /\ tab'[b].ch = tab[b].ch
        /\ tab'[b].faults = tab[b].faults
    BY <1>2, <2>3 DEF Bridge, There
  <2>7. sinks \in SUBSET Sink
    BY <2>1, SinksAre
  <2>8. conn' \in [Conn -> Link] /\ \A j \in Conn : j # k => conn'[j] = conn[j]
    BY <1>2, <2>2, <2>7 DEF Link
  <2>9. /\ conn'[k].agent = conn[k].agent /\ conn'[k].hub = conn[k].hub
        /\ conn'[k].broken = conn[k].broken /\ conn'[k].closed = conn[k].closed
        /\ conn'[k].seq = conn[k].seq /\ conn'[k].pending = conn[k].pending
        /\ conn'[k].sinks = sinks
    BY <1>2, <2>2 DEF Link
  <2>10. Tabs(b, k)
    BY <1>3, <2>5, <2>8, <2>9 DEF Tabs
  <2>11. Withdraws(b)
    BY <1>1, <1>3, <2>1, <2>6, <2>9 DEF Withdraws, Rests
  <2> QED BY <1>1, <1>3, <2>10, <2>11
<1> QED BY <1>4, <1>5

\* The request gets a number.
Numbers(b) ==
    LET k == tab[b].on IN
    /\ There(b) /\ UNCHANGED down
    /\ tab'[b].pc = "write" /\ tab'[b].id = conn[k].seq + 1 /\ tab'[b].op = tab[b].op
    /\ tab'[b].ch = tab[b].ch /\ tab'[b].mine = tab[b].mine /\ tab'[b].told = tab[b].told
    /\ tab'[b].faults = tab[b].faults
    /\ conn'[k].seq = conn[k].seq + 1 /\ conn'[k].sinks = conn[k].sinks
    /\ conn'[k].pending = conn[k].pending \cup {conn[k].seq + 1}

LEMMA CallDoes ==
    ASSUME Shape, NEW b \in Tab, tab[b].on \in Conn, Call(b)
    PROVE  /\ tab[b].pc = "call" /\ Tabs(b, tab[b].on)
           /\ (conn[tab[b].on].closed /\ Fails(b, {})) \/ Numbers(b)
<1>1. PICK k \in Conn : k = tab[b].on
  OBVIOUS
<1>2. conn \in [Conn -> Link] /\ tab \in [Tab -> Bridge] /\ tab[b] \in Bridge /\ conn[k] \in Link
  BY DEF Shape
<1>3. tab[b].pc = "call" /\ UNCHANGED <<registered, down, up, hand, agent>>
  BY DEF Call
<1>4. CASE conn[k].closed
  <2>1. tab' = Ended(b, FALSE, {}) /\ conn' = Forgotten(b)
    BY <1>1, <1>4 DEF Call
  <2>2. {} \in SUBSET {"refused", "timeout"}
    OBVIOUS
  <2>3. Tabs(b, tab[b].on) /\ Fails(b, {})
    BY <1>3, <2>1, <2>2, FailsDoes
  <2> QED BY <1>1, <1>3, <1>4, <2>3
<1>5. CASE ~conn[k].closed
  <2>1. PICK n \in Nat : n = conn[k].seq + 1
    BY <1>2 DEF Link
  <2>2. PICK pending : pending = conn[k].pending \cup {n}
    OBVIOUS
  <2>3. /\ conn' = [conn EXCEPT ![k].seq = n, ![k].pending = @ \cup {n}]
        /\ tab' = [tab EXCEPT ![b].pc = "write", ![b].id = n]
    BY <1>1, <1>5, <2>1 DEF Call
  <2>4. /\ conn' = [conn EXCEPT ![k] = [conn[k] EXCEPT !.seq = n, !.pending = pending]]
        /\ tab' = [tab EXCEPT ![b] = [tab[b] EXCEPT !.pc = "write", !.id = n]]
    BY <1>2, <2>2, <2>3 DEF Link
  <2>5. pending \in SUBSET Nat
    BY <1>2, <2>2 DEF Link
  <2>6. /\ [conn[k] EXCEPT !.seq = n, !.pending = pending] \in Link
        /\ [tab[b] EXCEPT !.pc = "write", !.id = n] \in Bridge
    BY <1>2, <2>5 DEF Link, Bridge
  <2>7. /\ tab' \in [Tab -> Bridge] /\ \A c \in Tab : c # b => tab'[c] = tab[c]
        /\ conn' \in [Conn -> Link] /\ \A j \in Conn : j # k => conn'[j] = conn[j]
    BY <1>2, <2>4, <2>6
  <2>8. /\ conn'[k].agent = conn[k].agent /\ conn'[k].hub = conn[k].hub
        /\ conn'[k].broken = conn[k].broken /\ conn'[k].closed = conn[k].closed
        /\ conn'[k].seq = n /\ conn'[k].pending = pending /\ conn'[k].sinks = conn[k].sinks
    BY <1>2, <2>4 DEF Link
  <2>9. /\ There(b) /\ tab'[b].pc = "write" /\ tab'[b].op = tab[b].op /\ tab'[b].mine = tab[b].mine
        /\ tab'[b].told = tab[b].told /\ tab'[b].id = n /\ tab'[b].ch = tab[b].ch
        /\ tab'[b].faults = tab[b].faults
    BY <1>2, <2>4 DEF Bridge, There
  <2>10. Tabs(b, k)
    BY <1>3, <2>7, <2>8 DEF Tabs
  <2>11. Numbers(b)
    BY <1>1, <1>3, <2>1, <2>2, <2>8, <2>9 DEF Numbers
  <2> QED BY <1>1, <1>3, <2>10, <2>11
<1> QED BY <1>4, <1>5

\* The request is sent, or lost.
Asking(b) == [on |-> tab[b].on, id |-> tab[b].id, op |-> tab[b].op, key |-> Key(b)]

Writes(b) ==
    LET k == tab[b].on IN
    /\ There(b) /\ UNCHANGED conn
    /\ tab'[b].pc = "wait" /\ tab'[b].id = tab[b].id /\ tab'[b].op = tab[b].op
    /\ tab'[b].ch = tab[b].ch /\ tab'[b].mine = tab[b].mine /\ tab'[b].told = tab[b].told
    /\ tab'[b].faults = tab[b].faults
    /\ \/ UNCHANGED down
       \/ /\ down' \in [Conn -> Seq(Request)] /\ down'[k] = Append(down[k], Asking(b))
          /\ Asking(b) \in Request /\ \A j \in Conn : j # k => down'[j] = down[j]

LEMMA WriteDoes ==
    ASSUME Shape, NEW b \in Tab, tab[b].on \in Conn, tab[b].op # "none", Write(b)
    PROVE  /\ tab[b].pc = "write" /\ Tabs(b, tab[b].on)
           /\ (conn[tab[b].on].closed /\ Fails(b, {})) \/ Writes(b)
<1>1. PICK k \in Conn : k = tab[b].on
  OBVIOUS
<1>2. conn \in [Conn -> Link] /\ tab \in [Tab -> Bridge] /\ tab[b] \in Bridge /\ conn[k] \in Link
  BY DEF Shape
<1>3. tab[b].pc = "write" /\ UNCHANGED <<registered, up, hand, agent>>
  BY DEF Write
<1>4. CASE conn[k].closed
  <2>1. tab' = Ended(b, FALSE, {}) /\ conn' = Forgotten(b) /\ UNCHANGED down
    BY <1>1, <1>4 DEF Write
  <2>2. {} \in SUBSET {"refused", "timeout"}
    OBVIOUS
  <2>3. Tabs(b, tab[b].on) /\ Fails(b, {})
    BY <1>3, <2>1, <2>2, FailsDoes
  <2> QED BY <1>1, <1>3, <1>4, <2>3
<1>5. CASE ~conn[k].closed
  <2>1. /\ tab' = [tab EXCEPT ![b].pc = "wait"] /\ conn' = conn
        /\ down' = IF conn[k].broken THEN down ELSE [down EXCEPT ![k] = Append(@, Asking(b))]
    BY <1>1, <1>5 DEF Write, Asking
  <2>2. tab' \in [Tab -> Bridge] /\ \A c \in Tab : c # b => tab'[c] = tab[c]
    BY <1>2, <2>1 DEF Bridge
  <2>3. /\ There(b) /\ tab'[b].pc = "wait" /\ tab'[b].op = tab[b].op /\ tab'[b].mine = tab[b].mine
        /\ tab'[b].told = tab[b].told /\ tab'[b].id = tab[b].id /\ tab'[b].ch = tab[b].ch
        /\ tab'[b].faults = tab[b].faults
    BY <1>2, <2>1 DEF Bridge, There
  <2>4. Asking(b) \in Request
    <3>1. /\ tab[b].id \in Nat /\ tab[b].op \in {"subscribe", "unsubscribe", "close"}
          /\ Key(b) \in Nat
      BY <1>2 DEF Bridge, Key
    <3> QED BY <3>1 DEF Asking, Request
  <2>5. \/ UNCHANGED down
        \/ /\ down' \in [Conn -> Seq(Request)] /\ down'[k] = Append(down[k], Asking(b))
           /\ \A j \in Conn : j # k => down'[j] = down[j]
    <3>1. down \in [Conn -> Seq(Request)]
      BY DEF Shape
    <3> QED BY <2>1, <2>4, <3>1
  <2>6. Tabs(b, k)
    BY <1>2, <1>3, <2>1, <2>2 DEF Tabs
  <2>7. Writes(b)
    BY <1>1, <2>1, <2>3, <2>4, <2>5 DEF Writes
  <2> QED BY <1>1, <1>3, <2>6, <2>7
<1> QED BY <1>4, <1>5

LEMMA ReceiveDoes ==
    ASSUME Shape, NEW b \in Tab, tab[b].on \in Conn, Receive(b)
    PROVE  /\ tab[b].pc = "wait" /\ Tabs(b, tab[b].on)
           /\ \/ tab[b].ch = "ok" /\ Succeeds(b)
              \/ tab[b].ch = "refused" /\ Fails(b, {"refused"})
              \/ tab[b].ch = "closed" /\ Fails(b, {})
<1>1. /\ conn \in [Conn -> Link] /\ tab[b].ch \in {"ok", "refused", "closed"}
      /\ tab[b].mine \in BOOLEAN
  <2>1. conn \in [Conn -> Link] /\ tab[b] \in Bridge
    BY DEF Shape
  <2> QED BY <2>1 DEF Receive, Bridge
<1>2. tab[b].pc = "wait" /\ UNCHANGED <<registered, down, up, hand, agent>>
  BY DEF Receive
<1>3. {} \in SUBSET {"refused", "timeout"} /\ {"refused"} \in SUBSET {"refused", "timeout"}
  OBVIOUS
<1>4. CASE tab[b].ch = "ok"
  <2>1. tab' = Ended(b, TRUE, {}) /\ conn' = conn
    <3>1. {"refused"} \cap {tab[b].ch} = {}
      BY <1>4
    <3> QED BY <1>4, <3>1 DEF Receive
  <2>2. /\ tab' \in [Tab -> Bridge] /\ There(b) /\ \A c \in Tab : c # b => tab'[c] = tab[c]
        /\ tab'[b].pc = (IF tab[b].op = "close" THEN "left" ELSE "idle")
        /\ tab'[b].id = 0 /\ tab'[b].ch = "empty" /\ tab'[b].op = "none"
        /\ tab'[b].mine = (tab[b].mine /\ TRUE) /\ tab'[b].faults = tab[b].faults \cup {}
        /\ tab'[b].told = IF tab[b].op # "subscribe" THEN "off"
                          ELSE IF tab[b].told = "asked" THEN "on" ELSE tab[b].told
    BY <1>3, <2>1, EndedIs
  <2>3. Tabs(b, tab[b].on)
    BY <1>1, <1>2, <2>1, <2>2 DEF Tabs
  <2>4. Succeeds(b)
    <3>1. tab'[b].mine = tab[b].mine
      BY <1>1, <2>2
    <3> QED BY <1>2, <2>1, <2>2, <3>1 DEF Succeeds
  <2> QED BY <1>2, <1>4, <2>3, <2>4
<1>5. CASE tab[b].ch = "refused"
  <2>1. tab' = Ended(b, FALSE, {"refused"}) /\ conn' = Forgotten(b)
    <3>1. {"refused"} \cap {tab[b].ch} = {"refused"}
      BY <1>5
    <3> QED BY <1>5, <3>1 DEF Receive
  <2> QED BY <1>2, <1>3, <1>5, <2>1, FailsDoes
<1>6. CASE tab[b].ch = "closed"
  <2>1. tab' = Ended(b, FALSE, {}) /\ conn' = Forgotten(b)
    <3>1. {"refused"} \cap {tab[b].ch} = {}
      BY <1>6
    <3> QED BY <1>6, <3>1 DEF Receive
  <2> QED BY <1>2, <1>3, <1>6, <2>1, FailsDoes
<1> QED BY <1>1, <1>4, <1>5, <1>6

LEMMA TimeoutDoes ==
    ASSUME Shape, NEW b \in Tab, tab[b].on \in Conn, Timeout(b)
    PROVE  tab[b].pc = "wait" /\ Tabs(b, tab[b].on) /\ Fails(b, {"timeout"})
<1>1. {"timeout"} \in SUBSET {"refused", "timeout"}
  OBVIOUS
<1>2. /\ tab[b].pc = "wait" /\ tab' = Ended(b, FALSE, {"timeout"}) /\ conn' = Forgotten(b)
      /\ UNCHANGED <<registered, down, up, hand, agent>>
  BY DEF Timeout
<1> QED BY <1>1, <1>2, FailsDoes
-----------------------------------------------------------------------------
(* The steps of the hub's read loop.                                          *)

LEMMA TailIs ==
    ASSUME NEW S, NEW s \in Seq(S), s # << >>
    PROVE  /\ Tail(s) \in Seq(S) /\ Head(s) \in S /\ 1 \in 1 .. Len(s) /\ Head(s) = s[1]
           /\ \A i \in 1 .. Len(Tail(s)) : i + 1 \in 1 .. Len(s) /\ Tail(s)[i] = s[i + 1]
           /\ {s[i] : i \in 1 .. Len(s)} = {Tail(s)[i] : i \in 1 .. Len(Tail(s))} \cup {Head(s)}
<1>1. /\ Len(s) \in Nat /\ Len(s) > 0 /\ Len(Tail(s)) = Len(s) - 1
      /\ Tail(s) \in Seq(S) /\ Head(s) = s[1]
      /\ \A i \in 1 .. Len(Tail(s)) : Tail(s)[i] = s[i + 1]
  OBVIOUS
<1>2. 1 \in 1 .. Len(s) /\ Head(s) \in S
  BY <1>1
<1>3. \A i \in 1 .. Len(Tail(s)) : i + 1 \in 1 .. Len(s) /\ Tail(s)[i] = s[i + 1]
  BY <1>1
<1>4. ASSUME NEW i \in 1 .. Len(s)
      PROVE  s[i] \in {Tail(s)[j] : j \in 1 .. Len(Tail(s))} \cup {Head(s)}
  <2>1. CASE i = 1
    BY <1>1, <2>1
  <2>2. CASE i # 1
    <3>1. i - 1 \in 1 .. Len(Tail(s)) /\ s[i] = Tail(s)[i - 1]
      <4>1. i - 1 \in 1 .. Len(Tail(s)) /\ (i - 1) + 1 = i
        BY <1>1, <2>2
      <4> QED BY <1>1, <4>1
    <3> QED BY <3>1
  <2> QED BY <2>1, <2>2
<1> QED BY <1>1, <1>2, <1>3, <1>4

LEMMA AppendIs ==
    ASSUME NEW S, NEW s \in Seq(S), NEW x \in S, NEW t, t = Append(s, x)
    PROVE  /\ t \in Seq(S) /\ Len(t) = Len(s) + 1 /\ t[Len(t)] = x /\ Len(t) \in 1 .. Len(t)
           /\ \A i \in 1 .. Len(t) : (i \in 1 .. Len(s) /\ t[i] = s[i]) \/ i = Len(t)
           /\ {t[i] : i \in 1 .. Len(t)} = {s[i] : i \in 1 .. Len(s)} \cup {x}
<1>1. /\ Len(s) \in Nat /\ t \in Seq(S) /\ Len(t) = Len(s) + 1 /\ t[Len(t)] = x
      /\ \A i \in 1 .. Len(s) : t[i] = s[i]
  OBVIOUS
<1>2. /\ Len(t) \in 1 .. Len(t)
      /\ \A i \in 1 .. Len(t) : (i \in 1 .. Len(s) /\ t[i] = s[i]) \/ i = Len(t)
      /\ \A i \in 1 .. Len(s) : i \in 1 .. Len(t)
  BY <1>1
<1> QED BY <1>1, <1>2

\* What a step of the read loop of k keeps.
Hubs(k) ==
    /\ conn' \in [Conn -> Link] /\ tab' \in [Tab -> Bridge]
    /\ up' \in [Conn -> Seq(Message)] /\ hand' \in [Conn -> Reply]
    /\ \A j \in Conn : /\ j # k => conn'[j] = conn[j] /\ up'[j] = up[j] /\ hand'[j] = hand[j]
                       /\ conn'[j].agent = conn[j].agent /\ conn'[j].hub = conn[j].hub
                       /\ conn'[j].broken = conn[j].broken /\ conn'[j].closed = conn[j].closed
                       /\ conn'[j].seq = conn[j].seq
                       /\ conn'[j].pending \subseteq conn[j].pending
                       /\ conn'[j].sinks \subseteq conn[j].sinks
    /\ \A b \in Tab : /\ There(b) /\ tab'[b].pc = tab[b].pc /\ tab'[b].id = tab[b].id
                      /\ tab'[b].op = tab[b].op /\ tab'[b].mine = tab[b].mine
                      /\ tab'[b].faults = tab[b].faults
    /\ UNCHANGED <<registered, down, agent>>

\* A reply is taken from the connection.
Takes(k) ==
    /\ \A b \in Tab : tab'[b].told = tab[b].told /\ tab'[b].ch = tab[b].ch
    /\ conn'[k].sinks = conn[k].sinks
    /\ \E m \in InUp(k) : /\ m.kind = "reply" /\ InUp(k) = InUp(k)' \cup {m}
                          /\ \/ hand'[k] = NoReply
                             \/ hand'[k].id = m.id /\ hand'[k].ok = m.ok

LEMMA TakeReplyDoes ==
    ASSUME Shape, NEW k \in Conn, TakeReply(k)
    PROVE  Hubs(k) /\ Takes(k) /\ hand[k] = NoReply
<1>1. /\ conn \in [Conn -> Link] /\ tab \in [Tab -> Bridge] /\ up \in [Conn -> Seq(Message)]
      /\ hand \in [Conn -> Reply] /\ conn[k] \in Link
  BY DEF Shape
<1>2. /\ hand[k] = NoReply /\ up[k] # << >> /\ Head(up[k]).kind = "reply"
      /\ up' = [up EXCEPT ![k] = Tail(up[k])]
      /\ UNCHANGED <<registered, down, tab, agent>>
  BY <1>1 DEF TakeReply
<1>3. PICK m \in Message : m = Head(up[k])
  BY <1>1, <1>2, TailIs
<1>4. /\ up'[k] = Tail(up[k]) /\ \A j \in Conn : j # k => up'[j] = up[j]
      /\ up' \in [Conn -> Seq(Message)]
  BY <1>1, <1>2, TailIs
<1>5. InUp(k) = InUp(k)' \cup {m}
  <2>1. {up[k][i] : i \in 1 .. Len(up[k])}
          = {Tail(up[k])[i] : i \in 1 .. Len(Tail(up[k]))} \cup {Head(up[k])}
    BY <1>1, <1>2, TailIs
  <2> QED BY <1>3, <1>4, <2>1 DEF InUp
<1>6. /\ hand' \in [Conn -> Reply] /\ \A j \in Conn : j # k => hand'[j] = hand[j]
      /\ (hand'[k] = NoReply \/ (hand'[k].id = m.id /\ hand'[k].ok = m.ok))
  <2>1. hand' = [hand EXCEPT ![k] = IF m.id \in conn[k].pending THEN [id |-> m.id, ok |-> m.ok]
                                    ELSE NoReply]
    BY <1>3 DEF TakeReply
  <2>2. m.id \in Nat /\ m.ok \in BOOLEAN
    BY <1>3 DEF Message
  <2>3. [id |-> m.id, ok |-> m.ok] \in Reply /\ NoReply \in Reply
    BY <2>2 DEF Reply, NoReply
  <2> QED BY <1>1, <2>1, <2>3
<1>7. PICK pending : pending = conn[k].pending \ {m.id}
  OBVIOUS
<1>8. conn' = [conn EXCEPT ![k] = [conn[k] EXCEPT !.pending = pending]]
  BY <1>1, <1>3, <1>7 DEF TakeReply
<1>9. [conn[k] EXCEPT !.pending = pending] \in Link
  BY <1>1, <1>7 DEF Link
<1>10. conn' \in [Conn -> Link] /\ \A j \in Conn : j # k => conn'[j] = conn[j]
  BY <1>1, <1>8, <1>9
<1>11. /\ conn'[k].agent = conn[k].agent /\ conn'[k].hub = conn[k].hub
       /\ conn'[k].broken = conn[k].broken /\ conn'[k].closed = conn[k].closed
       /\ conn'[k].seq = conn[k].seq /\ conn'[k].pending = pending
       /\ conn'[k].sinks = conn[k].sinks
  BY <1>1, <1>8 DEF Link
<1>12. Hubs(k)
  BY <1>1, <1>2, <1>4, <1>6, <1>7, <1>10, <1>11 DEF Hubs, There
<1>13. Takes(k)
  <2>1. m \in InUp(k) /\ m.kind = "reply"
    BY <1>2, <1>3, <1>5
  <2> QED BY <1>2, <1>5, <1>6, <1>11, <2>1 DEF Takes
<1> QED BY <1>2, <1>12, <1>13

\* A reply is passed on to the tab that waits for it.
Passes(k) ==
    /\ UNCHANGED <<conn, up>> /\ hand[k] # NoReply /\ hand'[k] = NoReply
    /\ \A b \in Tab : /\ tab'[b].told = tab[b].told
                      /\ \/ tab'[b].ch = tab[b].ch
                         \/ /\ tab[b].on = k /\ tab[b].id = hand[k].id
                            /\ tab'[b].ch = IF hand[k].ok THEN "ok" ELSE "refused"

LEMMA PassReplyDoes ==
    ASSUME Shape, NEW k \in Conn, PassReply(k)
    PROVE  Hubs(k) /\ Passes(k)
<1>1. /\ conn \in [Conn -> Link] /\ tab \in [Tab -> Bridge] /\ up \in [Conn -> Seq(Message)]
      /\ hand \in [Conn -> Reply]
  BY DEF Shape
<1>2. PICK ch \in {"ok", "refused"} : ch = IF hand[k].ok THEN "ok" ELSE "refused"
  OBVIOUS
<1>3. /\ hand[k] # NoReply /\ hand' = [hand EXCEPT ![k] = NoReply]
      /\ tab' = [b \in Tab |-> IF tab[b].on = k /\ tab[b].id = hand[k].id
                               THEN [tab[b] EXCEPT !.ch = ch] ELSE tab[b]]
      /\ UNCHANGED <<conn, registered, down, up, agent>>
  BY <1>2 DEF PassReply
<1>4. NoReply \in Reply
  BY DEF NoReply, Reply
<1>5. hand' \in [Conn -> Reply] /\ hand'[k] = NoReply /\ \A j \in Conn : j # k => hand'[j] = hand[j]
  BY <1>1, <1>3, <1>4
<1>6. ASSUME NEW b \in Tab
      PROVE  /\ tab'[b] \in Bridge
             /\ There(b) /\ tab'[b].pc = tab[b].pc /\ tab'[b].id = tab[b].id
             /\ tab'[b].op = tab[b].op /\ tab'[b].mine = tab[b].mine
             /\ tab'[b].faults = tab[b].faults /\ tab'[b].told = tab[b].told
             /\ \/ tab'[b].ch = tab[b].ch
                \/ tab[b].on = k /\ tab[b].id = hand[k].id /\ tab'[b].ch = ch
  <2>1. tab[b] \in Bridge
    BY <1>1
  <2>2. [tab[b] EXCEPT !.ch = ch] \in Bridge
    BY <2>1 DEF Bridge
  <2>3. CASE tab[b].on = k /\ tab[b].id = hand[k].id
    <3>1. tab'[b] = [tab[b] EXCEPT !.ch = ch]
      BY <1>3, <2>3
    <3> QED BY <2>1, <2>2, <2>3, <3>1 DEF Bridge, There
  <2>4. CASE ~(tab[b].on = k /\ tab[b].id = hand[k].id)
    <3>1. tab'[b] = tab[b]
      BY <1>3, <2>4
    <3> QED BY <2>1, <3>1 DEF There
  <2> QED BY <2>3, <2>4
<1>7. tab' \in [Tab -> Bridge]
  BY <1>3, <1>6
<1>8. Hubs(k)
  BY <1>1, <1>3, <1>5, <1>6, <1>7 DEF Hubs
<1>9. Passes(k)
  BY <1>2, <1>3, <1>5, <1>6 DEF Passes
<1> QED BY <1>8, <1>9

\* The tab whose pane failed hears of it.
Tells(k) ==
    /\ UNCHANGED hand
    /\ \E m \in InUp(k) :
          /\ m.kind = "paneError" /\ InUp(k) = InUp(k)' \cup {m}
          /\ conn'[k].sinks = SinksWithout(k, m.id)
          /\ \A b \in Tab :
                /\ tab'[b].ch = tab[b].ch
                /\ IF [key |-> m.id, tab |-> b] \in conn[k].sinks THEN tab'[b].told = "error"
                   ELSE tab'[b].told = tab[b].told

LEMMA PassPaneErrorDoes ==
    ASSUME Shape, NEW k \in Conn, PassPaneError(k)
    PROVE  Hubs(k) /\ Tells(k)
<1>1. /\ conn \in [Conn -> Link] /\ tab \in [Tab -> Bridge] /\ up \in [Conn -> Seq(Message)]
      /\ hand \in [Conn -> Reply] /\ conn[k] \in Link
  BY DEF Shape
<1>2. /\ up[k] # << >> /\ Head(up[k]).kind = "paneError"
      /\ up' = [up EXCEPT ![k] = Tail(up[k])]
      /\ UNCHANGED <<registered, down, hand, agent>>
  BY <1>1 DEF PassPaneError
<1>3. PICK m \in Message : m = Head(up[k])
  BY <1>1, <1>2, TailIs
<1>4. /\ up'[k] = Tail(up[k]) /\ \A j \in Conn : j # k => up'[j] = up[j]
      /\ up' \in [Conn -> Seq(Message)]
  BY <1>1, <1>2, TailIs
<1>5. InUp(k) = InUp(k)' \cup {m}
  <2>1. {up[k][i] : i \in 1 .. Len(up[k])}
          = {Tail(up[k])[i] : i \in 1 .. Len(Tail(up[k]))} \cup {Head(up[k])}
    BY <1>1, <1>2, TailIs
  <2> QED BY <1>3, <1>4, <2>1 DEF InUp
<1>6. PICK sinks : sinks = SinksWithout(k, m.id)
  OBVIOUS
<1>7. conn' = [conn EXCEPT ![k] = [conn[k] EXCEPT !.sinks = sinks]]
  BY <1>1, <1>3, <1>6 DEF PassPaneError
<1>8. sinks \subseteq conn[k].sinks /\ sinks \in SUBSET Sink
  BY <1>6, SinksAre
<1>9. [conn[k] EXCEPT !.sinks = sinks] \in Link
  BY <1>1, <1>8 DEF Link
<1>10. conn' \in [Conn -> Link] /\ \A j \in Conn : j # k => conn'[j] = conn[j]
  BY <1>1, <1>7, <1>9
<1>11. /\ conn'[k].agent = conn[k].agent /\ conn'[k].hub = conn[k].hub
       /\ conn'[k].broken = conn[k].broken /\ conn'[k].closed = conn[k].closed
       /\ conn'[k].seq = conn[k].seq /\ conn'[k].pending = conn[k].pending
       /\ conn'[k].sinks = sinks
  BY <1>1, <1>7 DEF Link
<1>12. tab' = [b \in Tab |-> IF [key |-> m.id, tab |-> b] \in conn[k].sinks
                             THEN [tab[b] EXCEPT !.told = "error"] ELSE tab[b]]
  BY <1>3 DEF PassPaneError
<1>13. ASSUME NEW b \in Tab
       PROVE  /\ tab'[b] \in Bridge
              /\ There(b) /\ tab'[b].pc = tab[b].pc /\ tab'[b].id = tab[b].id
              /\ tab'[b].op = tab[b].op /\ tab'[b].mine = tab[b].mine
              /\ tab'[b].faults = tab[b].faults /\ tab'[b].ch = tab[b].ch
              /\ IF [key |-> m.id, tab |-> b] \in conn[k].sinks THEN tab'[b].told = "error"
                 ELSE tab'[b].told = tab[b].told
  <2>1. tab[b] \in Bridge
    BY <1>1
  <2>2. [tab[b] EXCEPT !.told = "error"] \in Bridge
    BY <2>1 DEF Bridge
  <2>3. CASE [key |-> m.id, tab |-> b] \in conn[k].sinks
    <3>1. tab'[b] = [tab[b] EXCEPT !.told = "error"]
      BY <1>12, <2>3
    <3> QED BY <2>1, <2>2, <2>3, <3>1 DEF Bridge, There
  <2>4. CASE [key |-> m.id, tab |-> b] \notin conn[k].sinks
    <3>1. tab'[b] = tab[b]
      BY <1>12, <2>4
    <3> QED BY <2>1, <2>4, <3>1 DEF There
  <2> QED BY <2>3, <2>4
<1>14. tab' \in [Tab -> Bridge]
  BY <1>12, <1>13
<1>15. Hubs(k)
  BY <1>1, <1>2, <1>4, <1>8, <1>10, <1>11, <1>13, <1>14 DEF Hubs
<1>16. Tells(k)
  <2>1. m \in InUp(k) /\ m.kind = "paneError"
    BY <1>2, <1>3, <1>5
  <2> QED BY <1>2, <1>5, <1>6, <1>11, <1>13, <2>1 DEF Tells
<1> QED BY <1>15, <1>16
-----------------------------------------------------------------------------
(* The steps of the agent.                                                    *)

\* What they all keep.
Agents == UNCHANGED <<conn, registered, hand, tab>> /\ Shape'

\* A request reaches the agent.
Arrives(k) ==
    /\ Agents /\ UNCHANGED <<up, subs, polls>> /\ down[k] # << >>
    /\ down'[k] = Tail(down[k]) /\ \A j \in Conn : j # k => down'[j] = down[j]
    /\ handler' = handler \cup {[req |-> Head(down[k]), pc |-> "run"]}

LEMMA ReceivesDoes ==
    ASSUME Shape, NEW k \in Conn, Receives(k)
    PROVE  Arrives(k)
<1>1. /\ down \in [Conn -> Seq(Request)] /\ handler \subseteq Handler
  BY DEF Shape
<1>2. /\ down[k] # << >> /\ down' = [down EXCEPT ![k] = Tail(down[k])]
      /\ handler' = handler \cup {[req |-> Head(down[k]), pc |-> "run"]}
      /\ UNCHANGED <<conn, registered, up, hand, tab, subs, polls, started>>
  BY <1>1 DEF Receives
<1>3. Tail(down[k]) \in Seq(Request) /\ Head(down[k]) \in Request
  BY <1>1, <1>2, TailIs
<1>4. /\ down' \in [Conn -> Seq(Request)] /\ down'[k] = Tail(down[k])
      /\ \A j \in Conn : j # k => down'[j] = down[j]
  BY <1>1, <1>2, <1>3
<1>5. handler' \subseteq Handler
  BY <1>1, <1>2, <1>3 DEF Handler
<1>6. Shape'
  BY <1>2, <1>4, <1>5 DEF Shape
<1> QED BY <1>2, <1>4, <1>6 DEF Arrives, Agents

\* A goroutine of the agent has an answer.
Answered(h, pc) == handler' = (handler \ {h}) \cup {[req |-> h.req, pc |-> pc]}

LEMMA AnswersAre ==
    ASSUME Shape, NEW h \in handler, NEW pc \in {"ok", "refused"}, Answered(h, pc)
    PROVE  /\ handler' \subseteq Handler
           /\ \A j \in Conn : InHandler(j)' = InHandler(j)
<1>1. h \in Handler /\ handler \subseteq Handler
  BY DEF Shape
<1>2. PICK g : g = [req |-> h.req, pc |-> pc]
  OBVIOUS
<1>3. g \in Handler /\ g.req = h.req
  BY <1>1, <1>2 DEF Handler
<1>4. handler' = (handler \ {h}) \cup {g}
  BY <1>2 DEF Answered
<1> QED BY <1>1, <1>3, <1>4 DEF InHandler

\* The poll loops under a key are cancelled, and these started.
Polls(k, key, new) ==
    /\ \A p \in new : p \in Poll /\ p.on = k /\ p.key = key /\ p.live
    /\ polls' = Cancel({p \in subs[k] : p.key = key}) \cup new
    /\ subs' \in [Conn -> SUBSET Poll]
    /\ subs'[k] = {p \in subs[k] : p.key # key} \cup new
    /\ \A j \in Conn : j # k => subs'[j] = subs[j]

\* A subscription is made, ...
Subscribed(h) ==
    /\ Agents /\ UNCHANGED <<down, up>> /\ h.pc = "run" /\ h.req.op = "subscribe"
    /\ Answered(h, "ok") /\ \E p : Polls(h.req.on, h.req.key, {p})

\* ... or refused ...
Refused(h) ==
    Agents /\ UNCHANGED <<down, up, subs, polls>> /\ h.pc = "run" /\ Answered(h, "refused")

\* ... or ended.
Unsubscribed(h) ==
    /\ Agents /\ UNCHANGED <<down, up>> /\ h.pc = "run" /\ h.req.op # "subscribe"
    /\ Answered(h, "ok") /\ Polls(h.req.on, h.req.key, {})

LEMMA PollsAre ==
    ASSUME Shape, NEW k \in Conn, NEW key, NEW new, Polls(k, key, new)
    PROVE  polls' \subseteq Poll
<1>1. PICK other : other = Cancel({p \in subs[k] : p.key = key})
  OBVIOUS
<1>2. polls \subseteq Poll
  BY DEF Shape
<1>3. other \subseteq Poll
  BY <1>1, <1>2, CancelIs
<1> QED BY <1>1, <1>3 DEF Polls

LEMMA HandleSubscribeDoes ==
    ASSUME Shape, NEW h \in handler, HandleSubscribe(h)
    PROVE  Subscribed(h) \/ Refused(h)
<1>1. /\ subs \in [Conn -> SUBSET Poll] /\ polls \subseteq Poll /\ started \in Nat
      /\ h.req \in Request
  BY DEF Shape, Handler
<1>2. /\ h.pc = "run" /\ h.req.op = "subscribe" /\ UNCHANGED <<conn, registered, down, up, hand, tab>>
  BY DEF HandleSubscribe
<1>3. PICK r \in Request : r = h.req
  BY <1>1
<1>4. r.on \in Conn /\ r.key \in Nat
  BY <1>3 DEF Request
<1>5. CASE Starts(h)
  <2>1. PICK p : p = [on |-> r.on, key |-> r.key, gen |-> started + 1, live |-> TRUE]
    OBVIOUS
  <2>2. p \in Poll /\ p.on = r.on /\ p.key = r.key /\ p.live
    <3>1. started + 1 \in Nat
      BY <1>1
    <3> QED BY <1>4, <2>1, <3>1 DEF Poll
  <2>3. /\ polls' = Cancel({q \in subs[r.on] : q.key = r.key}) \cup {p}
        /\ subs' = [subs EXCEPT ![r.on] = {q \in subs[r.on] : q.key # r.key} \cup {p}]
        /\ started' = started + 1 /\ Answered(h, "ok")
    BY <1>1, <1>3, <1>4, <1>5, <2>1 DEF Starts, Answers, Answered
  <2>4. /\ subs' \in [Conn -> SUBSET Poll]
        /\ subs'[r.on] = {q \in subs[r.on] : q.key # r.key} \cup {p}
        /\ \A j \in Conn : j # r.on => subs'[j] = subs[j]
    BY <1>1, <1>4, <2>2, <2>3
  <2>5. Polls(r.on, r.key, {p})
    BY <2>2, <2>3, <2>4 DEF Polls
  <2>6. polls' \subseteq Poll /\ handler' \subseteq Handler /\ started' \in Nat
    BY <1>1, <1>4, <2>3, <2>5, PollsAre, AnswersAre
  <2>7. Shape'
    BY <1>2, <2>4, <2>6 DEF Shape
  <2>8. Subscribed(h)
    BY <1>2, <1>3, <2>3, <2>5, <2>7 DEF Subscribed, Agents
  <2> QED BY <2>8
<1>6. CASE Answers(h, FALSE) /\ UNCHANGED <<subs, polls, started>>
  <2>1. Answered(h, "refused")
    BY <1>6 DEF Answers, Answered
  <2>2. handler' \subseteq Handler
    BY <2>1, AnswersAre
  <2>3. Shape'
    BY <1>2, <1>6, <2>2 DEF Shape
  <2> QED BY <1>2, <1>6, <2>1, <2>3 DEF Refused, Agents
<1> QED BY <1>5, <1>6 DEF HandleSubscribe

LEMMA HandleUnsubscribeDoes ==
    ASSUME Shape, NEW h \in handler, HandleUnsubscribe(h)
    PROVE  Unsubscribed(h)
<1>1. /\ subs \in [Conn -> SUBSET Poll] /\ polls \subseteq Poll /\ h.req \in Request
  BY DEF Shape, Handler
<1>2. /\ h.pc = "run" /\ h.req.op # "subscribe"
      /\ UNCHANGED <<conn, registered, down, up, hand, tab, started>>
  BY DEF HandleUnsubscribe
<1>3. PICK r \in Request : r = h.req
  BY <1>1
<1>4. r.on \in Conn
  BY <1>3 DEF Request
<1>5. PICK its : its = {p \in subs[r.on] : p.key = r.key}
  OBVIOUS
<1>6. polls' = Cancel(its) /\ subs' = [subs EXCEPT ![r.on] = subs[r.on] \ its] /\ Answered(h, "ok")
  BY <1>1, <1>3, <1>4, <1>5 DEF HandleUnsubscribe, Answers, Answered
<1>7. /\ subs' \in [Conn -> SUBSET Poll]
      /\ subs'[r.on] = {q \in subs[r.on] : q.key # r.key}
      /\ \A j \in Conn : j # r.on => subs'[j] = subs[j]
  BY <1>1, <1>4, <1>5, <1>6
<1>8. Polls(r.on, r.key, {})
  BY <1>5, <1>6, <1>7 DEF Polls
<1>9. polls' \subseteq Poll /\ handler' \subseteq Handler
  BY <1>1, <1>4, <1>6, <1>8, PollsAre, AnswersAre
<1>10. Shape'
  BY <1>2, <1>7, <1>9 DEF Shape
<1> QED BY <1>2, <1>3, <1>6, <1>8, <1>10 DEF Unsubscribed, Agents

\* A message goes to the hub, unless the connection is dead.
Sends(k, m) ==
    /\ up' \in [Conn -> Seq(Message)] /\ \A j \in Conn : j # k => up'[j] = up[j]
    /\ \/ up'[k] = up[k] /\ ~Serving(k)
       \/ up'[k] = Append(up[k], m) /\ InUp(k)' = InUp(k) \cup {m}

LEMMA SentIs ==
    ASSUME Shape, NEW k \in Conn, NEW m \in Message, Sent(k, m)
    PROVE  Sends(k, m)
<1>1. up \in [Conn -> Seq(Message)]
  BY DEF Shape
<1>2. CASE Dead(k) \/ conn[k].agent # "serving"
  <2>1. up' = up
    BY <1>2 DEF Sent
  <2> QED BY <1>1, <1>2, <2>1 DEF Sends, Serving
<1>3. CASE ~(Dead(k) \/ conn[k].agent # "serving")
  <2>1. up' = [up EXCEPT ![k] = Append(up[k], m)]
    BY <1>1, <1>3 DEF Sent
  <2>2. PICK t : t = Append(up[k], m)
    OBVIOUS
  <2>3. t \in Seq(Message)
    BY <1>1, <2>2, AppendIs
  <2>4. {t[i] : i \in 1 .. Len(t)} = {up[k][i] : i \in 1 .. Len(up[k])} \cup {m}
    BY <1>1, <2>2, AppendIs
  <2>5. up' \in [Conn -> Seq(Message)] /\ up'[k] = t /\ \A j \in Conn : j # k => up'[j] = up[j]
    BY <1>1, <2>1, <2>2, <2>3
  <2>6. InUp(k)' = InUp(k) \cup {m}
    BY <2>4, <2>5 DEF InUp
  <2> QED BY <2>2, <2>5, <2>6 DEF Sends
<1> QED BY <1>2, <1>3

\* An answer is sent.
Responds(h) ==
    /\ Agents /\ UNCHANGED <<down, subs, polls>> /\ handler' = handler \ {h}
    /\ Sends(h.req.on, [kind |-> "reply", id |-> h.req.id, ok |-> h.pc = "ok"])

LEMMA RespondDoes ==
    ASSUME Shape, NEW h \in handler, Respond(h)
    PROVE  Responds(h)
<1>1. h.req \in Request /\ handler \subseteq Handler
  BY DEF Shape, Handler
<1>2. /\ Sent(h.req.on, [kind |-> "reply", id |-> h.req.id, ok |-> h.pc = "ok"])
      /\ handler' = handler \ {h}
      /\ UNCHANGED <<conn, registered, down, hand, tab, subs, polls, started>>
  BY DEF Respond
<1>3. h.req.on \in Conn /\ [kind |-> "reply", id |-> h.req.id, ok |-> h.pc = "ok"] \in Message
  <2>1. h.req.on \in Conn /\ h.req.id \in Nat /\ (h.pc = "ok") \in BOOLEAN
    BY <1>1 DEF Request
  <2> QED BY <2>1 DEF Message
<1>4. Sends(h.req.on, [kind |-> "reply", id |-> h.req.id, ok |-> h.pc = "ok"])
  BY <1>2, <1>3, SentIs
<1>5. Shape'
  BY <1>1, <1>2, <1>4 DEF Shape, Sends
<1> QED BY <1>2, <1>4, <1>5 DEF Responds, Agents

\* A poll loop gives up, and says so.
GivesUp(p) ==
    /\ Agents /\ UNCHANGED <<down, handler, subs>> /\ polls' = polls \ {p}
    /\ Sends(p.on, [kind |-> "paneError", id |-> p.key, ok |-> FALSE])

LEMMA PaneFailsDoes ==
    ASSUME Shape, NEW p \in polls, PaneFails(p)
    PROVE  GivesUp(p)
<1>1. p \in Poll /\ polls \subseteq Poll
  BY DEF Shape
<1>2. /\ Sent(p.on, [kind |-> "paneError", id |-> p.key, ok |-> FALSE]) /\ polls' = polls \ {p}
      /\ UNCHANGED <<conn, registered, down, hand, tab, handler, subs, started>>
  BY DEF PaneFails
<1>3. p.on \in Conn /\ [kind |-> "paneError", id |-> p.key, ok |-> FALSE] \in Message
  BY <1>1 DEF Poll, Message
<1>4. Sends(p.on, [kind |-> "paneError", id |-> p.key, ok |-> FALSE])
  BY <1>2, <1>3, SentIs
<1>5. Shape'
  BY <1>1, <1>2, <1>4 DEF Shape, Sends
<1> QED BY <1>2, <1>4, <1>5 DEF GivesUp, Agents
-----------------------------------------------------------------------------
(* A connection comes, drops, is replaced or ends.                            *)

LEMMA MovesTokens ==
    ASSUME Shape, LinkMoves
    PROVE  \A k \in Conn : /\ InDown(k)' \subseteq InDown(k) /\ InHandler(k)' = InHandler(k)
                           /\ InUp(k)' \subseteq InUp(k)
                           /\ Asks(k)' \subseteq Asks(k) /\ Replied(k)' \subseteq Replied(k)
<1> TAKE k \in Conn
<1>1. down'[k] \in {down[k], << >>} /\ up'[k] \in {up[k], << >>} /\ UNCHANGED <<hand, handler>>
  BY DEF LinkMoves
<1>2. InDown(k)' \subseteq InDown(k)
  <2>1. CASE down'[k] = down[k]
    BY <2>1 DEF InDown
  <2>2. CASE down'[k] = << >>
    BY <2>2 DEF InDown
  <2> QED BY <1>1, <2>1, <2>2
<1>3. InUp(k)' \subseteq InUp(k)
  <2>1. CASE up'[k] = up[k]
    BY <2>1 DEF InUp
  <2>2. CASE up'[k] = << >>
    BY <2>2 DEF InUp
  <2> QED BY <1>1, <2>1, <2>2
<1>4. InHandler(k)' = InHandler(k)
  BY <1>1 DEF InHandler
<1> QED BY <1>1, <1>2, <1>3, <1>4 DEF Asks, Replied

LEMMA MovesTabs ==
    ASSUME Shape, LinkMoves, NEW b \in Tab
    PROVE  /\ There(b) /\ tab'[b].pc = tab[b].pc /\ tab'[b].op = tab[b].op
           /\ tab'[b].id = tab[b].id /\ tab'[b].mine = tab[b].mine
           /\ tab'[b].told = tab[b].told /\ tab'[b].faults = tab[b].faults
           /\ \/ tab'[b].ch = tab[b].ch
              \/ /\ tab'[b].ch = "closed" /\ tab[b].on \in Conn
                 /\ tab[b].id \in conn[tab[b].on].pending /\ conn'[tab[b].on].closed
           /\ tab'[b] = tab[b] \/ (tab[b].on \in Conn /\ conn'[tab[b].on].closed)
<1>1. tab[b] \in Bridge
  BY DEF Shape
<1> QED BY <1>1, ZenonT(40) DEF LinkMoves, Bridge, There

LEMMA MovesBridges ==
    ASSUME Shape, LinkMoves, Bridges, Given
    PROVE  Bridges'
<1> SUFFICES ASSUME NEW b \in Tab
             PROVE  Bridged(b)'
  BY DEF Bridges
<1>1. Bridged(b)
  BY DEF Bridges
<1>2. tab[b] \in Bridge /\ conn \in [Conn -> Link]
  BY DEF Shape
<1>3. tab[b].on \in Conn => /\ conn'[tab[b].on].seq = conn[tab[b].on].seq
                            /\ conn[tab[b].on].closed => conn'[tab[b].on].closed
  BY DEF LinkMoves
<1>4. tab[b].on \in Conn \/ tab[b].on = 0
  BY <1>2 DEF Bridge
<1>5. /\ There(b) /\ tab'[b].pc = tab[b].pc /\ tab'[b].op = tab[b].op
      /\ tab'[b].id = tab[b].id /\ tab'[b].mine = tab[b].mine
      /\ tab'[b].told = tab[b].told /\ tab'[b].faults = tab[b].faults
      /\ \/ tab'[b].ch = tab[b].ch
         \/ /\ tab'[b].ch = "closed" /\ tab[b].on \in Conn
            /\ tab[b].id \in conn[tab[b].on].pending /\ conn'[tab[b].on].closed
  BY MovesTabs
<1>6. tab[b].on \in Conn => 0 \notin conn[tab[b].on].pending
  BY <1>2 DEF Given, Link
<1>7. conn'[tab[b].on].seq = conn[tab[b].on].seq \/ tab[b].on = 0
  BY <1>3, <1>4
<1>8. tab[b].on = 0 => tab[b].pc = "new" /\ tab[b].id = 0 /\ tab[b].ch = "empty"
  BY <1>1 DEF Bridged
<1>9. tab'[b].ch # "empty" => tab[b].id # 0
  BY <1>1, <1>5, <1>6 DEF Bridged
<1>10. tab'[b].ch = "closed" => conn'[tab[b].on].closed
  BY <1>1, <1>3, <1>4, <1>5, <1>8 DEF Bridged
<1>11. tab[b].pc # "wait" => tab'[b].ch \in {"empty", "closed"}
  BY <1>1, <1>5 DEF Bridged
<1> QED BY <1>1, <1>5, <1>7, <1>8, <1>9, <1>10, <1>11 DEF Bridged, Requesting, There

LEMMA MovesApart ==
    ASSUME Shape, LinkMoves, Apart
    PROVE  Apart'
<1>1. \A b \in Tab : There(b) /\ tab'[b].id = tab[b].id
  BY MovesTabs
<1> QED BY <1>1 DEF Apart, There

LEMMA MovesGiven ==
    ASSUME Shape, LinkMoves, Given, \A p \in polls' : \E q \in polls : q.on = p.on /\ q.key = p.key
    PROVE  Given'
<1>1. \A b \in Tab : There(b) /\ tab'[b].mine = tab[b].mine
  BY MovesTabs
<1>2. \A k \in Conn : Asks(k)' \subseteq Asks(k) /\ Replied(k)' \subseteq Replied(k)
  BY MovesTokens
<1> SUFFICES ASSUME NEW k \in Conn
             PROVE  /\ \A r \in Asks(k)' : /\ r.on = k /\ r.id \in 1 .. conn'[k].seq
                                           /\ r.key \in 1 .. conn'[k].seq
                    /\ Replied(k)' \subseteq 1 .. conn'[k].seq
                    /\ conn'[k].pending \subseteq 1 .. conn'[k].seq
                    /\ \A p \in polls' : p.on = k => p.key \in 1 .. conn'[k].seq
                    /\ hand'[k].id # 0 \/ hand'[k] = NoReply
                    /\ \A s \in conn'[k].sinks : /\ tab'[s.tab].on = k /\ s.key = Key(s.tab)'
                                                 /\ tab'[s.tab].mine
                    /\ conn'[k].closed => conn'[k].sinks = {}
  BY DEF Given
<1>3. /\ conn'[k].seq = conn[k].seq /\ conn'[k].pending \subseteq conn[k].pending /\ hand' = hand
      /\ \/ conn'[k].sinks = conn[k].sinks /\ conn'[k].closed = conn[k].closed
         \/ conn'[k].sinks = {}
  BY DEF LinkMoves
<1>4. \A s \in conn[k].sinks : s.tab \in Tab
  BY DEF Shape, Link, Sink
<1>5. \A p \in polls' : p.on = k => p.key \in 1 .. conn[k].seq
  BY DEF Given
<1>6. \A s \in conn'[k].sinks : /\ tab'[s.tab].on = k /\ s.key = Key(s.tab)'
                                /\ tab'[s.tab].mine
  BY <1>1, <1>3, <1>4 DEF Given, There, Key
<1> QED BY <1>2, <1>3, <1>5, <1>6 DEF Given

LEMMA MovesOnce ==
    ASSUME Shape, LinkMoves, Once
    PROVE  Once'
<1>1. \A b \in Tab : /\ There(b) /\ tab'[b].id = tab[b].id
                     /\ tab'[b].ch = tab[b].ch \/ tab'[b].ch = "closed"
  BY MovesTabs
<1>2. \A k \in Conn : /\ Asks(k)' \subseteq Asks(k) /\ Replied(k)' \subseteq Replied(k)
                      /\ InDown(k)' \subseteq InDown(k) /\ InHandler(k)' = InHandler(k)
                      /\ down'[k] \in {down[k], << >>}
  BY MovesTokens DEF LinkMoves
<1>3. ASSUME NEW k \in Conn
      PROVE  \A i, j \in 1 .. Len(down'[k]) : i # j => down'[k][i].id # down'[k][j].id
  <2>1. CASE down'[k] = down[k]
    BY <2>1 DEF Once
  <2>2. CASE down'[k] = << >>
    BY <2>2
  <2> QED BY <1>2, <2>1, <2>2
<1>4. handler' = handler
  BY DEF LinkMoves
<1> QED BY <1>1, <1>2, <1>3, <1>4 DEF Once, There

\* A tab that has a good stream afterwards had one, and saw nothing.
LEMMA MovesGood ==
    ASSUME Shape, LinkMoves, Dialled, NEW b \in Tab, Good(b)'
    PROVE  /\ Good(b) /\ tab'[b] = tab[b] /\ tab[b].on \in Conn
           /\ up'[tab[b].on] = up[tab[b].on] /\ conn'[tab[b].on].sinks = conn[tab[b].on].sinks
<1>1. tab'[b].on = tab[b].on /\ tab'[b].faults = tab[b].faults
  BY MovesTabs DEF There
<1>2. /\ tab[b].on # 0 /\ "timeout" \notin tab[b].faults
      /\ conn'[tab[b].on].agent = "serving" /\ ~conn'[tab[b].on].broken /\ ~conn'[tab[b].on].closed
  BY <1>1 DEF Good, Serving, Dead
<1>3. tab[b].on \in Conn
  BY <1>2 DEF Shape, Bridge
<1>4. conn[tab[b].on].agent # "none"
  BY <1>2 DEF Dialled
<1>5. PICK k \in Conn : k = tab[b].on
  BY <1>3
<1>6. /\ conn[k].broken => conn'[k].broken
      /\ conn[k].closed => conn'[k].closed
      /\ conn'[k].agent = "serving" => conn[k].agent \in {"none", "serving"}
      /\ conn'[k].sinks = conn[k].sinks \/ conn'[k].closed
      /\ up'[k] = up[k] \/ conn'[k].closed
  BY DEF LinkMoves
<1>7. Serving(k)
  <2>1. conn'[k].agent = "serving" /\ ~conn'[k].broken /\ ~conn'[k].closed
    BY <1>2, <1>5
  <2>2. conn[k].agent = "serving" /\ conn[k].agent # "none"
    BY <1>4, <1>5, <1>6, <2>1
  <2>3. ~conn[k].broken
    BY <1>6, <2>1
  <2>4. ~conn[k].closed
    BY <1>6, <2>1
  <2> QED BY <2>2, <2>3, <2>4 DEF Serving, Dead
<1>8. tab'[b] = tab[b]
  BY <1>2, MovesTabs
<1> QED BY <1>2, <1>3, <1>5, <1>6, <1>7, <1>8 DEF Good

LEMMA MovesMatched ==
    ASSUME Shape, LinkMoves, Dialled, Matched
    PROVE  Matched'
<1> SUFFICES ASSUME NEW b \in Tab, tab'[b].on # 0
             PROVE  /\ \A r \in Asks(tab[b].on)' :
                          /\ r.id = tab'[b].id => /\ tab'[b].pc = "wait" /\ r.key = Key(b)'
                                                  /\ r.op = tab'[b].op
                          /\ r.key = Key(b)' /\ Good(b)' => r.id = tab'[b].id
                    /\ tab'[b].id \in Replied(tab[b].on)' => tab'[b].pc = "wait"
  <2>1. \A b \in Tab : tab'[b].on = tab[b].on
    BY MovesTabs DEF There
  <2> QED BY <2>1 DEF Matched
<1>1. /\ tab'[b].on = tab[b].on /\ Key(b)' = Key(b) /\ tab'[b].pc = tab[b].pc
      /\ tab'[b].op = tab[b].op /\ tab'[b].id = tab[b].id
  BY MovesTabs DEF There, Key
<1>2. tab[b].on \in Conn
  BY <1>1 DEF Shape, Bridge
<1>3. Asks(tab[b].on)' \subseteq Asks(tab[b].on) /\ Replied(tab[b].on)' \subseteq Replied(tab[b].on)
  <2>1. PICK k \in Conn : k = tab[b].on
    BY <1>2
  <2>2. Asks(k)' \subseteq Asks(k) /\ Replied(k)' \subseteq Replied(k)
    BY MovesTokens
  <2>3. tab'[b].on = k
    BY <1>1, <2>1
  <2> QED BY <2>1, <2>2, <2>3
<1>4. Good(b)' => Good(b)
  BY MovesGood
<1> QED BY <1>1, <1>3, <1>4 DEF Matched
-----------------------------------------------------------------------------
(* Streams, seen from one tab.                                                *)

LEMMA FailingIs ==
    ASSUME Shape, NEW b \in Tab, NEW k \in Conn, k = tab[b].on
    PROVE  Failing(b) <=> \E m \in InUp(k) : m.kind = "paneError" /\ m.id = Key(b)
<1>1. up[k] \in Seq(Message)
  BY DEF Shape
<1>2. DOMAIN up[k] = 1 .. Len(up[k])
  BY <1>1
<1> QED BY <1>2 DEF Failing, InUp

LEMMA FailingThen ==
    ASSUME Shape', NEW b \in Tab, NEW k \in Conn, k = tab'[b].on
    PROVE  Failing(b)' <=> \E m \in InUp(k)' : m.kind = "paneError" /\ m.id = Key(b)'
<1>1. up'[k] \in Seq(Message)
  BY DEF Shape
<1>2. DOMAIN up'[k] = 1 .. Len(up'[k])
  BY <1>1
<1> QED BY <1>2 DEF Failing, InUp

\* A step that does not change what the tab knows, and neither ends its stream
\* nor finishes what it asked for.
LEMMA StreamKept ==
    ASSUME NEW b \in Tab, Streaming(b),
           Good(b)' => /\ Good(b)
                       /\ tab'[b].told = tab[b].told /\ tab'[b].mine = tab[b].mine
                       /\ tab'[b].pc = tab[b].pc /\ tab'[b].faults = tab[b].faults
                       /\ HasSink(b) => HasSink(b)'
                       /\ Failing(b) => Failing(b)'
                       /\ One(b) => One(b)' \/ Failing(b)'
                       /\ PollsOf(b) = {} => PollsOf(b)' = {}
                       /\ Done(b)' => Done(b)
    PROVE  Streaming(b)'
BY DEF Streaming

\* Where its poll loops are left alone.
LEMMA PollsKept ==
    ASSUME NEW b \in Tab, There(b), {p \in polls' : p.on = tab[b].on /\ p.key = Key(b) /\ p.live} = PollsOf(b),
           \A p \in PollsOf(b) : p \in subs[tab[b].on] => p \in subs'[tab[b].on]
    PROVE  PollsOf(b)' = PollsOf(b) /\ (One(b) => One(b)')
<1>1. tab'[b].on = tab[b].on /\ Key(b)' = Key(b)
  BY DEF There, Key
<1>2. PollsOf(b)' = PollsOf(b)
  BY <1>1 DEF PollsOf
<1>3. ASSUME One(b) PROVE One(b)'
  <2>1. PollsOf(b) \subseteq subs'[tab[b].on] /\ Cardinality(PollsOf(b)) = 1
    BY <1>3 DEF One
  <2> QED BY <1>1, <1>2, <2>1 DEF One
<1> QED BY <1>2, <1>3

LEMMA MovesStreams ==
    ASSUME Shape, Shape', LinkMoves, Dialled, Streams,
           \A j \in Conn : \/ conn'[j].agent # "serving"
                           \/ /\ subs'[j] = subs[j]
                              /\ \A p \in Poll : p.on = j => (p \in polls' <=> p \in polls)
    PROVE  Streams'
<1> SUFFICES ASSUME NEW b \in Tab
             PROVE  Streaming(b)'
  BY DEF Streams
<1>1. Streaming(b)
  BY DEF Streams
<1>2. ASSUME Good(b)'
      PROVE  /\ Good(b)
             /\ tab'[b].told = tab[b].told /\ tab'[b].mine = tab[b].mine
             /\ tab'[b].pc = tab[b].pc /\ tab'[b].faults = tab[b].faults
             /\ HasSink(b) => HasSink(b)'
             /\ Failing(b) => Failing(b)'
             /\ One(b) => One(b)' \/ Failing(b)'
             /\ PollsOf(b) = {} => PollsOf(b)' = {}
             /\ Done(b)' => Done(b)
  <2>1. /\ Good(b) /\ tab'[b] = tab[b] /\ tab[b].on \in Conn
        /\ up'[tab[b].on] = up[tab[b].on] /\ conn'[tab[b].on].sinks = conn[tab[b].on].sinks
    BY <1>2, MovesGood
  <2>2. There(b) /\ Key(b)' = Key(b)
    BY <2>1 DEF There, Key
  <2>3. HasSink(b) => HasSink(b)'
    BY <2>1, <2>2 DEF HasSink
  <2>4. Failing(b) => Failing(b)'
    BY <2>1, <2>2 DEF Failing
  <2>5. conn'[tab[b].on].agent = "serving"
    BY <1>2, <2>1 DEF Good, Serving
  <2>6. /\ subs'[tab[b].on] = subs[tab[b].on]
        /\ \A p \in Poll : p.on = tab[b].on => (p \in polls' <=> p \in polls)
    BY <2>1, <2>5
  <2>7. polls \subseteq Poll /\ polls' \subseteq Poll
    BY DEF Shape
  <2>8. {p \in polls' : p.on = tab[b].on /\ p.key = Key(b) /\ p.live} = PollsOf(b)
    BY <2>6, <2>7 DEF PollsOf
  <2>9. PollsOf(b)' = PollsOf(b) /\ (One(b) => One(b)')
    BY <2>2, <2>6, <2>8, PollsKept
  <2>10. InUp(tab[b].on)' = InUp(tab[b].on) /\ hand' = hand /\ handler' = handler
    BY <2>1 DEF InUp, LinkMoves
  <2>11. Done(b)' => Done(b)
    BY <2>1, <2>10 DEF Done
  <2> QED BY <2>1, <2>3, <2>4, <2>9, <2>11
<1> QED BY <1>1, <1>2, StreamKept

LEMMA MovesKeep ==
    ASSUME LinkInv, Shape', LinkMoves, Dialled', Polling',
           \A p \in polls' : \E q \in polls : q.on = p.on /\ q.key = p.key,
           \A j \in Conn : \/ conn'[j].agent # "serving"
                           \/ /\ subs'[j] = subs[j]
                              /\ \A p \in Poll : p.on = j => (p \in polls' <=> p \in polls)
    PROVE  LinkInv'
BY MovesBridges, MovesApart, MovesGiven, MovesOnce, MovesMatched, MovesStreams DEF LinkInv

LEMMA MovesDialled ==
    ASSUME Shape, Dialled, LinkMoves,
           \A j \in Conn : conn'[j].agent = "none" => conn'[j].hub = conn[j].hub \/ conn'[j].hub = "none",
           registered' \in {registered, 0} \/ (registered' \in Conn /\ conn[registered'].agent # "none")
    PROVE  Dialled'
<1>1. \A j \in Conn : conn[j].agent # "none" => conn'[j].agent # "none"
  BY DEF LinkMoves
<1>2. \A b \in Tab : tab'[b].on = tab[b].on /\ (tab[b].on # 0 => tab[b].on \in Conn)
  BY MovesTabs DEF There, Shape, Bridge
<1>3. \A j \in Conn : conn'[j].agent = "none" => conn'[j].hub = "none"
  BY <1>1 DEF Dialled
<1>4. registered' # 0 => conn'[registered'].agent # "none"
  <2>1. registered # 0 => registered \in Conn
    BY DEF Shape
  <2> QED BY <1>1, <2>1 DEF Dialled
<1> QED BY <1>1, <1>2, <1>3, <1>4 DEF Dialled

LEMMA LinkSteps ==
    ASSUME LinkInv, NEW k \in Conn, LinkStep(k) \/ Drop(k)
    PROVE  LinkInv'
<1>1. Shape /\ Dialled /\ Polling
  BY DEF LinkInv
<1>2. polls \subseteq Poll
  BY <1>1 DEF Shape
<1>3. ASSUME UNCHANGED <<polls, subs>>
      PROVE  /\ Polling'
             /\ \A p \in polls' : \E q \in polls : q.on = p.on /\ q.key = p.key
             /\ \A j \in Conn : /\ subs'[j] = subs[j]
                                /\ \A p \in Poll : p.on = j => (p \in polls' <=> p \in polls)
  BY <1>1, <1>3 DEF Polling
<1>4. CASE Dial(k)
  <2>1. /\ LinkMoves /\ Shape' /\ UNCHANGED <<registered, polls, subs>>
        /\ \A j \in Conn : conn'[j].agent = "none" => conn[j].agent = "none" /\ conn'[j].hub = conn[j].hub
    BY <1>1, <1>4, DialDoes
  <2>2. Dialled'
    BY <1>1, <2>1, MovesDialled
  <2> QED BY <1>3, <2>1, <2>2, MovesKeep
<1>5. CASE Drop(k)
  <2>1. /\ LinkMoves /\ Shape' /\ UNCHANGED <<registered, polls, subs>>
        /\ \A j \in Conn : conn'[j].agent = conn[j].agent /\ conn'[j].hub = conn[j].hub
    BY <1>1, <1>5, DropDoes
  <2>2. Dialled'
    BY <1>1, <2>1, MovesDialled
  <2> QED BY <1>3, <2>1, <2>2, MovesKeep
<1>6. CASE Add(k)
  <2>1. /\ LinkMoves /\ Shape' /\ UNCHANGED <<polls, subs>>
        /\ conn[k].hub = "hello" /\ registered' = k
        /\ \A j \in Conn : /\ conn'[j].agent = conn[j].agent
                           /\ j # k => conn'[j].hub = conn[j].hub
    BY <1>1, <1>6, AddDoes
  <2>2. conn[k].agent # "none"
    BY <1>1, <2>1 DEF Dialled
  <2>3. Dialled'
    BY <1>1, <2>1, <2>2, MovesDialled
  <2> QED BY <1>3, <2>1, <2>3, MovesKeep
<1>7. CASE ReadError(k)
  <2>1. /\ LinkMoves /\ Shape' /\ UNCHANGED <<registered, polls, subs>>
        /\ conn[k].hub = "reading"
        /\ \A j \in Conn : /\ conn'[j].agent = conn[j].agent
                           /\ j # k => conn'[j].hub = conn[j].hub
    BY <1>1, <1>7, ReadErrorDoes
  <2>2. conn[k].agent # "none"
    BY <1>1, <2>1 DEF Dialled
  <2>3. Dialled'
    BY <1>1, <2>1, <2>2, MovesDialled
  <2> QED BY <1>3, <2>1, <2>3, MovesKeep
<1>8. CASE Remove(k)
  <2>1. /\ LinkMoves /\ Shape' /\ UNCHANGED <<polls, subs>>
        /\ conn[k].hub = "leaving" /\ registered' \in {registered, 0}
        /\ \A j \in Conn : /\ conn'[j].agent = conn[j].agent
                           /\ j # k => conn'[j].hub = conn[j].hub
    BY <1>1, <1>8, RemoveDoes
  <2>2. conn[k].agent # "none"
    BY <1>1, <2>1 DEF Dialled
  <2>3. Dialled'
    BY <1>1, <2>1, <2>2, MovesDialled
  <2> QED BY <1>3, <2>1, <2>3, MovesKeep
<1>9. CASE ServeEnds(k)
  <2>1. PICK ps : ps = {p \in subs[k] : p.on = k}
    OBVIOUS
  <2>2. /\ LinkMoves /\ Shape' /\ UNCHANGED registered
        /\ conn'[k].agent = "ended"
        /\ \A j \in Conn : /\ j # k => conn'[j].agent = conn[j].agent
                           /\ conn'[j].hub = conn[j].hub
        /\ polls' = Cancel(ps)
        /\ subs'[k] = {} /\ \A j \in Conn : j # k => subs'[j] = subs[j]
    BY <1>1, <1>9, <2>1, ServeEndsDoes
  <2>3. /\ polls' \subseteq Poll
        /\ \A p \in polls' : p.live => p \in polls /\ p \notin ps
        /\ \A p \in polls : p \notin ps => p \in polls'
        /\ \A p \in polls' : \E q \in polls : q.on = p.on /\ q.key = p.key
    BY <1>2, <2>2, CancelIs
  <2>4. Dialled'
    BY <1>1, <2>2, MovesDialled
  <2>5. Polling'
    <3>1. ASSUME NEW p \in polls', p.live PROVE p \in subs'[p.on]
      <4>1. p \in polls /\ p \notin ps /\ p \in Poll
        BY <1>2, <2>3, <3>1
      <4>2. p \in subs[p.on]
        BY <1>1, <3>1, <4>1 DEF Polling
      <4>3. p.on # k /\ p.on \in Conn
        BY <2>1, <4>1, <4>2 DEF Poll
      <4> QED BY <2>2, <4>2, <4>3
    <3>2. \A j \in Conn : subs'[j] \subseteq subs[j]
      BY <2>2
    <3> QED BY <1>1, <3>1, <3>2 DEF Polling
  <2>6. ASSUME NEW j \in Conn, conn'[j].agent = "serving"
        PROVE  /\ subs'[j] = subs[j]
               /\ \A p \in Poll : p.on = j => (p \in polls' <=> p \in polls)
    <3>1. j # k
      BY <2>2, <2>6
    <3>2. \A p \in polls : p.on = j => p \in polls'
      BY <2>1, <2>3, <3>1
    <3>3. ASSUME NEW p \in polls', p.on = j PROVE p \in polls
      <4>1. PICK q \in polls : p = IF q \in ps THEN [q EXCEPT !.live = FALSE] ELSE q
        BY <2>2 DEF Cancel
      <4>2. q \in Poll
        BY <1>2
      <4>3. q \notin ps
        <5>1. CASE q \in ps
          <6>1. p = [q EXCEPT !.live = FALSE]
            BY <4>1, <5>1
          <6>2. p.on = q.on
            BY <4>2, <6>1 DEF Poll
          <6> QED BY <2>1, <3>1, <3>3, <5>1, <6>2
        <5> QED BY <5>1
      <4> QED BY <4>1, <4>3
    <3> QED BY <2>2, <3>1, <3>2, <3>3
  <2> QED BY <2>2, <2>3, <2>4, <2>5, <2>6, MovesKeep
<1> QED BY <1>4, <1>5, <1>6, <1>7, <1>8, <1>9 DEF LinkStep
-----------------------------------------------------------------------------
(* A tab's step leaves the other tabs what they had.                          *)

LEMMA TabsTokens ==
    ASSUME NEW b \in Tab, NEW k \in Conn, Tabs(b, k)
    PROVE  \A j \in Conn : /\ InHandler(j)' = InHandler(j) /\ InUp(j)' = InUp(j)
                           /\ Replied(j)' = Replied(j)
                           /\ down'[j] = down[j] => /\ InDown(j)' = InDown(j)
                                                    /\ Asks(j)' = Asks(j)
<1>1. UNCHANGED <<up, hand, handler>>
  BY DEF Tabs, agent
<1>2. \A j \in Conn : /\ InHandler(j)' = InHandler(j) /\ InUp(j)' = InUp(j)
                      /\ Replied(j)' = Replied(j)
                      /\ down'[j] = down[j] => InDown(j)' = InDown(j)
  BY <1>1 DEF InHandler, InUp, Replied, InDown
<1>3. \A j \in Conn : down'[j] = down[j] => Asks(j)' = Asks(j)
  BY <1>2 DEF Asks
<1> QED BY <1>2, <1>3

LEMMA TabsGood ==
    ASSUME Shape, NEW b \in Tab, NEW k \in Conn, Tabs(b, k), NEW c \in Tab, Good(c)'
    PROVE  /\ tab'[c].on \in Conn /\ "timeout" \notin tab'[c].faults /\ Serving(tab'[c].on)
           /\ ~conn[tab'[c].on].closed
<1>1. tab' \in [Tab -> Bridge]
  BY DEF Tabs
<1>2. tab'[c].on # 0 /\ "timeout" \notin tab'[c].faults
  BY DEF Good
<1>3. PICK j \in Conn : j = tab'[c].on
  BY <1>1, <1>2 DEF Bridge
<1>4. conn'[j].agent = "serving" /\ ~conn'[j].broken /\ ~conn'[j].closed
  BY <1>3 DEF Good, Serving, Dead
<1>5. conn'[j].agent = conn[j].agent /\ conn'[j].broken = conn[j].broken /\ conn'[j].closed = conn[j].closed
  BY DEF Tabs
<1> QED BY <1>2, <1>3, <1>4, <1>5 DEF Serving, Dead

LEMMA TabsShape ==
    ASSUME Shape, NEW b \in Tab, NEW k \in Conn, Tabs(b, k), down' \in [Conn -> Seq(Request)]
    PROVE  Shape'
BY DEF Shape, Tabs, agent

LEMMA TabsDialled ==
    ASSUME Shape, Dialled, NEW b \in Tab, NEW k \in Conn, Tabs(b, k),
           tab'[b].on = tab[b].on \/ tab'[b].on = registered
    PROVE  Dialled'
<1>1. \A j \in Conn : conn'[j].agent = conn[j].agent /\ conn'[j].hub = conn[j].hub
  BY DEF Tabs
<1>2. registered' = registered /\ registered \in Conn \cup {0}
  BY DEF Tabs, Shape
<1>3. ASSUME NEW c \in Tab, tab'[c].on # 0
      PROVE  conn'[tab'[c].on].agent # "none"
  <2>1. tab[c].on \in Conn \cup {0}
    BY DEF Shape, Bridge
  <2>2. CASE tab'[c].on = tab[c].on
    BY <1>1, <1>3, <2>1, <2>2 DEF Dialled
  <2>3. CASE tab'[c].on = registered
    BY <1>1, <1>2, <1>3, <2>3 DEF Dialled
  <2>4. tab'[c].on = tab[c].on \/ tab'[c].on = registered
    BY DEF Tabs
  <2> QED BY <2>2, <2>3, <2>4
<1> QED BY <1>1, <1>2, <1>3 DEF Dialled

LEMMA TabsBridges ==
    ASSUME Shape, Bridges, NEW b \in Tab, NEW k \in Conn, Tabs(b, k), Bridged(b)',
           conn[k].seq <= conn'[k].seq
    PROVE  Bridges'
<1> SUFFICES ASSUME NEW c \in Tab, c # b
             PROVE  Bridged(c)'
  BY DEF Bridges
<1>1. Bridged(c) /\ tab'[c] = tab[c] /\ tab[c] \in Bridge
  BY DEF Bridges, Tabs, Shape
<1>2. CASE tab[c].on \in Conn
  <2>1. PICK j \in Conn : j = tab[c].on
    BY <1>2
  <2>2. /\ conn[j].seq \in Nat /\ conn'[j].seq \in Nat /\ conn[j].seq <= conn'[j].seq
        /\ conn'[j].closed = conn[j].closed
    <3>1. conn[j] \in Link /\ conn'[j] \in Link /\ (j # k => conn'[j] = conn[j])
          /\ conn'[j].closed = conn[j].closed
      BY DEF Shape, Tabs
    <3> QED BY <3>1 DEF Link
  <2>3. 1 .. conn[j].seq \subseteq 1 .. conn'[j].seq
    BY <2>2
  <2> QED BY <1>1, <2>1, <2>2, <2>3 DEF Bridged, Requesting
<1>3. CASE tab[c].on = 0
  <2>1. tab[c].pc = "new" /\ tab[c].id = 0 /\ tab[c].ch = "empty"
    BY <1>1, <1>3 DEF Bridged
  <2> QED BY <1>1, <1>3, <2>1 DEF Bridged, Requesting
<1> QED BY <1>1, <1>2, <1>3 DEF Bridge

LEMMA TabsApart ==
    ASSUME Apart, NEW b \in Tab, NEW k \in Conn, Tabs(b, k), tab'[b].on = k,
           \A c \in Tab : c # b /\ tab[c].on = k =>
               /\ tab[c].prefix # tab'[b].prefix
               /\ tab[c].id = tab'[b].id => tab[c].id = 0
    PROVE  Apart'
<1> SUFFICES ASSUME NEW c \in Tab, NEW d \in Tab, c # d, tab'[c].on = tab'[d].on, tab'[c].on # 0
             PROVE  /\ tab'[c].prefix # tab'[d].prefix
                    /\ tab'[c].id = tab'[d].id => tab'[c].id = 0
  BY DEF Apart
<1>1. \A x \in Tab : x # b => tab'[x] = tab[x]
  BY DEF Tabs
<1>2. CASE c # b /\ d # b
  BY <1>1, <1>2 DEF Apart
<1>3. CASE c = b
  BY <1>1, <1>3
<1>4. CASE d = b
  BY <1>1, <1>4
<1> QED BY <1>2, <1>3, <1>4

LEMMA TabsGiven ==
    ASSUME Shape, Given, NEW b \in Tab, NEW k \in Conn, Tabs(b, k), tab'[b].on = k,
           tab[b].on \in {0, k}, conn[k].seq <= conn'[k].seq,
           \A j \in Conn : \A r \in Asks(j)' :
               r \in Asks(j) \/ (j = k /\ r.on = k /\ r.id \in 1 .. conn'[k].seq /\ r.key \in 1 .. conn'[k].seq),
           conn'[k].pending \subseteq 1 .. conn'[k].seq,
           \A s \in conn'[k].sinks :
               \/ s \in conn[k].sinks /\ s.tab # b
               \/ s.tab = b /\ s.key = Key(b)' /\ tab'[b].mine /\ ~conn[k].closed
    PROVE  Given'
<1>1. \A c \in Tab : c # b => tab'[c] = tab[c]
  BY DEF Tabs
<1>2. polls' = polls /\ hand' = hand
  BY DEF Tabs, agent
<1> SUFFICES ASSUME NEW j \in Conn
             PROVE  /\ \A r \in Asks(j)' : /\ r.on = j /\ r.id \in 1 .. conn'[j].seq
                                           /\ r.key \in 1 .. conn'[j].seq
                    /\ Replied(j)' \subseteq 1 .. conn'[j].seq
                    /\ conn'[j].pending \subseteq 1 .. conn'[j].seq
                    /\ \A p \in polls' : p.on = j => p.key \in 1 .. conn'[j].seq
                    /\ hand'[j].id # 0 \/ hand'[j] = NoReply
                    /\ \A s \in conn'[j].sinks : /\ tab'[s.tab].on = j /\ s.key = Key(s.tab)'
                                                 /\ tab'[s.tab].mine
                    /\ conn'[j].closed => conn'[j].sinks = {}
  BY DEF Given
<1>3. /\ conn[j].seq \in Nat /\ conn'[j].seq \in Nat /\ conn[j].seq <= conn'[j].seq
      /\ conn'[j].closed = conn[j].closed /\ (j # k => conn'[j] = conn[j])
  <2>1. /\ conn[j] \in Link /\ conn'[j] \in Link /\ (j # k => conn'[j] = conn[j])
        /\ conn'[j].closed = conn[j].closed
    BY DEF Shape, Tabs
  <2> QED BY <2>1 DEF Link
<1>4. 1 .. conn[j].seq \subseteq 1 .. conn'[j].seq
  BY <1>3
<1>5. \A r \in Asks(j)' : r.on = j /\ r.id \in 1 .. conn'[j].seq /\ r.key \in 1 .. conn'[j].seq
  BY <1>4 DEF Given
<1>6. Replied(j)' \subseteq 1 .. conn'[j].seq
  <2>1. Replied(j)' = Replied(j)
    BY TabsTokens
  <2> QED BY <1>4, <2>1 DEF Given
<1>7. conn'[j].pending \subseteq 1 .. conn'[j].seq
  BY <1>3 DEF Given
<1>8. \A p \in polls' : p.on = j => p.key \in 1 .. conn'[j].seq
  BY <1>2, <1>4 DEF Given
<1>9. \A s \in conn[j].sinks : /\ tab[s.tab].on = j /\ s.key = Key(s.tab) /\ tab[s.tab].mine
                               /\ s.tab \in Tab
  BY DEF Given, Shape, Link, Sink
<1>10. ASSUME NEW s \in conn'[j].sinks
       PROVE  tab'[s.tab].on = j /\ s.key = Key(s.tab)' /\ tab'[s.tab].mine
  <2>1. CASE j # k
    <3>1. s \in conn[j].sinks /\ s.tab # b
      BY <1>3, <1>9, <2>1, ConnIs
    <3> QED BY <1>1, <1>9, <3>1 DEF Key
  <2>2. CASE j = k /\ s \in conn[k].sinks /\ s.tab # b
    BY <1>1, <1>9, <2>2 DEF Key
  <2>3. CASE j = k /\ s.tab = b /\ s.key = Key(b)' /\ tab'[b].mine
    BY <2>3
  <2> QED BY <2>1, <2>2, <2>3
<1>11. conn'[j].closed => conn'[j].sinks = {}
  BY <1>3 DEF Given
<1> QED BY <1>2, <1>5, <1>6, <1>7, <1>8, <1>10, <1>11 DEF Given

LEMMA TabsOnce ==
    ASSUME Once, NEW b \in Tab, NEW k \in Conn, Tabs(b, k), UNCHANGED down,
           tab'[b].ch \notin {"ok", "refused"}
    PROVE  Once'
<1>1. \A j \in Conn : /\ InHandler(j)' = InHandler(j) /\ InDown(j)' = InDown(j)
                      /\ Replied(j)' = Replied(j) /\ Asks(j)' = Asks(j)
  BY TabsTokens
<1>2. \A c \in Tab : c # b => tab'[c] = tab[c]
  BY DEF Tabs
<1>3. handler' = handler
  BY DEF Tabs, agent
<1> QED BY <1>1, <1>2, <1>3 DEF Once

LEMMA TabsMatched ==
    ASSUME Shape, Matched, NEW b \in Tab, NEW k \in Conn, Tabs(b, k), UNCHANGED down,
           tab'[b].on = k,
           \A r \in Asks(k) :
               /\ r.id # tab'[b].id \/ (tab'[b].pc = "wait" /\ r.key = Key(b)' /\ r.op = tab'[b].op)
               /\ r.key = Key(b)' /\ Good(b)' => r.id = tab'[b].id,
           tab'[b].id \in Replied(k) => tab'[b].pc = "wait"
    PROVE  Matched'
<1>1. \A j \in Conn : Replied(j)' = Replied(j) /\ Asks(j)' = Asks(j)
  BY TabsTokens
<1>2. tab' \in [Tab -> Bridge]
  BY DEF Tabs
<1>3. ASSUME NEW c \in Tab, c # b, NEW j \in Conn, j = tab'[c].on
      PROVE  /\ \A r \in Asks(j)' :
                    /\ r.id = tab'[c].id => tab'[c].pc = "wait" /\ r.key = Key(c)' /\ r.op = tab'[c].op
                    /\ r.key = Key(c)' /\ Good(c)' => r.id = tab'[c].id
             /\ tab'[c].id \in Replied(j)' => tab'[c].pc = "wait"
  <2>1. tab'[c] = tab[c] /\ Key(c)' = Key(c)
    BY <1>3 DEF Tabs, Key
  <2>2. Good(c)' => Good(c)
    BY <2>1, TabsGood, ConnIs DEF Good
  <2>3. j # 0
    BY ConnIs
  <2> QED BY <1>1, <1>3, <2>1, <2>2, <2>3 DEF Matched
<1>4. \A c \in Tab : tab'[c].on # 0 => tab'[c].on \in Conn
  BY <1>2 DEF Bridge
<1>5. ASSUME NEW c \in Tab, tab'[c].on # 0
      PROVE  /\ \A r \in Asks(tab[c].on)' :
                    /\ r.id = tab'[c].id => tab'[c].pc = "wait" /\ r.key = Key(c)' /\ r.op = tab'[c].op
                    /\ r.key = Key(c)' /\ Good(c)' => r.id = tab'[c].id
             /\ tab'[c].id \in Replied(tab[c].on)' => tab'[c].pc = "wait"
  <2>1. CASE c = b
    BY <1>1, <2>1
  <2>2. CASE c # b
    <3>1. PICK j \in Conn : j = tab'[c].on
      BY <1>4, <1>5
    <3> QED BY <1>3, <2>2, <3>1
  <2> QED BY <2>1, <2>2
<1> QED BY <1>5 DEF Matched

LEMMA TabsStreams ==
    ASSUME Shape, Streams, NEW b \in Tab, NEW k \in Conn, Tabs(b, k), Streaming(b)',
           \A s \in conn[k].sinks : s.tab # b => s \in conn'[k].sinks
    PROVE  Streams'
<1> SUFFICES ASSUME NEW c \in Tab, c # b
             PROVE  Streaming(c)'
  BY DEF Streams
<1>1. Streaming(c)
  BY DEF Streams
<1>2. /\ tab'[c] = tab[c] /\ Key(c)' = Key(c) /\ There(c)
      /\ UNCHANGED <<up, hand, handler, subs, polls>>
  BY DEF Tabs, agent, Key, There
<1>3. ASSUME Good(c)'
      PROVE  /\ Good(c)
             /\ tab'[c].told = tab[c].told /\ tab'[c].mine = tab[c].mine
             /\ tab'[c].pc = tab[c].pc /\ tab'[c].faults = tab[c].faults
             /\ HasSink(c) => HasSink(c)'
             /\ Failing(c) => Failing(c)'
             /\ One(c) => One(c)' \/ Failing(c)'
             /\ PollsOf(c) = {} => PollsOf(c)' = {}
             /\ Done(c)' => Done(c)
  <2>1. Good(c) /\ tab[c].on \in Conn
    BY <1>2, <1>3, TabsGood, ConnIs DEF Good
  <2>2. PICK j \in Conn : j = tab[c].on
    BY <2>1
  <2>3. HasSink(c) => HasSink(c)'
    <3>1. [key |-> Key(c), tab |-> c] \in conn[j].sinks => [key |-> Key(c), tab |-> c] \in conn'[j].sinks
      <4>1. CASE j = k
        BY <4>1
      <4>2. CASE j # k
        BY <4>2 DEF Tabs
      <4> QED BY <4>1, <4>2
    <3> QED BY <1>2, <2>2, <3>1 DEF HasSink
  <2>4. Failing(c) => Failing(c)'
    BY <1>2 DEF Failing
  <2>5. PollsOf(c)' = PollsOf(c)
    BY <1>2 DEF PollsOf
  <2>6. One(c) => One(c)'
    BY <1>2, <2>5 DEF One
  <2>7. Done(c)' => Done(c)
    BY <1>2 DEF Done, InUp
  <2> QED BY <1>2, <2>1, <2>3, <2>4, <2>5, <2>6, <2>7
<1> QED BY <1>1, <1>3, StreamKept

LEMMA TabsPolling ==
    ASSUME Polling, NEW b \in Tab, NEW k \in Conn, Tabs(b, k)
    PROVE  Polling'
BY DEF Polling, Tabs, agent

\* A step that sends nothing.
LEMMA TabsKeep ==
    ASSUME LinkInv, NEW b \in Tab, NEW k \in Conn, Tabs(b, k), UNCHANGED down,
           tab'[b].on = k, tab[b].on = k \/ (tab[b].on = 0 /\ k = registered),
           conn[k].seq <= conn'[k].seq, conn'[k].pending \subseteq 1 .. conn'[k].seq,
           \A s \in conn'[k].sinks :
               \/ s \in conn[k].sinks /\ s.tab # b
               \/ s.tab = b /\ s.key = Key(b)' /\ tab'[b].mine /\ ~conn[k].closed,
           \A s \in conn[k].sinks : s.tab # b => s \in conn'[k].sinks,
           Bridged(b)', tab'[b].ch \notin {"ok", "refused"},
           \A c \in Tab : c # b /\ tab[c].on = k =>
               /\ tab[c].prefix # tab'[b].prefix
               /\ tab[c].id = tab'[b].id => tab[c].id = 0,
           \A r \in Asks(k) : /\ r.id # tab'[b].id
                              /\ ~(r.key = Key(b)' /\ Good(b)'),
           tab'[b].id \notin Replied(k),
           Streaming(b)'
    PROVE  LinkInv'
<1>1. Shape /\ Dialled /\ Bridges /\ Apart /\ Given /\ Once /\ Matched /\ Polling /\ Streams
  BY DEF LinkInv
<1>2. Shape'
  <2>1. down' \in [Conn -> Seq(Request)]
    BY <1>1 DEF Shape
  <2> QED BY <1>1, <2>1, TabsShape
<1>3. Dialled'
  BY <1>1, TabsDialled
<1>4. Bridges'
  BY <1>1, TabsBridges
<1>5. Apart'
  BY <1>1, TabsApart
<1>6. Given'
  <2>1. \A j \in Conn : Asks(j)' = Asks(j)
    BY TabsTokens
  <2> QED BY <1>1, <2>1, TabsGiven
<1>7. Once'
  BY <1>1, TabsOnce
<1>8. Matched'
  BY <1>1, TabsMatched
<1>9. Polling'
  BY <1>1, TabsPolling
<1>10. Streams'
  BY <1>1, TabsStreams
<1> QED BY <1>2, <1>3, <1>4, <1>5, <1>6, <1>7, <1>8, <1>9, <1>10 DEF LinkInv

\* A tab's own sinks, and its own numbers.
LEMMA OwnSinks ==
    ASSUME LinkInv, NEW b \in Tab, NEW k \in Conn, k = tab[b].on, NEW s \in conn[k].sinks
    PROVE  /\ s \in SinksWithout(k, Key(b)) <=> s.tab # b
           /\ s.tab = b => s.key = Key(b) /\ tab[b].mine
<1>1. s.tab \in Tab /\ tab[s.tab].on = k /\ s.key = Key(s.tab) /\ tab[s.tab].mine
  BY DEF LinkInv, Given, Shape, Link, Sink
<1>2. s.tab # b => s.key # Key(b)
  BY <1>1, ConnIs DEF LinkInv, Apart, Key
<1> QED BY <1>1, <1>2 DEF SinksWithout

LEMMA OwnNumbers ==
    ASSUME LinkInv, NEW k \in Conn
    PROVE  /\ conn[k].seq \in Nat /\ conn[k].pending \subseteq 1 .. conn[k].seq
           /\ \A r \in Asks(k) : r.id \in 1 .. conn[k].seq /\ r.key \in 1 .. conn[k].seq /\ r.id # 0
           /\ Replied(k) \subseteq 1 .. conn[k].seq /\ 0 \notin Replied(k)
           /\ \A c \in Tab : tab[c].on = k => /\ tab[c].prefix \in 1 .. conn[k].seq
                                              /\ tab[c].id = 0 \/ tab[c].id \in 1 .. conn[k].seq
<1>1. conn[k].seq \in Nat
  BY DEF LinkInv, Shape, Link
<1>2. 0 \notin 1 .. conn[k].seq
  BY <1>1
<1>3. Given /\ Bridges
  BY DEF LinkInv
<1>4. \A c \in Tab : tab[c].on = k => /\ tab[c].prefix \in 1 .. conn[k].seq
                                      /\ tab[c].id = 0 \/ tab[c].id \in 1 .. conn[k].seq
  BY <1>3, ConnIs DEF Bridges, Bridged
<1> QED BY <1>1, <1>2, <1>3, <1>4 DEF Given

LEMMA NotDone ==
    ASSUME NEW b \in Tab, NEW k \in Conn, Tabs(b, k), tab'[b].on = k,
           tab'[b].ch # "ok", tab'[b].id \notin Replied(k), \A r \in Asks(k) : r.id # tab'[b].id
    PROVE  ~Done(b)'
<1> SUFFICES ASSUME Done(b)'
             PROVE  FALSE
  OBVIOUS
<1>1. InUp(k)' = InUp(k) /\ hand' = hand /\ handler' = handler
  BY TabsTokens DEF Tabs, agent
<1>2. /\ tab'[b].id # 0
      /\ \/ hand[k].id = tab'[b].id
         \/ \E m \in InUp(k) : m.kind = "reply" /\ m.id = tab'[b].id
         \/ \E h \in handler : h.req.on = k /\ h.req.id = tab'[b].id
  BY <1>1 DEF Done
<1>3. \A h \in handler : h.req.on = k => h.req \in Asks(k)
  BY DEF Asks, InHandler
<1>4. (\E m \in InUp(k) : m.kind = "reply" /\ m.id = tab'[b].id) => tab'[b].id \in Replied(k)
  BY DEF Replied
<1>5. hand[k].id = tab'[b].id => tab'[b].id \in Replied(k)
  BY <1>2 DEF Replied
<1> QED BY <1>2, <1>3, <1>4, <1>5

LEMMA OpenKeeps ==
    ASSUME LinkInv, NEW b \in Tab, Open(b)
    PROVE  LinkInv'
<1>1. Shape /\ Given /\ Bridged(b)
  BY DEF LinkInv, Bridges
<1>2. PICK k \in Conn : Opens(b, k)
  BY <1>1, OpenDoes
<1>3. /\ k = registered /\ tab[b].pc = "new" /\ Tabs(b, k) /\ UNCHANGED down
      /\ conn'[k].seq = conn[k].seq + 1
      /\ conn'[k].pending = conn[k].pending /\ conn'[k].sinks = conn[k].sinks
      /\ tab'[b].pc = "idle" /\ tab'[b].on = k /\ tab'[b].prefix = conn[k].seq + 1
      /\ tab'[b].id = tab[b].id /\ tab'[b].ch = tab[b].ch
      /\ tab'[b].mine = tab[b].mine /\ tab'[b].told = tab[b].told /\ tab'[b].faults = tab[b].faults
  BY <1>2 DEF Opens
<1>4. /\ tab[b].on = 0 /\ tab[b].id = 0 /\ tab[b].ch = "empty"
      /\ tab[b].told \notin {"asked", "on"} /\ (tab[b].told = "off" => ~tab[b].mine)
  BY <1>1, <1>3 DEF Bridged, Requesting
<1>5. k # 0
  BY ConnIs
<1>6. PICK n \in Nat : n = conn[k].seq
  BY OwnNumbers
<1>7. /\ n + 1 \in Nat /\ n + 1 \notin 1 .. n /\ n + 1 \in 1 .. (n + 1) /\ n <= n + 1
      /\ 1 .. n \subseteq 1 .. (n + 1)
  BY <1>6
<1>8. Bridged(b)'
  BY <1>3, <1>4, <1>5, <1>6, <1>7 DEF Bridged, Requesting
<1>9. \A s \in conn[k].sinks : s.tab # b
  BY <1>1, <1>4, <1>5 DEF Given
<1>10. \A r \in Asks(k) : r.id # 0 /\ r.key # n + 1
  BY <1>6, <1>7, OwnNumbers
<1>11. 0 \notin Replied(k) /\ conn'[k].pending \subseteq 1 .. conn'[k].seq
  BY <1>3, <1>6, <1>7, OwnNumbers
<1>12. \A c \in Tab : c # b /\ tab[c].on = k => tab[c].prefix # n + 1
  BY <1>6, <1>7, OwnNumbers
<1>13. Streaming(b)'
  <2>1. PollsOf(b)' = {}
    <3>1. \A p \in polls : p.on = k => p.key # n + 1
      BY <1>1, <1>6, <1>7 DEF Given
    <3>2. polls' = polls
      BY <1>3 DEF Tabs, agent
    <3> QED BY <1>3, <1>6, <3>1, <3>2 DEF PollsOf, Key
  <2>2. ~Done(b)'
    BY <1>3, <1>4 DEF Done
  <2> QED BY <1>3, <1>4, <2>1, <2>2 DEF Streaming
<1> QED BY <1>3, <1>4, <1>5, <1>6, <1>7, <1>8, <1>9, <1>10, <1>11, <1>12, <1>13, TabsKeep DEF Key

LEMMA SubscribeKeeps ==
    ASSUME LinkInv, NEW b \in Tab, Subscribe(b)
    PROVE  LinkInv'
<1>1. Shape /\ Given /\ Bridged(b) /\ Apart /\ Matched /\ Streaming(b)
  BY DEF LinkInv, Bridges, Streams
<1>2. tab[b].pc = "idle" /\ tab[b].on \in Conn
  <2>1. tab[b] \in Bridge /\ tab[b].pc = "idle"
    BY <1>1 DEF Shape, Subscribe
  <2> QED BY <1>1, <2>1 DEF Bridged, Bridge
<1>3. PICK k \in Conn : k = tab[b].on
  BY <1>2
<1>4. Tabs(b, k) /\ (AsksInVain(b) \/ AsksFor(b))
  BY <1>1, <1>2, <1>3, SubscribeDoes
<1>5. tab[b].id = 0 /\ tab[b].ch = "empty" /\ k # 0 /\ tab[b].prefix \in 1 .. conn[k].seq
  BY <1>1, <1>2, <1>3, ConnIs DEF Bridged
<1>6. /\ There(b) /\ UNCHANGED down /\ Key(b)' = Key(b)
      /\ tab'[b].id = 0 /\ tab'[b].ch = "empty" /\ tab'[b].faults = tab[b].faults
  BY <1>4, <1>5 DEF AsksInVain, AsksFor, Rests, There, Key
<1>7. conn'[k].seq = conn[k].seq /\ conn'[k].pending = conn[k].pending /\ conn[k].seq \in Nat
  BY <1>3, <1>4, OwnNumbers DEF AsksInVain, AsksFor
<1>8. Bridged(b)'
  BY <1>1, <1>3, <1>4, <1>5, <1>6, <1>7 DEF Bridged, Requesting, There, AsksInVain, AsksFor
<1>9. /\ \A s \in conn'[k].sinks :
             \/ s \in conn[k].sinks /\ s.tab # b
             \/ s.tab = b /\ s.key = Key(b)' /\ tab'[b].mine /\ ~conn[k].closed
      /\ \A s \in conn[k].sinks : s.tab # b => s \in conn'[k].sinks
  <2>1. CASE AsksInVain(b)
    BY <1>1, <1>3, <2>1 DEF AsksInVain, Given
  <2>2. CASE AsksFor(b)
    <3>1. /\ conn'[k].sinks = SinksWithout(k, Key(b)) \cup {[key |-> Key(b), tab |-> b]}
          /\ tab'[b].mine /\ ~conn[k].closed
      BY <1>3, <2>2 DEF AsksFor
    <3>2. SinksWithout(k, Key(b)) \subseteq conn[k].sinks
      BY DEF SinksWithout
    <3> QED BY <1>3, <1>6, <3>1, <3>2, OwnSinks
  <2> QED BY <1>4, <2>1, <2>2
<1>10. \A r \in Asks(k) : r.id # 0 /\ ~(r.key = Key(b) /\ Good(b))
  BY <1>1, <1>3, <1>5, OwnNumbers DEF Matched
<1>11. Good(b)' => Good(b)
  BY <1>1, <1>3, <1>4, <1>5, <1>6, TabsGood DEF Good, There
<1>12. 0 \notin Replied(k) /\ conn[k].pending \subseteq 1 .. conn[k].seq
  BY OwnNumbers
<1>13. \A c \in Tab : c # b /\ tab[c].on = k => tab[c].prefix # tab[b].prefix
  BY <1>1, <1>3, <1>5 DEF Apart
<1>14. Streaming(b)'
  <2>1. ~Done(b)'
    BY <1>6 DEF Done
  <2>2. CASE AsksInVain(b)
    <3>1. ~Good(b)'
      BY <1>1, <1>3, <1>4, <1>6, <2>2, TabsGood DEF AsksInVain, There
    <3> QED BY <3>1 DEF Streaming
  <2>3. CASE AsksFor(b)
    <3>1. HasSink(b)'
      BY <1>3, <1>6, <2>3 DEF AsksFor, HasSink, There
    <3>2. tab'[b].told = "asked" /\ tab'[b].mine
      BY <2>3 DEF AsksFor
    <3> QED BY <2>1, <3>1, <3>2 DEF Streaming
  <2> QED BY <1>4, <2>2, <2>3
<1>15. tab'[b].on = k /\ tab'[b].prefix = tab[b].prefix
  BY <1>3, <1>6 DEF There
<1> QED BY <1>3, <1>4, <1>5, <1>6, <1>7, <1>8, <1>9, <1>10, <1>11, <1>12, <1>13, <1>14, <1>15, TabsKeep

LEMMA WithdrawKeeps ==
    ASSUME LinkInv, NEW b \in Tab, Unsubscribe(b) \/ Leave(b)
    PROVE  LinkInv'
<1>1. Shape /\ Given /\ Bridged(b) /\ Apart /\ Matched /\ Streaming(b)
  BY DEF LinkInv, Bridges, Streams
<1>2. tab[b].pc = "idle" /\ tab[b].on \in Conn
  <2>1. tab[b] \in Bridge /\ tab[b].pc = "idle"
    BY <1>1 DEF Shape, Unsubscribe, Leave
  <2> QED BY <1>1, <2>1 DEF Bridged, Bridge
<1>3. PICK k \in Conn : k = tab[b].on
  BY <1>2
<1>4. Tabs(b, k) /\ (Withdraws(b) \/ Goes(b))
  BY <1>1, <1>2, <1>3, WithdrawDoes
<1>5. tab[b].id = 0 /\ tab[b].ch = "empty" /\ k # 0 /\ tab[b].prefix \in 1 .. conn[k].seq
  BY <1>1, <1>2, <1>3, ConnIs DEF Bridged
<1>6. /\ There(b) /\ UNCHANGED down /\ Key(b)' = Key(b)
      /\ tab'[b].id = 0 /\ tab'[b].ch = "empty" /\ tab'[b].faults = tab[b].faults
      /\ tab'[b].told = "off" /\ ~tab'[b].mine
  BY <1>4, <1>5 DEF Withdraws, Goes, Rests, There, Key
<1>7. conn'[k].seq = conn[k].seq /\ conn'[k].pending = conn[k].pending /\ conn[k].seq \in Nat
  BY <1>3, <1>4, OwnNumbers DEF Withdraws, Goes
<1>8. Bridged(b)'
  BY <1>1, <1>3, <1>4, <1>5, <1>6, <1>7 DEF Bridged, Requesting, There, Withdraws, Goes
<1>9. /\ \A s \in conn'[k].sinks : s \in conn[k].sinks /\ s.tab # b
      /\ \A s \in conn[k].sinks : s.tab # b => s \in conn'[k].sinks
  <2>1. CASE Goes(b)
    BY <1>3, <2>1, OwnSinks DEF Goes
  <2>2. CASE Withdraws(b)
    <3>1. conn'[k].sinks = SinksWithout(k, Key(b))
      BY <1>3, <2>2 DEF Withdraws
    <3>2. SinksWithout(k, Key(b)) \subseteq conn[k].sinks
      BY DEF SinksWithout
    <3> QED BY <1>3, <3>1, <3>2, OwnSinks
  <2> QED BY <1>4, <2>1, <2>2
<1>10. \A r \in Asks(k) : r.id # 0 /\ ~(r.key = Key(b) /\ Good(b))
  BY <1>1, <1>3, <1>5, OwnNumbers DEF Matched
<1>11. Good(b)' => Good(b)
  BY <1>1, <1>3, <1>4, <1>5, <1>6, TabsGood DEF Good, There
<1>12. 0 \notin Replied(k) /\ conn[k].pending \subseteq 1 .. conn[k].seq
  BY OwnNumbers
<1>13. \A c \in Tab : c # b /\ tab[c].on = k => tab[c].prefix # tab[b].prefix
  BY <1>1, <1>3, <1>5 DEF Apart
<1>14. Streaming(b)'
  <2>1. ~Done(b)'
    BY <1>6 DEF Done
  <2>2. CASE Withdraws(b)
    <3>1. tab'[b].pc = "call"
      BY <2>2 DEF Withdraws
    <3> QED BY <1>6, <2>1, <3>1 DEF Streaming
  <2>3. CASE Goes(b)
    <3>1. ~tab[b].mine
      BY <2>3 DEF Goes
    <3>2. Good(b)' /\ tab'[b].faults = {} => PollsOf(b) = {}
      BY <1>1, <1>2, <1>6, <1>11, <3>1 DEF Streaming
    <3>3. PollsOf(b)' = PollsOf(b)
      BY <1>4, <1>6 DEF PollsOf, There, Tabs, agent
    <3> QED BY <1>6, <2>1, <3>2, <3>3 DEF Streaming
  <2> QED BY <1>4, <2>2, <2>3
<1>15. tab'[b].on = k /\ tab'[b].prefix = tab[b].prefix
  BY <1>3, <1>6 DEF There
<1> QED BY <1>3, <1>4, <1>5, <1>6, <1>7, <1>8, <1>9, <1>10, <1>11, <1>12, <1>13, <1>14, <1>15, TabsKeep

\* A request that ends in an error ends for a reason.
LEMMA FailsKeeps ==
    ASSUME LinkInv, NEW b \in Tab, NEW k \in Conn, k = tab[b].on, Requesting(b),
           Tabs(b, k), NEW why, Fails(b, why),
           \/ conn[k].closed
           \/ "timeout" \in why
           \/ tab[b].pc = "wait" /\ tab[b].ch = "refused" /\ why = {"refused"}
    PROVE  LinkInv'
<1>1. Shape /\ Given /\ Bridged(b) /\ Apart /\ Matched /\ Once
  BY DEF LinkInv, Bridges
<1>2. /\ There(b) /\ UNCHANGED down /\ Key(b)' = Key(b)
      /\ tab'[b].pc = (IF tab[b].op = "close" THEN "left" ELSE "idle")
      /\ tab'[b].id = 0 /\ tab'[b].ch = "empty" /\ ~tab'[b].mine
      /\ tab'[b].told = (IF tab[b].op = "subscribe" THEN "error" ELSE "off")
      /\ tab'[b].faults = tab[b].faults \cup why
      /\ conn'[k].seq = conn[k].seq /\ conn'[k].pending = conn[k].pending \ {tab[b].id}
      /\ conn'[k].sinks = IF tab[b].op = "subscribe" THEN SinksWithout(k, Key(b)) ELSE conn[k].sinks
  BY DEF Fails, There, Key
<1>3. k # 0 /\ tab[b].prefix \in 1 .. conn[k].seq /\ (tab[b].mine <=> tab[b].op = "subscribe")
  BY <1>1, ConnIs DEF Bridged
<1>4. conn[k].seq \in Nat /\ conn[k].pending \subseteq 1 .. conn[k].seq /\ 0 \notin Replied(k)
  BY OwnNumbers
<1>5. Bridged(b)'
  <2>1. tab'[b].on = k /\ tab'[b].prefix = tab[b].prefix
    BY <1>2 DEF There
  <2>2. tab'[b].pc \in {"left", "idle"} /\ tab'[b].told \in {"error", "off"}
    BY <1>2
  <2> QED BY <1>2, <1>3, <2>1, <2>2 DEF Bridged, Requesting
<1>6. /\ \A s \in conn'[k].sinks : s \in conn[k].sinks /\ s.tab # b
      /\ \A s \in conn[k].sinks : s.tab # b => s \in conn'[k].sinks
  <2>1. SinksWithout(k, Key(b)) \subseteq conn[k].sinks
    BY DEF SinksWithout
  <2>2. CASE tab[b].op = "subscribe"
    BY <1>2, <2>1, <2>2, OwnSinks
  <2>3. CASE tab[b].op # "subscribe"
    BY <1>2, <1>3, <2>3, OwnSinks
  <2> QED BY <2>2, <2>3
<1>7. ASSUME Good(b)'
      PROVE  /\ tab[b].pc = "wait" /\ tab[b].ch = "refused" /\ tab'[b].faults # {} /\ Good(b)
  <2>1. /\ "timeout" \notin tab'[b].faults /\ Serving(tab'[b].on) /\ ~conn[tab'[b].on].closed
    BY <1>1, <1>7, TabsGood
  <2>2. tab'[b].on = k
    BY <1>2 DEF There
  <2>3. tab[b].pc = "wait" /\ tab[b].ch = "refused" /\ why = {"refused"}
    BY <1>2, <2>1, <2>2
  <2> QED BY <1>2, <1>3, <2>1, <2>2, <2>3 DEF Good
<1>8. ASSUME NEW r \in Asks(k) PROVE r.id # 0 /\ ~(r.key = Key(b) /\ Good(b)')
  <2>1. r.id # 0
    BY OwnNumbers
  <2>2. ASSUME r.key = Key(b), Good(b)' PROVE FALSE
    <3>1. r.id = tab[b].id
      BY <1>1, <1>3, <1>7, <2>2 DEF Matched
    <3> QED BY <1>1, <1>7, <2>2, <3>1 DEF Once
  <2> QED BY <2>1, <2>2
<1>9. \A c \in Tab : c # b /\ tab[c].on = k => tab[c].prefix # tab[b].prefix
  BY <1>1, <1>3 DEF Apart
<1>10. Streaming(b)'
  <2>1. ~Done(b)'
    BY <1>2 DEF Done
  <2>2. tab'[b].told \notin {"asked", "on"}
    BY <1>2
  <2> QED BY <1>7, <2>1, <2>2 DEF Streaming
<1>11. tab'[b].on = k /\ tab'[b].prefix = tab[b].prefix
  BY <1>2 DEF There
<1> QED BY <1>2, <1>3, <1>4, <1>5, <1>6, <1>8, <1>9, <1>10, <1>11, TabsKeep

LEMMA TimeoutKeeps ==
    ASSUME LinkInv, NEW b \in Tab, Timeout(b)
    PROVE  LinkInv'
<1>1. Shape /\ Bridged(b)
  BY DEF LinkInv, Bridges
<1>2. tab[b].pc = "wait" /\ tab[b].on \in Conn
  <2>1. tab[b] \in Bridge /\ tab[b].pc = "wait"
    BY <1>1 DEF Shape, Timeout
  <2> QED BY <1>1, <2>1 DEF Bridged, Bridge
<1>3. PICK k \in Conn : k = tab[b].on
  BY <1>2
<1>4. Tabs(b, k) /\ Fails(b, {"timeout"})
  BY <1>1, <1>2, <1>3, TimeoutDoes
<1> QED BY <1>2, <1>3, <1>4, FailsKeeps DEF Requesting

LEMMA ReceiveKeeps ==
    ASSUME LinkInv, NEW b \in Tab, Receive(b)
    PROVE  LinkInv'
<1>1. Shape /\ Given /\ Bridged(b) /\ Apart /\ Matched /\ Once /\ Streaming(b)
  BY DEF LinkInv, Bridges, Streams
<1>2. tab[b].pc = "wait" /\ tab[b].on \in Conn
  <2>1. tab[b] \in Bridge /\ tab[b].pc = "wait"
    BY <1>1 DEF Shape, Receive
  <2> QED BY <1>1, <2>1 DEF Bridged, Bridge
<1>3. PICK k \in Conn : k = tab[b].on
  BY <1>2
<1>4. /\ Tabs(b, k)
      /\ \/ tab[b].ch = "ok" /\ Succeeds(b)
         \/ tab[b].ch = "refused" /\ Fails(b, {"refused"})
         \/ tab[b].ch = "closed" /\ Fails(b, {})
  BY <1>1, <1>2, <1>3, ReceiveDoes
<1>5. Requesting(b) /\ k # 0
  BY <1>2, ConnIs DEF Requesting
<1>6. CASE tab[b].ch = "refused" /\ Fails(b, {"refused"})
  BY <1>2, <1>3, <1>4, <1>5, <1>6, FailsKeeps
<1>7. CASE tab[b].ch = "closed" /\ Fails(b, {})
  <2>1. conn[k].closed
    BY <1>1, <1>3, <1>7 DEF Bridged
  <2> QED BY <1>3, <1>4, <1>5, <1>7, <2>1, FailsKeeps
<1>8. CASE tab[b].ch = "ok" /\ Succeeds(b)
  <2>1. /\ There(b) /\ UNCHANGED <<conn, down>> /\ Key(b)' = Key(b)
        /\ tab'[b].pc = (IF tab[b].op = "close" THEN "left" ELSE "idle")
        /\ tab'[b].id = 0 /\ tab'[b].ch = "empty"
        /\ tab'[b].mine = tab[b].mine /\ tab'[b].faults = tab[b].faults
        /\ tab'[b].told = IF tab[b].op # "subscribe" THEN "off"
                          ELSE IF tab[b].told = "asked" THEN "on" ELSE tab[b].told
    BY <1>8 DEF Succeeds, There, Key
  <2>2. tab'[b].on = k /\ tab'[b].prefix = tab[b].prefix
    BY <1>3, <2>1 DEF There
  <2>3. /\ tab[b].prefix \in 1 .. conn[k].seq /\ (tab[b].mine <=> tab[b].op = "subscribe")
        /\ tab[b].op = "subscribe" => tab[b].told \in {"asked", "error"}
        /\ tab[b].op # "subscribe" => tab[b].told = "off"
    BY <1>1, <1>3, <1>5 DEF Bridged
  <2>4. conn[k].seq \in Nat /\ conn[k].pending \subseteq 1 .. conn[k].seq /\ 0 \notin Replied(k)
    BY OwnNumbers
  <2>5. tab'[b].told \in {"off", "on", "error"} /\ tab'[b].pc \in {"left", "idle"}
    BY <2>1, <2>3
  <2>6. tab'[b].told = "on" => tab'[b].pc = "idle"
    BY <2>1
  <2>7. tab'[b].told = "off" => ~tab'[b].mine
    BY <2>1, <2>3
  <2>8. Bridged(b)'
    BY <1>5, <2>1, <2>2, <2>3, <2>5, <2>6, <2>7 DEF Bridged, Requesting
  <2>9. /\ \A s \in conn'[k].sinks :
               \/ s \in conn[k].sinks /\ s.tab # b
               \/ s.tab = b /\ s.key = Key(b)' /\ tab'[b].mine /\ ~conn[k].closed
        /\ \A s \in conn[k].sinks : s.tab # b => s \in conn'[k].sinks
    <3>1. \A s \in conn[k].sinks : ~conn[k].closed
      BY <1>1 DEF Given
    <3> QED BY <1>3, <2>1, <3>1, OwnSinks
  <2>10. Good(b)' => Good(b)
    BY <1>1, <1>4, <1>5, <2>1, <2>2, <1>3, TabsGood DEF Good
  <2>11. ASSUME NEW r \in Asks(k) PROVE r.id # 0 /\ ~(r.key = Key(b) /\ Good(b)')
    <3>1. r.id # 0
      BY OwnNumbers
    <3>2. ASSUME r.key = Key(b), Good(b)' PROVE FALSE
      <4>1. r.id = tab[b].id
        BY <1>1, <1>3, <1>5, <2>10, <3>2 DEF Matched
      <4> QED BY <1>1, <1>3, <1>8, <4>1 DEF Once
    <3> QED BY <3>1, <3>2
  <2>12. \A c \in Tab : c # b /\ tab[c].on = k => tab[c].prefix # tab[b].prefix
    BY <1>1, <1>3, <1>5 DEF Apart
  <2>13. Streaming(b)'
    <3>1. ~Done(b)'
      BY <2>1 DEF Done
    <3>2. Done(b)
      <4>1. tab[b].id # 0
        BY <1>1, <1>8 DEF Bridged
      <4> QED BY <1>8, <4>1 DEF Done
    <3>3. UNCHANGED <<conn, up, subs, polls>>
      BY <1>4, <2>1 DEF Tabs, agent
    <3>4. PollsOf(b)' = PollsOf(b)
      BY <2>1, <2>2, <1>3, <3>3 DEF PollsOf
    <3>5. (One(b) => One(b)') /\ (Failing(b) => Failing(b)') /\ (HasSink(b) => HasSink(b)')
      BY <1>3, <2>1, <2>2, <3>3, <3>4 DEF One, Failing, HasSink
    <3>6. CASE tab[b].op = "subscribe"
      BY <1>1, <2>1, <2>3, <2>10, <3>1, <3>2, <3>5, <3>6 DEF Streaming
    <3>7. CASE tab[b].op # "subscribe"
      BY <1>1, <2>1, <2>3, <2>10, <3>1, <3>2, <3>4, <3>7 DEF Streaming
    <3> QED BY <3>6, <3>7
  <2> QED BY <1>3, <1>4, <2>1, <2>2, <2>3, <2>4, <2>8, <2>9, <2>11, <2>12, <2>13, TabsKeep
<1> QED BY <1>4, <1>6, <1>7, <1>8

LEMMA CallKeeps ==
    ASSUME LinkInv, NEW b \in Tab, Call(b)
    PROVE  LinkInv'
<1>1. Shape /\ Given /\ Bridged(b) /\ Apart /\ Matched /\ Streaming(b)
  BY DEF LinkInv, Bridges, Streams
<1>2. tab[b].pc = "call" /\ tab[b].on \in Conn
  <2>1. tab[b] \in Bridge /\ tab[b].pc = "call"
    BY <1>1 DEF Shape, Call
  <2> QED BY <1>1, <2>1 DEF Bridged, Bridge
<1>3. PICK k \in Conn : k = tab[b].on
  BY <1>2
<1>4. Tabs(b, k) /\ ((conn[k].closed /\ Fails(b, {})) \/ Numbers(b))
  BY <1>1, <1>2, <1>3, CallDoes
<1>5. Requesting(b) /\ k # 0
  BY <1>2, ConnIs DEF Requesting
<1>6. CASE conn[k].closed /\ Fails(b, {})
  BY <1>3, <1>4, <1>5, <1>6, FailsKeeps
<1>7. CASE Numbers(b)
  <2>1. PICK n \in Nat : n = conn[k].seq
    BY OwnNumbers
  <2>2. /\ There(b) /\ UNCHANGED down /\ Key(b)' = Key(b)
        /\ tab'[b].pc = "write" /\ tab'[b].id = n + 1 /\ tab'[b].op = tab[b].op
        /\ tab'[b].ch = tab[b].ch /\ tab'[b].mine = tab[b].mine /\ tab'[b].told = tab[b].told
        /\ tab'[b].faults = tab[b].faults
        /\ conn'[k].seq = n + 1 /\ conn'[k].sinks = conn[k].sinks
        /\ conn'[k].pending = conn[k].pending \cup {n + 1}
    BY <1>3, <1>7, <2>1 DEF Numbers, There, Key
  <2>3. tab'[b].on = k /\ tab'[b].prefix = tab[b].prefix
    BY <1>3, <2>2 DEF There
  <2>4. /\ n + 1 \in Nat /\ n + 1 \notin 1 .. n /\ n + 1 \in 1 .. (n + 1) /\ n <= n + 1
        /\ 1 .. n \subseteq 1 .. (n + 1) /\ n + 1 # 0
    BY <2>1
  <2>5. tab[b].id = 0 /\ tab[b].ch = "empty" /\ tab[b].prefix \in 1 .. n
    BY <1>1, <1>2, <1>3, <1>5, <2>1 DEF Bridged
  <2>6. Bridged(b)'
    <3>1. tab[b].told # "on"
      BY <1>1, <1>2 DEF Bridged
    <3>2. Requesting(b)' /\ tab'[b].pc # "new" /\ tab'[b].on # 0 /\ tab'[b].prefix \in 1 .. conn'[tab'[b].on].seq
      BY <1>5, <2>2, <2>3, <2>4, <2>5 DEF Requesting
    <3> QED BY <1>1, <1>5, <2>2, <2>3, <2>4, <2>5, <3>1, <3>2 DEF Bridged
  <2>7. conn'[k].pending \subseteq 1 .. conn'[k].seq
    BY <2>1, <2>2, <2>4, OwnNumbers
  <2>8. /\ \A s \in conn'[k].sinks :
               \/ s \in conn[k].sinks /\ s.tab # b
               \/ s.tab = b /\ s.key = Key(b)' /\ tab'[b].mine /\ ~conn[k].closed
        /\ \A s \in conn[k].sinks : s.tab # b => s \in conn'[k].sinks
    <3>1. \A s \in conn[k].sinks : ~conn[k].closed
      BY <1>1 DEF Given
    <3> QED BY <1>3, <2>2, <3>1, OwnSinks
  <2>9. Good(b)' => Good(b)
    BY <1>1, <1>3, <1>4, <1>5, <2>2, <2>3, TabsGood DEF Good
  <2>10. ASSUME NEW r \in Asks(k) PROVE r.id # n + 1 /\ ~(r.key = Key(b) /\ Good(b)')
    <3>1. r.id \in 1 .. n /\ r.id # 0
      BY <2>1, OwnNumbers
    <3>2. ~(r.key = Key(b) /\ Good(b))
      BY <1>1, <1>3, <1>5, <2>5, <3>1 DEF Matched
    <3> QED BY <2>4, <2>9, <3>1, <3>2
  <2>11. n + 1 \notin Replied(k)
    BY <2>1, <2>4, OwnNumbers
  <2>12. ASSUME NEW c \in Tab, c # b, tab[c].on = k
         PROVE  tab[c].prefix # tab[b].prefix /\ (tab[c].id = n + 1 => tab[c].id = 0)
    <3>1. tab[c].prefix # tab[b].prefix
      BY <1>1, <1>3, <1>5, <2>12 DEF Apart
    <3>2. tab[c].id = 0 \/ tab[c].id \in 1 .. n
      BY <2>1, <2>12, OwnNumbers
    <3> QED BY <2>4, <3>1, <3>2
  <2>13. Streaming(b)'
    <3>1. ~Done(b)'
      BY <1>4, <2>2, <2>3, <2>5, <2>10, <2>11, NotDone
    <3>2. tab[b].told # "on"
      BY <1>1, <1>2 DEF Bridged
    <3>3. HasSink(b) => HasSink(b)'
      BY <1>3, <2>2, <2>3 DEF HasSink
    <3> QED BY <1>1, <2>2, <2>9, <3>1, <3>2, <3>3 DEF Streaming
  <2> QED BY <1>3, <1>4, <2>1, <2>2, <2>3, <2>4, <2>5, <2>6, <2>7, <2>8, <2>10, <2>11, <2>12, <2>13, TabsKeep, SMTT(30)
<1> QED BY <1>4, <1>6, <1>7

LEMMA WriteKeeps ==
    ASSUME LinkInv, NEW b \in Tab, Write(b)
    PROVE  LinkInv'
<1>1. /\ Shape /\ Dialled /\ Bridges /\ Given /\ Bridged(b) /\ Apart /\ Matched /\ Once /\ Polling
      /\ Streams /\ Streaming(b)
  BY DEF LinkInv, Bridges, Streams
<1>2. tab[b].pc = "write" /\ tab[b].on \in Conn
  <2>1. tab[b] \in Bridge /\ tab[b].pc = "write"
    BY <1>1 DEF Shape, Write
  <2> QED BY <1>1, <2>1 DEF Bridged, Bridge
<1>3. PICK k \in Conn : k = tab[b].on
  BY <1>2
<1>4. Requesting(b) /\ k # 0 /\ tab[b].op # "none"
  BY <1>1, <1>2, ConnIs DEF Requesting, Bridged
<1>5. Tabs(b, k) /\ ((conn[k].closed /\ Fails(b, {})) \/ Writes(b))
  BY <1>1, <1>2, <1>3, <1>4, WriteDoes
<1>6. CASE conn[k].closed /\ Fails(b, {})
  BY <1>3, <1>4, <1>5, <1>6, FailsKeeps
<1>7. CASE Writes(b)
  <2>1. /\ There(b) /\ UNCHANGED conn /\ Key(b)' = Key(b) /\ tab'[b].on = k /\ tab'[b].prefix = tab[b].prefix
        /\ tab'[b].pc = "wait" /\ tab'[b].id = tab[b].id /\ tab'[b].op = tab[b].op
        /\ tab'[b].ch = tab[b].ch /\ tab'[b].mine = tab[b].mine /\ tab'[b].told = tab[b].told
        /\ tab'[b].faults = tab[b].faults
    BY <1>3, <1>7 DEF Writes, There, Key
  <2>2. PICK q : q = Asking(b)
    OBVIOUS
  <2>3. /\ q.on = k /\ q.id = tab[b].id /\ q.op = tab[b].op /\ q.key = Key(b)
        /\ q.id \in 1 .. conn[k].seq /\ q.key \in 1 .. conn[k].seq /\ q.id # 0
    <3>1. tab[b].id \in 1 .. conn[k].seq /\ tab[b].prefix \in 1 .. conn[k].seq /\ conn[k].seq \in Nat
      BY <1>1, <1>2, <1>3, <1>4, OwnNumbers DEF Bridged
    <3> QED BY <1>3, <2>2, <3>1 DEF Asking, Key
  <2>4. tab[b].ch \in {"empty", "closed"} /\ tab[b].told # "on"
    BY <1>1, <1>2 DEF Bridged
  <2>5. /\ \A r \in Asks(k) : r.id # q.id
        /\ q.id \notin Replied(k)
    BY <1>1, <1>2, <1>3, <1>4, <2>3 DEF Matched
  <2>6. Good(b)' => Good(b)
    BY <1>1, <1>3, <1>5, <1>4, <2>1, TabsGood DEF Good
  <2>7. Dialled' /\ Polling'
    BY <1>1, <1>5, <2>1, <1>3, TabsDialled, TabsPolling
  <2>8. Bridges'
    <3>1. Bridged(b)'
      BY <1>1, <1>2, <1>3, <1>4, <2>1 DEF Bridged, Requesting
    <3>2. conn[k].seq <= conn'[k].seq
      BY <2>1, OwnNumbers
    <3> QED BY <1>1, <1>5, <3>1, <3>2, TabsBridges
  <2>9. Apart'
    BY <1>1, <1>3, <1>4, <1>5, <2>1, TabsApart DEF Apart
  <2>10. Streams'
    <3>1. UNCHANGED <<conn, up, hand, handler, subs, polls>>
      BY <1>5, <2>1 DEF Tabs, agent
    <3>2. PollsOf(b)' = PollsOf(b)
      BY <1>3, <2>1, <3>1 DEF PollsOf
    <3>3. /\ (One(b) => One(b)') /\ (Failing(b) => Failing(b)') /\ (HasSink(b) => HasSink(b)')
          /\ (Done(b)' => Done(b))
      BY <1>3, <2>1, <3>1, <3>2 DEF One, Failing, HasSink, Done, InUp
    <3>4. Streaming(b)'
      BY <1>1, <2>1, <2>4, <2>6, <3>2, <3>3 DEF Streaming
    <3> QED BY <1>1, <1>5, <3>1, <3>4, TabsStreams
  <2>11. CASE UNCHANGED down
    <3>1. Shape'
      <4>1. down' \in [Conn -> Seq(Request)]
        BY <1>1, <2>11 DEF Shape
      <4> QED BY <1>1, <1>5, <4>1, TabsShape
    <3>2. \A j \in Conn : Asks(j)' = Asks(j)
      BY <1>5, <2>11, TabsTokens
    <3>3. /\ conn[k].seq <= conn'[k].seq /\ conn'[k].pending \subseteq 1 .. conn'[k].seq
          /\ \A s \in conn'[k].sinks :
               \/ s \in conn[k].sinks /\ s.tab # b
               \/ s.tab = b /\ s.key = Key(b)' /\ tab'[b].mine /\ ~conn[k].closed
      <4>1. \A s \in conn[k].sinks : ~conn[k].closed
        BY <1>1 DEF Given
      <4> QED BY <1>3, <2>1, <4>1, OwnSinks, OwnNumbers
    <3>4. Given'
      BY <1>1, <1>3, <1>5, <2>1, <3>2, <3>3, TabsGiven
    <3>5. Once'
      BY <1>1, <1>5, <2>1, <2>4, <2>11, TabsOnce
    <3>6. Matched'
      <4>1. \A r \in Asks(k) : r.key = Key(b)' /\ Good(b)' => r.id = tab'[b].id
        BY <1>1, <1>3, <1>4, <2>1, <2>6 DEF Matched
      <4> QED BY <1>1, <1>5, <2>1, <2>3, <2>5, <2>11, <4>1, TabsMatched
    <3> QED BY <2>7, <2>8, <2>9, <2>10, <3>1, <3>4, <3>5, <3>6 DEF LinkInv
  <2>12. CASE /\ down' \in [Conn -> Seq(Request)] /\ down'[k] = Append(down[k], q) /\ q \in Request
              /\ \A j \in Conn : j # k => down'[j] = down[j]
    <3>1. Shape'
      BY <1>1, <1>5, <2>12, TabsShape
    <3>2. down[k] \in Seq(Request)
      BY <1>1 DEF Shape
    <3>3. PICK d : d = Append(down[k], q)
      OBVIOUS
    <3>4. /\ Len(d) = Len(down[k]) + 1 /\ d[Len(d)] = q
          /\ \A i \in 1 .. Len(d) : (i \in 1 .. Len(down[k]) /\ d[i] = down[k][i]) \/ i = Len(d)
          /\ {d[i] : i \in 1 .. Len(d)} = {down[k][i] : i \in 1 .. Len(down[k])} \cup {q}
      <4>1. Len(d) = Len(down[k]) + 1 /\ d[Len(d)] = q
        BY <2>12, <3>2, <3>3, AppendIs
      <4>2. \A i \in 1 .. Len(d) : (i \in 1 .. Len(down[k]) /\ d[i] = down[k][i]) \/ i = Len(d)
        BY <2>12, <3>2, <3>3, AppendIs
      <4>3. {d[i] : i \in 1 .. Len(d)} = {down[k][i] : i \in 1 .. Len(down[k])} \cup {q}
        BY <2>12, <3>2, <3>3, AppendIs
      <4> QED BY <4>1, <4>2, <4>3
    <3>5. /\ InDown(k)' = InDown(k) \cup {q}
          /\ \A j \in Conn : /\ j # k => InDown(j)' = InDown(j) /\ Asks(j)' = Asks(j)
                             /\ InHandler(j)' = InHandler(j) /\ Replied(j)' = Replied(j)
      BY <1>5, <2>12, <3>3, <3>4, TabsTokens DEF InDown
    <3>6. Asks(k)' = Asks(k) \cup {q}
      BY <3>5 DEF Asks
    <3>7. Given'
      <4>1. /\ conn[k].seq <= conn'[k].seq /\ conn'[k].pending \subseteq 1 .. conn'[k].seq
            /\ \A s \in conn'[k].sinks :
                 \/ s \in conn[k].sinks /\ s.tab # b
                 \/ s.tab = b /\ s.key = Key(b)' /\ tab'[b].mine /\ ~conn[k].closed
        <5>1. \A s \in conn[k].sinks : ~conn[k].closed
          BY <1>1 DEF Given
        <5> QED BY <1>3, <2>1, <5>1, OwnSinks, OwnNumbers
      <4>2. \A j \in Conn : \A r \in Asks(j)' :
               r \in Asks(j) \/ (j = k /\ r.on = k /\ r.id \in 1 .. conn'[k].seq /\ r.key \in 1 .. conn'[k].seq)
        BY <2>1, <2>3, <3>5, <3>6
      <4> QED BY <1>1, <1>3, <1>5, <2>1, <4>1, <4>2, TabsGiven
    <3>8. Once'
      <4> SUFFICES ASSUME NEW j \in Conn
                   PROVE  /\ \A i, l \in 1 .. Len(down'[j]) : i # l => down'[j][i].id # down'[j][l].id
                          /\ \A r \in InDown(j)', s \in InHandler(j)' : r.id # s.id
                          /\ \A g, h \in handler' :
                                g.req.on = j /\ h.req.on = j /\ g.req.id = h.req.id => g = h
                          /\ \A r \in Asks(j)' : r.id \notin Replied(j)'
                          /\ \A r \in Asks(j)', c \in Tab :
                                tab'[c].on = j /\ tab'[c].id = r.id => tab'[c].ch \notin {"ok", "refused"}
        BY DEF Once
      <4>1. handler' = handler /\ \A c \in Tab : c # b => tab'[c] = tab[c]
        BY <1>5 DEF Tabs, agent
      <4>2. CASE j # k
        <5>1. down'[j] = down[j] /\ InDown(j)' = InDown(j) /\ Asks(j)' = Asks(j)
              /\ InHandler(j)' = InHandler(j) /\ Replied(j)' = Replied(j)
          BY <2>12, <3>5, <4>2
        <5> QED BY <1>1, <2>1, <2>4, <4>1, <5>1 DEF Once
      <4>3. CASE j = k
        <5>1. \A r \in InDown(k) : r \in Asks(k)
          BY DEF Asks
        <5>2. \A r \in InHandler(k) : r \in Asks(k)
          BY DEF Asks
        <5>3. ASSUME NEW i \in 1 .. Len(d), NEW l \in 1 .. Len(d), i # l
              PROVE  d[i].id # d[l].id
          <6>1. \A m \in 1 .. Len(down[k]) : down[k][m].id # q.id
            BY <2>5, <5>1 DEF InDown
          <6> QED BY <1>1, <3>4, <5>3, <6>1 DEF Once
        <5>4. \A r \in InDown(k)', s \in InHandler(k)' : r.id # s.id
          BY <1>1, <2>5, <3>5, <5>2 DEF Once
        <5>5. \A r \in Asks(k)' : r.id \notin Replied(k)'
          BY <1>1, <2>5, <3>5, <3>6 DEF Once
        <5>6. ASSUME NEW r \in Asks(k)', NEW c \in Tab, tab'[c].on = k, tab'[c].id = r.id
              PROVE  tab'[c].ch \notin {"ok", "refused"}
          <6>1. CASE c = b
            BY <2>1, <2>4, <6>1
          <6>2. CASE c # b /\ r = q
            <7>1. tab[c].on = k /\ tab[c].id = tab[b].id /\ tab[b].id # 0
              BY <2>3, <4>1, <5>6, <6>2
            <7> QED BY <1>1, <1>3, <1>4, <6>2, <7>1 DEF Apart
          <6>3. CASE c # b /\ r \in Asks(k)
            BY <1>1, <4>1, <5>6, <6>3 DEF Once
          <6> QED BY <3>6, <6>1, <6>2, <6>3
        <5>7. \A g, h \in handler' :
                 g.req.on = k /\ h.req.on = k /\ g.req.id = h.req.id => g = h
          BY <1>1, <4>1 DEF Once
        <5>8. \A i, l \in 1 .. Len(down'[k]) : i # l => down'[k][i].id # down'[k][l].id
          BY <2>12, <3>3, <5>3
        <5> QED BY <4>3, <5>4, <5>5, <5>6, <5>7, <5>8
      <4> QED BY <4>2, <4>3
    <3>9. Matched'
      <4> SUFFICES ASSUME NEW c \in Tab, tab'[c].on # 0
                   PROVE  /\ \A r \in Asks(tab[c].on)' :
                                /\ r.id = tab'[c].id => /\ tab'[c].pc = "wait" /\ r.key = Key(c)'
                                                        /\ r.op = tab'[c].op
                                /\ r.key = Key(c)' /\ Good(c)' => r.id = tab'[c].id
                          /\ tab'[c].id \in Replied(tab[c].on)' => tab'[c].pc = "wait"
        BY DEF Matched
      <4>1. PICK j \in Conn : j = tab'[c].on
        BY <3>1 DEF Shape, Bridge
      <4>2. CASE c = b
        <5>1. \A r \in Asks(k) : r.key = Key(b) /\ Good(b)' => r.id = tab'[b].id
          BY <1>1, <1>3, <1>4, <2>1, <2>6 DEF Matched
        <5> QED BY <2>1, <2>3, <2>5, <3>6, <4>2, <5>1
      <4>3. CASE c # b
        <5>1. tab'[c] = tab[c] /\ Key(c)' = Key(c)
          BY <1>5, <4>3 DEF Tabs, Key
        <5>2. Good(c)' => Good(c)
          BY <1>1, <1>5, <5>1, TabsGood, ConnIs DEF Good
        <5>3. /\ \A r \in Asks(j) :
                    /\ r.id = tab[c].id => tab[c].pc = "wait" /\ r.key = Key(c) /\ r.op = tab[c].op
                    /\ r.key = Key(c) /\ Good(c) => r.id = tab[c].id
              /\ tab[c].id \in Replied(j) => tab[c].pc = "wait"
          BY <1>1, <4>1, <5>1, ConnIs DEF Matched
        <5>4. j = k => q.key # Key(c) /\ q.id # tab[c].id
          BY <1>1, <1>3, <1>4, <2>3, <4>1, <4>3, <5>1 DEF Apart, Key
        <5>5. \A r \in Asks(j)' : r \in Asks(j) \/ (j = k /\ r = q)
          BY <3>5, <3>6
        <5>6. Replied(j)' = Replied(j)
          BY <3>5
        <5>7. \A r \in Asks(j)' :
                    /\ r.id = tab'[c].id => tab'[c].pc = "wait" /\ r.key = Key(c)' /\ r.op = tab'[c].op
                    /\ r.key = Key(c)' /\ Good(c)' => r.id = tab'[c].id
          BY <5>1, <5>2, <5>3, <5>4, <5>5
        <5> QED BY <4>1, <5>1, <5>3, <5>6, <5>7
      <4> QED BY <4>2, <4>3
    <3> QED BY <2>7, <2>8, <2>9, <2>10, <3>1, <3>7, <3>8, <3>9 DEF LinkInv
  <2> QED BY <1>3, <1>7, <2>2, <2>11, <2>12 DEF Writes
<1> QED BY <1>5, <1>6, <1>7
-----------------------------------------------------------------------------
(* The read loop's steps.                                                     *)

LEMMA HubsFrame ==
    ASSUME Shape, Dialled, Apart, Polling, NEW k \in Conn, Hubs(k)
    PROVE  /\ Shape' /\ Dialled' /\ Apart' /\ Polling'
           /\ \A j \in Conn : InDown(j)' = InDown(j) /\ InHandler(j)' = InHandler(j) /\ Asks(j)' = Asks(j)
           /\ \A b \in Tab : (Good(b)' <=> Good(b)) /\ Key(b)' = Key(b) /\ tab'[b].on = tab[b].on
<1>1. UNCHANGED <<registered, down, handler, subs, polls, started>>
  BY DEF Hubs, agent
<1>2. Shape'
  BY <1>1 DEF Shape, Hubs
<1>3. \A j \in Conn : /\ conn'[j].agent = conn[j].agent /\ conn'[j].hub = conn[j].hub
                      /\ conn'[j].broken = conn[j].broken /\ conn'[j].closed = conn[j].closed
  BY DEF Hubs
<1>4. \A b \in Tab : /\ tab'[b].on = tab[b].on /\ tab'[b].prefix = tab[b].prefix
                     /\ tab'[b].id = tab[b].id /\ tab'[b].faults = tab[b].faults
                     /\ tab[b].on \in Conn \cup {0}
  BY DEF Hubs, There, Shape, Bridge
<1>5. Dialled'
  BY <1>1, <1>3, <1>4, ZenonT(40) DEF Dialled, Shape
<1>6. Apart'
  BY <1>4 DEF Apart
<1>7. Polling'
  BY <1>1 DEF Polling
<1>8. \A j \in Conn : InDown(j)' = InDown(j) /\ InHandler(j)' = InHandler(j)
  BY <1>1 DEF InDown, InHandler
<1>9. \A j \in Conn : Asks(j)' = Asks(j)
  BY <1>8 DEF Asks
<1>10. \A b \in Tab : tab[b].on # 0 => (Serving(tab[b].on)' <=> Serving(tab[b].on))
  <2> TAKE b \in Tab
  <2> HAVE tab[b].on # 0
  <2>1. PICK j \in Conn : j = tab[b].on
    BY <1>4
  <2> QED BY <1>3, <1>4, <2>1 DEF Serving, Dead
<1>11. \A b \in Tab : (Good(b)' <=> Good(b)) /\ Key(b)' = Key(b)
  BY <1>4, <1>10 DEF Good, Key
<1> QED BY <1>2, <1>4, <1>5, <1>6, <1>7, <1>8, <1>9, <1>11

\* No reply comes to be under way.
LEMMA HubsRest ==
    ASSUME Shape, Dialled, Apart, Polling, Given, Once, Matched, NEW k \in Conn, Hubs(k),
           \A j \in Conn : Replied(j)' \subseteq Replied(j),
           hand'[k].id # 0 \/ hand'[k] = NoReply,
           \A b \in Tab : tab'[b].ch = tab[b].ch \/ (tab[b].on = k /\ tab[b].id \in Replied(k))
    PROVE  Given' /\ Once' /\ Matched'
<1>1. /\ \A j \in Conn : InDown(j)' = InDown(j) /\ InHandler(j)' = InHandler(j) /\ Asks(j)' = Asks(j)
      /\ \A b \in Tab : (Good(b)' <=> Good(b)) /\ Key(b)' = Key(b) /\ tab'[b].on = tab[b].on
  BY HubsFrame
<1>2. /\ UNCHANGED <<down, handler, polls>>
      /\ \A j \in Conn : /\ conn'[j].seq = conn[j].seq /\ conn'[j].closed = conn[j].closed
                         /\ conn'[j].pending \subseteq conn[j].pending
                         /\ conn'[j].sinks \subseteq conn[j].sinks /\ (j # k => hand'[j] = hand[j])
      /\ \A b \in Tab : /\ tab'[b].id = tab[b].id /\ tab'[b].mine = tab[b].mine
                        /\ tab'[b].pc = tab[b].pc /\ tab'[b].op = tab[b].op
  BY DEF Hubs, agent
<1>3. \A j \in Conn : \A s \in conn[j].sinks : s.tab \in Tab
  BY DEF Shape, Link, Sink
<1>4. Given'
  BY <1>1, <1>2, <1>3 DEF Given
<1>5. Once'
  <2>1. \A j \in Conn : \A r \in Asks(j)', c \in Tab :
           tab'[c].on = j /\ tab'[c].id = r.id => tab'[c].ch \notin {"ok", "refused"}
    BY <1>1, <1>2 DEF Once
  <2> QED BY <1>1, <1>2, <2>1 DEF Once
<1>6. Matched'
  <2> SUFFICES ASSUME NEW b \in Tab, tab'[b].on # 0
               PROVE  /\ \A r \in Asks(tab[b].on)' :
                            /\ r.id = tab'[b].id => /\ tab'[b].pc = "wait" /\ r.key = Key(b)'
                                                    /\ r.op = tab'[b].op
                            /\ r.key = Key(b)' /\ Good(b)' => r.id = tab'[b].id
                      /\ tab'[b].id \in Replied(tab[b].on)' => tab'[b].pc = "wait"
    BY DEF Matched
  <2>1. PICK j \in Conn : j = tab[b].on
    BY <1>1 DEF Shape, Bridge
  <2>2. Asks(j)' = Asks(j) /\ Replied(j)' \subseteq Replied(j) /\ j # 0 /\ tab'[b].on = j
    BY <1>1, <2>1, ConnIs
  <2> QED BY <1>1, <1>2, <2>1, <2>2 DEF Matched
<1> QED BY <1>4, <1>5, <1>6

LEMMA HubsBridges ==
    ASSUME Shape, Bridges, NEW k \in Conn, Hubs(k),
           \A b \in Tab : tab'[b].told = tab[b].told \/ (tab'[b].told = "error" /\ tab[b].mine),
           \A b \in Tab : \/ tab'[b].ch = tab[b].ch
                          \/ /\ tab'[b].ch \in {"ok", "refused"} /\ tab[b].pc = "wait"
                             /\ tab[b].id # 0
    PROVE  Bridges'
<1>1. \A j \in Conn : conn'[j].seq = conn[j].seq /\ conn'[j].closed = conn[j].closed
  BY DEF Hubs
<1> SUFFICES ASSUME NEW b \in Tab PROVE Bridged(b)'
  BY DEF Bridges
<1>2. Bridged(b)
  BY DEF Bridges
<1>3. /\ tab'[b].pc = tab[b].pc /\ tab'[b].id = tab[b].id /\ tab'[b].on = tab[b].on
      /\ tab'[b].op = tab[b].op /\ tab'[b].mine = tab[b].mine /\ tab'[b].prefix = tab[b].prefix
  BY DEF Hubs, There
<1>4. CASE tab[b].on = 0
  <2>1. tab[b].pc = "new" /\ tab[b].id = 0 /\ tab[b].ch = "empty"
    BY <1>2, <1>4 DEF Bridged
  <2> QED BY <1>2, <1>3, <1>4, <2>1 DEF Bridged, Requesting
<1>5. CASE tab[b].on # 0
  <2>1. PICK j \in Conn : j = tab[b].on
    BY <1>5 DEF Shape, Bridge
  <2>2. /\ tab'[b].told = "on" => tab'[b].pc = "idle"
        /\ tab'[b].told = "asked" => Requesting(b)'
        /\ tab'[b].told = "off" => ~tab'[b].mine
    BY <1>2, <1>3 DEF Bridged, Requesting
  <2>3. Requesting(b)' => /\ tab'[b].op # "none"
                          /\ tab'[b].mine <=> tab'[b].op = "subscribe"
                          /\ tab'[b].op = "subscribe" => tab'[b].told \in {"asked", "error"}
                          /\ tab'[b].op # "subscribe" => tab'[b].told = "off"
    BY <1>2, <1>3 DEF Bridged, Requesting
  <2>4. /\ tab'[b].pc # "wait" => tab'[b].ch \in {"empty", "closed"}
        /\ tab'[b].ch # "empty" => tab'[b].id # 0
        /\ tab'[b].ch = "closed" => conn'[tab'[b].on].closed
    BY <1>1, <1>2, <1>3, <2>1 DEF Bridged
  <2> QED BY <1>1, <1>2, <1>3, <2>1, <2>2, <2>3, <2>4 DEF Bridged
<1> QED BY <1>4, <1>5

LEMMA HubsStreams ==
    ASSUME Shape, Dialled, Apart, Polling, Streams, NEW k \in Conn, Hubs(k),
           \A b \in Tab : Good(b) =>
               /\ Done(b)' => Done(b)
               /\ \/ tab'[b].told = "error"
                  \/ /\ tab'[b].told = tab[b].told
                     /\ tab[b].told \in {"asked", "on"} =>
                            (HasSink(b) => HasSink(b)') /\ (Failing(b) => Failing(b)')
    PROVE  Streams'
<1> SUFFICES ASSUME NEW b \in Tab, Good(b)'
             PROVE  /\ tab'[b].told \in {"asked", "on"} => HasSink(b)'
                    /\ tab'[b].told = "on" \/ (tab'[b].told = "asked" /\ Done(b)')
                           => Failing(b)' \/ One(b)'
                    /\ tab'[b].faults = {} /\ ~tab'[b].mine
                           /\ (tab'[b].pc \in {"idle", "left"} \/ Done(b)')
                           => PollsOf(b)' = {}
  BY DEF Streams, Streaming
<1>1. Streaming(b)
  BY DEF Streams
<1>2. Good(b) /\ Key(b)' = Key(b) /\ tab'[b].on = tab[b].on
  BY HubsFrame
<1>3. UNCHANGED <<polls, subs>>
  BY DEF Hubs, agent
<1>4. PollsOf(b)' = PollsOf(b)
  BY <1>2, <1>3 DEF PollsOf
<1>5. One(b) => One(b)'
  BY <1>2, <1>3, <1>4 DEF One
<1>6. tab'[b].pc = tab[b].pc /\ tab'[b].mine = tab[b].mine /\ tab'[b].faults = tab[b].faults
  BY DEF Hubs
<1> QED BY <1>1, <1>2, <1>4, <1>5, <1>6 DEF Streaming

LEMMA TakeReplyKeeps ==
    ASSUME LinkInv, NEW k \in Conn, TakeReply(k)
    PROVE  LinkInv'
<1>1. /\ Shape /\ Dialled /\ Bridges /\ Apart /\ Given /\ Once /\ Matched /\ Polling /\ Streams
  BY DEF LinkInv
<1>2. Hubs(k) /\ Takes(k) /\ hand[k] = NoReply
  BY <1>1, TakeReplyDoes
<1>3. PICK m \in InUp(k) : /\ m.kind = "reply" /\ InUp(k) = InUp(k)' \cup {m}
                           /\ \/ hand'[k] = NoReply
                              \/ hand'[k].id = m.id /\ hand'[k].ok = m.ok
  BY <1>2 DEF Takes
<1>4. \A j \in Conn : j # k => InUp(j)' = InUp(j) /\ hand'[j] = hand[j]
  BY <1>2 DEF InUp, Hubs
<1>5. m.id \in Replied(k) /\ m.id # 0
  <2>1. m.id \in Replied(k)
    BY <1>3 DEF Replied
  <2> QED BY <1>1, <2>1, OwnNumbers DEF LinkInv
<1>6. \A j \in Conn : Replied(j)' \subseteq Replied(j)
  <2> TAKE j \in Conn
  <2>1. CASE j # k
    BY <1>4, <2>1 DEF Replied
  <2>2. CASE j = k
    <3>1. hand'[k].id \in {0, m.id}
      BY <1>3 DEF NoReply
    <3> QED BY <1>3, <1>5, <2>2, <3>1 DEF Replied
  <2> QED BY <2>1, <2>2
<1>7. hand'[k].id # 0 \/ hand'[k] = NoReply
  BY <1>3, <1>5
<1>8. \A b \in Tab : tab'[b].ch = tab[b].ch /\ tab'[b].told = tab[b].told
  BY <1>2 DEF Takes
<1>9. Given' /\ Once' /\ Matched'
  BY <1>1, <1>2, <1>6, <1>7, <1>8, HubsRest
<1>10. /\ Shape' /\ Dialled' /\ Apart' /\ Polling'
       /\ \A b \in Tab : (Good(b)' <=> Good(b)) /\ Key(b)' = Key(b) /\ tab'[b].on = tab[b].on
  BY <1>1, <1>2, HubsFrame
<1>11. Bridges'
  BY <1>1, <1>2, <1>8, HubsBridges
<1>12. ASSUME NEW b \in Tab, Good(b)
       PROVE  /\ Done(b)' => Done(b)
              /\ HasSink(b) => HasSink(b)'
              /\ Failing(b) => Failing(b)'
  <2>1. PICK j \in Conn : j = tab[b].on
    BY <1>1, <1>12 DEF Good, Shape, Bridge
  <2>2. tab'[b].on = j /\ Key(b)' = Key(b) /\ tab'[b].id = tab[b].id /\ tab'[b].ch = tab[b].ch
    BY <1>2, <1>8, <1>10, <2>1 DEF Hubs
  <2>3. HasSink(b) => HasSink(b)'
    <3>1. conn'[j].sinks = conn[j].sinks
      BY <1>2 DEF Takes, Hubs
    <3> QED BY <2>1, <2>2, <3>1 DEF HasSink
  <2>4. Failing(b) => Failing(b)'
    <3>1. Failing(b) <=> \E n \in InUp(j) : n.kind = "paneError" /\ n.id = Key(b)
      BY <1>1, <2>1, FailingIs
    <3>2. Failing(b)' <=> \E n \in InUp(j)' : n.kind = "paneError" /\ n.id = Key(b)'
      BY <1>10, <2>2, FailingThen
    <3>3. \A n \in InUp(j) : n.kind = "paneError" => n \in InUp(j)'
      BY <1>3, <1>4
    <3> QED BY <2>2, <3>1, <3>2, <3>3
  <2>5. Done(b)' => Done(b)
    <3>1. InUp(j)' \subseteq InUp(j) /\ handler' = handler
      BY <1>2, <1>3, <1>4 DEF Hubs, agent
    <3>2. hand'[j].id = tab[b].id /\ hand'[j].ok /\ tab[b].id # 0 => Done(b)
      <4>1. CASE j # k
        BY <1>4, <2>1, <4>1 DEF Done
      <4>2. ASSUME j = k, hand'[j].id = tab[b].id, hand'[j].ok, tab[b].id # 0
            PROVE  Done(b)
        <5>1. hand'[k] # NoReply
          BY <4>2 DEF NoReply
        <5>2. m \in InUp(tab[b].on) /\ m.kind = "reply" /\ m.id = tab[b].id /\ m.ok
          BY <1>3, <2>1, <4>2, <5>1
        <5> QED BY <4>2, <5>2 DEF Done
      <4> QED BY <4>1, <4>2
    <3> QED BY <2>1, <2>2, <3>1, <3>2 DEF Done
  <2> QED BY <2>3, <2>4, <2>5
<1>13. Streams'
  BY <1>1, <1>2, <1>8, <1>12, HubsStreams
<1> QED BY <1>9, <1>10, <1>11, <1>13 DEF LinkInv

LEMMA PassReplyKeeps ==
    ASSUME LinkInv, NEW k \in Conn, PassReply(k)
    PROVE  LinkInv'
<1>1. /\ Shape /\ Dialled /\ Bridges /\ Apart /\ Given /\ Once /\ Matched /\ Polling /\ Streams
  BY DEF LinkInv
<1>2. Hubs(k) /\ Passes(k)
  BY <1>1, PassReplyDoes
<1>3. /\ UNCHANGED <<conn, up>> /\ hand[k] # NoReply /\ hand'[k] = NoReply
      /\ \A j \in Conn : j # k => hand'[j] = hand[j]
      /\ \A b \in Tab : /\ tab'[b].told = tab[b].told
                        /\ \/ tab'[b].ch = tab[b].ch
                           \/ /\ tab[b].on = k /\ tab[b].id = hand[k].id
                              /\ tab'[b].ch = IF hand[k].ok THEN "ok" ELSE "refused"
  BY <1>2 DEF Passes, Hubs
<1>4. hand[k].id # 0 /\ hand[k].id \in Replied(k)
  <2>1. hand[k].id # 0
    BY <1>1, <1>3 DEF Given
  <2> QED BY <2>1 DEF Replied
<1>5. \A j \in Conn : InUp(j)' = InUp(j) /\ Replied(j)' \subseteq Replied(j)
  <2> TAKE j \in Conn
  <2>1. InUp(j)' = InUp(j)
    BY <1>3 DEF InUp
  <2>2. hand'[j].id = hand[j].id \/ hand'[j].id = 0
    BY <1>3 DEF NoReply
  <2> QED BY <2>1, <2>2 DEF Replied
<1>6. Given' /\ Once' /\ Matched'
  BY <1>1, <1>2, <1>3, <1>4, <1>5, HubsRest
<1>7. /\ Shape' /\ Dialled' /\ Apart' /\ Polling'
      /\ \A b \in Tab : (Good(b)' <=> Good(b)) /\ Key(b)' = Key(b) /\ tab'[b].on = tab[b].on
  BY <1>1, <1>2, HubsFrame
<1>8. \A b \in Tab : tab[b].on = k /\ tab[b].id = hand[k].id => tab[b].pc = "wait"
  BY <1>1, <1>4, ConnIs DEF Matched
<1>9. Bridges'
  BY <1>1, <1>2, <1>3, <1>4, <1>8, HubsBridges
<1>10. ASSUME NEW b \in Tab, Good(b)
       PROVE  /\ Done(b)' => Done(b)
              /\ HasSink(b) => HasSink(b)'
              /\ Failing(b) => Failing(b)'
  <2>1. PICK j \in Conn : j = tab[b].on
    BY <1>1, <1>10 DEF Good, Shape, Bridge
  <2>2. tab'[b].on = j /\ Key(b)' = Key(b) /\ tab'[b].id = tab[b].id
    BY <1>2, <1>7, <2>1 DEF Hubs
  <2>3. (HasSink(b) => HasSink(b)') /\ (Failing(b) => Failing(b)')
    BY <1>3, <2>1, <2>2 DEF HasSink, Failing
  <2>4. ASSUME Done(b)' PROVE Done(b)
    <3>1. InUp(j)' = InUp(j) /\ handler' = handler
      BY <1>2, <1>5 DEF Hubs, agent
    <3>2. /\ tab[b].id # 0
          /\ \/ tab'[b].ch = "ok"
             \/ hand'[j].id = tab[b].id /\ hand'[j].ok
             \/ \E m \in InUp(j) : m.kind = "reply" /\ m.id = tab[b].id /\ m.ok
             \/ \E h \in handler : h.req.on = j /\ h.req.id = tab[b].id /\ h.pc = "ok"
      BY <2>2, <2>4, <3>1 DEF Done
    <3>3. CASE tab'[b].ch = "ok"
      <4>1. tab[b].ch = "ok" \/ (j = k /\ tab[b].id = hand[k].id /\ hand[k].ok)
        BY <1>3, <2>1, <3>3
      <4> QED BY <2>1, <3>2, <4>1 DEF Done
    <3>4. CASE hand'[j].id = tab[b].id /\ hand'[j].ok
      <4>1. hand'[j] = hand[j]
        BY <1>3, <3>2, <3>4 DEF NoReply
      <4> QED BY <2>1, <3>2, <3>4, <4>1 DEF Done
    <3> QED BY <2>1, <3>2, <3>3, <3>4 DEF Done
  <2> QED BY <2>3, <2>4
<1>11. Streams'
  BY <1>1, <1>2, <1>3, <1>10, HubsStreams
<1> QED BY <1>6, <1>7, <1>9, <1>11 DEF LinkInv

LEMMA PassPaneErrorKeeps ==
    ASSUME LinkInv, NEW k \in Conn, PassPaneError(k)
    PROVE  LinkInv'
<1>1. /\ Shape /\ Dialled /\ Bridges /\ Apart /\ Given /\ Once /\ Matched /\ Polling /\ Streams
  BY DEF LinkInv
<1>2. Hubs(k) /\ Tells(k)
  BY <1>1, PassPaneErrorDoes
<1>3. PICK m \in InUp(k) :
          /\ m.kind = "paneError" /\ InUp(k) = InUp(k)' \cup {m}
          /\ conn'[k].sinks = SinksWithout(k, m.id)
          /\ \A b \in Tab :
                /\ tab'[b].ch = tab[b].ch
                /\ IF [key |-> m.id, tab |-> b] \in conn[k].sinks THEN tab'[b].told = "error"
                   ELSE tab'[b].told = tab[b].told
  BY <1>2 DEF Tells
<1>4. hand' = hand /\ \A j \in Conn : j # k => InUp(j)' = InUp(j) /\ conn'[j] = conn[j]
  BY <1>2 DEF Tells, Hubs, InUp
<1>5. \A j \in Conn : /\ InUp(j)' \subseteq InUp(j)
                      /\ \A n \in InUp(j) : n \in InUp(j)' \/ (j = k /\ n = m)
  BY <1>3, <1>4
<1>6. \A j \in Conn : Replied(j)' \subseteq Replied(j)
  BY <1>4, <1>5 DEF Replied
<1>7. Given' /\ Once' /\ Matched'
  <2>1. hand'[k].id # 0 \/ hand'[k] = NoReply
    BY <1>1, <1>4 DEF Given
  <2> QED BY <1>1, <1>2, <1>3, <1>6, <2>1, HubsRest
<1>8. /\ Shape' /\ Dialled' /\ Apart' /\ Polling'
      /\ \A b \in Tab : (Good(b)' <=> Good(b)) /\ Key(b)' = Key(b) /\ tab'[b].on = tab[b].on
  BY <1>1, <1>2, HubsFrame
<1>9. \A b \in Tab : tab'[b].told = tab[b].told \/ (tab'[b].told = "error" /\ tab[b].mine)
  <2> TAKE b \in Tab
  <2>1. PICK s : s = [key |-> m.id, tab |-> b]
    OBVIOUS
  <2>2. s \in conn[k].sinks => tab[b].mine
    BY <1>1, <2>1 DEF Given
  <2> QED BY <1>3, <2>1, <2>2
<1>10. Bridges'
  BY <1>1, <1>2, <1>3, <1>9, HubsBridges
<1>11. ASSUME NEW b \in Tab, Good(b)
       PROVE  /\ Done(b)' => Done(b)
              /\ \/ tab'[b].told = "error"
                 \/ /\ tab'[b].told = tab[b].told
                    /\ tab[b].told \in {"asked", "on"} =>
                           (HasSink(b) => HasSink(b)') /\ (Failing(b) => Failing(b)')
  <2>1. PICK j \in Conn : j = tab[b].on
    BY <1>1, <1>11 DEF Good, Shape, Bridge
  <2>2. /\ tab'[b].on = j /\ Key(b)' = Key(b) /\ tab'[b].id = tab[b].id /\ tab'[b].ch = tab[b].ch
        /\ handler' = handler
    BY <1>2, <1>3, <1>8, <2>1 DEF Hubs, agent
  <2>3. Done(b)' => Done(b)
    BY <1>4, <1>5, <2>1, <2>2 DEF Done
  <2>4. CASE tab'[b].told = "error"
    BY <2>3, <2>4
  <2>5. CASE tab'[b].told # "error"
    <3>1. tab'[b].told = tab[b].told /\ [key |-> m.id, tab |-> b] \notin conn[k].sinks
      BY <1>3, <2>5
    <3>2. ASSUME tab[b].told \in {"asked", "on"} PROVE HasSink(b)' /\ (Failing(b) => Failing(b)')
      <4>1. HasSink(b)
        BY <1>1, <1>11, <3>2 DEF Streams, Streaming
      <4>2. [key |-> Key(b), tab |-> b] \in conn[j].sinks
        BY <2>1, <4>1 DEF HasSink
      <4>3. j = k => m.id # Key(b)
        BY <3>1, <4>2
      <4>4. [key |-> Key(b), tab |-> b] \in conn'[j].sinks
        BY <1>3, <1>4, <4>2, <4>3 DEF SinksWithout
      <4>5. HasSink(b)'
        BY <2>2, <4>4 DEF HasSink
      <4>6. Failing(b) => Failing(b)'
        <5>1. Failing(b) <=> \E n \in InUp(j) : n.kind = "paneError" /\ n.id = Key(b)
          BY <1>1, <2>1, FailingIs
        <5>2. Failing(b)' <=> \E n \in InUp(j)' : n.kind = "paneError" /\ n.id = Key(b)'
          BY <1>8, <2>2, FailingThen
        <5> QED BY <1>5, <2>2, <4>3, <5>1, <5>2
      <4> QED BY <4>5, <4>6
    <3> QED BY <2>3, <3>1, <3>2
  <2> QED BY <2>4, <2>5
<1>12. Streams'
  BY <1>1, <1>2, <1>11, HubsStreams
<1> QED BY <1>7, <1>8, <1>10, <1>12 DEF LinkInv
-----------------------------------------------------------------------------
(* The agent's steps.                                                         *)

LEMMA AgentsFrame ==
    ASSUME Agents, Dialled, Bridges, Apart
    PROVE  /\ Dialled' /\ Bridges' /\ Apart'
           /\ \A b \in Tab : /\ Good(b)' <=> Good(b)
                             /\ Key(b)' = Key(b) /\ (HasSink(b)' <=> HasSink(b))
<1>1. UNCHANGED <<conn, registered, tab>>
  BY DEF Agents
<1>2. \A b \in Tab : Bridged(b) => Bridged(b)'
  BY <1>1 DEF Bridged, Requesting
<1> QED BY <1>1, <1>2 DEF Dialled, Bridges, Apart, Good, Serving, Dead, Key, HasSink

\* No request comes to be under way, nor a reply that nobody waits for.
LEMMA AgentsRest ==
    ASSUME Agents, Given, Matched, \A j \in Conn : Asks(j)' \subseteq Asks(j),
           \A j \in Conn : \A i \in Replied(j)' :
               i \in Replied(j) \/ \E r \in Asks(j) : r.id = i,
           \A p \in polls' : \/ \E q \in polls : q.on = p.on /\ q.key = p.key
                             \/ \E j \in Conn : \E r \in Asks(j) : p.on = j /\ p.key = r.key,
           Shape
    PROVE  Given' /\ Matched'
<1>1. UNCHANGED <<conn, registered, hand, tab>>
  BY DEF Agents
<1>2. Given'
  <2> SUFFICES ASSUME NEW j \in Conn
               PROVE  /\ \A r \in Asks(j)' : /\ r.on = j /\ r.id \in 1 .. conn'[j].seq
                                             /\ r.key \in 1 .. conn'[j].seq
                      /\ Replied(j)' \subseteq 1 .. conn'[j].seq
                      /\ conn'[j].pending \subseteq 1 .. conn'[j].seq
                      /\ \A p \in polls' : p.on = j => p.key \in 1 .. conn'[j].seq
                      /\ hand'[j].id # 0 \/ hand'[j] = NoReply
                      /\ \A s \in conn'[j].sinks : /\ tab'[s.tab].on = j /\ s.key = Key(s.tab)'
                                                   /\ tab'[s.tab].mine
                      /\ conn'[j].closed => conn'[j].sinks = {}
    BY DEF Given
  <2>1. \A r \in Asks(j)' : r.on = j /\ r.id \in 1 .. conn'[j].seq /\ r.key \in 1 .. conn'[j].seq
    BY <1>1 DEF Given
  <2>2. Replied(j)' \subseteq 1 .. conn'[j].seq
    BY <1>1 DEF Given
  <2>3. \A p \in polls' : p.on = j => p.key \in 1 .. conn'[j].seq
    BY <1>1 DEF Given
  <2>4. \A s \in conn'[j].sinks : tab'[s.tab].on = j /\ s.key = Key(s.tab)' /\ tab'[s.tab].mine
    BY <1>1 DEF Given, Key
  <2> QED BY <1>1, <2>1, <2>2, <2>3, <2>4 DEF Given
<1>3. Matched'
  <2> SUFFICES ASSUME NEW b \in Tab, tab'[b].on # 0
               PROVE  /\ \A r \in Asks(tab[b].on)' :
                            /\ r.id = tab'[b].id => /\ tab'[b].pc = "wait" /\ r.key = Key(b)'
                                                    /\ r.op = tab'[b].op
                            /\ r.key = Key(b)' /\ Good(b)' => r.id = tab'[b].id
                      /\ tab'[b].id \in Replied(tab[b].on)' => tab'[b].pc = "wait"
    BY DEF Matched
  <2>1. PICK j \in Conn : j = tab[b].on
    BY <1>1 DEF Shape, Bridge
  <2>2. tab'[b] = tab[b] /\ Key(b)' = Key(b) /\ (Good(b)' => Good(b))
    BY <1>1 DEF Key, Good, Serving, Dead
  <2>3. /\ \A r \in Asks(j) :
              /\ r.id = tab[b].id => tab[b].pc = "wait" /\ r.key = Key(b) /\ r.op = tab[b].op
              /\ r.key = Key(b) /\ Good(b) => r.id = tab[b].id
        /\ tab[b].id \in Replied(j) => tab[b].pc = "wait"
    BY <2>1, ConnIs DEF Matched
  <2>4. /\ \A r \in Asks(j)' :
              /\ r.id = tab'[b].id => tab'[b].pc = "wait" /\ r.key = Key(b)' /\ r.op = tab'[b].op
              /\ r.key = Key(b)' /\ Good(b)' => r.id = tab'[b].id
        /\ tab'[b].id \in Replied(j)' => tab'[b].pc = "wait"
    BY <2>2, <2>3
  <2> QED BY <2>1, <2>2, <2>4
<1> QED BY <1>2, <1>3

LEMMA ReceivesKeeps ==
    ASSUME LinkInv, NEW k \in Conn, Receives(k)
    PROVE  LinkInv'
<1>1. /\ Shape /\ Dialled /\ Bridges /\ Apart /\ Given /\ Once /\ Matched /\ Polling /\ Streams
  BY DEF LinkInv
<1>2. Arrives(k)
  BY <1>1, ReceivesDoes
<1>3. /\ Agents /\ UNCHANGED <<up, subs, polls>> /\ down[k] # << >>
      /\ down'[k] = Tail(down[k]) /\ \A j \in Conn : j # k => down'[j] = down[j]
      /\ handler' = handler \cup {[req |-> Head(down[k]), pc |-> "run"]}
      /\ UNCHANGED <<conn, registered, hand, tab>> /\ Shape'
  BY <1>2 DEF Arrives, Agents
<1>4. /\ Dialled' /\ Bridges' /\ Apart'
      /\ \A b \in Tab : /\ Good(b)' <=> Good(b)
                        /\ Key(b)' = Key(b) /\ (HasSink(b)' <=> HasSink(b))
  BY <1>1, <1>3, AgentsFrame
<1>5. down[k] \in Seq(Request)
  BY <1>1 DEF Shape
<1>6. PICK q \in Request : q = Head(down[k])
  BY <1>3, <1>5, TailIs
<1>7. 1 \in 1 .. Len(down[k]) /\ q = down[k][1] /\ q \in InDown(k) /\ q.on = k
  <2>1. 1 \in 1 .. Len(down[k]) /\ q = down[k][1]
    BY <1>3, <1>5, <1>6, TailIs
  <2> QED BY <1>1, <2>1 DEF InDown, Given, Asks
<1>8. PICK g : g = [req |-> q, pc |-> "run"]
  OBVIOUS
<1>9. g.req = q /\ g.pc = "run" /\ handler' = handler \cup {g}
  BY <1>3, <1>6, <1>8
<1>10. InDown(k) = InDown(k)' \cup {q}
  <2>1. {down[k][i] : i \in 1 .. Len(down[k])}
          = {Tail(down[k])[i] : i \in 1 .. Len(Tail(down[k]))} \cup {Head(down[k])}
    BY <1>3, <1>5, TailIs
  <2> QED BY <1>3, <1>6, <2>1 DEF InDown
<1>11. InHandler(k)' = InHandler(k) \cup {q}
  BY <1>7, <1>9 DEF InHandler
<1>12. \A j \in Conn : j # k => InDown(j)' = InDown(j) /\ InHandler(j)' = InHandler(j)
  BY <1>3, <1>7, <1>9 DEF InDown, InHandler
<1>13. \A j \in Conn : Asks(j)' = Asks(j)
  BY <1>10, <1>11, <1>12 DEF Asks
<1>14. \A j \in Conn : Replied(j)' = Replied(j) /\ InUp(j)' = InUp(j)
  BY <1>3 DEF Replied, InUp
<1>15. Given' /\ Matched'
  BY <1>1, <1>3, <1>13, <1>14, AgentsRest
<1>16. \A i \in 1 .. Len(down'[k]) : i + 1 \in 1 .. Len(down[k]) /\ down'[k][i] = down[k][i + 1]
  BY <1>3, <1>5, TailIs
<1>17. Once'
  <2> SUFFICES ASSUME NEW j \in Conn
               PROVE  /\ \A i, l \in 1 .. Len(down'[j]) : i # l => down'[j][i].id # down'[j][l].id
                      /\ \A r \in InDown(j)', s \in InHandler(j)' : r.id # s.id
                      /\ \A f, h \in handler' :
                            f.req.on = j /\ h.req.on = j /\ f.req.id = h.req.id => f = h
                      /\ \A r \in Asks(j)' : r.id \notin Replied(j)'
                      /\ \A r \in Asks(j)', c \in Tab :
                            tab'[c].on = j /\ tab'[c].id = r.id => tab'[c].ch \notin {"ok", "refused"}
    BY DEF Once
  <2>1. \A r \in Asks(j)' : r.id \notin Replied(j)'
    BY <1>1, <1>13, <1>14 DEF Once
  <2>2. \A r \in Asks(j)', c \in Tab :
            tab'[c].on = j /\ tab'[c].id = r.id => tab'[c].ch \notin {"ok", "refused"}
    BY <1>1, <1>3, <1>13 DEF Once
  <2>3. CASE j # k
    <3>1. \A f, h \in handler' :
             f.req.on = j /\ h.req.on = j /\ f.req.id = h.req.id => f = h
      BY <1>1, <1>7, <1>9, <2>3 DEF Once
    <3>2. \A i, l \in 1 .. Len(down'[j]) : i # l => down'[j][i].id # down'[j][l].id
      BY <1>1, <1>3, <2>3 DEF Once
    <3>3. \A r \in InDown(j)', s \in InHandler(j)' : r.id # s.id
      BY <1>1, <1>12, <2>3 DEF Once
    <3> QED BY <2>1, <2>2, <3>1, <3>2, <3>3
  <2>4. CASE j = k
    <3>1. ASSUME NEW i \in 1 .. Len(down'[k]), NEW l \in 1 .. Len(down'[k]), i # l
          PROVE  down'[k][i].id # down'[k][l].id
      <4>1. i + 1 \in 1 .. Len(down[k]) /\ l + 1 \in 1 .. Len(down[k]) /\ i + 1 # l + 1
        BY <1>16, <3>1
      <4> QED BY <1>1, <1>16, <4>1, SMTT(30) DEF Once
    <3>2. \A r \in InDown(k)' : r.id # q.id
      <4> SUFFICES ASSUME NEW i \in 1 .. Len(down'[k]) PROVE down'[k][i].id # q.id
        BY DEF InDown
      <4>1. i + 1 \in 1 .. Len(down[k]) /\ i + 1 # 1
        BY <1>16
      <4> QED BY <1>1, <1>7, <1>16, <4>1 DEF Once
    <3>3. \A r \in InDown(k)', s \in InHandler(k)' : r.id # s.id
      BY <1>1, <1>10, <1>11, <3>2 DEF Once
    <3>4. \A h \in handler : h.req.on = k => h.req.id # q.id
      <4>1. \A h \in handler : h.req.on = k => h.req \in InHandler(k)
        BY DEF InHandler
      <4> QED BY <1>1, <1>7, <4>1 DEF Once
    <3>5. \A f, h \in handler' :
             f.req.on = k /\ h.req.on = k /\ f.req.id = h.req.id => f = h
      BY <1>1, <1>9, <3>4 DEF Once
    <3> QED BY <2>1, <2>2, <2>4, <3>1, <3>3, <3>5
  <2> QED BY <2>3, <2>4
<1>18. Polling'
  BY <1>1, <1>3 DEF Polling
<1>19. Streams'
  <2> SUFFICES ASSUME NEW b \in Tab PROVE Streaming(b)'
    BY DEF Streams
  <2>1. PollsOf(b)' = PollsOf(b) /\ (Failing(b)' <=> Failing(b))
    BY <1>3, <1>4 DEF PollsOf, Failing
  <2>2. One(b)' <=> One(b)
    BY <1>3, <2>1 DEF One
  <2>3. Done(b)' => Done(b)
    BY <1>3, <1>9 DEF Done, InUp
  <2>4. Streaming(b) /\ tab' = tab
    BY <1>1, <1>3 DEF Streams
  <2> QED BY <1>4, <2>1, <2>2, <2>3, <2>4, StreamKept
<1> QED BY <1>3, <1>4, <1>15, <1>17, <1>18, <1>19 DEF LinkInv

\* Between a request and its answer only the goroutine knows.
LEMMA AnswersKeep ==
    ASSUME LinkInv, Agents, NEW h \in handler, NEW pc \in {"ok", "refused"}, Answered(h, pc),
           UNCHANGED <<down, up>>,
           \A p \in polls' : \/ \E q \in polls : q.on = p.on /\ q.key = p.key
                             \/ p.on = h.req.on /\ p.key = h.req.key
    PROVE  /\ Dialled' /\ Bridges' /\ Apart' /\ Given' /\ Once' /\ Matched'
           /\ h.req.on \in Conn /\ h.req \in Asks(h.req.on)
           /\ \A b \in Tab : /\ Good(b)' <=> Good(b)
                             /\ Key(b)' = Key(b) /\ (HasSink(b)' <=> HasSink(b))
                             /\ Failing(b)' <=> Failing(b)
                             /\ Done(b)' => \/ Done(b)
                                            \/ /\ pc = "ok" /\ h.req.on = tab[b].on
                                               /\ h.req.id = tab[b].id
<1>1. /\ Shape /\ Dialled /\ Bridges /\ Apart /\ Given /\ Once /\ Matched
  BY DEF LinkInv
<1>2. UNCHANGED <<conn, registered, hand, tab>>
  BY DEF Agents
<1>3. /\ Dialled' /\ Bridges' /\ Apart'
      /\ \A b \in Tab : /\ Good(b)' <=> Good(b)
                        /\ Key(b)' = Key(b) /\ (HasSink(b)' <=> HasSink(b))
  BY <1>1, AgentsFrame
<1>4. PICK g : g = [req |-> h.req, pc |-> pc]
  OBVIOUS
<1>5. g.req = h.req /\ g.pc = pc /\ handler' = (handler \ {h}) \cup {g}
  BY <1>4 DEF Answered
<1>6. h.req.on \in Conn /\ h.req \in Asks(h.req.on)
  <2>1. h.req.on \in Conn
    BY <1>1 DEF Shape, Handler, Request
  <2> QED BY <2>1 DEF Asks, InHandler
<1>7. \A j \in Conn : /\ InHandler(j)' = InHandler(j) /\ InDown(j)' = InDown(j)
                      /\ Replied(j)' = Replied(j)
  <2>1. \A j \in Conn : InHandler(j)' = InHandler(j)
    BY <1>1, AnswersAre
  <2> QED BY <1>2, <2>1 DEF InDown, Replied, InUp
<1>8. \A j \in Conn : Asks(j)' = Asks(j)
  BY <1>7 DEF Asks
<1>9. Given' /\ Matched'
  BY <1>1, <1>6, <1>7, <1>8, AgentsRest
<1>10. Once'
  <2>1. \A j \in Conn : \A f, e \in handler' :
           f.req.on = j /\ e.req.on = j /\ f.req.id = e.req.id => f = e
    BY <1>1, <1>5 DEF Once
  <2>2. \A j \in Conn : \A r \in Asks(j)', c \in Tab :
           tab'[c].on = j /\ tab'[c].id = r.id => tab'[c].ch \notin {"ok", "refused"}
    BY <1>1, <1>2, <1>8 DEF Once
  <2> QED BY <1>1, <1>7, <1>8, <2>1, <2>2 DEF Once
<1>11. \A b \in Tab : Failing(b)' <=> Failing(b)
  BY <1>2, <1>3 DEF Failing
<1>12. ASSUME NEW b \in Tab, Done(b)'
       PROVE  Done(b) \/ (pc = "ok" /\ h.req.on = tab[b].on /\ h.req.id = tab[b].id)
  <2>1. \A e \in handler' : e \in handler \/ (e.req = h.req /\ e.pc = pc)
    BY <1>5
  <2> QED BY <1>2, <1>12, <2>1 DEF Done, InUp
<1> QED BY <1>3, <1>6, <1>9, <1>10, <1>11, <1>12

\* The poll loops of other keys are left alone.
LEMMA PollsDo ==
    ASSUME Shape, Polling, NEW k \in Conn, NEW key, NEW new, Polls(k, key, new),
           \A p, q \in new : p = q
    PROVE  /\ Polling'
           /\ \A p \in polls' : \/ \E q \in polls : q.on = p.on /\ q.key = p.key
                                \/ p.on = k /\ p.key = key
           /\ \A p \in polls' : p.live /\ p.on = k /\ p.key = key => p \in new
           /\ new \subseteq polls' /\ new \subseteq subs'[k]
           /\ \A j \in Conn, l \in Nat : j # k \/ l # key =>
                 /\ {p \in polls' : p.on = j /\ p.key = l /\ p.live}
                        = {p \in polls : p.on = j /\ p.key = l /\ p.live}
                 /\ \A p \in subs[j] : p.key = l => p \in subs'[j]
<1>1. PICK its : its = {p \in subs[k] : p.key = key}
  OBVIOUS
<1>2. PICK other : other = Cancel(its)
  OBVIOUS
<1>3. polls \subseteq Poll
  BY DEF Shape
<1>4. /\ other \subseteq Poll
      /\ \A p \in other : p.live => p \in polls /\ p \notin its
      /\ \A p \in polls : p \notin its => p \in other
      /\ \A p \in other : \E q \in polls : q.on = p.on /\ q.key = p.key
  BY <1>2, <1>3, CancelIs
<1>5. /\ \A p \in new : p \in Poll /\ p.on = k /\ p.key = key /\ p.live
      /\ polls' = other \cup new
      /\ subs'[k] = {p \in subs[k] : p.key # key} \cup new
      /\ \A j \in Conn : j # k => subs'[j] = subs[j]
  BY <1>1, <1>2 DEF Polls
<1>6. \A p \in other : p.live => p \in subs[p.on] /\ p.on \in Conn
  BY <1>3, <1>4 DEF Polling, Poll
<1>7. \A p \in other : p.live /\ p.on = k => p.key # key
  BY <1>1, <1>4, <1>6
<1>8. \A j \in Conn : /\ \A p \in subs[j] : p.on = j
                      /\ \A p, q \in subs[j] : p.key = q.key => p = q
  BY DEF Polling
<1>9. Polling'
  <2>1. ASSUME NEW p \in polls', p.live PROVE p \in subs'[p.on]
    <3>1. CASE p \in new
      BY <1>5, <3>1
    <3>2. CASE p \in other
      BY <1>5, <1>6, <1>7, <2>1, <3>2
    <3> QED BY <1>5, <3>1, <3>2
  <2>2. ASSUME NEW j \in Conn
        PROVE  /\ \A p \in subs'[j] : p.on = j
               /\ \A p, q \in subs'[j] : p.key = q.key => p = q
    <3>1. CASE j # k
      BY <1>5, <1>8, <3>1
    <3>2. CASE j = k
      <4>1. \A p \in subs'[k] : p \in new \/ (p \in subs[k] /\ p.key # key)
        BY <1>5
      <4> QED BY <1>5, <1>8, <3>2, <4>1
    <3> QED BY <3>1, <3>2
  <2> QED BY <2>1, <2>2 DEF Polling
<1>10. ASSUME NEW j \in Conn, NEW l \in Nat, j # k \/ l # key
       PROVE  /\ {p \in polls' : p.on = j /\ p.key = l /\ p.live}
                     = {p \in polls : p.on = j /\ p.key = l /\ p.live}
              /\ \A p \in subs[j] : p.key = l => p \in subs'[j]
  <2>1. \A p \in new : ~(p.on = j /\ p.key = l)
    BY <1>5, <1>10
  <2>2. \A p \in its : ~(p.on = j /\ p.key = l)
    BY <1>1, <1>8, <1>10
  <2>3. {p \in polls' : p.on = j /\ p.key = l /\ p.live}
          = {p \in polls : p.on = j /\ p.key = l /\ p.live}
    BY <1>4, <1>5, <2>1, <2>2
  <2>4. \A p \in subs[j] : p.key = l => p \in subs'[j]
    BY <1>5, <1>10
  <2> QED BY <2>3, <2>4
<1> QED BY <1>4, <1>5, <1>7, <1>9, <1>10

\* What a step at another key, or for a request that is nobody's, keeps.
LEMMA ElsewhereKept ==
    ASSUME LinkInv, Agents, NEW b \in Tab, NEW k \in Conn, NEW key, NEW new, Polls(k, key, new),
           \A p, q \in new : p = q, ~(tab[b].on = k /\ Key(b) = key),
           /\ Good(b)' <=> Good(b)
           /\ Key(b)' = Key(b) /\ (HasSink(b)' <=> HasSink(b))
           /\ Failing(b)' <=> Failing(b)
           /\ Good(b) => (Done(b)' => Done(b))
    PROVE  Streaming(b)'
<1>1. Shape /\ Polling /\ Streaming(b)
  BY DEF LinkInv, Streams
<1>2. tab' = tab
  BY DEF Agents
<1>3. ASSUME Good(b)
      PROVE  PollsOf(b)' = PollsOf(b) /\ (One(b) => One(b)')
  <2>1. tab[b].on \in Conn /\ Key(b) \in Nat
    BY <1>1, <1>3 DEF Shape, Bridge, Good, Key
  <2>2. PICK j \in Conn, l \in Nat : j = tab[b].on /\ l = Key(b)
    BY <2>1
  <2>3. /\ {p \in polls' : p.on = j /\ p.key = l /\ p.live}
              = {p \in polls : p.on = j /\ p.key = l /\ p.live}
        /\ \A p \in subs[j] : p.key = l => p \in subs'[j]
    BY <1>1, <2>2, PollsDo
  <2>4. There(b)
    BY <1>2 DEF There
  <2>5. {p \in polls' : p.on = tab[b].on /\ p.key = Key(b) /\ p.live} = PollsOf(b)
    BY <2>2, <2>3 DEF PollsOf
  <2>6. \A p \in PollsOf(b) : p \in subs[tab[b].on] => p \in subs'[tab[b].on]
    BY <2>2, <2>3 DEF PollsOf
  <2> QED BY <2>4, <2>5, <2>6, PollsKept
<1> QED BY <1>1, <1>2, <1>3, StreamKept

LEMMA SubscribedKeeps ==
    ASSUME LinkInv, NEW h \in handler, Subscribed(h)
    PROVE  LinkInv'
<1>1. /\ Shape /\ Polling /\ Matched /\ Streams /\ Bridges
  BY DEF LinkInv
<1>2. /\ Agents /\ UNCHANGED <<down, up>> /\ h.req.op = "subscribe" /\ Answered(h, "ok")
  BY DEF Subscribed
<1>3. PICK q : Polls(h.req.on, h.req.key, {q})
  BY DEF Subscribed
<1>4. PICK k \in Conn, key \in Nat : k = h.req.on /\ key = h.req.key
  BY <1>1 DEF Shape, Handler, Request
<1>5. /\ Polling'
      /\ \A p \in polls' : \/ \E o \in polls : o.on = p.on /\ o.key = p.key
                           \/ p.on = k /\ p.key = key
      /\ \A p \in polls' : p.live /\ p.on = k /\ p.key = key => p \in {q}
      /\ {q} \subseteq polls' /\ {q} \subseteq subs'[k]
  BY <1>1, <1>3, <1>4, PollsDo
<1>6. /\ Dialled' /\ Bridges' /\ Apart' /\ Given' /\ Once' /\ Matched'
      /\ h.req \in Asks(k)
      /\ \A b \in Tab : /\ Good(b)' <=> Good(b)
                        /\ Key(b)' = Key(b) /\ (HasSink(b)' <=> HasSink(b))
                        /\ Failing(b)' <=> Failing(b)
                        /\ Done(b)' => Done(b) \/ (k = tab[b].on /\ h.req.id = tab[b].id)
  BY <1>2, <1>4, <1>5, AnswersKeep
<1>7. Shape' /\ tab' = tab
  BY <1>2 DEF Agents
<1>8. Streams'
  <2> SUFFICES ASSUME NEW b \in Tab PROVE Streaming(b)'
    BY DEF Streams
  <2>1. CASE tab[b].on = k /\ Key(b) = key
    <3> SUFFICES ASSUME Good(b)'
                 PROVE  /\ tab'[b].told \in {"asked", "on"} => HasSink(b)'
                        /\ One(b)' /\ tab'[b].mine
      BY DEF Streaming
    <3>1. Good(b)
      BY <1>6
    <3>2. /\ h.req.id = tab[b].id /\ tab[b].pc = "wait" /\ tab[b].op = "subscribe"
      BY <1>1, <1>2, <1>4, <1>6, <2>1, <3>1, ConnIs DEF Matched
    <3>3. tab[b].mine
      BY <1>1, <3>2 DEF Bridges, Bridged, Requesting
    <3>4. tab[b].told \in {"asked", "on"} => HasSink(b)
      BY <1>1, <3>1 DEF Streams, Streaming
    <3>5. PollsOf(b)' = {q}
      <4>1. q.on = k /\ q.key = key /\ q.live
        BY <1>3, <1>4 DEF Polls
      <4> QED BY <1>5, <1>6, <1>7, <2>1, <4>1 DEF PollsOf
    <3>6. Cardinality({q}) = 1
      BY FS_Singleton
    <3>7. One(b)'
      BY <1>5, <1>7, <2>1, <3>5, <3>6 DEF One
    <3> QED BY <1>6, <1>7, <3>3, <3>4, <3>7
  <2>2. CASE ~(tab[b].on = k /\ Key(b) = key)
    <3>1. Good(b) => (Done(b)' => Done(b))
      <4> SUFFICES ASSUME Good(b), k = tab[b].on, h.req.id = tab[b].id PROVE FALSE
        BY <1>6
      <4> QED BY <1>1, <1>4, <1>6, <2>2, ConnIs DEF Matched
    <3> QED BY <1>2, <1>3, <1>4, <1>6, <2>2, <3>1, ElsewhereKept
  <2> QED BY <2>1, <2>2
<1> QED BY <1>5, <1>6, <1>7, <1>8 DEF LinkInv

LEMMA UnsubscribedKeeps ==
    ASSUME LinkInv, NEW h \in handler, Unsubscribed(h)
    PROVE  LinkInv'
<1>1. /\ Shape /\ Polling /\ Matched /\ Streams /\ Bridges
  BY DEF LinkInv
<1>2. /\ Agents /\ UNCHANGED <<down, up>> /\ h.req.op # "subscribe" /\ Answered(h, "ok")
      /\ Polls(h.req.on, h.req.key, {})
  BY DEF Unsubscribed
<1>3. PICK k \in Conn, key \in Nat : k = h.req.on /\ key = h.req.key
  BY <1>1 DEF Shape, Handler, Request
<1>4. /\ Polling'
      /\ \A p \in polls' : \/ \E o \in polls : o.on = p.on /\ o.key = p.key
                           \/ p.on = k /\ p.key = key
      /\ \A p \in polls' : p.live /\ p.on = k /\ p.key = key => p \in {}
  BY <1>1, <1>2, <1>3, PollsDo
<1>5. /\ Dialled' /\ Bridges' /\ Apart' /\ Given' /\ Once' /\ Matched'
      /\ h.req \in Asks(k)
      /\ \A b \in Tab : /\ Good(b)' <=> Good(b)
                        /\ Key(b)' = Key(b) /\ (HasSink(b)' <=> HasSink(b))
                        /\ Failing(b)' <=> Failing(b)
                        /\ Done(b)' => Done(b) \/ (k = tab[b].on /\ h.req.id = tab[b].id)
  BY <1>2, <1>3, <1>4, AnswersKeep
<1>6. Shape' /\ tab' = tab
  BY <1>2 DEF Agents
<1>7. Streams'
  <2> SUFFICES ASSUME NEW b \in Tab PROVE Streaming(b)'
    BY DEF Streams
  <2>1. CASE tab[b].on = k /\ Key(b) = key
    <3> SUFFICES ASSUME Good(b)'
                 PROVE  tab'[b].told \notin {"asked", "on"} /\ PollsOf(b)' = {}
      BY DEF Streaming
    <3>1. Good(b)
      BY <1>5
    <3>2. h.req.id = tab[b].id /\ tab[b].pc = "wait" /\ tab[b].op # "subscribe"
      BY <1>1, <1>2, <1>3, <1>5, <2>1, <3>1, ConnIs DEF Matched
    <3>3. tab[b].told = "off"
      BY <1>1, <3>2 DEF Bridges, Bridged, Requesting
    <3>4. PollsOf(b)' = {}
      BY <1>4, <1>5, <1>6, <2>1 DEF PollsOf
    <3> QED BY <1>6, <3>3, <3>4
  <2>2. CASE ~(tab[b].on = k /\ Key(b) = key)
    <3>1. Good(b) => (Done(b)' => Done(b))
      <4> SUFFICES ASSUME Good(b), k = tab[b].on, h.req.id = tab[b].id PROVE FALSE
        BY <1>5
      <4> QED BY <1>1, <1>3, <1>5, <2>2, ConnIs DEF Matched
    <3> QED BY <1>2, <1>3, <1>5, <2>2, <3>1, ElsewhereKept
  <2> QED BY <2>1, <2>2
<1> QED BY <1>4, <1>5, <1>6, <1>7 DEF LinkInv

LEMMA RefusedKeeps ==
    ASSUME LinkInv, NEW h \in handler, Refused(h)
    PROVE  LinkInv'
<1>1. /\ Shape /\ Polling /\ Streams
  BY DEF LinkInv
<1>2. Agents /\ UNCHANGED <<down, up, subs, polls>> /\ Answered(h, "refused")
  BY DEF Refused
<1>3. /\ Dialled' /\ Bridges' /\ Apart' /\ Given' /\ Once' /\ Matched'
      /\ \A b \in Tab : /\ Good(b)' <=> Good(b)
                        /\ Key(b)' = Key(b) /\ (HasSink(b)' <=> HasSink(b))
                        /\ Failing(b)' <=> Failing(b)
                        /\ Done(b)' => Done(b)
  BY <1>2, AnswersKeep
<1>4. Shape' /\ tab' = tab
  BY <1>2 DEF Agents
<1>5. Polling'
  BY <1>1, <1>2 DEF Polling
<1>6. Streams'
  <2> SUFFICES ASSUME NEW b \in Tab PROVE Streaming(b)'
    BY DEF Streams
  <2>1. PollsOf(b)' = PollsOf(b)
    BY <1>2, <1>3, <1>4 DEF PollsOf
  <2>2. One(b)' <=> One(b)
    BY <1>2, <1>4, <2>1 DEF One
  <2>3. Streaming(b)
    BY <1>1 DEF Streams
  <2> QED BY <1>3, <1>4, <2>1, <2>2, <2>3, StreamKept
<1> QED BY <1>3, <1>4, <1>5, <1>6 DEF LinkInv

LEMMA RespondKeeps ==
    ASSUME LinkInv, NEW h \in handler, Responds(h)
    PROVE  LinkInv'
<1>1. /\ Shape /\ Dialled /\ Bridges /\ Apart /\ Given /\ Once /\ Matched /\ Polling /\ Streams
  BY DEF LinkInv
<1>2. PICK m : m = [kind |-> "reply", id |-> h.req.id, ok |-> h.pc = "ok"]
  OBVIOUS
<1>3. m.kind = "reply" /\ m.id = h.req.id /\ (m.ok <=> h.pc = "ok")
  BY <1>2
<1>4. PICK k \in Conn : k = h.req.on
  BY <1>1 DEF Shape, Handler, Request
<1>5. /\ Agents /\ UNCHANGED <<down, subs, polls>> /\ handler' = handler \ {h} /\ Sends(k, m)
      /\ UNCHANGED <<conn, registered, hand, tab>> /\ Shape'
  BY <1>2, <1>4 DEF Responds, Agents
<1>6. /\ \A j \in Conn : j # k => up'[j] = up[j] /\ InUp(j)' = InUp(j)
      /\ InUp(k) \subseteq InUp(k)' /\ InUp(k)' \subseteq InUp(k) \cup {m}
  <2>1. \A j \in Conn : up'[j] = up[j] => InUp(j)' = InUp(j)
    BY DEF InUp
  <2>2. /\ \A j \in Conn : j # k => up'[j] = up[j]
        /\ up'[k] = up[k] \/ InUp(k)' = InUp(k) \cup {m}
    BY <1>5 DEF Sends
  <2> QED BY <2>1, <2>2
<1>7. /\ Dialled' /\ Bridges' /\ Apart'
      /\ \A b \in Tab : /\ Good(b)' <=> Good(b)
                        /\ Key(b)' = Key(b) /\ (HasSink(b)' <=> HasSink(b))
  BY <1>1, <1>5, AgentsFrame
<1>8. \A j \in Conn : /\ InDown(j)' = InDown(j) /\ InHandler(j)' \subseteq InHandler(j)
  BY <1>5 DEF InDown, InHandler
<1>9. \A j \in Conn : Asks(j)' \subseteq Asks(j)
  BY <1>8 DEF Asks
<1>10. h.req \in Asks(k) /\ h.req \in InHandler(k)
  BY <1>4 DEF Asks, InHandler
<1>11. \A j \in Conn : \A i \in Replied(j)' : i \in Replied(j) \/ (j = k /\ i = h.req.id)
  BY <1>3, <1>5, <1>6 DEF Replied
<1>12. Given' /\ Matched'
  BY <1>1, <1>5, <1>9, <1>10, <1>11, AgentsRest
<1>13. Once'
  <2>1. \A r \in Asks(k)' : r.id # h.req.id
    <3> TAKE r \in Asks(k)'
    <3>1. CASE r \in InDown(k)
      BY <1>1, <1>10, <3>1 DEF Once
    <3>2. CASE r \in InHandler(k)'
      <4>1. PICK g \in handler' : g.req.on = k /\ r = g.req
        BY <3>2 DEF InHandler
      <4>2. g \in handler /\ g # h
        BY <1>5, <4>1
      <4> QED BY <1>1, <1>4, <4>1, <4>2 DEF Once
    <3> QED BY <1>8, <3>1, <3>2 DEF Asks
  <2>2. \A j \in Conn : \A r \in Asks(j)' : r.id \notin Replied(j)'
    BY <1>1, <1>9, <1>11, <2>1 DEF Once
  <2>3. \A j \in Conn : \A r \in InDown(j)', s \in InHandler(j)' : r.id # s.id
    BY <1>1, <1>8 DEF Once
  <2>4. \A j \in Conn : \A r \in Asks(j)', c \in Tab :
           tab'[c].on = j /\ tab'[c].id = r.id => tab'[c].ch \notin {"ok", "refused"}
    BY <1>1, <1>5, <1>9 DEF Once
  <2>5. \A j \in Conn : \A f, e \in handler' :
           f.req.on = j /\ e.req.on = j /\ f.req.id = e.req.id => f = e
    BY <1>1, <1>5 DEF Once
  <2>6. \A j \in Conn : \A i, l \in 1 .. Len(down'[j]) : i # l => down'[j][i].id # down'[j][l].id
    BY <1>1, <1>5 DEF Once
  <2> QED BY <2>2, <2>3, <2>4, <2>5, <2>6 DEF Once
<1>14. Polling'
  BY <1>1, <1>5 DEF Polling
<1>15. Streams'
  <2> SUFFICES ASSUME NEW b \in Tab PROVE Streaming(b)'
    BY DEF Streams
  <2>1. ASSUME Good(b)
        PROVE  (Failing(b) => Failing(b)') /\ (Done(b)' => Done(b))
    <3>1. PICK j \in Conn : j = tab[b].on
      BY <1>1, <2>1 DEF Good, Shape, Bridge
    <3>2. InUp(j) \subseteq InUp(j)' /\ \A n \in InUp(j)' : n \in InUp(j) \/ (j = k /\ n = m)
      BY <1>6
    <3>3. Failing(b) => Failing(b)'
      <4>1. Failing(b) <=> \E n \in InUp(j) : n.kind = "paneError" /\ n.id = Key(b)
        BY <1>1, <3>1, FailingIs
      <4>2. Failing(b)' <=> \E n \in InUp(j)' : n.kind = "paneError" /\ n.id = Key(b)'
        BY <1>5, <3>1, FailingThen
      <4> QED BY <1>7, <3>2, <4>1, <4>2
    <3>4. ASSUME Done(b)' PROVE Done(b)
      <4>1. /\ tab[b].id # 0
            /\ \/ tab[b].ch = "ok"
               \/ hand[j].id = tab[b].id /\ hand[j].ok
               \/ \E n \in InUp(j)' : n.kind = "reply" /\ n.id = tab[b].id /\ n.ok
               \/ \E e \in handler' : e.req.on = j /\ e.req.id = tab[b].id /\ e.pc = "ok"
        BY <1>5, <3>1, <3>4 DEF Done
      <4>2. CASE tab[b].ch = "ok" \/ (hand[j].id = tab[b].id /\ hand[j].ok)
        BY <3>1, <4>1, <4>2 DEF Done
      <4>3. CASE \E n \in InUp(j)' : n.kind = "reply" /\ n.id = tab[b].id /\ n.ok
        <5>1. PICK n \in InUp(j)' : n.kind = "reply" /\ n.id = tab[b].id /\ n.ok
          BY <4>3
        <5>2. CASE n \in InUp(j)
          BY <3>1, <4>1, <5>1, <5>2 DEF Done
        <5>3. CASE j = k /\ n = m
          <6>1. h.req.on = tab[b].on /\ h.req.id = tab[b].id /\ h.pc = "ok"
            BY <1>3, <1>4, <3>1, <5>1, <5>3
          <6> QED BY <4>1, <6>1 DEF Done
        <5> QED BY <3>2, <5>2, <5>3
      <4>4. CASE \E e \in handler' : e.req.on = j /\ e.req.id = tab[b].id /\ e.pc = "ok"
        BY <1>5, <3>1, <4>1, <4>4 DEF Done
      <4> QED BY <4>1, <4>2, <4>3, <4>4
    <3> QED BY <3>3, <3>4
  <2>2. PollsOf(b)' = PollsOf(b)
    BY <1>5, <1>7 DEF PollsOf
  <2>3. One(b)' <=> One(b)
    BY <1>5, <2>2 DEF One
  <2>4. Streaming(b)
    BY <1>1 DEF Streams
  <2> QED BY <1>5, <1>7, <2>1, <2>2, <2>3, <2>4, StreamKept
<1> QED BY <1>5, <1>7, <1>12, <1>13, <1>14, <1>15 DEF LinkInv

LEMMA GivesUpKeeps ==
    ASSUME LinkInv, NEW p \in polls, GivesUp(p)
    PROVE  LinkInv'
<1>1. /\ Shape /\ Dialled /\ Bridges /\ Apart /\ Given /\ Once /\ Matched /\ Polling /\ Streams
  BY DEF LinkInv
<1>2. PICK m : m = [kind |-> "paneError", id |-> p.key, ok |-> FALSE]
  OBVIOUS
<1>3. m.kind = "paneError" /\ m.id = p.key
  BY <1>2
<1>4. PICK k \in Conn : k = p.on
  BY <1>1 DEF Shape, Poll
<1>5. /\ Agents /\ UNCHANGED <<down, handler, subs>> /\ polls' = polls \ {p} /\ Sends(k, m)
      /\ UNCHANGED <<conn, registered, hand, tab>> /\ Shape'
  BY <1>2, <1>4 DEF GivesUp, Agents
<1>6. /\ \A j \in Conn : j # k => up'[j] = up[j] /\ InUp(j)' = InUp(j)
      /\ InUp(k) \subseteq InUp(k)' /\ InUp(k)' \subseteq InUp(k) \cup {m}
      /\ Serving(k) => m \in InUp(k)'
  <2>1. \A j \in Conn : up'[j] = up[j] => InUp(j)' = InUp(j)
    BY DEF InUp
  <2>2. /\ \A j \in Conn : j # k => up'[j] = up[j]
        /\ (up'[k] = up[k] /\ ~Serving(k)) \/ InUp(k)' = InUp(k) \cup {m}
    BY <1>5 DEF Sends
  <2> QED BY <2>1, <2>2
<1>7. /\ Dialled' /\ Bridges' /\ Apart'
      /\ \A b \in Tab : /\ Good(b)' <=> Good(b)
                        /\ Key(b)' = Key(b) /\ (HasSink(b)' <=> HasSink(b))
  BY <1>1, <1>5, AgentsFrame
<1>8. \A j \in Conn : /\ InDown(j)' = InDown(j) /\ InHandler(j)' = InHandler(j)
  BY <1>5 DEF InDown, InHandler
<1>9. \A j \in Conn : Asks(j)' = Asks(j)
  BY <1>8 DEF Asks
<1>10. \A j \in Conn : Replied(j)' = Replied(j)
  <2> TAKE j \in Conn
  <2>1. \A n : n.kind = "reply" => (n \in InUp(j)' <=> n \in InUp(j))
    BY <1>3, <1>6
  <2> QED BY <1>5, <2>1 DEF Replied
<1>11. Given' /\ Matched'
  BY <1>1, <1>5, <1>9, <1>10, AgentsRest
<1>12. Once'
  BY <1>1, <1>5, <1>8, <1>9, <1>10 DEF Once
<1>13. Polling'
  BY <1>1, <1>5 DEF Polling
<1>14. Streams'
  <2> SUFFICES ASSUME NEW b \in Tab PROVE Streaming(b)'
    BY DEF Streams
  <2>1. ASSUME Good(b)
        PROVE  /\ Failing(b) => Failing(b)'
               /\ One(b) => One(b)' \/ Failing(b)'
               /\ PollsOf(b) = {} => PollsOf(b)' = {}
               /\ Done(b)' => Done(b)
    <3>1. PICK j \in Conn : j = tab[b].on
      BY <1>1, <2>1 DEF Good, Shape, Bridge
    <3>2. InUp(j) \subseteq InUp(j)' /\ \A n \in InUp(j)' : n \in InUp(j) \/ n = m
      BY <1>6
    <3>3. /\ Failing(b) <=> \E n \in InUp(j) : n.kind = "paneError" /\ n.id = Key(b)
          /\ Failing(b)' <=> \E n \in InUp(j)' : n.kind = "paneError" /\ n.id = Key(b)'
      BY <1>1, <1>5, <3>1, FailingIs, FailingThen
    <3>4. Failing(b) => Failing(b)'
      BY <1>7, <3>2, <3>3
    <3>5. PollsOf(b)' = PollsOf(b) \ {p}
      BY <1>5, <1>7 DEF PollsOf
    <3>6. One(b) => One(b)' \/ Failing(b)'
      <4>1. CASE p \in PollsOf(b)
        <5>1. j = k /\ m.id = Key(b) /\ Serving(k)
          BY <1>3, <1>4, <2>1, <3>1, <4>1 DEF PollsOf, Good
        <5> QED BY <1>3, <1>6, <1>7, <3>3, <5>1
      <4>2. CASE p \notin PollsOf(b)
        <5>1. PollsOf(b)' = PollsOf(b)
          BY <3>5, <4>2
        <5> QED BY <1>5, <5>1 DEF One
      <4> QED BY <4>1, <4>2
    <3>7. Done(b)' => Done(b)
      <4>1. \A n \in InUp(j)' : n.kind = "reply" => n \in InUp(j)
        BY <1>3, <3>2
      <4> QED BY <1>5, <3>1, <4>1 DEF Done
    <3> QED BY <3>4, <3>5, <3>6, <3>7
  <2>2. Streaming(b)
    BY <1>1 DEF Streams
  <2> QED BY <1>5, <1>7, <2>1, <2>2, StreamKept
<1> QED BY <1>5, <1>7, <1>11, <1>12, <1>13, <1>14 DEF LinkInv
-----------------------------------------------------------------------------
(* The whole.                                                                 *)

LEMMA LinkInit == Init => LinkInv
<1> SUFFICES ASSUME Init
             PROVE  LinkInv
  OBVIOUS
<1>1. PICK new : new = [agent |-> "none", hub |-> "none", broken |-> FALSE, closed |-> FALSE,
                        seq |-> 0, pending |-> {}, sinks |-> {}]
  OBVIOUS
<1>2. PICK fresh : fresh = [pc |-> "new", on |-> 0, prefix |-> 0, op |-> "none", id |-> 0,
                            ch |-> "empty", mine |-> FALSE, told |-> "off", faults |-> {}]
  OBVIOUS
<1>3. /\ conn = [k \in Conn |-> new] /\ tab = [b \in Tab |-> fresh]
      /\ registered = 0 /\ down = [k \in Conn |-> << >>] /\ up = [k \in Conn |-> << >>]
      /\ hand = [k \in Conn |-> NoReply] /\ handler = {} /\ subs = [k \in Conn |-> {}]
      /\ polls = {} /\ started = 0
  BY <1>1, <1>2 DEF Init
<1>4. new \in Link
  BY <1>1 DEF Link
<1>5. fresh \in Bridge
  BY <1>2 DEF Bridge
<1>6. NoReply \in Reply
  BY DEF NoReply, Reply
<1>7. Shape
  BY <1>3, <1>4, <1>5, <1>6 DEF Shape
<1>8. \A k \in Conn : /\ conn[k].agent = "none" /\ conn[k].hub = "none" /\ ~conn[k].closed
                      /\ conn[k].seq = 0 /\ conn[k].pending = {} /\ conn[k].sinks = {}
  BY <1>1, <1>3
<1>9. \A b \in Tab : /\ tab[b].pc = "new" /\ tab[b].on = 0 /\ tab[b].id = 0 /\ tab[b].ch = "empty"
                     /\ ~tab[b].mine /\ tab[b].told = "off"
  BY <1>2, <1>3
<1>10. \A k \in Conn : Asks(k) = {} /\ Replied(k) = {} /\ InDown(k) = {} /\ InHandler(k) = {}
  <2> TAKE k \in Conn
  <2>1. InDown(k) = {} /\ InUp(k) = {} /\ InHandler(k) = {}
    BY <1>3 DEF InDown, InUp, InHandler
  <2> QED BY <1>3, <2>1 DEF Asks, Replied, NoReply
<1>11. Dialled /\ Apart /\ Polling
  BY <1>3, <1>8, <1>9 DEF Dialled, Apart, Polling
<1>12. Bridges
  BY <1>9 DEF Bridges, Bridged, Requesting
<1>13. Given
  BY <1>3, <1>8, <1>10 DEF Given
<1>14. Once
  <2>1. \A k \in Conn : Len(down[k]) = 0
    BY <1>3
  <2> QED BY <1>3, <1>10, <2>1 DEF Once
<1>15. Matched /\ Streams
  BY <1>9 DEF Matched, Streams, Streaming, Good
<1> QED BY <1>7, <1>11, <1>12, <1>13, <1>14, <1>15 DEF LinkInv

LEMMA LinkStutter ==
    ASSUME LinkInv, UNCHANGED vars
    PROVE  LinkInv'
<1>1. UNCHANGED <<conn, registered, down, up, hand, tab, handler, subs, polls, started>>
  BY DEF vars
<1>2. \A k \in Conn : /\ InDown(k)' = InDown(k) /\ InHandler(k)' = InHandler(k)
                      /\ Asks(k)' = Asks(k) /\ Replied(k)' = Replied(k) /\ InUp(k)' = InUp(k)
  BY <1>1 DEF InDown, InHandler, Asks, Replied, InUp
<1>3. Shape' /\ Dialled' /\ Apart' /\ Polling'
  BY <1>1 DEF LinkInv, Shape, Dialled, Apart, Polling
<1>4. LinkMoves
  BY <1>1 DEF LinkMoves, LinkInv, Shape, Link
<1> QED BY <1>1, <1>3, <1>4, MovesKeep

LEMMA LinkNext ==
    ASSUME LinkInv, Next
    PROVE  LinkInv'
<1>1. Shape
  BY DEF LinkInv
<1>2. ASSUME NEW k \in Conn, LinkStep(k) \/ HubStep(k) \/ Receives(k) \/ Drop(k)
      PROVE  LinkInv'
  BY <1>2, LinkSteps, TakeReplyKeeps, PassReplyKeeps, PassPaneErrorKeeps, ReceivesKeeps DEF HubStep
<1>3. ASSUME NEW b \in Tab,
             CallStep(b) \/ Open(b) \/ Subscribe(b) \/ Unsubscribe(b) \/ Leave(b) \/ Timeout(b)
      PROVE  LinkInv'
  BY <1>3, CallKeeps, WriteKeeps, ReceiveKeeps, OpenKeeps, SubscribeKeeps, WithdrawKeeps, TimeoutKeeps
     DEF CallStep
<1>4. ASSUME NEW h \in handler, Handle(h)
      PROVE  LinkInv'
  BY <1>1, <1>4, HandleSubscribeDoes, HandleUnsubscribeDoes, RespondDoes,
     SubscribedKeeps, RefusedKeeps, UnsubscribedKeeps, RespondKeeps DEF Handle
<1>5. ASSUME NEW p \in polls, PaneFails(p)
      PROVE  LinkInv'
  BY <1>1, <1>5, PaneFailsDoes, GivesUpKeeps
<1> QED BY <1>2, <1>3, <1>4, <1>5 DEF Next

LEMMA LinkGives == LinkInv => StreamsAgree
<1> SUFFICES ASSUME LinkInv
             PROVE  StreamsAgree
  OBVIOUS
<1>1. Shape /\ Bridges /\ Streams
  BY DEF LinkInv
<1>2. TypeOK
  BY <1>1 DEF Shape, TypeOK, Link, Bridge, Handler
<1>3. ASSUME NEW b \in Tab, tab[b].told = "on", "timeout" \notin tab[b].faults, Serving(tab[b].on)
      PROVE  HasSink(b) /\ (Failing(b) \/ One(b))
  <2>1. tab[b].on # 0
    BY <1>1, <1>3 DEF Bridges, Bridged
  <2> QED BY <1>1, <1>3, <2>1 DEF Streams, Streaming, Good
<1>4. ASSUME NEW b \in Tab, tab[b].pc \in {"idle", "left"}, tab[b].told = "off", tab[b].faults = {},
             tab[b].on # 0, Serving(tab[b].on)
      PROVE  PollsOf(b) = {}
  BY <1>1, <1>4 DEF Bridges, Bridged, Streams, Streaming, Good
<1> QED BY <1>2, <1>3, <1>4 DEF StreamsAgree, StreamIsLive, QuietAfterwards, HasSink, One

\* What tabs are told of their streams is what the agent does, for any set of
\* tabs and however often connections drop, panes fail, requests are refused or
\* time out, and tabs come and go: a tab that was told its subscription stands
\* has its sink and one poll loop that can be cancelled, and nothing polls for
\* one that has unsubscribed or left.
THEOREM Agrees == Spec => []StreamsAgree
<1>1. LinkInv /\ [Next]_vars => LinkInv'
  BY LinkNext, LinkStutter
<1> QED BY LinkInit, LinkGives, <1>1, PTL DEF Spec
=============================================================================
