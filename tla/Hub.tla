--------------------------------- MODULE Hub ---------------------------------
(***************************************************************************)
(* The WebSocket hub of ws/hub.go: rotation goroutines broadcast           *)
(* invalidation events to the connections that watch an environment.       *)
(*                                                                         *)
(* A watcher is one connection: its ServeWS goroutine (register, read      *)
(* pump, unregister), its write-pump goroutine, and the peer.  The hub's   *)
(* RWMutex is a set of readers: what register and unregister do under the  *)
(* write lock is one step, possible when there is no reader.  (Go also     *)
(* holds new readers back while a writer waits; no goroutine asks for the  *)
(* lock while it has it, so that only rules out some of the orders here.)  *)
(***************************************************************************)
EXTENDS Naturals, Sequences, FiniteSets

CONSTANTS
    Watchers,      \* connections, each used once
    Broadcasters,  \* goroutines that call Broadcast
    Envs,
    EnvOf,         \* the environment each connection watches
    Capacity,      \* of a client's send channel (64 in the code)
    MaxEvents      \* bound on the events broadcast

ASSUME HubAssumption ==
    /\ EnvOf \in [Watchers -> Envs]
    /\ Capacity \in Nat \ {0}
    /\ MaxEvents \in Nat

VARIABLES
    clients,       \* Hub.clients: the registered connections of each environment
    readers,       \* the broadcasters holding the read lock
    send, closed,  \* a client's send channel: its buffer, and whether it is closed
    peer,          \* the other end: not there yet, answering, refused, or gone
    rd, wr,        \* where the read pump and the write pump are
    out,           \* the message the write pump is writing
    got,           \* the events the peer has received (auxiliary)
    bc, event, left, \* a broadcast: running or not, its event, clients to go
    events,        \* how many events there have been
    dropped        \* the events each full channel cost its client (auxiliary)

hub  == <<clients, readers>>
chan == <<send, closed>>
conn == <<peer, rd, wr, out, got>>
cast == <<bc, event, left, events, dropped>>
vars == <<clients, readers, send, closed, peer, rd, wr, out, got, bc, event, left,
          events, dropped>>

Event == 0 .. MaxEvents

TypeOK ==
    /\ clients \in [Envs -> SUBSET Watchers]
    /\ readers \subseteq Broadcasters
    /\ send \in [Watchers -> Seq(Event)]
    /\ \A w \in Watchers : Len(send[w]) <= Capacity
    /\ closed \in [Watchers -> BOOLEAN]
    /\ peer \in [Watchers -> {"none", "up", "refused", "down"}]
    /\ rd \in [Watchers -> {"none", "register", "read", "unregister", "done"}]
    /\ wr \in [Watchers -> {"none", "select", "write", "done"}]
    /\ out \in [Watchers -> Event]
    /\ got \in [Watchers -> SUBSET Event]
    /\ bc \in [Broadcasters -> {"idle", "sending"}]
    /\ event \in [Broadcasters -> Event]
    /\ left \in [Broadcasters -> SUBSET Watchers]
    /\ events \in Event
    /\ dropped \in [Watchers -> SUBSET Event]

Init ==
    /\ clients = [e \in Envs |-> {}]
    /\ readers = {}
    /\ send = [w \in Watchers |-> <<>>]
    /\ closed = [w \in Watchers |-> FALSE]
    /\ peer = [w \in Watchers |-> "none"]
    /\ rd = [w \in Watchers |-> "none"]
    /\ wr = [w \in Watchers |-> "none"]
    /\ out = [w \in Watchers |-> 0]
    /\ got = [w \in Watchers |-> {}]
    /\ bc = [x \in Broadcasters |-> "idle"]
    /\ event = [x \in Broadcasters |-> 0]
    /\ left = [x \in Broadcasters |-> {}]
    /\ events = 0
    /\ dropped = [w \in Watchers |-> {}]

-----------------------------------------------------------------------------
(* ServeWS.                                                                *)

\* The upgrade succeeds, and the goroutine asks for the write lock.
Connect(w) ==
    /\ rd[w] = "none"
    /\ peer' = [peer EXCEPT ![w] = "up"]
    /\ rd' = [rd EXCEPT ![w] = "register"]
    /\ UNCHANGED <<hub, chan, wr, out, got, cast>>

\* register, then the write pump is started and the read pump entered.
Register(w) ==
    /\ rd[w] = "register"
    /\ readers = {}
    /\ clients' = [clients EXCEPT ![EnvOf[w]] = @ \cup {w}]
    /\ rd' = [rd EXCEPT ![w] = "read"]
    /\ wr' = [wr EXCEPT ![w] = "select"]
    /\ UNCHANGED <<readers, chan, peer, out, got, cast>>

\* The peer stops answering: it left, stalled, or its network did.
Vanish(w) ==
    /\ peer[w] = "up"
    /\ peer' = [peer EXCEPT ![w] = "down"]
    /\ UNCHANGED <<hub, chan, rd, wr, out, got, cast>>

\* Mutant: no read deadline; a read only fails once the connection is closed.
ReadFailsNoDeadline(w) ==
    /\ rd[w] = "read"
    /\ wr[w] = "done"
    /\ rd' = [rd EXCEPT ![w] = "unregister"]
    /\ UNCHANGED <<hub, chan, peer, wr, out, got, cast>>

\* ReadMessage fails: no pong within pongWait, or the write pump closed the
\* connection.
ReadFails(w) ==
    /\ rd[w] = "read"
    /\ peer[w] = "down" \/ wr[w] = "done"
    /\ rd' = [rd EXCEPT ![w] = "unregister"]
    /\ UNCHANGED <<hub, chan, peer, wr, out, got, cast>>

\* ReadMessage fails on what the peer sent: a close frame, or more than
\* maxIncomingMessage bytes.  gorilla/websocket has answered it with a close frame.
ReadRefused(w) ==
    /\ rd[w] = "read"
    /\ peer[w] = "up"
    /\ peer' = [peer EXCEPT ![w] = "refused"]
    /\ rd' = [rd EXCEPT ![w] = "unregister"]
    /\ UNCHANGED <<hub, chan, wr, out, got, cast>>

\* unregister: off the map and the channel closed, under one write lock.
Unregister(w) ==
    /\ rd[w] = "unregister"
    /\ readers = {}
    /\ clients' = [clients EXCEPT ![EnvOf[w]] = @ \ {w}]
    /\ closed' = [closed EXCEPT ![w] = TRUE]
    /\ rd' = [rd EXCEPT ![w] = "done"]
    /\ UNCHANGED <<readers, send, peer, wr, out, got, cast>>

-----------------------------------------------------------------------------
(* The write pump.                                                         *)

\* A message off the channel, which a close leaves readable until it is empty; then
\* the close frame is sent and the connection closed.
Receive(w) ==
    /\ wr[w] = "select"
    /\ \/ /\ send[w] # <<>>
          /\ out' = [out EXCEPT ![w] = Head(send[w])]
          /\ send' = [send EXCEPT ![w] = Tail(@)]
          /\ wr' = [wr EXCEPT ![w] = "write"]
       \/ /\ send[w] = <<>> /\ closed[w]
          /\ wr' = [wr EXCEPT ![w] = "done"]
          /\ UNCHANGED <<out, send>>
    /\ UNCHANGED <<hub, closed, peer, rd, got, cast>>

\* WriteMessage: written; or, when the peer no longer answers, swallowed by the
\* network or failed within writeWait; or failed because a close frame was sent,
\* unless the message was first.  On a failure the connection is closed.
Write(w) ==
    /\ wr[w] = "write"
    /\ \/ /\ peer[w] \in {"up", "refused"}
          /\ got' = [got EXCEPT ![w] = @ \cup {out[w]}]
          /\ wr' = [wr EXCEPT ![w] = "select"]
       \/ /\ peer[w] = "down"
          /\ wr' = [wr EXCEPT ![w] = "select"]
          /\ UNCHANGED got
       \/ /\ peer[w] \in {"refused", "down"}
          /\ wr' = [wr EXCEPT ![w] = "done"]
          /\ UNCHANGED got
    /\ out' = [out EXCEPT ![w] = 0]
    /\ UNCHANGED <<hub, chan, peer, rd, cast>>

\* The ping fails.  (One that succeeds changes nothing.)
PingFails(w) ==
    /\ wr[w] = "select"
    /\ peer[w] \in {"refused", "down"}
    /\ wr' = [wr EXCEPT ![w] = "done"]
    /\ UNCHANGED <<hub, chan, peer, rd, out, got, cast>>

-----------------------------------------------------------------------------
(* Broadcast.                                                              *)

\* Mutant: the read lock is released before the loop.
BeginBroadcastUnlocked(x, e) ==
    /\ bc[x] = "idle"
    /\ events < MaxEvents
    /\ events' = events + 1
    /\ event' = [event EXCEPT ![x] = events + 1]
    /\ bc' = [bc EXCEPT ![x] = "sending"]
    /\ left' = [left EXCEPT ![x] = clients[e]]
    /\ UNCHANGED <<hub, chan, conn, dropped>>

\* RLock, and the loop over the environment's clients begins.
BeginBroadcast(x, e) ==
    /\ bc[x] = "idle"
    /\ events < MaxEvents
    /\ events' = events + 1
    /\ event' = [event EXCEPT ![x] = events + 1]
    /\ bc' = [bc EXCEPT ![x] = "sending"]
    /\ left' = [left EXCEPT ![x] = clients[e]]
    /\ readers' = readers \cup {x}
    /\ UNCHANGED <<clients, chan, conn, dropped>>

\* Into the buffer of w, or dropped.
Put(x, w) ==
    IF Len(send[w]) < Capacity
    THEN send' = [send EXCEPT ![w] = Append(@, event[x])] /\ UNCHANGED dropped
    ELSE dropped' = [dropped EXCEPT ![w] = @ \cup {event[x]}] /\ UNCHANGED send

\* Mutant: no default case.
OfferBlocking(x, w) ==
    /\ bc[x] = "sending" /\ w \in left[x]
    /\ left' = [left EXCEPT ![x] = @ \ {w}]
    /\ Len(send[w]) < Capacity
    /\ Put(x, w)
    /\ UNCHANGED <<hub, closed, conn, bc, event, events>>

\* Mutant: the default case returns instead of going on to the next client.
OfferOrReturn(x, w) ==
    /\ bc[x] = "sending" /\ w \in left[x]
    /\ left' = [left EXCEPT ![x] = IF Len(send[w]) < Capacity THEN @ \ {w} ELSE {}]
    /\ Put(x, w)
    /\ UNCHANGED <<hub, closed, conn, bc, event, events>>

\* `select { case c.send <- b: default: }`, and on to the next client.
Offer(x, w) ==
    /\ bc[x] = "sending" /\ w \in left[x]
    /\ left' = [left EXCEPT ![x] = @ \ {w}]
    /\ Put(x, w)
    /\ UNCHANGED <<hub, closed, conn, bc, event, events>>

\* The deferred RUnlock.
EndBroadcast(x) ==
    /\ bc[x] = "sending" /\ left[x] = {}
    /\ bc' = [bc EXCEPT ![x] = "idle"]
    /\ readers' = readers \ {x}
    /\ event' = [event EXCEPT ![x] = 0]
    /\ UNCHANGED <<clients, chan, conn, left, events, dropped>>

-----------------------------------------------------------------------------
Pump(w) ==
    \/ Register(w) \/ ReadFails(w) \/ Unregister(w)
    \/ Receive(w) \/ Write(w) \/ PingFails(w)

Loop(x) == (\E w \in Watchers : Offer(x, w)) \/ EndBroadcast(x)

Next ==
    \/ \E w \in Watchers : Connect(w) \/ Vanish(w) \/ ReadRefused(w) \/ Pump(w)
    \/ \E x \in Broadcasters : Loop(x) \/ \E e \in Envs : BeginBroadcast(x, e)

Spec == Init /\ [][Next]_vars

\* Goroutines run, deadlines expire.  A ping need not fail: a dead network may
\* swallow it.
FairSpec ==
    /\ Spec
    /\ \A x \in Broadcasters : WF_vars(Loop(x))
    /\ \A w \in Watchers :
          /\ WF_vars(Register(w)) /\ WF_vars(ReadFails(w)) /\ WF_vars(Unregister(w))
          /\ WF_vars(Receive(w)) /\ WF_vars(Write(w))

-----------------------------------------------------------------------------
(* Properties.                                                             *)

\* A broadcast only ever sends on open channels of clients still in the map it
\* iterates, however connections come and go meanwhile: neither of the two runtime
\* aborts Broadcast's comment describes can happen.
SendsOnlyToOpen ==
    \A x \in Broadcasters, w \in Watchers :
        (bc[x] = "sending" /\ w \in left[x]) => ~closed[w] /\ w \in clients[EnvOf[w]]

\* Its inductive form: the broadcasters in their loop are the readers, and a
\* connection is on the map, with an open channel, from register to unregister.
LockInv ==
    /\ SendsOnlyToOpen
    /\ \A x \in Broadcasters : bc[x] = "sending" => x \in readers
    /\ \A e \in Envs, w \in Watchers :
          w \in clients[e] <=> e = EnvOf[w] /\ rd[w] \in {"read", "unregister"}
    /\ \A w \in Watchers : closed[w] => rd[w] = "done"

\* A broadcast never waits for a slow, stalled or vanished peer.
BroadcastEnds == \A x \in Broadcasters : bc[x] = "sending" ~> bc[x] = "idle"

\* An event reaches every connection registered when its broadcast began, unless
\* that connection's own channel was full, or its own peer stopped answering or made
\* the hub end the connection: what other connections do costs it nothing.
BroadcastReaches ==
    \A w \in Watchers : \A n \in 1 .. MaxEvents :
        (\E x \in Broadcasters : bc[x] = "sending" /\ event[x] = n /\ w \in left[x])
            ~> (n \in got[w] \cup dropped[w] \/ peer[w] # "up")

\* A peer that vanishes costs neither goroutine, connection nor slot for ever.
VanishedIsForgotten ==
    \A w \in Watchers :
        peer[w] = "down" ~> (rd[w] = "done" /\ wr[w] = "done" /\ w \notin clients[EnvOf[w]])
=============================================================================
