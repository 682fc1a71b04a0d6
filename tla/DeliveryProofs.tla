---------------------------- MODULE DeliveryProofs ---------------------------
(***************************************************************************)
(* Proofs about how a changed secret reaches an application: the hub,      *)
(* which is extended, and the two SDKs, which are instances.  What an SDK  *)
(* promises is extended, too, so that the instances share the variables it *)
(* is about; they have one server, and the rest of each is its own.        *)
(*                                                                         *)
(* For any number of connections, broadcasters, events, goroutines,        *)
(* changes at the server, retries and failed requests, and any capacity of *)
(* the channels.                                                           *)
(*                                                                         *)
(* An instance's assumption about its constants is a hypothesis of every   *)
(* theorem about it.                                                       *)
(***************************************************************************)
EXTENDS Hub, GoPromises, NodePromises, TLAPS

CONSTANTS
    MaxRetries, MaxVersion, MaxFaults,             \* of either SDK
    Apps, Spawned, Main, Poller, NoThread          \* of the Go SDK

VARIABLES
    server,
    goStale, goAttempt, goClosed, goGot, goFaults, phase, pc, leader,
    stale, stage, attempt, nodeGot, background, ready, polling, ws, inbox,
    listening, destroyed, alive, faults

Go == INSTANCE GoClient WITH
    stale <- goStale, attempt <- goAttempt, closed <- goClosed,
    got <- goGot, faults <- goFaults

Node == INSTANCE NodeClient WITH got <- nodeGot

USE HubAssumption

LEMMA TypeInit == Init => TypeOK
  BY DEF Init, TypeOK, Event

LEMMA SendType ==
  ASSUME TypeOK, NEW w \in Watchers, NEW s \in Seq(Event), Len(s) <= Capacity,
         send' = [send EXCEPT ![w] = s]
  PROVE  /\ send' \in [Watchers -> Seq(Event)]
         /\ \A v \in Watchers : Len(send'[v]) <= Capacity
  BY DEF TypeOK

LEMMA TypeNext == TypeOK /\ [Next]_vars => TypeOK'
  <1> SUFFICES ASSUME TypeOK, [Next]_vars PROVE TypeOK'
    OBVIOUS
  <1> USE DEF hub, chan, conn, cast
  <1>1. CASE UNCHANGED vars
    BY <1>1 DEF TypeOK, vars
  <1>2. ASSUME NEW w \in Watchers, Connect(w) PROVE TypeOK'
    BY <1>2 DEF TypeOK, Connect
  <1>3. ASSUME NEW w \in Watchers, Vanish(w) PROVE TypeOK'
    BY <1>3 DEF TypeOK, Vanish
  <1>4. ASSUME NEW w \in Watchers, ReadRefused(w) PROVE TypeOK'
    BY <1>4 DEF TypeOK, ReadRefused
  <1>5. ASSUME NEW w \in Watchers, Register(w) PROVE TypeOK'
    BY <1>5 DEF TypeOK, Register
  <1>6. ASSUME NEW w \in Watchers, ReadFails(w) PROVE TypeOK'
    BY <1>6 DEF TypeOK, ReadFails
  <1>7. ASSUME NEW w \in Watchers, Unregister(w) PROVE TypeOK'
    BY <1>7 DEF TypeOK, Unregister
  <1>8. ASSUME NEW w \in Watchers, Receive(w) PROVE TypeOK'
    <2>1. CASE send[w] # <<>> /\ send' = [send EXCEPT ![w] = Tail(@)]
               /\ out' = [out EXCEPT ![w] = Head(send[w])]
               /\ wr' = [wr EXCEPT ![w] = "write"]
      <3>1. /\ send[w] \in Seq(Event) /\ Len(send[w]) \in Nat /\ Len(send[w]) <= Capacity
            /\ send[w] # <<>>
        BY <2>1 DEF TypeOK
      <3>2. /\ Head(send[w]) \in Event /\ Tail(send[w]) \in Seq(Event)
            /\ Len(Tail(send[w])) = Len(send[w]) - 1
        BY <3>1
      <3>3. Len(Tail(send[w])) <= Capacity
        BY <3>1, <3>2
      <3>4. /\ send' \in [Watchers -> Seq(Event)]
            /\ \A v \in Watchers : Len(send'[v]) <= Capacity
        BY <2>1, <3>2, <3>3, SendType
      <3> QED
        BY <1>8, <2>1, <3>2, <3>4 DEF TypeOK, Receive
    <2>2. CASE wr' = [wr EXCEPT ![w] = "done"] /\ UNCHANGED <<out, send>>
      BY <1>8, <2>2 DEF TypeOK, Receive
    <2> QED
      BY <1>8, <2>1, <2>2 DEF Receive
  <1>9. ASSUME NEW w \in Watchers, Write(w) PROVE TypeOK'
    <2>1. got' \in [Watchers -> SUBSET Event] /\ out' \in [Watchers -> Event]
      <3>1. out[w] \in Event /\ 0 \in Event
        BY DEF TypeOK, Event
      <3>2. out' = [out EXCEPT ![w] = 0] /\ (got' = [got EXCEPT ![w] = @ \cup {out[w]}] \/ got' = got)
        BY <1>9, Zenon DEF Write
      <3>3. out' \in [Watchers -> Event]
        BY <3>1, <3>2 DEF TypeOK
      <3>4. CASE got' = [got EXCEPT ![w] = @ \cup {out[w]}]
        <4>1. got[w] \cup {out[w]} \in SUBSET Event
          BY <3>1 DEF TypeOK
        <4> QED
          BY <3>3, <3>4, <4>1 DEF TypeOK
      <3>5. CASE got' = got
        BY <3>3, <3>5 DEF TypeOK
      <3> QED
        BY <3>2, <3>4, <3>5
    <2>2. wr' \in [Watchers -> {"none", "select", "write", "done"}]
      BY <1>9 DEF TypeOK, Write
    <2>3. UNCHANGED <<hub, chan, peer, rd, cast>>
      BY <1>9 DEF Write
    <2> QED
      BY <2>1, <2>2, <2>3 DEF TypeOK
  <1>10. ASSUME NEW w \in Watchers, PingFails(w) PROVE TypeOK'
    BY <1>10 DEF TypeOK, PingFails
  <1>11. ASSUME NEW x \in Broadcasters, NEW e \in Envs, BeginBroadcast(x, e) PROVE TypeOK'
    BY <1>11 DEF TypeOK, BeginBroadcast, Event
  <1>12. ASSUME NEW x \in Broadcasters, NEW w \in Watchers, Offer(x, w) PROVE TypeOK'
    <2>1. CASE /\ Len(send[w]) < Capacity /\ send' = [send EXCEPT ![w] = Append(@, event[x])]
               /\ dropped' = dropped
      <3>1. /\ send[w] \in Seq(Event) /\ event[x] \in Event /\ Len(send[w]) \in Nat
        BY DEF TypeOK
      <3>2. /\ Append(send[w], event[x]) \in Seq(Event)
            /\ Len(Append(send[w], event[x])) = Len(send[w]) + 1
        BY <3>1
      <3>3. /\ send' \in [Watchers -> Seq(Event)]
            /\ \A v \in Watchers : Len(send'[v]) <= Capacity
        <4>1. Len(Append(send[w], event[x])) <= Capacity
          BY <2>1, <3>1, <3>2
        <4>2. send' = [send EXCEPT ![w] = Append(send[w], event[x])]
          BY <2>1
        <4> QED
          BY <3>2, <4>1, <4>2, SendType
      <3> QED
        BY <1>12, <2>1, <3>3 DEF TypeOK, Offer
    <2>2. CASE send' = send /\ dropped' = [dropped EXCEPT ![w] = @ \cup {event[x]}]
      BY <1>12, <2>2 DEF TypeOK, Offer
    <2> QED
      BY <1>12, <2>1, <2>2 DEF Offer, Put
  <1>13. ASSUME NEW x \in Broadcasters, EndBroadcast(x) PROVE TypeOK'
    BY <1>13 DEF TypeOK, EndBroadcast, Event
  <1> QED
    BY <1>1, <1>2, <1>3, <1>4, <1>5, <1>6, <1>7, <1>8, <1>9, <1>10, <1>11, <1>12, <1>13
    DEF Next, Pump, Loop

\* Type correctness, with the bound on every client's channel.
THEOREM TypeCorrect == Spec => []TypeOK
  BY TypeInit, TypeNext, PTL DEF Spec

-----------------------------------------------------------------------------
\* Steps that neither change the map nor start a broadcast.
LEMMA LockKept ==
  ASSUME LockInv, UNCHANGED <<clients, closed>>,
         \A w \in Watchers : (rd'[w] \in {"read", "unregister"}) <=> (rd[w] \in {"read", "unregister"}),
         \A w \in Watchers : rd[w] = "done" => rd'[w] = "done",
         \A x \in Broadcasters : bc'[x] = "sending" =>
             bc[x] = "sending" /\ left'[x] \subseteq left[x] /\ (x \in readers => x \in readers')
  PROVE  LockInv'
  BY DEF LockInv, SendsOnlyToOpen

LEMMA LockNext == TypeOK /\ LockInv /\ [Next]_vars => LockInv'
  <1> SUFFICES ASSUME TypeOK, LockInv, [Next]_vars PROVE LockInv'
    OBVIOUS
  <1> USE DEF hub, chan, conn, cast
  <1>1. CASE UNCHANGED vars
    BY <1>1, LockKept DEF vars
  <1>2. ASSUME NEW w \in Watchers,
               \/ Connect(w) \/ Vanish(w) \/ ReadRefused(w) \/ ReadFails(w)
               \/ Receive(w) \/ Write(w) \/ PingFails(w)
        PROVE  LockInv'
    <2>1. UNCHANGED <<clients, closed, readers, bc, left>>
      BY <1>2 DEF Connect, Vanish, ReadRefused, ReadFails, Receive, Write, PingFails
    <2>2. /\ \A v \in Watchers : (rd'[v] \in {"read", "unregister"}) <=> (rd[v] \in {"read", "unregister"})
          /\ \A v \in Watchers : rd[v] = "done" => rd'[v] = "done"
      BY <1>2 DEF TypeOK, Connect, Vanish, ReadRefused, ReadFails, Receive, Write, PingFails
    <2> QED
      BY <2>1, <2>2, LockKept
  <1>3. ASSUME NEW w \in Watchers, Register(w) PROVE LockInv'
    BY <1>3 DEF TypeOK, Register, LockInv, SendsOnlyToOpen
  <1>4. ASSUME NEW w \in Watchers, Unregister(w) PROVE LockInv'
    <2>1. \A x \in Broadcasters : bc[x] # "sending"
      BY <1>4 DEF LockInv, Unregister
    <2> QED
      BY <1>4, <2>1 DEF TypeOK, Unregister, LockInv, SendsOnlyToOpen
  <1>5. ASSUME NEW x \in Broadcasters, NEW e \in Envs, BeginBroadcast(x, e) PROVE LockInv'
    <2>1. ASSUME NEW w \in clients[e]
          PROVE  w \in Watchers /\ ~closed[w] /\ w \in clients[EnvOf[w]]
      <3>1. w \in Watchers
        BY DEF TypeOK
      <3>2. e = EnvOf[w] /\ rd[w] # "done"
        BY <3>1 DEF LockInv
      <3> QED
        BY <3>1, <3>2 DEF LockInv
    <2> QED
      BY <1>5, <2>1 DEF TypeOK, BeginBroadcast, LockInv, SendsOnlyToOpen
  <1>6. ASSUME NEW x \in Broadcasters, NEW w \in Watchers, Offer(x, w) PROVE LockInv'
    BY <1>6, LockKept DEF TypeOK, Offer
  <1>7. ASSUME NEW x \in Broadcasters, EndBroadcast(x) PROVE LockInv'
    BY <1>7, LockKept DEF TypeOK, EndBroadcast
  <1> QED
    BY <1>1, <1>2, <1>3, <1>4, <1>5, <1>6, <1>7 DEF Next, Pump, Loop

LEMMA LockInit == Init => LockInv
  BY DEF Init, LockInv, SendsOnlyToOpen

\* The map and the channels of a broadcast in progress never change under it: no
\* send on a closed channel, no iteration of a map being written.
THEOREM NeverSendsOnClosed == Spec => []SendsOnlyToOpen
  <1>1. LockInv => SendsOnlyToOpen
    BY DEF LockInv
  <1> QED
    BY <1>1, TypeInit, TypeNext, LockInit, LockNext, PTL DEF Spec

-----------------------------------------------------------------------------
(* The Go SDK.                                                             *)

LEMMA GoTypeInit ==
  ASSUME Go!GoClientAssumption
  PROVE  Go!Init => Go!TypeOK
<1> SUFFICES ASSUME Go!Init PROVE Go!TypeOK
    OBVIOUS
<1>1. goStale \in BOOLEAN /\ goClosed \in BOOLEAN /\ wiped \in BOOLEAN
  BY Zenon DEF Go!Init
<1>2. pc \in [Go!Threads -> Go!Places]
  BY DEF Go!Init, Go!Places
<1>. QED
  BY <1>1, <1>2 DEF Go!GoClientAssumption, Go!Init, Go!TypeOK

LEMMA GoTypeStep ==
  ASSUME Go!GoClientAssumption
  PROVE  Go!TypeOK /\ [Go!Next]_(Go!vars) => Go!TypeOK'
<1> SUFFICES ASSUME Go!TypeOK, [Go!Next]_(Go!vars) PROVE Go!TypeOK'
    OBVIOUS
<1> USE DEF Go!GoClientAssumption, Go!TypeOK, Go!Places
<1>1. CASE UNCHANGED Go!vars
  BY <1>1 DEF Go!vars
<1>2. CASE Go!ServerWrites
  BY <1>2 DEF Go!ServerWrites
<1>3. CASE Go!TtlPasses
  BY <1>3 DEF Go!TtlPasses
<1>4. CASE Go!Opened
  BY <1>4 DEF Go!Opened, Go!Store, Go!Threads
<1>5. CASE Go!Retry
  BY <1>5 DEF Go!Retry, Go!FetchFails, Go!Goto, Go!Threads
<1>6. CASE Go!Poll \/ Go!Stop
  BY <1>6 DEF Go!Poll, Go!Stop, Go!Goto
<1>7. ASSUME NEW t \in Go!Threads, Go!Do(t)
      PROVE  Go!TypeOK'
  BY <1>7 DEF Go!Do, Go!Goto
<1>8. ASSUME NEW t \in Go!Threads, Go!Serve(t)
      PROVE  Go!TypeOK'
  BY <1>8 DEF Go!Serve, Go!Goto
<1>9. ASSUME NEW t \in Go!Threads, Go!Refreshed(t)
      PROVE  Go!TypeOK'
  BY <1>9 DEF Go!Refreshed, Go!Store, Go!Goto
<1>10. ASSUME NEW t \in Go!Threads, Go!RefreshFailed(t)
       PROVE  Go!TypeOK'
  BY <1>10 DEF Go!RefreshFailed, Go!FetchFails, Go!Goto
<1>11. ASSUME NEW t \in Go!Threads, Go!EndCall(t)
       PROVE  Go!TypeOK'
  BY <1>11 DEF Go!EndCall, Go!Home
<1>12. ASSUME NEW t \in Go!Threads, Go!Read(t)
       PROVE  Go!TypeOK'
  BY <1>12 DEF Go!Read, Go!Goto, Go!Threads
<1>13. ASSUME NEW t \in Go!Threads, Go!Wipe(t)
       PROVE  Go!TypeOK'
  BY <1>13 DEF Go!Wipe, Go!Goto
<1>14. ASSUME NEW a \in Apps, Go!Get(a) \/ Go!Refresh(a)
       PROVE  Go!TypeOK'
  BY <1>14 DEF Go!Get, Go!Refresh, Go!Enter, Go!Goto, Go!Threads
<1>15. ASSUME NEW a \in Apps, Go!Close(a)
       PROVE  Go!TypeOK'
  BY <1>15 DEF Go!Close, Go!Goto, Go!Threads
<1>. QED
  BY <1>1, <1>2, <1>3, <1>4, <1>5, <1>6, <1>7, <1>8, <1>9, <1>10, <1>11, <1>12,
     <1>13, <1>14, <1>15
  DEF Go!Next, Go!Run

\* Every variable keeps its type.
THEOREM GoTypeCorrect ==
  ASSUME Go!GoClientAssumption
  PROVE  Go!Spec => []Go!TypeOK
<1>. QED
  BY GoTypeInit, GoTypeStep, PTL DEF Go!Spec

-----------------------------------------------------------------------------
\* Until New has returned its goroutine is the only one; afterwards only the leader
\* of the singleflight call fetches.
GoAlone ==
    /\ phase = "starting" => /\ ~wiped /\ secrets = 0
                             /\ pc[Main] \in {"request", "answer"}
                             /\ \A t \in Go!Threads \ {Main} : pc[t] = "idle"
    /\ phase # "starting" => pc[Main] = "idle"
    /\ \A t \in Go!Threads \ {Main} :
          pc[t] \in {"request", "answer", "done", "error"} => leader = t

\* A response that was received is no older than the cache, nor newer than the server.
GoOrdered ==
    /\ secrets <= server
    /\ \A t \in Go!Threads : /\ goGot[t] <= server
                             /\ pc[t] = "answer" => secrets <= goGot[t]

GoIInv == GoAlone /\ GoOrdered

LEMMA GoIInvInit ==
  ASSUME Go!GoClientAssumption
  PROVE  Go!Init => GoIInv
<1> SUFFICES ASSUME Go!Init PROVE GoIInv
    OBVIOUS
<1>1. wiped = FALSE
  BY Zenon DEF Go!Init
<1>2. GoAlone
  BY <1>1 DEF Go!GoClientAssumption, Go!Init, GoAlone, Go!Threads
<1>3. GoOrdered
  BY DEF Go!GoClientAssumption, Go!Init, GoOrdered
<1>. QED
  BY <1>1, <1>2, <1>3 DEF GoIInv

LEMMA GoIInvStep ==
  ASSUME Go!GoClientAssumption
  PROVE  Go!TypeOK /\ GoIInv /\ [Go!Next]_(Go!vars) => GoIInv'
<1> SUFFICES ASSUME Go!TypeOK, GoIInv, [Go!Next]_(Go!vars) PROVE GoIInv'
    OBVIOUS
<1> USE DEF Go!GoClientAssumption, Go!TypeOK, GoIInv, GoAlone, GoOrdered
<1>0. Main \in Go!Threads /\ Poller \in Go!Threads /\ Apps \subseteq Go!Threads
      /\ Spawned \subseteq Go!Threads
  BY DEF Go!Threads
<1>1. CASE UNCHANGED Go!vars
  BY <1>1 DEF Go!vars
<1>2. CASE Go!ServerWrites
  BY <1>2 DEF Go!ServerWrites
<1>3. CASE Go!TtlPasses
  BY <1>3 DEF Go!TtlPasses
<1>4. CASE Go!Opened
  BY <1>0, <1>4 DEF Go!Opened, Go!Store
<1>5. CASE Go!Retry
  BY <1>0, <1>5 DEF Go!Retry, Go!FetchFails, Go!Goto
<1>6. CASE Go!Poll \/ Go!Stop
  BY <1>0, <1>6 DEF Go!Poll, Go!Stop, Go!Goto
<1>7. ASSUME NEW t \in Go!Threads, Go!Do(t)
      PROVE  GoIInv'
  BY <1>0, <1>7 DEF Go!Do, Go!Goto
<1>8. ASSUME NEW t \in Go!Threads, Go!Serve(t)
      PROVE  GoIInv'
  BY <1>0, <1>8 DEF Go!Serve, Go!Goto
<1>9. ASSUME NEW t \in Go!Threads, Go!Refreshed(t)
      PROVE  GoIInv'
  BY <1>0, <1>9 DEF Go!Refreshed, Go!Store, Go!Goto
<1>10. ASSUME NEW t \in Go!Threads, Go!RefreshFailed(t)
       PROVE  GoIInv'
  BY <1>0, <1>10 DEF Go!RefreshFailed, Go!FetchFails, Go!Goto
<1>11. ASSUME NEW t \in Go!Threads, Go!EndCall(t)
       PROVE  GoIInv'
  BY <1>0, <1>11 DEF Go!EndCall, Go!Home
<1>12. ASSUME NEW t \in Go!Threads, Go!Read(t)
       PROVE  GoIInv'
  BY <1>0, <1>12 DEF Go!Read, Go!Goto
<1>13. ASSUME NEW t \in Go!Threads, Go!Wipe(t)
       PROVE  GoIInv'
  BY <1>0, <1>13 DEF Go!Wipe, Go!Goto
<1>14. ASSUME NEW a \in Apps, Go!Get(a) \/ Go!Refresh(a)
       PROVE  GoIInv'
  BY <1>0, <1>14 DEF Go!Get, Go!Refresh, Go!Enter, Go!Goto
<1>15. ASSUME NEW a \in Apps, Go!Close(a)
       PROVE  GoIInv'
  BY <1>0, <1>15 DEF Go!Close, Go!Goto
<1>. QED
  BY <1>1, <1>2, <1>3, <1>4, <1>5, <1>6, <1>7, <1>8, <1>9, <1>10, <1>11, <1>12,
     <1>13, <1>14, <1>15
  DEF Go!Next, Go!Run

LEMMA GoIInvHolds ==
  ASSUME Go!GoClientAssumption
  PROVE  Go!Spec => [](Go!TypeOK /\ GoIInv)
<1>. QED
  BY GoTypeInit, GoTypeStep, GoIInvInit, GoIInvStep, PTL DEF Go!Spec

\* Only two steps write the cache: one stores a response that is not older than what
\* it replaces, the other is Close's.
LEMMA GoCacheStep ==
  ASSUME Go!GoClientAssumption
  PROVE  Go!TypeOK /\ GoIInv /\ [Go!Next]_(Go!vars)
            => [secrets' >= secrets \/ (secrets' = 0 /\ wiped')]_<<secrets, wiped>>
<1> SUFFICES ASSUME Go!TypeOK, GoIInv, [Go!Next]_(Go!vars)
             PROVE  secrets' >= secrets \/ (secrets' = 0 /\ wiped')
    OBVIOUS
<1> USE DEF Go!GoClientAssumption, Go!TypeOK, GoIInv, GoOrdered
<1>1. CASE Go!Opened
  BY <1>1 DEF Go!Opened, Go!Store, Go!Threads
<1>2. ASSUME NEW t \in Go!Threads, Go!Refreshed(t)
      PROVE  secrets' >= secrets
  BY <1>2 DEF Go!Refreshed, Go!Store
<1>3. ASSUME NEW t \in Go!Threads, Go!Wipe(t)
      PROVE  secrets' = 0 /\ wiped'
  BY <1>3 DEF Go!Wipe
<1>4. CASE secrets' = secrets
  BY <1>4
<1>. QED
  BY <1>1, <1>2, <1>3, <1>4
  DEF Go!Next, Go!Run, Go!vars, Go!ServerWrites, Go!TtlPasses, Go!Retry, Go!Poll, Go!Stop, Go!Do, Go!Serve,
      Go!RefreshFailed, Go!EndCall, Go!Read, Go!Get, Go!Refresh, Go!Enter, Go!Close

\* Whoever refreshes it, and however the responses come in, the cache never goes back.
THEOREM GoNoRollback ==
  ASSUME Go!GoClientAssumption
  PROVE  Go!Spec => SecretsNeverGoBack
<1>. QED
  BY GoIInvHolds, GoCacheStep, PTL DEF Go!Spec, SecretsNeverGoBack

-----------------------------------------------------------------------------
(* The Node SDK.                                                           *)

\* The part of TypeOK about the two fetches.
NodeFetches ==
    /\ stage \in [Node!Slots -> {"idle", "sent", "served", "backoff"}]
    /\ attempt \in [Node!Slots -> 0 .. MaxRetries]
    /\ nodeGot \in [Node!Slots -> Nat]

LEMMA NodeTypeInit ==
  ASSUME Node!NodeClientAssumption
  PROVE  Node!Init => Node!TypeOK
<1> SUFFICES ASSUME Node!Init PROVE Node!TypeOK
    OBVIOUS
<1>1. /\ stale \in BOOLEAN /\ background \in BOOLEAN /\ ready \in BOOLEAN
      /\ polling \in BOOLEAN /\ listening \in BOOLEAN /\ destroyed \in BOOLEAN
      /\ alive \in BOOLEAN /\ early \in BOOLEAN
  BY Zenon DEF Node!Init
<1>. QED
  BY <1>1 DEF Node!NodeClientAssumption, Node!Init, Node!TypeOK

LEMMA NodeTypeStep ==
  ASSUME Node!NodeClientAssumption
  PROVE  Node!TypeOK /\ [Node!Next]_(Node!vars) => Node!TypeOK'
<1> SUFFICES ASSUME Node!TypeOK, [Node!Next]_(Node!vars) PROVE Node!TypeOK'
    OBVIOUS
<1> USE DEF Node!NodeClientAssumption, Node!TypeOK, Node!fetch
<1>0. "initial" \in Node!Slots /\ "locked" \in Node!Slots
  BY DEF Node!Slots
<1>1. CASE UNCHANGED Node!vars
  BY <1>1 DEF Node!vars
<1>2. CASE Node!ServerWrites
  BY <1>2 DEF Node!ServerWrites
<1>3. CASE Node!TtlPasses
  BY <1>3 DEF Node!TtlPasses
<1>4. ASSUME NEW s \in Node!Slots, Node!Serve(s) PROVE Node!TypeOK'
  BY <1>4 DEF Node!Serve
<1>5. ASSUME NEW s \in Node!Slots, Node!Retry(s) PROVE Node!TypeOK'
  BY <1>5 DEF Node!Retry, Node!Fails
<1>6. ASSUME NEW s \in Node!Slots, Node!BackoffEnds(s) PROVE Node!TypeOK'
  BY <1>6 DEF Node!BackoffEnds
<1>7. ASSUME NEW s \in Node!Slots, Node!Store(s)
      PROVE  cache' \in Nat /\ best' \in Nat /\ stale' \in BOOLEAN /\ NodeFetches'
  <2>1. stale' \in BOOLEAN
    BY <1>7, Zenon DEF Node!Store
  <2>. QED
    BY <1>7, <2>1 DEF Node!Store, Node!End, NodeFetches
<1>8. ASSUME NEW s \in Node!Slots, Node!GivesUp(s)
      PROVE  faults' \in 0 .. MaxFaults /\ NodeFetches'
  BY <1>8 DEF Node!GivesUp, Node!Fails, Node!End, NodeFetches
<1>9. CASE Node!Loaded
  <2>1. polling' \in BOOLEAN /\ ready' \in BOOLEAN
    BY <1>9, Zenon DEF Node!Loaded
  <2>2. ws' \in {"none", "connecting", "open", "closing", "waiting"}
    BY <1>9 DEF Node!Loaded
  <2>. QED
    BY <1>0, <1>7, <1>9, <2>1, <2>2 DEF Node!Loaded, NodeFetches
<1>10. CASE Node!LoadFails
  <2>1. alive' \in BOOLEAN /\ ready' \in BOOLEAN
    BY <1>10, Zenon DEF Node!LoadFails, Node!EmitError
  <2>. QED
    BY <1>0, <1>8, <1>10, <2>1 DEF Node!LoadFails, NodeFetches
<1>11. CASE Node!Refreshed
  <2>1. background' \in BOOLEAN
    BY <1>11, Zenon DEF Node!Refreshed
  <2>. QED
    BY <1>0, <1>7, <1>11, <2>1 DEF Node!Refreshed, NodeFetches
<1>12. CASE Node!RefreshFails
  <2>1. alive' \in BOOLEAN /\ background' \in BOOLEAN
    BY <1>12, Zenon DEF Node!RefreshFails, Node!EmitError
  <2>. QED
    BY <1>0, <1>8, <1>12, <2>1 DEF Node!RefreshFails, NodeFetches
<1>13. ASSUME NEW b \in BOOLEAN, Node!FetchSecrets(b)
       PROVE  background' \in BOOLEAN /\ NodeFetches'
  BY <1>13 DEF Node!FetchSecrets, Node!Begin, NodeFetches
<1>14. ASSUME NEW b \in BOOLEAN, Node!Use(b) PROVE Node!TypeOK'
  <2>1. early' \in BOOLEAN
    BY <1>14, Zenon DEF Node!Use
  <2>. QED
    BY <1>13, <1>14, <2>1 DEF Node!Use, NodeFetches
<1>15. CASE Node!Poll
  BY <1>13, <1>15 DEF Node!Poll, NodeFetches
<1>16. CASE Node!Message
  <2>1. cache' \in Nat /\ inbox' \in Nat
    BY <1>16 DEF Node!Message
  <2>. QED
    BY <1>13, <1>16, <2>1 DEF Node!Message, NodeFetches
<1>17. CASE Node!Open \/ Node!Closed \/ Node!ClosedForGood \/ Node!Reconnect
  BY <1>17 DEF Node!Open, Node!Closed, Node!ClosedForGood, Node!Reconnect, Node!SocketStep
<1>18. CASE Node!Destroy
  BY <1>18 DEF Node!Destroy
<1>. QED
  BY <1>1, <1>2, <1>3, <1>4, <1>5, <1>6, <1>9, <1>10, <1>11, <1>12, <1>14, <1>15,
     <1>16, <1>17, <1>18
  DEF Node!Next, Node!Get, Node!Refresh

\* Every variable keeps its type.
THEOREM NodeTypeCorrect ==
  ASSUME Node!NodeClientAssumption
  PROVE  Node!Spec => []Node!TypeOK
<1>. QED
  BY NodeTypeInit, NodeTypeStep, PTL DEF Node!Spec

-----------------------------------------------------------------------------
\* The timer and the socket come after the first load; if the application waits for
\* it too, no other fetch runs beside it.
NodeLoadComesFirst ==
    /\ ready => stage["initial"] = "idle"
    /\ polling \/ ws # "none" => ready
    /\ ~early /\ ~ready => stage["locked"] = "idle"

\* An answer that was received is no older than what the cache has held, nor newer
\* than the server.
NodeOrdered ==
    /\ best <= server
    /\ \A s \in Node!Slots :
          stage[s] = "served" => /\ nodeGot[s] <= server
                                 /\ early \/ best <= nodeGot[s]

NodeIInv == NodeLoadComesFirst /\ NodeOrdered /\ NeverGoesBack

LEMMA NodeIInvInit ==
  ASSUME Node!NodeClientAssumption
  PROVE  Node!Init => NodeIInv
<1> SUFFICES ASSUME Node!Init PROVE NodeIInv
    OBVIOUS
<1>1. polling = FALSE /\ ready = FALSE
  BY Zenon DEF Node!Init
<1>. QED
  BY <1>1 DEF Node!Init, NodeIInv, NodeLoadComesFirst, NodeOrdered, NeverGoesBack, Node!Slots

LEMMA NodeIInvStep ==
  ASSUME Node!NodeClientAssumption
  PROVE  Node!TypeOK /\ NodeIInv /\ [Node!Next]_(Node!vars) => NodeIInv'
<1> SUFFICES ASSUME Node!TypeOK, NodeIInv, [Node!Next]_(Node!vars) PROVE NodeIInv'
    OBVIOUS
<1> USE DEF Node!TypeOK, NodeIInv, NodeLoadComesFirst, NodeOrdered, NeverGoesBack, Node!Slots, Node!fetch
<1>1. CASE UNCHANGED Node!vars
  BY <1>1 DEF Node!vars
<1>2. CASE Node!ServerWrites
  BY <1>2 DEF Node!NodeClientAssumption, Node!ServerWrites
<1>3. CASE Node!TtlPasses
  BY <1>3 DEF Node!TtlPasses
<1>4. ASSUME NEW s \in Node!Slots, Node!Serve(s) PROVE NodeIInv'
  BY <1>4 DEF Node!Serve
<1>5. ASSUME NEW s \in Node!Slots, Node!Retry(s) PROVE NodeIInv'
  BY <1>5 DEF Node!Retry, Node!Fails
<1>6. ASSUME NEW s \in Node!Slots, Node!BackoffEnds(s) PROVE NodeIInv'
  BY <1>6 DEF Node!BackoffEnds
<1>7. CASE Node!Loaded
  <2>1. /\ stage["initial"] = "served" /\ stage' = [stage EXCEPT !["initial"] = "idle"]
        /\ ready' /\ cache' = nodeGot["initial"] /\ UNCHANGED <<server, early>>
        /\ best' = IF nodeGot["initial"] > best THEN nodeGot["initial"] ELSE best
        /\ nodeGot' = [nodeGot EXCEPT !["initial"] = 0]
    BY <1>7 DEF Node!Loaded, Node!Store, Node!End
  <2>2. early \/ stage["locked"] = "idle"
    BY <2>1
  <2>. QED
    BY <2>1, <2>2
<1>8. CASE Node!LoadFails
  BY <1>8 DEF Node!LoadFails, Node!GivesUp, Node!Fails, Node!End
<1>9. CASE Node!Refreshed
  <2>1. /\ stage["locked"] = "served" /\ stage' = [stage EXCEPT !["locked"] = "idle"]
        /\ cache' = nodeGot["locked"] /\ UNCHANGED <<server, early, ready, polling, ws>>
        /\ best' = IF nodeGot["locked"] > best THEN nodeGot["locked"] ELSE best
        /\ nodeGot' = [nodeGot EXCEPT !["locked"] = 0]
    BY <1>9 DEF Node!Refreshed, Node!Store, Node!End
  <2>2. early \/ stage["initial"] = "idle"
    BY <2>1
  <2>. QED
    BY <2>1, <2>2
<1>10. CASE Node!RefreshFails
  BY <1>10 DEF Node!RefreshFails, Node!GivesUp, Node!Fails, Node!End
<1>11. ASSUME NEW b \in BOOLEAN, Node!Use(b) PROVE NodeIInv'
  BY <1>11 DEF Node!Use, Node!FetchSecrets, Node!Begin
<1>12. CASE Node!Poll
  BY <1>12 DEF Node!Poll, Node!FetchSecrets, Node!Begin
<1>13. CASE Node!Message
  BY <1>13 DEF Node!Message, Node!FetchSecrets, Node!Begin
<1>14. CASE Node!Open \/ Node!Closed \/ Node!ClosedForGood \/ Node!Reconnect
  BY <1>14 DEF Node!Open, Node!Closed, Node!ClosedForGood, Node!Reconnect, Node!SocketStep
<1>15. CASE Node!Destroy
  BY <1>15 DEF Node!Destroy
<1>. QED
  BY <1>1, <1>2, <1>3, <1>4, <1>5, <1>6, <1>7, <1>8, <1>9, <1>10, <1>11, <1>12,
     <1>13, <1>14, <1>15
  DEF Node!Next, Node!Get, Node!Refresh

LEMMA NodeIInvHolds ==
  ASSUME Node!NodeClientAssumption
  PROVE  Node!Spec => [](Node!TypeOK /\ NodeIInv)
<1>. QED
  BY NodeTypeInit, NodeTypeStep, NodeIInvInit, NodeIInvStep, PTL DEF Node!Spec

\* However the answers and events come in, the cache never goes back, in an application
\* that awaits ready().
THEOREM NodeNoRollback ==
  ASSUME Node!NodeClientAssumption
  PROVE  Node!Spec => []NeverGoesBack
<1>1. Node!TypeOK /\ NodeIInv => NeverGoesBack
  BY DEF NodeIInv
<1>. QED
  BY <1>1, NodeIInvHolds, PTL
=============================================================================
