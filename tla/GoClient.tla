------------------------------ MODULE GoClient -------------------------------
(***************************************************************************)
(* The Go SDK (sdk/go/client.go): a cache of one environment's secrets     *)
(* shared by the goroutines of an application, filled by New, refreshed by *)
(* a poller, by stale reads and on demand, wiped by Close.                 *)
(*                                                                         *)
(* The values of an environment are a version number: one response holds   *)
(* the values of one moment, the server answering with one SELECT.         *)
(***************************************************************************)
EXTENDS GoPromises

CONSTANTS
    Apps,          \* goroutines of the application that use the client
    Spawned,       \* bound on the goroutines stale reads have running
    Main,          \* the goroutine in New
    Poller,        \* the goroutine of pollLoop
    NoThread,
    MaxRetries,    \* WithMaxRetries
    MaxVersion,    \* bound on the writes at the server
    MaxFaults      \* bound on failed requests

Threads == Apps \cup Spawned \cup {Main, Poller}

ASSUME GoClientAssumption ==
    /\ Apps \cap Spawned = {} /\ Main # Poller
    /\ {Main, Poller} \cap (Apps \cup Spawned) = {}
    /\ NoThread \notin Threads
    /\ MaxRetries \in Nat /\ MaxVersion \in Nat /\ MaxFaults \in Nat

VARIABLES
    server,        \* the version the server holds (external)
    stale,         \* lastFetch is more than the TTL ago
    phase,         \* New: under way, returned a client, returned an error
    attempt,       \* its attempt
    closed,        \* c.closed, and c.stopCh with it
    pc,            \* where each goroutine is
    got,           \* the version in the response a thread has received
    leader,        \* the goroutine whose call c.group is executing
    faults

vars == <<server, secrets, stale, phase, attempt, closed, wiped, pc, got, leader, faults>>

Places == {"idle", "select", "stopped", "read", "call", "wait",
           "request", "answer", "done", "error", "closing"}

TypeOK ==
    /\ server \in 1 .. MaxVersion + 1
    /\ secrets \in Nat
    /\ stale \in BOOLEAN /\ closed \in BOOLEAN /\ wiped \in BOOLEAN
    /\ phase \in {"starting", "open", "failed"}
    /\ attempt \in 0 .. MaxRetries
    /\ pc \in [Threads -> Places]
    /\ got \in [Threads -> Nat]
    /\ leader \in Threads \cup {NoThread}
    /\ faults \in 0 .. MaxFaults

Init ==
    /\ server = 1
    /\ secrets = 0
    /\ stale = TRUE
    /\ phase = "starting"
    /\ attempt = 0
    /\ closed = FALSE /\ wiped = FALSE
    /\ pc = [t \in Threads |-> IF t = Main THEN "request" ELSE "idle"]
    /\ got = [t \in Threads |-> 0]
    /\ leader = NoThread
    /\ faults = 0

-----------------------------------------------------------------------------
Goto(t, place) == pc' = [pc EXCEPT ![t] = place]

ServerWrites ==
    /\ server <= MaxVersion
    /\ server' = server + 1
    /\ UNCHANGED <<secrets, stale, phase, attempt, closed, wiped, pc, got, leader, faults>>

TtlPasses ==
    /\ phase = "open" /\ ~stale
    /\ stale' = TRUE
    /\ UNCHANGED <<server, secrets, phase, attempt, closed, wiped, pc, got, leader, faults>>

-----------------------------------------------------------------------------
(* doFetch, on the goroutine that runs it.                                 *)

\* The server reads the values.
Serve(t) ==
    /\ pc[t] = "request"
    /\ got' = [got EXCEPT ![t] = server]
    /\ Goto(t, "answer")
    /\ UNCHANGED <<server, secrets, stale, phase, attempt, closed, wiped, leader, faults>>

\* The request or its answer is lost, late or refused: doFetch returns an error.
FetchFails(t) ==
    /\ pc[t] \in {"request", "answer"}
    /\ faults < MaxFaults /\ faults' = faults + 1
    /\ got' = [got EXCEPT ![t] = 0]

\* The answer is decoded, and stored under c.mu.
Store(t) ==
    /\ pc[t] = "answer"
    /\ secrets' = got[t] /\ got' = [got EXCEPT ![t] = 0]
    /\ stale' = FALSE

-----------------------------------------------------------------------------
(* New.                                                                    *)

\* fetchWithRetry succeeds: New starts the poller and returns the client.
Opened ==
    /\ Store(Main)
    /\ phase' = "open"
    /\ pc' = [pc EXCEPT ![Main] = "idle", ![Poller] = "select"]
    /\ UNCHANGED <<server, attempt, closed, wiped, leader, faults>>

\* An attempt fails: the next one, or an error, the attempts or the deadline over.
Retry ==
    /\ FetchFails(Main)
    /\ \/ attempt < MaxRetries /\ attempt' = attempt + 1 /\ Goto(Main, "request")
          /\ UNCHANGED phase
       \/ phase' = "failed" /\ Goto(Main, "idle") /\ UNCHANGED attempt
    /\ UNCHANGED <<server, secrets, stale, closed, wiped, leader>>

-----------------------------------------------------------------------------
(* refreshOnce.                                                            *)

\* Where a goroutine is when its refreshOnce has returned.
Home(t) == IF t = Poller THEN "select" ELSE "idle"

\* Mutant: no singleflight, every caller fetches.
DoEach(t) ==
    /\ pc[t] = "call"
    /\ leader' = t /\ Goto(t, "request")
    /\ UNCHANGED <<server, secrets, stale, phase, attempt, closed, wiped, got, faults>>

\* group.Do: execute the call, or wait for the one that is being executed.
Do(t) ==
    /\ pc[t] = "call"
    /\ \/ leader = NoThread /\ leader' = t /\ Goto(t, "request")
       \/ leader # NoThread /\ Goto(t, "wait") /\ UNCHANGED leader
    /\ UNCHANGED <<server, secrets, stale, phase, attempt, closed, wiped, got, faults>>

\* The fetch ends; onRefresh or onError is called, c.mu not held.
Refreshed(t) ==
    /\ t # Main
    /\ Store(t)
    /\ Goto(t, "done")
    /\ UNCHANGED <<server, phase, attempt, closed, wiped, leader, faults>>

RefreshFailed(t) ==
    /\ t # Main
    /\ FetchFails(t)
    /\ Goto(t, "error")
    /\ UNCHANGED <<server, secrets, stale, phase, attempt, closed, wiped, leader>>

\* Mutant: pollLoop returns when a refresh fails.
EndCallQuits(t) ==
    /\ pc[t] \in {"done", "error"}
    /\ pc' = [u \in Threads |->
                IF u = t \/ pc[u] = "wait"
                THEN IF u = Poller /\ pc[t] = "error" THEN "stopped" ELSE Home(u)
                ELSE pc[u]]
    /\ leader' = NoThread
    /\ UNCHANGED <<server, secrets, stale, phase, attempt, closed, wiped, got, faults>>

\* The callback returns, the call is over, and all who wait for it return too.
EndCall(t) ==
    /\ pc[t] \in {"done", "error"}
    /\ pc' = [u \in Threads |-> IF u = t \/ pc[u] = "wait" THEN Home(u) ELSE pc[u]]
    /\ leader' = NoThread
    /\ UNCHANGED <<server, secrets, stale, phase, attempt, closed, wiped, got, faults>>

-----------------------------------------------------------------------------
(* The methods and the poller.                                             *)

\* Mutant: no test of c.closed.
EnterAlways(a, place) ==
    /\ phase = "open" /\ pc[a] = "idle"
    /\ Goto(a, place)
    /\ UNCHANGED <<server, secrets, stale, phase, attempt, closed, wiped, got, leader, faults>>

\* Get, Refresh: the test of c.closed, which comes first.
Enter(a, place) ==
    /\ phase = "open" /\ pc[a] = "idle" /\ ~closed
    /\ Goto(a, place)
    /\ UNCHANGED <<server, secrets, stale, phase, attempt, closed, wiped, got, leader, faults>>

Get(a) == Enter(a, "read")

Refresh(a) == Enter(a, "call")

\* Get reads the cache; a stale one starts a goroutine that refreshes it (none is
\* added when all of Spawned are at it).
Read(a) ==
    /\ pc[a] = "read"
    /\ \/ /\ stale => \A g \in Spawned : pc[g] # "idle"
          /\ Goto(a, "idle")
       \/ /\ stale
          /\ \E g \in Spawned : pc[g] = "idle" /\ pc' = [pc EXCEPT ![a] = "idle", ![g] = "call"]
    /\ UNCHANGED <<server, secrets, stale, phase, attempt, closed, wiped, got, leader, faults>>

\* pollLoop: the ticker fires, or stopCh is closed; select takes either when both hold.
Poll ==
    /\ pc[Poller] = "select"
    /\ Goto(Poller, "call")
    /\ UNCHANGED <<server, secrets, stale, phase, attempt, closed, wiped, got, leader, faults>>

\* Mutant: pollLoop does not look at stopCh.
StopNever == FALSE /\ UNCHANGED vars

Stop ==
    /\ pc[Poller] = "select" /\ closed
    /\ Goto(Poller, "stopped")
    /\ UNCHANGED <<server, secrets, stale, phase, attempt, closed, wiped, got, leader, faults>>

\* The Close that wins the CompareAndSwap sets closed and closes stopCh.  Any other
\* returns at once, a step that changes nothing: it has not waited for the poller,
\* nor for the cache to be wiped.
Close(a) ==
    /\ phase = "open" /\ pc[a] = "idle" /\ ~closed
    /\ closed' = TRUE
    /\ Goto(a, "closing")
    /\ UNCHANGED <<server, secrets, stale, phase, attempt, wiped, got, leader, faults>>

\* wg.Wait returns, and the map is emptied and dropped.
Wipe(a) ==
    /\ pc[a] = "closing" /\ pc[Poller] = "stopped"
    /\ secrets' = 0 /\ wiped' = TRUE
    /\ Goto(a, "idle")
    /\ UNCHANGED <<server, stale, phase, attempt, closed, got, leader, faults>>

-----------------------------------------------------------------------------
\* What goes on without anyone's call.
Run(t) == Do(t) \/ Serve(t) \/ Refreshed(t) \/ EndCall(t) \/ Read(t) \/ Wipe(t)

Next ==
    \/ ServerWrites \/ TtlPasses \/ Opened \/ Retry \/ Poll \/ Stop
    \/ \E t \in Threads : Run(t) \/ RefreshFailed(t)
    \/ \E a \in Apps : Get(a) \/ Refresh(a) \/ Close(a)

Spec == Init /\ [][Next]_vars

\* Goroutines run, requests end (the HTTP client has a timeout), callbacks return,
\* the ticker fires, and a select whose cases are both ready over and over takes
\* each at some time (Go chooses at random).
FairSpec ==
    /\ Spec
    /\ WF_vars(Opened) /\ WF_vars(Poll) /\ SF_vars(Stop)
    /\ \A t \in Threads : WF_vars(Run(t))

-----------------------------------------------------------------------------
(* Properties, besides those of GoPromises.                                *)

\* Get, Refresh and Close return, Close also when the poller is in the middle of a
\* fetch or waits for one another goroutine has started.
EveryCallReturns == \A a \in Apps : pc[a] # "idle" ~> pc[a] = "idle"

\* "Close stops background polling": once it has been called there comes a time after
\* which the client does nothing, neither polls nor fetches nor holds a caller up, in
\* spite of the reads that were past the test of c.closed and start a refresh of
\* their own.
CloseEnds == closed ~> [](\A t \in Threads : pc[t] \in {"idle", "stopped"})

\* A change at the server reaches the cache of an open client, whatever requests failed
\* and though nobody reads.
EventuallyFresh == (phase = "open" /\ secrets # server) ~> (secrets = server \/ closed)
=============================================================================
