----------------------------- MODULE NodeClient ------------------------------
(***************************************************************************)
(* The Node SDK (sdk/node/src/index.ts): a cache filled by a first load    *)
(* and refreshed by a poll timer, by the hub's messages, by stale reads    *)
(* and on demand, one fetch at a time but for the first load; destroy()    *)
(* ends the timers and the socket, not a fetch on its way.                 *)
(*                                                                         *)
(* An action is one turn of the event loop. The values of an environment   *)
(* are a version number, as in GoClient; the cache is the entry of one     *)
(* key, which a message may delete.                                        *)
(***************************************************************************)
EXTENDS Naturals, NodePromises

CONSTANTS
    MaxRetries,    \* options.maxRetries
    MaxVersion,    \* bound on the writes at the server
    MaxFaults      \* bound on failed requests

ASSUME NodeClientAssumption ==
    MaxRetries \in Nat /\ MaxVersion \in Nat /\ MaxFaults \in Nat

VARIABLES
    server,        \* the version the server holds (external)
    stale,         \* lastFetch is more than the TTL ago
    stage,         \* of the fetch of _initialLoad, and of that of refreshLock's holder
    attempt,       \* of each
    got,           \* the version in the answer each has received
    background,    \* the holder of refreshLock is a _refreshBackground
    ready,         \* readyPromise is resolved
    polling,       \* pollTimer is set
    ws,            \* the socket, "waiting" when wsReconnectTimer is set
    inbox,         \* the events on their way to the socket
    listening,     \* there is an 'error' listener
    destroyed,
    alive,         \* no rejection has ended the process
    faults

fetch == <<stage, attempt, got>>

vars == <<server, cache, stale, fetch, background, ready, polling, ws, inbox,
          listening, destroyed, alive, faults, early, best>>

Slots == {"initial", "locked"}

TypeOK ==
    /\ server \in 1 .. MaxVersion + 1
    /\ cache \in Nat /\ best \in Nat
    /\ stale \in BOOLEAN /\ background \in BOOLEAN
    /\ stage \in [Slots -> {"idle", "sent", "served", "backoff"}]
    /\ attempt \in [Slots -> 0 .. MaxRetries]
    /\ got \in [Slots -> Nat]
    /\ ready \in BOOLEAN /\ polling \in BOOLEAN
    /\ ws \in {"none", "connecting", "open", "closing", "waiting"}
    /\ inbox \in Nat
    /\ listening \in BOOLEAN /\ destroyed \in BOOLEAN /\ alive \in BOOLEAN
    /\ faults \in 0 .. MaxFaults
    /\ early \in BOOLEAN

\* Mutant: the constructor starts to poll.
InitPolling ==
    /\ server = 1
    /\ cache = 0 /\ best = 0
    /\ stale = TRUE /\ background = FALSE
    /\ stage = [s \in Slots |-> IF s = "initial" THEN "sent" ELSE "idle"]
    /\ attempt = [s \in Slots |-> 0] /\ got = [s \in Slots |-> 0]
    /\ ready = FALSE /\ polling = TRUE
    /\ ws = "none" /\ inbox = 0
    /\ listening \in BOOLEAN /\ destroyed = FALSE /\ alive = TRUE
    /\ faults = 0
    /\ early = FALSE

\* The constructor starts the first load; the application may then listen to errors.
Init ==
    /\ server = 1
    /\ cache = 0 /\ best = 0
    /\ stale = TRUE /\ background = FALSE
    /\ stage = [s \in Slots |-> IF s = "initial" THEN "sent" ELSE "idle"]
    /\ attempt = [s \in Slots |-> 0] /\ got = [s \in Slots |-> 0]
    /\ ready = FALSE /\ polling = FALSE
    /\ ws = "none" /\ inbox = 0
    /\ listening \in BOOLEAN /\ destroyed = FALSE /\ alive = TRUE
    /\ faults = 0
    /\ early = FALSE

-----------------------------------------------------------------------------
(* The server and the clock.                                               *)

\* A write. Only a rotation tells the hub, and the hub may drop the event.
ServerWrites ==
    /\ server <= MaxVersion
    /\ server' = server + 1
    /\ inbox' \in IF ws = "open" THEN {inbox, inbox + 1} ELSE {inbox}
    /\ UNCHANGED <<cache, stale, fetch, background, ready, polling, ws, listening,
                   destroyed, alive, faults, early, best>>

TtlPasses ==
    /\ ~stale /\ stale' = TRUE
    /\ UNCHANGED <<server, cache, fetch, background, ready, polling, ws, inbox,
                   listening, destroyed, alive, faults, early, best>>

-----------------------------------------------------------------------------
(* _fetchWithRetry and _doFetch, in either slot.                           *)

\* A fetch is started, or is over.
Begin(s) ==
    /\ stage' = [stage EXCEPT ![s] = "sent"]
    /\ UNCHANGED <<attempt, got>>

End(s) ==
    /\ stage' = [stage EXCEPT ![s] = "idle"]
    /\ attempt' = [attempt EXCEPT ![s] = 0]
    /\ got' = [got EXCEPT ![s] = 0]

\* The server reads the values.
Serve(s) ==
    /\ stage[s] = "sent"
    /\ stage' = [stage EXCEPT ![s] = "served"]
    /\ got' = [got EXCEPT ![s] = server]
    /\ UNCHANGED <<attempt, server, cache, stale, background, ready, polling, ws, inbox,
                   listening, destroyed, alive, faults, early, best>>

\* A request fails, is refused or timed out, or its answer is unusable.
Fails(s) ==
    /\ alive
    /\ stage[s] \in {"sent", "served"}
    /\ faults < MaxFaults /\ faults' = faults + 1

\* It is sent again after a backoff.
Retry(s) ==
    /\ Fails(s)
    /\ attempt[s] < MaxRetries
    /\ stage' = [stage EXCEPT ![s] = "backoff"]
    /\ attempt' = [attempt EXCEPT ![s] = @ + 1]
    /\ got' = [got EXCEPT ![s] = 0]
    /\ UNCHANGED <<server, cache, stale, background, ready, polling, ws, inbox,
                   listening, destroyed, alive, early, best>>

BackoffEnds(s) ==
    /\ alive /\ stage[s] = "backoff"
    /\ stage' = [stage EXCEPT ![s] = "sent"]
    /\ UNCHANGED <<attempt, got, server, cache, stale, background, ready, polling, ws, inbox,
                   listening, destroyed, alive, faults, early, best>>

\* Or the fetch throws: the attempts are used up, or the answer was 401 or 403.
GivesUp(s) ==
    /\ Fails(s)
    /\ End(s)

\* The answer replaces the cache, whether the client is destroyed or not.
Store(s) ==
    /\ alive /\ stage[s] = "served"
    /\ cache' = got[s]
    /\ best' = IF got[s] > best THEN got[s] ELSE best
    /\ stale' = FALSE
    /\ End(s)

\* emit('error') throws when nobody listens: the promise of the function that calls
\* it rejects, nothing handles that, and Node ends the process.
EmitError == alive' = listening

-----------------------------------------------------------------------------
(* _initialLoad.                                                           *)

\* Mutant: _startPolling does not look at destroyed.
LoadedAlways ==
    /\ Store("initial")
    /\ ready' = TRUE
    /\ polling' = TRUE
    /\ ws' \in IF destroyed THEN {ws} ELSE {"none", "connecting"}
    /\ UNCHANGED <<server, background, inbox, listening, destroyed, alive, faults, early>>

\* The first load ends: connect, if the ws package is installed, and start to poll.
Loaded ==
    /\ Store("initial")
    /\ ready' = TRUE
    /\ polling' = ~destroyed
    /\ ws' \in IF destroyed THEN {ws} ELSE {"none", "connecting"}
    /\ UNCHANGED <<server, background, inbox, listening, destroyed, alive, faults, early>>

\* It fails: neither is done, then or later; ready() resolves if the emit returns.
LoadFails ==
    /\ GivesUp("initial")
    /\ EmitError
    /\ ready' = listening
    /\ UNCHANGED <<server, cache, stale, background, polling, ws, inbox, listening,
                   destroyed, early, best>>

-----------------------------------------------------------------------------
(* _fetchSecrets: the caller that finds no refreshLock fetches, the others *)
(* wait for it, and return when it has ended in either way.                *)

FetchSecrets(byBackground) ==
    IF stage["locked"] = "idle"
    THEN /\ Begin("locked")
         /\ background' = byBackground
    ELSE UNCHANGED <<fetch, background>>

Refreshed ==
    /\ Store("locked")
    /\ background' = FALSE
    /\ UNCHANGED <<server, ready, polling, ws, inbox, listening, destroyed, alive,
                   faults, early>>

\* It throws, to refresh() or to the catch of _refreshBackground.
RefreshFails ==
    /\ GivesUp("locked")
    /\ IF background THEN EmitError ELSE UNCHANGED alive
    /\ background' = FALSE
    /\ UNCHANGED <<server, cache, stale, ready, polling, ws, inbox, listening, destroyed,
                   early, best>>

-----------------------------------------------------------------------------
(* What starts a fetch.                                                    *)

\* get, getAll: a stale cache is refreshed in the background; refresh: at once.
Use(byBackground) ==
    /\ alive /\ ~destroyed
    /\ byBackground => stale
    /\ early' = (early \/ ~ready)
    /\ FetchSecrets(byBackground)
    /\ UNCHANGED <<server, cache, stale, ready, polling, ws, inbox, listening, destroyed,
                   alive, faults, best>>

Get == Use(TRUE)

Refresh == Use(FALSE)

\* Mutant: the timer does nothing while the socket is open.
PollWithoutSocket ==
    /\ alive /\ polling /\ ws # "open"
    /\ FetchSecrets(TRUE)
    /\ UNCHANGED <<server, cache, stale, ready, polling, ws, inbox, listening, destroyed,
                   alive, faults, early, best>>

Poll ==
    /\ alive /\ polling
    /\ FetchSecrets(TRUE)
    /\ UNCHANGED <<server, cache, stale, ready, polling, ws, inbox, listening, destroyed,
                   alive, faults, early, best>>

\* An event of the hub: its key, the one observed or another, is deleted.
Message ==
    /\ alive /\ ws \in {"open", "closing"} /\ inbox > 0
    /\ inbox' = inbox - 1
    /\ cache' \in {cache, 0}
    /\ FetchSecrets(TRUE)
    /\ UNCHANGED <<server, stale, ready, polling, ws, listening, destroyed, alive, faults,
                   early, best>>

-----------------------------------------------------------------------------
(* The socket.                                                             *)

SocketStep(from, to) ==
    /\ alive /\ ws \in from
    /\ ws' = to
    /\ UNCHANGED <<server, cache, stale, fetch, background, ready, polling, listening,
                   destroyed, alive, faults, early, best>>

Open == SocketStep({"connecting"}, "open") /\ UNCHANGED inbox

\* 'close': what is on its way is lost; 5 seconds later the client connects again.
Closed == SocketStep({"connecting", "open"}, "waiting") /\ inbox' = 0

ClosedForGood == SocketStep({"closing"}, "none") /\ inbox' = 0

Reconnect == SocketStep({"waiting"}, "connecting") /\ UNCHANGED inbox

\* destroy(): both timers, the socket, the cache and the listeners go.
Destroy ==
    /\ alive /\ ~destroyed
    /\ destroyed' = TRUE
    /\ polling' = FALSE
    /\ ws' = IF ws \in {"connecting", "open"} THEN "closing" ELSE "none"
    /\ cache' = 0
    /\ listening' = FALSE
    /\ UNCHANGED <<server, stale, fetch, background, ready, inbox, alive, faults, early,
                   best>>

-----------------------------------------------------------------------------
Next ==
    \/ ServerWrites \/ TtlPasses
    \/ \E s \in Slots : Serve(s) \/ Retry(s) \/ BackoffEnds(s)
    \/ Loaded \/ LoadFails \/ Refreshed \/ RefreshFails
    \/ Get \/ Refresh \/ Poll \/ Message
    \/ Open \/ Closed \/ ClosedForGood \/ Reconnect
    \/ Destroy

Spec == Init /\ [][Next]_vars

\* Requests end, at the latest by their timeout, timers fire, and a socket that is
\* being closed is closed.
FairSpec ==
    /\ Spec
    /\ \A s \in Slots : WF_vars(Serve(s)) /\ WF_vars(BackoffEnds(s))
    /\ WF_vars(Loaded) /\ WF_vars(Refreshed)
    /\ WF_vars(Poll) /\ WF_vars(ClosedForGood)

-----------------------------------------------------------------------------
(* Properties, besides that of NodePromises.                               *)

\* When the first load has succeeded the cache ends up with what the server holds, be
\* it that requests fail, events are lost, or a message joins a fetch that was answered
\* before the write it tells of.
EventuallyFresh == <>[](polling /\ alive => cache = server)

\* destroy() ends everything the client does, also when it comes during the first load,
\* a fetch, or the wait to reconnect, or has messages on their way.
DestroyEnds ==
    destroyed ~> [](alive => ~polling /\ ws = "none"
                             /\ \A s \in Slots : stage[s] = "idle")
=============================================================================
