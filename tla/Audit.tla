-------------------------------- MODULE Audit --------------------------------
(***************************************************************************)
(* The audit log of an organization: writeAudit (handler/handler.go),      *)
(* which a handler calls when its work is done, and the statements of      *)
(* store/audit.go.  Each event carries the HMAC of the one before it.      *)
(*                                                                         *)
(* An event is named by its ts, which the instance's own clock gives it:   *)
(* any that is not in use.  Modules whose handlers call writeAudit extend  *)
(* this one.                                                               *)
(***************************************************************************)
EXTENDS Naturals, Sequences

CONSTANTS
    Requests,      \* requests being handled at the same time
    MaxEvents      \* bound on the events

ASSUME AuditAssumption == MaxEvents \in Nat

VARIABLES
    log,           \* audit_events, in the order of the INSERTs
    flying,        \* events in the goroutines writeAudit has started
    stamp          \* the ts of the event a request is building, 0 without one

auditVars == <<log, flying, stamp>>

NoEvent == 0

Event == [ts : 1 .. MaxEvents, prev : 0 .. MaxEvents]

AuditTypeOK ==
    /\ log \in Seq(Event)
    /\ flying \subseteq Event
    /\ stamp \in [Requests -> 0 .. MaxEvents]

AuditInit ==
    /\ log = <<>>
    /\ flying = {}
    /\ stamp = [r \in Requests |-> NoEvent]

Logged == {log[i].ts : i \in DOMAIN log}

Used == Logged \cup {e.ts : e \in flying} \cup {stamp[r] : r \in Requests}

BuildAuditEvent(r) ==
    /\ \E t \in (1 .. MaxEvents) \ Used : stamp' = [stamp EXCEPT ![r] = t]
    /\ UNCHANGED <<log, flying>>

\* SELECT ... ORDER BY ts DESC LIMIT 1: no event, or one.
Latest == {t \in Logged : \A u \in Logged : u <= t}

\* Mutant: the last event is the last one built here, recorded or not.
LinkToLastBuilt(r) ==
    LET built == Logged \cup {e.ts : e \in flying} IN
    /\ \E p \in {t \in built : \A u \in built : u <= t} \cup {NoEvent} :
          flying' = flying \cup {[ts |-> stamp[r], prev |-> p]}
    /\ stamp' = [stamp EXCEPT ![r] = NoEvent]
    /\ UNCHANGED log

\* GetLastAuditHMAC, which takes an error for an empty log, and the start of the goroutine.
Link(r) ==
    /\ \E p \in Latest \cup {NoEvent} :
          flying' = flying \cup {[ts |-> stamp[r], prev |-> p]}
    /\ stamp' = [stamp EXCEPT ![r] = NoEvent]
    /\ UNCHANGED log

\* The INSERT, in 5 seconds; if it fails, nobody is told.
WriteAuditEvent(e) ==
    /\ e \in flying
    /\ flying' = flying \ {e}
    /\ log' \in {log, Append(log, e)}
    /\ UNCHANGED stamp

-----------------------------------------------------------------------------
\* "Immutable audit log with HMAC chain" (README.md:27): the predecessor an
\* event names was recorded before it, so that from every event the chain leads back to
\* a first one, though events are recorded late, out of order or never.
Follows(e, n) == e.prev = NoEvent \/ \E j \in 1 .. n : log[j].ts = e.prev

ChainRooted ==
    /\ \A i \in DOMAIN log : Follows(log[i], i - 1)
    /\ \A e \in flying : Follows(e, Len(log))
=============================================================================
