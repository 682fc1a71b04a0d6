------------------------------- MODULE Shares --------------------------------
(***************************************************************************)
(* Share links: handler/share.go and store/share.go, with the audit events *)
(* of their handlers.                                                      *)
(*                                                                         *)
(* An action is one SQL statement of a request.  The secrets a link shows  *)
(* are fixed when it is created.                                           *)
(***************************************************************************)
EXTENDS Audit, FiniteSets

CONSTANTS
    Links,         \* links there may be, a bound
    Limits,        \* values of max_views asked for, 0 for no limit
    MaxViews,      \* bound on the views of a link when a further one begins
    NoLink

ASSUME SharesAssumption ==
    /\ Limits \subseteq Nat /\ MaxViews \in Nat
    /\ NoLink \notin Links
    /\ IsFiniteSet(Requests)

VARIABLES
    link,          \* the shared_secrets row: state, max_views, view_count
    pc, cur,       \* where a request is, with which link
    served,        \* responses that showed a link's secrets (auxiliary)
    uncounted      \* increments of its view_count that failed (auxiliary)

vars == <<auditVars, link, pc, cur, served, uncounted>>

Row == [st : {"none", "live", "expired", "deleted"}, max : Nat, count : Nat]

Places == {"idle", "delete", "audit", "link", "count", "show"}

TypeOK ==
    /\ AuditTypeOK
    /\ link \in [Links -> Row]
    /\ pc \in [Requests -> Places]
    /\ cur \in [Requests -> Links \cup {NoLink}]
    /\ \A r \in Requests : pc[r] \in {"delete", "count", "show"} => cur[r] \in Links
    /\ \A r \in Requests : pc[r] = "link" => stamp[r] # NoEvent
    /\ served \in [Links -> Nat] /\ uncounted \in [Links -> Nat]

Init ==
    /\ AuditInit
    /\ link = [l \in Links |-> [st |-> "none", max |-> 0, count |-> 0]]
    /\ pc = [r \in Requests |-> "idle"]
    /\ cur = [r \in Requests |-> NoLink]
    /\ served = [l \in Links |-> 0] /\ uncounted = [l \in Links |-> 0]

-----------------------------------------------------------------------------
Goto(r, place, l) ==
    /\ pc' = [pc EXCEPT ![r] = place]
    /\ cur' = [cur EXCEPT ![r] = l]

Answer(r) == Goto(r, "idle", NoLink)

\* The secrets cannot be decrypted, a DELETE fails, or the answer of a statement that
\* took effect is lost, so that the handler ends before its audit event.
Fail(r) ==
    /\ pc[r] \in {"delete", "audit", "show"}
    /\ Answer(r)
    /\ UNCHANGED <<auditVars, link, served, uncounted>>

Expire(l) ==
    /\ link[l].st = "live"
    /\ link' = [link EXCEPT ![l].st = "expired"]
    /\ UNCHANGED <<auditVars, pc, cur, served, uncounted>>

\* The environment's secrets, or those in the request, are encrypted and inserted.
CreateSharedSecret(r, l, max) ==
    /\ pc[r] = "idle" /\ link[l].st = "none"
    /\ link' = [link EXCEPT ![l] = [st |-> "live", max |-> max, count |-> 0]]
    /\ Goto(r, "audit", l)
    /\ UNCHANGED <<auditVars, served, uncounted>>

\* Mutant: the limit is passed by one.
WithinLimitOrAt(l) == link[l].max = 0 \/ link[l].count <= link[l].max

WithinLimit(l) == link[l].max = 0 \/ link[l].count < link[l].max

\* The checks are on the row as it was read.
GetSharedSecret(r, l) ==
    /\ pc[r] = "idle" /\ link[l].st = "live"
    /\ WithinLimit(l)
    /\ link[l].count + uncounted[l] < MaxViews
    /\ Goto(r, "count", l)
    /\ UNCHANGED <<auditVars, link, served, uncounted>>

\* IncrementShareViewCount: it may find no row any more, or fail; its error is ignored.
Increment(r) ==
    /\ pc[r] = "count"
    /\ \/ /\ link[cur[r]].st # "deleted"
          /\ link' = [link EXCEPT ![cur[r]].count = @ + 1]
          /\ UNCHANGED uncounted
       \/ link[cur[r]].st = "deleted" /\ UNCHANGED <<link, uncounted>>
       \/ uncounted' = [uncounted EXCEPT ![cur[r]] = @ + 1] /\ UNCHANGED link
    /\ Goto(r, "show", cur[r])
    /\ UNCHANGED <<auditVars, served>>

Show(r) ==
    /\ pc[r] = "show"
    /\ served' = [served EXCEPT ![cur[r]] = @ + 1]
    /\ Answer(r)
    /\ UNCHANGED <<auditVars, link, uncounted>>

\* DeleteSharedSecret reads the row, expired or not, to see whose it is, then deletes it.
BeginDelete(r, l) ==
    /\ pc[r] = "idle" /\ link[l].st \in {"live", "expired"}
    /\ Goto(r, "delete", l)
    /\ UNCHANGED <<auditVars, link, served, uncounted>>

DeleteSharedSecret(r) ==
    /\ pc[r] = "delete"
    /\ link' = [link EXCEPT ![cur[r]].st = "deleted"]
    /\ Goto(r, "audit", cur[r])
    /\ UNCHANGED <<auditVars, served, uncounted>>

\* writeAudit, after which the handler answers.
BeginAudit(r) ==
    /\ pc[r] = "audit"
    /\ BuildAuditEvent(r)
    /\ Goto(r, "link", cur[r])
    /\ UNCHANGED <<link, served, uncounted>>

EndAudit(r) ==
    /\ pc[r] = "link"
    /\ Link(r)
    /\ Answer(r)
    /\ UNCHANGED <<link, served, uncounted>>

-----------------------------------------------------------------------------
Handle(r) ==
    \/ \E l \in Links : \/ \E max \in Limits : CreateSharedSecret(r, l, max)
                        \/ GetSharedSecret(r, l) \/ BeginDelete(r, l)
    \/ Increment(r) \/ Show(r) \/ DeleteSharedSecret(r) \/ BeginAudit(r) \/ EndAudit(r)
    \/ Fail(r)

Record ==
    /\ \E e \in flying : WriteAuditEvent(e)
    /\ UNCHANGED <<link, pc, cur, served, uncounted>>

Next ==
    \/ \E r \in Requests : Handle(r)
    \/ \E l \in Links : Expire(l)
    \/ Record

Spec == Init /\ [][Next]_vars

-----------------------------------------------------------------------------
(* Properties.                                                             *)

\* "this shared secret link has reached its view limit": only views that overlap can
\* pass the limit together, so the link shows its secrets at most as often as allowed
\* and once for each other request under way, plus the views whose count failed.
ViewLimit ==
    \A l \in Links : link[l].max > 0 =>
        served[l] < link[l].max + Cardinality(Requests) + uncounted[l]
=============================================================================
