------------------------------- MODULE Leases --------------------------------
(***************************************************************************)
(* Dynamic database credentials: GenerateDynamicSecret and                 *)
(* RevokeDynamicLease of handler/dynamic.go, the role statements of        *)
(* dynamic/dynamic.go, the rows of store/dynamic.go, and the reaper every  *)
(* server instance runs (cmd/server/main.go).                              *)
(*                                                                         *)
(* A lease is named by the username generated for it.  The target database *)
(* is another server than SuperLock's own, so no transaction covers both.  *)
(* For MySQL no lease is ever made: execMySQL always returns an error.     *)
(***************************************************************************)
EXTENDS Integers, FiniteSets

CONSTANTS
    Leases,        \* leases a client may ask for
    Instances,     \* server instances: handlers and one reaper each
    Ttl,           \* ttl_minutes of the configuration
    Skew,          \* how far an instance's clock and the database's are apart
    Limit,         \* LIMIT of ListExpiredLeases (100 in the code)
    MaxTime,       \* bound on the clock
    MaxFaults      \* bound on lost connections, failed writes and crashes

ASSUME LeasesAssumption ==
    /\ Ttl \in Nat \ {0} /\ Skew \in Nat
    /\ Limit \in Nat \ {0}
    /\ MaxTime \in Nat /\ MaxFaults \in Nat

VARIABLES
    now,           \* NOW() of SuperLock's database
    config,        \* a dynamic_secret_configs row exists
    role,          \* the role in the target database (external)
    until,         \* expiresAt of the lease, expires_at of its row
    row,           \* its dynamic_secret_leases row
    pc, home,      \* where the request for it is, and in which instance
    answer,
    batch,         \* leases a reaper has listed and not yet handled
    mishap,        \* what went wrong with the request for it (auxiliary)
    faults

vars == <<now, config, role, until, row, pc, home, answer, batch, mishap, faults>>

Places == {"idle", "create", "grant", "rollback", "insert", "cleanup", "done"}

TypeOK ==
    /\ now \in Nat
    /\ config \in BOOLEAN
    /\ role \in [Leases -> {"none", "created", "granted", "dropped"}]
    /\ until \in [Leases -> Int]
    /\ row \in [Leases -> {"none", "active", "revoked"}]
    /\ pc \in [Leases -> Places]
    /\ home \in [Leases -> Instances]
    /\ answer \in [Leases -> {"none", "ok", "error"}]
    /\ batch \in [Instances -> SUBSET Leases]
    /\ mishap \in [Leases -> {"none", "connection", "process", "insert"}]
    /\ faults \in 0 .. MaxFaults

Init ==
    /\ now = 0
    /\ config = FALSE
    /\ role = [l \in Leases |-> "none"]
    /\ until = [l \in Leases |-> 0]
    /\ row = [l \in Leases |-> "none"]
    /\ pc = [l \in Leases |-> "idle"]
    /\ home \in [Leases -> Instances]
    /\ answer = [l \in Leases |-> "none"]
    /\ batch = [i \in Instances |-> {}]
    /\ mishap = [l \in Leases |-> "none"]
    /\ faults = 0

-----------------------------------------------------------------------------
Fault == faults < MaxFaults /\ faults' = faults + 1

Goto(l, place) == pc' = [pc EXCEPT ![l] = place]

Answer(l, a) == answer' = [answer EXCEPT ![l] = a]

\* The request for l is over, with an error for its client and, maybe, a mishap.
Fail(l, m) ==
    /\ Goto(l, "done") /\ Answer(l, "error")
    /\ mishap' = [mishap EXCEPT ![l] = m]

Clock ==
    /\ now < MaxTime
    /\ now' = now + 1
    /\ UNCHANGED <<config, role, until, row, pc, home, answer, batch, mishap, faults>>

CreateDynamicConfig ==
    /\ ~config
    /\ config' = TRUE
    /\ UNCHANGED <<now, role, until, row, pc, home, answer, batch, mishap, faults>>

\* No foreign key ties leases to it: they and requests under way are unaffected.
DeleteDynamicConfig ==
    /\ config
    /\ config' = FALSE
    /\ UNCHANGED <<now, role, until, row, pc, home, answer, batch, mishap, faults>>

\* GenerateDynamicSecret reads the configuration; GeneratePostgresLease connects
\* and computes the expiry, with the clock of the instance.
Generate(l) ==
    /\ pc[l] = "idle" /\ config
    /\ \E s \in (-Skew) .. Skew : until' = [until EXCEPT ![l] = now + s + Ttl]
    /\ Goto(l, "create")
    /\ UNCHANGED <<now, config, role, row, home, answer, batch, mishap, faults>>

\* CREATE ROLE ... VALID UNTIL: done; refused; or done and the connection lost.
CreateRole(l) ==
    /\ pc[l] = "create"
    /\ \/ /\ role' = [role EXCEPT ![l] = "created"]
          /\ Goto(l, "grant")
          /\ UNCHANGED <<answer, mishap, faults>>
       \/ Fail(l, "none") /\ UNCHANGED <<role, faults>>
       \/ /\ Fault
          /\ role' = [role EXCEPT ![l] = "created"]
          /\ Fail(l, "connection")
    /\ UNCHANGED <<now, config, until, row, home, batch>>

\* GRANT CONNECT: done; refused; or the connection is lost or the client gone, done
\* or not, and then the DROP, on the same connection and context, fails with it.
Grant(l) ==
    /\ pc[l] = "grant"
    /\ \/ /\ role' = [role EXCEPT ![l] = "granted"]
          /\ Goto(l, "insert")
          /\ UNCHANGED <<answer, mishap, faults>>
       \/ Goto(l, "rollback") /\ UNCHANGED <<role, answer, mishap, faults>>
       \/ /\ Fault
          /\ \E r \in {"created", "granted"} : role' = [role EXCEPT ![l] = r]
          /\ Fail(l, "connection")
    /\ UNCHANGED <<now, config, until, row, home, batch>>

\* DROP ROLE IF EXISTS, which PostgreSQL refuses for a role that holds a privilege on
\* a database.
DropRole(l) == role' = [role EXCEPT ![l] = IF @ = "created" THEN "dropped" ELSE @]

\* Mutant: a refused GRANT is not undone.
RollbackNothing(l) ==
    /\ pc[l] = "rollback"
    /\ Fail(l, "none")
    /\ UNCHANGED <<now, config, role, until, row, home, batch, faults>>

\* The DROP after a refused GRANT, its error ignored.
Rollback(l) ==
    /\ pc[l] = "rollback"
    /\ \/ DropRole(l) /\ Fail(l, "none") /\ UNCHANGED faults
       \/ Fault /\ Fail(l, "connection") /\ UNCHANGED role
    /\ UNCHANGED <<now, config, until, row, home, batch>>

\* Mutant: the error of the INSERT is not looked at.
CreateDynamicLeaseIgnoresError(l) ==
    /\ pc[l] = "insert"
    /\ \/ row' = [row EXCEPT ![l] = "active"]
       \/ UNCHANGED row
    /\ Answer(l, "ok")
    /\ Goto(l, "done")
    /\ UNCHANGED <<now, config, role, until, home, batch, mishap, faults>>

\* CreateDynamicLease: the row is there and the client gets the password; or an
\* error is answered and a goroutine is to drop the role, the row there or not.
CreateDynamicLease(l) ==
    /\ pc[l] = "insert"
    /\ \/ /\ row' = [row EXCEPT ![l] = "active"]
          /\ Goto(l, "done") /\ Answer(l, "ok")
          /\ UNCHANGED <<mishap, faults>>
       \/ /\ row' = [row EXCEPT ![l] = "active"] /\ Fault
          /\ Goto(l, "cleanup") /\ Answer(l, "error")
          /\ UNCHANGED mishap
       \/ /\ Goto(l, "cleanup") /\ Answer(l, "error")
          /\ mishap' = [mishap EXCEPT ![l] = "insert"]
          /\ UNCHANGED <<row, faults>>
    /\ UNCHANGED <<now, config, role, until, home, batch>>

\* RevokePostgresLease with the administrator's DSN, after the answer: the role has
\* been granted CONNECT, so that the DROP is refused, and the error is ignored.
Cleanup(l) ==
    /\ pc[l] = "cleanup"
    /\ DropRole(l)
    /\ Goto(l, "done")
    /\ UNCHANGED <<now, config, until, row, home, answer, batch, mishap, faults>>

-----------------------------------------------------------------------------
\* RevokeLease: revoked_at is set, set already or not.
RevokeLease(l) == row' = [row EXCEPT ![l] = IF @ = "none" THEN "none" ELSE "revoked"]

\* RevokeDynamicLease: the row only.
RevokeDynamicLease(l) ==
    /\ row[l] # "none"
    /\ RevokeLease(l)
    /\ UNCHANGED <<now, config, role, until, pc, home, answer, batch, mishap, faults>>

\* Mutant: the listing does not test revoked_at.
ExpiredRevokedToo == {l \in Leases : row[l] # "none" /\ until[l] <= now}

Expired == {l \in Leases : row[l] = "active" /\ until[l] <= now}

\* The reaper's 5-minute tick: ListExpiredLeases, in no particular order.
ListExpiredLeases(i) ==
    /\ batch[i] = {} /\ Expired # {}
    /\ \E D \in SUBSET Expired :
          /\ Cardinality(D) = IF Cardinality(Expired) < Limit THEN Cardinality(Expired) ELSE Limit
          /\ batch' = [batch EXCEPT ![i] = D]
    /\ UNCHANGED <<now, config, role, until, row, pc, home, answer, mishap, faults>>

\* The revoker.  RevokePostgresLease gets the lease's own database_url, whose host
\* buildPostgresDSN left as "placeholder": it cannot connect, and its error is
\* ignored; RevokeLease follows.
Reap(i, l) ==
    /\ l \in batch[i]
    /\ batch' = [batch EXCEPT ![i] = @ \ {l}]
    /\ \/ RevokeLease(l) /\ UNCHANGED faults
       \/ Fault /\ UNCHANGED row
    /\ UNCHANGED <<now, config, role, until, pc, home, answer, mishap>>

\* Instance i ends and is started again.
Crash(i) ==
    LET L == {l \in Leases : home[l] = i /\ pc[l] \notin {"idle", "done"}} IN
    /\ L # {} \/ batch[i] # {}
    /\ Fault
    /\ pc' = [l \in Leases |-> IF l \in L THEN "done" ELSE pc[l]]
    /\ answer' = [l \in Leases |-> IF l \in L THEN "error" ELSE answer[l]]
    /\ mishap' = [l \in Leases |-> IF l \in L THEN "process" ELSE mishap[l]]
    /\ batch' = [batch EXCEPT ![i] = {}]
    /\ UNCHANGED <<now, config, role, until, row, home>>

-----------------------------------------------------------------------------
Handle(l) ==
    \/ CreateRole(l) \/ Grant(l) \/ Rollback(l) \/ CreateDynamicLease(l) \/ Cleanup(l)

Reaper(i) == ListExpiredLeases(i) \/ \E l \in Leases : Reap(i, l)

Next ==
    \/ Clock \/ CreateDynamicConfig \/ DeleteDynamicConfig
    \/ \E l \in Leases : Generate(l) \/ Handle(l) \/ RevokeDynamicLease(l)
    \/ \E i \in Instances : Reaper(i) \/ Crash(i)

Spec == Init /\ [][Next]_vars

\* Handlers run, reapers tick.
FairSpec ==
    /\ Spec
    /\ \A l \in Leases : WF_vars(Handle(l))
    /\ \A i \in Instances : WF_vars(Reaper(i))

-----------------------------------------------------------------------------
(* Properties.                                                             *)

\* A role nobody has a record of is one a request still attends to, or was left by one
\* of three mishaps: the connection to its database was lost, the process ended, or
\* the INSERT failed after the GRANT.  A refused CREATE ROLE or GRANT leaves none.
NoStrayRole ==
    \A l \in Leases : row[l] = "none" =>
        /\ role[l] = "created" => \/ pc[l] \in {"grant", "rollback"}
                                  \/ mishap[l] \in {"connection", "process"}
        /\ role[l] = "granted" => pc[l] \in {"insert", "cleanup"} \/ mishap[l] # "none"

\* A client that got a password has a lease on record, which the reaper will come to,
\* and a role that may connect: no undoing of a failure has dropped it.
HandedOutIsRecorded ==
    \A l \in Leases : answer[l] = "ok" => row[l] # "none" /\ role[l] = "granted"

\* Every expired lease is marked revoked, however many expire together, whichever
\* instances list them at once, crash or fail to write.
ExpiredIsMarked == \A l \in Leases : l \in Expired ~> row[l] = "revoked"

\* "reaper handles actual DB role cleanup" (handler/dynamic.go:211): the role of a
\* lease that was revoked is dropped in the end.
RevokedRoleIsDropped == \A l \in Leases : row[l] = "revoked" ~> role[l] \in {"none", "dropped"}
=============================================================================
