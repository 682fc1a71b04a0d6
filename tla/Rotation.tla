------------------------------- MODULE Rotation -------------------------------
(***************************************************************************)
(* Secret rotation: the worker of rotation/worker.go in every server       *)
(* instance, the tables of store/rotation.go, the Redis lock the instances *)
(* share, and the backends (webhook receivers, database roles) whose       *)
(* credentials rotations replace.                                          *)
(*                                                                         *)
(* A job is one goroutine running rotate.  A job is forgotten, with its    *)
(* rotation_history row, once its goroutine has returned (only the job     *)
(* that drew a row's id ever writes the row), and its identifier reused.   *)
(* A credential is its generation at its backend, which installs a new one *)
(* at every change; the value of a secret is the credential a rotation     *)
(* stored last, or one written by hand since.                              *)
(***************************************************************************)
EXTENDS Integers, FiniteSets, Functions

CONSTANTS
    Instances,     \* server processes sharing PostgreSQL and Redis
    Secrets,
    Schedules,     \* rows rotation_schedules may have
    Jobs,          \* identifiers of rotate goroutines
    SecretOf,      \* the secret of each schedule; several may share one
    Backends,      \* receivers and database roles schedules name
    BackendOf,     \* the backend of each schedule
    Hand,          \* the origin of a value no rotation stored
    Nobody,        \* the lock's holder when the key is absent
    Limit,         \* LIMIT of ListDueRotations (50 in the code)
    Interval,      \* interval_hours of every schedule
    MaxTime,       \* bound on the clock
    MaxGeneration, \* bound on the credentials backends install and return
    MaxFaults,     \* bound on database, Redis and process failures
    MaxCalls       \* bound on users' calls that trigger, update or delete

ASSUME RotationAssumption ==
    /\ SecretOf \in [Schedules -> Secrets]
    /\ BackendOf \in [Schedules -> Backends]
    /\ Hand \notin Backends
    /\ Instances # {} /\ Schedules # {} /\ IsFiniteSet(Jobs)
    /\ Nobody \notin Jobs
    /\ Limit \in Nat /\ Interval \in Nat \ {0}
    /\ {MaxTime, MaxGeneration, MaxFaults, MaxCalls} \subseteq Nat

VARIABLES
    now,           \* the database's clock
    sched,         \* rotation_schedules: present, next_rotation_at
    live,          \* secrets not soft-deleted
    val,           \* the secret's value: where it is from, its generation
    installed,     \* the generation each backend accepts (external)
    late,          \* requests given up that may yet be carried out (external)
    lock,          \* the Redis key of each secret: absent, or who set it
    pc,            \* where a job's goroutine is
    home, of,      \* its instance and schedule
    new,           \* newValue, as returned by callBackend
    hist,          \* the status of the job's rotation_history row
    wrote,         \* the job has replaced the secret's value (auxiliary)
    lapsed,        \* a job has outlived its lock (auxiliary)
    gone,          \* generations the store lost or never got (auxiliary)
    faults, calls  \* counts for the bounds

tables == <<sched, live, val>>
local  == <<home, of>>
backends == <<installed, late>>
ghosts == <<lapsed, gone>>
vars   == <<now, sched, live, val, backends, late, lock, pc, home, of, new, hist,
            wrote, lapsed, gone, faults, calls>>

Places == {"idle", "start", "pending", "load", "call", "failed", "write",
           "reschedule", "success", "unlock"}
Inside == Places \ {"idle", "start"}

TypeOK ==
    /\ now \in Nat
    /\ sched \in [Schedules -> [st : {"absent", "on", "deleted"}, next : Nat]]
    /\ live \subseteq Secrets
    /\ val \in [Secrets -> [by : Backends \cup {Hand}, gen : Nat]]
    /\ installed \in [Backends -> Nat]
    /\ late \in [Backends -> Nat]
    /\ lock \in [Secrets -> Jobs \cup {Nobody}]
    /\ pc \in [Jobs -> Places]
    /\ home \in [Jobs -> Instances]
    /\ of \in [Jobs -> Schedules]
    /\ new \in [Jobs -> Nat]
    /\ hist \in [Jobs -> {"none", "pending", "failed", "success"}]
    /\ wrote \in [Jobs -> BOOLEAN]
    /\ lapsed \subseteq Secrets
    /\ gone \in [Backends -> SUBSET Nat]
    /\ faults \in 0 .. MaxFaults
    /\ calls \in 0 .. MaxCalls

\* What the variables of a goroutine that does not run are left at.
AnyInstance == CHOOSE i \in Instances : TRUE
AnySchedule == CHOOSE c \in Schedules : TRUE

\* A value a user wrote, as every secret is created with.
ByHand == [by |-> Hand, gen |-> 0]

Init ==
    /\ now = 0
    /\ sched = [c \in Schedules |-> [st |-> "absent", next |-> 0]]
    /\ live = Secrets
    /\ val = [s \in Secrets |-> ByHand]
    /\ installed = [b \in Backends |-> 0]
    /\ late = [b \in Backends |-> 0]
    /\ lock = [s \in Secrets |-> Nobody]
    /\ pc = [j \in Jobs |-> "idle"]
    /\ home = [j \in Jobs |-> AnyInstance]
    /\ of = [j \in Jobs |-> AnySchedule]
    /\ new = [j \in Jobs |-> 0]
    /\ hist = [j \in Jobs |-> "none"]
    /\ wrote = [j \in Jobs |-> FALSE]
    /\ lapsed = {} /\ gone = [b \in Backends |-> {}]
    /\ faults = 0 /\ calls = 0

-----------------------------------------------------------------------------
Secret(j) == SecretOf[of[j]]
Backend(j) == BackendOf[of[j]]

\* The jobs that went past SetNX and have not yet run their deferred Del.
Holders(s) == {j \in Jobs : pc[j] \in Inside /\ Secret(j) = s}

\* The rotation_schedules row exists.  (No code ever sets enabled to FALSE.)
On(c) == sched[c].st = "on"

Goto(j, place) == pc' = [pc EXCEPT ![j] = place]

\* One of the failures the bound allows.
Fault == faults < MaxFaults /\ faults' = faults + 1

\* One of the calls by users the bound allows.
Call == calls < MaxCalls /\ calls' = calls + 1

\* The goroutines of the jobs in J are over.
Return(J) ==
    /\ pc'    = [j \in Jobs |-> IF j \in J THEN "idle" ELSE pc[j]]
    /\ new'   = [j \in Jobs |-> IF j \in J THEN 0 ELSE new[j]]
    /\ hist'  = [j \in Jobs |-> IF j \in J THEN "none" ELSE hist[j]]
    /\ wrote' = [j \in Jobs |-> IF j \in J THEN FALSE ELSE wrote[j]]
    /\ home'  = [j \in Jobs |-> IF j \in J THEN AnyInstance ELSE home[j]]
    /\ of'    = [j \in Jobs |-> IF j \in J THEN AnySchedule ELSE of[j]]

\* A step that leaves everything but the job's own progress alone.
OnlyLocal == UNCHANGED <<now, tables, backends, lock, local, ghosts, calls>>

\* handler.CreateRotationSchedule: the secret is live; next_rotation_at is one
\* interval away; nothing stops a second schedule for the same secret.
CreateRotationSchedule(c) ==
    /\ SecretOf[c] \in live
    /\ sched[c].st = "absent"
    /\ sched' = [sched EXCEPT ![c] = [st |-> "on", next |-> now + Interval]]
    /\ UNCHANGED <<now, live, val, backends, lock, pc, local, new, hist, wrote,
                   ghosts, faults, calls>>

\* handler.DeleteRotationSchedule: the row goes, goroutines running for it stay.
DeleteRotationSchedule(c) ==
    /\ Call
    /\ SecretOf[c] \in live
    /\ On(c)
    /\ sched' = [sched EXCEPT ![c] = [st |-> "deleted", next |-> 0]]
    /\ UNCHANGED <<now, live, val, backends, lock, pc, local, new, hist, wrote,
                   ghosts, faults>>

\* handler.DeleteSecret: a soft delete, so its schedules are not cascaded away.
DeleteSecret(s) ==
    /\ Call
    /\ s \in live
    /\ live' = live \ {s}
    /\ UNCHANGED <<now, sched, val, backends, lock, pc, local, new, hist, wrote,
                   ghosts, faults>>

\* What is taken out of the store when value v replaces that of secret s: all that
\* a backend's credentials were, when v is not of it; a newer credential than v,
\* when v comes from a job that outlived its lock.
Overwritten(s, v, b) ==
    IF val[s].by # b THEN {}
    ELSE IF v.by # b THEN 1 .. val[s].gen
    ELSE IF s \in lapsed THEN (v.gen + 1) .. val[s].gen
    ELSE {}

Replace(s, v) ==
    /\ val'  = [val EXCEPT ![s] = v]
    /\ gone' = [b \in Backends |-> gone[b] \cup Overwritten(s, v, b)]

\* A value written by a user: handler.UpdateSecret, an import that overwrites it, or
\* an approved update (see SecretStore for their statements).
UpdateSecret(s) ==
    /\ Call
    /\ s \in live
    /\ Replace(s, ByHand)
    /\ UNCHANGED <<now, sched, live, backends, lock, pc, local, new, hist, wrote,
                   lapsed, faults>>

Clock ==
    /\ now < MaxTime
    /\ now' = now + 1
    /\ UNCHANGED <<tables, backends, lock, pc, local, new, hist, wrote, ghosts,
                   faults, calls>>

-----------------------------------------------------------------------------
Due == {c \in Schedules : On(c) /\ sched[c].next <= now}

\* What ListDueRotations may return: ORDER BY next_rotation_at LIMIT 50.
DueLists ==
    {D \in SUBSET Due :
        /\ Cardinality(D) = IF Cardinality(Due) < Limit THEN Cardinality(Due) ELSE Limit
        /\ \A c \in D, e \in Due \ D : sched[c].next <= sched[e].next}

Idle == {j \in Jobs : pc[j] = "idle"}

\* The identifiers of n new goroutines (which ones makes no difference).
Fresh(n) == CHOOSE J \in SUBSET Idle : Cardinality(J) = n

\* `go w.rotate(ctx, sched, triggeredBy)` for the jobs in the domain of f.
Start(f, i) ==
    LET J == DOMAIN f IN
    /\ J \subseteq Idle
    /\ pc'   = [j \in Jobs |-> IF j \in J THEN "start" ELSE pc[j]]
    /\ home' = [j \in Jobs |-> IF j \in J THEN i ELSE home[j]]
    /\ of'   = [j \in Jobs |-> IF j \in J THEN f[j] ELSE of[j]]
    /\ UNCHANGED <<now, tables, backends, lock, new, hist, wrote, ghosts, faults>>

\* Instance i's 60-second ticker fires: one goroutine per schedule listed.  No
\* new tick is taken while the identifiers for it are in use (a bound).
Tick(i) ==
    \E D \in DueLists : \E J \in SUBSET Idle :
        /\ D # {}
        /\ Cardinality(J) = Cardinality(D) /\ J = Fresh(Cardinality(D))
        /\ \E f \in Bijection(J, D) : Start(f, i)
        /\ UNCHANGED calls

\* handler.TriggerRotation and TriggerManual: any schedule of a live secret.
TriggerManual(i, c) ==
    /\ Call
    /\ SecretOf[c] \in live
    /\ On(c)
    /\ \E j \in Idle : {j} = Fresh(1) /\ Start([x \in {j} |-> c], i)

-----------------------------------------------------------------------------
(* rotate, statement by statement.                                         *)

\* Mutant: SET without NX.
AcquireLockWithoutNX(j) ==
    /\ pc[j] = "start"
    /\ lock' = [lock EXCEPT ![Secret(j)] = j]
    /\ Goto(j, "pending")
    /\ UNCHANGED <<now, tables, backends, local, new, hist, wrote, ghosts, faults, calls>>

\* Mutant: a Redis error counts as acquired (fail open).
AcquireLockFailsOpen(j) ==
    LET s == Secret(j) IN
    /\ pc[j] = "start"
    /\ \/ /\ lock[s] = Nobody /\ lock' = [lock EXCEPT ![s] = j]
          /\ Goto(j, "pending")
          /\ UNCHANGED <<local, new, hist, wrote, faults>>
       \/ lock[s] # Nobody /\ Return({j}) /\ UNCHANGED <<lock, faults>>
       \/ Fault /\ Goto(j, "pending") /\ UNCHANGED <<lock, local, new, hist, wrote>>
    /\ UNCHANGED <<now, tables, backends, ghosts, calls>>

\* SET key NX EX 30, whose error the code takes for "not acquired": a key set by
\* a call that then failed belongs to nobody and stays until it expires.
AcquireLock(j) ==
    LET s == Secret(j) IN
    /\ pc[j] = "start"
    /\ \/ /\ lock[s] = Nobody
          /\ lock' = [lock EXCEPT ![s] = j]
          /\ Goto(j, "pending")
          /\ UNCHANGED <<local, new, hist, wrote, faults>>
       \/ /\ lock[s] # Nobody
          /\ Return({j})
          /\ UNCHANGED <<lock, faults>>
       \/ /\ Fault
          /\ Return({j})
          /\ \/ UNCHANGED lock
             \/ lock[s] = Nobody /\ lock' = [lock EXCEPT ![s] = j]
    /\ UNCHANGED <<now, tables, backends, ghosts, calls>>

\* WriteRotationHistory always INSERTs the job's one id, and its error is ignored:
\* the row keeps the status it was first inserted with; schedule_id must exist.
WriteHistory(j, status) ==
    \/ /\ hist' = [hist EXCEPT ![j] =
                     IF hist[j] = "none" /\ On(of[j]) THEN status ELSE @]
       /\ UNCHANGED faults
    \/ Fault /\ UNCHANGED hist

\* Mutant: the row says failed until the rotation is known to have succeeded.
WritePendingAsFailed(j) ==
    /\ pc[j] = "pending"
    /\ WriteHistory(j, "failed")
    /\ Goto(j, "load")
    /\ UNCHANGED <<new, wrote>> /\ OnlyLocal

WritePending(j) ==
    /\ pc[j] = "pending"
    /\ WriteHistory(j, "pending")
    /\ Goto(j, "load")
    /\ UNCHANGED <<new, wrote>> /\ OnlyLocal

\* GetSecretByID: a missing secret and a database error are both failures.
LoadSecret(j) ==
    /\ pc[j] = "load"
    /\ \/ Secret(j) \in live /\ Goto(j, "call") /\ UNCHANGED faults
       \/ Secret(j) \notin live /\ Goto(j, "failed") /\ UNCHANGED faults
       \/ Fault /\ Goto(j, "failed")
    /\ UNCHANGED <<new, hist, wrote>> /\ OnlyLocal

\* Generations lost on the way to the store: of b, when the jobs in J fail to write.
Unstored(J, b) == {new[j] : j \in {k \in J : pc[k] = "write" /\ Backend(k) = b}}

\* The bound on the credentials backends install.
MayInstall == FoldFunction(+, 0, installed) < MaxGeneration

\* callBackend: the backend installs a credential and returns it; it refuses; or the
\* call fails (a timeout, a lost or unreadable answer) and the backend may have
\* carried it out, or may yet do so.
CallBackend(j) ==
    LET b == Backend(j) IN
    /\ pc[j] = "call"
    /\ \/ /\ MayInstall
          /\ installed' = [installed EXCEPT ![b] = @ + 1]
          /\ new' = [new EXCEPT ![j] = installed[b] + 1]
          /\ Goto(j, "write")
          /\ UNCHANGED <<late, faults>>
       \/ /\ Goto(j, "failed")
          /\ UNCHANGED <<backends, new, faults>>
       \/ /\ Fault
          /\ late' = [late EXCEPT ![b] = @ + 1]
          /\ Goto(j, "failed")
          /\ UNCHANGED <<installed, new>>
    /\ UNCHANGED <<now, tables, lock, local, hist, wrote, ghosts, calls>>

\* A backend carries out a request its job has given up, or did not live to see
\* answered: nobody is told the credential.
LateInstall(b) ==
    /\ late[b] > 0
    /\ late' = [late EXCEPT ![b] = @ - 1]
    /\ installed' = [installed EXCEPT ![b] = @ + 1]
    /\ gone' = [gone EXCEPT ![b] = @ \cup {installed[b] + 1}]
    /\ UNCHANGED <<now, tables, lock, pc, local, new, hist, wrote, lapsed, faults, calls>>

\* The failure path: the history row says failed, Sentry and the owners are told;
\* next_rotation_at is left as it is.
WriteFailed(j) ==
    /\ pc[j] = "failed"
    /\ WriteHistory(j, "failed")
    /\ Goto(j, "unlock")
    /\ UNCHANGED <<new, wrote>> /\ OnlyLocal

Stored(j) == [by |-> Backend(j), gen |-> new[j]]

\* Mutant: the UPDATE skips a soft-deleted secret and nobody counts the rows.
WriteValueOnlyLive(j) ==
    /\ pc[j] = "write"
    /\ IF Secret(j) \in live THEN Replace(Secret(j), Stored(j)) ELSE UNCHANGED <<val, gone>>
    /\ wrote' = [wrote EXCEPT ![j] = TRUE]
    /\ Goto(j, "reschedule")
    /\ UNCHANGED <<now, sched, live, backends, lock, local, new, hist, lapsed, faults, calls>>

\* The write fails: the credential the backend installed is lost.
NotStored(J) == gone' = [b \in Backends |-> gone[b] \cup Unstored(J, b)]

\* Encrypt and RotateSecretValue (see SecretStore for its statements): the new
\* value is stored, deleted secret or not; on an error, with the transaction
\* committed or not, the job returns and writes no history.
WriteValue(j) ==
    LET Store == /\ Replace(Secret(j), Stored(j))
                 /\ wrote' = [wrote EXCEPT ![j] = TRUE]
    IN  /\ pc[j] = "write"
        /\ \/ Store /\ Goto(j, "reschedule") /\ UNCHANGED faults
           \/ Store /\ Fault /\ Goto(j, "unlock")
           \/ /\ Fault /\ Goto(j, "unlock")
              /\ NotStored({j})
              /\ UNCHANGED <<val, wrote>>
        /\ UNCHANGED <<now, sched, live, backends, lock, local, new, hist, lapsed, calls>>

\* UpdateRotationAfterSuccess, its error ignored.
Reschedule(j) ==
    LET c == of[j] IN
    /\ pc[j] = "reschedule"
    /\ \/ /\ sched' =
                IF On(c) THEN [sched EXCEPT ![c] = [st |-> "on", next |-> now + Interval]]
                ELSE sched
          /\ UNCHANGED faults
       \/ Fault /\ UNCHANGED sched
    /\ Goto(j, "success")
    /\ UNCHANGED <<now, live, val, backends, lock, local, new, hist, wrote, ghosts, calls>>

\* The history row says success, and the hub tells the environment's watchers.
WriteSuccess(j) ==
    /\ pc[j] = "success"
    /\ WriteHistory(j, "success")
    /\ Goto(j, "unlock")
    /\ UNCHANGED <<new, wrote>> /\ OnlyLocal

\* A secret nobody is rotating any more has no lapsed lock.
Leave(J) ==
    lapsed' = {s \in lapsed : Holders(s) \ J # {}}

\* The deferred DEL, which removes the key whoever set it; when it fails the key
\* stays until it expires.
Unlock(j) ==
    /\ pc[j] = "unlock"
    /\ \/ lock' = [lock EXCEPT ![Secret(j)] = Nobody] /\ UNCHANGED faults
       \/ Fault /\ UNCHANGED lock
    /\ Return({j})
    /\ Leave({j})
    /\ UNCHANGED <<now, tables, backends, gone, calls>>

\* Mutant: SET without EX.
ExpireLockNever(s) == FALSE /\ UNCHANGED vars

\* The key's 30 seconds are over, whether its job has finished or not.
ExpireLock(s) ==
    /\ lock[s] # Nobody
    /\ lock' = [lock EXCEPT ![s] = Nobody]
    /\ \/ lock[s] \in Holders(s) /\ Fault
          /\ lapsed' = lapsed \cup {s}
       \/ lock[s] \notin Holders(s) /\ UNCHANGED <<lapsed, faults>>
    /\ UNCHANGED <<now, tables, backends, pc, local, new, hist, wrote, gone, calls>>

\* The process of instance i ends; main does not wait for rotation goroutines.  A
\* request it had sent to a backend may still be carried out.
Crash(i) ==
    LET J == {j \in Jobs : home[j] = i /\ pc[j] # "idle"} IN
    /\ J # {} /\ Fault
    /\ Return(J)
    /\ NotStored(J)
    /\ late' = [b \in Backends |->
                  late[b] + Cardinality({j \in J : pc[j] = "call" /\ Backend(j) = b})]
    /\ Leave(J)
    /\ UNCHANGED <<now, tables, installed, lock, calls>>

-----------------------------------------------------------------------------
Step(j) ==
    \/ AcquireLock(j) \/ WritePending(j) \/ LoadSecret(j) \/ CallBackend(j)
    \/ WriteFailed(j) \/ WriteValue(j) \/ Reschedule(j) \/ WriteSuccess(j)
    \/ Unlock(j)

Next ==
    \/ Clock
    \/ \E c \in Schedules : CreateRotationSchedule(c) \/ DeleteRotationSchedule(c)
    \/ \E s \in Secrets : DeleteSecret(s) \/ UpdateSecret(s) \/ ExpireLock(s)
    \/ \E b \in Backends : LateInstall(b)
    \/ \E i \in Instances : \/ Tick(i) \/ Crash(i)
                           \/ \E c \in Schedules : TriggerManual(i, c)
    \/ \E j \in Jobs : Step(j)

Spec == Init /\ [][Next]_vars

\* Tickers keep firing, goroutines run, Redis expires keys and time passes.
FairSpec ==
    /\ Spec
    /\ WF_vars(Clock)
    /\ \A i \in Instances : WF_vars(Tick(i))
    /\ \A j \in Jobs : WF_vars(Step(j))
    /\ \A s \in Secrets : WF_vars(ExpireLock(s))

-----------------------------------------------------------------------------
(* Properties.                                                             *)

\* One job at a time rotates a secret, whichever instances and triggers started
\* them, unless a job outlived its lock's 30 seconds: crashes, lost replies of
\* Redis, a failed DEL and reused locks change nothing to that.
MutualExclusion ==
    \A j, k \in Jobs :
        (pc[j] \in Inside /\ pc[k] \in Inside /\ Secret(j) = Secret(k)
            /\ Secret(j) \notin lapsed) => j = k

\* Its inductive form: a job inside holds the key of its secret.
HoldsLock ==
    \A j \in Jobs : (pc[j] \in Inside /\ Secret(j) \notin lapsed) => lock[Secret(j)] = j

\* All of a backend's schedules rotate one secret.
Serves(b, s) == \A c \in Schedules : BackendOf[c] = b => SecretOf[c] = s

\* When nobody is rotating a secret, its value is the newest credential that the
\* backends of its schedules installed, a late one and those that the store failed
\* to take (or had overwritten, by hand or by another backend) excepted: rotations
\* drop none, whoever else writes and however requests and crashes fall.
InSync ==
    \A s \in Secrets, b \in Backends :
        (Serves(b, s) /\ Holders(s) = {}) =>
            \A g \in 1 .. installed[b] :
                g \in gone[b] \/ (val[s].by = b /\ g <= val[s].gen)

\* A rotation_history row that says "success" is of a rotation that replaced the
\* value, and one that says "failed" of a rotation that did not.
HistoryTruthful ==
    \A j \in Jobs : /\ hist[j] = "success" => wrote[j]
                    /\ hist[j] = "failed" => ~wrote[j]

\* Its inductive form: what each place of rotate knows of the row and of the value.
OutcomeKnown ==
    \A j \in Jobs :
        /\ pc[j] \in {"idle", "start", "pending"} => hist[j] = "none" /\ ~wrote[j]
        /\ pc[j] \in {"load", "call", "write"} => hist[j] \in {"none", "pending"} /\ ~wrote[j]
        /\ pc[j] = "failed" => ~wrote[j]
        /\ pc[j] \in {"reschedule", "success"} => wrote[j]

\* While a job is between the backend's answer and the store's write, no other
\* rotation, trigger or schedule of the secret has its backend install a newer
\* credential, unless the job outlived its lock: only a request given up before can
\* come in between.
PendingValueIsLatest ==
    \A j \in Jobs :
        (pc[j] = "write" /\ Secret(j) \notin lapsed /\ Serves(Backend(j), Secret(j))) =>
            \A g \in (new[j] + 1) .. installed[Backend(j)] : g \in gone[Backend(j)]

\* The inductive form of InSync and PendingValueIsLatest: a credential is lost, in
\* the store, older than what is there, or about to be stored.
SyncInv ==
    /\ PendingValueIsLatest
    /\ \A s \in Secrets, b \in Backends : Serves(b, s) =>
          \A g \in 1 .. installed[b] :
              \/ g \in gone[b]
              \/ val[s].by = b /\ g <= val[s].gen
              \/ \E j \in Jobs : pc[j] = "write" /\ Backend(j) = b /\ new[j] = g

\* A live secret with a due schedule is attempted (some job for it gets past the
\* lock), whatever crashed or was lost before, as long as one listing has room for
\* all that are due (Limit): those that keep failing stay due and come first.
\* Which of its schedules is attempted is not promised: of two, one whose backend
\* keeps failing may take the lock in every round.
DueSecretAttempted ==
    \A s \in Secrets :
        (s \in live /\ \E c \in Due : SecretOf[c] = s) ~>
            (s \notin live \/ Holders(s) # {} \/ Cardinality(Due) > Limit
             \/ \A c \in Due : SecretOf[c] # s)

=============================================================================
