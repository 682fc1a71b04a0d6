------------------------------ MODULE Projects -------------------------------
(***************************************************************************)
(* The projects of one organization and their environments:                *)
(* handler/project.go and store/project.go, under the limits of the        *)
(* organization's plan (billing/limits.go).                                *)
(*                                                                         *)
(* An action is one SQL statement of a request.  A project is its slug,    *)
(* unique in the organization, deleted ones included; an environment is    *)
(* its slug in a project and, as it may be deleted and created again, the  *)
(* number of its row.  The audit event each request ends with is left to   *)
(* module Audit.                                                           *)
(***************************************************************************)
EXTENDS Integers, FiniteSets

CONSTANTS
    Requests,      \* calls of the endpoints, one each
    Slugs,         \* slugs of projects
    NoSlug,
    Plans,         \* plan tiers
    Limit,         \* planLimitsMap: MaxProjects and MaxEnvsPerProj, 0 for no limit
    MaxFaults      \* bound on failed statements and lost connections

ASSUME ProjectsAssumption ==
    /\ IsFiniteSet(Requests) /\ IsFiniteSet(Slugs) /\ NoSlug \notin Slugs
    /\ Limit \in [Plans -> [projects : Nat, envs : Nat]]
    /\ MaxFaults \in Nat

VARIABLES
    plan,          \* the organization's plan_tier, which billing changes
    project,       \* the projects rows
    env,           \* the environments row of a project and slug, if there is one
    rows,          \* how many rows they have had, the last one's number
    call,          \* where a request is, and what it works on
    roof,          \* the largest limit a project was counted against (auxiliary)
    unlimited,     \* one was created without a limit (auxiliary)
    peak,          \* most creates ever between their COUNT and INSERT (auxiliary)
    disturbed,     \* projects whose creation was broken off, lost a statement, or met
                   \* a "production" somebody else had created (auxiliary)
    faults

aux  == <<roof, unlimited, peak, disturbed>>
vars == <<plan, project, env, rows, call, aux, faults>>

\* CreateProject's default environments, in their order.
Defaults == <<"development", "staging", "production">>
EnvSlugs == {Defaults[i] : i \in 1 .. 3}
Kind(e)  == IF e = "production" THEN "protected" ELSE "open"

Call == [at : {"idle", "plan", "count", "insert", "defaults", "delete",
               "envplan", "envcount", "envinsert", "find", "remove", "done"},
         slug : Slugs \cup {NoSlug}, env : EnvSlugs, kind : {"open", "protected"},
         row : Nat, limit : Nat, next : 1 .. 3]

TypeOK ==
    /\ plan \in Plans
    /\ project \in [Slugs -> {"none", "live", "deleted"}]
    /\ env \in [Slugs -> [EnvSlugs -> {"none", "open", "protected"}]]
    /\ rows \in [Slugs -> [EnvSlugs -> Nat]]
    /\ call \in [Requests -> Call]
    /\ roof \in Nat /\ unlimited \in BOOLEAN
    /\ peak \in 1 .. Cardinality(Requests) + 1
    /\ disturbed \subseteq Slugs
    /\ faults \in 0 .. MaxFaults

Live == {p \in Slugs : project[p] = "live"}

Quiet(place) == [at |-> place, slug |-> NoSlug, env |-> "staging", kind |-> "open",
                 row |-> 0, limit |-> 0, next |-> 1]

\* A project is there with its default environments, or is not.
Init ==
    /\ plan \in Plans
    /\ project \in [Slugs -> {"none", "live"}]
    /\ Cardinality(Live) < 2
    /\ env = [p \in Slugs |-> [e \in EnvSlugs |-> IF p \in Live THEN Kind(e) ELSE "none"]]
    /\ rows = [p \in Slugs |-> [e \in EnvSlugs |-> IF p \in Live THEN 1 ELSE 0]]
    /\ call = [r \in Requests |-> Quiet("idle")]
    /\ roof = Cardinality(Live) /\ unlimited = FALSE /\ peak = 1
    /\ disturbed = {}
    /\ faults = 0

-----------------------------------------------------------------------------
At(r, place)   == call[r].at = place
Goto(r, place) == call' = [call EXCEPT ![r].at = place]
Finish(r)      == call' = [call EXCEPT ![r] = Quiet("done")]

Fault == faults < MaxFaults /\ faults' = faults + 1

\* Mutant: the limit itself is not past it.
ExceedsLimitByMore(limit, current) == limit > 0 /\ current > limit

ExceedsLimit(limit, current) == limit > 0 /\ current >= limit

\* A statement fails without effect and the handler answers 500.
Fail(r) ==
    /\ call[r].at \in {"insert", "delete", "envinsert", "find", "remove"}
    /\ Finish(r)
    /\ UNCHANGED <<plan, project, env, rows, aux, faults>>

\* Webhooks, coupons and cancellations.
SetPlan(t) ==
    /\ plan # t
    /\ plan' = t
    /\ UNCHANGED <<project, env, rows, call, aux, faults>>

-----------------------------------------------------------------------------
\* CreateProject, in which only the reading of the organization must succeed.
BeginCreateProject(r, p) ==
    /\ At(r, "idle")
    /\ call' = [call EXCEPT ![r] = [@ EXCEPT !.at = "plan", !.slug = p]]
    /\ UNCHANGED <<plan, project, env, rows, aux, faults>>

ReadPlan(r) ==
    /\ At(r, "plan")
    /\ \/ /\ call' = [call EXCEPT ![r] = [@ EXCEPT !.at = "count", !.limit = Limit[plan].projects]]
          /\ UNCHANGED faults
       \/ Fault /\ Finish(r)
    /\ UNCHANGED <<plan, project, env, rows, aux>>

Adding == {r \in Requests : At(r, "insert")}

\* r goes on to its INSERT.
Admit(r) ==
    LET limit == call[r].limit IN
    /\ Goto(r, "insert")
    /\ roof' = IF limit > roof THEN limit ELSE roof
    /\ unlimited' = (unlimited \/ limit = 0)
    /\ peak' = LET n == Cardinality(Adding) + 1 IN IF n > peak THEN n ELSE peak

\* CountOrgProjects: a count that fails is taken for 0.
CountProjects(r) ==
    /\ At(r, "count")
    /\ \/ /\ ~ExceedsLimit(call[r].limit, Cardinality(Live))
          /\ Admit(r)
          /\ UNCHANGED faults
       \/ Fault /\ Admit(r)
       \/ /\ ExceedsLimit(call[r].limit, Cardinality(Live))
          /\ Finish(r)
          /\ UNCHANGED <<roof, unlimited, peak, faults>>
    /\ UNCHANGED <<plan, project, env, rows, disturbed>>

\* The unique index has the slug, a deleted project's too; else the project is there,
\* though the answer may be lost.
InsertProject(r) ==
    LET p == call[r].slug IN
    /\ At(r, "insert")
    /\ \/ /\ project[p] # "none"
          /\ Finish(r)
          /\ UNCHANGED <<project, disturbed, faults>>
       \/ /\ project[p] = "none"
          /\ project' = [project EXCEPT ![p] = "live"]
          /\ \/ Goto(r, "defaults") /\ UNCHANGED <<disturbed, faults>>
             \/ Fault /\ Finish(r) /\ disturbed' = disturbed \cup {p}
    /\ UNCHANGED <<plan, env, rows, roof, unlimited, peak>>

\* INSERT of an environment whose slug is not taken.
AddRow(p, e, kind) ==
    /\ env' = [env EXCEPT ![p][e] = kind]
    /\ rows' = [rows EXCEPT ![p][e] = @ + 1]

\* The next default environment, or the end.
NextDefault(r) ==
    IF call[r].next = 3 THEN Finish(r) ELSE call' = [call EXCEPT ![r].next = @ + 1]

\* Mutant: the loop ends at the first environment that is already there.
CreateDefaultStops(r) ==
    LET p == call[r].slug  e == Defaults[call[r].next] IN
    /\ At(r, "defaults")
    /\ \/ env[p][e] = "none" /\ AddRow(p, e, Kind(e)) /\ NextDefault(r)
       \/ env[p][e] # "none" /\ Finish(r) /\ UNCHANGED <<env, rows>>
    /\ UNCHANGED <<plan, project, aux, faults>>

\* One CreateEnvironment of the loop.  Its error is ignored, be it that the slug is
\* taken or that the statement failed.
CreateDefault(r) ==
    LET p == call[r].slug  e == Defaults[call[r].next] IN
    /\ At(r, "defaults")
    /\ \/ /\ env[p][e] = "none"
          /\ AddRow(p, e, Kind(e))
          /\ UNCHANGED <<disturbed, faults>>
       \/ /\ env[p][e] # "none"
          /\ UNCHANGED <<env, rows, disturbed, faults>>
       \/ /\ Fault
          /\ disturbed' = disturbed \cup {p}
          /\ UNCHANGED <<env, rows>>
    /\ NextDefault(r)
    /\ UNCHANGED <<plan, project, roof, unlimited, peak>>

\* The client goes away: the request's context is cancelled, and with it what the
\* loop has left to do.
Disconnect(r) ==
    /\ At(r, "defaults")
    /\ Fault
    /\ Finish(r)
    /\ disturbed' = disturbed \cup {call[r].slug}
    /\ UNCHANGED <<plan, project, env, rows, roof, unlimited, peak>>

-----------------------------------------------------------------------------
\* GetProjectByID, which opens the other three: a live project, or an error.
Open(r, p, e, kind, row, place) ==
    /\ At(r, "idle")
    /\ p \in Live
    /\ call' = [call EXCEPT ![r] = [@ EXCEPT !.at = place, !.slug = p, !.env = e,
                                             !.kind = kind, !.row = row]]
    /\ UNCHANGED <<plan, project, env, rows, aux, faults>>

\* DeleteProject: the environments stay.
BeginDeleteProject(r, p) == Open(r, p, "staging", "open", 0, "delete")

DeleteProject(r) ==
    /\ At(r, "delete")
    /\ project' = [project EXCEPT ![call[r].slug] = "deleted"]
    /\ Finish(r)
    /\ UNCHANGED <<plan, env, rows, aux, faults>>

\* CreateEnvironment.
BeginCreateEnvironment(r, p, e, kind) == Open(r, p, e, kind, 0, "envplan")

\* An organization that can not be read has no limit.
ReadEnvPlan(r) ==
    /\ At(r, "envplan")
    /\ \/ /\ call' = [call EXCEPT ![r] = [@ EXCEPT !.at = "envcount", !.limit = Limit[plan].envs]]
          /\ UNCHANGED faults
       \/ Fault /\ Goto(r, "envinsert")
    /\ UNCHANGED <<plan, project, env, rows, aux>>

CountEnvironments(r) ==
    LET n == Cardinality({e \in EnvSlugs : env[call[r].slug][e] # "none"}) IN
    /\ At(r, "envcount")
    /\ \/ ~ExceedsLimit(call[r].limit, n) /\ Goto(r, "envinsert") /\ UNCHANGED faults
       \/ Fault /\ Goto(r, "envinsert")
       \/ ExceedsLimit(call[r].limit, n) /\ Finish(r) /\ UNCHANGED faults
    /\ UNCHANGED <<plan, project, env, rows, aux>>

InsertEnvironment(r) ==
    LET p == call[r].slug  e == call[r].env IN
    /\ At(r, "envinsert")
    /\ \/ /\ env[p][e] = "none"
          /\ AddRow(p, e, call[r].kind)
          /\ disturbed' = IF e = "production" THEN disturbed \cup {p} ELSE disturbed
       \/ env[p][e] # "none" /\ UNCHANGED <<env, rows, disturbed>>
    /\ Finish(r)
    /\ UNCHANGED <<plan, project, roof, unlimited, peak, faults>>

\* DeleteEnvironment of the row the request names.
BeginDeleteEnvironment(r, p, e) == Open(r, p, e, "open", rows[p][e], "find")

\* GetEnvironmentByID: the row is gone, or protected, or may be deleted.
FindEnvironment(r) ==
    LET p == call[r].slug  e == call[r].env IN
    /\ At(r, "find")
    /\ IF env[p][e] = "open" /\ rows[p][e] = call[r].row THEN Goto(r, "remove") ELSE Finish(r)
    /\ UNCHANGED <<plan, project, env, rows, aux, faults>>

\* Mutant: DELETE by project and slug.
DeleteEnvironmentBySlug(r) ==
    /\ At(r, "remove")
    /\ env' = [env EXCEPT ![call[r].slug][call[r].env] = "none"]
    /\ Finish(r)
    /\ UNCHANGED <<plan, project, rows, aux, faults>>

\* DELETE by id, whatever has happened since the row was read.
DeleteEnvironment(r) ==
    LET p == call[r].slug  e == call[r].env IN
    /\ At(r, "remove")
    /\ env' = IF rows[p][e] = call[r].row THEN [env EXCEPT ![p][e] = "none"] ELSE env
    /\ Finish(r)
    /\ UNCHANGED <<plan, project, rows, aux, faults>>

-----------------------------------------------------------------------------
Begin(r, p) ==
    \/ BeginCreateProject(r, p) \/ BeginDeleteProject(r, p)
    \/ \E e \in EnvSlugs :
          \/ BeginDeleteEnvironment(r, p, e)
          \/ \E kind \in {"open", "protected"} : BeginCreateEnvironment(r, p, e, kind)

Continue(r) ==
    \/ Fail(r)
    \/ ReadPlan(r) \/ CountProjects(r) \/ InsertProject(r) \/ CreateDefault(r) \/ Disconnect(r)
    \/ DeleteProject(r)
    \/ ReadEnvPlan(r) \/ CountEnvironments(r) \/ InsertEnvironment(r)
    \/ FindEnvironment(r) \/ DeleteEnvironment(r)

Next ==
    \/ \E t \in Plans : SetPlan(t)
    \/ \E r \in Requests : Continue(r) \/ \E p \in Slugs : Begin(r, p)

Spec == Init /\ [][Next]_vars

-----------------------------------------------------------------------------
(* Properties.                                                             *)

\* The limit on projects is counted before the INSERT, outside any transaction.  It is
\* passed by no more than the creates that ever overlapped, less one, and the
\* statements that failed.  The plan may change at any time: the limit meant is the
\* largest a project was counted against.
ProjectLimit ==
    unlimited \/ Cardinality(Live) + Cardinality(Adding) <= roof + peak - 1 + faults

\* A project whose creation is over has a protected production environment, though
\* every error of the loop that creates it is ignored and others may create
\* environments in the project before the loop does: unless that other one is called
\* production, or a statement or the connection was lost.
ProductionIsProtected ==
    \A p \in Slugs :
        \/ project[p] = "none"
        \/ \E r \in Requests : At(r, "defaults") /\ call[r].slug = p
        \/ env[p]["production"] = "protected"
        \/ p \in disturbed

\* A protected environment is never deleted, though is_protected is checked on an
\* earlier read: deleted and created again meanwhile, it has another id.
ProtectedStays ==
    [][\A p \in Slugs, e \in EnvSlugs :
          env[p][e] = "protected" => env'[p][e] = "protected"]_vars
=============================================================================
