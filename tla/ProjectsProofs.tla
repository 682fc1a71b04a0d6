---------------------------- MODULE ProjectsProofs ---------------------------
(***************************************************************************)
(* Proofs about Projects, for any finite sets of requests and slugs, any   *)
(* plans and limits, and any number of failures.                           *)
(***************************************************************************)
EXTENDS Projects, FiniteSetTheorems, TLAPS

USE ProjectsAssumption

-----------------------------------------------------------------------------
(* Where the steps leave a request.                                        *)

Places == {"idle", "plan", "count", "insert", "defaults", "delete", "envplan", "envcount",
           "envinsert", "find", "remove", "done"}

Moves(r, c) == call' = [call EXCEPT ![r] = c]

\* c and d work on the same thing.
Same(c, d) == /\ c.slug = d.slug /\ c.env = d.env /\ c.kind = d.kind
              /\ c.row = d.row /\ c.next = d.next

LEMMA Slugged == EnvSlugs = {"development", "staging", "production"}
BY DEF EnvSlugs, Defaults

LEMMA QuietCall == \A place \in Places : Quiet(place) \in Call
BY Slugged DEF Quiet, Call, Places

LEMMA Ended == ASSUME NEW r, Finish(r) PROVE Moves(r, Quiet("done"))
BY DEF Finish, Moves

LEMMA Moved ==
  ASSUME TypeOK, NEW r \in Requests, NEW c \in Call, Moves(r, c)
  PROVE  /\ call' \in [Requests -> Call]
         /\ call'[r] = c
         /\ \A q \in Requests : q # r => call'[q] = call[q]
BY DEF TypeOK, Moves

LEMMA AtReplaced ==
  ASSUME NEW c \in Call, NEW place \in Places
  PROVE  LET d == [c EXCEPT !.at = place] IN
         d \in Call /\ d.at = place /\ d.limit = c.limit /\ Same(d, c)
BY DEF Call, Places, Same

LEMMA LimitReplaced ==
  ASSUME NEW c \in Call, NEW place \in Places, NEW n \in Nat
  PROVE  LET d == [c EXCEPT !.at = place, !.limit = n] IN
         d \in Call /\ d.at = place /\ d.limit = n /\ Same(d, c)
<1> DEFINE d == [c EXCEPT !.at = place]
<1> DEFINE f == [d EXCEPT !.limit = n]
<1>1. d \in Call /\ d.at = place /\ Same(d, c)
  BY DEF Call, Places, Same
<1>2. [c EXCEPT !.at = place, !.limit = n] = f
  BY Zenon
<1> HIDE DEF d
<1>3. f \in Call /\ f.at = d.at /\ f.limit = n /\ Same(f, d)
  BY <1>1 DEF Call, Same
<1> HIDE DEF f
<1>4. f \in Call /\ f.at = place /\ f.limit = n /\ Same(f, c)
  BY <1>1, <1>3 DEF Same
<1>. QED BY <1>2, <1>4, Zenon

LEMMA NextReplaced ==
  ASSUME NEW c \in Call, c.next # 3
  PROVE  LET d == [c EXCEPT !.next = @ + 1] IN
         d \in Call /\ d.at = c.at /\ d.slug = c.slug /\ d.next = c.next + 1
BY DEF Call

LEMMA GotoMoves ==
  ASSUME TypeOK, NEW r \in Requests, NEW place \in Places, Goto(r, place)
  PROVE  \E c \in Call : Moves(r, c) /\ c.at = place /\ c.limit = call[r].limit /\ Same(c, call[r])
<1>1. call[r] \in Call
  BY DEF TypeOK
<1> DEFINE d == [call[r] EXCEPT !.at = place]
<1>2. d \in Call /\ d.at = place /\ d.limit = call[r].limit /\ Same(d, call[r])
  BY <1>1, AtReplaced, Zenon
<1>3. Moves(r, d)
  BY Zenon DEF Goto, Moves
<1> HIDE DEF d
<1>. QED BY <1>2, <1>3

LEMMA LimitMoves ==
  ASSUME TypeOK, NEW r \in Requests, NEW place \in Places, NEW n \in Nat,
         call' = [call EXCEPT ![r] = [@ EXCEPT !.at = place, !.limit = n]]
  PROVE  \E c \in Call : Moves(r, c) /\ c.at = place /\ c.limit = n /\ Same(c, call[r])
<1>1. call[r] \in Call
  BY DEF TypeOK
<1> DEFINE d == [call[r] EXCEPT !.at = place, !.limit = n]
<1>2. d \in Call /\ d.at = place /\ d.limit = n /\ Same(d, call[r])
  BY <1>1, LimitReplaced, Zenon
<1>3. Moves(r, d)
  BY Zenon DEF Moves
<1> HIDE DEF d
<1>. QED BY <1>2, <1>3

LEMMA CreateMoves ==
  ASSUME TypeOK, NEW r \in Requests, NEW p \in Slugs, BeginCreateProject(r, p)
  PROVE  \E c \in Call : Moves(r, c) /\ c.at = "plan" /\ c.slug = p
<1> DEFINE d == [call[r] EXCEPT !.at = "plan"]
<1> DEFINE f == [d EXCEPT !.slug = p]
<1>1. Moves(r, f)
  BY Zenon DEF Moves, BeginCreateProject
<1>0. call[r] \in Call
  BY DEF TypeOK
<1>2. d \in Call /\ d.at = "plan"
  BY <1>0 DEF Call
<1> HIDE DEF d
<1>3. f \in Call /\ f.at = "plan" /\ f.slug = p
  BY <1>2 DEF Call
<1> HIDE DEF f
<1>. QED BY <1>1, <1>3

LEMMA OpenMoves ==
  ASSUME TypeOK, NEW r \in Requests, NEW p \in Slugs, NEW e \in EnvSlugs,
         NEW kind \in {"open", "protected"}, NEW row \in Nat, NEW place \in Places,
         Open(r, p, e, kind, row, place)
  PROVE  \E c \in Call : Moves(r, c) /\ c.at = place /\ c.slug = p /\ c.env = e /\ c.row = row
<1> DEFINE d == [call[r] EXCEPT !.at = place]
<1> DEFINE f == [d EXCEPT !.slug = p]
<1> DEFINE g == [f EXCEPT !.env = e]
<1> DEFINE h == [g EXCEPT !.kind = kind]
<1> DEFINE i == [h EXCEPT !.row = row]
<1>1. Moves(r, i)
  BY Zenon DEF Moves, Open
<1>0. call[r] \in Call
  BY DEF TypeOK
<1>2. d \in Call /\ d.at = place
  BY <1>0 DEF Call, Places
<1> HIDE DEF d
<1>3. f \in Call /\ f.at = place /\ f.slug = p
  BY <1>2 DEF Call
<1> HIDE DEF f
<1>4. g \in Call /\ g.at = place /\ g.slug = p /\ g.env = e
  BY <1>3 DEF Call
<1> HIDE DEF g
<1>5. h \in Call /\ h.at = place /\ h.slug = p /\ h.env = e
  BY <1>4 DEF Call
<1> HIDE DEF h
<1>6. i \in Call /\ i.at = place /\ i.slug = p /\ i.env = e /\ i.row = row
  BY <1>5 DEF Call
<1> HIDE DEF i
<1>. QED BY <1>1, <1>6

\* The loop of CreateProject goes on with the next environment, or is over.
LEMMA NextMoves ==
  ASSUME TypeOK, NEW r \in Requests, NextDefault(r)
  PROVE  \/ call[r].next = 3 /\ Moves(r, Quiet("done"))
         \/ /\ call[r].next # 3
            /\ \E c \in Call : Moves(r, c) /\ c.at = call[r].at /\ c.slug = call[r].slug
<1>1. CASE call[r].next = 3
  BY <1>1, Ended DEF NextDefault
<1>2. CASE call[r].next # 3
  <2>1. call[r] \in Call
    BY DEF TypeOK
  <2> DEFINE d == [call[r] EXCEPT !.next = @ + 1]
  <2>2. d \in Call /\ d.at = call[r].at /\ d.slug = call[r].slug
    BY <1>2, <2>1, NextReplaced, Zenon
  <2>3. Moves(r, d)
    BY <1>2, Zenon DEF NextDefault, Moves
  <2> HIDE DEF d
  <2>. QED BY <1>2, <2>2, <2>3
<1>. QED BY <1>1, <1>2

LEMMA DoneCall == Quiet("done") \in Call /\ Quiet("done").at = "done"
BY QuietCall DEF Quiet, Places

-----------------------------------------------------------------------------
(* Where a step leaves the request that takes it.                          *)

LEMMA BeginMoves ==
  ASSUME TypeOK, NEW r \in Requests, NEW p \in Slugs, Begin(r, p)
  PROVE  \E c \in Call : Moves(r, c) /\ c.at \in {"plan", "delete", "envplan", "find"}
<1> DEFINE Goal == \E c \in Call : Moves(r, c) /\ c.at \in {"plan", "delete", "envplan", "find"}
<1>1. CASE BeginCreateProject(r, p)
  BY <1>1, CreateMoves
<1>2. ASSUME NEW e \in EnvSlugs, NEW kind \in {"open", "protected"}, NEW row \in Nat,
             NEW place \in {"delete", "envplan", "find"}, Open(r, p, e, kind, row, place)
      PROVE  Goal
  <2>1. place \in Places
    BY DEF Places
  <2>2. \E c \in Call : Moves(r, c) /\ c.at = place
    BY <1>2, <2>1, OpenMoves
  <2>. QED BY <2>2
<1>3. \A e \in EnvSlugs : rows[p][e] \in Nat
  BY DEF TypeOK
<1>. QED
  BY <1>1, <1>2, <1>3, Slugged DEF Begin, BeginDeleteProject, BeginDeleteEnvironment,
                                   BeginCreateEnvironment

\* Only CountProjects goes on to the INSERT, and only ReadPlan to the COUNT, with the
\* limit of the plan it has read.
LEMMA ContinueMoves ==
  ASSUME TypeOK, NEW r \in Requests, Continue(r)
  PROVE  \E c \in Call : /\ Moves(r, c)
                         /\ c.at = "insert" => CountProjects(r)
                         /\ c.at = "count" => ReadPlan(r) /\ c.limit = Limit[plan].projects
<1> DEFINE Goal == \E c \in Call : /\ Moves(r, c)
                                   /\ c.at = "insert" => CountProjects(r)
                                   /\ c.at = "count" => /\ ReadPlan(r)
                                                        /\ c.limit = Limit[plan].projects
<1>1. CASE Finish(r)
  BY <1>1, Ended, DoneCall
<1>2. ASSUME NEW place \in {"defaults", "envinsert", "remove"}, Goto(r, place) PROVE Goal
  <2>1. place \in Places
    BY DEF Places
  <2>2. \E c \in Call : Moves(r, c) /\ c.at = place
    BY <1>2, <2>1, GotoMoves
  <2>. QED BY <2>2
<1>3. CASE CountProjects(r)
  <2>1. Goto(r, "insert") \/ Finish(r)
    BY <1>3, Zenon DEF CountProjects, Admit
  <2>2. ASSUME Goto(r, "insert") PROVE \E c \in Call : Moves(r, c) /\ c.at = "insert"
    BY <2>2, GotoMoves DEF Places
  <2>. QED BY <1>1, <1>3, <2>1, <2>2
<1>4. CASE ReadPlan(r) \/ ReadEnvPlan(r)
  <2>1. Limit[plan].projects \in Nat /\ Limit[plan].envs \in Nat
    BY DEF TypeOK
  <2>2. "count" \in Places /\ "envcount" \in Places
    BY DEF Places
  <2>3. \/ Finish(r) \/ Goto(r, "envinsert")
        \/ /\ ReadPlan(r)
           /\ call' = [call EXCEPT ![r] = [@ EXCEPT !.at = "count", !.limit = Limit[plan].projects]]
        \/ call' = [call EXCEPT ![r] = [@ EXCEPT !.at = "envcount", !.limit = Limit[plan].envs]]
    <3>1. ASSUME ReadPlan(r)
          PROVE  \/ Finish(r)
                 \/ call' = [call EXCEPT ![r] = [@ EXCEPT !.at = "count", !.limit = Limit[plan].projects]]
      BY <3>1, Zenon DEF ReadPlan
    <3>2. ASSUME ReadEnvPlan(r)
          PROVE  \/ Finish(r) \/ Goto(r, "envinsert")
                 \/ call' = [call EXCEPT ![r] = [@ EXCEPT !.at = "envcount", !.limit = Limit[plan].envs]]
      BY <3>2, Zenon DEF ReadEnvPlan
    <3>. QED BY <1>4, <3>1, <3>2, Zenon
  <2>5. ASSUME ReadPlan(r),
               call' = [call EXCEPT ![r] = [@ EXCEPT !.at = "count", !.limit = Limit[plan].projects]]
        PROVE  Goal
    <3>1. PICK c \in Call : Moves(r, c) /\ c.at = "count" /\ Same(c, call[r])
      BY <2>1, <2>2, <2>5, LimitMoves
    <3>2. call'[r].limit = Limit[plan].projects
      BY <2>5 DEF TypeOK, Call
    <3>3. call'[r] = c
      BY <3>1, Moved
    <3>4. c.limit = Limit[plan].projects
      BY <3>2, <3>3
    <3>. QED BY <2>5, <3>1, <3>4
  <2>6. ASSUME call' = [call EXCEPT ![r] = [@ EXCEPT !.at = "envcount", !.limit = Limit[plan].envs]]
        PROVE  Goal
    <3>1. \E c \in Call : Moves(r, c) /\ c.at = "envcount" /\ Same(c, call[r])
      BY <2>1, <2>2, <2>6, LimitMoves
    <3>. QED BY <3>1
  <2>. QED BY <1>1, <1>2, <2>3, <2>5, <2>6
<1>5. CASE CreateDefault(r)
  <2>1. NextDefault(r) /\ At(r, "defaults")
    BY <1>5, Zenon DEF CreateDefault
  <2>. QED BY <2>1, NextMoves, DoneCall DEF At
<1>6. CASE InsertProject(r) \/ CountEnvironments(r) \/ FindEnvironment(r)
  <2>1. Finish(r) \/ Goto(r, "defaults") \/ Goto(r, "envinsert") \/ Goto(r, "remove")
    BY <1>6, Zenon DEF InsertProject, CountEnvironments, FindEnvironment
  <2>. QED BY <1>1, <1>2, <2>1
<1>7. Fail(r) \/ Disconnect(r) \/ DeleteProject(r) \/ InsertEnvironment(r) \/ DeleteEnvironment(r)
         => Finish(r)
  BY Zenon DEF Fail, Disconnect, DeleteProject, InsertEnvironment, DeleteEnvironment
<1>. QED BY <1>1, <1>3, <1>4, <1>5, <1>6, <1>7 DEF Continue

-----------------------------------------------------------------------------
(* What a request has seen of the rows still tells what it needs.          *)

\* A request that is under way has a project, and one that deletes it had found it; the
\* number of the row it read was given out; and if that row is still there when it
\* deletes it, it is not protected.
Fits(c) ==
    /\ c.at \notin {"idle", "done"} => c.slug \in Slugs
    /\ c.at = "delete" => project[c.slug] # "none"
    /\ c.at \in {"find", "remove"} => c.row <= rows[c.slug][c.env]
    /\ (c.at = "remove" /\ rows[c.slug][c.env] = c.row) => env[c.slug][c.env] # "protected"

CallsFit == \A r \in Requests : Fits(call[r])

\* What a step does to an environment: nothing, deletes it, or adds one of a new row
\* where there was none.
RowStep(p, e) ==
    \/ rows'[p][e] = rows[p][e] /\ env'[p][e] = env[p][e]
    \/ rows'[p][e] = rows[p][e] /\ env'[p][e] = "none" /\ env[p][e] # "protected"
    \/ rows'[p][e] = rows[p][e] + 1 /\ env[p][e] = "none"

RowsStep == \A p \in Slugs, e \in EnvSlugs : RowStep(p, e)

\* No project's slug is ever free again.
SlugsStep == \A p \in Slugs : project'[p] = "none" => project[p] = "none"

LEMMA FitsKept ==
  ASSUME TypeOK, NEW c \in Call, Fits(c), RowsStep, SlugsStep
  PROVE  Fits(c)'
<1>1. c.at \notin {"idle", "done"} => c.slug \in Slugs
  BY DEF Fits
<1>2. c.at = "delete" => project'[c.slug] # "none"
  BY <1>1 DEF Fits, SlugsStep
<1>3. CASE c.at \in {"find", "remove"}
  <2>1. c.slug \in Slugs /\ c.env \in EnvSlugs /\ c.row \in Nat
    BY <1>1, <1>3 DEF Call
  <2>2. rows[c.slug][c.env] \in Nat /\ c.row <= rows[c.slug][c.env]
    BY <1>3, <2>1 DEF TypeOK, Fits
  <2>3. RowStep(c.slug, c.env)
    BY <2>1 DEF RowsStep
  <2>4. c.row <= rows'[c.slug][c.env]
    BY <2>1, <2>2, <2>3 DEF RowStep
  <2>5. ASSUME c.at = "remove", rows'[c.slug][c.env] = c.row
        PROVE  env'[c.slug][c.env] # "protected"
    BY <2>1, <2>2, <2>3, <2>5 DEF RowStep, Fits
  <2>. QED BY <1>1, <1>2, <2>4, <2>5 DEF Fits
<1>4. CASE c.at \notin {"find", "remove"}
  BY <1>1, <1>2, <1>4 DEF Fits
<1>. QED BY <1>3, <1>4

LEMMA CallsKept ==
  ASSUME TypeOK, CallsFit, RowsStep, SlugsStep, call' = call
  PROVE  call' \in [Requests -> Call] /\ CallsFit'
<1>1. ASSUME NEW q \in Requests PROVE Fits(call[q])'
  <2>1. call[q] \in Call /\ Fits(call[q])
    BY DEF TypeOK, CallsFit
  <2>. QED BY <2>1, FitsKept DEF Fits
<1>. QED BY <1>1 DEF CallsFit, TypeOK

LEMMA MovesFit ==
  ASSUME TypeOK, CallsFit, RowsStep, SlugsStep,
         NEW r \in Requests, NEW c \in Call, Moves(r, c), Fits(c)
  PROVE  call' \in [Requests -> Call] /\ CallsFit'
<1>1. /\ call' \in [Requests -> Call]
      /\ call'[r] = c
      /\ \A q \in Requests : q # r => call'[q] = call[q]
  BY Moved
<1>2. ASSUME NEW q \in Requests PROVE Fits(call[q])'
  <2>1. call'[q] \in Call /\ Fits(call'[q])
    BY <1>1 DEF TypeOK, CallsFit
  <2>. QED BY <2>1, FitsKept
<1>. QED BY <1>1, <1>2 DEF CallsFit

LEMMA RowsSame ==
  ASSUME env' = env, rows' = rows
  PROVE  RowsStep
BY DEF RowsStep, RowStep

LEMMA RowAdded ==
  ASSUME TypeOK, NEW p \in Slugs, NEW e \in EnvSlugs, NEW kind \in {"open", "protected"},
         env[p][e] = "none", AddRow(p, e, kind)
  PROVE  /\ RowsStep
         /\ env' \in [Slugs -> [EnvSlugs -> {"none", "open", "protected"}]]
         /\ rows' \in [Slugs -> [EnvSlugs -> Nat]]
         /\ env'[p][e] = kind
<1>1. /\ env' \in [Slugs -> [EnvSlugs -> {"none", "open", "protected"}]]
      /\ env'[p][e] = kind
      /\ \A q \in Slugs, f \in EnvSlugs : <<q, f>> # <<p, e>> => env'[q][f] = env[q][f]
  BY DEF AddRow, TypeOK
<1>2. /\ rows' \in [Slugs -> [EnvSlugs -> Nat]]
      /\ rows'[p][e] = rows[p][e] + 1
      /\ \A q \in Slugs, f \in EnvSlugs : <<q, f>> # <<p, e>> => rows'[q][f] = rows[q][f]
  BY DEF AddRow, TypeOK
<1>3. ASSUME NEW q \in Slugs, NEW f \in EnvSlugs PROVE RowStep(q, f)
  BY <1>1, <1>2 DEF RowStep
<1>. QED BY <1>1, <1>2, <1>3 DEF RowsStep

LEMMA RowRemoved ==
  ASSUME TypeOK, CallsFit, NEW r \in Requests, DeleteEnvironment(r)
  PROVE  /\ RowsStep
         /\ env' \in [Slugs -> [EnvSlugs -> {"none", "open", "protected"}]]
         /\ rows' = rows
<1> DEFINE p == call[r].slug
<1> DEFINE e == call[r].env
<1>1. call[r] \in Call /\ At(r, "remove") /\ rows' = rows /\ Fits(call[r])
  BY DEF TypeOK, CallsFit, DeleteEnvironment
<1>2. p \in Slugs /\ e \in EnvSlugs
  BY <1>1 DEF Call, Fits, At
<1>3. CASE env' = env
  BY <1>1, <1>3, RowsSame DEF TypeOK
<1>4. CASE rows[p][e] = call[r].row /\ env' = [env EXCEPT ![p][e] = "none"]
  <2>1. env[p][e] # "protected"
    BY <1>1, <1>4 DEF Fits, At
  <2>2. /\ env' \in [Slugs -> [EnvSlugs -> {"none", "open", "protected"}]]
        /\ env'[p][e] = "none"
        /\ \A q \in Slugs, f \in EnvSlugs : <<q, f>> # <<p, e>> => env'[q][f] = env[q][f]
    BY <1>2, <1>4 DEF TypeOK
  <2>3. ASSUME NEW q \in Slugs, NEW f \in EnvSlugs PROVE RowStep(q, f)
    BY <1>1, <2>1, <2>2 DEF RowStep
  <2>. QED BY <1>1, <2>2, <2>3 DEF RowsStep
<1>. QED BY <1>3, <1>4 DEF DeleteEnvironment

LEMMA DefaultEnv ==
  ASSUME TypeOK, NEW r \in Requests
  PROVE  /\ call[r].next \in 1 .. 3 /\ Defaults[call[r].next] \in EnvSlugs
         /\ (Defaults[call[r].next] = "production") <=> (call[r].next = 3)
         /\ \A e : Kind(e) \in {"open", "protected"}
<1>1. call[r].next \in 1 .. 3
  BY DEF TypeOK, Call
<1>. QED BY <1>1 DEF EnvSlugs, Defaults, Kind

\* What a CreateDefault does to the rows.
LEMMA DefaultAdded ==
  ASSUME TypeOK, CallsFit, NEW r \in Requests, CreateDefault(r)
  PROVE  /\ RowsStep
         /\ env' \in [Slugs -> [EnvSlugs -> {"none", "open", "protected"}]]
         /\ rows' \in [Slugs -> [EnvSlugs -> Nat]]
         /\ call[r].slug \in Slugs
<1> DEFINE p == call[r].slug
<1> DEFINE e == Defaults[call[r].next]
<1>1. p \in Slugs
  BY DEF CreateDefault, CallsFit, Fits, At
<1>2. e \in EnvSlugs /\ Kind(e) \in {"open", "protected"}
  BY DefaultEnv
<1>3. CASE env[p][e] = "none" /\ AddRow(p, e, Kind(e))
  BY <1>1, <1>2, <1>3, RowAdded
<1>4. CASE env' = env /\ rows' = rows
  BY <1>1, <1>4, RowsSame DEF TypeOK
<1>. QED BY <1>3, <1>4, Zenon DEF CreateDefault

LEMMA EnvironmentAdded ==
  ASSUME TypeOK, CallsFit, NEW r \in Requests, InsertEnvironment(r)
  PROVE  /\ RowsStep
         /\ env' \in [Slugs -> [EnvSlugs -> {"none", "open", "protected"}]]
         /\ rows' \in [Slugs -> [EnvSlugs -> Nat]]
         /\ call[r].slug \in Slugs
<1> DEFINE p == call[r].slug
<1> DEFINE e == call[r].env
<1>1. p \in Slugs
  BY DEF InsertEnvironment, CallsFit, Fits, At
<1>2. e \in EnvSlugs /\ call[r].kind \in {"open", "protected"}
  BY DEF TypeOK, Call
<1>3. CASE env[p][e] = "none" /\ AddRow(p, e, call[r].kind)
  BY <1>1, <1>2, <1>3, RowAdded
<1>4. CASE env' = env /\ rows' = rows
  BY <1>1, <1>4, RowsSame DEF TypeOK
<1>. QED BY <1>3, <1>4, Zenon DEF InsertEnvironment

\* No other step touches an environment.
LEMMA EnvStep ==
  ASSUME TypeOK, CallsFit, [Next]_vars
  PROVE  /\ RowsStep
         /\ env' \in [Slugs -> [EnvSlugs -> {"none", "open", "protected"}]]
         /\ rows' \in [Slugs -> [EnvSlugs -> Nat]]
<1>1. CASE env' = env /\ rows' = rows
  BY <1>1, RowsSame DEF TypeOK
<1>2. ASSUME NEW r \in Requests, NEW p \in Slugs, Begin(r, p) PROVE env' = env /\ rows' = rows
  BY <1>2, Zenon DEF Begin, BeginCreateProject, BeginDeleteProject, BeginDeleteEnvironment,
                     BeginCreateEnvironment, Open
<1>3. ASSUME NEW r \in Requests, Continue(r)
      PROVE  \/ env' = env /\ rows' = rows
             \/ CreateDefault(r) \/ InsertEnvironment(r) \/ DeleteEnvironment(r)
  BY <1>3, Zenon DEF Continue, Fail, ReadPlan, CountProjects, InsertProject, Disconnect,
                     DeleteProject, ReadEnvPlan, CountEnvironments, FindEnvironment
<1>4. (\E t \in Plans : SetPlan(t)) \/ UNCHANGED vars => env' = env /\ rows' = rows
  BY Zenon DEF SetPlan, vars
<1>5. ASSUME NEW r \in Requests,
             CreateDefault(r) \/ InsertEnvironment(r) \/ DeleteEnvironment(r)
      PROVE  /\ RowsStep
             /\ env' \in [Slugs -> [EnvSlugs -> {"none", "open", "protected"}]]
             /\ rows' \in [Slugs -> [EnvSlugs -> Nat]]
  BY <1>5, DefaultAdded, EnvironmentAdded, RowRemoved DEF TypeOK
<1>. QED BY <1>1, <1>2, <1>3, <1>4, <1>5 DEF Next

LEMMA SlugsKept ==
  ASSUME TypeOK, CallsFit, [Next]_vars
  PROVE  SlugsStep
<1>1. CASE project' = project
  BY <1>1 DEF SlugsStep
<1>2. ASSUME NEW r \in Requests, InsertProject(r) \/ DeleteProject(r) PROVE SlugsStep
  BY <1>2 DEF InsertProject, DeleteProject, SlugsStep, TypeOK
<1>3. ASSUME NEW r \in Requests, NEW p \in Slugs, Begin(r, p) PROVE project' = project
  BY <1>3, Zenon DEF Begin, BeginCreateProject, BeginDeleteProject, BeginDeleteEnvironment,
                     BeginCreateEnvironment, Open
<1>4. ASSUME NEW r \in Requests, Continue(r)
      PROVE  project' = project \/ InsertProject(r) \/ DeleteProject(r)
  BY <1>4, Zenon DEF Continue, Fail, ReadPlan, CountProjects, CreateDefault, Disconnect,
                     ReadEnvPlan, CountEnvironments, InsertEnvironment, FindEnvironment,
                     DeleteEnvironment
<1>5. (\E t \in Plans : SetPlan(t)) \/ UNCHANGED vars => project' = project
  BY Zenon DEF SetPlan, vars
<1>. QED BY <1>1, <1>2, <1>3, <1>4, <1>5 DEF Next

\* Where a request goes, it fits what it has seen.
LEMMA CallsStep ==
  ASSUME TypeOK, CallsFit, [Next]_vars
  PROVE  call' \in [Requests -> Call] /\ CallsFit'
<1> DEFINE Goal == call' \in [Requests -> Call] /\ CallsFit'
<1>0. RowsStep /\ SlugsStep
  BY EnvStep, SlugsKept
<1>1. CASE call' = call
  BY <1>0, <1>1, CallsKept
<1>2. ASSUME NEW r \in Requests, NEW c \in Call, Moves(r, c), c.slug \in Slugs,
             c.at \notin {"find", "remove", "delete"}
      PROVE  Goal
  BY <1>0, <1>2, MovesFit DEF Fits
<1>3. ASSUME NEW r \in Requests, Moves(r, Quiet("done")) PROVE Goal
  <2>1. Quiet("done") \in Call /\ Fits(Quiet("done"))
    BY QuietCall DEF Quiet, Fits, Places
  <2>. QED BY <1>0, <1>3, <2>1, MovesFit
<1>4. ASSUME NEW r \in Requests, Finish(r) PROVE Goal
  BY <1>3, <1>4, Ended
<1>5. ASSUME NEW r \in Requests, NEW place \in Places \ {"find", "remove", "delete"}, Goto(r, place),
             ~At(r, "idle"), ~At(r, "done")
      PROVE  Goal
  <2>1. call[r].slug \in Slugs
    BY <1>5 DEF CallsFit, Fits, At
  <2>2. PICK c \in Call : Moves(r, c) /\ c.at = place /\ Same(c, call[r])
    BY <1>5, GotoMoves
  <2>. QED BY <1>2, <2>1, <2>2 DEF Same
<1>6. ASSUME NEW r \in Requests, NEW place \in {"count", "envcount"}, NEW n \in Nat,
             call' = [call EXCEPT ![r] = [@ EXCEPT !.at = place, !.limit = n]],
             ~At(r, "idle"), ~At(r, "done")
      PROVE  Goal
  <2>1. call[r].slug \in Slugs
    BY <1>6 DEF CallsFit, Fits, At
  <2>2. place \in Places
    BY DEF Places
  <2>3. PICK c \in Call : Moves(r, c) /\ c.at = place /\ Same(c, call[r])
    BY <1>6, <2>2, LimitMoves
  <2>. QED BY <1>2, <2>1, <2>3 DEF Same
<1>7. ASSUME NEW r \in Requests, NEW p \in Slugs, NEW e \in EnvSlugs,
             NEW kind \in {"open", "protected"}, NEW place \in {"delete", "envplan"},
             Open(r, p, e, kind, 0, place)
      PROVE  Goal
  <2>1. place \in Places
    BY DEF Places
  <2>2. PICK c \in Call : Moves(r, c) /\ c.at = place /\ c.slug = p
    BY <1>7, <2>1, OpenMoves
  <2>3. Fits(c)
    BY <1>7, <2>2 DEF Fits, Open, Live
  <2>. QED BY <1>0, <2>2, <2>3, MovesFit
<1>8. \A n \in Plans : Limit[n].projects \in Nat /\ Limit[n].envs \in Nat
  OBVIOUS
<1>9. ASSUME NEW r \in Requests, NEW p \in Slugs, NEW e \in EnvSlugs,
             BeginDeleteEnvironment(r, p, e)
      PROVE  Goal
  <2>1. rows[p][e] \in Nat /\ "find" \in Places
    BY DEF TypeOK, Places
  <2>2. PICK c \in Call : Moves(r, c) /\ c.at = "find" /\ c.slug = p /\ c.env = e
                          /\ c.row = rows[p][e]
    BY <1>9, <2>1, OpenMoves DEF BeginDeleteEnvironment
  <2>3. Fits(c)
    BY <2>1, <2>2 DEF Fits
  <2>. QED BY <1>0, <2>2, <2>3, MovesFit
<1>10. ASSUME NEW r \in Requests, FindEnvironment(r) PROVE Goal
  <2>1. CASE Finish(r)
    BY <1>4, <2>1
  <2>2. CASE /\ Goto(r, "remove")
             /\ env[call[r].slug][call[r].env] = "open"
             /\ rows[call[r].slug][call[r].env] = call[r].row
    <3>1. call[r] \in Call /\ call[r].slug \in Slugs /\ Fits(call[r]) /\ At(r, "find")
      BY <1>10 DEF TypeOK, CallsFit, Fits, At, FindEnvironment
    <3>2. PICK c \in Call : Moves(r, c) /\ c.at = "remove" /\ Same(c, call[r])
      BY <2>2, GotoMoves DEF Places
    <3>3. Fits(c)
      BY <2>2, <3>1, <3>2 DEF Fits, Same, At
    <3>. QED BY <1>0, <3>2, <3>3, MovesFit
  <2>. QED BY <1>10, <2>1, <2>2 DEF FindEnvironment
<1>11. ASSUME NEW r \in Requests, CreateDefault(r) PROVE Goal
  <2>1. NextDefault(r) /\ At(r, "defaults")
    BY <1>11, Zenon DEF CreateDefault
  <2>2. CASE Moves(r, Quiet("done"))
    BY <1>3, <2>2
  <2>3. CASE \E c \in Call : Moves(r, c) /\ c.at = call[r].at /\ c.slug = call[r].slug
    <3>1. call[r].slug \in Slugs
      BY <2>1 DEF CallsFit, Fits, At
    <3>. QED BY <1>2, <2>1, <2>3, <3>1 DEF At
  <2>. QED BY <2>1, <2>2, <2>3, NextMoves
<1>12. ASSUME NEW r \in Requests, NEW p \in Slugs, BeginCreateProject(r, p) PROVE Goal
  <2>1. PICK c \in Call : Moves(r, c) /\ c.at = "plan" /\ c.slug = p
    BY <1>12, CreateMoves
  <2>. QED BY <1>2, <2>1
<1>13. ASSUME NEW r \in Requests, NEW p \in Slugs, Begin(r, p) PROVE Goal
  BY <1>13, <1>7, <1>9, <1>12, Slugged DEF Begin, BeginDeleteProject, BeginCreateEnvironment
<1>14. ASSUME NEW r \in Requests, ReadPlan(r) PROVE Goal
  <2>1. plan \in Plans /\ ~At(r, "idle") /\ ~At(r, "done")
    BY <1>14 DEF ReadPlan, TypeOK, At
  <2>. QED BY <1>4, <1>6, <1>8, <1>14, <2>1 DEF ReadPlan
<1>15. ASSUME NEW r \in Requests, ReadEnvPlan(r) PROVE Goal
  <2>1. plan \in Plans /\ ~At(r, "idle") /\ ~At(r, "done")
    BY <1>15 DEF ReadEnvPlan, TypeOK, At
  <2>. QED BY <1>5, <1>6, <1>8, <1>15, <2>1 DEF ReadEnvPlan, Places
<1>16. ASSUME NEW r \in Requests, CountProjects(r) PROVE Goal
  <2>1. ~At(r, "idle") /\ ~At(r, "done") /\ (Goto(r, "insert") \/ Finish(r))
    BY <1>16 DEF CountProjects, Admit, At
  <2>. QED BY <1>4, <1>5, <2>1 DEF Places
<1>17. ASSUME NEW r \in Requests, InsertProject(r) PROVE Goal
  <2>1. ~At(r, "idle") /\ ~At(r, "done") /\ (Goto(r, "defaults") \/ Finish(r))
    BY <1>17 DEF InsertProject, At
  <2>. QED BY <1>4, <1>5, <2>1 DEF Places
<1>18. ASSUME NEW r \in Requests, CountEnvironments(r) PROVE Goal
  <2>1. ~At(r, "idle") /\ ~At(r, "done") /\ (Goto(r, "envinsert") \/ Finish(r))
    BY <1>18 DEF CountEnvironments, At
  <2>. QED BY <1>4, <1>5, <2>1 DEF Places
<1>19. ASSUME NEW r \in Requests, Continue(r) PROVE Goal
  <2>1. Fail(r) \/ Disconnect(r) \/ DeleteProject(r) \/ InsertEnvironment(r) \/ DeleteEnvironment(r)
           => Finish(r)
    BY Zenon DEF Fail, Disconnect, DeleteProject, InsertEnvironment, DeleteEnvironment
  <2>. QED
    BY <1>4, <1>10, <1>11, <1>14, <1>15, <1>16, <1>17, <1>18, <1>19, <2>1 DEF Continue
<1>20. (\E t \in Plans : SetPlan(t)) \/ UNCHANGED vars => call' = call
  BY Zenon DEF SetPlan, vars
<1>. QED BY <1>1, <1>13, <1>19, <1>20 DEF Next

-----------------------------------------------------------------------------
(* Types.                                                                  *)

LEMMA Finite ==
  /\ IsFiniteSet(Live) /\ Cardinality(Live) \in Nat
  /\ IsFiniteSet(Adding) /\ Cardinality(Adding) \in Nat
  /\ Cardinality(Adding) <= Cardinality(Requests) /\ Cardinality(Requests) \in Nat
<1>1. Live \subseteq Slugs /\ Adding \subseteq Requests
  BY DEF Live, Adding
<1>. QED BY <1>1, FS_Subset, FS_CardinalityType

LEMMA TypeInit == Init => TypeOK /\ CallsFit
<1> SUFFICES ASSUME Init PROVE TypeOK /\ CallsFit
    OBVIOUS
<1>1. unlimited \in BOOLEAN
  BY Zenon DEF Init
<1>2. call \in [Requests -> Call] /\ CallsFit
  BY QuietCall DEF Init, CallsFit, Fits, Quiet, Places
<1>3. project \in [Slugs -> {"none", "live", "deleted"}]
  BY DEF Init
<1>4. env \in [Slugs -> [EnvSlugs -> {"none", "open", "protected"}]]
  BY DEF Init, Kind
<1>5. rows \in [Slugs -> [EnvSlugs -> Nat]]
  BY DEF Init
<1>6. roof \in Nat /\ peak \in 1 .. Cardinality(Requests) + 1
  BY Finite DEF Init
<1>. QED
  BY <1>1, <1>2, <1>3, <1>4, <1>5, <1>6 DEF Init, TypeOK

LEMMA FaultType == ASSUME TypeOK, Fault PROVE faults' \in 0 .. MaxFaults /\ faults' = faults + 1
BY DEF TypeOK, Fault

\* What an admitted request does to the counters.
LEMMA Admitted ==
  ASSUME TypeOK, NEW r \in Requests, Admit(r)
  PROVE  /\ roof' \in Nat /\ roof <= roof' /\ call[r].limit \in Nat /\ call[r].limit <= roof'
         /\ unlimited' \in BOOLEAN /\ (unlimited => unlimited')
         /\ (call[r].limit = 0 => unlimited')
         /\ peak' \in 1 .. Cardinality(Requests) + 1
         /\ peak <= peak' /\ Cardinality(Adding) + 1 <= peak'
<1>1. call[r].limit \in Nat /\ roof \in Nat
  BY DEF TypeOK, Call
<1>2. roof' \in Nat /\ roof <= roof' /\ call[r].limit <= roof'
  BY <1>1 DEF Admit
<1>3. unlimited' \in BOOLEAN /\ (unlimited => unlimited') /\ (call[r].limit = 0 => unlimited')
  BY Zenon DEF Admit
<1>4. /\ peak' \in 1 .. Cardinality(Requests) + 1
      /\ peak <= peak' /\ Cardinality(Adding) + 1 <= peak'
  BY Finite DEF Admit, TypeOK
<1>. QED BY <1>1, <1>2, <1>3, <1>4

\* The types of everything but the calls and environments.
RestType ==
    /\ plan \in Plans
    /\ project \in [Slugs -> {"none", "live", "deleted"}]
    /\ roof \in Nat
    /\ peak \in 1 .. Cardinality(Requests) + 1
    /\ disturbed \subseteq Slugs
    /\ faults \in 0 .. MaxFaults

LEMMA RestStep ==
  ASSUME TypeOK, CallsFit, [Next]_vars
  PROVE  RestType' /\ unlimited' \in BOOLEAN
<1> DEFINE Goal == RestType' /\ unlimited' \in BOOLEAN
<1>0. RestType /\ unlimited \in BOOLEAN
  BY Zenon DEF TypeOK, RestType
<1>1. ASSUME UNCHANGED <<project, roof, unlimited, peak, disturbed, faults>>, plan' \in Plans
      PROVE  Goal
  <2>1. RestType'
    BY <1>0, <1>1 DEF RestType
  <2>. QED BY Zenon, <2>1, <1>0, <1>1
<1>2. ASSUME NEW r \in Requests, NEW p \in Slugs, Begin(r, p) PROVE Goal
  <2>1. UNCHANGED <<plan, project, roof, unlimited, peak, disturbed, faults>>
    BY <1>2, Zenon DEF Begin, BeginCreateProject, BeginDeleteProject, BeginDeleteEnvironment,
                       BeginCreateEnvironment, Open, aux
  <2>. QED BY <1>0, <1>1, <2>1 DEF RestType
<1>3. ASSUME NEW r \in Requests, Continue(r) PROVE Goal
  <2>1. plan' = plan
    BY <1>3, Zenon DEF Continue, Fail, ReadPlan, CountProjects, InsertProject, CreateDefault,
                       Disconnect, DeleteProject, ReadEnvPlan, CountEnvironments,
                       InsertEnvironment, FindEnvironment, DeleteEnvironment
  <2>2. ASSUME UNCHANGED <<project, roof, unlimited, peak, disturbed>>, faults' = faults \/ Fault
        PROVE  Goal
    <3>1. RestType'
      BY <1>0, <2>1, <2>2, FaultType DEF RestType
    <3>. QED BY Zenon, <3>1, <1>0, <2>2
  <2>3. ASSUME Fail(r) \/ ReadPlan(r) \/ ReadEnvPlan(r) \/ CountEnvironments(r)
                 \/ FindEnvironment(r) \/ DeleteEnvironment(r)
        PROVE  Goal
    <3>1. UNCHANGED <<project, roof, unlimited, peak, disturbed>> /\ (faults' = faults \/ Fault)
      BY <2>3, Zenon DEF Fail, ReadPlan, ReadEnvPlan, CountEnvironments, FindEnvironment,
                         DeleteEnvironment, aux
    <3>. QED BY <2>2, <3>1
  <2>4. CASE CountProjects(r)
    <3>1. project' = project /\ disturbed' = disturbed /\ (faults' = faults \/ Fault)
      BY <2>4, Zenon DEF CountProjects
    <3>2. CASE Admit(r)
      <4>1. RestType'
        BY <1>0, <2>1, <3>1, <3>2, Admitted, FaultType DEF RestType
      <4>. QED BY Zenon, <4>1, <3>2, Admitted
    <3>3. CASE UNCHANGED <<roof, unlimited, peak>>
      BY <2>2, <3>1, <3>3
    <3>. QED BY <2>4, <3>2, <3>3, Zenon DEF CountProjects
  <2>5. CASE InsertProject(r)
    <3>1. call[r].slug \in Slugs
      BY <2>5 DEF InsertProject, CallsFit, Fits, At
    <3>2. UNCHANGED <<roof, unlimited, peak>> /\ (faults' = faults \/ Fault)
      BY <2>5, Zenon DEF InsertProject
    <3>3. /\ project' \in [Slugs -> {"none", "live", "deleted"}]
          /\ disturbed' \subseteq Slugs
      BY <1>0, <2>5, <3>1 DEF InsertProject, RestType
    <3>4. RestType'
      BY <1>0, <2>1, <3>2, <3>3, FaultType DEF RestType
    <3>. QED BY Zenon, <1>0, <3>2, <3>4
  <2>6. CASE CreateDefault(r) \/ InsertEnvironment(r) \/ Disconnect(r)
    <3>1. call[r].slug \in Slugs
      BY <2>6 DEF CreateDefault, InsertEnvironment, Disconnect, CallsFit, Fits, At
    <3>2. UNCHANGED <<project, roof, unlimited, peak>> /\ (faults' = faults \/ Fault)
      BY <2>6, Zenon DEF CreateDefault, InsertEnvironment, Disconnect
    <3>3. disturbed' = disturbed \/ disturbed' = disturbed \cup {call[r].slug}
      BY <2>6 DEF CreateDefault, InsertEnvironment, Disconnect
    <3>4. RestType'
      BY <1>0, <2>1, <3>1, <3>2, <3>3, FaultType DEF RestType
    <3>. QED BY Zenon, <1>0, <3>2, <3>4
  <2>7. CASE DeleteProject(r)
    <3>1. UNCHANGED <<roof, unlimited, peak, disturbed, faults>>
          /\ project' = [project EXCEPT ![call[r].slug] = "deleted"]
      BY <2>7, Zenon DEF DeleteProject, aux
    <3>2. RestType'
      BY <1>0, <2>1, <3>1 DEF RestType
    <3>. QED BY Zenon, <1>0, <3>1, <3>2
  <2>. QED BY <1>3, <2>3, <2>4, <2>5, <2>6, <2>7 DEF Continue
<1>4. ASSUME NEW t \in Plans, SetPlan(t) PROVE Goal
  <2>1. UNCHANGED <<project, roof, unlimited, peak, disturbed, faults>> /\ plan' = t
    BY <1>4, Zenon DEF SetPlan, aux
  <2>. QED BY <1>1, <2>1
<1>5. CASE UNCHANGED vars
  <2>1. UNCHANGED <<plan, project, roof, unlimited, peak, disturbed, faults>>
    BY <1>5, Zenon DEF vars, aux
  <2>. QED BY <1>0, <1>1, <2>1 DEF RestType
<1>. QED BY <1>2, <1>3, <1>4, <1>5 DEF Next

LEMMA TypeStep == TypeOK /\ CallsFit /\ [Next]_vars => TypeOK' /\ CallsFit'
<1> SUFFICES ASSUME TypeOK, CallsFit, [Next]_vars PROVE TypeOK' /\ CallsFit'
    OBVIOUS
<1>1. /\ RestType' /\ unlimited' \in BOOLEAN
      /\ call' \in [Requests -> Call] /\ CallsFit'
      /\ env' \in [Slugs -> [EnvSlugs -> {"none", "open", "protected"}]]
      /\ rows' \in [Slugs -> [EnvSlugs -> Nat]]
  BY Zenon, EnvStep, CallsStep, RestStep
<1>. QED BY Zenon, <1>1 DEF TypeOK, RestType

\* Every variable keeps its type; in particular no more creates are ever between their
\* COUNT and INSERT than there are requests.
THEOREM TypeCorrect == Spec => []TypeOK
BY TypeInit, TypeStep, PTL DEF Spec

\* A protected environment is never deleted: the row a request found unprotected has
\* the number it read, and a row created in its place has another.
THEOREM ProtectedEnvironmentsStay == Spec => ProtectedStays
<1>1. ASSUME TypeOK, CallsFit, [Next]_vars
      PROVE  [\A p \in Slugs, e \in EnvSlugs :
                 env[p][e] = "protected" => env'[p][e] = "protected"]_vars
  BY <1>1, EnvStep DEF RowsStep, RowStep
<1>. QED BY <1>1, TypeInit, TypeStep, PTL DEF Spec, ProtectedStays

-----------------------------------------------------------------------------
(* Production is protected.                                                *)

\* The loop ignores that a slug is taken.  It may, because only the loop itself and a
\* disturbing CreateEnvironment put an environment called production there.
ProductionKind ==
    \A p \in Slugs : env[p]["production"] \in {"none", "protected"} \/ p \in disturbed

ProductionInv == ProductionKind /\ ProductionIsProtected

LEMMA Production == "production" \in EnvSlugs
BY Slugged

\* A step that leaves the environments alone and lets no loop end.
LEMMA ProductionKept ==
  ASSUME ProductionInv, env' = env, disturbed \subseteq disturbed',
         \A p \in Slugs : project'[p] = "none" <=> project[p] = "none",
         \A q \in Requests : At(q, "defaults") =>
             At(q, "defaults")' /\ call'[q].slug = call[q].slug
  PROVE  ProductionInv'
<1>1. ProductionKind'
  BY DEF ProductionInv, ProductionKind
<1>2. ProductionIsProtected'
  BY DEF ProductionInv, ProductionIsProtected
<1>. QED BY <1>1, <1>2 DEF ProductionInv

\* The loops of the others go on.
LEMMA OthersStay ==
  ASSUME TypeOK, NEW r \in Requests, NEW c \in Call, Moves(r, c)
  PROVE  \A q \in Requests : q # r /\ At(q, "defaults") =>
             At(q, "defaults")' /\ call'[q].slug = call[q].slug
BY Moved DEF At

LEMMA DoneStays ==
  ASSUME TypeOK, NEW r \in Requests, Finish(r)
  PROVE  \A q \in Requests : q # r /\ At(q, "defaults") =>
             At(q, "defaults")' /\ call'[q].slug = call[q].slug
<1>1. Quiet("done") \in Call /\ Moves(r, Quiet("done"))
  BY QuietCall, Ended DEF Places
<1>. QED BY <1>1, OthersStay

\* A request that is not in its loop ends none.
LEMMA LoopsKept ==
  ASSUME TypeOK, NEW r \in Requests, ~At(r, "defaults"),
         \/ Finish(r)
         \/ \E place \in Places : Goto(r, place)
         \/ \E c \in Call : Moves(r, c)
  PROVE  \A q \in Requests : At(q, "defaults") =>
             At(q, "defaults")' /\ call'[q].slug = call[q].slug
<1>1. CASE Finish(r)
  BY <1>1, DoneStays
<1>2. CASE \E place \in Places : Goto(r, place)
  <2>1. \E c \in Call : Moves(r, c)
    BY <1>2, GotoMoves
  <2>. QED BY <2>1, OthersStay
<1>3. CASE \E c \in Call : Moves(r, c)
  BY <1>3, OthersStay
<1>. QED BY <1>1, <1>2, <1>3

LEMMA ProductionByBegin ==
  ASSUME TypeOK, ProductionInv, NEW r \in Requests, NEW p \in Slugs, Begin(r, p)
  PROVE  ProductionInv'
<1>1. env' = env /\ disturbed' = disturbed /\ project' = project /\ At(r, "idle")
  BY Zenon DEF Begin, BeginCreateProject, BeginDeleteProject, BeginDeleteEnvironment,
               BeginCreateEnvironment, Open, aux
<1>2. \E c \in Call : Moves(r, c)
  <2>1. CASE BeginCreateProject(r, p)
    BY <2>1, CreateMoves
  <2>2. ASSUME NEW e \in EnvSlugs, NEW kind \in {"open", "protected"}, NEW row \in Nat,
               NEW place \in {"delete", "envplan", "find"}, Open(r, p, e, kind, row, place)
        PROVE  \E c \in Call : Moves(r, c)
    BY <2>2, OpenMoves DEF Places
  <2>3. \A e \in EnvSlugs : rows[p][e] \in Nat
    BY DEF TypeOK
  <2>. QED
    BY <2>1, <2>2, <2>3, Slugged DEF Begin, BeginDeleteProject, BeginDeleteEnvironment,
                                     BeginCreateEnvironment
<1>3. ~At(r, "defaults")
  BY <1>1 DEF At
<1>. QED BY <1>1, <1>2, <1>3, LoopsKept, ProductionKept

\* A new project has a loop that will give it its environments, or its creator has lost
\* the answer.
LEMMA ProductionByInsert ==
  ASSUME TypeOK, CallsFit, ProductionInv, NEW r \in Requests, InsertProject(r)
  PROVE  ProductionInv'
<1> DEFINE p == call[r].slug
<1>1. env' = env /\ disturbed \subseteq disturbed' /\ At(r, "insert")
  BY DEF InsertProject
<1>2. p \in Slugs /\ call[r] \in Call /\ ~At(r, "defaults")
  BY <1>1 DEF CallsFit, Fits, At, TypeOK
<1>3. Finish(r) \/ Goto(r, "defaults")
  BY Zenon DEF InsertProject
<1>4. \A q \in Requests : At(q, "defaults") => At(q, "defaults")' /\ call'[q].slug = call[q].slug
  BY <1>2, <1>3, LoopsKept DEF Places
<1>5. CASE project' = project
  BY <1>1, <1>4, <1>5, ProductionKept
<1>6. CASE /\ project' = [project EXCEPT ![p] = "live"]
           /\ Goto(r, "defaults") \/ disturbed' = disturbed \cup {p}
  <2>1. ProductionKind'
    BY <1>1 DEF ProductionInv, ProductionKind
  <2>2. p \in disturbed' \/ (At(r, "defaults")' /\ call'[r].slug = p)
    <3>1. CASE Goto(r, "defaults")
      <4>1. PICK c \in Call : Moves(r, c) /\ c.at = "defaults" /\ Same(c, call[r])
        BY <3>1, GotoMoves DEF Places
      <4>2. call'[r] = c
        BY <4>1, Moved
      <4>. QED BY <4>1, <4>2 DEF Same, At
    <3>2. CASE disturbed' = disturbed \cup {p}
      BY <3>2
    <3>. QED BY <1>6, <3>1, <3>2
  <2>3. \A q \in Slugs : q # p => project'[q] = project[q]
    BY <1>6 DEF TypeOK
  <2>4. ProductionIsProtected'
    BY <1>1, <1>2, <1>4, <2>2, <2>3 DEF ProductionInv, ProductionIsProtected
  <2>. QED BY <2>1, <2>4 DEF ProductionInv
<1>. QED BY <1>5, <1>6, Zenon DEF InsertProject

\* The last round of a loop leaves a production environment, protected unless somebody
\* disturbed the project.
LEMMA ProductionByDefault ==
  ASSUME TypeOK, CallsFit, ProductionInv, NEW r \in Requests, CreateDefault(r)
  PROVE  ProductionInv'
<1> DEFINE p == call[r].slug
<1> DEFINE e == Defaults[call[r].next]
<1>1. p \in Slugs
  BY DEF CreateDefault, CallsFit, Fits, At
<1>2. /\ e \in EnvSlugs /\ Kind(e) \in {"open", "protected"}
      /\ (e = "production") <=> (call[r].next = 3)
  BY DefaultEnv
<1>3. /\ project' = project /\ NextDefault(r) /\ At(r, "defaults")
      /\ \/ env[p][e] = "none" /\ AddRow(p, e, Kind(e)) /\ disturbed' = disturbed
         \/ env[p][e] # "none" /\ env' = env /\ disturbed' = disturbed
         \/ env' = env /\ disturbed' = disturbed \cup {p}
  BY Zenon DEF CreateDefault
<1>4. \/ call[r].next = 3 /\ Moves(r, Quiet("done"))
      \/ /\ call[r].next # 3
         /\ \E c \in Call : Moves(r, c) /\ c.at = call[r].at /\ c.slug = call[r].slug
  BY <1>3, NextMoves
<1>5. \A q \in Requests : q # r /\ At(q, "defaults") =>
          At(q, "defaults")' /\ call'[q].slug = call[q].slug
  BY <1>4, OthersStay, QuietCall DEF Places
<1>6. call[r].next # 3 => At(r, "defaults")' /\ call'[r].slug = p
  BY <1>3, <1>4, Moved DEF At
<1>7. ASSUME NEW q \in Slugs
      PROVE  /\ \/ env'[q]["production"] = env[q]["production"]
                \/ env[q]["production"] = "none" /\ env'[q]["production"] = "protected"
             /\ disturbed \subseteq disturbed'
  <2>1. CASE env[p][e] = "none" /\ AddRow(p, e, Kind(e)) /\ disturbed' = disturbed
    <3>1. CASE q = p /\ e = "production"
      <4>1. env'[p][e] = Kind(e)
        BY <1>1, <1>2, <2>1, RowAdded
      <4>. QED BY <2>1, <3>1, <4>1 DEF Kind
    <3>2. CASE ~(q = p /\ e = "production")
      <4>1. env'[q]["production"] = env[q]["production"]
        BY <1>1, <1>2, <2>1, <3>2, Production DEF AddRow, TypeOK
      <4>. QED BY <2>1, <4>1
    <3>. QED BY <3>1, <3>2
  <2>2. CASE env' = env /\ disturbed \subseteq disturbed'
    BY <2>2
  <2>. QED BY <1>3, <2>1, <2>2
<1>8. ProductionKind'
  BY <1>7 DEF ProductionInv, ProductionKind
<1>9. call[r].next = 3 => env'[p]["production"] = "protected" \/ p \in disturbed'
  <2> SUFFICES ASSUME call[r].next = 3
               PROVE  env'[p]["production"] = "protected" \/ p \in disturbed'
      OBVIOUS
  <2>1. e = "production" /\ Kind(e) = "protected"
    BY <1>2 DEF Kind
  <2>2. CASE env[p][e] = "none" /\ AddRow(p, e, Kind(e))
    BY <1>1, <1>2, <2>1, <2>2, RowAdded
  <2>3. CASE env[p][e] # "none" /\ env' = env /\ disturbed' = disturbed
    BY <1>1, <2>1, <2>3 DEF ProductionInv, ProductionKind
  <2>4. CASE disturbed' = disturbed \cup {p}
    BY <2>4
  <2>. QED BY <1>3, <2>2, <2>3, <2>4
<1>10. ProductionIsProtected'
  <2> SUFFICES ASSUME NEW q \in Slugs, project'[q] # "none"
               PROVE  \/ \E s \in Requests : At(s, "defaults")' /\ call'[s].slug = q
                      \/ env'[q]["production"] = "protected"
                      \/ q \in disturbed'
      BY DEF ProductionIsProtected
  <2>1. \/ \E s \in Requests : At(s, "defaults") /\ call[s].slug = q
        \/ env[q]["production"] = "protected"
        \/ q \in disturbed
    BY <1>3 DEF ProductionInv, ProductionIsProtected
  <2>2. CASE \E s \in Requests : At(s, "defaults") /\ call[s].slug = q
    <3>1. PICK s \in Requests : At(s, "defaults") /\ call[s].slug = q
      BY <2>2
    <3>2. CASE s # r
      BY <1>5, <3>1, <3>2
    <3>3. CASE s = r
      BY <1>6, <1>9, <3>1, <3>3
    <3>. QED BY <3>2, <3>3
  <2>3. CASE env[q]["production"] = "protected"
    BY <1>7, <2>3
  <2>4. CASE q \in disturbed
    BY <1>7, <2>4
  <2>. QED BY <2>1, <2>2, <2>3, <2>4
<1>. QED BY <1>8, <1>10 DEF ProductionInv

LEMMA ProductionByDisconnect ==
  ASSUME TypeOK, CallsFit, ProductionInv, NEW r \in Requests, Disconnect(r)
  PROVE  ProductionInv'
<1>1. /\ env' = env /\ project' = project /\ Finish(r)
      /\ disturbed' = disturbed \cup {call[r].slug}
  BY Zenon DEF Disconnect
<1>2. ProductionKind'
  BY <1>1 DEF ProductionInv, ProductionKind
<1>3. ProductionIsProtected'
  BY <1>1, DoneStays DEF ProductionInv, ProductionIsProtected
<1>. QED BY <1>2, <1>3 DEF ProductionInv

LEMMA ProductionByEnvironment ==
  ASSUME TypeOK, CallsFit, ProductionInv, NEW r \in Requests,
         InsertEnvironment(r) \/ DeleteEnvironment(r)
  PROVE  ProductionInv'
<1>1. project' = project /\ Finish(r) /\ ~At(r, "defaults") /\ disturbed \subseteq disturbed'
  BY DEF InsertEnvironment, DeleteEnvironment, At, aux
<1>2. \A q \in Requests : At(q, "defaults") => At(q, "defaults")' /\ call'[q].slug = call[q].slug
  BY <1>1, LoopsKept
<1>3. ASSUME NEW q \in Slugs
      PROVE  \/ env'[q]["production"] = env[q]["production"]
             \/ env'[q]["production"] = "none" /\ env[q]["production"] # "protected"
             \/ q \in disturbed'
  <2>1. CASE DeleteEnvironment(r)
    BY <2>1, Production, RowRemoved DEF RowsStep, RowStep, DeleteEnvironment, TypeOK
  <2>2. CASE InsertEnvironment(r)
    <3>1. call[r].slug \in Slugs /\ call[r].env \in EnvSlugs
      BY <2>2, EnvironmentAdded DEF TypeOK, Call
    <3>2. CASE q = call[r].slug /\ call[r].env = "production"
      BY <2>2, <3>2 DEF InsertEnvironment
    <3>3. CASE ~(q = call[r].slug /\ call[r].env = "production")
      BY <2>2, <3>1, <3>3, Production DEF InsertEnvironment, AddRow, TypeOK
    <3>. QED BY <3>2, <3>3
  <2>. QED BY <2>1, <2>2
<1>4. ProductionKind'
  BY <1>1, <1>3 DEF ProductionInv, ProductionKind
<1>5. ProductionIsProtected'
  BY <1>1, <1>2, <1>3 DEF ProductionInv, ProductionIsProtected
<1>. QED BY <1>4, <1>5 DEF ProductionInv

LEMMA ProductionStep == TypeOK /\ CallsFit /\ ProductionInv /\ [Next]_vars => ProductionInv'
<1> SUFFICES ASSUME TypeOK, CallsFit, ProductionInv, [Next]_vars PROVE ProductionInv'
    OBVIOUS
<1>1. ASSUME NEW r \in Requests,
             Fail(r) \/ ReadPlan(r) \/ CountProjects(r) \/ ReadEnvPlan(r)
               \/ CountEnvironments(r) \/ FindEnvironment(r)
      PROVE  ProductionInv'
  <2>1. env' = env /\ disturbed' = disturbed /\ project' = project
    BY <1>1, Zenon DEF Fail, ReadPlan, CountProjects, ReadEnvPlan, CountEnvironments,
                       FindEnvironment, aux
  <2>2. ~At(r, "defaults")
    BY <1>1 DEF Fail, ReadPlan, CountProjects, ReadEnvPlan, CountEnvironments,
                FindEnvironment, At
  <2>3. \A q \in Requests : At(q, "defaults") =>
            At(q, "defaults")' /\ call'[q].slug = call[q].slug
    <3>1. CASE Finish(r)
      BY <2>2, <3>1, LoopsKept
    <3>2. ASSUME NEW place \in {"insert", "envinsert", "remove"}, Goto(r, place)
          PROVE  \E l \in Places : Goto(r, l)
      BY <3>2 DEF Places
    <3>3. CASE ReadPlan(r) \/ ReadEnvPlan(r)
      <4>1. Limit[plan].projects \in Nat /\ Limit[plan].envs \in Nat
        BY DEF TypeOK
      <4>2. "count" \in Places /\ "envcount" \in Places /\ "envinsert" \in Places
        BY DEF Places
      <4>3. \/ Finish(r) \/ Goto(r, "envinsert")
            \/ call' = [call EXCEPT ![r] = [@ EXCEPT !.at = "count", !.limit = Limit[plan].projects]]
            \/ call' = [call EXCEPT ![r] = [@ EXCEPT !.at = "envcount", !.limit = Limit[plan].envs]]
        BY <3>3, Zenon DEF ReadPlan, ReadEnvPlan
      <4>4. Finish(r) \/ Goto(r, "envinsert") \/ \E c \in Call : Moves(r, c)
        BY <4>1, <4>2, <4>3, LimitMoves
      <4>. QED BY <2>2, <4>2, <4>4, LoopsKept
    <3>4. CASE Fail(r) \/ CountProjects(r) \/ CountEnvironments(r) \/ FindEnvironment(r)
      <4>1. Finish(r) \/ Goto(r, "insert") \/ Goto(r, "envinsert") \/ Goto(r, "remove")
        BY <3>4, Zenon DEF Fail, CountProjects, Admit, CountEnvironments, FindEnvironment
      <4>. QED BY <2>2, <3>1, <3>2, <4>1, LoopsKept
    <3>. QED BY <1>1, <3>3, <3>4
  <2>. QED BY <2>1, <2>3, ProductionKept
<1>2. ASSUME NEW r \in Requests, DeleteProject(r) PROVE ProductionInv'
  <2>1. env' = env /\ disturbed' = disturbed /\ Finish(r) /\ ~At(r, "defaults")
    BY <1>2 DEF DeleteProject, aux, At
  <2>2. \A q \in Requests : At(q, "defaults") =>
            At(q, "defaults")' /\ call'[q].slug = call[q].slug
    BY <2>1, LoopsKept
  <2>3. ProductionKind'
    BY <2>1 DEF ProductionInv, ProductionKind
  <2>4. call[r].slug \in Slugs /\ project[call[r].slug] # "none"
    BY <1>2 DEF DeleteProject, CallsFit, Fits, At
  <2>5. \A p \in Slugs : project'[p] = "none" <=> project[p] = "none"
    BY <1>2, <2>4 DEF DeleteProject, TypeOK
  <2>. QED BY <2>1, <2>2, <2>5, ProductionKept
<1>3. ASSUME NEW t \in Plans, SetPlan(t) PROVE ProductionInv'
  <2>1. env' = env /\ disturbed' = disturbed /\ project' = project /\ call' = call
    BY <1>3, Zenon DEF SetPlan, aux
  <2>. QED BY <2>1, ProductionKept DEF At
<1>4. CASE UNCHANGED vars
  <2>1. env' = env /\ disturbed' = disturbed /\ project' = project /\ call' = call
    BY <1>4, Zenon DEF vars, aux
  <2>. QED BY <2>1, ProductionKept DEF At
<1>. QED
  BY <1>1, <1>2, <1>3, <1>4, ProductionByBegin, ProductionByInsert, ProductionByDefault,
     ProductionByDisconnect, ProductionByEnvironment DEF Next, Continue

\* A project whose creation is over has a protected production environment.
THEOREM ProductionProtected == Spec => []ProductionIsProtected
<1>1. Init => ProductionInv
  BY Production DEF Init, ProductionInv, ProductionKind, ProductionIsProtected, Live, Kind
<1>2. ProductionInv => ProductionIsProtected
  BY DEF ProductionInv
<1>. QED BY <1>1, <1>2, TypeInit, TypeStep, ProductionStep, PTL DEF Spec

-----------------------------------------------------------------------------
(* The limit on projects.  With the types, it is inductive as it stands.   *)

Count == Cardinality(Live) + Cardinality(Adding)

LEMMA Counted ==
  /\ \A S \in SUBSET Slugs : IsFiniteSet(S) /\ Cardinality(S) \in Nat
  /\ \A S \in SUBSET Requests : IsFiniteSet(S) /\ Cardinality(S) \in Nat
BY FS_Subset, FS_CardinalityType

LEMMA CountNat == Count \in Nat /\ Count' \in Nat
<1>1. Live \in SUBSET Slugs /\ Adding \in SUBSET Requests
  BY DEF Live, Adding
<1>2. Live' \in SUBSET Slugs /\ Adding' \in SUBSET Requests
  BY DEF Live, Adding
<1>. QED BY <1>1, <1>2, Counted DEF Count

LEMMA Slack ==
  ASSUME NEW x \in Nat, NEW a \in Nat, NEW b \in Nat, NEW c \in Nat,
         NEW d \in Nat, NEW e \in Nat, NEW f \in Nat,
         x <= a + b - 1 + c, a <= d, b <= e, c <= f
  PROVE  x <= d + e - 1 + f
OBVIOUS

LEMMA OneMore ==
  ASSUME NEW x \in Nat, NEW a \in Nat, NEW b \in Nat, NEW c \in Nat, x <= a + b - 1 + c
  PROVE  x + 1 <= a + b - 1 + (c + 1)
OBVIOUS

LEMMA LimitKept ==
  ASSUME TypeOK, TypeOK', ProjectLimit, Count' <= Count, unlimited => unlimited',
         roof <= roof', peak <= peak', faults <= faults'
  PROVE  ProjectLimit'
<1>1. CASE unlimited
  BY <1>1, Zenon DEF ProjectLimit
<1>2. CASE ~unlimited
  <2>1. Count <= roof + peak - 1 + faults
    BY <1>2, Zenon DEF ProjectLimit, Count
  <2>2. /\ roof \in Nat /\ peak \in Nat /\ faults \in Nat
        /\ roof' \in Nat /\ peak' \in Nat /\ faults' \in Nat
    BY Finite DEF TypeOK
  <2>3. Count <= roof' + peak' - 1 + faults'
    BY <2>1, <2>2, CountNat, Slack
  <2>4. Count' <= roof' + peak' - 1 + faults'
    <3>1. roof' + peak' - 1 + faults' \in Int /\ Count \in Int /\ Count' \in Int
      BY <2>2, CountNat
    <3>. QED BY <2>3, <3>1
  <2>. QED BY <2>4, Zenon DEF ProjectLimit, Count
<1>. QED BY <1>1, <1>2

\* What a move does to the creates between their COUNT and INSERT.
LEMMA AddingMoves ==
  ASSUME TypeOK, NEW r \in Requests, NEW c \in Call, Moves(r, c)
  PROVE  Adding' = IF c.at = "insert" THEN Adding \cup {r} ELSE Adding \ {r}
BY Moved DEF Adding, At

LEMMA AddingFewer ==
  ASSUME TypeOK, NEW r \in Requests, NEW c \in Call, Moves(r, c), c.at # "insert"
  PROVE  /\ Adding' = Adding \ {r}
         /\ Cardinality(Adding') = Cardinality(Adding) - (IF At(r, "insert") THEN 1 ELSE 0)
<1>1. Adding' = Adding \ {r} /\ (r \in Adding <=> At(r, "insert"))
  BY AddingMoves DEF Adding
<1>2. IsFiniteSet(Adding) /\ Cardinality(Adding) \in Nat
  BY Finite
<1>3. Cardinality(Adding \ {r}) = IF r \in Adding THEN Cardinality(Adding) - 1
                                  ELSE Cardinality(Adding)
  BY <1>2, FS_RemoveElement
<1>. QED BY <1>1, <1>2, <1>3

LEMMA AddingSame ==
  ASSUME TypeOK, NEW r \in Requests, NEW c \in Call, Moves(r, c), c.at # "insert",
         project' = project
  PROVE  Count' <= Count
<1>1. Live' = Live
  BY DEF Live
<1>. QED BY <1>1, AddingFewer, Finite DEF Count


LEMMA LimitByBegin ==
  ASSUME TypeOK, TypeOK', ProjectLimit, NEW r \in Requests, NEW p \in Slugs, Begin(r, p)
  PROVE  ProjectLimit'
<1>1. /\ project' = project /\ roof' = roof /\ peak' = peak /\ unlimited' = unlimited
      /\ faults' = faults
  BY Zenon DEF Begin, BeginCreateProject, BeginDeleteProject, BeginDeleteEnvironment,
               BeginCreateEnvironment, Open, aux
<1>2. \E c \in Call : Moves(r, c) /\ c.at # "insert"
  BY BeginMoves
<1>3. Count' <= Count
  BY <1>1, <1>2, AddingSame
<1>4. roof <= roof' /\ peak <= peak' /\ faults <= faults'
  BY <1>1, Finite DEF TypeOK
<1>. QED BY <1>1, <1>3, <1>4, LimitKept

\* An admitted create: the count it passed leaves room under the limit it was counted
\* against, or the count failed, which is one more failure.
LEMMA LimitByCount ==
  ASSUME TypeOK, TypeOK', ProjectLimit, NEW r \in Requests, CountProjects(r)
  PROVE  ProjectLimit'
<1>1. project' = project /\ At(r, "count")
  BY Zenon DEF CountProjects
<1>2. Live' = Live /\ r \notin Adding
  BY <1>1 DEF Live, Adding, At
<1>3. /\ roof \in Nat /\ peak \in Nat \ {0} /\ faults \in Nat
      /\ roof' \in Nat /\ peak' \in Nat \ {0} /\ faults' \in Nat
  BY Finite DEF TypeOK
<1>4. ASSUME Admit(r) PROVE Count' = Count + 1
  <2>1. PICK c \in Call : Moves(r, c) /\ c.at = "insert"
    BY <1>4, GotoMoves DEF Admit, Places
  <2>2. Adding' = Adding \cup {r}
    BY <2>1, AddingMoves
  <2>3. Cardinality(Adding \cup {r}) = Cardinality(Adding) + 1
    BY <1>2, Finite, FS_AddElement
  <2>. QED BY <1>2, <2>2, <2>3, Finite DEF Count
<1>5. CASE ~ExceedsLimit(call[r].limit, Cardinality(Live)) /\ Admit(r) /\ faults' = faults
  <2>1. CASE call[r].limit = 0
    BY <1>5, <2>1, Admitted, Zenon DEF ProjectLimit
  <2>2. CASE call[r].limit # 0
    <3>1. call[r].limit \in Nat /\ call[r].limit <= roof' /\ Cardinality(Adding) + 1 <= peak'
      BY <1>5, Admitted
    <3>2. Cardinality(Live) < call[r].limit
      BY <1>5, <2>2, <3>1, Finite DEF ExceedsLimit
    <3>3. Count' <= roof' + peak' - 1 + faults'
      BY <1>3, <1>4, <1>5, <3>1, <3>2, Finite DEF Count
    <3>. QED BY <3>3, Zenon DEF ProjectLimit, Count
  <2>. QED BY <2>1, <2>2
<1>6. CASE Fault /\ Admit(r)
  <2>1. CASE unlimited
    BY <1>6, <2>1, Admitted, Zenon DEF ProjectLimit
  <2>2. CASE ~unlimited
    <3>1. Count <= roof + peak - 1 + faults
      BY <2>2, Zenon DEF ProjectLimit, Count
    <3>2. roof <= roof' /\ peak <= peak' /\ faults' = faults + 1
      BY <1>6, Admitted, FaultType
    <3>3. /\ roof \in Nat /\ peak \in Nat /\ faults \in Nat /\ faults <= faults
          /\ roof' \in Nat /\ peak' \in Nat /\ Count \in Nat
      BY <1>3, CountNat
    <3>4. Count <= roof' + peak' - 1 + faults
      BY <3>1, <3>2, <3>3, Slack
    <3>5. Count' = Count + 1
      BY <1>4, <1>6
    <3>6. Count' <= roof' + peak' - 1 + faults'
      BY <3>2, <3>3, <3>4, <3>5, OneMore
    <3>. QED BY <3>6, Zenon DEF ProjectLimit, Count
  <2>. QED BY <2>1, <2>2
<1>7. CASE Finish(r) /\ UNCHANGED <<roof, unlimited, peak, faults>>
  <2>1. Count' <= Count
    BY <1>1, <1>7, Ended, DoneCall, AddingSame
  <2>2. roof <= roof' /\ peak <= peak' /\ faults <= faults' /\ unlimited' = unlimited
    BY <1>3, <1>7
  <2>. QED BY <2>1, <2>2, LimitKept
<1>. QED BY <1>5, <1>6, <1>7, Zenon DEF CountProjects

\* A create that ends is no longer between the two, whether it adds a project or not.
LEMMA LimitByInsert ==
  ASSUME TypeOK, TypeOK', CallsFit, ProjectLimit, NEW r \in Requests, InsertProject(r)
  PROVE  ProjectLimit'
<1> DEFINE p == call[r].slug
<1>1. /\ UNCHANGED <<roof, unlimited, peak>> /\ (faults' = faults \/ Fault)
      /\ At(r, "insert") /\ (Finish(r) \/ Goto(r, "defaults"))
  BY Zenon DEF InsertProject
<1>2. roof <= roof' /\ peak <= peak' /\ faults <= faults'
  BY <1>1, Finite, FaultType DEF TypeOK
<1>3. \E c \in Call : Moves(r, c) /\ c.at # "insert"
  <2>1. Continue(r) /\ ~CountProjects(r)
    BY <1>1 DEF Continue, CountProjects, At
  <2>. QED BY <2>1, ContinueMoves
<1>4. CASE project' = project
  <2>1. Count' <= Count
    BY <1>3, <1>4, AddingSame
  <2>. QED BY <1>1, <1>2, <2>1, LimitKept
<1>5. CASE project[p] = "none" /\ project' = [project EXCEPT ![p] = "live"]
  <2>1. p \in Slugs
    BY <1>1 DEF CallsFit, Fits, At
  <2>2. Live' = Live \cup {p} /\ p \notin Live
    BY <1>5, <2>1 DEF Live, TypeOK
  <2>3. Cardinality(Live') = Cardinality(Live) + 1
    BY <2>2, Finite, FS_AddElement
  <2>4. Cardinality(Adding') = Cardinality(Adding) - 1
    BY <1>1, <1>3, AddingFewer
  <2>5. Count' <= Count
    BY <2>3, <2>4, Finite DEF Count
  <2>. QED BY <1>1, <1>2, <2>5, LimitKept
<1>. QED BY <1>4, <1>5, Zenon DEF InsertProject

\* A create that fails, and every other step, adds nothing.
LEMMA LimitByOthers ==
  ASSUME TypeOK, TypeOK', ProjectLimit, NEW r \in Requests, Continue(r),
         ~CountProjects(r), ~InsertProject(r)
  PROVE  ProjectLimit'
<1>1. UNCHANGED <<roof, unlimited, peak>> /\ (faults' = faults \/ Fault)
  BY Zenon DEF Continue, Fail, ReadPlan, CreateDefault, Disconnect, DeleteProject, ReadEnvPlan,
               CountEnvironments, InsertEnvironment, FindEnvironment, DeleteEnvironment, aux
<1>2. roof <= roof' /\ peak <= peak' /\ faults <= faults'
  BY <1>1, Finite, FaultType DEF TypeOK
<1>3. \E c \in Call : Moves(r, c) /\ c.at # "insert"
  BY ContinueMoves
<1>4. Live' \subseteq Live
  <2>1. project' = project \/ DeleteProject(r)
    BY Zenon DEF Continue, Fail, ReadPlan, CreateDefault, Disconnect, ReadEnvPlan,
                 CountEnvironments, InsertEnvironment, FindEnvironment, DeleteEnvironment
  <2>. QED BY <2>1 DEF DeleteProject, Live, TypeOK
<1>5. Cardinality(Live') <= Cardinality(Live) /\ Cardinality(Live') \in Nat
  BY <1>4, Finite, FS_Subset, FS_CardinalityType
<1>6. Cardinality(Adding') <= Cardinality(Adding) /\ Cardinality(Adding') \in Nat
  BY <1>3, AddingFewer, Finite, FS_Subset, FS_CardinalityType
<1>7. Count' <= Count
  BY <1>5, <1>6, Finite DEF Count
<1>. QED BY <1>1, <1>2, <1>7, LimitKept

LEMMA LimitStep == TypeOK /\ TypeOK' /\ CallsFit /\ ProjectLimit /\ [Next]_vars => ProjectLimit'
<1> SUFFICES ASSUME TypeOK, TypeOK', CallsFit, ProjectLimit, [Next]_vars PROVE ProjectLimit'
    OBVIOUS
<1>1. ASSUME UNCHANGED <<project, call, roof, unlimited, peak, faults>> PROVE ProjectLimit'
  <2>1. Live' = Live /\ Adding' = Adding
    BY <1>1 DEF Live, Adding, At
  <2>. QED BY <1>1, <2>1, Zenon DEF ProjectLimit
<1>2. (\E t \in Plans : SetPlan(t)) \/ UNCHANGED vars
         => UNCHANGED <<project, call, roof, unlimited, peak, faults>>
  BY Zenon DEF SetPlan, vars, aux
<1>. QED BY <1>1, <1>2, LimitByBegin, LimitByCount, LimitByInsert, LimitByOthers DEF Next

\* The limit is passed by no more than the creates that overlapped, less one, and the
\* failures.
THEOREM LimitHolds == Spec => []ProjectLimit
<1>1. Init => ProjectLimit
  <2> SUFFICES ASSUME Init PROVE ProjectLimit
      OBVIOUS
  <2>1. Adding = {} /\ roof = Cardinality(Live) /\ peak = 1 /\ faults = 0
    BY DEF Init, Adding, At, Quiet
  <2>2. Cardinality(Adding) = 0
    BY <2>1, FS_EmptySet
  <2>3. Cardinality(Live) + Cardinality(Adding) <= roof + peak - 1 + faults
    BY <2>1, <2>2, Finite
  <2>. QED BY <2>3, Zenon DEF ProjectLimit
<1>. QED BY <1>1, TypeInit, TypeStep, LimitStep, PTL DEF Spec

-----------------------------------------------------------------------------
(* Whose limits are used.  When every plan the organization has had is in  *)
(* B, so is the plan of every limit a project was, or will be, counted     *)
(* against.  (One project may be there from the start.)                    *)

LimitsOf(B) == {Limit[t].projects : t \in B}

UsesOnly(B) ==
    /\ roof \in {0, 1} \cup LimitsOf(B)
    /\ unlimited => 0 \in LimitsOf(B)
    /\ \A r \in Requests : At(r, "count") => call[r].limit \in LimitsOf(B)

LEMMA UsesInit == ASSUME NEW B, Init PROVE UsesOnly(B)
<1>1. unlimited = FALSE
  BY Zenon DEF Init
<1>2. roof = Cardinality(Live) /\ Cardinality(Live) < 2
  BY Zenon DEF Init
<1>3. \A r \in Requests : ~At(r, "count")
  BY DEF Init, At, Quiet
<1>. QED BY <1>1, <1>2, <1>3, Finite DEF UsesOnly

LEMMA UsesMore == ASSUME NEW B, NEW C, B \subseteq C, UsesOnly(B) PROVE UsesOnly(C)
BY DEF UsesOnly, LimitsOf

LEMMA UsesStep ==
  ASSUME NEW B, TypeOK, CallsFit, UsesOnly(B), plan \in B, [Next]_vars
  PROVE  UsesOnly(B)'
<1>1. ASSUME UNCHANGED <<call, roof, unlimited>> PROVE UsesOnly(B)'
  BY <1>1 DEF UsesOnly, LimitsOf, At
<1>2. (\E t \in Plans : SetPlan(t)) \/ UNCHANGED vars => UNCHANGED <<call, roof, unlimited>>
  BY Zenon DEF SetPlan, vars, aux
<1>3. ASSUME NEW r \in Requests, NEW c \in Call, Moves(r, c),
             c.at = "count" => c.limit \in LimitsOf(B)
      PROVE  \A q \in Requests : At(q, "count")' => call'[q].limit \in LimitsOf(B)
  <2>1. call'[r] = c /\ \A q \in Requests : q # r => call'[q] = call[q]
    BY <1>3, Moved
  <2>. QED BY <1>3, <2>1 DEF UsesOnly, At
<1>4. ASSUME NEW r \in Requests, NEW p \in Slugs, Begin(r, p) PROVE UsesOnly(B)'
  <2>1. UNCHANGED <<roof, unlimited>>
    BY <1>4, Zenon DEF Begin, BeginCreateProject, BeginDeleteProject, BeginDeleteEnvironment,
                       BeginCreateEnvironment, Open, aux
  <2>. QED BY <1>3, <1>4, <2>1, BeginMoves DEF UsesOnly, LimitsOf
<1>5. ASSUME NEW r \in Requests, Continue(r) PROVE UsesOnly(B)'
  <2>1. \A q \in Requests : At(q, "count")' => call'[q].limit \in LimitsOf(B)
    <3>1. Limit[plan].projects \in LimitsOf(B)
      BY DEF LimitsOf
    <3>. QED BY <1>3, <1>5, <3>1, ContinueMoves
  <2>2. CASE At(r, "count") /\ Admit(r)
    <3>1. call[r].limit \in LimitsOf(B)
      BY <2>2 DEF UsesOnly
    <3>2. roof' \in {roof, call[r].limit} /\ (unlimited' => unlimited \/ call[r].limit = 0)
      BY <2>2, Zenon DEF Admit
    <3>. QED BY <2>1, <3>1, <3>2 DEF UsesOnly, LimitsOf
  <2>3. CASE UNCHANGED <<roof, unlimited>>
    BY <2>1, <2>3 DEF UsesOnly, LimitsOf
  <2>4. CountProjects(r) => (At(r, "count") /\ Admit(r)) \/ UNCHANGED <<roof, unlimited>>
    BY Zenon DEF CountProjects
  <2>5. ~CountProjects(r) => UNCHANGED <<roof, unlimited>>
    BY <1>5, Zenon DEF Continue, Fail, ReadPlan, InsertProject, CreateDefault, Disconnect,
                       DeleteProject, ReadEnvPlan, CountEnvironments, InsertEnvironment,
                       FindEnvironment, DeleteEnvironment, aux
  <2>. QED BY <2>2, <2>3, <2>4, <2>5
<1>. QED BY <1>1, <1>2, <1>4, <1>5 DEF Next
=============================================================================
