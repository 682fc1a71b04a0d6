------------------------------ MODULE Accounts -------------------------------
(***************************************************************************)
(* Who a request acts as: the authentication middleware                    *)
(* (middleware/auth.go), which provisions users and organizations on the   *)
(* first request, and the handlers that change memberships and             *)
(* credentials: CreateOrg, invitations, the CLI login and API tokens.      *)
(*                                                                         *)
(* An action is one SQL statement, or the reads before it, of a request.   *)
(* The plan's limits and the scopes of a token, which only refuse, are     *)
(* Refuse; seat_count, which nothing reads, and the organization of a      *)
(* code or a token, which only the token limit reads, are left out.        *)
(***************************************************************************)
EXTENDS Naturals

CONSTANTS
    Users,         \* subjects of verified JWTs
    Orgs, Invites, Codes, Tokens,   \* rows there may be, bounds
    Requests,      \* requests being handled at the same time
    Invitable,     \* roles invitations are for
    NoUser, NoOrg, NoToken, NoCode, NoInvite

\* model.Role, by rank.
Reader == 1
Developer == 2
Admin == 3
Owner == 4
Roles == Reader .. Owner

ASSUME AccountsAssumption ==
    /\ Invitable \subseteq Roles \ {Owner}
    /\ NoUser \notin Users /\ NoOrg \notin Orgs /\ NoToken \notin Tokens
    /\ NoCode \notin Codes /\ NoInvite \notin Invites

VARIABLES
    known,         \* the users that have a row
    users,         \* org_id and role of each
    founder,       \* who an organization was created for, NoUser before it is
    invites, codes, tokens,
    joined,        \* the acceptances that found their invitation valid (auxiliary)
    pc, who,       \* of each request: its place, its user
    flex,          \* it came through FlexAuthMiddleware
    via,           \* the token it presents
    row,           \* the user or token row it has read
    act,           \* the organization and role in its context
    arg,           \* the invitation it accepts
    code,          \* the login code it has claimed
    made           \* the organization it has created

requestVars == <<pc, who, flex, via, row, act, arg, code, made>>
vars == <<known, users, founder, invites, codes, tokens, joined, requestVars>>

Member == [org : Orgs \cup {NoOrg}, role : Roles]

Invitation == [state : {"none", "open", "closed"}, org : Orgs \cup {NoOrg}, role : Roles]

LoginCode == [state : {"none", "open", "closed"}, user : Users \cup {NoUser}, role : Roles]

APIToken == [state : {"none", "live", "revoked"}, user : Users \cup {NoUser}, role : Roles,
             code : Codes \cup {NoCode}]

Places == {"idle", "getTokenUser", "upsert", "provision",
           "assign", "handle", "newOrg", "newAssign", "join", "mark", "exchange"}

TypeOK ==
    /\ known \subseteq Users
    /\ users \in [Users -> Member]
    /\ founder \in [Orgs -> Users \cup {NoUser}]
    /\ invites \in [Invites -> Invitation]
    /\ codes \in [Codes -> LoginCode]
    /\ tokens \in [Tokens -> APIToken]
    /\ joined \subseteq Users \X Invites
    /\ pc \in [Requests -> Places]
    /\ who \in [Requests -> Users \cup {NoUser}]
    /\ flex \in [Requests -> BOOLEAN]
    /\ via \in [Requests -> Tokens \cup {NoToken}]
    /\ row \in [Requests -> Member] /\ act \in [Requests -> Member]
    /\ arg \in [Requests -> Invites \cup {NoInvite}]
    /\ code \in [Requests -> Codes \cup {NoCode}]
    /\ made \in [Requests -> Orgs \cup {NoOrg}]

\* What UpsertUser inserts for a new user; also the value of a field not in use.
NewRow == [org |-> NoOrg, role |-> Owner]

Init ==
    /\ known = {}
    /\ users = [u \in Users |-> NewRow]
    /\ founder = [o \in Orgs |-> NoUser]
    /\ invites = [i \in Invites |-> [state |-> "none", org |-> NoOrg, role |-> Reader]]
    /\ codes = [c \in Codes |-> [state |-> "none", user |-> NoUser, role |-> Reader]]
    /\ tokens = [t \in Tokens |-> [state |-> "none", user |-> NoUser, role |-> Reader,
                                   code |-> NoCode]]
    /\ joined = {}
    /\ pc = [r \in Requests |-> "idle"]
    /\ who = [r \in Requests |-> NoUser]
    /\ flex = [r \in Requests |-> FALSE]
    /\ via = [r \in Requests |-> NoToken]
    /\ row = [r \in Requests |-> NewRow] /\ act = [r \in Requests |-> NewRow]
    /\ arg = [r \in Requests |-> NoInvite]
    /\ code = [r \in Requests |-> NoCode]
    /\ made = [r \in Requests |-> NoOrg]

-----------------------------------------------------------------------------
Goto(r, place) == pc' = [pc EXCEPT ![r] = place]

\* The request is answered.
Answer(r) ==
    /\ Goto(r, "idle")
    /\ who' = [who EXCEPT ![r] = NoUser] /\ flex' = [flex EXCEPT ![r] = FALSE]
    /\ via' = [via EXCEPT ![r] = NoToken]
    /\ row' = [row EXCEPT ![r] = NewRow] /\ act' = [act EXCEPT ![r] = NewRow]
    /\ arg' = [arg EXCEPT ![r] = NoInvite] /\ code' = [code EXCEPT ![r] = NoCode]
    /\ made' = [made EXCEPT ![r] = NoOrg]

\* A statement fails and so does the request, or the client leaves.
Fail(r) ==
    /\ pc[r] # "idle"
    /\ Answer(r)
    /\ UNCHANGED <<known, users, founder, invites, codes, tokens, joined>>

UpdateUserOrg(u, o, role) == users' = [users EXCEPT ![u] = [org |-> o, role |-> role]]

-----------------------------------------------------------------------------
(* AuthMiddleware, FlexAuthMiddleware.                                     *)

\* Where a request goes with its user's row.
Enter(r, member) ==
    IF member.org = NoOrg
    THEN Goto(r, "provision") /\ UNCHANGED act
    ELSE Goto(r, "handle") /\ act' = [act EXCEPT ![r] = member]

\* A request with a JWT reads its user's row, GetUserByID.
JwtRequest(r, u, f) ==
    /\ pc[r] = "idle"
    /\ who' = [who EXCEPT ![r] = u] /\ flex' = [flex EXCEPT ![r] = f]
    /\ UNCHANGED <<known, users, founder, invites, codes, tokens, joined, via, arg, code,
                   made>>

\* A row that is missing, an hour old, or has another e-mail is upserted.
Authenticate(r, u, f) ==
    /\ JwtRequest(r, u, f)
    /\ row' = [row EXCEPT ![r] = users[u]]
    /\ \/ Goto(r, "upsert") /\ UNCHANGED act
       \/ u \in known /\ Enter(r, users[u])

\* FlexAuthMiddleware takes an error for a missing user.
GetUserFails(r, u) ==
    /\ JwtRequest(r, u, TRUE)
    /\ row' = [row EXCEPT ![r] = NewRow]
    /\ Goto(r, "upsert") /\ UNCHANGED act

\* Mutant: the role is updated on conflict too.
UpsertedRole(u, new) ==
    IF u \notin known THEN new
    ELSE [org |-> IF users[u].org = NoOrg THEN new.org ELSE users[u].org, role |-> new.role]

\* INSERT ... ON CONFLICT: of a user that has a row only a missing org_id is filled in.
Upserted(u, new) ==
    IF u \notin known THEN new
    ELSE [org |-> IF users[u].org = NoOrg THEN new.org ELSE users[u].org,
          role |-> users[u].role]

UpsertUser(r) ==
    /\ pc[r] = "upsert"
    /\ known' = known \cup {who[r]}
    /\ users' = [users EXCEPT ![who[r]] = Upserted(who[r], row[r])]
    /\ row' = [row EXCEPT ![r] = Upserted(who[r], row[r])]
    /\ Enter(r, Upserted(who[r], row[r]))
    /\ UNCHANGED <<founder, invites, codes, tokens, joined, who, flex, via, arg, code, made>>

\* The middleware's CreateOrganization, and CreateOrg's.
CreateOrganization(r) ==
    /\ pc[r] \in {"provision", "newOrg"}
    /\ \E o \in Orgs :
          /\ founder[o] = NoUser
          /\ founder' = [founder EXCEPT ![o] = who[r]]
          /\ made' = [made EXCEPT ![r] = o]
    /\ Goto(r, IF pc[r] = "provision" THEN "assign" ELSE "newAssign")
    /\ UNCHANGED <<known, users, invites, codes, tokens, joined, who, flex, via, row, act, arg,
                   code>>

Assign(r) ==
    /\ pc[r] = "assign"
    /\ UpdateUserOrg(who[r], made[r], Owner)
    /\ act' = [act EXCEPT ![r] = [org |-> made[r], role |-> Owner]]
    /\ Goto(r, "handle")
    /\ UNCHANGED <<known, founder, invites, codes, tokens, joined, who, flex, via, row, arg,
                   code, made>>

\* Either statement fails: the request goes on without an organization.
ProvisionFails(r) ==
    /\ pc[r] \in {"provision", "assign"}
    /\ act' = [act EXCEPT ![r] = row[r]]
    /\ Goto(r, "handle")
    /\ UNCHANGED <<known, users, founder, invites, codes, tokens, joined, who, flex, via, row,
                   arg, code, made>>

\* A request with a token, GetAPITokenByHash; one that is revoked or has expired is not
\* found.
AuthenticateToken(r, t) ==
    /\ pc[r] = "idle" /\ tokens[t].state = "live"
    /\ who' = [who EXCEPT ![r] = tokens[t].user] /\ flex' = [flex EXCEPT ![r] = TRUE]
    /\ via' = [via EXCEPT ![r] = t]
    /\ row' = [row EXCEPT ![r] = [org |-> NoOrg, role |-> tokens[t].role]]
    /\ Goto(r, "getTokenUser")
    /\ UNCHANGED <<known, users, founder, invites, codes, tokens, joined, act, arg, code,
                   made>>

\* Mutant: only the snapshot counts.
LowerRoleSnapshot(snapshot, live) == snapshot

\* rbac.LowerRole
LowerRole(a, b) == IF a >= b THEN b ELSE a

\* tokenContext: the user's organization, with the lower of the two roles.
GetTokenUser(r) ==
    /\ pc[r] = "getTokenUser"
    /\ act' = [act EXCEPT ![r] = [org |-> users[who[r]].org,
                                  role |-> LowerRole(row[r].role, users[who[r]].role)]]
    /\ Goto(r, "handle")
    /\ UNCHANGED <<known, users, founder, invites, codes, tokens, joined, who, flex, via, row,
                   arg, code, made>>

-----------------------------------------------------------------------------
(* Handlers.                                                               *)

\* RequireOrg.
HasOrg(r) == act[r].org # NoOrg

\* A check of the handler, a middleware or the plan fails; or the handler is one that
\* changes nothing here.
Refuse(r) ==
    /\ pc[r] = "handle"
    /\ Answer(r)
    /\ UNCHANGED <<known, users, founder, invites, codes, tokens, joined>>

\* A user that has an organization is refused, but not when reading its row fails: the
\* error is ignored.
CreateOrg(r) ==
    /\ pc[r] = "handle" /\ ~flex[r]
    /\ Goto(r, "newOrg")
    /\ UNCHANGED <<known, users, founder, invites, codes, tokens, joined, who, flex, via, row,
                   act, arg, code, made>>

AssignNew(r) ==
    /\ pc[r] = "newAssign"
    /\ UpdateUserOrg(who[r], made[r], Owner)
    /\ Answer(r)
    /\ UNCHANGED <<known, founder, invites, codes, tokens, joined>>

InviteMember(r) ==
    /\ pc[r] = "handle" /\ flex[r] /\ HasOrg(r)
    /\ act[r].role >= Admin
    /\ \E i \in Invites, role \in Invitable :
          /\ invites[i].state = "none"
          /\ invites' = [invites EXCEPT ![i] = [state |-> "open", org |-> act[r].org,
                                                role |-> role]]
    /\ Answer(r)
    /\ UNCHANGED <<known, users, founder, codes, tokens, joined>>

\* The row is deleted, accepted or out of date: nobody finds it any more.
Close(i) == invites' = [invites EXCEPT ![i].state = "closed"]

RevokeInvitation(r) ==
    /\ pc[r] = "handle" /\ flex[r] /\ HasOrg(r)
    /\ act[r].role >= Admin
    /\ \E i \in Invites : invites[i].org = act[r].org /\ Close(i)
    /\ Answer(r)
    /\ UNCHANGED <<known, users, founder, codes, tokens, joined>>

InvitationExpires(i) ==
    /\ invites[i].state = "open"
    /\ Close(i)
    /\ UNCHANGED <<known, users, founder, codes, tokens, joined, requestVars>>

GetInvitationByToken(r) ==
    /\ pc[r] = "handle" /\ ~flex[r]
    /\ \E i \in Invites :
          /\ invites[i].state = "open"
          /\ arg' = [arg EXCEPT ![r] = i]
          /\ joined' = joined \cup {<<who[r], i>>}
    /\ Goto(r, "join")
    /\ UNCHANGED <<known, users, founder, invites, codes, tokens, who, flex, via, row, act,
                   code, made>>

Join(r) ==
    /\ pc[r] = "join"
    /\ UpdateUserOrg(who[r], invites[arg[r]].org, invites[arg[r]].role)
    /\ Goto(r, "mark")
    /\ UNCHANGED <<known, founder, invites, codes, tokens, joined, who, flex, via, row, act,
                   arg, code, made>>

\* An error here is ignored: Fail.
AcceptInvitation(r) ==
    /\ pc[r] = "mark"
    /\ Close(arg[r])
    /\ Answer(r)
    /\ UNCHANGED <<known, users, founder, codes, tokens, joined>>

-----------------------------------------------------------------------------
(* Credentials.                                                            *)

CLIAuthorize(r) ==
    /\ pc[r] = "handle" /\ ~flex[r] /\ HasOrg(r)
    /\ \E c \in Codes :
          /\ codes[c].state = "none"
          /\ codes' = [codes EXCEPT ![c] = [state |-> "open", user |-> who[r],
                                            role |-> act[r].role]]
    /\ Answer(r)
    /\ UNCHANGED <<known, users, founder, invites, tokens, joined>>

CodeExpires(c) ==
    /\ codes[c].state = "open"
    /\ codes' = [codes EXCEPT ![c].state = "closed"]
    /\ UNCHANGED <<known, users, founder, invites, tokens, joined, requestVars>>

\* Mutant: the code is read here and marked elsewhere.
ClaimReadOnly(r, c) ==
    /\ pc[r] = "idle" /\ codes[c].state = "open"
    /\ code' = [code EXCEPT ![r] = c]
    /\ Goto(r, "exchange")
    /\ UNCHANGED <<known, users, founder, invites, codes, tokens, joined, who, flex, via, row,
                   act, arg, made>>

\* CLIAuthToken: one UPDATE finds the code and marks it.
ClaimCLILoginCode(r, c) ==
    /\ pc[r] = "idle" /\ codes[c].state = "open"
    /\ codes' = [codes EXCEPT ![c].state = "closed"]
    /\ code' = [code EXCEPT ![r] = c]
    /\ Goto(r, "exchange")
    /\ UNCHANGED <<known, users, founder, invites, tokens, joined, who, flex, via, row, act,
                   arg, made>>

\* The verifier is not the code's: the code is spent all the same.
WrongVerifier(r) ==
    /\ pc[r] = "exchange"
    /\ Answer(r)
    /\ UNCHANGED <<known, users, founder, invites, codes, tokens, joined>>

CreateAPIToken(u, role, c) ==
    \E t \in Tokens :
       /\ tokens[t].state = "none"
       /\ tokens' = [tokens EXCEPT ![t] = [state |-> "live", user |-> u, role |-> role,
                                           code |-> c]]

\* Mutant: the token gets the role its user has by now.
ExchangeLiveRole(r) ==
    /\ pc[r] = "exchange"
    /\ LET c == codes[code[r]] IN CreateAPIToken(c.user, users[c.user].role, code[r])
    /\ Answer(r)
    /\ UNCHANGED <<known, users, founder, invites, codes, joined>>

Exchange(r) ==
    /\ pc[r] = "exchange"
    /\ LET c == codes[code[r]] IN CreateAPIToken(c.user, c.role, code[r])
    /\ Answer(r)
    /\ UNCHANGED <<known, users, founder, invites, codes, joined>>

Mint(r) ==
    /\ pc[r] = "handle" /\ flex[r] /\ HasOrg(r)
    /\ CreateAPIToken(who[r], act[r].role, NoCode)
    /\ Answer(r)
    /\ UNCHANGED <<known, users, founder, invites, codes, joined>>

\* One of the caller's own tokens; another's is left alone.
RevokeAPIToken(r) ==
    /\ pc[r] = "handle" /\ flex[r] /\ HasOrg(r)
    /\ \E t \in Tokens :
          /\ tokens[t].user = who[r]
          /\ tokens' = [tokens EXCEPT ![t].state = "revoked"]
    /\ Answer(r)
    /\ UNCHANGED <<known, users, founder, invites, codes, joined>>

-----------------------------------------------------------------------------
Arrive(r) ==
    \/ \E u \in Users, f \in BOOLEAN : Authenticate(r, u, f)
    \/ \E u \in Users : GetUserFails(r, u)
    \/ \E t \in Tokens : AuthenticateToken(r, t)
    \/ \E c \in Codes : ClaimCLILoginCode(r, c)

Provision(r) ==
    UpsertUser(r) \/ CreateOrganization(r) \/ Assign(r) \/ ProvisionFails(r)

Handle(r) ==
    \/ Refuse(r) \/ CreateOrg(r) \/ AssignNew(r)
    \/ InviteMember(r) \/ RevokeInvitation(r)
    \/ GetInvitationByToken(r) \/ Join(r) \/ AcceptInvitation(r)
    \/ CLIAuthorize(r) \/ WrongVerifier(r) \/ Exchange(r)
    \/ Mint(r) \/ RevokeAPIToken(r)

Step(r) == Arrive(r) \/ Provision(r) \/ GetTokenUser(r) \/ Handle(r) \/ Fail(r)

Next ==
    \/ \E r \in Requests : Step(r)
    \/ \E i \in Invites : InvitationExpires(i)
    \/ \E c \in Codes : CodeExpires(c)

Spec == Init /\ [][Next]_vars

-----------------------------------------------------------------------------
(* Properties.                                                             *)

\* The user was made a member of the organization with this role: as its founder, or by
\* an invitation that was valid when it was accepted.
Granted(u, o, role) ==
    \/ founder[o] = u /\ role = Owner
    \/ \E i \in Invites : <<u, i>> \in joined /\ invites[i].org = o /\ invites[i].role = role

\* Organization and role of a user always belong together, whatever requests of the user
\* are provisioning, touching the row or accepting at the same time.
RoleWasGranted ==
    \A u \in Users : users[u].org # NoOrg => Granted(u, users[u].org, users[u].role)

\* A request, also one with a token, acts for an organization with no more than a role
\* its user was granted there, though the user may have moved since the row was read or
\* the token made.
ActsWithinGrant ==
    \A r \in Requests :
       pc[r] = "handle" /\ HasOrg(r) =>
          \E role \in Roles : role >= act[r].role /\ Granted(who[r], act[r].org, role)

\* A token from a CLI login never acts with more than its user had when the login was
\* approved, whenever the code is exchanged.
TokenWithinApproval ==
    \A r \in Requests :
       pc[r] = "handle" /\ via[r] # NoToken /\ tokens[via[r]].code # NoCode =>
          act[r].role <= codes[tokens[via[r]].code].role

\* "Two concurrent exchange attempts for the same code cannot both succeed": a code is
\* held by one exchange, or has made one token.
CodeMintsOnce ==
    /\ \A r \in Requests, t \in Tokens : pc[r] = "exchange" => tokens[t].code # code[r]
    /\ \A r, s \in Requests :
          pc[r] = "exchange" /\ pc[s] = "exchange" /\ code[r] = code[s] => r = s
    /\ \A s, t \in Tokens : tokens[s].code = tokens[t].code /\ tokens[s].code # NoCode => s = t
=============================================================================
