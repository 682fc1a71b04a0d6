--------------------------- MODULE AccountsProofs ----------------------------
(***************************************************************************)
(* Proofs about Accounts, for any number of users, organizations,          *)
(* invitations, login codes, tokens and requests.                          *)
(***************************************************************************)
EXTENDS Accounts, TLAPS

\* What a request holds at each place: a user, from the upsert on one that has a row; the
\* invitation it accepts; the login code it has claimed, which nobody finds any more.
Held(r) ==
    /\ pc[r] \notin {"idle", "exchange"} => who[r] \in Users
    /\ pc[r] \notin {"idle", "exchange", "upsert"} => who[r] \in known
    /\ pc[r] \in {"join", "mark"} => arg[r] \in Invites
    /\ pc[r] = "exchange" => code[r] \in Codes /\ codes[code[r]].state = "closed"

\* Login codes and tokens belong to users that have a row.
OwnersKnown ==
    /\ \A c \in Codes : codes[c].state # "none" => codes[c].user \in known
    /\ \A t \in Tokens : tokens[t].state # "none" => tokens[t].user \in known

TypeInv == TypeOK /\ (\A r \in Requests : Held(r)) /\ OwnersKnown

-----------------------------------------------------------------------------
(* Rows of which only the state changes.                                   *)

LEMMA InvitationClosed ==
  ASSUME TypeOK, NEW i \in Invites, Close(i)
  PROVE  /\ invites' \in [Invites -> Invitation]
         /\ \A j \in Invites : invites'[j].org = invites[j].org
                               /\ invites'[j].role = invites[j].role
         /\ \A j \in Invites : invites'[j].state = IF j = i THEN "closed" ELSE invites[j].state
<1> DEFINE x == [invites[i] EXCEPT !.state = "closed"]
<1>1. /\ x \in Invitation /\ x.state = "closed"
      /\ x.org = invites[i].org /\ x.role = invites[i].role
  BY DEF TypeOK, Invitation
<1>2. invites' = [invites EXCEPT ![i] = x]
  BY DEF Close
<1> HIDE DEF x
<1>. QED
  BY <1>1, <1>2 DEF TypeOK

LEMMA CodeClosed ==
  ASSUME TypeOK, NEW c \in Codes, codes' = [codes EXCEPT ![c].state = "closed"]
  PROVE  /\ codes' \in [Codes -> LoginCode]
         /\ \A d \in Codes : codes'[d].user = codes[d].user /\ codes'[d].role = codes[d].role
         /\ \A d \in Codes : codes'[d].state = IF d = c THEN "closed" ELSE codes[d].state
<1> DEFINE x == [codes[c] EXCEPT !.state = "closed"]
<1>1. /\ x \in LoginCode /\ x.state = "closed"
      /\ x.user = codes[c].user /\ x.role = codes[c].role
  BY DEF TypeOK, LoginCode
<1>2. codes' = [codes EXCEPT ![c] = x]
  OBVIOUS
<1> HIDE DEF x
<1>. QED
  BY <1>1, <1>2 DEF TypeOK

LEMMA TokenRevoked ==
  ASSUME TypeOK, NEW t \in Tokens, tokens' = [tokens EXCEPT ![t].state = "revoked"]
  PROVE  /\ tokens' \in [Tokens -> APIToken]
         /\ \A s \in Tokens : /\ tokens'[s].user = tokens[s].user
                              /\ tokens'[s].role = tokens[s].role
                              /\ tokens'[s].code = tokens[s].code
         /\ \A s \in Tokens : tokens'[s].state = IF s = t THEN "revoked" ELSE tokens[s].state
<1> DEFINE x == [tokens[t] EXCEPT !.state = "revoked"]
<1>1. /\ x \in APIToken /\ x.state = "revoked"
      /\ x.user = tokens[t].user /\ x.role = tokens[t].role /\ x.code = tokens[t].code
  BY DEF TypeOK, APIToken
<1>2. tokens' = [tokens EXCEPT ![t] = x]
  OBVIOUS
<1> HIDE DEF x
<1>. QED
  BY <1>1, <1>2 DEF TypeOK

-----------------------------------------------------------------------------
(* Types.                                                                  *)

\* A request's own variables, after its answer.
LEMMA AnswerType ==
  ASSUME TypeInv, NEW r \in Requests, Answer(r),
         known \subseteq known', UNCHANGED joined, known' \subseteq Users,
         \A c \in Codes : codes[c].state = "closed" => codes'[c].state = "closed"
  PROVE  /\ pc' \in [Requests -> Places] /\ who' \in [Requests -> Users \cup {NoUser}]
         /\ flex' \in [Requests -> BOOLEAN] /\ via' \in [Requests -> Tokens \cup {NoToken}]
         /\ row' \in [Requests -> Member] /\ act' \in [Requests -> Member]
         /\ arg' \in [Requests -> Invites \cup {NoInvite}]
         /\ code' \in [Requests -> Codes \cup {NoCode}]
         /\ made' \in [Requests -> Orgs \cup {NoOrg}]
         /\ \A s \in Requests : Held(s)'
<1>1. NewRow \in Member
  BY DEF NewRow, Member, Roles, Owner, Reader
<1>2. "idle" \in Places
  BY DEF Places
<1>3. \A s \in Requests : Held(s)'
  BY DEF TypeInv, TypeOK, Answer, Goto, Held
<1>. QED
  BY <1>1, <1>2, <1>3 DEF TypeInv, TypeOK, Answer, Goto

LEMMA TypeInit == Init => TypeInv
<1> SUFFICES ASSUME Init PROVE TypeInv
    OBVIOUS
<1>1. NewRow \in Member /\ Reader \in Roles
  BY DEF NewRow, Member, Roles, Owner, Reader
<1>2. TypeOK
  BY <1>1 DEF Init, TypeOK, Places, Invitation, LoginCode, APIToken
<1>. QED
  BY <1>2 DEF Init, TypeInv, Held, OwnersKnown

LEMMA TypeStep == TypeInv /\ [Next]_vars => TypeInv'
<1> SUFFICES ASSUME TypeInv, [Next]_vars PROVE TypeInv'
    OBVIOUS
<1> USE AccountsAssumption
<1> USE DEF requestVars
<1>0. NewRow \in Member /\ Owner \in Roles
  BY DEF NewRow, Member, Roles, Owner, Reader
<1>1. CASE UNCHANGED vars
  BY <1>1 DEF vars, TypeInv, TypeOK, Held, OwnersKnown
<1>a. ASSUME NEW r \in Requests, NEW m \in Member, Enter(r, m)
      PROVE  /\ pc' \in [Requests -> Places] /\ act' \in [Requests -> Member]
             /\ \A s \in Requests \ {r} : pc'[s] = pc[s]
             /\ pc'[r] \in {"provision", "handle"}
  <2>1. CASE m.org = NoOrg
    BY <1>a, <2>1 DEF Enter, Goto, TypeInv, TypeOK, Places
  <2>2. CASE m.org # NoOrg
    BY <1>a, <2>2 DEF Enter, Goto, TypeInv, TypeOK, Places
  <2>. QED
    BY <2>1, <2>2
<1>2. ASSUME NEW r \in Requests, NEW u \in Users, NEW f \in BOOLEAN, Authenticate(r, u, f)
      PROVE  TypeInv'
  <2>1. users[u] \in Member
    BY DEF TypeInv, TypeOK
  <2>2. flex' \in [Requests -> BOOLEAN]
    BY <1>2 DEF Authenticate, JwtRequest, TypeInv, TypeOK
  <2>3. /\ pc' \in [Requests -> Places] /\ act' \in [Requests -> Member]
        /\ \A s \in Requests \ {r} : pc'[s] = pc[s]
        /\ \/ pc'[r] = "upsert"
           \/ u \in known /\ pc'[r] \in {"provision", "handle"}
    BY <1>a, <1>2, <2>1 DEF Authenticate, Goto, TypeInv, TypeOK, Places
  <2>4. TypeOK'
    BY <1>2, <2>1, <2>2, <2>3 DEF Authenticate, JwtRequest, TypeInv, TypeOK
  <2>. QED
    BY <1>2, <2>3, <2>4 DEF Authenticate, JwtRequest, TypeInv, TypeOK, Held, OwnersKnown
<1>3. ASSUME NEW r \in Requests, NEW u \in Users, GetUserFails(r, u)
      PROVE  TypeInv'
  BY <1>0, <1>3 DEF GetUserFails, JwtRequest, Goto, TypeInv, TypeOK, Held, OwnersKnown, Places
<1>4. ASSUME NEW r \in Requests, NEW t \in Tokens, AuthenticateToken(r, t)
      PROVE  TypeInv'
  <2>1. tokens[t].user \in known /\ tokens[t].role \in Roles
    BY <1>4 DEF AuthenticateToken, TypeInv, TypeOK, OwnersKnown, APIToken
  <2>2. TypeOK'
    BY <1>4, <2>1 DEF AuthenticateToken, Goto, TypeInv, TypeOK, Places, Member
  <2>. QED
    BY <1>4, <2>1, <2>2 DEF AuthenticateToken, Goto, TypeInv, TypeOK, Held, OwnersKnown
<1>5. ASSUME NEW r \in Requests, NEW c \in Codes, ClaimCLILoginCode(r, c)
      PROVE  TypeInv'
  <2>1. codes' = [codes EXCEPT ![c].state = "closed"] /\ TypeOK
    BY <1>5 DEF ClaimCLILoginCode, TypeInv
  <2>2. TypeOK'
    BY <1>5, <2>1, CodeClosed DEF ClaimCLILoginCode, Goto, TypeOK, Places
  <2>3. /\ pc'[r] = "exchange" /\ code'[r] = c /\ UNCHANGED <<who, arg, known>>
        /\ \A s \in Requests \ {r} : pc'[s] = pc[s] /\ code'[s] = code[s]
    BY <1>5, <2>1 DEF ClaimCLILoginCode, Goto, TypeOK
  <2>4. \A s \in Requests : Held(s)'
    <3>1. \A d \in Codes : codes'[d].state = IF d = c THEN "closed" ELSE codes[d].state
      BY <2>1, CodeClosed
    <3>2. Held(r)'
      BY <2>3, <3>1 DEF Held
    <3>3. ASSUME NEW s \in Requests \ {r} PROVE Held(s)'
      BY <2>3, <3>1 DEF TypeInv, Held
    <3>. QED
      BY <3>2, <3>3
  <2>5. OwnersKnown'
    BY <1>5, <2>1, CodeClosed DEF ClaimCLILoginCode, TypeInv, OwnersKnown
  <2>. QED
    BY <2>2, <2>4, <2>5 DEF TypeInv
<1>6. ASSUME NEW r \in Requests, UpsertUser(r) PROVE TypeInv'
  <2>1. who[r] \in Users /\ row[r] \in Member
    BY <1>6 DEF UpsertUser, TypeInv, TypeOK, Held
  <2>2. Upserted(who[r], row[r]) \in Member
    BY <2>1 DEF Upserted, TypeInv, TypeOK, Member
  <2>3. /\ pc' \in [Requests -> Places] /\ act' \in [Requests -> Member]
        /\ \A s \in Requests \ {r} : pc'[s] = pc[s]
        /\ pc'[r] \in {"provision", "handle"}
    BY <1>a, <1>6, <2>2 DEF UpsertUser
  <2>4. TypeOK'
    BY <1>6, <2>1, <2>2, <2>3 DEF UpsertUser, TypeInv, TypeOK
  <2>. QED
    BY <1>6, <2>3, <2>4 DEF UpsertUser, TypeInv, TypeOK, Held, OwnersKnown
<1>7. ASSUME NEW r \in Requests, CreateOrganization(r) PROVE TypeInv'
  BY <1>7 DEF CreateOrganization, Goto, TypeInv, TypeOK, Held, OwnersKnown, Places
<1>8. ASSUME NEW r \in Requests, Assign(r) PROVE TypeInv'
  BY <1>0, <1>8 DEF Assign, UpdateUserOrg, Goto, TypeInv, TypeOK, Held, OwnersKnown, Places,
     Member
<1>9. ASSUME NEW r \in Requests, ProvisionFails(r) PROVE TypeInv'
  BY <1>9 DEF ProvisionFails, Goto, TypeInv, TypeOK, Held, OwnersKnown, Places
<1>10. ASSUME NEW r \in Requests, GetTokenUser(r) PROVE TypeInv'
  BY <1>10 DEF GetTokenUser, LowerRole, Goto, TypeInv, TypeOK, Held, OwnersKnown, Places, Member
<1>11. ASSUME NEW r \in Requests, Refuse(r) \/ WrongVerifier(r) \/ Fail(r) PROVE TypeInv'
  BY <1>11, AnswerType DEF Refuse, WrongVerifier, Fail, TypeInv, TypeOK, OwnersKnown
<1>12. ASSUME NEW r \in Requests, CreateOrg(r) PROVE TypeInv'
  BY <1>12 DEF CreateOrg, Goto, TypeInv, TypeOK, Held, OwnersKnown, Places
<1>13. ASSUME NEW r \in Requests, AssignNew(r) PROVE TypeInv'
  BY <1>0, <1>13, AnswerType DEF AssignNew, UpdateUserOrg, TypeInv, TypeOK, OwnersKnown, Member
<1>14. ASSUME NEW r \in Requests, InviteMember(r) PROVE TypeInv'
  BY <1>14, AnswerType DEF InviteMember, TypeInv, TypeOK, OwnersKnown, Member, Invitation
<1>16. ASSUME NEW r \in Requests, RevokeInvitation(r) PROVE TypeInv'
  <2>1. invites' \in [Invites -> Invitation]
    BY <1>16, InvitationClosed DEF RevokeInvitation, TypeInv
  <2>2. Answer(r) /\ UNCHANGED <<known, users, founder, codes, tokens, joined>>
    BY <1>16 DEF RevokeInvitation
  <2>. QED
    BY <2>1, <2>2, AnswerType DEF TypeInv, TypeOK, OwnersKnown
<1>17. ASSUME NEW i \in Invites, InvitationExpires(i) PROVE TypeInv'
  BY <1>17, InvitationClosed DEF InvitationExpires, TypeInv, TypeOK, Held, OwnersKnown
<1>18. ASSUME NEW r \in Requests, GetInvitationByToken(r) PROVE TypeInv'
  BY <1>18 DEF GetInvitationByToken, Goto, TypeInv, TypeOK, Held, OwnersKnown, Places
<1>19. ASSUME NEW r \in Requests, Join(r) PROVE TypeInv'
  BY <1>19 DEF Join, UpdateUserOrg, Goto, TypeInv, TypeOK, Held, OwnersKnown, Places,
     Member, Invitation
<1>20. ASSUME NEW r \in Requests, AcceptInvitation(r) PROVE TypeInv'
  <2>1. arg[r] \in Invites
    BY <1>20 DEF AcceptInvitation, TypeInv, Held
  <2>2. invites' \in [Invites -> Invitation]
    BY <1>20, <2>1, InvitationClosed DEF AcceptInvitation, TypeInv
  <2>3. Answer(r) /\ UNCHANGED <<known, users, founder, codes, tokens, joined>>
    BY <1>20 DEF AcceptInvitation
  <2>. QED
    BY <2>2, <2>3, AnswerType DEF TypeInv, TypeOK, OwnersKnown
<1>21. ASSUME NEW r \in Requests, CLIAuthorize(r) PROVE TypeInv'
  <2>1. who[r] \in known /\ act[r].role \in Roles
    BY <1>21 DEF CLIAuthorize, TypeInv, TypeOK, Held, Member
  <2>2. PICK c \in Codes :
           /\ codes[c].state = "none"
           /\ codes' = [codes EXCEPT ![c] = [state |-> "open", user |-> who[r],
                                             role |-> act[r].role]]
    BY <1>21 DEF CLIAuthorize
  <2>3. /\ codes' \in [Codes -> LoginCode]
        /\ \A d \in Codes : codes[d].state = "closed" => codes'[d] = codes[d]
        /\ \A d \in Codes : codes'[d].state # "none" => codes'[d].user \in known
    BY <2>1, <2>2 DEF TypeInv, TypeOK, OwnersKnown, LoginCode
  <2>. QED
    BY <1>21, <2>3, AnswerType DEF CLIAuthorize, TypeInv, TypeOK, OwnersKnown
<1>22. ASSUME NEW c \in Codes, CodeExpires(c) PROVE TypeInv'
  <2>1. codes' = [codes EXCEPT ![c].state = "closed"] /\ TypeOK
    BY <1>22 DEF CodeExpires, TypeInv
  <2>2. TypeOK'
    BY <1>22, <2>1, CodeClosed DEF CodeExpires, TypeOK
  <2>3. \A s \in Requests : Held(s)'
    BY <1>22, <2>1, CodeClosed DEF CodeExpires, TypeInv, Held
  <2>4. OwnersKnown'
    BY <1>22, <2>1, CodeClosed DEF CodeExpires, TypeInv, OwnersKnown
  <2>. QED
    BY <2>2, <2>3, <2>4 DEF TypeInv
<1>23. ASSUME NEW u \in known, NEW role \in Roles, NEW c \in Codes \cup {NoCode},
              CreateAPIToken(u, role, c), UNCHANGED <<known, codes>>
       PROVE  /\ tokens' \in [Tokens -> APIToken]
              /\ OwnersKnown'
  BY <1>23 DEF CreateAPIToken, TypeInv, TypeOK, OwnersKnown, APIToken
<1>24. ASSUME NEW r \in Requests, Exchange(r) PROVE TypeInv'
  <2>1. code[r] \in Codes /\ codes[code[r]].user \in known /\ codes[code[r]].role \in Roles
    BY <1>24 DEF Exchange, TypeInv, TypeOK, Held, OwnersKnown, LoginCode
  <2>. QED
    BY <2>1, <1>23, <1>24, AnswerType DEF Exchange, TypeInv, TypeOK
<1>25. ASSUME NEW r \in Requests, Mint(r) PROVE TypeInv'
  <2>1. who[r] \in known /\ act[r].role \in Roles
    BY <1>25 DEF Mint, TypeInv, TypeOK, Held, Member
  <2>. QED
    BY <2>1, <1>23, <1>25, AnswerType DEF Mint, TypeInv, TypeOK
<1>26. ASSUME NEW r \in Requests, RevokeAPIToken(r) PROVE TypeInv'
  <2>1. who[r] \in known
    BY <1>26 DEF RevokeAPIToken, TypeInv, Held
  <2>2. PICK t \in Tokens :
           tokens[t].user = who[r] /\ tokens' = [tokens EXCEPT ![t].state = "revoked"]
    BY <1>26 DEF RevokeAPIToken
  <2>3. /\ tokens' \in [Tokens -> APIToken]
        /\ \A s \in Tokens : tokens'[s].state # "none" => tokens'[s].user \in known
    BY <2>1, <2>2, TokenRevoked DEF TypeInv, OwnersKnown
  <2>4. Answer(r) /\ UNCHANGED <<known, users, founder, invites, codes, joined>>
    BY <1>26 DEF RevokeAPIToken
  <2>. QED
    BY <2>3, <2>4, AnswerType DEF TypeInv, TypeOK, OwnersKnown
<1>. QED
  BY <1>1, <1>2, <1>3, <1>4, <1>5, <1>6, <1>7, <1>8, <1>9, <1>10, <1>11, <1>12, <1>13, <1>14,
     <1>16, <1>17, <1>18, <1>19, <1>20, <1>21, <1>22, <1>24, <1>25, <1>26
  DEF Next, Step, Arrive, Provision, Handle

\* Every variable keeps its type, and every request, login code and token its user.
THEOREM TypeCorrect == Spec => []TypeOK
<1>. QED
  BY TypeInit, TypeStep, PTL DEF Spec, TypeInv

-----------------------------------------------------------------------------
(* Login codes and tokens.                                                 *)

\* A code that is in use stays in use, for the same role; one that is spent stays so.
LEMMA CodesKept ==
  ASSUME TypeInv, [Next]_vars, NEW c \in Codes, codes[c].state # "none"
  PROVE  /\ codes'[c].state # "none" /\ codes'[c].role = codes[c].role
         /\ codes[c].state = "closed" => codes'[c].state = "closed"
<1>1. CASE UNCHANGED codes
  BY <1>1
<1>2. CASE \E r \in Requests : CLIAuthorize(r)
  BY <1>2 DEF CLIAuthorize, TypeInv, TypeOK
<1>3. ASSUME NEW d \in Codes, codes' = [codes EXCEPT ![d].state = "closed"]
      PROVE  codes'[c].state # "none" /\ codes'[c].role = codes[c].role
             /\ (codes[c].state = "closed" => codes'[c].state = "closed")
  BY <1>3, CodeClosed DEF TypeInv
<1>4. CASE \/ \E r \in Requests, d \in Codes : ClaimCLILoginCode(r, d)
           \/ \E d \in Codes : CodeExpires(d)
  BY <1>3, <1>4 DEF ClaimCLILoginCode, CodeExpires
<1>5. \/ UNCHANGED codes \/ \E r \in Requests : CLIAuthorize(r)
      \/ \E r \in Requests, d \in Codes : ClaimCLILoginCode(r, d)
      \/ \E d \in Codes : CodeExpires(d)
  BY DEF Next, Step, Arrive, vars, Authenticate, GetUserFails, JwtRequest, AuthenticateToken,
     Provision, UpsertUser, CreateOrganization, Assign, ProvisionFails, GetTokenUser, Handle,
     Refuse,
     CreateOrg, AssignNew, InviteMember, RevokeInvitation, GetInvitationByToken, Join,
     AcceptInvitation, WrongVerifier, Exchange, Mint, RevokeAPIToken, Fail, InvitationExpires
<1>. QED
  BY <1>1, <1>2, <1>4, <1>5

\* A token that exists goes on existing with its role and the code it was made for.
LEMMA TokensKept ==
  ASSUME TypeInv, [Next]_vars, NEW t \in Tokens, tokens[t].state # "none"
  PROVE  /\ tokens'[t].state # "none"
         /\ tokens'[t].role = tokens[t].role /\ tokens'[t].code = tokens[t].code
<1>1. CASE UNCHANGED tokens
  BY <1>1
<1>2. ASSUME NEW u, NEW role, NEW c, CreateAPIToken(u, role, c)
      PROVE  tokens'[t] = tokens[t]
  BY <1>2 DEF CreateAPIToken, TypeInv, TypeOK
<1>3. CASE \E r \in Requests : Mint(r) \/ Exchange(r)
  BY <1>2, <1>3 DEF Mint, Exchange
<1>4. ASSUME NEW v \in Tokens, tokens' = [tokens EXCEPT ![v].state = "revoked"]
      PROVE  tokens'[t].state # "none" /\ tokens'[t].role = tokens[t].role
             /\ tokens'[t].code = tokens[t].code
  BY <1>4, TokenRevoked DEF TypeInv
<1>5. CASE \E r \in Requests : RevokeAPIToken(r)
  BY <1>4, <1>5 DEF RevokeAPIToken
<1>6. UNCHANGED tokens \/ \E r \in Requests : Mint(r) \/ Exchange(r) \/ RevokeAPIToken(r)
  BY DEF Next, Step, Arrive, vars, Authenticate, GetUserFails, JwtRequest, AuthenticateToken,
     Provision, UpsertUser, CreateOrganization, Assign, ProvisionFails, GetTokenUser, Handle,
     Refuse,
     CreateOrg, AssignNew, InviteMember, RevokeInvitation, GetInvitationByToken, Join,
     AcceptInvitation, CLIAuthorize, WrongVerifier, Fail, ClaimCLILoginCode,
     InvitationExpires, CodeExpires
<1>. QED
  BY <1>1, <1>3, <1>5, <1>6

\* A token from a login carries the approved role, and its code is spent.
TokensOfCodes ==
    \A t \in Tokens : tokens[t].code # NoCode =>
       /\ tokens[t].state # "none" /\ codes[tokens[t].code].state = "closed"
       /\ tokens[t].role = codes[tokens[t].code].role

CodeInv == TypeInv /\ TokensOfCodes /\ CodeMintsOnce

\* But for the claim of a code no request gets to the exchange.
LEMMA NoNewExchange ==
  ASSUME TypeInv, [Next]_vars,
         \A r \in Requests, c \in Codes : ~ClaimCLILoginCode(r, c),
         NEW s \in Requests, pc'[s] = "exchange"
  PROVE  pc[s] = "exchange" /\ code'[s] = code[s]
<1>1. CASE \/ UNCHANGED vars
           \/ \E i \in Invites : InvitationExpires(i)
           \/ \E c \in Codes : CodeExpires(c)
  BY <1>1 DEF vars, requestVars, InvitationExpires, CodeExpires
<1>2. ASSUME NEW r \in Requests, Answer(r) PROVE pc[s] = "exchange" /\ code'[s] = code[s]
  BY <1>2 DEF Answer, Goto, TypeInv, TypeOK
<1>3. CASE \E r \in Requests : Answer(r)
  BY <1>2, <1>3
<1>4. ASSUME NEW r \in Requests, NEW place, place # "exchange", Goto(r, place),
             UNCHANGED code
      PROVE  pc[s] = "exchange" /\ code'[s] = code[s]
  BY <1>4 DEF Goto, TypeInv, TypeOK
<1>5. CASE \E r \in Requests : \E u \in Users, f \in BOOLEAN : Authenticate(r, u, f)
  BY <1>4, <1>5 DEF Authenticate, JwtRequest, Enter
<1>6. CASE \E r \in Requests : UpsertUser(r) \/ CreateOrganization(r)
  BY <1>4, <1>6 DEF UpsertUser, Enter, CreateOrganization
<1>7. CASE \E r \in Requests :
              \/ \E u \in Users : GetUserFails(r, u)
              \/ \E t \in Tokens : AuthenticateToken(r, t)
              \/ Assign(r) \/ ProvisionFails(r) \/ GetTokenUser(r)
              \/ CreateOrg(r) \/ GetInvitationByToken(r) \/ Join(r)
  BY <1>4, <1>7 DEF GetUserFails, JwtRequest, AuthenticateToken, Assign, ProvisionFails,
     GetTokenUser, CreateOrg, GetInvitationByToken, Join
<1>8. CASE \E r \in Requests :
              \/ Refuse(r) \/ AssignNew(r) \/ InviteMember(r) \/ RevokeInvitation(r)
              \/ AcceptInvitation(r) \/ CLIAuthorize(r) \/ WrongVerifier(r) \/ Exchange(r)
              \/ Mint(r) \/ RevokeAPIToken(r) \/ Fail(r)
  <2>. \E r \in Requests : Answer(r)
    BY <1>8 DEF Refuse, AssignNew, InviteMember, RevokeInvitation, AcceptInvitation,
       CLIAuthorize, WrongVerifier, Exchange, Mint, RevokeAPIToken, Fail
  <2>. QED
    BY <1>3
<1>. QED
  BY <1>1, <1>5, <1>6, <1>7, <1>8, Zenon DEF Next, Step, Arrive, Provision, Handle

LEMMA CodeStep == CodeInv /\ [Next]_vars => CodeInv'
<1> SUFFICES ASSUME CodeInv, [Next]_vars PROVE CodeInv'
    OBVIOUS
<1> USE AccountsAssumption
<1>0. TypeInv /\ TypeInv'
  BY TypeStep DEF CodeInv
<1>a. /\ \A t \in Tokens : tokens[t].code \in Codes \cup {NoCode}
      /\ \A r \in Requests : code[r] \in Codes \cup {NoCode}
  BY <1>0 DEF TypeInv, TypeOK, APIToken
<1>1. ASSUME NEW r \in Requests, NEW c \in Codes, ClaimCLILoginCode(r, c) PROVE CodeInv'
  <2>1. /\ codes[c].state = "open" /\ UNCHANGED tokens
        /\ pc'[r] = "exchange" /\ code'[r] = c
        /\ \A s \in Requests \ {r} : pc'[s] = pc[s] /\ code'[s] = code[s]
    BY <1>0, <1>1 DEF ClaimCLILoginCode, Goto, TypeInv, TypeOK
  <2>2. \A t \in Tokens : tokens[t].code # c
    BY <2>1, AccountsAssumption DEF CodeInv, TokensOfCodes
  <2>3. \A s \in Requests : pc[s] = "exchange" => code[s] # c
    BY <1>0, <2>1 DEF TypeInv, Held
  <2>4. TokensOfCodes'
    BY <1>0, <1>a, <2>1, CodesKept DEF CodeInv, TokensOfCodes
  <2>. QED
    BY <1>0, <2>1, <2>2, <2>3, <2>4 DEF CodeInv, CodeMintsOnce
<1>2. ASSUME \A r \in Requests, c \in Codes : ~ClaimCLILoginCode(r, c),
             \A t \in Tokens : tokens'[t].code # NoCode =>
                tokens[t].state # "none" /\ tokens'[t].code = tokens[t].code
                /\ tokens'[t].role = tokens[t].role
      PROVE  CodeInv'
  <2>1. \A s \in Requests : pc'[s] = "exchange" => pc[s] = "exchange" /\ code'[s] = code[s]
    BY <1>0, <1>2, NoNewExchange
  <2>2. TokensOfCodes'
    BY <1>0, <1>a, <1>2, CodesKept, TokensKept DEF CodeInv, TokensOfCodes
  <2>3. \A r \in Requests : pc'[r] = "exchange" => code'[r] # NoCode
    BY <1>0, AccountsAssumption DEF TypeInv, Held
  <2>. QED
    BY <1>0, <1>2, <2>1, <2>2, <2>3 DEF CodeInv, CodeMintsOnce
<1>3. ASSUME NEW r \in Requests, Exchange(r) PROVE CodeInv'
  <2>1. /\ pc[r] = "exchange" /\ code[r] \in Codes /\ codes[code[r]].state = "closed"
        /\ UNCHANGED codes
    BY <1>0, <1>3 DEF Exchange, TypeInv, Held
  <2>2. PICK t \in Tokens :
           /\ tokens[t].state = "none"
           /\ tokens' = [tokens EXCEPT ![t] = [state |-> "live", user |-> codes[code[r]].user,
                             role |-> codes[code[r]].role, code |-> code[r]]]
    BY <1>3 DEF Exchange, CreateAPIToken
  <2>3. /\ tokens'[t].state = "live" /\ tokens'[t].code = code[r]
        /\ tokens'[t].role = codes[code[r]].role
        /\ \A s \in Tokens \ {t} : tokens'[s] = tokens[s]
    BY <1>0, <2>2 DEF TypeInv, TypeOK
  <2>4. /\ pc'[r] # "exchange"
        /\ \A s \in Requests \ {r} : pc'[s] = pc[s] /\ code'[s] = code[s]
    BY <1>0, <1>3 DEF Exchange, Answer, Goto, TypeInv, TypeOK
  <2>5. TokensOfCodes'
    BY <2>1, <2>3 DEF CodeInv, TokensOfCodes
  <2>6. \A s \in Requests \ {r} : pc[s] = "exchange" => code[s] # code[r]
    BY <2>1 DEF CodeInv, CodeMintsOnce
  <2>7. \A s \in Tokens : tokens[s].code # code[r]
    BY <2>1 DEF CodeInv, CodeMintsOnce
  <2>. QED
    BY <1>0, <2>3, <2>4, <2>5, <2>6, <2>7 DEF CodeInv, CodeMintsOnce
<1>4. ASSUME NEW r \in Requests, Mint(r) PROVE CodeInv'
  <2>1. \A q \in Requests, c \in Codes : ~ClaimCLILoginCode(q, c)
    BY <1>4 DEF Mint, ClaimCLILoginCode, Answer, Goto, TypeInv, TypeOK, CodeInv
  <2>2. \A t \in Tokens : tokens'[t].code # NoCode => tokens'[t] = tokens[t]
    BY <1>0, <1>4 DEF Mint, CreateAPIToken, TypeInv, TypeOK
  <2>. QED
    BY <1>2, <2>1, <2>2 DEF CodeInv, TokensOfCodes
<1>5. CASE /\ \A r \in Requests, c \in Codes : ~ClaimCLILoginCode(r, c)
           /\ \A r \in Requests : ~Exchange(r) /\ ~Mint(r)
  <2>1. UNCHANGED tokens \/ \E r \in Requests : RevokeAPIToken(r)
    BY <1>5 DEF Next, Step, Arrive, vars, Authenticate, GetUserFails, JwtRequest,
       AuthenticateToken,
       Provision, UpsertUser, CreateOrganization, Assign, ProvisionFails, GetTokenUser,
       Handle, Refuse, CreateOrg, AssignNew, InviteMember, RevokeInvitation,
       GetInvitationByToken, Join, AcceptInvitation, CLIAuthorize, WrongVerifier, Fail,
       InvitationExpires, CodeExpires
  <2>2. \A t \in Tokens :
           tokens'[t].code = tokens[t].code /\ tokens'[t].role = tokens[t].role
    BY <1>0, <2>1, TokenRevoked DEF RevokeAPIToken, TypeInv
  <2>. QED
    BY <1>2, <1>5, <2>2 DEF CodeInv, TokensOfCodes
<1>. QED
  BY <1>1, <1>3, <1>4, <1>5

\* A login code makes at most one token, however many exchanges race for it.
THEOREM CodesAreSingleUse == Spec => []CodeMintsOnce
<1>1. Init => CodeInv
  <2> SUFFICES ASSUME Init PROVE CodeInv
      OBVIOUS
  <2>. QED
    BY TypeInit DEF Init, CodeInv, TokensOfCodes, CodeMintsOnce
<1>. QED
  BY <1>1, CodeStep, PTL DEF Spec, CodeInv

-----------------------------------------------------------------------------
(* What a request with a token acts as.                                    *)

\* All a request holds, but for its login code.
LocalsKept(s) ==
    /\ pc'[s] = pc[s] /\ who'[s] = who[s] /\ flex'[s] = flex[s] /\ via'[s] = via[s]
    /\ row'[s] = row[s] /\ act'[s] = act[s] /\ arg'[s] = arg[s] /\ made'[s] = made[s]

\* A request leaves what the others hold alone.
LEMMA OthersKept ==
  ASSUME TypeInv, NEW r \in Requests, Step(r), NEW s \in Requests \ {r}
  PROVE  LocalsKept(s)
<1> USE DEF TypeInv, TypeOK, LocalsKept
<1>1. ASSUME Answer(r) PROVE LocalsKept(s)
  BY <1>1 DEF Answer, Goto
<1>2. ASSUME NEW place, Goto(r, place) PROVE pc'[s] = pc[s]
  BY <1>2 DEF Goto
<1>3. ASSUME NEW m, Enter(r, m) PROVE pc'[s] = pc[s] /\ act'[s] = act[s]
  BY <1>3 DEF Enter, Goto
<1>4. CASE Arrive(r)
  BY <1>2, <1>3, <1>4 DEF Arrive, Authenticate, GetUserFails, JwtRequest, AuthenticateToken,
     ClaimCLILoginCode
<1>5. CASE Provision(r) \/ GetTokenUser(r)
  BY <1>2, <1>3, <1>5 DEF Provision, UpsertUser, CreateOrganization, Assign, ProvisionFails,
     GetTokenUser
<1>6. CASE CreateOrg(r) \/ GetInvitationByToken(r) \/ Join(r)
  BY <1>2, <1>6 DEF CreateOrg, GetInvitationByToken, Join
<1>7. CASE Handle(r) \/ Fail(r)
  BY <1>1, <1>6, <1>7 DEF Handle, Refuse, AssignNew, InviteMember, RevokeInvitation,
     AcceptInvitation, CLIAuthorize, WrongVerifier, Exchange, Mint, RevokeAPIToken, Fail
<1>. QED
  BY <1>4, <1>5, <1>7 DEF Step

\* A request that presents a token has at most the token's role.
TokenBounds(r) ==
    via[r] # NoToken =>
       /\ pc[r] \in {"getTokenUser", "handle"} /\ flex[r]
       /\ tokens[via[r]].state # "none"
       /\ pc[r] = "getTokenUser" => row[r].role <= tokens[via[r]].role
       /\ pc[r] = "handle" => act[r].role <= tokens[via[r]].role

TokenInv == CodeInv /\ \A r \in Requests : TokenBounds(r)

LEMMA TokenStep == TokenInv /\ [Next]_vars => TokenInv'
<1> SUFFICES ASSUME TokenInv, [Next]_vars, NEW s \in Requests PROVE TokenBounds(s)'
    BY CodeStep DEF TokenInv
<1>0. TypeInv /\ TypeInv' /\ TokenBounds(s)
  BY TypeStep DEF TokenInv, CodeInv
<1>1. ASSUME LocalsKept(s) PROVE TokenBounds(s)'
  <2>1. via[s] # NoToken => via[s] \in Tokens
    BY <1>0 DEF TypeInv, TypeOK
  <2>. QED
    BY <1>0, <1>1, <2>1, TokensKept DEF LocalsKept, TokenBounds
<1>2. CASE UNCHANGED requestVars
  BY <1>1, <1>2 DEF requestVars, LocalsKept
<1>3. ASSUME NEW r \in Requests, Step(r), r # s PROVE TokenBounds(s)'
  BY <1>0, <1>1, <1>3, OthersKept
<1>4. ASSUME via'[s] = NoToken PROVE TokenBounds(s)'
  BY <1>4 DEF TokenBounds
<1>5. CASE \E u \in Users : GetUserFails(s, u) \/ \E f \in BOOLEAN : Authenticate(s, u, f)
  BY <1>0, <1>4, <1>5 DEF GetUserFails, Authenticate, JwtRequest, TokenBounds
<1>6. CASE \E c \in Codes : ClaimCLILoginCode(s, c)
  BY <1>0, <1>4, <1>6 DEF ClaimCLILoginCode, TokenBounds
<1>7. ASSUME NEW t \in Tokens, AuthenticateToken(s, t) PROVE TokenBounds(s)'
  <2>1. /\ via'[s] = t /\ pc'[s] = "getTokenUser" /\ UNCHANGED tokens
        /\ tokens[t].state = "live" /\ row'[s].role = tokens[t].role
    BY <1>0, <1>7 DEF AuthenticateToken, Goto, TypeInv, TypeOK
  <2>3. flex'[s]
    <3>1. flex' = [flex EXCEPT ![s] = TRUE] /\ flex \in [Requests -> BOOLEAN]
      BY <1>0, <1>7 DEF AuthenticateToken, TypeInv, TypeOK
    <3>. QED
      BY <3>1, Zenon
  <2>2. tokens[t].role <= tokens[t].role
    <3>1. tokens[t].role \in Roles
      BY <1>0 DEF TypeInv, TypeOK, APIToken
    <3>. QED
      BY <3>1 DEF Roles, Reader, Owner
  <2>. QED
    BY <2>1, <2>2, <2>3 DEF TokenBounds
<1>8. CASE GetTokenUser(s)
  <2>1. /\ pc[s] = "getTokenUser" /\ pc'[s] = "handle"
        /\ UNCHANGED <<via, flex, tokens>>
        /\ act'[s].role = LowerRole(row[s].role, users[who[s]].role)
    BY <1>0, <1>8 DEF GetTokenUser, Goto, TypeInv, TypeOK
  <2>2. /\ who[s] \in Users /\ users[who[s]].role \in Roles /\ row[s].role \in Roles
        /\ via[s] # NoToken => tokens[via[s]].role \in Roles
    BY <1>0, <2>1 DEF TypeInv, TypeOK, Held, Member, APIToken
  <2>3. via[s] # NoToken => row[s].role <= tokens[via[s]].role
    BY <1>0, <2>1 DEF TokenBounds
  <2>4. LowerRole(row[s].role, users[who[s]].role) <= row[s].role
    BY <2>2 DEF LowerRole, Roles, Reader, Owner
  <2>5. via[s] # NoToken =>
           LowerRole(row[s].role, users[who[s]].role) <= tokens[via[s]].role
    BY <2>2, <2>3, <2>4 DEF LowerRole, Roles, Reader, Owner
  <2>. QED
    BY <1>0, <2>1, <2>5 DEF TokenBounds
<1>9. CASE Provision(s)
  BY <1>0, <1>4, <1>9 DEF Provision, UpsertUser, CreateOrganization, Assign, ProvisionFails,
     TokenBounds
<1>10. CASE CreateOrg(s) \/ GetInvitationByToken(s) \/ Join(s)
  BY <1>0, <1>4, <1>10 DEF CreateOrg, GetInvitationByToken, Join, TokenBounds
<1>11. ASSUME Answer(s) PROVE TokenBounds(s)'
  BY <1>0, <1>4, <1>11 DEF Answer, TypeInv, TypeOK
<1>12. CASE Handle(s) \/ Fail(s)
  BY <1>10, <1>11, <1>12 DEF Handle, Refuse, AssignNew, InviteMember, RevokeInvitation,
     AcceptInvitation, CLIAuthorize, WrongVerifier, Exchange, Mint, RevokeAPIToken, Fail
<1>13. CASE Step(s)
  BY <1>5, <1>6, <1>7, <1>8, <1>9, <1>12, <1>13 DEF Step, Arrive
<1>14. \/ UNCHANGED requestVars \/ \E r \in Requests : Step(r)
  BY DEF Next, vars, InvitationExpires, CodeExpires
<1>. QED
  BY <1>2, <1>3, <1>13, <1>14

\* A token from a CLI login never acts with more than the role that was approved.
THEOREM ApprovalBounds == Spec => []TokenWithinApproval
<1>1. Init => TokenInv
  <2> SUFFICES ASSUME Init PROVE TokenInv
      OBVIOUS
  <2>1. CodeInv
    BY TypeInit DEF Init, CodeInv, TokensOfCodes, CodeMintsOnce
  <2>. QED
    BY <2>1 DEF Init, TokenInv, TokenBounds
<1>2. TokenInv => TokenWithinApproval
  <2> SUFFICES ASSUME TokenInv, NEW r \in Requests, pc[r] = "handle", via[r] # NoToken,
                      tokens[via[r]].code # NoCode
               PROVE  act[r].role <= codes[tokens[via[r]].code].role
      BY DEF TokenWithinApproval
  <2>1. via[r] \in Tokens
    BY DEF TokenInv, CodeInv, TypeInv, TypeOK
  <2>. QED
    BY <2>1 DEF TokenInv, TokenBounds, CodeInv, TokensOfCodes
<1>. QED
  BY <1>1, <1>2, TokenStep, PTL DEF Spec

-----------------------------------------------------------------------------
(* Memberships.                                                            *)

\* The rows: a user without one is in no organization; an invitation that was accepted
\* has been made, for an organization.
RowsInv ==
    /\ \A u \in Users : u \notin known => users[u].org = NoOrg
    /\ \A i \in Invites : invites[i].state # "none" => invites[i].org # NoOrg
    /\ \A u \in Users, i \in Invites : <<u, i>> \in joined => invites[i].state # "none"
    /\ RoleWasGranted

\* What a request is about to write, or acts as, was granted to its user.
GrantHeld(r) ==
    /\ pc[r] = "upsert" /\ row[r].org # NoOrg =>
          Granted(who[r], row[r].org, row[r].role) /\ users[who[r]].org # NoOrg
    /\ pc[r] \in {"provision", "assign"} => row[r].org = NoOrg
    /\ pc[r] \in {"assign", "newAssign"} => made[r] \in Orgs /\ founder[made[r]] = who[r]
    /\ pc[r] \in {"join", "mark"} => <<who[r], arg[r]>> \in joined
    /\ pc[r] = "handle" /\ act[r].org # NoOrg =>
          \E role \in Roles : role >= act[r].role /\ Granted(who[r], act[r].org, role)

GrantInv == TypeInv /\ RowsInv /\ \A r \in Requests : GrantHeld(r)

\* What happens to organizations, invitations and acceptances in a step.
LEMMA GrantEffects ==
  ASSUME GrantInv, [Next]_vars
  PROVE  /\ \A o \in Orgs : founder[o] # NoUser => founder'[o] = founder[o]
         /\ joined \subseteq joined'
         /\ \A i \in Invites : invites[i].state # "none" =>
               /\ invites'[i].state # "none"
               /\ invites'[i].org = invites[i].org /\ invites'[i].role = invites[i].role
<1> DEFINE InvitesKept ==
             \A i \in Invites : invites[i].state # "none" =>
                /\ invites'[i].state # "none"
                /\ invites'[i].org = invites[i].org /\ invites'[i].role = invites[i].role
<1>1. ASSUME NEW r \in Requests, CreateOrganization(r)
      PROVE  \A o \in Orgs : founder[o] # NoUser => founder'[o] = founder[o]
  BY <1>1 DEF CreateOrganization, GrantInv, TypeInv, TypeOK
<1>2. ASSUME NEW r \in Requests, InviteMember(r) PROVE InvitesKept
  BY <1>2 DEF InviteMember, GrantInv, TypeInv, TypeOK
<1>3. ASSUME NEW j \in Invites, Close(j) PROVE InvitesKept
  BY <1>3, InvitationClosed DEF GrantInv, RowsInv, TypeInv
<1>4. ASSUME NEW r \in Requests, AcceptInvitation(r) PROVE InvitesKept
  BY <1>3, <1>4 DEF AcceptInvitation, GrantInv, TypeInv, Held
<1>5. ASSUME UNCHANGED invites PROVE InvitesKept
  BY <1>5
<1>6. UNCHANGED invites \/ (\E j \in Invites : Close(j))
      \/ \E r \in Requests : InviteMember(r) \/ AcceptInvitation(r)
  BY DEF Next, Step, Arrive, vars, Authenticate, GetUserFails, JwtRequest,
     AuthenticateToken, ClaimCLILoginCode, Provision, UpsertUser, CreateOrganization, Assign,
     ProvisionFails, GetTokenUser, Handle, Refuse, CreateOrg, AssignNew, RevokeInvitation,
     GetInvitationByToken, Join, CLIAuthorize, WrongVerifier, Exchange, Mint,
     RevokeAPIToken, Fail, InvitationExpires, CodeExpires
<1>7. InvitesKept
  BY <1>2, <1>3, <1>4, <1>5, <1>6
<1>8. UNCHANGED founder \/ \E r \in Requests : CreateOrganization(r)
  BY DEF Next, Step, Arrive, vars, Authenticate, GetUserFails, JwtRequest,
     AuthenticateToken, ClaimCLILoginCode, Provision, UpsertUser, Assign,
     ProvisionFails, GetTokenUser, Handle, Refuse, CreateOrg, AssignNew, InviteMember,
     RevokeInvitation, GetInvitationByToken, Join, AcceptInvitation, CLIAuthorize,
     WrongVerifier, Exchange, Mint, RevokeAPIToken, Fail, InvitationExpires, CodeExpires
<1>9. joined \subseteq joined'
  BY DEF Next, Step, Arrive, vars, Authenticate, GetUserFails, JwtRequest,
     AuthenticateToken, ClaimCLILoginCode, Provision, UpsertUser, CreateOrganization, Assign,
     ProvisionFails, GetTokenUser, Handle, Refuse, CreateOrg, AssignNew, InviteMember,
     RevokeInvitation, GetInvitationByToken, Join, AcceptInvitation, CLIAuthorize,
     WrongVerifier, Exchange, Mint, RevokeAPIToken, Fail, InvitationExpires, CodeExpires
<1>. QED
  BY <1>1, <1>7, <1>8, <1>9

\* Granted, in the next state.
GrantedNext(u, o, role) ==
    \/ founder'[o] = u /\ role = Owner
    \/ \E i \in Invites :
          <<u, i>> \in joined' /\ invites'[i].org = o /\ invites'[i].role = role

\* What was granted stays granted.
LEMMA GrantKept ==
  ASSUME GrantInv, [Next]_vars, NEW u \in Users, NEW o \in Orgs, NEW role,
         Granted(u, o, role)
  PROVE  GrantedNext(u, o, role)
<1>1. CASE founder[o] = u /\ role = Owner
  BY <1>1, GrantEffects, AccountsAssumption DEF GrantedNext
<1>2. ASSUME NEW i \in Invites, <<u, i>> \in joined, invites[i].org = o,
             invites[i].role = role
      PROVE  GrantedNext(u, o, role)
  BY <1>2, GrantEffects DEF GrantedNext, GrantInv, RowsInv
<1>. QED
  BY <1>1, <1>2 DEF Granted

\* What Upserted returns was granted if what it is given was.
LEMMA UpsertedGranted ==
  ASSUME GrantInv, NEW r \in Requests, pc[r] = "upsert"
  PROVE  LET m == Upserted(who[r], row[r])
         IN  /\ m \in Member
             /\ m.org # NoOrg => Granted(who[r], m.org, m.role)
             /\ users[who[r]].org # NoOrg => m.org # NoOrg
<1>1. who[r] \in Users /\ row[r] \in Member /\ users[who[r]] \in Member
  BY DEF GrantInv, TypeInv, TypeOK, Held
<1>2. row[r].org # NoOrg =>
         Granted(who[r], row[r].org, row[r].role) /\ users[who[r]].org # NoOrg
  BY DEF GrantInv, GrantHeld
<1>3. users[who[r]].org # NoOrg =>
         who[r] \in known /\ Granted(who[r], users[who[r]].org, users[who[r]].role)
  BY <1>1 DEF GrantInv, RowsInv, RoleWasGranted
<1>4. CASE who[r] \notin known
  BY <1>1, <1>2, <1>3, <1>4 DEF Upserted
<1>5. CASE who[r] \in known
  BY <1>1, <1>2, <1>3, <1>5 DEF Upserted, Member
<1>. QED
  BY <1>4, <1>5

\* A user's row changes only to a membership that was granted, and never to none.
LEMMA UsersStep ==
  ASSUME GrantInv, [Next]_vars, NEW u \in Users
  PROVE  /\ users'[u].org # NoOrg => GrantedNext(u, users'[u].org, users'[u].role)
         /\ users[u].org # NoOrg => users'[u].org # NoOrg
         /\ u \notin known' => users'[u].org = NoOrg
<1> DEFINE Good == /\ users'[u].org # NoOrg => GrantedNext(u, users'[u].org, users'[u].role)
                   /\ users[u].org # NoOrg => users'[u].org # NoOrg
                   /\ u \notin known' => users'[u].org = NoOrg
<1> USE AccountsAssumption
<1>0. users'[u].org \in Orgs \cup {NoOrg}
  BY TypeStep DEF GrantInv, TypeInv, TypeOK, Member
<1>a. ASSUME users'[u].org # NoOrg => Granted(u, users'[u].org, users'[u].role)
      PROVE  users'[u].org # NoOrg => GrantedNext(u, users'[u].org, users'[u].role)
  BY <1>0, <1>a, GrantKept
<1>1. ASSUME users'[u] = users[u], known \subseteq known' PROVE Good
  <2>1. users'[u].org # NoOrg => Granted(u, users'[u].org, users'[u].role)
    BY <1>1 DEF GrantInv, RowsInv, RoleWasGranted
  <2>. QED
    BY <1>1, <1>a, <2>1 DEF GrantInv, RowsInv
<1>2. ASSUME NEW r \in Requests, UpsertUser(r) PROVE Good
  <2>1. users \in [Users -> Member] /\ pc[r] = "upsert" /\ known' = known \cup {who[r]}
    BY <1>2 DEF UpsertUser, GrantInv, TypeInv, TypeOK
  <2>2. CASE who[r] = u
    <3>1. users'[u] = Upserted(who[r], row[r])
      BY <1>2, <2>1, <2>2 DEF UpsertUser
    <3>. QED
      BY <1>a, <2>1, <2>2, <3>1, UpsertedGranted
  <2>3. CASE who[r] # u
    BY <1>1, <1>2, <2>1, <2>3 DEF UpsertUser
  <2>. QED
    BY <2>2, <2>3
<1>3. ASSUME NEW r \in Requests, NEW o, NEW role, UpdateUserOrg(who[r], o, role),
             o # NoOrg, Granted(who[r], o, role), who[r] \in known, UNCHANGED known
      PROVE  Good
  <2>1. users \in [Users -> Member] /\ who[r] \in Users
    BY <1>3 DEF GrantInv, TypeInv, TypeOK
  <2>2. CASE who[r] = u
    <3>1. users'[u].org = o /\ users'[u].role = role
      BY <1>3, <2>1, <2>2 DEF UpdateUserOrg
    <3>. QED
      BY <1>3, <1>a, <2>2, <3>1
  <2>3. CASE who[r] # u
    BY <1>1, <1>3, <2>1, <2>3 DEF UpdateUserOrg
  <2>. QED
    BY <2>2, <2>3
<1>4. ASSUME NEW r \in Requests, Assign(r) \/ AssignNew(r) PROVE Good
  <2>1. /\ made[r] \in Orgs /\ founder[made[r]] = who[r] /\ who[r] \in known
        /\ UpdateUserOrg(who[r], made[r], Owner) /\ UNCHANGED known
    BY <1>4 DEF Assign, AssignNew, GrantInv, GrantHeld, TypeInv, Held
  <2>2. Granted(who[r], made[r], Owner)
    BY <2>1 DEF Granted
  <2>. QED
    BY <1>3, <2>1, <2>2
<1>5. ASSUME NEW r \in Requests, Join(r) PROVE Good
  <2>1. /\ arg[r] \in Invites /\ <<who[r], arg[r]>> \in joined /\ who[r] \in known
        /\ UpdateUserOrg(who[r], invites[arg[r]].org, invites[arg[r]].role)
        /\ UNCHANGED known
    BY <1>5 DEF Join, GrantInv, GrantHeld, TypeInv, Held
  <2>2. Granted(who[r], invites[arg[r]].org, invites[arg[r]].role)
    BY <2>1 DEF Granted
  <2>3. invites[arg[r]].org # NoOrg
    <3>1. who[r] \in Users
      BY <2>1 DEF GrantInv, TypeInv, TypeOK
    <3>. QED
      BY <2>1, <3>1 DEF GrantInv, RowsInv
  <2>. QED
    BY <1>3, <2>1, <2>2, <2>3
<1>6. \/ UNCHANGED <<users, known>>
      \/ \E r \in Requests : UpsertUser(r) \/ Assign(r) \/ AssignNew(r) \/ Join(r)
  BY DEF Next, Step, Arrive, vars, Authenticate, GetUserFails, JwtRequest,
     AuthenticateToken, ClaimCLILoginCode, Provision, CreateOrganization,
     ProvisionFails, GetTokenUser, Handle, Refuse, CreateOrg, InviteMember, RevokeInvitation,
     GetInvitationByToken, AcceptInvitation, CLIAuthorize, WrongVerifier, Exchange, Mint,
     RevokeAPIToken, Fail, InvitationExpires, CodeExpires
<1>. QED
  BY <1>1, <1>2, <1>4, <1>5, <1>6

LEMMA RowsStep == GrantInv /\ [Next]_vars => RowsInv'
<1> SUFFICES ASSUME GrantInv, [Next]_vars PROVE RowsInv'
    OBVIOUS
<1> USE AccountsAssumption
<1>1. RoleWasGranted' /\ \A u \in Users : u \notin known' => users'[u].org = NoOrg
  BY UsersStep DEF RoleWasGranted, Granted, GrantedNext
<1>2. \A i \in Invites : invites'[i].state # "none" => invites'[i].org # NoOrg
  <2>1. ASSUME NEW r \in Requests, InviteMember(r)
        PROVE  \A i \in Invites : invites'[i].state # "none" => invites'[i].org # NoOrg
    BY <2>1 DEF InviteMember, HasOrg, GrantInv, RowsInv, TypeInv, TypeOK
  <2>2. ASSUME NEW j \in Invites, invites[j].org # NoOrg, Close(j)
        PROVE  \A i \in Invites : invites'[i].state # "none" => invites'[i].org # NoOrg
    BY <2>2, InvitationClosed DEF GrantInv, RowsInv, TypeInv
  <2>3. ASSUME NEW r \in Requests, AcceptInvitation(r)
        PROVE  arg[r] \in Invites /\ invites[arg[r]].org # NoOrg
    <3>1. who[r] \in Users /\ arg[r] \in Invites /\ <<who[r], arg[r]>> \in joined
      BY <2>3 DEF AcceptInvitation, GrantInv, GrantHeld, TypeInv, Held
    <3>. QED
      BY <3>1 DEF GrantInv, RowsInv
  <2>4. ASSUME NEW r \in Requests, RevokeInvitation(r)
        PROVE  \E i \in Invites : invites[i].org # NoOrg /\ Close(i)
    BY <2>4 DEF RevokeInvitation, HasOrg
  <2>5. ASSUME NEW i \in Invites, InvitationExpires(i)
        PROVE  invites[i].org # NoOrg /\ Close(i)
    BY <2>5 DEF InvitationExpires, GrantInv, RowsInv
  <2>6. \/ UNCHANGED invites \/ \E i \in Invites : InvitationExpires(i)
        \/ \E r \in Requests : InviteMember(r) \/ AcceptInvitation(r) \/ RevokeInvitation(r)
    BY DEF Next, Step, Arrive, vars, Authenticate, GetUserFails, JwtRequest,
       AuthenticateToken, ClaimCLILoginCode, Provision, UpsertUser, CreateOrganization,
       Assign, ProvisionFails, GetTokenUser, Handle, Refuse, CreateOrg, AssignNew,
       GetInvitationByToken, Join, CLIAuthorize, WrongVerifier, Exchange, Mint,
       RevokeAPIToken, Fail, CodeExpires
  <2>7. CASE UNCHANGED invites
    BY <2>7 DEF GrantInv, RowsInv
  <2>8. CASE \E r \in Requests : AcceptInvitation(r)
    BY <2>2, <2>3, <2>8 DEF AcceptInvitation
  <2>. QED
    BY <2>1, <2>2, <2>4, <2>5, <2>6, <2>7, <2>8
<1>3. \A u \in Users, i \in Invites : <<u, i>> \in joined' => invites'[i].state # "none"
  <2>1. CASE UNCHANGED joined
    BY <2>1, GrantEffects DEF GrantInv, RowsInv
  <2>2. CASE \E r \in Requests : GetInvitationByToken(r)
    BY <2>2 DEF GetInvitationByToken, GrantInv, RowsInv
  <2>3. UNCHANGED joined \/ \E r \in Requests : GetInvitationByToken(r)
    BY DEF Next, Step, Arrive, vars, Authenticate, GetUserFails, JwtRequest,
       AuthenticateToken, ClaimCLILoginCode, Provision, UpsertUser, CreateOrganization,
       Assign, ProvisionFails, GetTokenUser, Handle, Refuse, CreateOrg, AssignNew,
       InviteMember, RevokeInvitation, Join, AcceptInvitation, CLIAuthorize, WrongVerifier,
       Exchange, Mint, RevokeAPIToken, Fail, InvitationExpires, CodeExpires
  <2>. QED
    BY <2>1, <2>2, <2>3
<1>. QED
  BY <1>1, <1>2, <1>3 DEF RowsInv

LEMMA GrantStep == GrantInv /\ [Next]_vars => GrantInv'
<1> SUFFICES ASSUME GrantInv, [Next]_vars, NEW s \in Requests PROVE GrantHeld(s)'
    BY TypeStep, RowsStep DEF GrantInv
<1> USE AccountsAssumption
<1>0. TypeInv /\ TypeInv' /\ RowsInv /\ GrantHeld(s)
  BY TypeStep DEF GrantInv
<1>a. /\ row[s] \in Member /\ act[s] \in Member /\ Held(s)
      /\ \A u \in Users : users[u] \in Member /\ users[u].role \in Roles
  BY <1>0 DEF TypeInv, TypeOK, Member
<1>b. ASSUME NEW u \in Users, users[u].org # NoOrg
      PROVE  users[u].org \in Orgs /\ GrantedNext(u, users[u].org, users[u].role)
  BY <1>0, <1>a, <1>b, GrantKept DEF RowsInv, RoleWasGranted, Member
<1>1. ASSUME LocalsKept(s) PROVE GrantHeld(s)'
  <2>1. pc[s] = "upsert" /\ row[s].org # NoOrg =>
           GrantedNext(who[s], row[s].org, row[s].role) /\ users'[who[s]].org # NoOrg
    BY <1>0, <1>a, GrantKept, UsersStep DEF GrantHeld, Held, Member
  <2>2. pc[s] \in {"assign", "newAssign"} => made[s] \in Orgs /\ founder'[made[s]] = who[s]
    <3>1. SUFFICES ASSUME pc[s] \in {"assign", "newAssign"}
                   PROVE  made[s] \in Orgs /\ founder'[made[s]] = who[s]
      OBVIOUS
    <3>2. made[s] \in Orgs /\ founder[made[s]] = who[s] /\ who[s] \in Users
      BY <1>0, <1>a, <3>1 DEF GrantHeld, Held
    <3>. QED
      BY <3>2, GrantEffects
  <2>3. pc[s] \in {"join", "mark"} => <<who[s], arg[s]>> \in joined'
    BY <1>0, GrantEffects DEF GrantHeld
  <2>4. pc[s] = "handle" /\ act[s].org # NoOrg =>
           \E role \in Roles : role >= act[s].role /\ GrantedNext(who[s], act[s].org, role)
    BY <1>0, <1>a, GrantKept DEF GrantHeld, Held, Member
  <2>. QED
    BY <1>0, <1>1, <2>1, <2>2, <2>3, <2>4
    DEF GrantHeld, LocalsKept, Granted, GrantedNext
<1>2. ASSUME NEW r \in Requests, Step(r), r # s PROVE GrantHeld(s)'
  BY <1>0, <1>1, <1>2, OthersKept
<1>3. ASSUME pc'[s] \in {"idle", "getTokenUser", "exchange", "newOrg"} PROVE GrantHeld(s)'
  BY <1>3 DEF GrantHeld
<1>4. ASSUME NEW place, Goto(s, place) PROVE pc'[s] = place
  BY <1>0, <1>4 DEF Goto, TypeInv, TypeOK
<1>5. ASSUME NEW u \in Users, NEW m \in Member, Enter(s, m), who'[s] = u, row'[s] = m,
             m.org # NoOrg => GrantedNext(u, m.org, m.role)
      PROVE  GrantHeld(s)'
  <2>1. CASE m.org = NoOrg
    BY <1>4, <1>5, <2>1 DEF Enter, GrantHeld
  <2>2. CASE m.org # NoOrg
    <3>1. pc'[s] = "handle" /\ act'[s] = m
      BY <1>0, <1>4, <1>5, <2>2 DEF Enter, TypeInv, TypeOK
    <3>2. m.role \in Roles /\ m.role >= m.role
      BY DEF Member, Roles, Reader, Owner
    <3>. QED
      BY <1>5, <2>2, <3>1, <3>2 DEF GrantHeld, Granted, GrantedNext
  <2>. QED
    BY <2>1, <2>2
<1>6. ASSUME NEW u \in Users, NEW f \in BOOLEAN, Authenticate(s, u, f) PROVE GrantHeld(s)'
  <2>1. who'[s] = u /\ row'[s] = users[u] /\ UNCHANGED users
    BY <1>0, <1>6 DEF Authenticate, JwtRequest, TypeInv, TypeOK
  <2>2. CASE Goto(s, "upsert")
    BY <1>4, <1>b, <2>1, <2>2 DEF GrantHeld, Granted, GrantedNext
  <2>3. CASE Enter(s, users[u])
    BY <1>5, <1>a, <1>b, <2>1, <2>3
  <2>. QED
    BY <1>6, <2>2, <2>3 DEF Authenticate
<1>7. ASSUME NEW u \in Users, GetUserFails(s, u) PROVE GrantHeld(s)'
  <2>1. row'[s].org = NoOrg /\ pc'[s] = "upsert"
    BY <1>0, <1>4, <1>7 DEF GetUserFails, NewRow, TypeInv, TypeOK
  <2>. QED
    BY <2>1 DEF GrantHeld
<1>8. CASE Arrive(s)
  BY <1>3, <1>4, <1>6, <1>7, <1>8 DEF Arrive, AuthenticateToken, ClaimCLILoginCode
<1>9. CASE UpsertUser(s)
  <2>1. who'[s] \in Users /\ who'[s] = who[s] /\ row'[s] = Upserted(who[s], row[s])
    BY <1>0, <1>a, <1>9 DEF UpsertUser, Held, TypeInv, TypeOK
  <2>2. /\ Upserted(who[s], row[s]) \in Member
        /\ Upserted(who[s], row[s]).org # NoOrg =>
              Granted(who[s], Upserted(who[s], row[s]).org, Upserted(who[s], row[s]).role)
    BY <1>9, UpsertedGranted DEF UpsertUser
  <2>3. Enter(s, Upserted(who[s], row[s]))
    BY <1>9 DEF UpsertUser
  <2> DEFINE m == Upserted(who[s], row[s])
  <2> HIDE DEF m
  <2>4. m \in Member /\ (m.org # NoOrg => GrantedNext(who[s], m.org, m.role))
    BY <2>1, <2>2, GrantKept DEF m, Member
  <2>5. Enter(s, m) /\ row'[s] = m
    BY <2>1, <2>3 DEF m
  <2>. QED
    BY <1>5, <2>1, <2>4, <2>5
<1>10. CASE CreateOrganization(s)
  <2>1. PICK o \in Orgs : /\ founder' = [founder EXCEPT ![o] = who[s]]
                          /\ made' = [made EXCEPT ![s] = o]
    BY <1>10 DEF CreateOrganization
  <2>2. made'[s] = o /\ founder'[o] = who[s] /\ UNCHANGED <<who, row>>
    BY <1>0, <1>10, <2>1 DEF CreateOrganization, TypeInv, TypeOK
  <2>3. \/ pc[s] = "provision" /\ pc'[s] = "assign"
        \/ pc'[s] = "newAssign"
    BY <1>4, <1>10 DEF CreateOrganization
  <2>. QED
    BY <1>0, <2>2, <2>3 DEF GrantHeld
<1>11. CASE Assign(s)
  <2>1. /\ pc[s] = "assign" /\ pc'[s] = "handle" /\ UNCHANGED <<who, founder>>
        /\ act'[s].org = made[s] /\ act'[s].role = Owner
    BY <1>0, <1>4, <1>11 DEF Assign, TypeInv, TypeOK
  <2>2. founder[made[s]] = who[s] /\ Owner \in Roles /\ Owner >= Owner
    BY <1>0, <2>1 DEF GrantHeld, Roles, Reader, Owner
  <2>3. GrantedNext(who'[s], act'[s].org, Owner)
    BY <2>1, <2>2 DEF GrantedNext
  <2>4. \E role \in Roles : role >= act'[s].role /\ GrantedNext(who'[s], act'[s].org, role)
    BY <2>1, <2>2, <2>3
  <2>. QED
    BY <2>1, <2>4 DEF GrantHeld, Granted, GrantedNext
<1>12. CASE ProvisionFails(s)
  <2>1. pc'[s] = "handle" /\ act'[s] = row[s] /\ row[s].org = NoOrg
    BY <1>0, <1>4, <1>12 DEF ProvisionFails, GrantHeld, TypeInv, TypeOK
  <2>. QED
    BY <2>1 DEF GrantHeld
<1>13. CASE GetTokenUser(s)
  <2>1. /\ pc[s] = "getTokenUser" /\ pc'[s] = "handle" /\ UNCHANGED who
        /\ act'[s].org = users[who[s]].org
        /\ act'[s].role = LowerRole(row[s].role, users[who[s]].role)
    BY <1>0, <1>4, <1>13 DEF GetTokenUser, TypeInv, TypeOK
  <2>2. who[s] \in Users /\ users[who[s]].role \in Roles /\ row[s].role \in Roles
    BY <1>a, <2>1 DEF Held, Member
  <2>3. users[who[s]].role >= LowerRole(row[s].role, users[who[s]].role)
    BY <2>2 DEF LowerRole, Roles, Reader, Owner
  <2>4. act'[s].org # NoOrg =>
           \E role \in Roles : role >= act'[s].role /\ GrantedNext(who'[s], act'[s].org, role)
    BY <1>b, <2>1, <2>2, <2>3
  <2>. QED
    BY <2>1, <2>4 DEF GrantHeld, Granted, GrantedNext
<1>14. CASE Provision(s) \/ GetTokenUser(s)
  BY <1>9, <1>10, <1>11, <1>12, <1>13, <1>14 DEF Provision
<1>15. CASE GetInvitationByToken(s)
  <2>1. PICK i \in Invites : /\ arg' = [arg EXCEPT ![s] = i]
                             /\ joined' = joined \cup {<<who[s], i>>}
    BY <1>15 DEF GetInvitationByToken
  <2>2. pc'[s] = "join" /\ arg'[s] = i /\ who'[s] = who[s]
    BY <1>0, <1>4, <1>15, <2>1 DEF GetInvitationByToken, TypeInv, TypeOK
  <2>. QED
    BY <2>1, <2>2 DEF GrantHeld
<1>16. CASE Join(s)
  <2>1. pc[s] = "join" /\ pc'[s] = "mark" /\ UNCHANGED <<arg, who, joined>>
    BY <1>4, <1>16 DEF Join
  <2>. QED
    BY <1>0, <2>1 DEF GrantHeld
<1>17. CASE CreateOrg(s)
  BY <1>3, <1>4, <1>17 DEF CreateOrg
<1>18. ASSUME Answer(s) PROVE GrantHeld(s)'
  BY <1>3, <1>4, <1>18 DEF Answer
<1>19. CASE Handle(s) \/ Fail(s)
  BY <1>15, <1>16, <1>17, <1>18, <1>19 DEF Handle, Refuse, AssignNew, InviteMember,
     RevokeInvitation, AcceptInvitation, CLIAuthorize, WrongVerifier, Exchange, Mint,
     RevokeAPIToken, Fail
<1>20. CASE Step(s)
  BY <1>8, <1>14, <1>19, <1>20 DEF Step
<1>21. CASE UNCHANGED requestVars
  BY <1>1, <1>21 DEF requestVars, LocalsKept
<1>22. UNCHANGED requestVars \/ \E r \in Requests : Step(r)
  BY DEF Next, vars, InvitationExpires, CodeExpires
<1>. QED
  BY <1>2, <1>20, <1>21, <1>22

LEMMA GrantInit == Init => GrantInv
<1> SUFFICES ASSUME Init PROVE GrantInv
    OBVIOUS
<1>1. RowsInv
  BY DEF Init, RowsInv, RoleWasGranted, NewRow
<1>2. \A r \in Requests : GrantHeld(r)
  BY DEF Init, GrantHeld
<1>. QED
  BY TypeInit, <1>1, <1>2 DEF GrantInv

\* Every user has an organization and a role that were granted together.
THEOREM MembershipsGranted == Spec => []RoleWasGranted
<1>. QED
  BY GrantInit, GrantStep, PTL DEF Spec, GrantInv, RowsInv

\* No request acts with more than its user was granted.
THEOREM RequestsGranted == Spec => []ActsWithinGrant
<1>1. GrantInv => ActsWithinGrant
  BY DEF GrantInv, GrantHeld, ActsWithinGrant, HasOrg
<1>. QED
  BY GrantInit, GrantStep, <1>1, PTL DEF Spec
=============================================================================
