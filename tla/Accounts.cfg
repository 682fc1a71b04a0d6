\* Two users, two requests at a time, one invitation, one login code.
SPECIFICATION Spec
CONSTANTS
    Users = {u1, u2}
    Orgs = {o1, o2}
    Invites = {i1}
    Codes = {c1}
    Tokens = {t1}
    Requests = {r1, r2}
    Invitable = {1}
    NoUser = NoUser
    NoOrg = NoOrg
    NoToken = NoToken
    NoCode = NoCode
    NoInvite = NoInvite
INVARIANTS
    RoleWasGranted
    ActsWithinGrant
    TokenWithinApproval
    CodeMintsOnce
SYMMETRY Symmetry
CHECK_DEADLOCK FALSE
