------------------------------- MODULE Accounts -------------------------------
(***************************************************************************)
(* Users, tenants, memberships, invitations and API keys (internal/auth,   *)
(* internal/org, internal/apikey) and the admission of requests that       *)
(* manage them (server.AuthMiddleware, RequireRole).  Every statement is   *)
(* its own database transaction; nothing spans two of them.  A user and    *)
(* the tenant a registration creates are named by their email, which       *)
(* migrations 8 and 14 declare UNIQUE in both tables.                      *)
(***************************************************************************)
EXTENDS Naturals, FiniteSets, Sequences, SequencesExt

CONSTANTS
  Person,                       \* emails
  Caller,                       \* requests in flight
  Invite,                       \* invitations that may be sent
  ApiKey,                       \* API keys that may be created
  OfferedRole,                  \* roles invitations and role changes give
  Absent,                      \* no row, no value
  MaxAccountFaults              \* bound on failed statements and crashes

Roles == {"owner", "admin", "developer", "viewer"}
Managers == {"owner", "admin"}

ASSUME AccountBounds == OfferedRole \subseteq Roles /\ MaxAccountFaults \in Nat /\ IsFiniteSet(Caller)

Membership == [tenant : Person, user : Person, role : Roles]
InviteRow == [tenant : Person, person : Person, role : Roles, status : {"pending", "accepted"}, live : BOOLEAN]
KeyRow == [tenant : Person, revoked : BOOLEAN]

ASSUME AbsentIsNothing == Absent \notin ApiKey \cup InviteRow \cup KeyRow

VARIABLES
  users, tenants,               \* the rows of the two tables
  members,                      \* organization_members by created_at
  invites,                      \* invites[i]: the row, or Nothing
  keys,                         \* keys[k]: the row, or Nothing
  tokens,                       \* claims of the tokens handed out
  acpc, req,                     \* a request: position; what it has read and was sent
  current,                      \* history: the principal of a request is as at admission
  uses,                         \* history: memberships an invitation has given
  removed,                      \* history: users some tenant removed
  accountFaults

accountRows == <<users, tenants, members, invites, keys>>
accountVars == <<accountRows, tokens, acpc, req, current, uses, removed, accountFaults>>

(* The queries and statements of OrgRepo, UserRepo, TenantRepo, APIKeyRepo. *)
GetMember(t, u) == {m \in ToSet(members) : m.tenant = t /\ m.user = u}
Belongs(u) == \E m \in ToSet(members) : m.user = u
GetUserActiveMember(u) == members[Min({n \in DOMAIN members : members[n].user = u})]
GetByEmail(p) == p \in users
InsertUser(p) == users' = users \cup {p}
InsertTenant(p) == tenants' = tenants \cup {p}
AddMember(m) == members' = Append(members, m)
UpdateMemberRole(t, u, role) ==
  members' = [n \in DOMAIN members |->
    IF members[n].tenant = t /\ members[n].user = u THEN [members[n] EXCEPT !.role = role] ELSE members[n]]
DeleteMember(t, u) ==
  \E n \in DOMAIN members : members[n].tenant = t /\ members[n].user = u /\ members' = RemoveAt(members, n)
GetInviteByToken(i) == invites[i]
UpdateInviteStatus(i, status) == invites' = [invites EXCEPT ![i].status = status]
CreateInvite(i, row) == invites' = [invites EXCEPT ![i] = row]
InsertKey(k, t) == keys' = [keys EXCEPT ![k] = [tenant |-> t, revoked |-> FALSE]]
GetByHash(k) == keys[k]
SetRevoked(k) == keys' = [keys EXCEPT ![k].revoked = TRUE]

(* Users, tenants and memberships agree: a membership is of a user and a    *)
(* tenant that exist, at most one for each pair of them (uq_tenant_user).   *)
AccountTypeOK ==
  /\ users \subseteq Person /\ tenants \subseteq users /\ tokens \subseteq Membership
  /\ IsInjective(members) /\ ToSet(members) \subseteq Membership
  /\ \A m \in ToSet(members) : m.tenant \in tenants /\ m.user \in users /\ GetMember(m.tenant, m.user) = {m}
  /\ invites \in [Invite -> InviteRow \cup {Absent}]
  /\ keys \in [ApiKey -> KeyRow \cup {Absent}]
  /\ acpc \in [Caller -> {"idle", "user", "tenant", "owner", "account", "new", "join", "spend", "act"}]
  /\ current \in [Caller -> BOOLEAN] /\ removed \subseteq Person
  /\ uses \in [Invite -> Nat] /\ accountFaults \in 0..MaxAccountFaults

AccountInit ==
  /\ users = {} /\ tenants = {} /\ members = <<>> /\ tokens = {}
  /\ invites = [i \in Invite |-> Absent] /\ keys = [k \in ApiKey |-> Absent]
  /\ acpc = [c \in Caller |-> "idle"] /\ req = [c \in Caller |-> Absent] /\ current = [c \in Caller |-> TRUE]
  /\ uses = [i \in Invite |-> 0] /\ removed = {} /\ accountFaults = 0

AccountFault == accountFaults < MaxAccountFaults /\ accountFaults' = accountFaults + 1
Proceed(c, pc) == acpc' = [acpc EXCEPT ![c] = pc] /\ UNCHANGED req
Keep(c, pc, r) == acpc' = [acpc EXCEPT ![c] = pc] /\ req' = [req EXCEPT ![c] = r]
Reply(c) == Keep(c, "idle", Absent)
-----------------------------------------------------------------------------
(* Every answer carries an access and a refresh token of the same claims. *)
GenerateToken(m) == tokens' = tokens \cup {m}

(* What parses is a token handed out; one that has expired, or is of the    *)
(* other kind, is one its holder does not present.                          *)
ParseToken == tokens

(* Register: the email is looked up; only a found user stops it. *)
CheckEmail(c, p) ==
  /\ acpc[c] = "idle" /\ Keep(c, "user", [person |-> p])
  /\ \/ ~GetByEmail(p) /\ UNCHANGED accountFaults
     \/ GetByEmail(p) /\ AccountFault
  /\ UNCHANGED <<accountRows, tokens, current, uses, removed>>

(* UserRepo.Create, for a registration and for a person new to an           *)
(* invitation; the unique email refuses a second row.                       *)
CreateUser(c, pos, next) ==
  /\ acpc[c] = pos
  /\ \/ req[c].person \notin users /\ InsertUser(req[c].person) /\ Proceed(c, next) /\ UNCHANGED accountFaults
     \/ req[c].person \in users /\ Reply(c) /\ UNCHANGED <<users, accountFaults>>
     \/ AccountFault /\ Reply(c) /\ UNCHANGED users
  /\ UNCHANGED <<tenants, members, invites, keys, tokens, current, uses, removed>>

CreateTenant(c) ==
  /\ acpc[c] = "tenant"
  /\ \/ req[c].person \notin tenants /\ InsertTenant(req[c].person) /\ Proceed(c, "owner") /\ UNCHANGED accountFaults
     \/ AccountFault /\ Reply(c) /\ UNCHANGED tenants
  /\ UNCHANGED <<users, members, invites, keys, tokens, current, uses, removed>>

(* The owner of the new tenant.  Its created_at was taken before the user   *)
(* existed, so it is the oldest membership of that user.                    *)
AddOwner(c) ==
  LET m == [tenant |-> req[c].person, user |-> req[c].person, role |-> "owner"] IN
  /\ acpc[c] = "owner" /\ Reply(c)
  /\ \/ members' = <<m>> \o members /\ GenerateToken(m) /\ UNCHANGED accountFaults
     \/ AccountFault /\ UNCHANGED <<members, tokens>>
  /\ UNCHANGED <<users, tenants, invites, keys, current, uses, removed>>

(* Login: the tokens are of the oldest membership (GetUserActiveMember). *)
Login(p) ==
  /\ p \in users /\ Belongs(p) /\ GenerateToken(GetUserActiveMember(p))
  /\ UNCHANGED <<accountRows, acpc, req, current, uses, removed, accountFaults>>

(* RefreshToken: the tenant stays, the role is the one of the row now. *)
RefreshToken(k) ==
  /\ \E m \in GetMember(k.tenant, k.user) : GenerateToken(m)
  /\ UNCHANGED <<accountRows, acpc, req, current, uses, removed, accountFaults>>
-----------------------------------------------------------------------------
Usable(i) == LET inv == GetInviteByToken(i) IN inv # Absent /\ inv.status = "pending" /\ inv.live

(* AcceptInvite: the invitation is read and judged once, *)
ReadInvite(c, i) ==
  /\ acpc[c] = "idle" /\ Usable(i)
  /\ Keep(c, "account", [invite |-> i, person |-> invites[i].person, tenant |-> invites[i].tenant, role |-> invites[i].role])
  /\ UNCHANGED <<accountRows, tokens, current, uses, removed, accountFaults>>

(* then the user looked up; a lookup that fails counts as not found, and a  *)
(* new user must bring a name and a password.                               *)
FindInvited(c) ==
  /\ acpc[c] = "account"
  /\ \/ GetByEmail(req[c].person) /\ Proceed(c, "join") /\ UNCHANGED accountFaults
     \/ ~GetByEmail(req[c].person) /\ (Proceed(c, "new") \/ Reply(c)) /\ UNCHANGED accountFaults
     \/ GetByEmail(req[c].person) /\ AccountFault /\ Proceed(c, "new")
  /\ UNCHANGED <<accountRows, tokens, current, uses, removed>>

Invited(c) == [tenant |-> req[c].tenant, user |-> req[c].person, role |-> req[c].role]

(* Seeded fault: the invitation is judged a second time before the insert. *)
JoinIfUsable(c) ==
  /\ acpc[c] = "join" /\ UNCHANGED accountFaults
  /\ \/ /\ GetMember(req[c].tenant, req[c].person) = {} /\ Usable(req[c].invite) /\ AddMember(Invited(c))
        /\ uses' = [uses EXCEPT ![req[c].invite] = @ + 1] /\ Proceed(c, "spend")
     \/ (GetMember(req[c].tenant, req[c].person) # {} \/ ~Usable(req[c].invite)) /\ Reply(c) /\ UNCHANGED <<members, uses>>
  /\ UNCHANGED <<users, tenants, invites, keys, tokens, current, removed>>

(* Seeded fault: no constraint keeps a second membership out. *)
JoinAgain(c) ==
  /\ acpc[c] = "join" /\ AddMember(Invited(c)) /\ UNCHANGED accountFaults
  /\ uses' = [uses EXCEPT ![req[c].invite] = @ + 1] /\ Proceed(c, "spend")
  /\ UNCHANGED <<users, tenants, invites, keys, tokens, current, removed>>

(* AddMember; the unique pair refuses a second membership. *)
Join(c) ==
  /\ acpc[c] = "join"
  /\ \/ /\ GetMember(req[c].tenant, req[c].person) = {} /\ AddMember(Invited(c))
        /\ uses' = [uses EXCEPT ![req[c].invite] = @ + 1] /\ Proceed(c, "spend") /\ UNCHANGED accountFaults
     \/ GetMember(req[c].tenant, req[c].person) # {} /\ Reply(c) /\ UNCHANGED <<members, uses, accountFaults>>
     \/ AccountFault /\ Reply(c) /\ UNCHANGED <<members, uses>>
  /\ UNCHANGED <<users, tenants, invites, keys, tokens, current, removed>>

(* Seeded fault: the invitation is never marked. *)
SpendNothing(c) ==
  /\ acpc[c] = "spend" /\ Reply(c) /\ GenerateToken(Invited(c))
  /\ UNCHANGED <<accountRows, current, uses, removed, accountFaults>>

(* The invitation is marked, an error of that ignored, and the tokens are   *)
(* those of the membership as it was added.                                 *)
SpendInvite(c) ==
  /\ acpc[c] = "spend" /\ Reply(c) /\ GenerateToken(Invited(c))
  /\ \/ UpdateInviteStatus(req[c].invite, "accepted") /\ UNCHANGED accountFaults
     \/ AccountFault /\ UNCHANGED invites
  /\ UNCHANGED <<users, tenants, members, keys, current, uses, removed>>
-----------------------------------------------------------------------------
(* The routes that manage a tenant are for its owners and administrators. *)
RequireRole(t, u) == \E m \in GetMember(t, u) : m.role \in Managers

(* Seeded fault: the role is the one the token was issued with. *)
AdmitByClaim(c, k) ==
  /\ acpc[c] = "idle" /\ k.role \in Managers
  /\ Keep(c, "act", [tenant |-> k.tenant, user |-> k.user, key |-> Absent]) /\ current' = [current EXCEPT ![c] = TRUE]
  /\ UNCHANGED <<accountRows, tokens, uses, removed, accountFaults>>

(* AuthMiddleware of a token: the membership is read again, its role        *)
(* replaces the claim, and RequireRole judges it.                           *)
AdmitToken(c, k) ==
  /\ acpc[c] = "idle" /\ RequireRole(k.tenant, k.user)
  /\ Keep(c, "act", [tenant |-> k.tenant, user |-> k.user, key |-> Absent]) /\ current' = [current EXCEPT ![c] = TRUE]
  /\ UNCHANGED <<accountRows, tokens, uses, removed, accountFaults>>

(* and of an API key: it acts for the tenant as an administrator. *)
AdmitKey(c, k) ==
  /\ acpc[c] = "idle" /\ GetByHash(k) # Absent /\ ~GetByHash(k).revoked
  /\ Keep(c, "act", [tenant |-> keys[k].tenant, user |-> Absent, key |-> k]) /\ current' = [current EXCEPT ![c] = TRUE]
  /\ UNCHANGED <<accountRows, tokens, uses, removed, accountFaults>>

(* The requests of a principal that has just changed are no longer current. *)
OutOfDate(Whose(_)) == current' = [c \in Caller |-> current[c] /\ ~(acpc[c] = "act" /\ Whose(req[c]))]

InviteMember(c, i, p, role) ==
  /\ acpc[c] = "act" /\ invites[i] = Absent /\ Reply(c)
  /\ CreateInvite(i, [tenant |-> req[c].tenant, person |-> p, role |-> role, status |-> "pending", live |-> TRUE])
  /\ UNCHANGED <<users, tenants, members, keys, tokens, current, uses, removed, accountFaults>>

(* UpdateMemberRole and RemoveMember answer "not found" for no row. *)
UpdateRole(c, p, role) ==
  /\ acpc[c] = "act" /\ GetMember(req[c].tenant, p) # {} /\ Reply(c)
  /\ UpdateMemberRole(req[c].tenant, p, role)
  /\ OutOfDate(LAMBDA r : r.tenant = req[c].tenant /\ r.user = p)
  /\ UNCHANGED <<users, tenants, invites, keys, tokens, uses, removed, accountFaults>>

RemoveMember(c, p) ==
  /\ acpc[c] = "act" /\ GetMember(req[c].tenant, p) # {} /\ Reply(c) /\ removed' = removed \cup {p}
  /\ DeleteMember(req[c].tenant, p)
  /\ OutOfDate(LAMBDA r : r.tenant = req[c].tenant /\ r.user = p)
  /\ UNCHANGED <<users, tenants, invites, keys, tokens, uses, accountFaults>>

CreateKey(c, k) ==
  /\ acpc[c] = "act" /\ keys[k] = Absent /\ Reply(c)
  /\ InsertKey(k, req[c].tenant)
  /\ UNCHANGED <<users, tenants, members, invites, tokens, current, uses, removed, accountFaults>>

(* Revoke: the key is matched with the tenant of the request. *)
RevokeKey(c, k) ==
  /\ acpc[c] = "act" /\ keys[k] # Absent /\ keys[k].tenant = req[c].tenant /\ Reply(c)
  /\ SetRevoked(k) /\ OutOfDate(LAMBDA r : r.key = k)
  /\ UNCHANGED <<users, tenants, members, invites, tokens, uses, removed, accountFaults>>

(* A week passes. *)
ExpireInvite(i) ==
  /\ Usable(i) /\ invites' = [invites EXCEPT ![i].live = FALSE]
  /\ UNCHANGED <<users, tenants, members, keys, tokens, acpc, req, current, uses, removed, accountFaults>>

(* The process dies, or a managing request fails or names no row. *)
LoseRequest(c) ==
  /\ acpc[c] # "idle" /\ Reply(c)
  /\ IF acpc[c] = "act" THEN UNCHANGED accountFaults ELSE AccountFault
  /\ UNCHANGED <<accountRows, tokens, current, uses, removed>>

Manage(c) ==
  \/ \E i \in Invite, p \in Person, role \in OfferedRole : InviteMember(c, i, p, role)
  \/ \E p \in Person : RemoveMember(c, p) \/ \E role \in OfferedRole : UpdateRole(c, p, role)
  \/ \E k \in ApiKey : CreateKey(c, k) \/ RevokeKey(c, k)

AccountNext ==
  \/ \E p \in Person : Login(p)
  \/ \E k \in ParseToken : RefreshToken(k)
  \/ \E i \in Invite : ExpireInvite(i)
  \/ \E c \in Caller :
       \/ \E p \in Person : CheckEmail(c, p)
       \/ CreateUser(c, "user", "tenant") \/ CreateTenant(c) \/ AddOwner(c)
       \/ \E i \in Invite : ReadInvite(c, i)
       \/ FindInvited(c) \/ CreateUser(c, "new", "join") \/ Join(c) \/ SpendInvite(c)
       \/ \E k \in ParseToken : AdmitToken(c, k)
       \/ \E k \in ApiKey : AdmitKey(c, k)
       \/ Manage(c) \/ LoseRequest(c)

AccountSpec == AccountInit /\ [][AccountNext]_accountVars
-----------------------------------------------------------------------------
(* A demotion, a removal or a revocation takes effect at once: a request    *)
(* whose principal has not changed since it was admitted acts for a         *)
(* membership that manages the tenant now, or a key that is not revoked,    *)
(* whatever the token it was sent with says (AuthMiddleware).               *)
AdmittedIsCurrent ==
  \A c \in Caller : acpc[c] = "act" /\ current[c] =>
    IF req[c].key = Absent THEN RequireRole(req[c].tenant, req[c].user)
                            ELSE ~keys[req[c].key].revoked

(* An invitation judged once and marked last is over-used only by           *)
(* acceptances that overlap a removal, or when it cannot be marked:         *)
(* at most one membership for each request in flight and each fault         *)
(* (AcceptInvite, UpdateInviteStatus).                                      *)
InviteUsesBounded == \A i \in Invite : uses[i] <= Cardinality(Caller) + accountFaults

(* Register and AcceptInvite write the user first and its membership in a   *)
(* later statement.  As long as no statement fails and no process dies, a   *)
(* user nobody removed has a membership, so it can log in, or the request   *)
(* that created it still runs.                                              *)
EveryUserBelongs ==
  accountFaults = 0 => \A p \in users \ removed :
    Belongs(p) \/ \E c \in Caller : acpc[c] \in {"tenant", "owner", "join"} /\ req[c].person = p

(* The message of AcceptInvite: "already used".  One membership for each    *)
(* invitation.                                                              *)
InviteUsedOnce == accountFaults = 0 => \A i \in Invite : uses[i] <= 1

(* Requests act for members and keys that are current, an invitation gives no *)
(* more memberships than requests overlap, and a user has a membership unless *)
(* a step failed (AuthMiddleware, AcceptInvite, Register).                  *)
AccountSafe ==
  /\ AccountTypeOK
  /\ AdmittedIsCurrent
  /\ InviteUsesBounded
  /\ EveryUserBelongs
=============================================================================
