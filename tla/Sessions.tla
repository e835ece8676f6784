------------------------------ MODULE Sessions ------------------------------
(***************************************************************************)
(* POST /auth/register, /login, /refresh and /logout                       *)
(* (api/routes/auth.py:52-132) as concurrent transactions over tenants,    *)
(* users and refresh_tokens, under READ COMMITTED and the unique keys of   *)
(* the tables.                                                             *)
(*                                                                         *)
(* A row is named by its key and the request that inserts it; a refresh    *)
(* token, unique by its jti, by the request that issues it.  Only SELECTs, *)
(* flushes and COMMITs reach the database: autoflush is off.               *)
(***************************************************************************)
EXTENDS Integers, FiniteSets

CONSTANTS
  AuthRequests,  \* requests
  Slugs,         \* tenant slugs
  Emails,        \* e-mail addresses, in lower case
  Bodies,        \* per request, the routes and accounts it may be for
  MaxAuthFaults  \* bound: requests cut short by an error

Routes == {"register", "login", "refresh", "logout"}

ASSUME SessionsAssumption ==
  /\ Slugs # {} /\ Emails # {} /\ MaxAuthFaults \in Nat
  /\ Bodies \in [AuthRequests -> SUBSET (Routes \X (Slugs \X Emails))]

VARIABLES
  tenants,    \* committed rows: <<slug, request that created it>>
  users,      \* committed rows: <<slug, email, request that created it>>
  tokens,     \* committed state of the token each request issues
  apc,        \* where each request is
  kind,       \* its route
  account,    \* the slug and email of its body
  presented,  \* the token of its body, named by the request that issued it
  ownTenant,  \* it has inserted the tenant and not yet committed
  before,     \* requests that had ended when it read the token (history)
  authFaults  \* requests cut short (bounded by MaxAuthFaults)

rowVars == <<tenants, users, tokens>>
bodyVars == <<kind, account, presented>>
sessionVars == <<rowVars, bodyVars, apc, ownTenant, before, authFaults>>

Open == {"find_tenant", "insert_tenant", "find_user", "insert_user", "commit_user",
         "commit_login", "read_token", "rotate", "commit_rotation", "revoke"}
Ended == {"created", "logged_in", "rotated", "logged_out", "refused", "error"}

SessionsTypeOK ==
  /\ tenants \in SUBSET (Slugs \X AuthRequests)
  /\ users \in SUBSET (Slugs \X Emails \X AuthRequests)
  /\ tokens \in [AuthRequests -> {"none", "live", "revoked"}]
  /\ apc \in [AuthRequests -> {"new"} \cup Open \cup Ended]
  /\ kind \in [AuthRequests -> Routes \cup {"none"}]
  /\ account \in [AuthRequests -> Slugs \X Emails]
  /\ presented \in [AuthRequests -> AuthRequests]
  /\ ownTenant \in [AuthRequests -> BOOLEAN]
  /\ before \in [AuthRequests -> SUBSET AuthRequests]
  /\ authFaults \in 0 .. MaxAuthFaults

SessionsInit ==
  /\ tenants = {} /\ users = {}
  /\ tokens = [r \in AuthRequests |-> "none"]
  /\ apc = [r \in AuthRequests |-> "new"]
  /\ kind = [r \in AuthRequests |-> "none"]
  /\ account = [r \in AuthRequests |-> CHOOSE e \in Slugs \X Emails : TRUE]
  /\ presented = [r \in AuthRequests |-> r]
  /\ ownTenant = [r \in AuthRequests |-> FALSE]
  /\ before = [r \in AuthRequests |-> {}]
  /\ authFaults = 0

Move(r, here, there) == apc[r] = here /\ apc' = [apc EXCEPT ![r] = there]

\* The transaction ends: what it has inserted is committed or rolled back.
Close(r) == ownTenant' = [ownTenant EXCEPT ![r] = FALSE]

Slug(r) == account[r][1]
TenantRows(r) == {t \in tenants : t[1] = Slug(r)}
UserRows(r) == {u \in users : <<u[1], u[2]>> = account[r]}

Post(r, body) ==
  /\ kind' = [kind EXCEPT ![r] = body[1]]
  /\ account' = [account EXCEPT ![r] = body[2]]

Start(r) ==
  /\ Move(r, "new", "find_tenant")
  /\ \E body \in Bodies[r] : body[1] \in {"register", "login"} /\ Post(r, body)
  /\ UNCHANGED <<rowVars, presented, ownTenant, before, authFaults>>

\* A client presents a token that some request has issued.
Present(r) ==
  /\ Move(r, "new", "read_token")
  /\ \E body \in Bodies[r] : body[1] \in {"refresh", "logout"} /\ Post(r, body)
  /\ \E p \in AuthRequests :
       tokens[p] # "none" /\ presented' = [presented EXCEPT ![r] = p]
  /\ UNCHANGED <<rowVars, ownTenant, before, authFaults>>

FindTenant(r) ==
  /\ Move(r, "find_tenant", IF TenantRows(r) = {} THEN "insert_tenant" ELSE "find_user")
  /\ UNCHANGED <<rowVars, bodyVars, ownTenant, before, authFaults>>

\* An INSERT waits for an open transaction that has inserted the same key.
SlugIsFree(r) == \A q \in AuthRequests : ~(ownTenant[q] /\ Slug(q) = Slug(r))

InsertTenant(r) ==
  /\ SlugIsFree(r) /\ TenantRows(r) = {}
  /\ Move(r, "insert_tenant", "find_user")
  /\ ownTenant' = [ownTenant EXCEPT ![r] = TRUE]
  /\ UNCHANGED <<rowVars, bodyVars, before, authFaults>>

\* Another transaction has committed the slug since FindTenant.
TenantConflict(r) ==
  /\ SlugIsFree(r) /\ TenantRows(r) # {}
  /\ Move(r, "insert_tenant", "error")
  /\ UNCHANGED <<rowVars, bodyVars, ownTenant, before, authFaults>>

FindUser(r) ==
  /\ \/ /\ kind[r] = "register" /\ UserRows(r) = {}
        /\ Move(r, "find_user", "insert_user")
     \/ /\ kind[r] = "login" /\ UserRows(r) # {}
        /\ Move(r, "find_user", "commit_login")
  /\ UNCHANGED <<rowVars, bodyVars, ownTenant, before, authFaults>>

\* Mutant of RefuseUser: the session is committed when the route refuses.
RefuseAndCommit(r) ==
  /\ kind[r] = "login" \/ UserRows(r) # {}
  /\ Move(r, "find_user", "refused")
  /\ tenants' = IF ownTenant[r] THEN tenants \cup {<<Slug(r), r>>} ELSE tenants
  /\ Close(r)
  /\ UNCHANGED <<users, tokens, bodyVars, before, authFaults>>

\* Mutant of RefuseUser: the session is neither rolled back nor closed.
RefuseAndKeep(r) ==
  /\ kind[r] = "login" \/ UserRows(r) # {}
  /\ Move(r, "find_user", "refused")
  /\ UNCHANGED <<rowVars, bodyVars, ownTenant, before, authFaults>>

\* 409 for a registered address; 401 or 403 for an unknown address, a wrong
\* password or an inactive user.  get_session rolls back.
RefuseUser(r) ==
  /\ kind[r] = "login" \/ UserRows(r) # {}
  /\ Move(r, "find_user", "refused")
  /\ Close(r)
  /\ UNCHANGED <<rowVars, bodyVars, before, authFaults>>

AddressIsFree(r) ==
  \A q \in AuthRequests : ~(apc[q] = "commit_user" /\ account[q] = account[r])

InsertUser(r) ==
  /\ AddressIsFree(r) /\ UserRows(r) = {}
  /\ Move(r, "insert_user", "commit_user")
  /\ UNCHANGED <<rowVars, bodyVars, ownTenant, before, authFaults>>

UserConflict(r) ==
  /\ AddressIsFree(r) /\ UserRows(r) # {}
  /\ Move(r, "insert_user", "error")
  /\ Close(r)
  /\ UNCHANGED <<rowVars, bodyVars, before, authFaults>>

CommitUser(r) ==
  /\ Move(r, "commit_user", "created")
  /\ tenants' = IF ownTenant[r] THEN tenants \cup {<<Slug(r), r>>} ELSE tenants
  /\ users' = users \cup {<<Slug(r), account[r][2], r>>}
  /\ Close(r)
  /\ UNCHANGED <<tokens, bodyVars, before, authFaults>>

\* save_refresh and touch_login lock nothing another request waits for.
CommitLogin(r) ==
  /\ Move(r, "commit_login", "logged_in")
  /\ tokens' = [tokens EXCEPT ![r] = "live"]
  /\ UNCHANGED <<tenants, users, bodyVars, ownTenant, before, authFaults>>

ReadToken(r) ==
  /\ tokens[presented[r]] = "live"
  /\ Move(r, "read_token", IF kind[r] = "refresh" THEN "rotate" ELSE "revoke")
  /\ before' = [before EXCEPT ![r] = {q \in AuthRequests : apc[q] \in Ended}]
  /\ UNCHANGED <<rowVars, bodyVars, ownTenant, authFaults>>

\* Revoked, or past expires_at, which any token may be; a logout with a revoked
\* token has nothing to do.
RefuseToken(r) ==
  /\ kind[r] = "refresh" \/ tokens[presented[r]] = "revoked"
  /\ Move(r, "read_token", IF kind[r] = "refresh" THEN "refused" ELSE "logged_out")
  /\ UNCHANGED <<rowVars, bodyVars, ownTenant, before, authFaults>>

\* The row lock of an UPDATE that is flushed and not yet committed.
TokenIsFree(r) ==
  \A q \in AuthRequests : ~(apc[q] = "commit_rotation" /\ presented[q] = presented[r])

\* revoke_refresh looks again, but the session keeps the row it has loaded; the
\* flush in save_refresh sends the UPDATE and the INSERT.
Rotate(r) ==
  /\ TokenIsFree(r)
  /\ Move(r, "rotate", "commit_rotation")
  /\ UNCHANGED <<rowVars, bodyVars, ownTenant, before, authFaults>>

\* Mutant of CommitRotation: the old token is left as it is.
RotateWithoutRevoke(r) ==
  /\ Move(r, "commit_rotation", "rotated")
  /\ tokens' = [tokens EXCEPT ![r] = "live"]
  /\ UNCHANGED <<tenants, users, bodyVars, ownTenant, before, authFaults>>

CommitRotation(r) ==
  /\ Move(r, "commit_rotation", "rotated")
  /\ tokens' = [tokens EXCEPT ![presented[r]] = "revoked", ![r] = "live"]
  /\ UNCHANGED <<tenants, users, bodyVars, ownTenant, before, authFaults>>

\* A logout flushes in its COMMIT.
Revoke(r) ==
  /\ TokenIsFree(r)
  /\ Move(r, "revoke", "logged_out")
  /\ tokens' = [tokens EXCEPT ![presented[r]] = "revoked"]
  /\ UNCHANGED <<tenants, users, bodyVars, ownTenant, before, authFaults>>

\* Any call raises, or the process dies.
AuthFails(r) ==
  /\ apc[r] \in Open
  /\ authFaults < MaxAuthFaults /\ authFaults' = authFaults + 1
  /\ apc' = [apc EXCEPT ![r] = "error"]
  /\ Close(r)
  /\ UNCHANGED <<rowVars, bodyVars, before>>

AuthStep(r) ==
  \/ FindTenant(r) \/ InsertTenant(r) \/ TenantConflict(r) \/ FindUser(r)
  \/ RefuseUser(r) \/ InsertUser(r) \/ UserConflict(r) \/ CommitUser(r)
  \/ CommitLogin(r) \/ ReadToken(r) \/ RefuseToken(r) \/ Rotate(r)
  \/ CommitRotation(r) \/ Revoke(r)

SessionsNext ==
  \E r \in AuthRequests : Start(r) \/ Present(r) \/ AuthStep(r) \/ AuthFails(r)

SessionsSpec == SessionsInit /\ [][SessionsNext]_sessionVars

-----------------------------------------------------------------------------
\* One tenant per slug, one user per address of a tenant, a tenant for every
\* user, and no tenant without a user: get_or_create_tenant also runs in login,
\* and two first registrations may both find nothing, but a tenant is only ever
\* committed together with its first user (auth.py:54-67, 75-81).
AccountsAreWhole ==
  /\ \A t, u \in tenants : t[1] = u[1] => t = u
  /\ \A t, u \in users : <<t[1], t[2]>> = <<u[1], u[2]>> => t = u
  /\ {t[1] : t \in tenants} = {u[1] : u \in users}

\* A refresh that gave out a new token had read the old one before any other
\* refresh or logout with it ended: a token that was rotated or logged out stays
\* spent for whoever comes later, over races, rollbacks and faults.  Requests
\* that overlap are another matter, see TokensAreUsedOnce (auth.py:110-124,
\* user.py:86-93).
TokensAreSpent ==
  \A r, s \in AuthRequests :
    /\ apc[r] = "rotated" /\ kind[s] \in {"refresh", "logout"}
    /\ apc[s] \in {"rotated", "logged_out"} /\ presented[r] = presented[s]
    => s \notin before[r]

\* Every request is answered: in the end none is open, waiting for ever for a
\* slug, an address or a token that another holds (the order of the INSERTs in
\* auth.py:55-67, 115-124).
AuthRequestsEnd == <>[](\A r \in AuthRequests : apc[r] \notin Open)

-----------------------------------------------------------------------------
\* docs/16-security-deep.md:126-130: a refresh token is used once, and whoever
\* uses it again meets a conflict, by which a theft is noticed.
TokensAreUsedOnce ==
  \A r, s \in AuthRequests :
    apc[r] = "rotated" /\ apc[s] = "rotated" /\ presented[r] = presented[s] => r = s
=============================================================================
