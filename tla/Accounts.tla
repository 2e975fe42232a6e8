------------------------------ MODULE Accounts ------------------------------
(***************************************************************************)
(* Users, passwords, OIDC logins, service accounts and groups: the handlers   *)
(* of backend/src/api.rs over the users, service_accounts and group tables.   *)
(*                                                                         *)
(* A client is a browser with at most one session.  Its claims are those of   *)
(* the login: the guards look at them and not at the users table.  Handlers   *)
(* are cut at every database call that a later step relies on; the tables     *)
(* hand out one above the highest id in use, so the id of a deleted row       *)
(* comes back.  Sessions models how long a session lives; here it ends at     *)
(* any time.                                                                *)
(***************************************************************************)
EXTENDS FiniteSets, Integers

CONSTANTS MaxUser, MaxService, MaxCa,  \* bounds on ids and on the number of CAs
          Emails, Secrets, Subjects,   \* addresses, passwords, OIDC subjects
          Blank,                       \* the empty password
          Certs,                       \* certificates that can be shared
          Clients, Null

UserIds == 1..MaxUser
ServiceIds == 1..MaxService

VARIABLES
    users,     \* users: id to row
    services,  \* service_accounts: id to row
    owner,     \* user_certificates: certificate to its owner, or Null
    group,     \* groups: whether the one group exists
    members,   \* group_users of the one group
    shared,    \* group_certificates of the one group
    cas,       \* the number of CAs
    passwordEnabled,
    discovered, \* whether the OIDC provider's metadata are there
    flow,      \* the clients with an oidc_state cookie
    claims,    \* the session of every client, or Null
    pc, reg,   \* the requests under way
    intended,  \* history: user to the password that was last set for it
    disturbed  \* history: users whose password was written by requests that
               \* overlapped each other or the deletion of the row

groupVars == <<group, members, shared>>
oidcVars == <<discovered, flow>>

vars == <<users, services, owner, groupVars, cas, passwordEnabled, oidcVars, claims, pc, reg,
          intended, disturbed>>

Forms == {"plain", "hashed"}  \* how a password is sent

Password == [v : {1, 2}, secret : Secrets]

User == [email : Emails, password : Password \cup {Null}, oidc : Subjects \cup {Null},
         role : {"User", "Admin"}]

Service == [owner : UserIds, issue : BOOLEAN, revoked : BOOLEAN]

Claims == [id : UserIds, role : {"User", "Admin"}, local : BOOLEAN]

\* Null is none of the values it stands for the absence of.
ASSUME AccountsAssumption ==
    /\ {MaxUser, MaxService, MaxCa} \subseteq Nat
    /\ Blank \in Secrets
    /\ Null \notin Secrets \cup Nat \cup Subjects \cup Password \cup Service \cup Claims
    /\ IsFiniteSet(Clients)

Labels == {"idle", "setup_cas", "setup_insert", "setup_ca", "migrate", "change",
           "service_insert", "service_write"}

Reg == [id : UserIds \cup ServiceIds \cup {Null}, password : Password \cup {Null},
        issue : BOOLEAN, op : {"revoke", "delete", Null}, stale : BOOLEAN]

NoReg == [id |-> Null, password |-> Null, issue |-> FALSE, op |-> Null, stale |-> FALSE]

Empty == [x \in {} |-> x]
Put(f, k, v) == [x \in DOMAIN f \cup {k} |-> IF x = k THEN v ELSE f[x]]
Drop(f, S) == [x \in DOMAIN f \ S |-> f[x]]

\* An INTEGER PRIMARY KEY without AUTOINCREMENT.
IsNextId(f, id) ==
    /\ \A x \in DOMAIN f : x < id
    /\ id = 1 \/ id - 1 \in DOMAIN f

Partial(f, S, T) == DOMAIN f \subseteq S /\ \A x \in DOMAIN f : f[x] \in T

\* The shapes of the tables and of the requests.
TypeOK ==
    /\ Partial(users, UserIds, User)
    /\ Partial(services, ServiceIds, Service)
    /\ owner \in [Certs -> UserIds \cup {Null}]
    /\ group \in BOOLEAN /\ members \subseteq UserIds /\ shared \subseteq Certs
    /\ discovered \in BOOLEAN /\ flow \subseteq Clients
    /\ cas \in 0..MaxCa
    /\ passwordEnabled \in BOOLEAN
    /\ claims \in [Clients -> Claims \cup {Null}]
    /\ pc \in [Clients -> Labels]
    /\ reg \in [Clients -> Reg]
    /\ DOMAIN intended = DOMAIN users
    /\ disturbed \subseteq DOMAIN users

Init ==
    /\ users = Empty /\ services = Empty
    /\ owner = [c \in Certs |-> Null]
    /\ group = FALSE /\ members = {} /\ shared = {}
    /\ discovered = FALSE /\ flow = {}
    /\ cas = 0
    /\ passwordEnabled = FALSE
    /\ claims = [p \in Clients |-> Null]
    /\ pc = [p \in Clients |-> "idle"]
    /\ reg = [p \in Clients |-> NoReg]
    /\ intended = Empty
    /\ disturbed = {}

Goto(p, label, r) ==
    /\ pc' = [pc EXCEPT ![p] = label]
    /\ reg' = [reg EXCEPT ![p] = r]

Done(p) == Goto(p, "idle", NoReg)

----------------------------------------------------------------------------
(* Passwords.  V1 is the server's hash of the plain password, V2 its hash of  *)
(* the hash that the frontend sends.                                        *)

\* Password::verify: a V2 hash also takes the plain password, a V1 hash only it.
Verify(password, secret, form) ==
    /\ password # Null
    /\ password.secret = secret
    /\ password.v = 1 => form = "plain"

\* Password::new_server_hash.
ServerHash(secret, form) == [v |-> IF form = "hashed" THEN 2 ELSE 1, secret |-> secret]

\* setup and create_user take an empty password for none.
NewPassword(secret, form) ==
    IF secret = Blank /\ form = "plain" THEN Null ELSE ServerHash(secret, form)

SecretOf(password) == IF password = Null THEN Null ELSE password.secret

\* Requests that will write the password of user u.
Writing(u) == {p \in Clients : pc[p] \in {"migrate", "change"} /\ reg[p].id = u}

\* set_user_password: an UPDATE, which may match no row any more.
SetUserPassword(u, password) ==
    users' = IF u \in DOMAIN users THEN [users EXCEPT ![u].password = password] ELSE users

\* insert_user: the e-mail address is unique.
InsertUser(u, row) ==
    /\ IsNextId(users, u)
    /\ \A v \in DOMAIN users : users[v].email # row.email
    /\ users' = Put(users, u, row)
    /\ intended' = Put(intended, u, SecretOf(row.password))
    /\ disturbed' = IF Writing(u) = {} THEN disturbed ELSE disturbed \cup {u}

----------------------------------------------------------------------------
(* setup, by whoever comes first.                                           *)

\* is_setup, then get_all_ca ...
SetupUsers(p) ==
    /\ pc[p] = "idle"
    /\ users = Empty
    /\ Goto(p, "setup_cas", NoReg)
    /\ UNCHANGED <<users, services, owner, groupVars, cas, passwordEnabled, claims,
                   intended, disturbed, oidcVars>>

\* Mutant: the CAs are not looked at.
NotSetupUsersOnly == TRUE

NotSetup == cas = 0

SetupCas(p) ==
    /\ pc[p] = "setup_cas"
    /\ IF NotSetup THEN Goto(p, "setup_insert", reg[p]) ELSE Done(p)
    /\ UNCHANGED <<users, services, owner, groupVars, cas, passwordEnabled, claims,
                   intended, disturbed, oidcVars>>

\* Requests of setup that have looked and not yet inserted work from what they saw.
Stale == [q \in Clients |->
    IF pc[q] \in {"setup_cas", "setup_insert"}
    THEN [reg[q] EXCEPT !.stale = TRUE] ELSE reg[q]]

\* ... the administrator, and password logins switched on ...
SetupInsert(p, u, e, x, form) ==
    /\ pc[p] = "setup_insert"
    /\ LET password == NewPassword(x, form) IN
       /\ InsertUser(u, [email |-> e, password |-> password, oidc |-> Null, role |-> "Admin"])
       /\ passwordEnabled' = (passwordEnabled \/ password # Null)
    /\ pc' = [pc EXCEPT ![p] = "setup_ca"]
    /\ reg' = [Stale EXCEPT ![p] = NoReg]
    /\ UNCHANGED <<services, owner, groupVars, cas, claims, oidcVars>>

\* ... or an address that is taken meanwhile, with the setting changed already ...
SetupRefused(p, e, x, form) ==
    /\ pc[p] = "setup_insert"
    /\ \E v \in DOMAIN users : users[v].email = e
    /\ passwordEnabled' = (passwordEnabled \/ NewPassword(x, form) # Null)
    /\ Done(p)
    /\ UNCHANGED <<users, services, owner, groupVars, cas, claims, intended, disturbed,
                   oidcVars>>

\* ... and the first CA, whose creation may fail.
SetupCa(p) ==
    /\ pc[p] = "setup_ca"
    /\ \/ cas < MaxCa /\ cas' = cas + 1
       \/ UNCHANGED cas
    /\ pc' = [pc EXCEPT ![p] = "idle"]
    /\ reg' = [Stale EXCEPT ![p] = NoReg]
    /\ UNCHANGED <<users, services, owner, groupVars, passwordEnabled, claims, intended,
                   disturbed, oidcVars>>

----------------------------------------------------------------------------
(* Sessions and their passwords.                                            *)

\* Mutant: the hash is moved to V2 before the password is checked.
VerifyLater(password, secret, form) == password # Null /\ (password.v = 1 => form = "plain")

VerifyLogin(password, secret, form) == Verify(password, secret, form)

\* login reads the row; the token is minted with its role; a V1 hash is to be
\* replaced by a V2 hash of the same password ...
LoginRead(p, u, x, form) ==
    /\ pc[p] = "idle"
    /\ passwordEnabled
    /\ u \in DOMAIN users
    /\ VerifyLogin(users[u].password, x, form)
    /\ claims' = [claims EXCEPT ![p] = [id |-> u, role |-> users[u].role, local |-> TRUE]]
    /\ IF users[u].password.v = 1
       THEN /\ Goto(p, "migrate", [NoReg EXCEPT !.id = u, !.password = [v |-> 2, secret |-> x]])
            /\ disturbed' = IF Writing(u) = {} THEN disturbed ELSE disturbed \cup {u}
       ELSE /\ Done(p)
            /\ UNCHANGED disturbed
    /\ UNCHANGED <<users, services, owner, groupVars, cas, passwordEnabled, intended,
                   oidcVars>>

\* ... whatever the row holds by then.
LoginMigrate(p) ==
    /\ pc[p] = "migrate"
    /\ SetUserPassword(reg[p].id, reg[p].password)
    /\ Done(p)
    /\ UNCHANGED <<services, owner, groupVars, cas, passwordEnabled, claims, intended,
                   disturbed, oidcVars>>

\* change_password checks the old password, where there is one, against the row ...
ChangePasswordRead(p, x, form, y, newForm) ==
    /\ pc[p] = "idle"
    /\ claims[p] # Null
    /\ LET u == claims[p].id IN
       /\ u \in DOMAIN users
       /\ users[u].password # Null => Verify(users[u].password, x, form)
       /\ Goto(p, "change", [NoReg EXCEPT !.id = u, !.password = ServerHash(y, newForm)])
       /\ disturbed' = IF Writing(u) = {} THEN disturbed ELSE disturbed \cup {u}
    /\ UNCHANGED <<users, services, owner, groupVars, cas, passwordEnabled, claims,
                   intended, oidcVars>>

\* ... and writes the new one.
ChangePasswordWrite(p) ==
    /\ pc[p] = "change"
    /\ SetUserPassword(reg[p].id, reg[p].password)
    /\ intended' = IF reg[p].id \in DOMAIN users
                   THEN [intended EXCEPT ![reg[p].id] = reg[p].password.secret] ELSE intended
    /\ Done(p)
    /\ UNCHANGED <<services, owner, groupVars, cas, passwordEnabled, claims, disturbed,
                   oidcVars>>

\* Mutant: an address that is known takes over the subject of the login.
OidcLinkAny(u, e) == users[u].email = e

\* The row that register_oidc_user links to a new subject.
OidcLink(u, e) == users[u].email = e /\ users[u].oidc = Null

\* What verify_auth_code makes of the provider's answer: never a password, never
\* an administrator.
OidcUser(s, e) == [email |-> e, password |-> Null, oidc |-> s, role |-> "User"]

\* OidcAuth::new asks the provider for its metadata, or is not asked at all.
Discover == discovered' \in BOOLEAN

\* oidc_login: where there are no metadata it tries to get them; what the callback
\* needs (generate_oidc_url) goes into a cookie of the browser.
OidcLogin(p) ==
    /\ pc[p] = "idle"
    /\ IF discovered THEN UNCHANGED discovered ELSE Discover /\ discovered'
    /\ flow' = flow \cup {p}
    /\ UNCHANGED <<users, services, owner, groupVars, cas, passwordEnabled, claims, pc, reg,
                   intended, disturbed>>

\* A callback that fails after the cookie was taken back, or a cookie that ran out.
OidcCallbackFails(p) ==
    /\ p \in flow
    /\ flow' = flow \ {p}
    /\ UNCHANGED <<users, services, owner, groupVars, cas, passwordEnabled, discovered,
                   claims, pc, reg, intended, disturbed>>

\* oidc_callback with register_oidc_user: the row of the subject; else the row of
\* the address, which must not have another subject; else a new user.
OidcCallback(p, u, s, e) ==
    /\ pc[p] = "idle"
    /\ discovered /\ p \in flow
    /\ flow' = flow \ {p}
    /\ \/ /\ u \in DOMAIN users
          /\ users[u].oidc = s
          /\ UNCHANGED <<users, intended, disturbed>>
       \/ /\ \A v \in DOMAIN users : users[v].oidc # s
          /\ u \in DOMAIN users
          /\ OidcLink(u, e)
          /\ users' = [users EXCEPT ![u].oidc = s]
          /\ UNCHANGED <<intended, disturbed>>
       \/ /\ \A v \in DOMAIN users : users[v].oidc # s
          /\ InsertUser(u, OidcUser(s, e))
    /\ claims' = [claims EXCEPT ![p] = [id |-> u, role |-> users'[u].role, local |-> FALSE]]
    /\ reg' = Stale
    /\ UNCHANGED <<services, owner, groupVars, cas, passwordEnabled, discovered, pc>>

\* logout, or the session runs out.
EndSession(p) ==
    /\ pc[p] = "idle"
    /\ claims[p] # Null
    /\ claims' = [claims EXCEPT ![p] = Null]
    /\ UNCHANGED <<users, services, owner, groupVars, cas, passwordEnabled, pc, reg,
                   intended, disturbed, oidcVars>>

----------------------------------------------------------------------------
(* Users and settings.                                                      *)

Privileged(p) == claims[p] # Null /\ claims[p].role = "Admin"

LocalAdmin(p) == Privileged(p) /\ claims[p].local

\* update_settings: password logins on or off, and the OIDC provider anew.
UpdateSettings(p) ==
    /\ pc[p] = "idle"
    /\ Privileged(p)
    /\ passwordEnabled' \in BOOLEAN
    /\ Discover
    /\ UNCHANGED <<users, services, owner, groupVars, cas, flow, claims, pc, reg, intended,
                   disturbed>>

CreateUser(p, u, e, role, x, form) ==
    /\ pc[p] = "idle"
    /\ Privileged(p)
    /\ InsertUser(u, [email |-> e, password |-> NewPassword(x, form), oidc |-> Null,
                      role |-> role])
    /\ reg' = Stale
    /\ UNCHANGED <<services, owner, groupVars, cas, passwordEnabled, claims, pc,
                   oidcVars>>

\* What the UPDATE of update_user writes: password and subject stay.
UpdateUserRow(u, e, role) == [users EXCEPT ![u].email = e, ![u].role = role]

\* update_user: one's own row or, for an administrator, any; a plain user cannot
\* ask for the administrator's role.
UpdateUser(p, u, e, role) ==
    /\ pc[p] = "idle"
    /\ claims[p] # Null
    /\ claims[p].id = u \/ claims[p].role = "Admin"
    /\ ~(claims[p].role = "User" /\ role = "Admin")
    /\ u \in DOMAIN users
    /\ \A v \in DOMAIN users \ {u} : users[v].email # e
    /\ users' = UpdateUserRow(u, e, role)
    /\ UNCHANGED <<services, owner, groupVars, cas, passwordEnabled, claims, pc, reg,
                   intended, disturbed, oidcVars>>

\* The rows that go with user u.
ServicesOf(u) == {s \in DOMAIN services : services[s].owner = u}
CertsOf(u) == {c \in Certs : owner[c] = u}

\* Requests that have authorised an act on one of the service accounts in S.
StaleServices(S) == [q \in Clients |->
    IF pc[q] = "service_write" /\ reg[q].id \in S
    THEN [reg[q] EXCEPT !.stale = TRUE] ELSE reg[q]]

\* Mutant: the service accounts of a deleted user stay.
DeleteUserOnly(u) ==
    /\ users' = Drop(users, {u})
    /\ services' = services
    /\ owner' = [c \in Certs |-> IF owner[c] = u THEN Null ELSE owner[c]]
    /\ members' = members \ {u}
    /\ shared' = shared \ CertsOf(u)
    /\ UNCHANGED group

\* delete_user, with the ON DELETE CASCADE of the other tables.
DeleteUserRows(u) ==
    /\ users' = Drop(users, {u})
    /\ services' = Drop(services, ServicesOf(u))
    /\ owner' = [c \in Certs |-> IF owner[c] = u THEN Null ELSE owner[c]]
    /\ members' = members \ {u}
    /\ shared' = shared \ CertsOf(u)
    /\ UNCHANGED group

\* Nobody deletes the account of the own session.
DeleteUser(p, u) ==
    /\ pc[p] = "idle"
    /\ Privileged(p)
    /\ u \in DOMAIN users
    /\ u # claims[p].id
    /\ DeleteUserRows(u)
    /\ intended' = Drop(intended, {u})
    /\ disturbed' = disturbed \ {u}
    /\ reg' = StaleServices(ServicesOf(u))
    /\ UNCHANGED <<cas, passwordEnabled, claims, pc, oidcVars>>

\* delete_ca, of a CA without certificates.
DeleteCa(p) ==
    /\ pc[p] = "idle"
    /\ LocalAdmin(p)
    /\ cas > 0
    /\ cas' = cas - 1
    /\ UNCHANGED <<users, services, owner, groupVars, passwordEnabled, claims, pc, reg,
                   intended, disturbed, oidcVars>>

----------------------------------------------------------------------------
(* Service accounts.                                                        *)

\* ensure_can_manage_service_accounts, for a human session.
CanManage(c, u) == c.role = "Admin" \/ c.id = u

\* create_service_account: the rights, the scopes and the owner are checked ...
CreateServiceRead(p, u, issue) ==
    /\ pc[p] = "idle"
    /\ claims[p] # Null
    /\ CanManage(claims[p], u)
    /\ issue => claims[p].role = "Admin"
    /\ u \in DOMAIN users
    /\ Goto(p, "service_insert", [NoReg EXCEPT !.id = u, !.issue = issue])
    /\ UNCHANGED <<users, services, owner, groupVars, cas, passwordEnabled, claims,
                   intended, disturbed, oidcVars>>

\* insert_service_account.
InsertService(s, u, issue) ==
    Put(services, s, [owner |-> u, issue |-> issue, revoked |-> FALSE])

\* ... and the row is inserted, unless the owner is gone by then.
CreateServiceInsert(p, s) ==
    /\ pc[p] = "service_insert"
    /\ IsNextId(services, s)
    /\ services' = IF reg[p].id \in DOMAIN users
                   THEN InsertService(s, reg[p].id, reg[p].issue) ELSE services
    /\ Done(p)
    /\ UNCHANGED <<users, owner, groupVars, cas, passwordEnabled, claims, intended,
                   disturbed, oidcVars>>

\* Mutant: any session may act on any service account.
AuthorizedAny(p, s) == claims[p] # Null

Authorized(p, s) == claims[p] # Null /\ CanManage(claims[p], services[s].owner)

\* authorize_service_account reads the row ...
AuthorizeService(p, s, op) ==
    /\ pc[p] = "idle"
    /\ s \in DOMAIN services
    /\ Authorized(p, s)
    /\ Goto(p, "service_write", [NoReg EXCEPT !.id = s, !.op = op])
    /\ UNCHANGED <<users, services, owner, groupVars, cas, passwordEnabled, claims,
                   intended, disturbed, oidcVars>>

\* The rows after the revocation or the deletion of account s, which may be gone.
RevokeServiceRow(s) ==
    IF s \in DOMAIN services THEN [services EXCEPT ![s].revoked = TRUE] ELSE services
DeleteServiceRow(s) == Drop(services, {s})

\* ... and revoke_service_account or delete_service_account act on its id.
WriteService(p) ==
    /\ pc[p] = "service_write"
    /\ LET s == reg[p].id IN
       /\ services' = IF reg[p].op = "revoke" THEN RevokeServiceRow(s)
                                              ELSE DeleteServiceRow(s)
       /\ reg' = [(IF reg[p].op = "delete" THEN StaleServices({s}) ELSE reg)
                    EXCEPT ![p] = NoReg]
    /\ pc' = [pc EXCEPT ![p] = "idle"]
    /\ UNCHANGED <<users, owner, groupVars, cas, passwordEnabled, claims, intended,
                   disturbed, oidcVars>>

----------------------------------------------------------------------------
(* Certificates shared through a group.                                     *)

\* create_user_certificate: anybody for themselves, a local administrator for
\* any user.
IssueCert(p, c, u) ==
    /\ pc[p] = "idle"
    /\ claims[p] # Null
    /\ claims[p].id = u \/ LocalAdmin(p)
    /\ u \in DOMAIN users /\ owner[c] = Null
    /\ owner' = [owner EXCEPT ![c] = u]
    /\ UNCHANGED <<users, services, groupVars, cas, passwordEnabled, claims, pc, reg,
                   intended, disturbed, oidcVars>>

\* insert_group.
InsertGroup == group' = TRUE /\ UNCHANGED <<members, shared>>

\* create_group and delete_group, which takes members and certificates along.
CreateGroup(p) ==
    /\ pc[p] = "idle"
    /\ LocalAdmin(p)
    /\ ~group
    /\ InsertGroup
    /\ UNCHANGED <<users, services, owner, cas, passwordEnabled, claims, pc,
                   reg, intended, disturbed, oidcVars>>

DeleteGroupRows == group' = FALSE /\ members' = {} /\ shared' = {}

DeleteGroup(p) ==
    /\ pc[p] = "idle"
    /\ LocalAdmin(p)
    /\ group
    /\ DeleteGroupRows
    /\ UNCHANGED <<users, services, owner, cas, passwordEnabled, claims, pc,
                   reg, intended, disturbed, oidcVars>>

\* set_group_users and set_group_certificates replace all rows of the group in
\* one transaction, which fails when one of them does not exist.
ReplaceMembers(S) ==
    /\ group \/ S = {}
    /\ S \subseteq DOMAIN users
    /\ members' = S
    /\ UNCHANGED <<group, shared>>

ReplaceShared(S) ==
    /\ group \/ S = {}
    /\ \A c \in S : owner[c] # Null
    /\ shared' = S
    /\ UNCHANGED <<group, members>>

SetGroupUsers(p, S) ==
    /\ pc[p] = "idle"
    /\ LocalAdmin(p)
    /\ ReplaceMembers(S)
    /\ UNCHANGED <<users, services, owner, cas, passwordEnabled, claims, pc,
                   reg, intended, disturbed, oidcVars>>

SetGroupCerts(p, S) ==
    /\ pc[p] = "idle"
    /\ LocalAdmin(p)
    /\ ReplaceShared(S)
    /\ UNCHANGED <<users, services, owner, cas, passwordEnabled, claims, pc,
                   reg, intended, disturbed, oidcVars>>

Stored == {c \in Certs : owner[c] # Null}

\* get_visible_certs: owned, or shared with a group of the user.
VisibleCerts(u) == {c \in Stored : owner[c] = u \/ (c \in shared /\ u \in members)}

\* Who can be behind a request: a session, or the token of a service account,
\* which stands for its owner without the owner's role.
Holders == [id : UserIds, role : {"User", "Admin"}, local : BOOLEAN, scopes : {Null}]
             \cup [id : UserIds, role : {"User"}, local : {FALSE},
                   scopes : SUBSET {"cert:read", "cert:issue"}]

IsLocalAdmin(c) == c.scopes = Null /\ c.role = "Admin" /\ c.local

\* is_service and has_scope: a service account needs the scope, a session does not.
MayRead(c) == c.scopes = Null \/ "cert:read" \in c.scopes

\* get_certificates.
Listed(c) ==
    IF ~MayRead(c) THEN {} ELSE IF IsLocalAdmin(c) THEN Stored ELSE VisibleCerts(c.id)

\* user_shares_group_with_cert.
SharesGroup(u, x) == x \in shared /\ u \in members

\* Mutant: a group gives nothing to a service account.
CanAccessSecretOwner(c, x) ==
    \/ IsLocalAdmin(c)
    \/ owner[x] = c.id
    \/ c.scopes = Null /\ SharesGroup(c.id, x)

\* can_access_cert_secret.
CanAccessSecret(c, x) ==
    \/ IsLocalAdmin(c)
    \/ owner[x] = c.id
    \/ SharesGroup(c.id, x)

\* The certificates that download_certificate gives away, and those whose
\* password fetch_certificate_password does.
Downloadable(c) == {x \in Stored : MayRead(c) /\ CanAccessSecret(c, x)}
PasswordsFor(c) == {x \in Stored : MayRead(c) /\ CanAccessSecret(c, x)}

----------------------------------------------------------------------------
\* The server is started: sessions and requests are gone, empty passwords are
\* taken away (fix_password) ...
Restart ==
    /\ LET blank == {u \in DOMAIN users : SecretOf(users[u].password) = Blank} IN
       /\ users' = [u \in DOMAIN users |->
                      IF u \in blank THEN [users[u] EXCEPT !.password = Null] ELSE users[u]]
       /\ intended' = [u \in DOMAIN users |-> IF u \in blank THEN Null ELSE intended[u]]
    /\ claims' = [p \in Clients |-> Null]
    /\ pc' = [p \in Clients |-> "idle"]
    /\ reg' = [p \in Clients |-> NoReg]
    /\ Discover
    /\ UNCHANGED <<services, owner, groupVars, cas, passwordEnabled, flow, disturbed>>

\* ... or, with VAULTLS_ACCOUNT_EMAIL set, to write one password and exit.
ResetPassword(u, x) ==
    /\ u \in DOMAIN users
    /\ SetUserPassword(u, [v |-> 2, secret |-> x])
    /\ intended' = [intended EXCEPT ![u] = x]
    /\ disturbed' = disturbed \ {u}
    /\ claims' = [p \in Clients |-> Null]
    /\ pc' = [p \in Clients |-> "idle"]
    /\ reg' = [p \in Clients |-> NoReg]
    /\ Discover
    /\ UNCHANGED <<services, owner, groupVars, cas, passwordEnabled, flow>>

Setup(p) ==
    \/ SetupUsers(p) \/ SetupCas(p) \/ SetupCa(p)
    \/ \E e \in Emails, x \in Secrets, f \in Forms :
         \/ \E u \in UserIds : SetupInsert(p, u, e, x, f)
         \/ SetupRefused(p, e, x, f)

Session(p) ==
    \/ \E u \in UserIds, x \in Secrets, f \in Forms : LoginRead(p, u, x, f)
    \/ \E x, y \in Secrets, f, g \in Forms : ChangePasswordRead(p, x, f, y, g)
    \/ LoginMigrate(p) \/ ChangePasswordWrite(p)
    \/ \E u \in UserIds, s \in Subjects, e \in Emails : OidcCallback(p, u, s, e)
    \/ OidcLogin(p) \/ OidcCallbackFails(p)
    \/ EndSession(p)

Admin(p) ==
    \/ UpdateSettings(p) \/ DeleteCa(p)
    \/ \E u \in UserIds, e \in Emails, role \in {"User", "Admin"} :
         \/ \E x \in Secrets, f \in Forms : CreateUser(p, u, e, role, x, f)
         \/ UpdateUser(p, u, e, role)
    \/ \E u \in UserIds : DeleteUser(p, u)

Services(p) ==
    \/ \E u \in UserIds, i \in BOOLEAN : CreateServiceRead(p, u, i)
    \/ \E s \in ServiceIds : CreateServiceInsert(p, s)
    \/ \E s \in ServiceIds, op \in {"revoke", "delete"} : AuthorizeService(p, s, op)
    \/ WriteService(p)

Sharing(p) ==
    \/ \E c \in Certs, u \in UserIds : IssueCert(p, c, u)
    \/ CreateGroup(p) \/ DeleteGroup(p)
    \/ \E S \in SUBSET UserIds : SetGroupUsers(p, S)
    \/ \E S \in SUBSET Certs : SetGroupCerts(p, S)

Next ==
    \/ \E p \in Clients : Setup(p) \/ Session(p) \/ Admin(p) \/ Services(p) \/ Sharing(p)
    \/ Restart
    \/ \E u \in UserIds, x \in Secrets : ResetPassword(u, x)

Spec == Init /\ [][Next]_vars

----------------------------------------------------------------------------
\* No row belongs to a user or to a group that is gone, also when the user is
\* deleted between the check of a request and its insertion: nothing is left for
\* the next user with that id to inherit.
NoOrphans ==
    /\ \A s \in DOMAIN services : services[s].owner \in DOMAIN users
    /\ \A c \in Certs : owner[c] \in DOMAIN users \cup {Null}
    /\ members \subseteq DOMAIN users
    /\ \A c \in shared : owner[c] # Null
    /\ ~group => members = {} /\ shared = {}

\* Setup is possible only once: an administrator is created without a login
\* only while there is neither a user nor a CA, also after the users table has
\* been emptied by sessions of deleted users (unless a request that was under
\* way filled the tables after setup had looked).
SetupOnce ==
    [][\A p \in Clients :
         pc[p] = "setup_insert" /\ pc'[p] = "setup_ca" /\ ~reg[p].stale
             => users = Empty /\ cas = 0]_vars

\* The password of a user is the one last set for it: migrating a V1 hash at a
\* login, restarts and renumbered rows do not bring back another (unless a
\* write of the password overlaps another one of the same user).
PasswordSticks ==
    \A u \in DOMAIN users \ disturbed : SecretOf(users[u].password) = intended[u]

\* An account linked to an OIDC subject is not linked to another one while it
\* exists, and no subject has two accounts.
LinkedForGood ==
    [][/\ \A u \in DOMAIN users \cap DOMAIN users' :
            users[u].oidc # Null => users'[u].oidc = users[u].oidc
       /\ \A u, v \in DOMAIN users' :
            users'[u].oidc = users'[v].oidc /\ users'[u].oidc # Null => u = v]_vars

\* A session changes only service accounts that it may manage, and none that
\* may issue comes from a plain user, also when the row changes hands between
\* the check and the write (unless the row that was checked is gone and its id
\* taken over).
ServicesWithinRights ==
    [][\A p \in Clients :
         pc[p] \in {"service_write", "service_insert"} /\ pc'[p] = "idle" /\ claims'[p] # Null
            /\ ~reg[p].stale =>
               \A s \in ServiceIds :
                 LET before == IF s \in DOMAIN services THEN services[s] ELSE Null
                     after == IF s \in DOMAIN services' THEN services'[s] ELSE Null
                 IN before # after =>
                      /\ before # Null => CanManage(claims[p], before.owner)
                      /\ after # Null => /\ CanManage(claims[p], after.owner)
                                         /\ after.issue => \/ claims[p].role = "Admin"
                                                           \/ before # Null]_vars

\* Whoever is behind a request, a session or a service account that stands for
\* its owner, sees in the list exactly what can be downloaded and whose password
\* is given away, while users, certificates and the group come and go.
ListedIsDownloadable ==
    \A c \in Holders : Listed(c) = Downloadable(c) /\ Listed(c) = PasswordsFor(c)

=============================================================================
